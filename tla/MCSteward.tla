----------------------------- MODULE MCSteward -----------------------------
(* Small instances of Steward for TLC. *)
EXTENDS Steward, TLC

CONSTANTS g1

OneGoal == {g1}
=============================================================================
