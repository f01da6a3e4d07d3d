---------------------------- MODULE GoalPromise ----------------------------
(***************************************************************************)
(* What a delegated goal promises its user, whatever fails: no more runs   *)
(* than the budget granted, none before the one before it is over, none    *)
(* after the goal is withdrawn, and a goal counts as complete only when    *)
(* each step of a plan has been proved by host evidence.                   *)
(***************************************************************************)
EXTENDS Naturals, FiniteSets

CONSTANTS
  Goals,
  Runs,     \* runs a goal may ask for, named by what they are for
  GoalOf,   \* the goal each run works for
  Plans,    \* the sets of runs that together complete each goal
  Budget    \* runs a goal may start

VARIABLES
  withdrawn, \* goals the user has taken back
  started,   \* runs that were handed to an agent
  working,   \* runs whose agent may still act
  proved,    \* runs whose result was proved
  complete   \* goals reported as complete

gvars == <<withdrawn, started, working, proved, complete>>

Started(g) == {r \in started : GoalOf[r] = g}

Init ==
  /\ withdrawn = {} /\ started = {} /\ working = {} /\ proved = {} /\ complete = {}

Start(r) ==
  /\ r \notin started /\ working = {}
  /\ GoalOf[r] \notin withdrawn
  /\ Cardinality(Started(GoalOf[r])) < Budget
  /\ started' = started \cup {r} /\ working' = {r}
  /\ UNCHANGED <<withdrawn, proved, complete>>

(* The last proof of a plan may complete its goal in the same step. *)
End(r) ==
  /\ r \in working /\ working' = working \ {r}
  /\ proved' \in {proved, proved \cup {r}}
  /\ \/ complete' = complete
     \/ /\ complete' = complete \cup {GoalOf[r]}
        /\ GoalOf[r] \notin withdrawn
        /\ r \in proved' /\ \E p \in Plans[GoalOf[r]] : p \subseteq proved'
  /\ UNCHANGED <<withdrawn, started>>

(* The user may vouch for a result. *)
Approve(r) ==
  /\ proved' = proved \cup {r}
  /\ UNCHANGED <<withdrawn, started, working, complete>>

(* A process that dies in the middle of a withdrawal takes the run with it. *)
Withdraw(g) ==
  /\ withdrawn' = withdrawn \cup {g} /\ working' \in SUBSET working
  /\ UNCHANGED <<started, proved, complete>>

Next == (\E r \in Runs : Start(r) \/ End(r) \/ Approve(r)) \/ \E g \in Goals : Withdraw(g)

Spec == Init /\ [][Next]_gvars
=============================================================================
