----------------------------- MODULE RunPromise -----------------------------
(***************************************************************************)
(* What those who start runs of the coding agent may rely on, and what     *)
(* they keep to themselves: there is one place for all of them.  A run has *)
(* the place from its start until its end is written, its agent works only *)
(* while it has it, and whoever asked for a stop never reads that the run  *)
(* settled.  Of a run that its application left behind, the next one knows *)
(* that it is over or leaves it the place.                                 *)
(***************************************************************************)
CONSTANTS
  Runs,
  Rollback   \* whether the end of a run may be rolled back with work of others

VARIABLES
  state,     \* what a run's job is called, or "none"
  agent      \* what there is of its agent: to be spawned, live, or outliving its application

rvars == <<state, agent>>

Open == {"queued", "running", "cancel_requested"}
HasPlace(r) == state[r] \in Open \cup {"outcome_unknown"} \/ agent[r] # "none"

Init == state = [r \in Runs |-> "none"] /\ agent = [r \in Runs |-> "none"]

Moves(r, st, ag) == state' = [state EXCEPT ![r] = st] /\ agent' = [agent EXCEPT ![r] = ag]

Start(r) ==
  /\ state[r] = "none" /\ \A s \in Runs : ~HasPlace(s)
  /\ Moves(r, "queued", "due")

Spawn(r) == agent[r] = "due" /\ Moves(r, state[r], "live")

Accept(r) == agent[r] = "live" /\ state[r] = "queued" /\ Moves(r, "running", "live")

StopAsked(r) == state[r] \in {"queued", "running"} /\ Moves(r, "cancel_requested", agent[r])

(* A run that was asked to stop is interrupted, any other settles when it was accepted, or fails. *)
End(r) ==
  /\ agent[r] = "live" /\ state[r] \in Open
  /\ \/ state[r] = "cancel_requested" /\ Moves(r, "interrupted", "none")
     \/ state[r] = "running" /\ Moves(r, "settled", "none")
     \/ state[r] # "cancel_requested" /\ Moves(r, "failed", "none")
     \/ Rollback /\ state[r] # "cancel_requested" /\ Moves(r, state[r], "none")

OrphanEnds(r) == agent[r] = "orphan" /\ Moves(r, state[r], "none")

(* The application dies and starts again. Where an agent may live the place is kept, and *)
(* a run that nobody had spawned is over.                                                *)
Die ==
  \E alive \in SUBSET {r \in Runs : agent[r] \in {"live", "orphan"}},
     doubt \in SUBSET {r \in Runs : agent[r] \in {"live", "orphan"} \/ state[r] = "outcome_unknown"} :
    /\ agent' = [r \in Runs |-> IF r \in alive THEN "orphan" ELSE "none"]
    /\ state' = [r \in Runs |-> IF state[r] \notin Open \cup {"outcome_unknown"} THEN state[r]
                                ELSE IF r \in alive \cup doubt THEN "outcome_unknown"
                                ELSE "interrupted"]

Next ==
  \/ \E r \in Runs :
       Start(r) \/ Spawn(r) \/ Accept(r) \/ StopAsked(r) \/ End(r) \/ OrphanEnds(r)
  \/ Die

Spec == Init /\ [][Next]_rvars
=============================================================================
