----------------------------- MODULE JobPromise -----------------------------
(***************************************************************************)
(* What the durable queue promises to each job: the life of a row of       *)
(* task_queue_jobs, whoever moves it.  Two promises matter to consumers.   *)
(* A job that is completed, failed or cancelled never comes back.  A job   *)
(* that people can hear (Audible) and that somebody has started is never   *)
(* started a second time unless a person asks for it (Replayed): only one  *)
(* that nobody ever started may be put back automatically (Requeued).      *)
(***************************************************************************)
EXTENDS Integers

CONSTANTS
  Jobs,
  Audible    \* the jobs that play sound: started once, then never by itself

VARIABLES
  state,     \* each job's state, or "absent"
  attempts   \* how often each job was claimed

vars == <<state, attempts>>

Init ==
  /\ state = [j \in Jobs |-> "absent"]
  /\ attempts = [j \in Jobs |-> 0]

Moves(j, from, to) == state[j] \in from /\ state'[j] \in to

Counted(j) == attempts'[j] = attempts[j] + 1
Uncounted(j) == attempts'[j] = attempts[j]

Accepted(j)    == Moves(j, {"absent"}, {"queued", "completed", "interrupted"}) /\ Uncounted(j)
Taken(j)       == Moves(j, {"queued"}, {"running"}) /\ Counted(j)
Ended(j)       == Moves(j, {"running"}, {"completed", "failed"}) /\ Uncounted(j)
GivenBack(j)   == j \notin Audible /\ Moves(j, {"running"}, {"queued"}) /\ Uncounted(j)
Stopped(j)     == Moves(j, {"queued", "running"}, {"cancelled", "interrupted"}) /\ Uncounted(j)
Replayed(j)    == Moves(j, {"interrupted"}, {"running"}) /\ Counted(j)
Requeued(j)    == Moves(j, {"interrupted"}, {"queued"}) /\ attempts[j] = 0 /\ Uncounted(j)
Untouched(j)   == state'[j] = state[j] /\ Uncounted(j)

Advances(j) ==
  \/ Accepted(j) \/ Taken(j) \/ Ended(j) \/ GivenBack(j)
  \/ Stopped(j) \/ Replayed(j) \/ Requeued(j) \/ Untouched(j)

(* One transaction may move several rows. *)
Next == \A j \in Jobs : Advances(j)

Spec == Init /\ [][Next]_vars
=============================================================================
