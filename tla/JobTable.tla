------------------------------ MODULE JobTable ------------------------------
(***************************************************************************)
(* The durable table task_queue_jobs and the statements that change it     *)
(* (src/src-tauri/src/task_queue.rs).  A table is a function from job      *)
(* identities to rows; the identity is the UNIQUE(kind, job_key,           *)
(* generation) key of the schema within the one conversation scope.  A row *)
(* is never deleted, so an identity without a row is an "absent" row.      *)
(*                                                                         *)
(* The claim token: the code stores a fresh UUID in owner at every claim.  *)
(* A claim also increments attempts and nothing ever resets attempts, so   *)
(* the number of the claim names it as uniquely as the UUID does; owner 0  *)
(* is NULL.  The deadline available_at_ms is the flag ready, and           *)
(* lease_until_ms, which nothing reads, is left out.                       *)
(*                                                                         *)
(* An operator whose name has a suffix (Claimable_Running) is a slip a     *)
(* maintainer could make in the operator of that name; no action uses it.  *)
(* The project's PROJECT.json says which property each slip would break.   *)
(***************************************************************************)
EXTENDS Integers, FiniteSets

JobStates == {"queued", "running", "completed", "failed", "cancelled", "interrupted"}

(* States in which a row still asks for work or is being worked on. *)
LiveStates == {"queued", "running"}

(* States no statement of the queue itself leaves. *)
FinalStates == {"completed", "failed", "cancelled"}

LaneOf(kind) ==
  CASE kind \in {"user_input", "terminal_question"} -> "conversation"
    [] kind \in {"speech", "progress_speech"}       -> "speech"
    [] kind = "worker"                              -> "worker"

AbsentRow == [state |-> "absent", payload |-> "none", owner |-> 0,
              attempts |-> 0, ready |-> FALSE, rowid |-> 0]

Rows(payloads) ==
  [state    : JobStates \cup {"absent"},
   payload  : payloads \cup {"none"},
   owner    : Nat,
   attempts : Nat,
   ready    : BOOLEAN,
   rowid    : Nat]

EmptyTable(ids) == [j \in ids |-> AbsentRow]

Present(jobs) == {j \in DOMAIN jobs : jobs[j].state # "absent"}
Live(jobs)    == {j \in DOMAIN jobs : jobs[j].state \in LiveStates}

(* The keys with a row in flight, whatever its kind: what enqueue_text and *)
(* active_previous ask about.                                              *)
LiveKeys(jobs) == {j.key : j \in Live(jobs)}

-----------------------------------------------------------------------------
(* enqueue: the answer to a row of the same identity, the capacity check, *)
(* and the insert.                                                        *)

SameJob(jobs, j, payload) == jobs[j].state # "absent" /\ jobs[j].payload = payload

PendingOf(jobs, kind) == {j \in Live(jobs) : j.kind = kind}

HasRoom(jobs, kind, maxPending) == Cardinality(PendingOf(jobs, kind)) < maxPending

NextRowid(jobs) == Cardinality(Present(jobs)) + 1

NewRow(jobs, payload) ==
  [state |-> "queued", payload |-> payload, owner |-> 0,
   attempts |-> 0, ready |-> TRUE, rowid |-> NextRowid(jobs)]

Inserted(jobs, j, payload) == [jobs EXCEPT ![j] = NewRow(jobs, payload)]

-----------------------------------------------------------------------------
(* claim: the oldest ready row of the lane, terminal questions last. *)

(* Slip: a row whose lease looks old is handed out again while it runs. *)
Claimable_Running(jobs, lane) ==
  {j \in DOMAIN jobs : LaneOf(j.kind) = lane /\ jobs[j].state \in LiveStates /\ jobs[j].ready}

Claimable(jobs, lane) ==
  {j \in DOMAIN jobs : /\ LaneOf(j.kind) = lane
                       /\ jobs[j].state = "queued"
                       /\ jobs[j].ready}

Precedes(jobs, i, j) ==
  \/ i.kind # "terminal_question" /\ j.kind = "terminal_question"
  \/ /\ (i.kind = "terminal_question") = (j.kind = "terminal_question")
     /\ jobs[i].rowid < jobs[j].rowid

IsNext(jobs, lane, j) ==
  /\ j \in Claimable(jobs, lane)
  /\ \A i \in Claimable(jobs, lane) \ {j} : Precedes(jobs, j, i)

Claimed(jobs, j) ==
  [jobs EXCEPT ![j].state = "running",
               ![j].attempts = @ + 1,
               ![j].owner = jobs[j].attempts + 1]

-----------------------------------------------------------------------------
(* finish, fail, fail_terminal: only the owner of a running row. *)

Owns(jobs, j, owner) == jobs[j].state = "running" /\ jobs[j].owner = owner

Settled(jobs, j, state) == [jobs EXCEPT ![j].state = state, ![j].owner = 0]

Finished(jobs, j) == Settled(jobs, j, "completed")

FailedTerminally(jobs, j) == Settled(jobs, j, "failed")

(* Slip: the retry limit is off by one. *)
Retried_OneMore(jobs, j, maxAttempts) ==
  IF jobs[j].attempts <= maxAttempts
  THEN [Settled(jobs, j, "queued") EXCEPT ![j].ready = FALSE]
  ELSE Settled(jobs, j, "failed")

(* Slip: a state the schema's CHECK does not know. *)
Retried_UnknownState(jobs, j, maxAttempts) == Settled(jobs, j, "retrying")

(* A retry waits for its backoff: the row is queued but not ready. *)
Retried(jobs, j, maxAttempts) ==
  IF jobs[j].attempts < maxAttempts
  THEN [Settled(jobs, j, "queued") EXCEPT ![j].ready = FALSE]
  ELSE Settled(jobs, j, "failed")

-----------------------------------------------------------------------------
(* recover and cancel_key: bulk updates that ask for no owner. *)

(* Slip: only the interrupted lanes are recovered. *)
Recovered_NoReplay(jobs, replayLanes, interruptLanes) ==
  [j \in DOMAIN jobs |->
     IF LaneOf(j.kind) \in interruptLanes /\ jobs[j].state \in LiveStates
     THEN [jobs[j] EXCEPT !.state = "interrupted", !.owner = 0]
     ELSE jobs[j]]

Recovered(jobs, replayLanes, interruptLanes) ==
  [j \in DOMAIN jobs |->
     CASE /\ LaneOf(j.kind) \in replayLanes
          /\ jobs[j].state = "running"
            -> [jobs[j] EXCEPT !.state = "queued", !.owner = 0, !.ready = TRUE]
       [] /\ LaneOf(j.kind) \in interruptLanes
          /\ jobs[j].state \in LiveStates
            -> [jobs[j] EXCEPT !.state = "interrupted", !.owner = 0]
       [] OTHER -> jobs[j]]

CancelledWhere(jobs, chosen) ==
  [j \in DOMAIN jobs |->
     IF j \in chosen /\ jobs[j].state \in LiveStates
     THEN [jobs[j] EXCEPT !.state = "cancelled", !.owner = 0]
     ELSE jobs[j]]

CancelledKey(jobs, key) == CancelledWhere(jobs, {j \in DOMAIN jobs : j.key = key})
=============================================================================
