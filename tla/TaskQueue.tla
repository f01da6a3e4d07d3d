----------------------------- MODULE TaskQueue -----------------------------
(***************************************************************************)
(* The queue at work: the lane loops of queue_runtime.rs (run_lane,        *)
(* process_job) claim rows of the job table, hold a copy of the job while  *)
(* its handler runs, and write the outcome back; users add jobs, cancel    *)
(* keys and replay interrupted speech; the process may die at any point    *)
(* and start again.                                                        *)
(*                                                                         *)
(* What a handler computes is abstracted to the way it ends.  Its effect   *)
(* (a saved answer, a spoken answer) commits in the transaction that       *)
(* finishes the row, so commits counts the effects a row has had.          *)
(***************************************************************************)
EXTENDS JobTable

CONSTANTS
  Keys,         \* job keys: input ids and task ids
  Jobs,         \* job identities in use: a set of [kind, key] records
  NoJob,        \* what an idle worker holds
  Payloads,     \* distinguishable payloads
  Workers,      \* the lane loops, and the user's replay command
  LaneOfWorker, \* which lane each worker serves; "replay" for the command
  MaxAttempts,  \* task_queue::fail retries while attempts < 3
  MaxPending,   \* max_pending of enqueue, by capped kind: 16 and 8 in the code
  StoreMayFail, \* whether writing a failure down may itself fail
  MaxRestarts,  \* bound of the model: how often the process may die
  MaxReplays    \* bound of the model: how often the user may replay speech

JobKinds == {"user_input", "terminal_question", "speech", "progress_speech", "worker"}
CappedKinds == {"user_input", "terminal_question"}

ASSUME JobsAssumption ==
  /\ IsFiniteSet(Jobs)
  /\ Jobs \subseteq [kind : JobKinds, key : Keys]
  /\ NoJob \notin Jobs
ASSUME WorkersAssumption ==
  LaneOfWorker \in [Workers -> {"conversation", "speech", "worker", "replay"}]
ASSUME BoundsAssumption ==
  /\ MaxAttempts \in Nat \ {0}
  /\ MaxPending \in [CappedKinds -> Nat \ {0}]
  /\ StoreMayFail \in BOOLEAN
  /\ MaxRestarts \in Nat
  /\ MaxReplays \in Nat

VARIABLES
  jobs,      \* the durable table
  pc,        \* what each worker is doing
  held,      \* the job a busy worker works on
  token,     \* the owner value of its claim
  stop,      \* whether the job's cancellation token has fired
  unsignalled, \* keys cancelled in the table whose tokens are not fired yet
  lost,      \* history: jobs whose failure could not be written down
  commits,   \* history: effects committed for each job
  restarts,  \* how often the process died
  replays    \* how often the user replayed speech

memory == <<pc, held, token, stop, unsignalled>>
vars == <<jobs, pc, held, token, stop, unsignalled, lost, commits, restarts, replays>>

(* The worker's claim is still the one the row records. *)
Current(w) == Owns(jobs, held[w], token[w])
Holds(w, j) == held[w] = j /\ j # NoJob /\ Current(w)

Idle(w) == pc[w] = "idle"

(* Lanes whose failed jobs go through task_queue::fail; a failed speech job *)
(* is interrupted instead.                                                  *)
Retries(w) == LaneOfWorker[w] \in {"conversation", "worker"}
Speaks(w)  == LaneOfWorker[w] \in {"speech", "replay"}

Goto(w, label) == pc' = [pc EXCEPT ![w] = label]

Release(w) ==
  /\ Goto(w, "idle")
  /\ held' = [held EXCEPT ![w] = NoJob]
  /\ token' = [token EXCEPT ![w] = 0]
  /\ stop' = [stop EXCEPT ![w] = FALSE]

Init ==
  /\ jobs = EmptyTable(Jobs)
  /\ pc = [w \in Workers |-> "idle"]
  /\ held = [w \in Workers |-> NoJob]
  /\ token = [w \in Workers |-> 0]
  /\ stop = [w \in Workers |-> FALSE]
  /\ unsignalled = {}
  /\ lost = {}
  /\ commits = [j \in Jobs |-> 0]
  /\ restarts = 0
  /\ replays = 0

-----------------------------------------------------------------------------
(* The outside: commands of the user and of other subsystems. *)

(* A new identity; an enqueue of an existing one changes nothing (it answers *)
(* the old id or refuses a different payload).                               *)
Enqueue(j, payload) ==
  /\ jobs[j].state = "absent"
  /\ j.kind \in CappedKinds => HasRoom(jobs, j.kind, MaxPending[j.kind])
  /\ jobs' = Inserted(jobs, j, payload)
  /\ UNCHANGED <<memory, lost, commits, restarts, replays>>

(* The speech row of an answer that was spoken while it was generated is *)
(* inserted and settled in one transaction.                              *)
EnqueueStreamed(j, payload, outcome) ==
  /\ j.kind = "speech"
  /\ jobs[j].state = "absent"
  /\ jobs' = [Inserted(jobs, j, payload) EXCEPT ![j].state = outcome]
  /\ UNCHANGED <<memory, lost, commits, restarts, replays>>

(* Cancelling a key commits first; the tokens of its running handlers are *)
(* fired afterwards, by the same command, in a step of its own.           *)
Cancel(key) ==
  /\ key \notin unsignalled
  /\ \E j \in Live(jobs) : j.key = key
  /\ jobs' = CancelledKey(jobs, key)
  /\ unsignalled' = unsignalled \cup {key}
  /\ UNCHANGED <<pc, held, token, stop, lost, commits, restarts, replays>>

Registered(w) == pc[w] \in {"registered", "handling"}

Signal(key) ==
  /\ key \in unsignalled
  /\ unsignalled' = unsignalled \ {key}
  /\ stop' = [w \in Workers |-> stop[w] \/ (Registered(w) /\ held[w].key = key)]
  /\ UNCHANGED <<jobs, pc, held, token, lost, commits, restarts, replays>>

CancelProgress(key) ==
  /\ jobs' = CancelledWhere(jobs, {j \in Jobs : j.kind = "progress_speech" /\ j.key = key})
  /\ jobs' # jobs
  /\ UNCHANGED <<memory, lost, commits, restarts, replays>>

(* The user asks to hear an interrupted answer again: the command takes the *)
(* row over without the lane.                                               *)
Replay(w, j) ==
  /\ LaneOfWorker[w] = "replay" /\ pc[w] = "idle"
  /\ replays < MaxReplays
  /\ j.kind = "speech" /\ jobs[j].state = "interrupted"
  /\ jobs' = Claimed(jobs, j)
  /\ Goto(w, "registered")
  /\ held' = [held EXCEPT ![w] = j]
  /\ token' = [token EXCEPT ![w] = jobs'[j].owner]
  /\ replays' = replays + 1
  /\ UNCHANGED <<stop, unsignalled, lost, commits, restarts>>

BackoffEnds(j) ==
  /\ jobs[j].state = "queued" /\ ~jobs[j].ready
  /\ jobs' = [jobs EXCEPT ![j].ready = TRUE]
  /\ UNCHANGED <<memory, lost, commits, restarts, replays>>
-----------------------------------------------------------------------------
(* One lane loop. *)

Claim(w) ==
  /\ pc[w] = "idle"
  /\ \E j \in Jobs :
       /\ IsNext(jobs, LaneOfWorker[w], j)
       /\ jobs' = Claimed(jobs, j)
       /\ held' = [held EXCEPT ![w] = j]
       /\ token' = [token EXCEPT ![w] = jobs'[j].owner]
  /\ Goto(w, "claimed")
  /\ UNCHANGED <<stop, unsignalled, lost, commits, restarts, replays>>

(* The cancellation token is registered before the durable row is read again, *)
(* so a cancel that races the claim is seen by one of the two.                *)
Register(w) ==
  /\ pc[w] = "claimed"
  /\ Goto(w, "registered")
  /\ UNCHANGED <<jobs, held, token, stop, unsignalled, lost, commits, restarts, replays>>

(* Slip: the durable row is not read again. *)
Recheck_Trusting(w) ==
  /\ pc[w] = "registered"
  /\ Goto(w, "handling")
  /\ UNCHANGED <<jobs, held, token, stop, unsignalled, lost, commits, restarts, replays>>

Recheck(w) ==
  /\ pc[w] = "registered"
  /\ IF Current(w)
     THEN Goto(w, "handling") /\ UNCHANGED <<held, token, stop>>
     ELSE Release(w)
  /\ UNCHANGED <<jobs, unsignalled, lost, commits, restarts, replays>>

(* Slip: the effect commits although finish() refused. *)
Commit_IgnoringFinish(w) ==
  /\ pc[w] = "handling"
  /\ LaneOfWorker[w] # "worker"
  /\ jobs' = IF Current(w) THEN Finished(jobs, held[w]) ELSE jobs
  /\ commits' = [commits EXCEPT ![held[w]] = @ + 1]
  /\ Release(w)
  /\ UNCHANGED <<unsignalled, lost, restarts, replays>>

(* The handler's last transaction: its effect and finish(), or neither. *)
Commit(w) ==
  /\ pc[w] = "handling"
  /\ LaneOfWorker[w] # "worker"
  /\ Current(w)
  /\ jobs' = Finished(jobs, held[w])
  /\ commits' = [commits EXCEPT ![held[w]] = @ + 1]
  /\ Release(w)
  /\ UNCHANGED <<unsignalled, lost, restarts, replays>>

(* A worker-lane handler that returns Ok leaves its row as it is: the task's *)
(* outcome is in its own tables.                                             *)
Return(w) ==
  /\ pc[w] = "handling"
  /\ LaneOfWorker[w] = "worker"
  /\ Release(w)
  /\ UNCHANGED <<jobs, unsignalled, lost, commits, restarts, replays>>

(* A failure that must not be retried is settled by the handler itself, *)
(* unless somebody else settled the row before.                         *)
FailForGood(w) ==
  /\ pc[w] = "handling"
  /\ LaneOfWorker[w] = "conversation"
  /\ IF Current(w) THEN jobs' = FailedTerminally(jobs, held[w]) ELSE UNCHANGED jobs
  /\ Release(w)
  /\ UNCHANGED <<unsignalled, lost, commits, restarts, replays>>

(* The handler ends with Err: of its own, or because its token fired. *)
Err(w) ==
  /\ pc[w] = "handling"
  /\ Goto(w, "failing")
  /\ UNCHANGED <<jobs, held, token, stop, unsignalled, lost, commits, restarts, replays>>

(* Slip: an outcome path of the lane only logs. *)
Persist_OnlyLogging(w) ==
  /\ pc[w] = "failing"
  /\ Release(w)
  /\ UNCHANGED <<jobs, unsignalled, lost, commits, restarts, replays>>

(* Slip: the outcome is written although the claim may be gone. *)
Persist_Stale(w) ==
  /\ pc[w] = "failing"
  /\ jobs' = IF Retries(w) THEN Retried(jobs, held[w], MaxAttempts)
             ELSE Settled(jobs, held[w], "interrupted")
  /\ Release(w)
  /\ UNCHANGED <<unsignalled, lost, commits, restarts, replays>>

(* run_lane writes the failure down in a transaction of its own. *)
Persist(w) ==
  /\ pc[w] = "failing"
  /\ IF Current(w)
     THEN \/ Retries(w) /\ jobs' = Retried(jobs, held[w], MaxAttempts)
          \/ Retries(w) /\ jobs' = FailedTerminally(jobs, held[w])  \* credentials
          \/ Speaks(w)  /\ jobs' = Settled(jobs, held[w], "interrupted")
     ELSE UNCHANGED jobs
  /\ Release(w)
  /\ UNCHANGED <<unsignalled, lost, commits, restarts, replays>>

(* The write of the failure fails: run_lane logs it and goes on. *)
PersistFails(w) ==
  /\ StoreMayFail /\ pc[w] = "failing"
  /\ lost' = IF Current(w) THEN lost \cup {held[w]} ELSE lost
  /\ Release(w)
  /\ UNCHANGED <<jobs, unsignalled, commits, restarts, replays>>

-----------------------------------------------------------------------------
(* The process dies and starts again: recover, then queue_progress::recover, *)
(* both before any lane runs.                                                *)

(* Slip: every interrupted progress line is put back. *)
ProgressRecovered_All(table) ==
  [j \in DOMAIN table |->
     IF j.kind = "progress_speech" /\ table[j].state = "interrupted"
     THEN [table[j] EXCEPT !.state = "queued"]
     ELSE table[j]]

ProgressRecovered(table) ==
  [j \in DOMAIN table |->
     IF /\ j.kind = "progress_speech"
        /\ table[j].state = "interrupted"
        /\ table[j].attempts = 0
     THEN [table[j] EXCEPT !.state = "queued"]
     ELSE table[j]]

Restart ==
  /\ restarts < MaxRestarts
  /\ restarts' = restarts + 1
  /\ jobs' = ProgressRecovered(Recovered(jobs, {"conversation"}, {"speech", "worker"}))
  /\ pc' = [w \in Workers |-> "idle"]
  /\ held' = [w \in Workers |-> NoJob]
  /\ token' = [w \in Workers |-> 0]
  /\ stop' = [w \in Workers |-> FALSE]
  /\ unsignalled' = {}
  /\ lost' = {}
  /\ UNCHANGED <<commits, replays>>

Step(w) ==
  \/ Claim(w) \/ Register(w) \/ Recheck(w)
  \/ Commit(w) \/ Return(w) \/ FailForGood(w) \/ Err(w) \/ Persist(w) \/ PersistFails(w)

Outside ==
  \/ \E j \in Jobs, p \in Payloads : Enqueue(j, p)
  \/ \E j \in Jobs, p \in Payloads, s \in {"completed", "interrupted"} : EnqueueStreamed(j, p, s)
  \/ \E k \in Keys : Cancel(k) \/ CancelProgress(k)
  \/ \E w \in Workers, j \in Jobs : Replay(w, j)

Next ==
  \/ Outside
  \/ \E k \in Keys : Signal(k)
  \/ \E j \in Jobs : BackoffEnds(j)
  \/ \E w \in Workers : Step(w)
  \/ Restart

Spec == Init /\ [][Next]_vars

(* Every lane loop keeps polling (it sleeps at most a second), a handler ends  *)
(* (each is under a deadline), backoffs run out and a cancel command runs to   *)
(* its end.  Users owe nothing.                                                *)
Fairness ==
  /\ \A w \in Workers : WF_vars(Step(w))
  /\ \A j \in Jobs : WF_vars(BackoffEnds(j))
  /\ \A k \in Keys : WF_vars(Signal(k))

FairSpec == Spec /\ Fairness
-----------------------------------------------------------------------------
TypeOK ==
  /\ jobs \in [Jobs -> Rows(Payloads)]
  /\ pc \in [Workers -> {"idle", "claimed", "registered", "handling", "failing"}]
  /\ held \in [Workers -> Jobs \cup {NoJob}]
  /\ token \in [Workers -> Nat]
  /\ stop \in [Workers -> BOOLEAN]
  /\ unsignalled \subseteq Keys
  /\ lost \subseteq Jobs
  /\ commits \in [Jobs -> Nat]
  /\ restarts \in 0 .. MaxRestarts
  /\ replays \in 0 .. MaxReplays

(* Two workers never work on one job at a time: retries, restarts and       *)
(* replays hand a job on, they never share it (claim, finish, fail).        *)
OneWorker ==
  \A w1, w2 \in Workers : w1 # w2 /\ ~Idle(w1) => held[w1] # held[w2]

(* A running conversation or speech row has a live worker, unless the write *)
(* of its failure failed: no outcome path of run_lane leaves one behind,    *)
(* which matters because nothing reaps lease_until_ms and only a restart    *)
(* would free it.                                                           *)
RunningIsHeld ==
  \A j \in Jobs :
    jobs[j].state = "running" /\ j.kind # "worker" /\ j \notin lost
      => \E w \in Workers : Holds(w, j)

(* The effect of a job is committed at most once, and only by a job that is *)
(* completed; a cancelled or failed job has had none.                       *)
CommitOnce ==
  \A j \in Jobs : commits[j] = 0 \/ (commits[j] = 1 /\ jobs[j].state = "completed")

(* The retry limit of task_queue::fail holds up to the restarts: every one of *)
(* them may cost a job one more attempt, none of them resets the count.       *)
AttemptsBounded ==
  \A j \in Jobs : j.kind # "speech" => jobs[j].attempts <= MaxAttempts + restarts

(* A user who cancels is obeyed even when the cancel races the claim: a     *)
(* handler whose row is cancelled has been told to stop, unless the command *)
(* is just about to (register_job_cancel, then the durable re-check).       *)
CancelReaches ==
  \A w \in Workers :
    /\ pc[w] = "handling"
    /\ held[w].kind \in {"user_input", "speech"}
    /\ jobs[held[w]].state = "cancelled"
    /\ held[w].key \notin unsignalled
    => stop[w]

(* A job that reached a final state is never touched again. *)
FinalIsFinal ==
  [][\A j \in Jobs : jobs[j].state \in FinalStates => jobs'[j] = jobs[j]]_vars

(* Every accepted conversation or speech job is settled in the end, whatever *)
(* fails, provided the process stops dying and failures can be written down. *)
EverySettles ==
  \A j \in Jobs : j.kind # "worker" =>
    (jobs[j].state \in LiveStates ~> jobs[j].state \notin LiveStates)

(* The queue keeps its promise to each job. *)
Audible == {j \in Jobs : LaneOf(j.kind) = "speech"}
Promise == INSTANCE JobPromise WITH
  state <- [j \in Jobs |-> jobs[j].state], attempts <- [j \in Jobs |-> jobs[j].attempts]
KeepsPromise == Promise!Spec
=============================================================================
