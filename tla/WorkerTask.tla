----------------------------- MODULE WorkerTask -----------------------------
(***************************************************************************)
(* Delegation to worker agents over the job table: a conversation lane     *)
(* admits a task, waits for it a while and answers; a worker lane climbs   *)
(* the tiers of the task's profile and settles it; its result goes to the  *)
(* waiting conversation or into the steward outbox; users cancel inputs    *)
(* and tasks, and the process may die (worker_agents/executor,             *)
(* conversation_check/worker_lane.rs, queue_runtime.rs).                   *)
(*                                                                         *)
(* TaskQueue has the gap between a claim and its registration, and store   *)
(* failures; here claim, registration and durable re-check are two steps.  *)
(***************************************************************************)
EXTENDS JobTable

CONSTANTS
  Inputs,          \* ids of user inputs
  Tasks, NoTask,   \* possible delegations, by idempotency key
  OriginOf,        \* the input each delegation comes from
  NoJob,
  Lanes, Workers,  \* conversation lanes and worker lanes
  MaxLive,         \* enqueue_text admits fewer than 16 live keys
  MaxAttempts,     \* task_queue::fail retries while attempts < 3
  TopTier,         \* index of the last rung of the ladder
  CloudTier,       \* index of the cloud rung, which is proposed and never run
  MaxSameTierRetries, \* limits.max_same_tier_retries of the profile
  MaxTaskRestarts, \* limits.max_restarts of the profile
  MaxRestarts      \* bound of the model: how often the process may die

Generations == 0 .. MaxRestarts
Input(k)   == [kind |-> "user_input", key |-> k, generation |-> 0]
Work(t, g) == [kind |-> "worker", key |-> t, generation |-> g]
WorkOf(t)  == {Work(t, g) : g \in Generations}
Jobs == {Input(k) : k \in Inputs} \cup UNION {WorkOf(t) : t \in Tasks}

ASSUME WorkerAssumption ==
  /\ IsFiniteSet(Inputs) /\ IsFiniteSet(Tasks)
  /\ Inputs \cap Tasks = {} /\ NoTask \notin Tasks /\ NoJob \notin Jobs
  /\ OriginOf \in [Tasks -> Inputs]
  /\ Lanes \cap Workers = {}
  /\ MaxLive \in Nat \ {0} /\ MaxAttempts \in Nat \ {0}
  /\ TopTier \in Nat /\ CloudTier \in Nat
  /\ MaxSameTierRetries \in Nat /\ MaxTaskRestarts \in Nat /\ MaxRestarts \in Nat

VARIABLES
  jobs,      \* task_queue_jobs
  tasks,     \* worker_tasks
  reports,   \* tasks with a row in steward_reports
  ask,       \* what each conversation lane is doing
  work,      \* what each worker lane is doing
  unsignalled, \* inputs cancelled in the table whose handlers are not told yet
  withdrawn, \* history: inputs the user has cancelled
  presented, \* history: saved answers that used the result of a task
  restarts

store == <<jobs, tasks, reports>>
history == <<withdrawn, presented>>
vars == <<store, ask, work, unsignalled, history, restarts>>

ActiveStates == {"accepted", "running", "verifying"}
Verdicts == {"succeeded", "failed", "cancelled"}
Deliveries == {"none", "sync_waiting", "sync_delivered", "async_queued", "async_delivered",
               "suppressed"}

NoRow == [state |-> "absent", delivery |-> "none", tier |-> 0, restarts |-> 0]
Active(t) == tasks[t].state \in ActiveStates

IdleAsker == [pc |-> "idle", job |-> NoJob, token |-> 0, stop |-> FALSE, task |-> NoTask, got |-> {}]
IdleWorker == [pc |-> "idle", job |-> NoJob, token |-> 0, stop |-> FALSE, tier |-> 0, tries |-> 0,
               verdict |-> "none"]

Asks(c) == Owns(jobs, ask[c].job, ask[c].token)
Works(w) == Owns(jobs, work[w].job, work[w].token)
TaskOf(w) == work[w].job.key

(* Workers in signals::ACTIVE: those between register and the drop of its guard. *)
InTask(w) == work[w].pc \in {"entered", "climbing", "attempting", "judging", "finishing"}

AskGoes(c, label) == ask' = [ask EXCEPT ![c].pc = label]
WorkGoes(w, label) == work' = [work EXCEPT ![w].pc = label]
EndAsk(c) == ask' = [ask EXCEPT ![c] = IdleAsker]
EndWork(w) == work' = [work EXCEPT ![w] = IdleWorker]

(* Slip: only a worker in an attempt is told. *)
FiredTasks_InAttempt(ts) ==
  [w \in Workers |-> IF work[w].pc = "attempting" /\ TaskOf(w) \in ts
                     THEN [work[w] EXCEPT !.stop = TRUE] ELSE work[w]]

(* signals::fire *)
FiredTasks(ts) ==
  [w \in Workers |-> IF InTask(w) /\ TaskOf(w) \in ts THEN [work[w] EXCEPT !.stop = TRUE]
                     ELSE work[w]]

Init ==
  /\ jobs = EmptyTable(Jobs)
  /\ tasks = [t \in Tasks |-> NoRow]
  /\ reports = {}
  /\ ask = [c \in Lanes |-> IdleAsker]
  /\ work = [w \in Workers |-> IdleWorker]
  /\ unsignalled = {} /\ withdrawn = {}
  /\ presented = [t \in Tasks |-> 0]
  /\ restarts = 0

-----------------------------------------------------------------------------
(* Parts of transactions. *)

(* Slip: a task nobody waits for is settled like one somebody waits for. *)
Finalized_Sync(rows, t, verdict) ==
  IF rows[t].state \notin ActiveStates THEN rows
  ELSE [rows EXCEPT ![t].state = verdict, ![t].delivery = "sync_waiting"]

(* Slip: the state is not asked for again. *)
Finalized_AnyState(rows, t, verdict) ==
  [rows EXCEPT ![t].state = verdict,
               ![t].delivery = IF verdict = "cancelled" THEN "suppressed"
                               ELSE IF @ = "async_queued" THEN "async_delivered" ELSE @]

(* finalize: the first verdict on an active task stands. *)
Finalized(rows, t, verdict) ==
  IF rows[t].state \notin ActiveStates THEN rows
  ELSE [rows EXCEPT ![t].state = verdict,
                    ![t].delivery = IF verdict = "cancelled" THEN "suppressed"
                                    ELSE IF @ = "async_queued" THEN "async_delivered" ELSE @]

(* The transaction that settles task t: its row, and its report if nobody waits. *)
Settle(t, verdict) ==
  /\ tasks' = Finalized(tasks, t, verdict)
  /\ reports' = reports \cup {u \in {t} : /\ Active(u) /\ verdict # "cancelled"
                                          /\ tasks[u].delivery = "async_queued"}

(* deliver_sync on a terminal task. *)
Delivered(rows, t) ==
  IF rows[t].delivery = "sync_waiting"
  THEN [rows EXCEPT ![t].delivery = "sync_delivered"] ELSE rows

(* Slip: every result that is there is handed out. *)
HandsOut_Always(t) == tasks[t].state \in {"succeeded", "failed"}

(* Whether deliver_sync hands out a result: Pending when it is for the outbox. *)
HandsOut(t) ==
  /\ tasks[t].state \in {"succeeded", "failed"}
  /\ tasks[t].delivery \in {"sync_waiting", "sync_delivered"}

(* cancel_task for each active task of a set. *)
TasksCancelled(rows, ts) ==
  [t \in Tasks |-> IF t \in ts /\ rows[t].state \in ActiveStates
                   THEN [rows[t] EXCEPT !.state = "cancelled", !.delivery = "suppressed"]
                   ELSE rows[t]]

JobsCancelled(table, ts) ==
  CancelledWhere(table, UNION {WorkOf(t) : t \in {u \in ts : Active(u)}})

TasksFrom(k) == {t \in Tasks : OriginOf[t] = k}

-----------------------------------------------------------------------------
(* The user. *)

Full == Cardinality(LiveKeys(jobs)) >= MaxLive

Send(k) ==
  /\ jobs[Input(k)].state = "absent" /\ ~Full
  /\ jobs' = Inserted(jobs, Input(k), "text")
  /\ UNCHANGED <<tasks, reports, ask, work, unsignalled, history, restarts>>

(* cancel_input_state: the rows of the input, then its tasks and their rows; *)
(* running tasks are told at once, the input's handler in a later step.      *)
CancelInput(k) ==
  /\ k \notin unsignalled
  /\ jobs[Input(k)].state \in LiveStates \/ \E t \in TasksFrom(k) : Active(t)
  /\ jobs' = JobsCancelled(CancelledKey(jobs, k), TasksFrom(k))
  /\ tasks' = TasksCancelled(tasks, TasksFrom(k))
  /\ work' = FiredTasks({t \in TasksFrom(k) : Active(t)})
  /\ unsignalled' = unsignalled \cup {k}
  /\ withdrawn' = withdrawn \cup {k}
  /\ UNCHANGED <<reports, ask, presented, restarts>>

Signal(k) ==
  /\ k \in unsignalled
  /\ unsignalled' = unsignalled \ {k}
  /\ ask' = [c \in Lanes |-> IF ask[c].pc \in {"talking", "waiting"} /\ ask[c].job = Input(k)
                             THEN [ask[c] EXCEPT !.stop = TRUE] ELSE ask[c]]
  /\ UNCHANGED <<store, work, history, restarts>>

CancelTask(t) ==
  /\ Active(t)
  /\ jobs' = JobsCancelled(jobs, {t})
  /\ tasks' = TasksCancelled(tasks, {t})
  /\ work' = FiredTasks({t})
  /\ UNCHANGED <<reports, ask, unsignalled, history, restarts>>

BackoffEnds(j) ==
  /\ jobs[j].state = "queued" /\ ~jobs[j].ready
  /\ jobs' = [jobs EXCEPT ![j].ready = TRUE]
  /\ UNCHANGED <<tasks, reports, ask, work, unsignalled, history, restarts>>

-----------------------------------------------------------------------------
(* A conversation lane. *)

Take(c) ==
  /\ ask[c].pc = "idle"
  /\ \E j \in Jobs :
       /\ IsNext(jobs, "conversation", j)
       /\ jobs' = Claimed(jobs, j)
       /\ ask' = [ask EXCEPT ![c] = [IdleAsker EXCEPT !.pc = "claimed", !.job = j,
                                                      !.token = jobs'[j].owner]]
  /\ UNCHANGED <<tasks, reports, work, unsignalled, history, restarts>>

Begin(c) ==
  /\ ask[c].pc = "claimed"
  /\ IF Asks(c) THEN AskGoes(c, "talking") ELSE EndAsk(c)
  /\ UNCHANGED <<store, work, unsignalled, history, restarts>>

(* The caller goes on with the result it was handed, or with Pending. *)
Resumes(c, t) ==
  ask' = [ask EXCEPT ![c].pc = "talking", ![c].task = NoTask,
                     ![c].got = IF HandsOut(t) THEN @ \cup {t} ELSE @]

(* admit: a new delegation becomes a task and its first job; the transaction *)
(* does not ask whether the delegating job is still current.                 *)
Admit(c, t) ==
  /\ ask[c].pc = "talking" /\ ask[c].job = Input(OriginOf[t])
  /\ tasks[t].state = "absent"
  /\ tasks' = [tasks EXCEPT ![t] = [NoRow EXCEPT !.state = "accepted",
                                                 !.delivery = "sync_waiting"]]
  /\ jobs' = Inserted(jobs, Work(t, 0), "task")
  /\ ask' = [ask EXCEPT ![c].pc = "waiting", ![c].task = t]
  /\ UNCHANGED <<reports, work, unsignalled, history, restarts>>

(* An identical delegation, by a retry, finds the task. *)
AdmitAgain(c, t) ==
  /\ ask[c].pc = "talking" /\ ask[c].job = Input(OriginOf[t])
  /\ tasks[t].state # "absent" /\ t \notin ask[c].got
  /\ IF Active(t)
     THEN ask' = [ask EXCEPT ![c].pc = "waiting", ![c].task = t] /\ UNCHANGED tasks
     ELSE tasks' = Delivered(tasks, t) /\ Resumes(c, t)
  /\ UNCHANGED <<jobs, reports, work, unsignalled, history, restarts>>

(* wait_terminal reads the row first, after every wake-up and at the end. *)
Collect(c) ==
  /\ ask[c].pc = "waiting" /\ ~Active(ask[c].task)
  /\ tasks' = Delivered(tasks, ask[c].task)
  /\ Resumes(c, ask[c].task)
  /\ UNCHANGED <<jobs, reports, work, unsignalled, history, restarts>>

(* The wait is over and the task is still active. *)
StopWaiting(c) ==
  /\ ask[c].pc = "waiting" /\ Active(ask[c].task)
  /\ tasks' = [tasks EXCEPT ![ask[c].task].delivery =
                 IF @ = "sync_waiting" THEN "async_queued" ELSE @]
  /\ Resumes(c, ask[c].task)
  /\ UNCHANGED <<jobs, reports, work, unsignalled, history, restarts>>

(* commit_answer saves an answer that may use what the attempt was handed. *)
Answer(c) ==
  /\ ask[c].pc = "talking" /\ ~ask[c].stop /\ Asks(c)
  /\ jobs' = Finished(jobs, ask[c].job)
  /\ presented' = [t \in Tasks |-> presented[t] + (IF t \in ask[c].got THEN 1 ELSE 0)]
  /\ EndAsk(c)
  /\ UNCHANGED <<tasks, reports, work, unsignalled, withdrawn, restarts>>

(* A fired token, or an error, ends the handler; fail_answer_terminal may *)
(* settle the row at once.                                                *)
AskFails(c) ==
  /\ ask[c].pc = "talking" \/ (ask[c].pc = "waiting" /\ ask[c].stop)
  /\ \/ AskGoes(c, "failing") /\ UNCHANGED jobs
     \/ /\ ask[c].pc = "talking"
        /\ jobs' = IF Asks(c) THEN FailedTerminally(jobs, ask[c].job) ELSE jobs
        /\ EndAsk(c)
  /\ UNCHANGED <<tasks, reports, work, unsignalled, history, restarts>>

PersistAsk(c) ==
  /\ ask[c].pc = "failing"
  /\ jobs' = IF Asks(c) THEN Retried(jobs, ask[c].job, MaxAttempts) ELSE jobs
  /\ EndAsk(c)
  /\ UNCHANGED <<tasks, reports, work, unsignalled, history, restarts>>

-----------------------------------------------------------------------------
(* A worker lane. *)

TakeWork(w) ==
  /\ work[w].pc = "idle"
  /\ \E j \in Jobs :
       /\ IsNext(jobs, "worker", j)
       /\ jobs' = Claimed(jobs, j)
       /\ work' = [work EXCEPT ![w] = [IdleWorker EXCEPT !.pc = "claimed", !.job = j,
                                                        !.token = jobs'[j].owner]]
  /\ UNCHANGED <<tasks, reports, ask, unsignalled, history, restarts>>

(* The durable re-check; then a task that is already being worked on in this *)
(* process is not worked on twice.                                          *)
Enter(w) ==
  /\ work[w].pc = "claimed"
  /\ IF Works(w) /\ ~\E v \in Workers : InTask(v) /\ TaskOf(v) = TaskOf(w)
     THEN WorkGoes(w, "entered")
     ELSE EndWork(w)
  /\ UNCHANGED <<store, ask, unsignalled, history, restarts>>

(* drive takes the task over unless it was settled before, and resumes the *)
(* ladder at the rung the task has reached.                                *)
ClaimTask(w) ==
  /\ work[w].pc = "entered"
  /\ LET t == TaskOf(w)
     IN  IF Active(t)
         THEN /\ tasks' = [tasks EXCEPT ![t].state = "running"]
              /\ work' = [work EXCEPT ![w].pc = "climbing", ![w].tier = tasks[t].tier]
         ELSE EndWork(w) /\ UNCHANGED tasks
  /\ UNCHANGED <<jobs, reports, ask, unsignalled, history, restarts>>

Decides(w, verdict) == work' = [work EXCEPT ![w].pc = "finishing", ![w].verdict = verdict]

(* No attempt is made: the task was cancelled, its deadline has passed, or *)
(* its profile, input or ladder is unusable.                               *)
Decline(w) ==
  /\ work[w].pc = "climbing"
  /\ \/ work[w].stop /\ Decides(w, "cancelled")
     \/ ~work[w].stop /\ Decides(w, "failed")
  /\ UNCHANGED <<store, ask, unsignalled, history, restarts>>

(* The attempt is recorded before the runner starts. *)
BeginAttempt(w) ==
  /\ work[w].pc = "climbing" /\ ~work[w].stop
  /\ work[w].tier <= TopTier /\ work[w].tier # CloudTier
  /\ tasks' = [tasks EXCEPT ![TaskOf(w)] =
                 IF @.state \in {"running", "verifying"}
                 THEN [@ EXCEPT !.state = "running", !.tier = work[w].tier] ELSE @]
  /\ WorkGoes(w, "attempting")
  /\ UNCHANGED <<jobs, reports, ask, unsignalled, history, restarts>>

(* The ladder is exhausted or has reached the cloud, which is only proposed. *)
GiveUp(w) ==
  /\ work[w].pc = "climbing" /\ (work[w].tier > TopTier \/ work[w].tier = CloudTier)
  /\ Decides(w, "failed")
  /\ UNCHANGED <<store, ask, unsignalled, history, restarts>>

(* The runner returned an output, which the host checks. *)
Produce(w) ==
  /\ work[w].pc = "attempting"
  /\ tasks' = [tasks EXCEPT ![TaskOf(w)].state =
                 IF @ \in {"running", "verifying"} THEN "verifying" ELSE @]
  /\ WorkGoes(w, "judging")
  /\ UNCHANGED <<jobs, reports, ask, unsignalled, history, restarts>>

(* A completion that is met ends the task. *)
Succeed(w) ==
  /\ work[w].pc = "judging"
  /\ Decides(w, "succeeded")
  /\ UNCHANGED <<store, ask, unsignalled, history, restarts>>

(* An error or an unmet completion is tried again on the rung, then above. *)
TryAgain(w) ==
  /\ work[w].pc \in {"attempting", "judging"}
  /\ work' = [work EXCEPT ![w].pc = "climbing",
                 ![w].tier = IF work[w].tries < MaxSameTierRetries THEN @ ELSE @ + 1,
                 ![w].tries = IF @ < MaxSameTierRetries THEN @ + 1 ELSE 0]
  /\ UNCHANGED <<store, ask, unsignalled, history, restarts>>

(* A terminal error, the deadline or a fired token ends the attempt. *)
EndAttempt(w) ==
  /\ work[w].pc = "attempting"
  /\ Decides(w, IF work[w].stop THEN "cancelled" ELSE "failed")
  /\ UNCHANGED <<store, ask, unsignalled, history, restarts>>

(* The terminal transaction.  The lane's row stays as it is. *)
Finish(w) ==
  /\ work[w].pc = "finishing"
  /\ Settle(TaskOf(w), work[w].verdict)
  /\ EndWork(w)
  /\ UNCHANGED <<jobs, ask, unsignalled, history, restarts>>

(* An infrastructure fault, or the fired token as process_job sees it. *)
WorkFails(w) ==
  /\ InTask(w)
  /\ WorkGoes(w, "failing")
  /\ UNCHANGED <<store, ask, unsignalled, history, restarts>>

(* Slip: the task of a job the queue gives up on is not settled. *)
PersistWork_NoAbandon(w) ==
  /\ work[w].pc = "failing"
  /\ jobs' = IF Works(w) THEN Retried(jobs, work[w].job, MaxAttempts) ELSE jobs
  /\ EndWork(w)
  /\ UNCHANGED <<tasks, reports, ask, unsignalled, history, restarts>>

(* run_lane retries the job; when it gives up, abandon_job settles the task. *)
PersistWork(w) ==
  /\ work[w].pc = "failing"
  /\ \/ ~Works(w) /\ UNCHANGED store
     \/ /\ Works(w) /\ jobs[work[w].job].attempts < MaxAttempts
        /\ jobs' = Retried(jobs, work[w].job, MaxAttempts)
        /\ UNCHANGED <<tasks, reports>>
     \/ /\ Works(w)
        /\ jobs' = FailedTerminally(jobs, work[w].job)
        /\ Settle(TaskOf(w), "failed")
  /\ EndWork(w)
  /\ UNCHANGED <<ask, unsignalled, history, restarts>>

-----------------------------------------------------------------------------
(* The process dies and starts again: task_queue::recover, then recover of *)
(* the executor, both before any lane runs.                                *)

Restartable(t) ==
  Active(t) /\ tasks[t].state # "accepted" /\ tasks[t].restarts < MaxTaskRestarts

Interrupted(t) == Active(t) /\ tasks[t].state # "accepted" /\ ~Restartable(t)

TasksRecovered ==
  [t \in Tasks |->
     CASE ~Active(t) -> tasks[t]
       [] Interrupted(t) -> [tasks[t] EXCEPT !.state = "failed", !.delivery = "async_delivered"]
       [] Restartable(t) -> [tasks[t] EXCEPT !.state = "accepted", !.delivery = "async_queued",
                                             !.restarts = @ + 1]
       [] OTHER -> [tasks[t] EXCEPT !.delivery = "async_queued"]]

NewestGeneration(table, t) ==
  CHOOSE g \in Generations : /\ table[Work(t, g)].state # "absent"
                             /\ \A h \in Generations : h > g => table[Work(t, h)].state = "absent"

(* ensure_live_job, in the order of admission: a survivor whose job was *)
(* interrupted gets one of the next generation.                         *)
JobsEnsured(table, survivors) ==
  LET bereft   == {t \in survivors : WorkOf(t) \cap Live(table) = {}}
      fresh(t) == Work(t, NewestGeneration(table, t) + 1)
      earlier(t) == {u \in bereft : table[Work(u, 0)].rowid < table[Work(t, 0)].rowid}
  IN  [j \in Jobs |->
         IF \E t \in bereft : j = fresh(t)
         THEN [NewRow(table, "task") EXCEPT !.rowid = @ + Cardinality(earlier(j.key))]
         ELSE table[j]]

Restart ==
  /\ restarts < MaxRestarts
  /\ restarts' = restarts + 1
  /\ tasks' = TasksRecovered
  /\ reports' = reports \cup {t \in Tasks : Interrupted(t)}
  /\ jobs' = JobsEnsured(Recovered(jobs, {"conversation"}, {"speech", "worker"}),
                         {t \in Tasks : Active(t) /\ ~Interrupted(t)})
  /\ ask' = [c \in Lanes |-> IdleAsker]
  /\ work' = [w \in Workers |-> IdleWorker]
  /\ unsignalled' = {}
  /\ UNCHANGED history

-----------------------------------------------------------------------------
Converse(c) ==
  \/ Take(c) \/ Begin(c)
  \/ \E t \in Tasks : Admit(c, t) \/ AdmitAgain(c, t)
  \/ Collect(c) \/ StopWaiting(c) \/ Answer(c) \/ AskFails(c) \/ PersistAsk(c)

Labour(w) ==
  \/ TakeWork(w) \/ Enter(w) \/ ClaimTask(w) \/ Decline(w) \/ BeginAttempt(w) \/ GiveUp(w)
  \/ Produce(w) \/ Succeed(w) \/ TryAgain(w) \/ EndAttempt(w) \/ Finish(w)
  \/ WorkFails(w) \/ PersistWork(w)

Next ==
  \/ \E k \in Inputs : Send(k) \/ CancelInput(k) \/ Signal(k)
  \/ \E t \in Tasks : CancelTask(t)
  \/ \E j \in Jobs : BackoffEnds(j)
  \/ \E c \in Lanes : Converse(c)
  \/ \E w \in Workers : Labour(w)
  \/ Restart

Spec == Init /\ [][Next]_vars

(* Lanes poll for ever; a wait is bounded by the synchronous window of the  *)
(* profile, an attempt by its deadline and a conversation by that of its    *)
(* route; backoffs run out and cancel commands run to their end.            *)
Fairness ==
  /\ \A c \in Lanes : WF_vars(Converse(c))
  /\ \A w \in Workers : WF_vars(Labour(w))
  /\ \A j \in Jobs : WF_vars(BackoffEnds(j))
  /\ \A k \in Inputs : WF_vars(Signal(k))

FairSpec == Spec /\ Fairness

-----------------------------------------------------------------------------
TypeOK ==
  /\ jobs \in [Jobs -> Rows({"text", "task"})]
  /\ tasks \in [Tasks -> [state : ActiveStates \cup Verdicts \cup {"absent"},
                         delivery : Deliveries, tier : 0 .. TopTier, restarts : Nat]]
  /\ reports \subseteq Tasks
  /\ ask \in [Lanes -> [pc : {"idle", "claimed", "talking", "waiting", "failing"},
                        job : Jobs \cup {NoJob}, token : Nat, stop : BOOLEAN,
                        task : Tasks \cup {NoTask}, got : SUBSET Tasks]]
  /\ work \in [Workers -> [pc : {"idle", "claimed", "entered", "climbing", "attempting",
                                "judging", "finishing", "failing"},
                           job : Jobs \cup {NoJob}, token : Nat, stop : BOOLEAN,
                           tier : Nat, tries : Nat, verdict : Verdicts \cup {"none"}]]
  /\ unsignalled \subseteq Inputs /\ withdrawn \subseteq Inputs
  /\ presented \in [Tasks -> Nat]
  /\ restarts \in 0 .. MaxRestarts

(* The user hears the result of a delegation at most once: in one saved     *)
(* answer or in one report, whatever retries, timeouts of the wait and      *)
(* restarts happen between the verdict and the answer (deliver_sync,        *)
(* finalize, wait_terminal).                                                *)
PresentedOnce ==
  \A t \in Tasks : presented[t] + (IF t \in reports THEN 1 ELSE 0) <= 1

(* An active task always has a job that will be worked on: one in the queue *)
(* or in the hands of a worker that still owns it.  Retries, the queue's    *)
(* giving up, and restarts never leave a task behind (abandon_job,          *)
(* ensure_live_job).                                                        *)
ActiveHasJob ==
  \A t \in Tasks : Active(t) =>
    \E j \in WorkOf(t) :
      \/ jobs[j].state = "queued"
      \/ \E w \in Workers : work[w].job = j /\ work[w].pc # "idle" /\ Works(w)

(* A cancelled task's worker has been told, whatever the cancel raced: it *)
(* is told, or has not yet claimed the task and will not get it.          *)
CancelStopsWork ==
  \A w \in Workers : InTask(w) /\ tasks[TaskOf(w)].state = "cancelled" =>
    work[w].stop \/ work[w].pc = "entered"

(* The verdict of a task is final, its ladder is never descended, and it is *)
(* taken up again after a restart no more often than its profile allows.    *)
TaskMovesOn ==
  [][\A t \in Tasks :
       /\ tasks[t].state \in Verdicts => tasks'[t].state = tasks[t].state
       /\ tasks'[t].tier >= tasks[t].tier
       /\ tasks'[t].restarts <= MaxTaskRestarts]_vars

(* "Cancels an input's queue state and the worker tasks it started (they *)
(* never reach the outbox)."                                             *)
WithdrawnUnreported ==
  [][\A t \in reports' \ reports : OriginOf[t] \notin withdrawn]_vars

(* "The queue is full.  Please wait a little and send it again." *)
FullDrains == Full ~> ~Full

(* Every delegation is settled in the end. *)
EveryTaskEnds == \A t \in Tasks : Active(t) ~> ~Active(t)

(* The delegations keep their promise. *)
Fate(t) ==
  IF tasks[t].state = "absent" THEN "none"
  ELSE IF tasks[t].state = "cancelled" /\ t \notin reports THEN "cancelled"
  ELSE IF Active(t) THEN IF tasks[t].delivery = "sync_waiting" THEN "awaited" ELSE "deferred"
  ELSE IF tasks[t].delivery = "sync_waiting" THEN "ready"
  ELSE IF tasks[t].delivery = "sync_delivered" THEN "handed"
  ELSE IF t \in reports THEN "reported" ELSE "lost"

Promise == INSTANCE TaskPromise WITH fate <- [t \in Tasks |-> Fate(t)]

(* And they leave to each of their rows what the queue promises, also where the recovery *)
(* of the executor adds a row for a task whose last one it has just interrupted.         *)
Audible == {j \in Jobs : LaneOf(j.kind) = "speech"}
Queue == INSTANCE JobPromise WITH
  state <- [j \in Jobs |-> jobs[j].state], attempts <- [j \in Jobs |-> jobs[j].attempts]
KeepsPromise == Promise!Spec /\ Queue!Spec
=============================================================================
