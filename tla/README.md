# A verification development for SAAA

SAAA is a desktop runtime for a personal agent. This directory holds TLA+ models of the part of it
that decides whether work the user asked for is done once, stopped when asked, reported and never
lost: the durable task queue, the conversation that runs over it, the worker agents a conversation
delegates to, the steward and its schedule, the coding agent they start, and the metered sessions
with the LARM service over which speech and models are reached. TLC checks the models on
small instances; TLAPS proves the safety properties of the queue, the conversation, delegation, the
steward, the schedule and the coding agent, and that the queue, the conversation, delegation, the steward,
the coding agent and the metered sessions keep their promises, for every value of the constants.

Paths below are relative to `src-tauri/src/` unless they say otherwise; `CC` is
`runtime/conversation_check`.

## 1. The system

The runtime is a Tauri process over one SQLite database. All writes go through one writer, each in a
transaction, so a committed transaction is one atomic step; everything between two transactions
interleaves and may be cut off by a crash.

| part | state | operations | interacts with |
| --- | --- | --- | --- |
| durable task queue (`task_queue.rs`) | `task_queue_jobs`: state, owner, attempts, lease, backoff, per scope, lane, kind, key and generation | `enqueue`, `claim`, `finish`, `fail`, `fail_terminal`, `recover`, `cancel_key` | every lane |
| lanes (`CC/queue_runtime.rs`) | four conversation loops, one speech loop, two worker loops; a table of cancellation tokens in memory | `run_lane`, `process_job`, `register_job_cancel`, `cancel_generation` | the queue, handlers |
| conversation handler (`CC/queue_runtime.rs`, `CC/queue_runtime/conversation_answer.rs`) | user message, run, reply, speech row of an input; `retry_blocked`, `audio_started`, token of an attempt | `enqueue_text`, `process_conversation`, `commit_answer`, `fail_answer_terminal`, `cancel_input` | the queue, the speaker, worker agents |
| speech and progress lines (`CC/streaming_speech.rs`, `CC/streaming_progress.rs`, `CC/queue_progress.rs`, `CC/queue_recovery.rs`) | `SPEECH_LOCK`, active players, progress messages | `play_answer_stream`, `play_progress`, `process_speech`, `mark_uncertain_speech` | the conversation handler, the queue |
| worker agents (`worker_agents/executor`, `CC/worker_lane.rs`) | `worker_tasks`, attempts, tool calls, reports | `admit`, `process`, `wait_terminal`, `recover`, `cancel_task` | the queue, the conversation handler, the steward outbox |
| steward (`steward/`) | goals, delegations, plans and their steps, tasks, receipts, budgets, `steward_reports` with their speech, the cursor on coding events | `on_user_message`, `start_next_global`, `drain`, `consume`, `reconcile`, `publish`, `work_withdraw`, `work_resolve` | coding agent, schedule, speaker |
| coding agent (`coding/`, `runtime/pi`) | `coding_jobs`, `coding_runs` with delivery and process identity, events | `start`, `inspect`, `continue_job`, `cancel`, the thread of a run, `reconcile` | steward, turns, processes of the agent |
| schedule (`schedule/`) | `schedule_entries`, `schedule_runtime` | `schedule_add`, `schedule_withdraw`, `set_enabled`, `tick` of the loop and of the command | steward, situation |
| LARM sessions (`crates/larm-session/src/lib.rs`) | one connection: credentials behind a fair lock, `closed`, `released`, a limit per provider; the application's cache of the session | `connect`, `acquire`, `renew_if_due`, the renewal task, `close`, `check_status`, `Drop` | the LARM service, speech, models, memory |
| role routing, media generation, generated capabilities, personal state | ledgers of their own with recovery | see the plan | conversation, providers |
| tool selection, provider routing, records, diagnosis, adaptation, generated UI | tables and pure decisions | mostly read, rank, store | turn runtime |
| voice, providers, frontend, services | devices and external services | input and output | all |

What is hard here, and hardly reachable by the repository's tests:

* seven loops claim from one table, hold a copy of a job while they work for seconds, and write the
  outcome back to a row that may meanwhile be cancelled, recovered or replayed;
* a cancel is a table update followed by firing tokens in memory, and races the registration of the
  token;
* one answer is a message, a finished row, a speech row and a completed run, and may already have
  been shown and spoken before any of them is written;
* a coding agent is another process: it may outlive the application, its pid may be somebody else's
  by the next start, and whether it got its prompt is known only as far as it was written down;
* the user's turn, the pump and the schedule all look for delegated work to start and reports to
  tell, and an event, a reconciliation, a withdrawal and a decision of the user all write the state of
  a task;
* the schedule fires in one transaction and starts the work after it, while it is switched off and
  on, or entries are withdrawn;
* requests of several parts and a renewal task share the credentials of one session, which may expire,
  fail to renew or be closed while some are in use, and each of them may be dropped while it waits;
* the process may die anywhere; startup recovers queue, runs, speech, coding jobs and progress
  separately;
* retries must not repeat what was shown, spoken or committed; limits and counters must survive them.

What makes each modelled part correct is stated by the properties in section 4; PROJECT.json lists
the hazards line by line with the properties that cover them.

## 2. Modules

* `JobTable` is the table and its statements as operators on a function from job identities to rows
  (`Inserted`, `IsNext`, `Claimed`, `Finished`, `Retried`, `FailedTerminally`, `Recovered`,
  `CancelledKey`...). Every statement that checks `owner` is an operator whose caller checks `Owns`.
  Owners are claim numbers, unique in a run, where the code draws UUIDs; time is reduced to whether a
  row's backoff has run out.
* `JobPromise` is what the queue promises to one job: the life cycle an observer of its row may see.
  `TaskQueue` keeps it, and so do `ConversationQueue` and `WorkerTask`, whose transactions change several
  rows at once and whose recovery adds statements of its own to that of the queue.
* `TaskQueue` composes the table with any set of lane loops and the user's replay command. One action
  per transaction or in-memory step: `Claim`, `Register`, `Recheck`, then one way to end (`Commit`,
  `Return`, `FailForGood`, `Err` and `Persist`/`PersistFails`), with `Enqueue`, `EnqueueStreamed`,
  `Cancel` and `Signal`, `CancelProgress`, `Replay`, `BackoffEnds` outside and `Restart` at any time.
  What a handler computes is abstracted to how it ends; `commits` counts the effects a job has had,
  and `lost` remembers jobs whose failure could not be written down.
* `ConversationPromise` is what the user is promised for each input: one outcome, cancelled and failed
  ones final, a stop request naming at most one earlier input.
* `ConversationQueue` is one conversation over `JobTable`: inputs, their runs, replies and speech
  rows, conversation lanes that answer, stop or replace, the speech lane, user cancels and restarts.
  An action is a transaction or the firing of tokens; `Publish`, `Hush`, `StartAudio` are the effects
  an attempt has before it saves anything.
* `TaskPromise` is what a delegation promises: its result goes to the conversation that waits for it
  or, once nobody waits any more, into one report, never both; a cancelled one goes nowhere.
* `WorkerTask` is delegation over `JobTable`: conversation lanes admit tasks (`Admit`, `AdmitAgain`),
  wait for them and take their results or leave them to the outbox (`Collect`, `StopWaiting`); worker
  lanes take a task over, climb its ladder and settle it (`TakeWork` to `Finish`) or hand it back to
  the queue, which may give up on it (`WorkFails`, `PersistWork`); users cancel inputs and tasks;
  `Restart` is the recovery of the queue followed by that of the executor.
* `GoalPromise` is what a delegated goal promises: no more runs than its budget, one at a time and none
  after a withdrawal, and it is complete only when a whole plan is proved.
* `Steward` is the life of a goal's tasks. The statements on the tables are operators that take the
  tables and return them changed (`QueueTask`, `Consume`, `Sync`, `Claim`, `Flush`, `Prepare`...), so
  a transaction that runs several is their composition, in the order of the code. Actions are the
  steps of the pump (`PumpRecovers` to `PumpSays`), of the user's turn (`TurnPublishes`, `TurnQueues`,
  `TurnStarts`), of the schedule's dispatch, of commands (`Withdraw`, `Resolve`, `ScreenQueues`), of
  the speaker's callbacks, of the thread of a coding run, and `Die`, also in the middle of a
  withdrawal (`DieInWithdraw`), whose statements have no transaction around them.
* `RunPromise` is what those who start runs of the coding agent may rely on and what they keep to: one
  place for all runs, taken from the start of a run until its end is written; an agent that works only while its
  run has it; a stop that is never answered by a run that settled. Both `CodingRun` and `Steward` implement it.
* `CodingRun` is the coding agent by itself: the tools `Start`, `Inspect`, `Continue` and `Cancel`, each
  a transaction, the thread of a run of either method (`Spawn` to `Closes`; `CodexSends` to
  `CodexAccepts`), deletion of a message (`Forget`), and `Die` with `reconcile`.
* `Schedule` is the ledger of due entries and its tick, in three steps as in the code: what is read
  before the transaction (`Reads`), the transaction (`Transacts`), and the dispatch of each fired task
  with its answer (`Dispatches`, `Finishes`), or with the error that gives up the rest of the tick
  (`Rejects`).
* `SessionPromise` is what a session promises to those who use its connection: credentials are lent as
  the service honours them, renewed once each time they are due and while nobody uses them, and the
  connection is given back only when nobody does.
* `LarmSession` is a session from the moment its connection has an id: the end of `connect`
  (`Claims`, `StartFails`), requests (`Acquires` to `EndsUse`) and what they do after a failure
  (`Evicts`), the renewal that a request or the task spawns (`RenewalBegins` to `RenewalGivesUp`),
  `close` and the task it spawns (`CloseBegins` to `CloseDeletes`), the renewal task
  (`TickerWakes`, `TickerTurns`), the cache (`TakesOut`), `check_status` (`Checks`, `Clears`; the
  application does not call it today) and `Drop`. An action is what happens between two awaits; the lock
  is a queue of those who ask. `GivesUp` drops a waiter at any await, but not what it has spawned.
* `JobTableProofs` has the lemmas on the statements of `JobTable` that the proofs of the modules over it
  share; `TaskQueueProofs`, `ConversationQueueProofs`, `WorkerTaskProofs`,
  `StewardProofs`, `CodingRunProofs`, `ScheduleProofs` and `LarmSessionProofs` hold the theorems.
  The modules whose names begin with `MC` are the instances: `MCTaskQueue`, `MCConversation` (over
  `MCConversationQueue`), `MCDelegation` (over `MCWorkerTask`), `MCSteward`, `MCGoals` (over `MCSteward`),
  `MCDesk` and `MCEndings`.

A definition whose name has a suffix, such as `Recheck_Trusting`, is a plausible slip of the
definition before the underscore. No specification uses it; it documents what its property would
catch.

### Correspondence

| model | code |
| --- | --- |
| `jobs[j].state`, `.owner`, `.attempts`, `.ready`, `.rowid` | columns of `task_queue_jobs`; `absent` is no row |
| `TaskQueue!pc`, `held`, `token` | where `run_lane` is, its `Job` value, `job.owner` |
| `TaskQueue!stop`, `ConversationQueue!lane[w].stop` | the job's `RunCancellation` |
| `unsignalled` | a cancel command between its transaction and `cancel_generation` |
| `run`, `reply`, `said` of the conversation | `runtime_runs.status`, messages `reply_<key>`, `check_<key>` |
| `lane[w].blocked` | `retry_blocked` or `audio_started` of the attempt |
| `lane[w].streamed`, `hushed`, `VoiceFree` | the audio stream of an answer, its progress line ended, `SPEECH_LOCK` |
| `tasks[t]`, `reports` | a row of `worker_tasks` (with the last rung of its attempts), rows of `steward_reports` |
| `ask[c]`, `ask[c].got` | a conversation lane: waiting in `wait_terminal` or not; results its attempt was handed |
| `work[w].pc`, `InTask` | where the executor is in `process`; the entry in `signals::ACTIVE` |
| `work[w].tier`, `.tries`, `.verdict` | rung and same-rung count of `run_ladder`, its `Terminal` |
| `db.withdrawn`, `db.complete`, `db.plan` | status of goals and delegations, the version of the latest plan |
| `db.task[t]` | `.state` of the task; `.intent` and `.due` of its coding intent; `.reserve` of the budget; `.screen`, its source is a screen's receipt; `.claimed`, `.report`, `.speech` of its row in `steward_reports` |
| `db.job[t]`, `db.events` | the coding job of a task, `coding_events` beyond the steward's cursor |
| `agent[t]`, `own` | the agent's process of a delegated run, and of the user's own run: live, or an orphan of an earlier application |
| `host[h].pc`, `.launch`, `.speech` | where the pump and the user's turn are; a run committed but not spawned; reports whose speech is claimed |
| `job`, `run` of `CodingRun` | rows of `coding_jobs` and `coding_runs`; `mark` is `process_identity` |
| `view` | the revision a later `coding_continue` or `coding_cancel` was told by an inspect |
| `runner`, `how`, `process` | where the thread of a run is, how its work ended, what the agent's process does |
| `entries`, `enabled` | `schedule_entries` in the order of their rows, `schedule_runtime.enabled` |
| `tick[c]` | a call of `tick`: what it read of situation and coding slot, the fired tasks it has still to dispatch |
| `snapshot`, `lock`, `session` of `LarmSession` | `Session::snapshot` and its `RwLock`; `closed`, `stop`, `released` |
| `call`, `renewal`, `closing`, `lease` | where a request, the renewal it spawned and the close it spawned are; the credentials of its `Use` |
| `cached`, `Holders` | the session in `asr_session()` or `SESSION`; who has an `Arc` of it |
| `shown`, `heard`, `told`, `tries`, `proved`, `prompts`, `commits`, `lost`, `withdrawn` of `WorkerTask`, `presented`, `asked`, `dues` | history of the model |
| `restarts`, `replays`, `turns`, `resolves`, `counters` | how far the bounds of the model are used up |

## 3. Abstractions

* Text is what it asks for: `"ask"`, `"stop"` or `"replace"`; a payload is a model value.
* The two legacy kinds `conversation_resume` and `ornith_result`, which nothing enqueues any more, are
  left out. Terminal questions are rows of
  `TaskQueue` only and take part in the proofs, not in the instances.
* Each module has one scope or conversation; the queue's statements never relate two scopes.
  Generations other than the one in use are identities of their own.
* `ConversationQueue` joins registration and the durable re-check, which `TaskQueue` has apart, and
  assumes that the store accepts writes except where the answer transaction itself may fail.
* `WorkerTask` has neither speech nor the text of an answer: a saved answer may use every result the
  attempt was handed. Profiles are reduced to the length of the ladder and its limits; the refusals of
  `admit` change nothing and are left out, as are attempt rows, which are a log. Only profiles with
  read-only tools are admitted, so `has_unsettled_effect` is always false and the tool ledger does not
  bear on a restart. Its store accepts all writes.
* `Steward` has plans whose steps depend on the one before, and one task for each step of a plan, for
  `next_ready_plan_step` never makes a second one. What the gates find (`Findings`) and what the
  verifier makes of the evidence (`Outcomes`) are chosen freely, except that `"late"` needs a run that
  was launched before. The user's ordering of the queue is a free choice of an eligible task. The
  thread of a run is shortened to what the steward's tables see of it: `CodingRun` has all of it, except
  the end that cannot be written (`Overtaken`, `Unwritable`), which `RunPromise` allows the steward alone
  (`Rollback`). That the two say the same of a run is that both implement `RunPromise`: from the whole thread an observer
  of rows and processes sees nothing that the short one forbids, but for that end. A task that a decision has reopened may fail
  when its plan was replaced before; the new plan is then refused as a second one of its revision
  (`steward/schema.rs:110`), and the transaction that closes the run is rolled back with it.
  `DieInWithdraw` has the one point between the statements of a withdrawal that no other death stands
  for: the goal is withdrawn and its tasks are open. If only the run was asked to stop, the restart
  leaves it as `Die` does; what starts, syncs or completes work asks for an active goal and an active
  delegation both, so the statement between them makes no difference to it; and the reservations,
  released last, are read for active goals only. A statement that fails while the process lives is
  not modelled.
* `CodingRun` names a run by the message it comes from and a job by its first run: the code has one
  run for each source message. Runs of the terminal method, budgets of tool calls and session files are
  left out. `SendBreaks` is the broken pipe after which nobody knows whether the prompt went through.
* `Schedule` counts time in ticks. Revisions never change after a row is made, so `cas_status` is the
  comparison of the status. The situation and the coding slot are free choices of each tick, and so is
  whether the subject of delegated work names a task, which `schedule_add` does not ask.
* `LarmSession` has one provider, whose limit all requests share, and one request for each caller; what
  an answer of the service may be wrong about is one failure. That expiry comes near, and then comes, are two
  steps of the credentials' age. `dues` counts the first, so that a renewal is due while it is not less
  than the generation the service honours.
* A crash loses memory and keeps committed transactions; in `TaskQueue`, `PersistFails` is the store
  failure whose effect on the rows is modelled.

## 4. Runs

Several runs put instances side by side: a variable `which` says which one a behaviour is about, and the
others rest in their initial states. Their state spaces add up and do not multiply, and a fairness
condition of a resting instance asks for nothing, for nothing it speaks of is enabled there
before a user adds work (the schedule rests switched off for the same reason). `MCDesk` and `MCEndings`
say so in their fairness, condition by condition, only to let TLC skip the instances at rest. `queue`,
`conversation` and `delegation` instead check one instance in several sizes: a variable `size` says which rows and
workers a behaviour uses, and all properties are checked of all sizes.

| run | instances | checks | what it shows |
| --- | --- | --- | --- |
| `queue` | an input, its speech and a progress line with a restart and a failing store, or with a replay; two inputs for one place and two lanes; a worker row; two attempts, two restarts | `TypeOK`, `OneWorker`, `CommitOnce`, `AttemptsBounded`, `RunningIsHeld`, `CancelReaches`, `FinalIsFinal`, `KeepsPromise` | claims are exclusive, effects commit once, retries are bounded, no row runs without a worker, final rows are never touched, a cancel that races a claim reaches the handler, every row lives the life of `JobPromise`; two lanes that want the same rows never share one |
| `endings` | one input with speech in the queue; one queued answer; one delegation with a local and a cloud rung; a schedule of one entry of any kind, on or off at the beginning, with a switch; a schedule of two delegated entries where a tick looks at one; all but the last with a restart, and under fairness | `EverySettles`, `DueIsSettled`; `TypeOK`, `NoReplay`, `NothingVanishes` of the schedule | what was accepted is settled, closed and ended; scheduled work is asked for once, goes on when held, and is settled |
| `conversation` | two inputs that stop or replace each other on two lanes, a restart; and one question, streamed or queued for speech, with a progress line and two restarts | `TypeOK`, `TablesAgree`, `StopSticks`, `SpokenOnce`, `ProgressYields`, `KeepsPromise`, `CancelledStaysSilent` | row, run and reply agree in every committed state; what was stopped stays stopped; what is said aloud matches what is saved; `ConversationPromise` and, by every row, `JobPromise` are implemented |
| `conversation_regenerated` | one input, one lane | `NeverRegenerated`, expected to fail | see findings |
| `conversation_false_stop` | a stop request and an earlier input on two lanes | `StopTellsTruth`, expected to fail | see findings |
| `delegation` | one task, two worker lanes, a cloud rung above two others, and two attempts or a second restart; and two tasks of one input with a restart | `TypeOK`, `ActiveHasJob`, `CancelStopsWork`, `TaskMovesOn`; `PresentedOnce`, `KeepsPromise` | no active task is left without a job; a cancelled task's worker is told; verdicts stand and the ladder is never descended; each result is heard once; `TaskPromise` and, by every row, `JobPromise` are implemented |
| `delegation_withdrawn` | one task, one cancel | `WithdrawnUnreported`, expected to fail | see findings |
| `delegation_full` | one task, an admission limit of one | `FullDrains`, expected to fail | see findings |
| `steward` | a goal of two steps, a budget of two runs, one replan or two turns beside the pump, a restart; beside it a goal of one step and one run that may start from a screen and whose end the user decides, with the user's own runs and a restart | `TypeOK`, `OneAgent`, `ProvenInOrder`, `ReportedOnce`, `KeepsPromise` of the first; `DecidedSound`, the same of the second | never two agents in the workspaces, or two open tasks of a goal, nothing done unproved, nothing told twice; `GoalPromise` and `RunPromise` are implemented |
| `steward_silent` | a goal of one step, one turn | `EndIsTold`, expected to fail | see findings |
| `desk` | two coding runs, one of each method, a restart; one goal with a turn and a restart, for its liveness; a session with two requests and a limit of one, or one request and credentials that come near their end once | `TypeOK`, `OneAgentAtWork`, `DeliveryTold`, `JobFollowsRun`, `CancelHitsSeen`, `KeepsPromise` of the coding runs; `SessionKeepsPromise`, with the session's types; `RunsEnd`, of all three | one agent works at a time and its rows tell the truth about it; a stale cancel hits nothing new; `RunPromise` is implemented; the thread of every run ends and a claimed report becomes a message; credentials are renewed once and under nobody's hands, no request hangs, and no connection that is over stays unreleased |

The bounds are `MaxRestarts`, `MaxReplays`, `MaxTurns`, `MaxResolves`, `MaxSwitches`, `MaxEntries`,
`MaxNow`, the number of keys, runs, workers and attempts, and the admission limit. Two workers and two
jobs suffice for every race of the queue, because a race is
between two holders of one row or two rows of one key; two attempts reach first try, retry and last
failure; one restart reaches recovery from every state and two reach recovery of recovered rows.
`TopTier`, `CloudTier`, `MaxSameTierRetries` and `MaxTaskRestarts` are limits of a profile: two rungs
below the cloud, one retry on a rung and one restart of a task reach climbing, giving up, resuming on
the rung reached and failing as interrupted. `MaxLive = 1` in `delegation_full` stands for 16.
Two steps and one replan reach a dependency, a failed step and a plan that begins anew; a budget of two
is used up by them. Two coding runs are what a place for one is contended by, and a continued
job; one restart reaches `reconcile` in every state, and the proofs cover any number. The schedule's
clock needs two ticks, for an entry is held or deferred to the next one, and `DUE_LIMIT = 1` with
two entries stands for a ledger longer than its limit.
Two requests contend for a limit of one; a request and the renewal task are two that may find one set of
credentials due, and that these come near their end once reaches a renewal, one that fails and those that
come too late. Where two bounds multiply (a second turn and a second plan, a second restart and a retry, a
second request and a renewal), a behaviour of the runs has the one or the other, as a conjunct of the
instance's next-state relation in the `MC` module says.
Limits of 16 and 8 and three attempts are constants: the theorems hold for any value.
`CHECK_DEADLOCK FALSE` is set because a run in which everything is settled and no bound is left may
rightly stop.

### Fairness

`Fairness` of `TaskQueue`, `ConversationQueue` and `WorkerTask` is weak fairness of each lane's next step,
of the end of a backoff and of
the firing of tokens after a cancel. The code justifies it: lanes poll at least every second
(`CC/queue_runtime.rs:380`), every handler runs under the deadline of its route and
every tool and audio call under a timeout, the wait for a task under the synchronous window of its
profile and an attempt under its deadline, and the command that cancels goes on to fire tokens
without awaiting anything. The liveness
instances assume that failures can be written down (`StoreMayFail = FALSE`): otherwise a row stays
running until the next restart.

`Steward!Fairness` is weak fairness of the pump's steps, of a committed launch, of a run that is told to
stop or ends (its thread has a deadline) and of the clock, and strong fairness of `PumpFlushes`: the
pump's rounds come back for ever, and a situation does not hold speech for ever.
`CodingRun!Fairness` is weak fairness of the thread of each run, every wait of which has a
deadline (`runtime/pi/runner.rs`). `Schedule!Fairness` is weak fairness of a call that is under way
and of the loop's next tick, and strong fairness of a tick that finds no hold: with a hold for ever the
entries go on as held rows, which is what the user asked for. `LarmSession!Fairness` is weak fairness of requests, of
the renewal task, of spawned renewals and closes and of `Drop`: tasks are scheduled, and every call of the
service has a deadline. Nothing is assumed of users or of the
model; restarts are finitely many.

### Findings

* `NeverRegenerated`: when the audit record that ends a provider attempt cannot be written,
  `purpose_completion.rs:110` fires the job's own token. The `biased` select of `process_job`
  then returns the cancellation error before `process_conversation` can see `retry_blocked`, and
  `run_lane` queues the row again, although part of the answer was displayed.
  `spec/evidence/memory-context-first-trial/trial-notes.md:25` says it is never regenerated.
* `StopTellsTruth`: a stop request reads the active earlier input outside the transaction that
  cancels it; if another lane completes it in between, the reply still says that it was stopped.
* `WithdrawnUnreported`: `admit` does not ask whether the delegating job is still current. Between the
  transaction that cancels an input and the firing of its token, the handler can still admit a task,
  which that transaction could not cancel; if the wait runs out or the process restarts, its result is
  reported. `CC/queue_runtime.rs:45` says of such tasks that they never reach the outbox.
* `FullDrains`: nothing finishes the row of a worker job whose task is settled, so it stays running
  until a restart. `enqueue_text` counts it against the limit of 16, and after 16 delegations refuses
  every input with the advice to wait a little (`CC/queue_runtime.rs:134`).
* `EndIsTold`: the pump flushes reports only for conversations that already have a row which waits, and
  that row is written by a publication alone. A background task that ends while no report waits is told
  at the user's next turn at the earliest; `steward/report/publish.rs:117` and
  `spec/evidence/delegated-work/results.md:52` say that no turn is needed.

## 5. Proofs

`TaskQueueProofs` proves for every set of keys, jobs, workers, payloads and every value of the bounds:

| theorem | states |
| --- | --- |
| `Invariance` | `Spec => []IInv` |
| `TypeCorrect` | the type invariant |
| `NeverShared` | `OneWorker` |
| `NeverStranded` | `RunningIsHeld` |
| `CommitsOnce` | `CommitOnce` |
| `FinalForever` | `FinalIsFinal` |
| `AttemptsLimited` | `AttemptsBounded` |

`OneWorker` is not inductive by itself: a retry, a recovery or a replay makes a row claimable again, and
a second worker may take it unless nobody holds its copy any more. `IInv` adds what makes that true: a busy
worker's claim is current, or its row is cancelled, which is for ever (`OwnedOrCancelled`); a worker is
idle exactly while it holds nothing; and worker lanes hold worker jobs only, for their rows stay running
after a success. So a row that is neither running nor cancelled is held by nobody (`FreeRow`), a claim is
exclusive, every outcome path releases the worker together with the row it owns (`RunningIsHeld`), and a
commit needs a current claim and ends it (`CommitOnce`). `AttemptsBounded` needs that a queued row is
below the limit (`Bounded`), since a claim counts one more, and that a restart puts back only rows that
were live or were never begun (`RestartedAttempts`). The assumptions are `JobsAssumption`,
`WorkersAssumption` and `BoundsAssumption` of `TaskQueue`.

Two more theorems of `TaskQueueProofs` build on `Invariance`, from the same assumptions:

| theorem | states |
| --- | --- |
| `JobsPromised` | `Spec => KeepsPromise`: the queue implements `JobPromise` |
| `CancelAlwaysReaches` | `CancelReaches` |

What a job's observer sees is its state and its attempts, so a step keeps the promise when every row lives
on as it may (`Lives`); one lemma for each statement says so. Two of them need more than `IInv`, which `Fits`
adds: a lane that retries never holds speech or a progress line, so that no error puts back what people
may have heard; and a running row was counted by its claim, so that a restart never takes a progress line
that has begun for one that has not. The statements of a table are shown to be such lives in `JobTableProofs` as well, as `Moved`, for the modules whose
transactions combine them. A cancel reaches the handler because a cancelled row is reached by
a command that has still to fire (`unsignalled`), by a token that is already fired, or by a lane that has
yet to look at its row again: `Recheck` lets a handler begin only when its row still runs, and its token
was registered before (`WorkerMissesNone`).

`CodingRunProofs` proves for every set of messages, of jobs of either method and any number of restarts,
from `CodingAssumption`:

| theorem | states |
| --- | --- |
| `Invariance` | `Spec => []IInv` |
| `TypeCorrect` | the type invariant |
| `NeverTwoAgents` | `OneAgentAtWork` |
| `ToldTheTruth` | `DeliveryTold` |
| `JobAgrees` | `JobFollowsRun` |
| `SeenIsStopped` | `CancelHitsSeen` |
| `RunsPromised` | `Spec => KeepsPromise`: the coding service implements `RunPromise` |
| `NoneAbandoned` | a run's row says that it is being worked on exactly while a thread works on it (`Driven`) |
| `StopsStand` | an end stands, and a run that was asked to stop does not settle (`StopKept`) |

`OneAgentAtWork` follows from two facts that hold each other up: at most one run is active
(`OneActive`), and a process belongs to an active run (`ProcessHeld`). The second survives a death only
because `reconcile` keeps every run open whose process may exist, and for that it must know what was
launched: what the run's row records (`mark`, `delivery`) is never behind where its thread is.
`DeliveryTold` rests on that (`Stage`) and on runs not begun having had no prompt (`Unsent`);
`CancelHitsSeen` that a view with the job's revision shows the job's current run (`ViewFence`).

`RunPromise` sees the state of a run's row, and of its agent whether its thread has still to begin, is at work, or is gone
and has left a process behind. Most lines of a thread are therefore stutters of the promise, and each of the others is
one of its steps, by one lemma each. That a thread ends in the promise only what is open there is
`Driven`: there is a thread exactly for the runs that are worked on. `Vouched` is what the promise knows of a run that nobody
has begun or accepted: nothing in its row that reconcile could take for a process, so that a death ends it
(`DiePromised`), and no thread that ends well whose agent did not accept the prompt (`ClosesPromised`).
`StopsStand` is shown of the promise's steps and read back through the map.

`LarmSessionProofs` proves for every set of requests and every bound, without an assumption (not even
that the renewal task is no request):

| theorem | states |
| --- | --- |
| `Invariance` | `Spec => []IInv` |
| `SessionPromised` | `Spec => SessionKeepsPromise`: the session implements `SessionPromise` |

A lease is safe because it is a read lock: whoever has the write lock knows that nobody uses the
credentials (`Leased`). A renewal and a release keep it while they talk to the service, each alone and
with the credentials thrown away (`Writing`), so a renewal that looked again under the lock is due, and
what it claims is what the service honours (`Current`: a generation is counted against its expiry once).
That nothing is lent after the end has two reasons, one for each way to end (`Ended`): a close marks the
session before its task asks for the lock, and both a renewal and a request look at that mark once they
have it; and `Drop` finds nobody under way. Before the first claim there is nothing to protect
(`Starting`). Most steps only move a request, a renewal or a close on: `QuietStep` settles them at once,
and one lemma each the others.

`ConversationQueueProofs` proves for every set of inputs and of lanes and any number of restarts, from
`ConversationAssumption`:

| theorem | states |
| --- | --- |
| `Invariance` | `Spec => []IInv` |
| `TypeCorrect` | the type invariant |
| `TablesInStep` | `TablesAgree` |
| `StoppedForGood` | `StopSticks` |
| `SpeaksOnce` | `SpokenOnce` |
| `ProgressGivesWay` | `ProgressYields` |
| `CancelledSilent` | `CancelledStaysSilent` |
| `ConversationPromised` | `Spec => KeepsPromise`: the conversation implements `ConversationPromise`, and its rows `JobPromise` |

`TablesAgree` alone is not inductive: recovery may put a row back or interrupt it, and whether it does
depends on its kind and on who reads it. `Booked` says how far the tables go together: an input's row is
never `interrupted`, its run is read off the row, a reply and a speech row exist from the commit on and not
before. `Halted` ties a stop reply to the input it names, which is over with its speech. `StopSticks`
survives a retry or a restart because both touch live rows only, and a late commit because it asks
whether its row is still owned. `Unheard` is what `SpokenOnce` needs: speech that is still queued has not
been heard, and playback begins only from a claim, whose lane remembers that (`Speaks`). `Asks` says what
a conversation lane remembers between two transactions: an accepted input and, for a stop or a
replacement, another accepted one.
What the promise sees of an input is read off its row, so a step keeps the promise when it moves the
row of at most one input (`PlainPromised`); only a reply to a stop request moves two, and it does so
in one transaction (`StopPromised`). `JobPromise` looks at all rows at once, and an answer is four
statements on them. A statement moves a row as the promise allows (`Moved` of `JobTableProofs`, with one lemma for each
statement of `JobTable`), and statements on rows apart make one such move (`ApartMoved`). The exception is recovery, which
interrupts a row and may put it back in the same transaction: of progress lines only those that were
never claimed, and `Tallied` says that a running row was.

`WorkerTaskProofs` proves for every set of inputs, tasks, conversation and worker lanes and every bound,
from `WorkerAssumption`:

| theorem | states |
| --- | --- |
| `Invariance` | `Spec => []IInv` |
| `TypeCorrect` | the type invariant |
| `NoTaskLeftBehind` | `ActiveHasJob` |
| `CancelIsTold` | `CancelStopsWork` |
| `ResultHeardOnce` | `PresentedOnce` |
| `VerdictsStand` | `TaskMovesOn` |
| `DelegationsPromised` | `Spec => KeepsPromise`: delegation implements `TaskPromise`, and its rows `JobPromise` |

A task is a row of its own with a job of the queue behind it for each time it was restarted, and the two
tables are written together only at admission, cancel and recovery. `RowsFollow` says what holds in
between: the newest generation is never beyond the restarts there have been, at most one row of a task is
live, and no row is cancelled while the task is active. With it a worker that comes late finds its row
cancelled or its task over. `WorkHeld`, `OneLabourer` and `OneInTask` are the exclusive claim, seen from the
executor; `TierAhead` keeps a rung that was reached, so no restart descends the ladder. `PresentedOnce` is
not inductive without `Presented` and `AskedFor`: what an attempt was handed is marked `sync_delivered`,
belongs to the input of its lane, and is presented only by the step that ends that input's row, which
happens once. `DeliveryFits` lists the five ways a task, its delivery and its report go
together; each step maps one to one of the others, and that is the proof of the promise. For `JobPromise` the lemmas on
the statements are those of the conversation; what is special is recovery, whose new row for a surviving
task (`ensure_live_job`) must not replace one: the newest generation is below the restarts there have been
(`RowsFollow`), so the next is unused (`FreshRow`).

`ScheduleProofs` proves for every set of wishes, every limit of a tick and every bound, from
`ScheduleAssumption` (what the user may wish for is never a held row: `parse_add_kind`):

| theorem | states |
| --- | --- |
| `Invariance` | `Spec => []IInv` |
| `TypeCorrect` | the type invariant |
| `AskedOnce` | `NoReplay` |
| `NothingLost` | `NothingVanishes` |

`NoReplay` counts what was asked for and says nothing of what still will be. `OneAhead` does: of all rows of
an entry at most one is ahead of its dispatch, that is waits or has been fired by a tick that has not
come to it yet, and while there is one the work was not asked for. Two ticks at a time keep it because the
transaction of each fires waiting rows only, so that no row is on two of their lists
(`DispatchesFired`); a crash or a failed write gives rows of such a list up and never puts them back. `LastWaits` is
`NothingVanishes` together with its reason: only the last row of an entry waits, so only a last row is put off, and
the transaction that puts it off makes the next one. `Rooted` says that the retries and held rows of an
entry belong to it and carry its delegation. Every step but one only brings rows nearer to their end
(`Ages`), and `AgingKeeps` settles these at once; `TransactsKeeps` is the tick, which puts rows off
(`PutOff`) and makes rows that follow them, one each, in the order in which they are due. `Moves` is what
the two have in common, and the lemmas about the parts of `IInv` know only that.

`StewardProofs` proves for every set of goals, every number of steps, replans and runs of a budget and
every bound, with and without a screen and runs of the user's own, from `StewardAssumption`:

| theorem | states |
| --- | --- |
| `Invariance` | `Spec => []IInv` |
| `TypeCorrect` | the type invariant |
| `NeverTwoAgents` | `OneAgent` |
| `AlwaysProvenInOrder` | `ProvenInOrder` |
| `ReportedOnlyOnce` | `ReportedOnce` |
| `GoalsPromised` | `Spec => KeepsPromise`: the steward implements `GoalPromise` and, for the runs it starts, `RunPromise` |
| `WithinBudget` | a goal never costs more runs than were granted (`Budgeted`) |
| `CompleteIsProved` | a complete goal has a plan of which every step was proved (`Completed`) |
| `StopsStand` | an end of a run stands, and a run that was asked to stop does not settle (`StopKept`) |

`OneAgent` looks at processes, and what admits a new one looks at the tables (`active_run_exists`).
`Place` ties the two together: at most one job is active, none while the user's own run is, and every
process, an orphan and a launch on its way included, belongs to an active job. A launch is in memory only,
so `Place` also says that no process stands behind its job yet, and that only one host has one. A
restart keeps it because it leaves active every job whose process survived, and ends the others.
`ProvenInOrder` says nothing of what is on its way: a task queued for a step whose predecessor was done, and
an event that has still to be consumed. `InOrder` covers the first, for a done task may be reopened or
cancelled later while its proof stands; `Backed` the second: a settled event has an outcome, and a pass
among them is proved already. `ReportedOnce` needs that the rows remember what was told and heard
(`Said`): one message for a flushed report and none before, and speech that is pending, being started or
suppressed has not been heard, which holds across a restart because it never puts speech back.
The promise counts the runs started against the budget; `Launched` reads them off the jobs, and a job once
there stays. A goal is complete in the promise only by the end of a run, so `Late` is needed: what
another step than the end of a run consumes was written by a restart, and such events complete nothing.
A run ends in one transaction that consumes its own event last, so the last proof and the completion
are one step there as well. The last three theorems are what the two promises mean for the tables: each is
inductive once the steps of the tables are known to be steps of the promise.

`TypeCorrect` has a part that is no type: two tasks of a goal are never open at once (`Unique`), which the code
leaves to a unique index. A task is queued only for a goal that has none open (`QueuedUnique`), and what else a
transaction does to tasks mostly opens none (`NoneOpensUnique`). Only a reconciliation and a decision of the user
reopen tasks. There the index refuses, and the model has the refusals: a round of the pump ends with the
rows before it written (`PumpRecovers`), a publication is undone as a whole (`PumpFlushes`, `TurnPublishes`), a decision
fails (`Resolve`). The theorem says that no other transaction, among them the end of a run with all that
it consumes, can meet the index: the model has no guard there, and needs none.

`driver::consume` goes through the events in order, and what it does to the tables is a recursive function
of their number. No theorem on induction in the library can be instantiated here, for each takes an
operator; `CourseRuns` (that the function is there) and `ConsumeWorks` argue by the least number of events
for which a claim fails instead (`LeastOf`, from the theorem that finite sets do not shrink for ever),
for one fixed set of numbers at a time. The claim itself is always one that single events preserve (`ApplyWorks`): that rows go on
as they may (`Works`), and that each goal completed has an event that completes it. What the whole
composition computes is not needed.

The invariants `IInv` of these modules were model-checked on small instances before they were proved; the proofs
corrected the model twice. A failing plan insert, which the steward's model had as a silent
refusal, undoes the end of the run with it (`Unwritable`); and `GoalPromise` asked that the run which
completes a goal belong to the plan that is complete, while a reopened run of a replaced plan may be the
last to end.

Model-checked only: liveness, for fairness and ENABLED are beyond the prover (`EverySettles`,
`DueIsSettled`, `RunsEnd`), and the types of a session, which run `desk` checks with its promise: its lock is a queue
from which a request that gives up is taken by `SelectSeq`, and what a recursive definition yields for every
sequence takes induction over data. `LarmSessionProofs` needs of the queue only who is in it. Run `steward`
checks of its second goal (`DecidedSound`) what `StewardProofs` proves of any; run `endings` checks the
schedule's properties that `ScheduleProofs` proves, and run `desk` those of the coding agent; the session of
`desk` is an instance, and the theorems of `LarmSessionProofs` are about its module. That a refused
transaction of the steward is followed by one that succeeds is not stated at all: no document promises it, and
section 7 names the case in which it does not happen before a restart.

## 6. Plan

1. Done: the queue, its promise and its proofs; the conversation over it; delegation to worker agents;
   the steward with its promise; the coding agent, the schedule and LARM sessions, each with its proofs.
2. Done: the proofs of every safety property and every promise that the runs check, and that the modules over the job
   table keep the promise of the queue. Next is a narrower view of the end of a run for which a reopened
   task's failure (`Unwritable`) is shown to be the only one that stays unwritten.
3. Done: the steward's shortened run and the whole one of `CodingRun` implement one `RunPromise`. A steward that
   is composed with `CodingRun` itself would add the tools' revisions, and is not planned.
4. `RoleRouting` (the coordinator's state and its recovery), `MediaLedger`, personal-state jobs, the
   promotion of generated capabilities, terminal questions: one module each.
5. Pure algorithms against a reference definition: the tier ladder with its budget, the retry backoff
   of the queue, provider cooldowns, tool ranking ties.

## 7. Not modelled

PROJECT.json gives the reason for each component: input and output of external services and devices,
pure ranking and storage, generated or offline parts, and the subsystems the plan reaches later. The
repository has some 180 000 lines in 927 files; most of them are adapters of providers and devices,
user interface, contracts, catalogues, SQL text and diagnosis, in which nothing interleaves. The models
are about the part that keeps promises over concurrency and crashes, so the share of all lines they
cover is small by design.

Inside the modelled components these are left out: the calendar of the schedule (projection, observation,
sign-in); the terminal method of the coding agent with its questions; the budgets and the replay cache
of its tools; registration and amendment of goals, recipes and the reading of intents; learning labels;
profiles of worker agents and what a runner does within an attempt; creation and polling of a LARM
connection, its catalogue, contexts and the contracts of the service's answers.

Hazards that were looked at and have no property, because the code promises nothing there:

* a failed answer leaves a progress line playing (`CC/queue_runtime.rs:632`); a replacement whose own
  answer fails leaves the earlier request cancelled (`CC/queue_runtime.rs:463`);
* a crash while an answer is streamed to the speaker leaves no trace, and the recovered input is answered
  aloud again (`CC/streaming_speech.rs:149`; `heard` counts saved answers);
* a reopened task of a replaced plan fails, and its run stays open without a process until the application
  restarts (`steward/repository/queue_task.rs:274`);
* a run whose application died between `launching` and the write of its pid, or a codex-sdk run that died
  after its delivery was marked, has no pid to look at and keeps the single place at every later start
  (`coding/recovery.rs:24`): on purpose, as `coding/tests.rs:114` asserts, for an agent nobody can find may still
  be at work, and `OneAgentAtWork` rests on it;
* a stop of a codex-sdk run is seen when its turn is over (`runtime/pi/codex_runner.rs:59`);
* a task in dispatch or verification is not cancelled when its goal is withdrawn
  (`steward/dispatch.rs:269`), and an entry withdrawn while its work waits for its dispatch is still
  dispatched (`schedule/tick.rs:28`, `:73`).
