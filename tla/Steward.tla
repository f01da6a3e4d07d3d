------------------------------ MODULE Steward ------------------------------
(***************************************************************************)
(* Delegated work: a goal has a plan of steps, a step becomes a task, a    *)
(* task a coding job, and the job's end, judged by host evidence, the next *)
(* step, another plan or a report to the conversation and the speaker      *)
(* (steward/, with the coding agent of CodingRun as one job per task).     *)
(* The pump drains in the schedule loop, a user's turn runs beside it, and *)
(* the process may die. One conversation; tasks of a goal come one by one. *)
(***************************************************************************)
EXTENDS Integers, FiniteSets, Sequences, Functions

CONSTANTS
  Goals,        \* registered goals, with one delegation each
  Own,          \* whether the user starts coding runs too
  Screen,       \* whether goals may be started from a screen, without a user message
  Steps,        \* steps of the plan: each depends on the one before it
  Budget,       \* budget_runs of the delegation
  MaxReplans,   \* max_replans of the plan: 2 in the code
  Confirm,      \* goals whose last step asks for user_confirmation_required
  NoTask,
  MaxTurns,     \* bound of the model: user turns
  MaxResolves,  \* bound of the model: approvals, rejections and re-inspections
  MaxRestarts   \* bound of the model: how often the process may die

Plans == 1 .. MaxReplans + 1
Tasks == [goal : Goals, plan : Plans, step : 1 .. Steps]

ASSUME StewardAssumption ==
  /\ IsFiniteSet(Goals) /\ Screen \in BOOLEAN /\ Own \in BOOLEAN
  /\ Steps \in Nat \ {0} /\ Budget \in Nat /\ MaxReplans \in Nat
  /\ Confirm \subseteq Goals /\ NoTask \notin Tasks
  /\ MaxTurns \in Nat /\ MaxResolves \in Nat /\ MaxRestarts \in Nat

VARIABLES
  db,        \* the steward and coding tables
  agent,     \* what is left of each task's coding process
  own,       \* the user's own coding run, which shares the agent: what is left of it
  host,      \* what the pump and the user's turn are doing
  playing,   \* sets of reports the speaker was given
  told,      \* history: how often a task's report became a message
  heard,     \* history: how often its playback began
  proved,    \* history: tasks whose evidence passed, or that the user approved
  turns, resolves, restarts

counters == <<turns, resolves, restarts>>
history == <<told, heard, proved>>
vars == <<db, agent, own, host, playing, history, counters>>

Hosts == {"pump", "turn"}
OpenStates == {"queued", "running", "awaiting_user", "verifying"}
TaskStates == OpenStates \cup {"absent", "done", "failed", "cancelled", "outcome_unknown"}
JobActive == {"queued", "running", "cancel_requested", "outcome_unknown"}
JobStates == JobActive \cup {"none", "settled", "failed", "interrupted"}
(* What the verifier can make of the evidence of a settled run. *)
Outcomes(t) ==
  IF t.goal \in Confirm /\ t.step = Steps THEN {"confirm"} ELSE {"pass", "fail", "missing", "unknown"}

NoRow == [state |-> "absent", intent |-> "none", due |-> TRUE, reserve |-> "none",
          screen |-> FALSE, claimed |-> FALSE, report |-> "none", speech |-> "none"]
Idle == [pc |-> "idle", launch |-> NoTask, speech |-> {}]

Init ==
  /\ db = [withdrawn |-> {}, complete |-> {}, plan |-> [g \in Goals |-> 1],
           task |-> [t \in Tasks |-> NoRow], job |-> [t \in Tasks |-> "none"], events |-> <<>>]
  /\ agent = [t \in Tasks |-> "none"] /\ own = "none"
  /\ host = [h \in Hosts |-> Idle]
  /\ playing = {}
  /\ told = [t \in Tasks |-> 0] /\ heard = [t \in Tasks |-> 0] /\ proved = {}
  /\ turns = 0 /\ resolves = 0 /\ restarts = 0

-----------------------------------------------------------------------------
(* Statements on the tables: each takes them and returns them changed.     *)

Active(d, g) == g \notin d.withdrawn
TasksOf(g) == {t \in Tasks : t.goal = g}
Open(d, t) == d.task[t].state \in OpenStates
RunActive(d) == \E t \in Tasks : d.job[t] \in JobActive
Put(d, t, row) == [d EXCEPT !.task[t] = row]

(* source_valid and authorize: the run's authority still stands. *)
Authorized(d, t) ==
  /\ ~d.task[t].screen /\ Active(d, t.goal)
  /\ d.task[t].state \in {"queued", "running", "awaiting_user"}

(* set_loop_state *)
Loop(d, t, st) ==
  IF d.task[t].state \in {"cancelled", "outcome_unknown"} \/ ~Active(d, t.goal) THEN d
  ELSE [d EXCEPT !.task[t].state = st,
                 !.task[t].reserve = CASE @ = "reserved" /\ st = "running" -> "consumed"
                                       [] @ = "reserved" /\ st = "cancelled" -> "released"
                                       [] OTHER -> @]

(* Slip: a failed dependency is as good as a finished one. *)
Ready_AnyEnd(d, g) ==
  {t \in TasksOf(g) : /\ t.plan = d.plan[g] /\ d.task[t].state = "absent"
                      /\ \/ t.step = 1
                         \/ d.task[[t EXCEPT !.step = @ - 1]].state \in {"done", "failed"}}

(* next_ready_plan_step: steps of the latest plan without a task whose dependency is done. *)
Ready(d, g) ==
  {t \in TasksOf(g) : /\ t.plan = d.plan[g] /\ d.task[t].state = "absent"
                      /\ t.step = 1 \/ d.task[[t EXCEPT !.step = @ - 1]].state = "done"}

Reserved(d, g) == {t \in TasksOf(g) : d.task[t].reserve \in {"reserved", "consumed"}}

(* queue_task: nothing when no step is ready, the budget is reserved or a task is open. *)
QueueTask(d, g, screen) ==
  LET fresh == Ready(d, g) IN
  IF fresh = {} \/ Cardinality(Reserved(d, g)) >= Budget \/ \E t \in TasksOf(g) : Open(d, t) THEN d
  ELSE LET t == CHOOSE t \in fresh : \A u \in fresh : t.step <= u.step IN
       Put(d, t, [NoRow EXCEPT !.state = "queued", !.intent = "pending", !.reserve = "reserved",
                           !.screen = screen])

(* Slip: the tasks there are count, not the steps of the plan. *)
Finish_Tasks(d, g) ==
  IF \A t \in TasksOf(g) : t.plan = d.plan[g] => d.task[t].state \in {"absent", "queued", "done"}
  THEN [d EXCEPT !.complete = @ \cup {g}] ELSE d

(* finish_goal_if_complete *)
Finish(d, g) ==
  IF \A t \in TasksOf(g) : t.plan = d.plan[g] => d.task[t].state = "done"
  THEN [d EXCEPT !.complete = @ \cup {g}] ELSE d

(* UNIQUE(goal_id, revision): the plan after this task's is there already. *)
Overtaken(d, t) == t.plan <= MaxReplans /\ t.plan < d.plan[t.goal]

(* replan_after_failure: the plan once more, while replans are left; for a task whose plan *)
(* was replaced before, the statement fails (see RunEnds).                                  *)
Replan(d, t) ==
  IF t.plan > MaxReplans \/ Overtaken(d, t) THEN d
  ELSE QueueTask([d EXCEPT !.plan[t.goal] = t.plan + 1], t.goal, d.task[t].screen)

(* map_to_task_state of the verifier's outcome *)
Judged(outcome) == CASE outcome = "pass" -> "done"
                     [] outcome = "fail" -> "failed"
                     [] outcome = "unknown" -> "outcome_unknown"
                     [] outcome \in {"missing", "confirm"} -> "awaiting_user"

(* apply_terminal_event *)
Apply(d, e) ==
  LET t == e.task
      st == CASE e.kind = "settled" -> Judged(e.outcome)
              [] e.kind = "outcome_unknown" -> "outcome_unknown"
              [] OTHER -> "failed"
      after == Loop(d, t, st) IN
  IF ~Active(d, t.goal) \/ ~Open(d, t) THEN d
  ELSE IF st = "done" THEN Finish(QueueTask(after, t.goal, d.task[t].screen), t.goal)
  ELSE IF e.kind = "failed" THEN Replan(after, t)
  ELSE after

(* driver::consume: the events after the cursor, in order. *)
Consume(d) ==
  LET after[n \in 0 .. Len(d.events)] ==
        IF n = 0 THEN d ELSE Apply(after[n - 1], d.events[n])
  IN  [after[Len(d.events)] EXCEPT !.events = <<>>]

(* Slip: an ended job's state is taken over as it is called. *)
Synced_JobName(d, t) ==
  IF d.job[t] \in {"failed", "interrupted"} THEN d.job[t] ELSE d.task[t].state

(* The state sync_from_coding wants for a task of an active goal. *)
Synced(d, t) ==
  LET st == d.task[t].state IN
  CASE d.job[t] = "none" -> st
    [] d.job[t] = "settled" -> IF st \in {"done", "failed", "cancelled"} THEN st ELSE "verifying"
    [] d.job[t] = "queued" -> "queued"
    [] d.job[t] \in {"running", "cancel_requested"} -> "running"
    [] d.job[t] = "outcome_unknown" -> "awaiting_user"
    [] d.job[t] = "failed" -> "failed"
    [] d.job[t] = "interrupted" -> "cancelled"

(* sync_from_coding for the tasks S; for a withdrawn goal set_loop_state refuses the change. *)
SyncSome(d, S) ==
  [d EXCEPT !.task = [t \in Tasks |-> IF t \notin S \/ d.task[t].state = "absent" THEN d.task[t]
                                      ELSE Loop(d, t, Synced(d, t)).task[t]]]
Sync(d) == SyncSome(d, Tasks)

(* steward_active_task_dedupe: a statement that opens a second task of a goal fails. *)
Unique(d) == \A t, u \in Tasks : t.goal = u.goal /\ Open(d, t) /\ Open(d, u) => t = u

Reportable == {"done", "failed", "cancelled", "awaiting_user", "outcome_unknown"}

(* Slip: a report is told as often as its task is seen at an end. *)
Claim_Again(d, silent) ==
  [d EXCEPT !.task = [t \in Tasks |->
     IF d.task[t].state \notin Reportable \/ d.task[t].report \in {"waiting", "later"} THEN d.task[t]
     ELSE [d.task[t] EXCEPT !.claimed = TRUE,
                            !.report = IF silent THEN "later" ELSE "waiting",
                            !.speech = IF silent THEN "none" ELSE "pending"]]]

Waiting(d) == {t \in Tasks : d.task[t].report = "waiting"}

(* claim_terminals and enqueue_task_report: silent reports come due later and unspoken. *)
Claim(d, silent) ==
  [d EXCEPT !.task = [t \in Tasks |->
     IF d.task[t].state \notin Reportable \/ d.task[t].claimed THEN d.task[t]
     ELSE [d.task[t] EXCEPT !.claimed = TRUE,
                            !.report = IF silent THEN "later" ELSE "waiting",
                            !.speech = IF silent THEN "none" ELSE "pending"]]]

(* outbox::flush_unflushed: one message for all that is due. *)
Flush(d) ==
  [d EXCEPT !.task = [t \in Tasks |-> IF t \in Waiting(d)
                                      THEN [d.task[t] EXCEPT !.report = "flushed"] ELSE d.task[t]]]

Publish(d, silent) == Claim(Sync(Consume(d)), silent)

-----------------------------------------------------------------------------
(* Dispatch: prepare_candidate in one transaction, the launch after it.    *)

Eligible(d) ==
  {t \in Tasks : /\ d.task[t].state = "queued" /\ d.task[t].intent = "pending"
                 /\ d.task[t].due /\ Active(d, t.goal)}

Launched(d, g) == {t \in TasksOf(g) : d.job[t] # "none"}
Park(d, t) == [d EXCEPT !.task[t].intent = "pending", !.task[t].due = FALSE]
Refuse(d, t) == [d EXCEPT !.task[t].intent = "failed"]

(* What the checks of prepare_candidate can come to: a spent time budget, a workspace or *)
(* profile that is not there, a source that forbids the work now, another error.        *)
Findings == {"clear", "late", "blocked", "forbidden", "error"}

(* budget_exceeded by runs *)
Spent(d, g) == Cardinality(Launched(d, g)) >= Budget

(* Slip: the user's own run is not asked about. *)
Busy_NotOwn(d) == RunActive(d)

(* active_run_exists *)
Busy(d) == own # "none" \/ RunActive(d)

(* prepare_candidate: the tables after it, and the task to launch. *)
Prepare(d, t, finding) ==
  LET row == d.task[t]
      Stay(e) == [db |-> e, launch |-> NoTask] IN
  IF Spent(d, t.goal) \/ (finding = "late" /\ Launched(d, t.goal) # {})
  THEN Stay(Loop(d, t, "awaiting_user"))
  ELSE IF finding = "blocked" THEN Stay(Park(Loop(d, t, "awaiting_user"), t))
  ELSE IF row.intent = "accepted" THEN Stay(Loop(d, t, "running"))
  ELSE IF row.intent # "pending" THEN Stay(d)
  ELSE IF finding = "forbidden" THEN Stay(Refuse(Loop(d, t, "cancelled"), t))
  ELSE IF finding = "error" THEN Stay(Refuse(Loop(d, t, "failed"), t))
  ELSE IF Busy(d) THEN Stay(Park(d, t))
  ELSE [db |-> [Loop(d, t, "running") EXCEPT
                  !.task[t].intent = "accepted",
                  !.job[t] = IF @ = "none" THEN "queued" ELSE @],
        launch |-> IF d.job[t] = "none" THEN t ELSE NoTask]

(* One look for work by host h, with the gates open; its next step is next. *)
Dispatch(h, candidates, next) ==
  \E t \in candidates, finding \in Findings :
    LET result == Prepare(db, t, finding) IN
    /\ finding = "late" => Launched(db, t.goal) # {}
    /\ db' = result.db
    /\ host' = [host EXCEPT ![h].pc = next, ![h].launch = result.launch]
    /\ UNCHANGED <<agent, own, playing, history, counters>>

Goes(h, label) == host' = [host EXCEPT ![h].pc = label]

(* spawn_run, after the commit. *)
Launch(h) ==
  /\ host[h].launch # NoTask
  /\ host' = [host EXCEPT ![h].launch = NoTask]
  /\ agent' = [agent EXCEPT ![host[h].launch] = "live"]
  /\ UNCHANGED <<db, own, playing, history, counters>>

At(h, label) == host[h].pc = label /\ host[h].launch = NoTask

-----------------------------------------------------------------------------
(* The pump: drain of one round.                                           *)

OpenWork(d) ==
  (\E t \in Tasks : Open(d, t)) \/ \E t \in Tasks : d.task[t].report \in {"waiting", "later"}

(* recover_conversations; when a row cannot open again the round ends there, with the rows *)
(* before it written. A round that begins without open work finds nothing to do.          *)
PumpRecovers ==
  /\ At("pump", "idle") /\ OpenWork(db)
  /\ \/ /\ Unique(Sync(Consume(db)))
        /\ db' = Sync(Consume(db)) /\ Goes("pump", "start")
     \/ \E S \in SUBSET Tasks :
          /\ ~Unique(Sync(Consume(db))) /\ Unique(SyncSome(Consume(db), S))
          /\ db' = SyncSome(Consume(db), S) /\ Goes("pump", "idle")
  /\ UNCHANGED <<agent, own, playing, history, counters>>

(* start_next_global, up to eight times *)
PumpStarts == At("pump", "start") /\ Dispatch("pump", Eligible(db), "start")

PumpStopsStarting ==
  /\ At("pump", "start") /\ Goes("pump", "flush")
  /\ UNCHANGED <<db, agent, own, playing, history, counters>>

TellsAll(d) ==
  told' = [t \in Tasks |-> told[t] + IF t \in Waiting(d) THEN 1 ELSE 0]

(* flush_held_reports of the conversation when it has rows that wait, and no hold. *)
PumpFlushes ==
  /\ At("pump", "flush") /\ Unique(Sync(Consume(db)))
  /\ \E t \in Tasks : db.task[t].report \in {"waiting", "later"}
  /\ \E silent \in BOOLEAN :
       LET after == Publish(db, silent) IN
       db' = Flush(after) /\ TellsAll(after)
  /\ Goes("pump", "follow")
  /\ UNCHANGED <<agent, own, playing, heard, proved, counters>>

(* Nothing waits, the situation holds speech, or the transaction failed. *)
PumpSkipsFlush ==
  /\ At("pump", "flush") /\ Goes("pump", "idle")
  /\ UNCHANGED <<db, agent, own, playing, history, counters>>

(* start_queued_for_conversation, with the gates open or closed. *)
PumpFollows ==
  /\ At("pump", "follow")
  /\ \/ Dispatch("pump", Eligible(db), "speak")
     \/ Goes("pump", "speak") /\ UNCHANGED <<db, agent, own, playing, history, counters>>

Unspoken == {t \in Tasks : db.task[t].report = "flushed" /\ db.task[t].speech = "pending"}
Voiced(d, S, st) ==
  [d EXCEPT !.task = [t \in Tasks |-> IF t \in S THEN [d.task[t] EXCEPT !.speech = st]
                                      ELSE d.task[t]]]

(* claim_pending_speech, or suppress_pending_speech where policy forbids. *)
PumpClaimsSpeech ==
  /\ At("pump", "speak")
  /\ \E allowed \in BOOLEAN :
       /\ db' = Voiced(db, Unspoken, IF allowed THEN "starting" ELSE "suppressed")
       /\ host' = [host EXCEPT !["pump"].pc = IF allowed /\ Unspoken # {} THEN "say" ELSE "idle",
                               !["pump"].speech = IF allowed THEN Unspoken ELSE {}]
  /\ UNCHANGED <<agent, own, playing, history, counters>>

(* mark_speech_state moves only claimed speech. *)
Marked(d, S, st) ==
  Voiced(d, {t \in S : d.task[t].speech \in {"starting", "playing"}}, st)

(* The reports are handed to the speaker, which may fail. *)
PumpSays ==
  /\ At("pump", "say")
  /\ \/ /\ playing' = playing \cup {host["pump"].speech}
        /\ db' = db
     \/ /\ playing' = playing
        /\ db' = Marked(db, host["pump"].speech, "unknown")
  /\ host' = [host EXCEPT !["pump"] = Idle]
  /\ UNCHANGED <<agent, own, history, counters>>

(* Callbacks of the speaker: speechStarted, then speechEnded or speechFailed. *)
PlaybackStarts(S) ==
  /\ S \in playing /\ \A t \in S : db.task[t].speech = "starting"
  /\ db' = Marked(db, S, "playing")
  /\ heard' = [t \in Tasks |-> heard[t] + IF t \in S THEN 1 ELSE 0]
  /\ UNCHANGED <<agent, own, host, playing, told, proved, counters>>

PlaybackEnds(S) ==
  /\ S \in playing /\ playing' = playing \ {S}
  /\ \E st \in {"finished", "unknown"} : db' = Marked(db, S, st)
  /\ UNCHANGED <<agent, own, host, history, counters>>

-----------------------------------------------------------------------------
(* The user: turns, withdrawals and decisions; the clock.                  *)

(* on_user_message: reports first, told now unless speech is held. A publication that *)
(* fails is rolled back and ends the reduction.                                       *)
TurnPublishes ==
  /\ At("turn", "idle") /\ turns < MaxTurns /\ Unique(Sync(Consume(db)))
  /\ \E held, silent \in BOOLEAN :
       LET after == Publish(db, silent) IN
       IF held THEN db' = after /\ told' = told
       ELSE db' = Flush(after) /\ TellsAll(after)
  /\ turns' = turns + 1
  /\ Goes("turn", "queue")
  /\ UNCHANGED <<agent, own, playing, heard, proved, resolves, restarts>>

(* The start phrase queues a task of every active goal, an admitted proposal one of its own. *)
TurnQueues ==
  /\ At("turn", "queue")
  /\ \/ Goes("turn", "idle") /\ db' = db
     \/ /\ LET asked == Goals \ db.withdrawn IN
           \E S \in {asked} \cup {{g} : g \in asked} :
             db' = [db EXCEPT !.task = [t \in Tasks |->
                      IF t.goal \in S THEN QueueTask(db, t.goal, FALSE).task[t] ELSE db.task[t]]]
        /\ Goes("turn", "start")
  /\ UNCHANGED <<agent, own, playing, history, counters>>

(* register_steward_goal with start: the first task, with the screen's receipt as its source. *)
ScreenQueues(g) ==
  /\ Screen /\ Active(db, g) /\ \A t \in TasksOf(g) : db.task[t].state = "absent"
  /\ db' = QueueTask(db, g, TRUE)
  /\ UNCHANGED <<agent, own, host, playing, history, counters>>

TurnStarts ==
  /\ At("turn", "start")
  /\ \/ Dispatch("turn", Eligible(db), "idle")
     \/ Goes("turn", "idle") /\ UNCHANGED <<db, agent, own, playing, history, counters>>

(* dispatch_scheduled names a queued task whatever its intent and its due time. *)
ScheduleStarts ==
  /\ At("turn", "idle")
  /\ Dispatch("turn", {t \in Tasks : db.task[t].state = "queued" /\ Active(db, t.goal)}, "idle")

(* coding::service::cancel, whose errors withdraw_specified ignores. *)
CancelledJob(d, t) ==
  IF Authorized(d, t) /\ d.job[t] \in {"queued", "running"} THEN "cancel_requested" ELSE d.job[t]

(* withdraw_goal: rows in dispatch or verification are not cancelled. *)
ClosedTask(row) ==
  LET state == IF row.state \in {"queued", "running", "awaiting_user"} THEN "cancelled"
               ELSE row.state IN
  [row EXCEPT !.state = state, !.reserve = IF @ = "reserved" THEN "released" ELSE @]

Revoked(d, g) ==
  [d EXCEPT !.withdrawn = @ \cup {g},
            !.job = [t \in Tasks |-> IF t.goal = g THEN CancelledJob(d, t) ELSE d.job[t]]]

(* withdraw_specified. *)
Withdraw(g) ==
  /\ Active(db, g)
  /\ db' = [Revoked(db, g) EXCEPT
              !.task = [t \in Tasks |-> IF t.goal = g THEN ClosedTask(db.task[t]) ELSE db.task[t]]]
  /\ UNCHANGED <<agent, own, host, playing, history, counters>>

(* work_resolve. A row cannot open again while another row of the goal is open. *)
Resolve(t, decision) ==
  LET st == db.task[t].state IN
  /\ resolves < MaxResolves /\ st # "absent"
  /\ decision \in {"approve", "reject", "reinspect"}
  /\ st = "outcome_unknown" => decision = "reinspect"
  /\ decision = "approve" => st = "awaiting_user" /\ t.goal \in Confirm
  /\ decision = "reinspect" /\ ~Open(db, t) => \A u \in TasksOf(t.goal) : ~Open(db, u)
  /\ db' = Loop(db, t, CASE decision = "approve" -> "done" [] decision = "reject" -> "cancelled"
                         [] decision = "reinspect" -> "queued")
  /\ proved' = IF decision = "approve" /\ db' # db THEN proved \cup {t} ELSE proved
  /\ resolves' = resolves + 1
  /\ UNCHANGED <<agent, own, host, playing, told, heard, turns, restarts>>

(* The clock: a silent report comes due, a parked intent may be tried again. *)
ReportDue(t) ==
  /\ db.task[t].report = "later" /\ db' = [db EXCEPT !.task[t].report = "waiting"]
  /\ UNCHANGED <<agent, own, host, playing, history, counters>>

IntentDue(t) ==
  /\ ~db.task[t].due /\ db' = [db EXCEPT !.task[t].due = TRUE]
  /\ UNCHANGED <<agent, own, host, playing, history, counters>>

-----------------------------------------------------------------------------
(* The runner of one job, and the death of the process.                    *)

Ending == {"queued", "running", "cancel_requested"}

(* stopping: the runner looks whether the work is still wanted. *)
StopNoticed(t) ==
  /\ agent[t] = "live" /\ db.job[t] \in {"queued", "running"} /\ ~Authorized(db, t)
  /\ db' = [db EXCEPT !.job[t] = "cancel_requested"]
  /\ UNCHANGED <<agent, own, host, playing, history, counters>>

(* The agent accepts the prompt, which is sent only while the work is wanted. *)
Accept(t) ==
  /\ agent[t] = "live" /\ db.job[t] = "queued"
  /\ db' = [db EXCEPT !.job[t] = "running"]
  /\ UNCHANGED <<agent, own, host, playing, history, counters>>

Happened(d, t, kind, outcome) ==
  [d EXCEPT !.job[t] = kind,
            !.events = Append(@, [task |-> t, kind |-> kind, outcome |-> outcome])]

(* The closing transaction of run: a run that was stopped is interrupted. *)
Ended(d, t, kind, outcome) ==
  Consume(IF d.job[t] = "cancel_requested" THEN Happened(d, t, "interrupted", "none")
          ELSE Happened(d, t, kind, outcome))

(* The new plan of a failed task cannot be written, and with it the end of the run. *)
Unwritable(d, t, kind) ==
  /\ kind = "failed" /\ d.job[t] # "cancel_requested"
  /\ Active(d, t.goal) /\ Open(Consume(d), t) /\ Overtaken(d, t)

(* A run that settled was accepted; any other end is a failure. *)
RunEnds(t) ==
  /\ agent[t] = "live" /\ db.job[t] \in Ending
  /\ \E kind \in {"settled", "failed"} :
       \E outcome \in IF kind = "settled" THEN Outcomes(t) ELSE {"none"} :
         /\ kind = "settled" => db.job[t] # "queued"
         /\ db' = IF Unwritable(db, t, kind) THEN db ELSE Ended(db, t, kind, outcome)
         /\ proved' = IF outcome = "pass" /\ db'.job[t] = "settled" THEN proved \cup {t} ELSE proved
  /\ agent' = [agent EXCEPT ![t] = "none"]
  /\ UNCHANGED <<own, host, playing, told, heard, counters>>

(* A process that outlived the application ends by itself. *)
OrphanEnds(t) ==
  /\ agent[t] = "orphan" /\ agent' = [agent EXCEPT ![t] = "none"]
  /\ UNCHANGED <<db, own, host, playing, history, counters>>

(* The user's own runs: coding_start and the end of the run, or of its process. *)
OwnStarts ==
  /\ Own /\ ~Busy(db) /\ own' = "live"
  /\ UNCHANGED <<db, agent, host, playing, history, counters>>

OwnEnds ==
  /\ own \in {"live", "orphan"} /\ own' = IF own = "live" THEN "none" ELSE "unknown"
  /\ UNCHANGED <<db, agent, host, playing, history, counters>>

(* Slip: a run that the process left behind has failed. *)
Reconciled_Failed(d, order, unresolved) ==
  [d EXCEPT !.job = [t \in Tasks |-> IF @[t] \in JobActive THEN "failed" ELSE @[t]],
            !.events = @ \o [i \in DOMAIN order |->
                               [task |-> order[i], kind |-> "failed", outcome |-> "none"]]]

(* reconcile, run by run in any order: a run whose process may exist stays open as *)
(* outcome_unknown.                                                                *)
Reconciled(d, order, unresolved) ==
  LET Left(t) == IF t \in unresolved THEN "outcome_unknown" ELSE "interrupted" IN
  [d EXCEPT !.job = [t \in Tasks |-> IF @[t] \in JobActive THEN Left(t) ELSE @[t]],
            !.events = @ \o [i \in DOMAIN order |->
                               [task |-> order[i], kind |-> Left(order[i]), outcome |-> "none"]]]

(* schema: what may have been heard is not said again. *)
SpeechReset(row) ==
  [row EXCEPT !.speech = IF @ \in {"starting", "playing"} THEN "unknown" ELSE @]

(* The process dies with the tables as d and starts again. A run may be unresolved when *)
(* its process survived, or was being launched when the process died.                   *)
Restarted(d) ==
  /\ restarts < MaxRestarts /\ restarts' = restarts + 1
  /\ \E alive \in SUBSET {t \in Tasks : agent[t] # "none"}, doubtful \in BOOLEAN :
       LET open == {t \in Tasks : d.job[t] \in JobActive}
           unresolved ==
             alive \cup {t \in open : doubtful /\ (agent[t] # "none" \/ d.job[t] = "outcome_unknown")}
       IN
       /\ agent' = [t \in Tasks |-> IF t \in alive THEN "orphan" ELSE "none"]
       /\ \E order \in Bijection(1 .. Cardinality(open), open) :
            db' = [Reconciled(d, order, unresolved)
                     EXCEPT !.task = [t \in Tasks |-> SpeechReset(d.task[t])]]
  /\ own' \in CASE own = "none" -> {"none"} [] own = "unknown" -> {"none", "unknown"}
                [] OTHER -> {"none", "unknown", "orphan"}
  /\ host' = [h \in Hosts |-> Idle] /\ playing' = {}
  /\ UNCHANGED <<history, turns, resolves>>

Die == Restarted(db)

(* withdraw_specified writes statement by statement: the goal is withdrawn, its tasks are not.  *)
(* A death before that is Die, for reconcile settles a run that was asked to stop like others, *)
(* and one after the tasks are closed is Die after Withdraw.                                   *)
DieInWithdraw(g) == Active(db, g) /\ Restarted(Revoked(db, g))

-----------------------------------------------------------------------------
Pump ==
  \/ PumpRecovers \/ PumpStarts \/ PumpStopsStarting \/ PumpFlushes \/ PumpSkipsFlush
  \/ PumpFollows \/ PumpClaimsSpeech \/ PumpSays

Runner(t) == StopNoticed(t) \/ Accept(t) \/ RunEnds(t) \/ OrphanEnds(t)

User ==
  \/ TurnPublishes \/ TurnQueues \/ TurnStarts \/ ScheduleStarts
  \/ \E g \in Goals : Withdraw(g) \/ ScreenQueues(g)
  \/ \E t \in Tasks, decision \in {"approve", "reject", "reinspect"} : Resolve(t, decision)

Next ==
  \/ Pump \/ User
  \/ \E h \in Hosts : Launch(h)
  \/ \E t \in Tasks : Runner(t) \/ ReportDue(t) \/ IntentDue(t)
  \/ \E S \in SUBSET Tasks : PlaybackStarts(S) \/ PlaybackEnds(S)
  \/ OwnStarts \/ OwnEnds \/ Die \/ \E g \in Goals : DieInWithdraw(g)

Spec == Init /\ [][Next]_vars

(* The threads of the process run on, a run ends by its deadline, speech is not *)
(* held for ever and due times come. The user does nothing.                     *)
Fairness ==
  /\ WF_vars(Pump) /\ WF_vars(PumpStopsStarting) /\ SF_vars(PumpFlushes)
  /\ \A h \in Hosts : WF_vars(Launch(h))
  /\ \A t \in Tasks : WF_vars(StopNoticed(t) \/ RunEnds(t)) /\ WF_vars(ReportDue(t))
  /\ WF_vars(TurnQueues) /\ WF_vars(TurnStarts)

FairSpec == Spec /\ Fairness

-----------------------------------------------------------------------------
(* TypeOK: the rows keep to their states, and two tasks of a goal are never open at once, *)
(* also where no statement would be refused; a runner lives only while its run is open.   *)
TypeOK ==
  /\ \A t \in Tasks :
       /\ db.task[t].state \in TaskStates
       /\ db.task[t].intent \in {"none", "pending", "accepted", "failed"}
       /\ db.task[t].reserve \in {"none", "reserved", "consumed", "released"}
       /\ db.task[t].report \in {"none", "later", "waiting", "flushed"}
       /\ db.job[t] \in JobStates
       /\ agent[t] \in {"none", "live", "orphan"}
       /\ agent[t] = "live" => db.job[t] \in Ending
       /\ told[t] \in Nat /\ heard[t] \in Nat
  /\ db.plan \in [Goals -> Plans] /\ Unique(db)
  /\ \A h \in Hosts : host[h].launch \in Tasks \cup {NoTask}

(* OneAgent: two agents never work in the user's workspaces at once, a process that *)
(* outlived the application and a launch that is on its way included.               *)
OneAgent ==
  LET working == {t \in Tasks : agent[t] # "none" \/ \E h \in Hosts : host[h].launch = t} IN
  /\ Cardinality(working) <= 1
  /\ own \in {"live", "orphan"} => working = {}

(* ProvenInOrder: a task is done, and the step after it may run, only on evidence that *)
(* passed or the user's approval.                                                      *)
ProvenInOrder ==
  \A t \in Tasks :
    /\ db.task[t].state = "done" => t \in proved
    /\ db.job[t] # "none" /\ t.step > 1 => [t EXCEPT !.step = @ - 1] \in proved

(* ReportedOnce: a task becomes one message and is spoken at most once and only after the *)
(* message, whoever publishes and whenever the process dies.                              *)
ReportedOnce == \A t \in Tasks : heard[t] <= told[t] /\ told[t] <= 1

(* KeepsPromise: the tables implement the promise made for a goal, and whoever starts,     *)
(* stops, ends or abandons a run does with it what one may do with a run of the agent.     *)
Promise ==
  INSTANCE GoalPromise WITH
    Runs <- Tasks, GoalOf <- [t \in Tasks |-> t.goal],
    Plans <- [g \in Goals |-> {{t \in TasksOf(g) : t.plan = p} : p \in Plans}],
    withdrawn <- db.withdrawn, complete <- db.complete, proved <- proved,
    started <- {t \in Tasks : db.job[t] # "none"},
    working <- {t \in Tasks : db.job[t] \in JobActive}
AgentOf(t) == IF \E h \in Hosts : host[h].launch = t THEN "due" ELSE agent[t]
Delegated ==
  INSTANCE RunPromise WITH
    Runs <- Tasks, Rollback <- TRUE, state <- db.job, agent <- [t \in Tasks |-> AgentOf(t)]
KeepsPromise == Promise!Spec /\ Delegated!Spec

(* ReportsArrive: a report that was claimed becomes a message without the user's help, *)
(* also when it was to come later or the process died in between.                      *)
ReportsArrive ==
  \A t \in Tasks : db.task[t].report \in {"waiting", "later"} ~> told[t] > 0

(* EndIsTold: a background task that is done is reported without another turn of the user *)
(* (spec/evidence/delegated-work/results.md:52); the pump does not.                       *)
EndIsTold == \A t \in Tasks : db.task[t].state = "done" ~> told[t] > 0
=============================================================================
