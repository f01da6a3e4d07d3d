----------------------------- MODULE CodingRun -----------------------------
(***************************************************************************)
(* The coding agent: jobs of a conversation, each with a row of runs, and  *)
(* one run at a time in the whole application (coding/service.rs). A run   *)
(* has a thread that opens a process, sends it one prompt and closes the   *)
(* run when the process is gone (runtime/pi/runner.rs, codex_runner.rs);   *)
(* what a dead application leaves open is judged at the next start         *)
(* (coding/recovery.rs). Runs of the terminal method are not among them.   *)
(*                                                                         *)
(* A run is named by the user's message it comes from, of which there is   *)
(* one for each run (coding_one_run_per_source); a job by its first run.   *)
(***************************************************************************)
EXTENDS Naturals, FiniteSets

CONSTANTS
  Runs,        \* messages that may ask for a run
  CodexJobs,   \* jobs of the codex-sdk method; the others are pi's
  NoRun,
  MaxRestarts  \* bound of the model: how often the process may die

ASSUME CodingAssumption ==
  /\ IsFiniteSet(Runs) /\ CodexJobs \subseteq Runs /\ NoRun \notin Runs /\ MaxRestarts \in Nat

VARIABLES
  job,      \* coding_jobs, by first run
  run,      \* coding_runs
  messages, \* user messages that have not been deleted
  view,     \* what the model's next continue or cancel was told by an inspect
  runner,   \* where the thread of each run is
  how,      \* how its work ended, for the closing transaction
  process,  \* the agent's process
  prompts,  \* history: prompts the agent was given
  restarts

tables == <<job, run, messages>>
threads == <<runner, how, process, prompts>>
vars == <<tables, view, threads, restarts>>

Active == {"starting", "running", "stopping", "outcome_unknown"}
Closed == {"settled", "failed", "interrupted"}
RunStates == Active \cup Closed \cup {"absent"}
JobStates == Closed \cup {"absent", "queued", "running", "cancel_requested", "outcome_unknown"}

NoView == [job |-> NoRun, revision |-> 0, run |-> NoRun]

Init ==
  /\ job = [j \in Runs |-> [state |-> "absent", revision |-> 0, current |-> j]]
  /\ run = [r \in Runs |-> [job |-> r, state |-> "absent", delivery |-> "prepared", mark |-> "none"]]
  /\ messages = Runs
  /\ view = NoView
  /\ runner = [r \in Runs |-> "none"] /\ how = [r \in Runs |-> "none"]
  /\ process = [r \in Runs |-> "none"]
  /\ prompts = [r \in Runs |-> 0]
  /\ restarts = 0

Codex(r) == run[r].job \in CodexJobs
RunsOf(j) == {r \in Runs : run[r].state # "absent" /\ run[r].job = j}

(* active_run_exists *)
Busy == \E r \in Runs : run[r].state \in Active

(* authorize and source_valid: every message the job comes from is still there. *)
Wanted(j) == RunsOf(j) \subseteq messages

-----------------------------------------------------------------------------
(* The tools of the model, each in one transaction.                        *)

NewRun(r, j) ==
  /\ r \in messages /\ run[r].state = "absent" /\ ~Busy
  /\ run' = [run EXCEPT ![r] = [job |-> j, state |-> "starting", delivery |-> "prepared", mark |-> "none"]]
  /\ runner' = [runner EXCEPT ![r] = "due"]
  /\ how' = [how EXCEPT ![r] = "none"]
  /\ UNCHANGED <<messages, process, prompts, restarts>>

(* coding_start; a message that has its job already is answered with it. *)
Start(r) ==
  /\ NewRun(r, r)
  /\ job' = [job EXCEPT ![r] = [state |-> "queued", revision |-> 1, current |-> r]]
  /\ UNCHANGED view

(* coding_inspect: what a later call names as expectedRevision. *)
Inspect(j) ==
  /\ job[j].state # "absent" /\ Wanted(j)
  /\ view' = [job |-> j, revision |-> job[j].revision, run |-> job[j].current]
  /\ UNCHANGED <<tables, threads, restarts>>

(* Slip: a continued job keeps its revision. *)
QueueContinuation_SameRevision(j, r) ==
  job' = [job EXCEPT ![j].state = "queued", ![j].current = r]

QueueContinuation(j, r) ==
  job' = [job EXCEPT ![j].state = "queued", ![j].current = r, ![j].revision = @ + 1]

Current(j) == view.job = j /\ view.revision = job[j].revision /\ Wanted(j)

(* coding_continue: another run of a job whose last one is over and accounted for. *)
Continue(r, j) ==
  /\ job[j].state \in Closed /\ Current(j)
  /\ ~(j \in CodexJobs /\ run[job[j].current].delivery = "unknown")
  /\ NewRun(r, j)
  /\ QueueContinuation(j, r)
  /\ UNCHANGED view

(* coding_cancel: request_stop for the job's current run. *)
Cancel(j) ==
  /\ job[j].state \in {"queued", "running"} /\ Current(j)
  /\ run' = [run EXCEPT ![job[j].current].state = "stopping"]
  /\ job' = [job EXCEPT ![j].state = "cancel_requested", ![j].revision = @ + 1]
  /\ UNCHANGED <<messages, view, threads, restarts>>

(* The user deletes a message. *)
Forget(r) ==
  /\ r \in messages /\ messages' = messages \ {r}
  /\ UNCHANGED <<job, run, view, threads, restarts>>

-----------------------------------------------------------------------------
(* The thread of a run.                                                    *)

Goto(r, label) == runner' = [runner EXCEPT ![r] = label]
At(r, label) == runner[r] = label

(* Whatever went wrong, the process is aborted and closed before the run is. *)
Over(r, result) ==
  /\ Goto(r, "over")
  /\ how' = [how EXCEPT ![r] = result]
  /\ process' = [process EXCEPT ![r] = "none"]

(* spawn_run, after the commit. *)
Spawn(r) ==
  /\ At(r, "due") /\ Goto(r, "begun")
  /\ UNCHANGED <<tables, view, how, process, prompts, restarts>>

(* Settings, the workspace, the session, the process or a deadline fail. *)
Fails(r) ==
  /\ runner[r] \in {"begun", "checked", "launching", "open", "saved", "sent", "accepted",
                    "aborting", "dispatched", "turning"}
  /\ Over(r, "error")
  /\ UNCHANGED <<tables, view, prompts, restarts>>

(* stopping: a run that is not wanted any more is marked on the spot. *)
Marked(r) ==
  /\ run' = [run EXCEPT ![r].state = "stopping"]
  /\ job' = [j \in Runs |-> IF job[j].state # "absent" /\ job[j].current = r
                            THEN [job[j] EXCEPT !.state = "cancel_requested"] ELSE job[j]]

StopSeen(r) ==
  \/ ~Wanted(run[r].job) /\ Marked(r)
  \/ Wanted(run[r].job) /\ run[r].state = "stopping" /\ UNCHANGED <<run, job>>

(* Before the prompt a stop ends the run, after it the agent is told to abort. *)
Stops(r) ==
  /\ ~Codex(r) /\ StopSeen(r)
  /\ \/ runner[r] \in {"begun", "saved"} /\ Over(r, "error")
     \/ runner[r] \in {"sent", "accepted"} /\ Goto(r, "aborting") /\ UNCHANGED <<how, process>>
  /\ UNCHANGED <<messages, view, prompts, restarts>>

LooksOnce(r) ==
  /\ ~Codex(r) /\ At(r, "begun")
  /\ Wanted(run[r].job) /\ run[r].state # "stopping"
  /\ Goto(r, "checked")
  /\ UNCHANGED <<tables, view, how, process, prompts, restarts>>

(* process_identity = 'launching', then the process, then its pid. *)
Launching(r) ==
  /\ At(r, "checked") /\ Goto(r, "launching")
  /\ run' = [run EXCEPT ![r].mark = "launching"]
  /\ UNCHANGED <<job, messages, view, how, process, prompts, restarts>>

Opens(r) ==
  /\ At(r, "launching") /\ Goto(r, "open")
  /\ process' = [process EXCEPT ![r] = "idle"]
  /\ UNCHANGED <<tables, view, how, prompts, restarts>>

SavesPid(r) ==
  /\ At(r, "open") /\ Goto(r, "saved")
  /\ run' = [run EXCEPT ![r].mark = "pid"]
  /\ UNCHANGED <<job, messages, view, how, process, prompts, restarts>>

(* Slip: the delivery is written down when the agent has answered. *)
Prompted_Late(r) == /\ prompts' = [prompts EXCEPT ![r] = @ + 1] /\ UNCHANGED run

Prompted(r) ==
  /\ prompts' = [prompts EXCEPT ![r] = @ + 1]
  /\ run' = [run EXCEPT ![r].delivery = "sending"]

(* The prompt is sent in the write that says so, and only to a run that is still starting. *)
Sends(r) ==
  /\ At(r, "saved") /\ Wanted(run[r].job) /\ run[r].state = "starting"
  /\ Prompted(r) /\ Goto(r, "sent")
  /\ process' = [process EXCEPT ![r] = "working"]
  /\ UNCHANGED <<job, messages, view, how, restarts>>

(* The pipe broke: nobody knows whether the prompt went through. *)
SendBreaks(r) ==
  /\ At(r, "saved") /\ Wanted(run[r].job) /\ run[r].state = "starting"
  /\ run' = [run EXCEPT ![r].delivery = "sending"] /\ Over(r, "error")
  /\ UNCHANGED <<job, messages, view, prompts, restarts>>

SendRefused(r) ==
  /\ At(r, "saved") /\ (~Wanted(run[r].job) \/ run[r].state # "starting")
  /\ Over(r, "error")
  /\ UNCHANGED <<tables, view, prompts, restarts>>

(* Slip: the late answer of the agent takes a stop back. *)
Running_Always(st) == "running"

Running(st) == IF st = "stopping" THEN st ELSE "running"

(* The agent's answer to the prompt, also after it was told to abort. *)
Accepts(r) ==
  /\ runner[r] \in {"sent", "aborting"} /\ run[r].delivery = "sending"
  /\ run' = [run EXCEPT ![r].delivery = "accepted", ![r].state = Running(@)]
  /\ job' = [job EXCEPT ![run[r].job].state = IF @ = "cancel_requested" THEN @ ELSE "running"]
  /\ IF At(r, "sent") THEN Goto(r, "accepted") ELSE UNCHANGED runner
  /\ UNCHANGED <<messages, view, how, process, prompts, restarts>>

Deadline(r) ==
  /\ runner[r] \in {"sent", "accepted"} /\ Goto(r, "aborting")
  /\ UNCHANGED <<tables, view, how, process, prompts, restarts>>

(* agent_settled; the session file says whether the model failed. *)
Settles(r) ==
  /\ runner[r] \in {"accepted", "aborting"} /\ run[r].delivery = "accepted"
  /\ \E result \in {"ok", "model_errors"} : Over(r, result)
  /\ UNCHANGED <<tables, view, prompts, restarts>>

(* codex_runner: one write before the turn, which has no pid, and one after it. *)
CodexSends(r) ==
  /\ Codex(r) /\ At(r, "begun")
  /\ IF Wanted(run[r].job) /\ run[r].state = "starting"
     THEN /\ run' = [run EXCEPT ![r].delivery = "sending", ![r].mark = "codex"]
          /\ Goto(r, "dispatched") /\ UNCHANGED <<how, process>>
     ELSE Over(r, "error") /\ UNCHANGED run
  /\ UNCHANGED <<job, messages, view, prompts, restarts>>

CodexTurns(r) ==
  /\ At(r, "dispatched") /\ Goto(r, "turning")
  /\ process' = [process EXCEPT ![r] = "working"]
  /\ prompts' = [prompts EXCEPT ![r] = @ + 1]
  /\ UNCHANGED <<tables, view, how, restarts>>

CodexReturns(r) ==
  /\ At(r, "turning") /\ Goto(r, "returned")
  /\ process' = [process EXCEPT ![r] = "none"]
  /\ UNCHANGED <<tables, view, how, prompts, restarts>>

CodexAccepts(r) ==
  /\ At(r, "returned")
  /\ run' = [run EXCEPT ![r].delivery = "accepted", ![r].state = Running(@)]
  /\ Over(r, "ok")
  /\ UNCHANGED <<job, messages, view, prompts, restarts>>

(* Slip: the name of the outcome in an older table. *)
Verdict_Completed(st, result) ==
  IF st = "stopping" THEN "interrupted" ELSE IF result = "ok" THEN "completed" ELSE "failed"

(* Slip: an answer that came counts more than a stop that was asked for before it. *)
Verdict_Answered(st, result) ==
  CASE result = "ok" -> "settled"
    [] result # "ok" /\ st = "stopping" -> "interrupted"
    [] OTHER -> "failed"

Verdict(st, result) ==
  CASE st = "stopping" -> "interrupted"
    [] st # "stopping" /\ result = "ok" -> "settled"
    [] OTHER -> "failed"

(* Slip: a run that is being stopped is left to the one who stopped it. *)
Closes_Unstopped(r) ==
  /\ At(r, "over") /\ run[r].state # "stopping" /\ Goto(r, "none")
  /\ run' = [run EXCEPT ![r].state = Verdict(@, how[r])]
  /\ job' = [job EXCEPT ![run[r].job].state = Verdict(run[r].state, how[r])]
  /\ UNCHANGED <<messages, view, how, process, prompts, restarts>>

(* The closing transaction of run. *)
Closes(r) ==
  /\ At(r, "over") /\ Goto(r, "none")
  /\ LET verdict == Verdict(run[r].state, how[r]) IN
     /\ run' = [run EXCEPT
          ![r].state = verdict,
          ![r].delivery = CASE @ = "sending" -> "unknown" [] @ = "prepared" -> "rejected"
                            [] OTHER -> @]
     /\ job' = [job EXCEPT ![run[r].job].state = verdict, ![run[r].job].revision = @ + 1]
  /\ UNCHANGED <<messages, view, how, process, prompts, restarts>>

-----------------------------------------------------------------------------
(* Death and reconcile.                                                    *)

(* Slip: a launch without a pid is taken for one that never was. *)
Unresolved_NoLaunch(r, occupied) ==
  \/ run[r].mark = "pid" /\ occupied
  \/ run[r].mark # "pid" /\ run[r].delivery # "prepared"

(* A run is resolved when no process has its pid, or none was ever launched for it. *)
Unresolved(r, occupied) ==
  \/ run[r].mark = "pid" /\ occupied
  \/ run[r].mark # "pid" /\ (run[r].delivery # "prepared" \/ run[r].mark = "launching")

Reconciled(r, occupied) ==
  IF run[r].state \notin Active THEN run[r]
  ELSE [run[r] EXCEPT !.state = IF Unresolved(r, occupied) THEN "outcome_unknown" ELSE "interrupted",
                      !.delivery = IF @ \in {"sending", "accepted"} THEN "unknown" ELSE @]

(* The process dies and starts again. The agents may live on, and another process may *)
(* have got the pid of one that did not.                                              *)
Die ==
  /\ restarts < MaxRestarts /\ restarts' = restarts + 1
  /\ \E alive, reused \in SUBSET Runs :
       /\ alive \subseteq {r \in Runs : process[r] # "none"}
       /\ reused \subseteq {r \in Runs : run[r].state \in Active}
       /\ process' = [r \in Runs |-> IF r \in alive THEN process[r] ELSE "none"]
       /\ run' = [r \in Runs |-> Reconciled(r, r \in alive \cup reused)]
  /\ job' = [j \in Runs |->
       IF job[j].state # "absent" /\ run[job[j].current].state \in Active
       THEN [job[j] EXCEPT !.state = run'[job[j].current].state, !.revision = @ + 1]
       ELSE job[j]]
  /\ runner' = [r \in Runs |-> "none"] /\ how' = [r \in Runs |-> "none"]
  /\ UNCHANGED <<messages, view, prompts>>

(* An agent that outlived the application ends by itself. *)
OrphanEnds(r) ==
  /\ process[r] # "none" /\ At(r, "none")
  /\ process' = [process EXCEPT ![r] = "none"]
  /\ UNCHANGED <<tables, view, runner, how, prompts, restarts>>

-----------------------------------------------------------------------------
Tools ==
  \E r \in Runs :
    \/ Start(r) \/ Inspect(r) \/ Cancel(r) \/ Forget(r)
    \/ \E j \in Runs : Continue(r, j)

Thread(r) ==
  \/ Spawn(r) \/ LooksOnce(r) \/ Launching(r) \/ Opens(r) \/ SavesPid(r)
  \/ Sends(r) \/ SendBreaks(r) \/ SendRefused(r) \/ Accepts(r) \/ Stops(r)
  \/ Deadline(r) \/ Settles(r) \/ Fails(r)
  \/ CodexSends(r) \/ CodexTurns(r) \/ CodexReturns(r) \/ CodexAccepts(r)
  \/ Closes(r)

Next == Tools \/ (\E r \in Runs : Thread(r) \/ OrphanEnds(r)) \/ Die

Spec == Init /\ [][Next]_vars

(* Every wait of a thread has a deadline, after which it fails. *)
Fairness == \A r \in Runs : WF_vars(Thread(r))
FairSpec == Spec /\ Fairness

-----------------------------------------------------------------------------
(* TypeOK: the rows keep to the states the schema allows. *)
TypeOK ==
  /\ job \in [Runs -> [state : JobStates, revision : Nat, current : Runs]]
  /\ run \in [Runs -> [job : Runs, state : RunStates,
                       delivery : {"prepared", "sending", "accepted", "rejected", "unknown"},
                       mark : {"none", "launching", "pid", "codex"}]]
  /\ messages \subseteq Runs
  /\ view \in [job : Runs \cup {NoRun}, revision : Nat, run : Runs \cup {NoRun}]
  /\ runner \in [Runs -> {"none", "due", "begun", "checked", "launching", "open", "saved", "sent",
                          "accepted", "aborting", "dispatched", "turning", "returned", "over"}]
  /\ how \in [Runs -> {"none", "ok", "model_errors", "error"}]
  /\ process \in [Runs -> {"none", "idle", "working"}]
  /\ prompts \in [Runs -> Nat]
  /\ restarts \in Nat

(* OneAgentAtWork: two agents never work at once, not even when one of them outlived the *)
(* application that started it and the next one knows nothing of it but a row            *)
(* (active_run_exists, reconcile).                                                       *)
OneAgentAtWork ==
  \A r, s \in Runs : process[r] # "none" /\ process[s] # "none" => r = s

(* DeliveryTold: an agent was given the prompt of a run at most once, and never that of a *)
(* run whose row says that it was not sent: what the user is told when the run failed.    *)
DeliveryTold ==
  \A r \in Runs :
    /\ prompts[r] <= 1
    /\ run[r].delivery \in {"prepared", "rejected"} => prompts[r] = 0

(* JobFollowsRun: a job and its current run agree after every transaction, and no older *)
(* run of the job is still open.                                                        *)
JobFollowsRun ==
  \A j \in Runs : job[j].state # "absent" =>
    LET state == run[job[j].current].state IN
    /\ run[job[j].current].job = j
    /\ \/ state \in {"starting", "running"} /\ job[j].state \in {"queued", "running"}
       \/ state = "stopping" /\ job[j].state = "cancel_requested"
       \/ state \in Closed \cup {"outcome_unknown"} /\ job[j].state = state
    /\ \A r \in RunsOf(j) \ {job[j].current} : run[r].state \in Closed

(* CancelHitsSeen: a cancel stops the run its author was shown, never one that was started *)
(* since; other runs are stopped only because their messages are gone.                     *)
CancelHitsSeen ==
  [][\A r \in Runs : run[r].state \in {"starting", "running"} /\ run'[r].state = "stopping"
                       => view.run = r \/ ~Wanted(run[r].job)]_vars

(* KeepsPromise: a run of either method, with its thread, its process and a reconcile that *)
(* knows rows only, is a run as the steward takes it to be.                                *)
Called(st) ==
  CASE st = "absent" -> "none" [] st = "starting" -> "queued" [] st = "stopping" -> "cancel_requested"
    [] OTHER -> st
AgentOf(r) ==
  CASE runner[r] = "due" -> "due" [] runner[r] \notin {"none", "due"} -> "live"
    [] OTHER -> IF process[r] = "none" THEN "none" ELSE "orphan"
Promise ==
  INSTANCE RunPromise WITH
    Rollback <- FALSE,
    state <- [r \in Runs |-> Called(run[r].state)], agent <- [r \in Runs |-> AgentOf(r)]
KeepsPromise == Promise!Spec

(* CodingEnds: the thread of a run ends, cancelled or not, whatever the agent does. *)
CodingEnds == \A r \in Runs : runner[r] # "none" ~> runner[r] = "none"
=============================================================================
