------------------------- MODULE ConversationQueue -------------------------
(***************************************************************************)
(* One conversation over the job table: an input is a user message, a      *)
(* user_input row and a run; its answer is a saved reply, a speech row and *)
(* a completed run.  Conversation lanes answer, stop or replace inputs     *)
(* while a speech lane plays answers and progress lines, users cancel, and *)
(* the process may die (queue_runtime.rs, queue_progress.rs,               *)
(* queue_recovery.rs, streaming_speech.rs, conversation_check.rs).         *)
(*                                                                         *)
(* TaskQueue has the gap between a claim and its registration; here        *)
(* registering a token and reading the row again are one step.             *)
(***************************************************************************)
EXTENDS JobTable

CONSTANTS
  Keys, NoKey,  \* input ids
  NoJob,
  Texts,        \* what an input may say: a subset of {"ask", "stop", "replace"}
  Lanes,        \* the conversation lanes (four in the code)
  Speaker,      \* the one speech lane
  Streaming,    \* whether answers are spoken while they are made (not in evaluations)
  Tools,        \* whether the agent is offered tools that take time
  MaxAttempts,  \* task_queue::fail retries while attempts < 3
  MaxLive,      \* enqueue_text admits fewer than 16 live inputs
  MaxRestarts   \* bound of the model

AllLanes == Lanes \cup {Speaker}
Job(kind, key) == [kind |-> kind, key |-> key]
Input(key)    == Job("user_input", key)
Speech(key)   == Job("speech", key)
Progress(key) == Job("progress_speech", key)
Jobs == [kind : {"user_input", "speech", "progress_speech"}, key : Keys]

ASSUME ConversationAssumption ==
  /\ IsFiniteSet(Keys)
  /\ NoKey \notin Keys /\ NoJob \notin Jobs
  /\ Texts \subseteq {"ask", "stop", "replace"}
  /\ Speaker \notin Lanes
  /\ Streaming \in BOOLEAN /\ Tools \in BOOLEAN
  /\ MaxAttempts \in Nat \ {0} /\ MaxLive \in Nat \ {0} /\ MaxRestarts \in Nat

VARIABLES
  jobs,        \* task_queue_jobs
  said,        \* what each input says, or "none": the check_<key> messages
  run,         \* runtime_runs.status of run_<key>
  reply,       \* the reply_<key> messages: "none", "answer" or "stopped"
  stopped,     \* which input a stop reply names, or NoKey
  announced,   \* keys whose progress line is saved as a message
  lane,        \* what each lane is doing
  unsignalled, \* keys cancelled by a user whose tokens are not fired yet
  shown,       \* history: attempts that displayed or spoke part of an answer
  heard,       \* history: how often the saved answer was spoken
  restarts

store == <<jobs, said, run, reply, stopped, announced>>
vars == <<store, lane, unsignalled, shown, heard, restarts>>

(* A lane's memory: the claimed job and its token, whether its cancellation *)
(* fired, the earlier input it read, whether the attempt must not be        *)
(* repeated (retry_blocked or audio_started), and its audio stream.         *)
IdleLane ==
  [pc |-> "idle", job |-> NoJob, token |-> 0, stop |-> FALSE, previous |-> NoKey,
   blocked |-> FALSE, hushed |-> FALSE, streamed |-> FALSE]

LaneStates ==
  [pc : {"idle", "claimed", "stopping", "stopped", "replacing", "replaced", "answering",
         "quieting", "playing", "announcing", "failing"},
   job : Jobs \cup {NoJob}, token : Nat, stop : BOOLEAN, previous : Keys \cup {NoKey},
   blocked : BOOLEAN, hushed : BOOLEAN, streamed : BOOLEAN]

At(w, label) == lane[w].pc = label
KeyOf(w) == lane[w].job.key
Current(w) == Owns(jobs, lane[w].job, lane[w].token)
Registered(l) == l.pc \notin {"idle", "claimed", "failing"}

Goes(w, label) == lane' = [lane EXCEPT ![w].pc = label]
Release(w) == lane' = [lane EXCEPT ![w] = IdleLane]

(* cancel_generation and cancel_active_speech reach every registered handler *)
(* of the key; cancel_active_progress_speech only the progress player.       *)
Fired(lanes, key) ==
  [w \in AllLanes |-> IF Registered(lanes[w]) /\ lanes[w].job.key = key
                      THEN [lanes[w] EXCEPT !.stop = TRUE] ELSE lanes[w]]

Hushed(lanes, key) ==
  [w \in AllLanes |-> IF lanes[w].pc = "announcing" /\ lanes[w].job = Progress(key)
                      THEN [lanes[w] EXCEPT !.stop = TRUE] ELSE lanes[w]]

(* SPEECH_LOCK: who is using the speaker. *)
VoiceFree == \A w \in AllLanes : lane[w].pc \notin {"playing", "announcing"} /\ ~lane[w].streamed

Init ==
  /\ jobs = EmptyTable(Jobs)
  /\ said = [k \in Keys |-> "none"]
  /\ run = [k \in Keys |-> "none"]
  /\ reply = [k \in Keys |-> "none"]
  /\ stopped = [k \in Keys |-> NoKey]
  /\ announced = {}
  /\ lane = [w \in AllLanes |-> IdleLane]
  /\ unsignalled = {}
  /\ shown = [k \in Keys |-> 0]
  /\ heard = [k \in Keys |-> 0]
  /\ restarts = 0

history == <<shown, heard>>

-----------------------------------------------------------------------------
(* Parts of transactions. *)

ProgressCancelled(table, key) == CancelledWhere(table, {Progress(key)})

(* Slip: only the input's own row is cancelled. *)
InputCancelled_OnlyInput(table, key) == CancelledWhere(table, {Input(key)})

(* queue_input_state::cancel: the rows of the key and its run. *)
InputCancelled(table, key) == CancelledKey(table, key)

RunClosed(runs, key, status) ==
  [runs EXCEPT ![key] = IF @ = "running" THEN status ELSE @]

(* active_previous: the newest earlier input with something still to do. *)
ActivePrevious(key) ==
  LET earlier == {p \in LiveKeys(jobs) : jobs[Input(p)].rowid < jobs[Input(key)].rowid}
  IN  {p \in earlier : \A q \in earlier : jobs[Input(q)].rowid <= jobs[Input(p)].rowid}

(* The answer transaction of commit_answer up to its commit: progress rows *)
(* end, the reply is saved, its speech row is queued or already settled by *)
(* the audio stream, the input is finished and its run completed.          *)
Answered(table, key, speech) ==
  Finished([Inserted(table, Speech(key), "reply") EXCEPT ![Speech(key)].state = speech],
           Input(key))

-----------------------------------------------------------------------------
(* The user. *)

(* Sending the same input again finds the message and the row, and changes *)
(* nothing.                                                                *)
Send(key, text) ==
  /\ said[key] = "none"
  /\ Cardinality(LiveKeys(jobs)) < MaxLive
  /\ said' = [said EXCEPT ![key] = text]
  /\ jobs' = Inserted(jobs, Input(key), text)
  /\ run' = [run EXCEPT ![key] = "running"]
  /\ UNCHANGED <<reply, stopped, announced, lane, unsignalled, history, restarts>>

CancelInput(key) ==
  /\ key \in LiveKeys(jobs) /\ key \notin unsignalled
  /\ jobs' = InputCancelled(jobs, key)
  /\ run' = RunClosed(run, key, "cancelled")
  /\ unsignalled' = unsignalled \cup {key}
  /\ UNCHANGED <<said, reply, stopped, announced, lane, history, restarts>>

Signal(key) ==
  /\ key \in unsignalled
  /\ unsignalled' = unsignalled \ {key}
  /\ lane' = Fired(lane, key)
  /\ UNCHANGED <<store, history, restarts>>

BackoffEnds(key) ==
  /\ jobs[Input(key)].state = "queued" /\ ~jobs[Input(key)].ready
  /\ jobs' = [jobs EXCEPT ![Input(key)].ready = TRUE]
  /\ UNCHANGED <<said, run, reply, stopped, announced, lane, unsignalled, history, restarts>>

-----------------------------------------------------------------------------
(* A conversation lane. *)

Take(w, laneName) ==
  /\ At(w, "idle")
  /\ \E j \in Jobs :
       /\ IsNext(jobs, laneName, j)
       /\ jobs' = Claimed(jobs, j)
       /\ lane' = [lane EXCEPT ![w] = [IdleLane EXCEPT !.pc = "claimed", !.job = j,
                                         !.token = jobs'[j].owner]]
  /\ UNCHANGED <<said, run, reply, stopped, announced, unsignalled, history, restarts>>

(* process_job reads the row again; process_conversation reads the active *)
(* earlier input and decides what the text asks for.                      *)
Begin(w) ==
  /\ At(w, "claimed")
  /\ IF ~Current(w)
     THEN Release(w)
     ELSE LET key  == KeyOf(w)
              prev == ActivePrevious(key)
          IN  IF prev = {} \/ said[key] = "ask"
              THEN Goes(w, "answering")
              ELSE \E p \in prev :
                     lane' = [lane EXCEPT ![w].previous = p,
                                ![w].pc = IF said[key] = "stop" THEN "stopping" ELSE "replacing"]
  /\ UNCHANGED <<store, unsignalled, history, restarts>>

(* The fixed reply to a stop request and the cancellation it reports are *)
(* one transaction.                                                      *)
CommitStop(w) ==
  /\ At(w, "stopping") /\ Current(w) /\ run[KeyOf(w)] = "running"
  /\ LET key == KeyOf(w)  p == lane[w].previous
     IN  /\ jobs' = Answered(InputCancelled(ProgressCancelled(jobs, key), p), key, "queued")
         /\ run' = [RunClosed(run, p, "cancelled") EXCEPT ![key] = "completed"]
         /\ reply' = [reply EXCEPT ![key] = "stopped"]
         /\ stopped' = [stopped EXCEPT ![key] = p]
  /\ Goes(w, "stopped")
  /\ UNCHANGED <<said, announced, unsignalled, history, restarts>>

(* A failed transaction of a stop request ends the handler with Err. *)
StopFails(w) ==
  /\ At(w, "stopping")
  /\ Goes(w, "failing")
  /\ UNCHANGED <<store, unsignalled, history, restarts>>

(* A replacement cancels the earlier input first, in its own transaction. *)
Replace(w) ==
  /\ At(w, "replacing")
  /\ jobs' = InputCancelled(jobs, lane[w].previous)
  /\ run' = RunClosed(run, lane[w].previous, "cancelled")
  /\ Goes(w, "replaced")
  /\ UNCHANGED <<said, reply, stopped, announced, unsignalled, history, restarts>>

(* Then the tokens of the earlier input are fired. *)
SignalPrevious(w) ==
  /\ At(w, "stopped") \/ At(w, "replaced")
  /\ lane' = [Fired(lane, lane[w].previous) EXCEPT
                ![w] = IF At(w, "stopped") THEN IdleLane
                       ELSE [lane[w] EXCEPT !.pc = "answering"]]
  /\ UNCHANGED <<store, unsignalled, history, restarts>>

(* Answer deltas reach the screen, which blocks a retry. *)
Publish(w) ==
  /\ At(w, "answering") /\ ~lane[w].blocked
  /\ lane' = [lane EXCEPT ![w].blocked = TRUE]
  /\ shown' = [shown EXCEPT ![KeyOf(w)] = @ + 1]
  /\ UNCHANGED <<store, unsignalled, heard, restarts>>

(* A tool step queues the one progress line of the input. *)
Delegate(w) ==
  /\ Tools /\ At(w, "answering")
  /\ jobs[Progress(KeyOf(w))].state = "absent"
  /\ jobs' = Inserted(jobs, Progress(KeyOf(w)), "line")
  /\ UNCHANGED <<said, run, reply, stopped, announced, lane, unsignalled, history, restarts>>

(* play_answer_stream ends the progress line before it asks for the speaker *)
(* and starts the audio.                                                    *)
Hush(w) ==
  /\ Streaming /\ At(w, "answering") /\ ~lane[w].hushed
  /\ jobs' = ProgressCancelled(jobs, KeyOf(w))
  /\ lane' = [Hushed(lane, KeyOf(w)) EXCEPT ![w].hushed = TRUE]
  /\ UNCHANGED <<said, run, reply, stopped, announced, unsignalled, history, restarts>>

StartAudio(w) ==
  /\ At(w, "answering") /\ lane[w].hushed /\ VoiceFree
  /\ lane' = [lane EXCEPT ![w].streamed = TRUE, ![w].blocked = TRUE]
  /\ shown' = IF lane[w].blocked THEN shown ELSE [shown EXCEPT ![KeyOf(w)] = @ + 1]
  /\ UNCHANGED <<store, unsignalled, heard, restarts>>

(* Slip: an answer that was spoken while it was made is queued for speech. *)
SpeechStates_AlwaysQueued(w) == {"queued"}

(* How the speech row of the answer starts out: settled when the stream *)
(* spoke or failed.                                                     *)
SpeechStates(w) ==
  IF lane[w].streamed THEN {"completed", "interrupted"} ELSE {"queued", "interrupted"}

(* An attempt whose token fired has no answer to save. *)
CommitAnswer(w) ==
  /\ At(w, "answering") /\ ~lane[w].stop
  /\ Current(w) /\ run[KeyOf(w)] = "running"
  /\ LET key == KeyOf(w)
     IN  /\ \E speech \in SpeechStates(w) :
              jobs' = Answered(ProgressCancelled(jobs, key), key, speech)
         /\ run' = [run EXCEPT ![key] = "completed"]
         /\ reply' = [reply EXCEPT ![key] = "answer"]
         /\ heard' = IF lane[w].streamed THEN [heard EXCEPT ![key] = @ + 1] ELSE heard
  /\ lane' = [lane EXCEPT ![w].pc = "quieting", ![w].streamed = FALSE]
  /\ UNCHANGED <<said, stopped, announced, unsignalled, shown, restarts>>

(* Slip: the progress player is not told. *)
Quiet_Forgetting(w) ==
  /\ At(w, "quieting")
  /\ Release(w)
  /\ UNCHANGED <<store, unsignalled, history, restarts>>

(* After the commit a progress line still playing is told to stop. *)
Quiet(w) ==
  /\ At(w, "quieting")
  /\ lane' = [Hushed(lane, KeyOf(w)) EXCEPT ![w] = IdleLane]
  /\ UNCHANGED <<store, unsignalled, history, restarts>>

(* Rows and run of an input that will not be answered. *)
ClosedAsFailed(key) ==
  /\ jobs' = ProgressCancelled(FailedTerminally(jobs, Input(key)), key)
  /\ run' = RunClosed(run, key, "failed")

(* fail_answer_terminal: after a failed commit, or after an error when part *)
(* of the answer was out; an input cancelled meanwhile stays cancelled.     *)
FailForGood(w) ==
  /\ At(w, "answering")
  /\ IF Current(w) THEN ClosedAsFailed(KeyOf(w)) ELSE UNCHANGED <<jobs, run>>
  /\ Release(w)
  /\ UNCHANGED <<said, reply, stopped, announced, unsignalled, history, restarts>>

(* An error before anything was out, or a fired token: the handler ends *)
(* with Err and run_lane may retry.                                     *)
Err(w) ==
  /\ At(w, "answering")
  /\ ~lane[w].blocked \/ lane[w].stop
  /\ lane' = [lane EXCEPT ![w].pc = "failing", ![w].streamed = FALSE]
  /\ UNCHANGED <<store, unsignalled, history, restarts>>

(* purpose_completion fires the handler's own token when the step may not *)
(* be repeated; the handler then waits for its audio stream.              *)
GiveUp(w) ==
  /\ At(w, "answering") /\ ~lane[w].stop
  /\ lane' = [lane EXCEPT ![w].stop = TRUE, ![w].blocked = TRUE]
  /\ UNCHANGED <<store, unsignalled, history, restarts>>

(* Slip: a cancelled row is failed or retried like any other. *)
Persist_Reviving(w) ==
  /\ At(w, "failing") /\ w \in Lanes
  /\ jobs' = Retried(jobs, lane[w].job, MaxAttempts)
  /\ run' = RunClosed(run, KeyOf(w), "failed")
  /\ Release(w)
  /\ UNCHANGED <<said, reply, stopped, announced, unsignalled, history, restarts>>

Persist(w) ==
  /\ At(w, "failing") /\ w \in Lanes
  /\ \/ ~Current(w) /\ UNCHANGED <<jobs, run>>
     \/ /\ Current(w) /\ jobs[lane[w].job].attempts < MaxAttempts
        /\ jobs' = Retried(jobs, lane[w].job, MaxAttempts)
        /\ UNCHANGED run
     \/ Current(w) /\ ClosedAsFailed(KeyOf(w))
  /\ Release(w)
  /\ UNCHANGED <<said, reply, stopped, announced, unsignalled, history, restarts>>

-----------------------------------------------------------------------------
(* The speech lane.  A failure ends its row as interrupted in the next *)
(* transaction of run_lane; both are one step here, for recover would  *)
(* do the same to the running row in between.                          *)

Holding(w, kind) == lane[w].job # NoJob /\ lane[w].job.kind = kind

(* The saved answer is played once its claim is found current again. *)
Play(w) ==
  /\ At(w, "claimed") /\ Holding(w, "speech") /\ VoiceFree /\ Current(w)
  /\ reply[KeyOf(w)] # "none"
  /\ Goes(w, "playing")
  /\ heard' = [heard EXCEPT ![KeyOf(w)] = @ + 1]
  /\ UNCHANGED <<store, unsignalled, shown, restarts>>

(* Slip: a progress line needs only its own row. *)
Eligible_Always(key) == TRUE

(* A progress line makes sense while its input is live and has no answer. *)
Eligible(key) ==
  /\ jobs[Input(key)].state \in LiveStates
  /\ jobs[Speech(key)].state = "absent"

(* The player registers, checks the claim and saves the line as a message. *)
Announce(w) ==
  /\ At(w, "claimed") /\ Holding(w, "progress_speech") /\ VoiceFree /\ Current(w)
  /\ Eligible(KeyOf(w))
  /\ Goes(w, "announcing")
  /\ announced' = announced \cup {KeyOf(w)}
  /\ UNCHANGED <<jobs, said, run, reply, stopped, unsignalled, history, restarts>>

(* A line that came too late is finished unheard. *)
SkipProgress(w) ==
  /\ At(w, "claimed") /\ Holding(w, "progress_speech") /\ ~Eligible(KeyOf(w))
  /\ IF Current(w) THEN jobs' = Finished(jobs, lane[w].job) ELSE UNCHANGED jobs
  /\ Release(w)
  /\ UNCHANGED <<said, run, reply, stopped, announced, unsignalled, history, restarts>>

(* Playback ends, or cannot begin; a row cancelled meanwhile stays so. *)
EndSpeech(w) ==
  /\ lane[w].pc \in {"claimed", "playing", "announcing"} /\ w = Speaker
  /\ IF Current(w)
     THEN \E outcome \in IF At(w, "claimed") \/ lane[w].stop THEN {"interrupted"}
                         ELSE {"completed", "interrupted"} :
            jobs' = Settled(jobs, lane[w].job, outcome)
     ELSE UNCHANGED jobs
  /\ Release(w)
  /\ UNCHANGED <<said, run, reply, stopped, announced, unsignalled, history, restarts>>

-----------------------------------------------------------------------------
(* The process dies and starts again. *)

(* Slip: the runs of inputs still in the queue stay interrupted. *)
RunsReopened_Never(runs, table) ==
  [k \in Keys |-> IF runs[k] = "running" THEN "interrupted" ELSE runs[k]]

(* reconcile_interrupted_runs, then the update of spawn that reopens the runs *)
(* of inputs still in the queue, then mark_uncertain_speech.                   *)
RunsReopened(runs, table) ==
  [k \in Keys |->
     IF runs[k] \notin {"running", "interrupted"} THEN runs[k]
     ELSE IF table[Speech(k)].state \in {"interrupted", "failed"} /\ reply[k] = "none" THEN "failed"
     ELSE IF table[Input(k)].state \in LiveStates THEN "running"
     ELSE "interrupted"]

(* mark_uncertain_speech: speech without a saved answer is not replayable. *)
UncertainSpeechFailed(table) ==
  [j \in DOMAIN table |->
     IF j.kind = "speech" /\ table[j].state = "interrupted" /\ reply[j.key] = "none"
     THEN [table[j] EXCEPT !.state = "failed"] ELSE table[j]]

(* queue_progress::recover: lines nobody began to play are queued again. *)
ProgressRequeued(table) ==
  [j \in DOMAIN table |->
     IF j.kind = "progress_speech" /\ table[j].state = "interrupted" /\ table[j].attempts = 0
     THEN [table[j] EXCEPT !.state = "queued"] ELSE table[j]]

Restart ==
  /\ restarts < MaxRestarts
  /\ restarts' = restarts + 1
  /\ LET recovered == Recovered(jobs, {"conversation"}, {"speech"})
     IN  /\ jobs' = ProgressRequeued(UncertainSpeechFailed(recovered))
         /\ run' = RunsReopened(run, recovered)
  /\ lane' = [w \in AllLanes |-> IdleLane]
  /\ unsignalled' = {}
  /\ UNCHANGED <<said, reply, stopped, announced, history>>

-----------------------------------------------------------------------------
Converse(w) ==
  \/ Take(w, "conversation") \/ Begin(w)
  \/ CommitStop(w) \/ StopFails(w) \/ Replace(w) \/ SignalPrevious(w)
  \/ Publish(w) \/ Delegate(w) \/ Hush(w) \/ StartAudio(w)
  \/ CommitAnswer(w) \/ Quiet(w) \/ FailForGood(w) \/ Err(w) \/ GiveUp(w) \/ Persist(w)

Speak ==
  \/ Take(Speaker, "speech") \/ Play(Speaker) \/ Announce(Speaker)
  \/ SkipProgress(Speaker) \/ EndSpeech(Speaker)

Next ==
  \/ \E k \in Keys, text \in Texts : Send(k, text)
  \/ \E k \in Keys : CancelInput(k) \/ Signal(k) \/ BackoffEnds(k)
  \/ \E w \in Lanes : Converse(w)
  \/ Speak
  \/ Restart

Spec == Init /\ [][Next]_vars

(* Lanes poll for ever and every step of an answer and of its audio stands  *)
(* under the deadline of its route; backoffs run out; a command that has    *)
(* cancelled goes on to fire the tokens.  Users owe nothing.                *)
Fairness ==
  /\ \A w \in Lanes : WF_vars(Converse(w))
  /\ WF_vars(Speak)
  /\ \A k \in Keys : WF_vars(Signal(k)) /\ WF_vars(BackoffEnds(k))

FairSpec == Spec /\ Fairness

-----------------------------------------------------------------------------
RunStates == {"none", "running", "completed", "failed", "cancelled", "interrupted"}

TypeOK ==
  /\ jobs \in [Jobs -> Rows(Texts \cup {"reply", "line"})]
  /\ said \in [Keys -> Texts \cup {"none"}]
  /\ run \in [Keys -> RunStates]
  /\ reply \in [Keys -> {"none", "answer", "stopped"}]
  /\ stopped \in [Keys -> Keys \cup {NoKey}]
  /\ announced \subseteq Keys
  /\ lane \in [AllLanes -> LaneStates]
  /\ unsignalled \subseteq Keys
  /\ shown \in [Keys -> Nat] /\ heard \in [Keys -> Nat]
  /\ restarts \in 0 .. MaxRestarts

InputState(key) == jobs[Input(key)].state

(* The three tables that describe an input agree in every committed state:  *)
(* the queue row, the run and the reply (commit_answer, cancel_input_state, *)
(* fail_answer_terminal, run_lane, recovery).  In particular a cancelled or *)
(* failed input has no reply, and no run is left open or interrupted.       *)
TablesAgree ==
  \A k \in Keys :
    /\ (run[k] = "running") = (InputState(k) \in LiveStates)
    /\ InputState(k) \in FinalStates => run[k] = InputState(k)
    /\ (reply[k] # "none") = (InputState(k) = "completed")

(* By itself the program speaks an accepted answer at most once, whether it *)
(* was streamed while it was made or played from its row, over every crash. *)
SpokenOnce == \A k \in Keys : heard[k] <= 1

(* Once an answer is saved and its handler is done, a progress line of the *)
(* same input that is still being played has been told to stop.            *)
ProgressYields ==
  \A k \in Keys :
    /\ reply[k] = "answer"
    /\ lane[Speaker].pc = "announcing" /\ lane[Speaker].job = Progress(k)
    => lane[Speaker].stop \/ \E w \in Lanes : At(w, "quieting") /\ KeyOf(w) = k

(* After a cancellation nothing more is said to the user in the name of the *)
(* input: no progress message, no reply, no playback of its answer, even    *)
(* though its handler may run on until its token fires.                     *)
CancelledStaysSilent ==
  [][\A k \in Keys : InputState(k) = "cancelled" =>
       /\ reply'[k] = reply[k] /\ heard'[k] = heard[k]
       /\ k \in announced' => k \in announced]_vars

(* "The previous request was stopped" is only said when that request had *)
(* something left to stop.                                                *)
StopTellsTruth ==
  \A k \in Keys : reply[k] = "stopped" =>
    \E j \in Jobs : j.key = stopped[k] /\ jobs[j].state = "cancelled"

(* What a stop request stopped stays stopped: neither the earlier input nor *)
(* its speech is worked on again, after any retry or restart.              *)
StopSticks ==
  \A k \in Keys : reply[k] = "stopped" =>
    {Input(stopped[k]), Speech(stopped[k])} \cap Live(jobs) = {}

(* Part of an answer that was displayed or spoken is never replaced by the *)
(* answer of another attempt.                                              *)
NeverRegenerated == \A k \in Keys : shown[k] <= 1

(* Every accepted input is closed in the end. *)
EveryInputCloses == \A k \in Keys : run[k] = "running" ~> run[k] # "running"

(* The conversation keeps its promise. *)
Outcome(key) ==
  CASE InputState(key) = "absent" -> "none"
    [] InputState(key) \in LiveStates -> "waiting"
    [] InputState(key) = "completed" -> "answered"
    [] OTHER -> InputState(key)

Promise == INSTANCE ConversationPromise WITH
  outcome <- [k \in Keys |-> Outcome(k)],
  stops <- [k \in Keys |-> {stopped[k]} \ {NoKey}]

(* And it leaves to each of its rows what the queue promises: nothing that people can *)
(* hear is begun twice by itself, and nothing final comes back, though the answer,    *)
(* stop requests and recovery of speech write the table with statements of their own. *)
Audible == {j \in Jobs : LaneOf(j.kind) = "speech"}
Queue == INSTANCE JobPromise WITH
  state <- [j \in Jobs |-> jobs[j].state], attempts <- [j \in Jobs |-> jobs[j].attempts]
KeepsPromise == Promise!Spec /\ Queue!Spec
=============================================================================
