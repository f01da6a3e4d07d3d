---------------------- MODULE ConversationQueueProofs -----------------------
(***************************************************************************)
(* What holds of every conversation over the queue, for every set of       *)
(* inputs and lanes and every bound: the tables that describe an input     *)
(* agree, what was stopped stays stopped, a cancelled input stays silent,  *)
(* an answer is spoken at most once, and ConversationPromise is kept.      *)
(***************************************************************************)
EXTENDS ConversationQueue, JobTableProofs

Texted == Texts \cup {"reply", "line"}
JobsOK == jobs \in Tables(Jobs, Texted)

SpeechState(key)   == jobs[Speech(key)].state
ProgressState(key) == jobs[Progress(key)].state

(* The run that goes with the row of its input. *)
RunFor(state) ==
  IF state = "absent" THEN "none" ELSE IF state \in LiveStates THEN "running" ELSE state

(* The books of an input: its row, its run, its reply and its speech row tell *)
(* one story, which no restart interrupts.                                    *)
Booked(k) ==
  /\ InputState(k) # "interrupted"
  /\ run[k] = RunFor(InputState(k))
  /\ (said[k] = "none") = (InputState(k) = "absent")
  /\ InputState(k) = "absent" => ProgressState(k) = "absent"
  /\ (reply[k] # "none") = (InputState(k) = "completed")
  /\ (reply[k] = "none") = (SpeechState(k) = "absent")

(* A stop reply names an input that is over and whose speech is over. *)
Halted(k) ==
  IF reply[k] = "stopped"
  THEN /\ stopped[k] \in Keys
       /\ InputState(stopped[k]) \in FinalStates
       /\ SpeechState(stopped[k]) \notin LiveStates
  ELSE stopped[k] = NoKey

(* Speech that waits has not been heard, and none is heard without a reply. *)
Unheard(k) ==
  /\ heard[k] <= 1
  /\ SpeechState(k) = "queued" \/ reply[k] = "none" => heard[k] = 0

(* What a conversation lane holds is an accepted input; the earlier input it *)
(* stops or replaces is another accepted one.                                *)
Asks(w) ==
  LET l == lane[w]
  IN  /\ l.pc \in {"idle", "claimed", "stopping", "stopped", "replacing", "replaced",
                   "answering", "quieting", "failing"}
      /\ l.pc # "idle" => /\ l.job \in Jobs /\ l.job.kind = "user_input"
                          /\ said[l.job.key] # "none"
      /\ l.pc \in {"stopping", "stopped", "replacing", "replaced"} =>
           /\ l.previous \in Keys \ {l.job.key} /\ said[l.previous] # "none"

(* What the speech lane holds: an answer nobody has heard yet before it plays, *)
(* or a progress line.                                                         *)
Speaks ==
  LET l == lane[Speaker]
  IN  /\ l.pc \in {"idle", "claimed", "playing", "announcing"}
      /\ l.pc # "idle" => l.job \in Jobs /\ l.job.kind \in {"speech", "progress_speech"}
      /\ l.pc = "announcing" => l.job.kind = "progress_speech"
      /\ l.pc # "idle" /\ l.job.kind = "speech" => reply[l.job.key] # "none"
      /\ l.pc = "claimed" /\ l.job.kind = "speech" => heard[l.job.key] = 0

Books == \A k \in Keys : Booked(k) /\ Halted(k) /\ Unheard(k)

IInv == TypeOK /\ Books /\ (\A w \in Lanes : Asks(w)) /\ Speaks /\ ProgressYields

-----------------------------------------------------------------------------
(* Names and types. *)

(* Three rows belong to an input, and each job is one of them. *)
LEMMA JobNames ==
  /\ \A k \in Keys :
       /\ Input(k) \in Jobs /\ Speech(k) \in Jobs /\ Progress(k) \in Jobs
       /\ Input(k).kind = "user_input" /\ Speech(k).kind = "speech"
       /\ Progress(k).kind = "progress_speech"
       /\ Input(k).key = k /\ Speech(k).key = k /\ Progress(k).key = k
  /\ \A j \in Jobs :
       /\ j.key \in Keys /\ j.kind \in {"user_input", "speech", "progress_speech"}
       /\ j.kind = "user_input" => j = Input(j.key)
       /\ j.kind = "speech" => j = Speech(j.key)
       /\ j.kind = "progress_speech" => j = Progress(j.key)
  BY DEF Jobs, Input, Speech, Progress, Job

(* Conversation lanes take inputs, the speech lane takes what is spoken. *)
LEMMA LaneNames ==
  \A j \in Jobs : /\ LaneOf(j.kind) \in {"conversation", "speech"}
                  /\ LaneOf(j.kind) = "conversation" <=> j.kind = "user_input"
<1> SUFFICES ASSUME NEW j \in Jobs
             PROVE  /\ LaneOf(j.kind) \in {"conversation", "speech"}
                    /\ LaneOf(j.kind) = "conversation" <=> j.kind = "user_input"
  OBVIOUS
<1>1. j.kind \in {"user_input", "speech", "progress_speech"}
  BY JobNames
<1> QED
  BY <1>1 DEF LaneOf

LEMMA JobsFinite == IsFiniteSet(Jobs)
<1> DEFINE kinds == {"user_input", "speech", "progress_speech"}
           S == kinds \X Keys
           f == [p \in S |-> Job(p[1], p[2])]
<1>1. IsFiniteSet(kinds)
  <2>1. IsFiniteSet({"user_input"}) /\ IsFiniteSet({"speech"}) /\ IsFiniteSet({"progress_speech"})
    BY FS_Singleton
  <2>2. IsFiniteSet(({"user_input"} \cup {"speech"}) \cup {"progress_speech"})
    BY <2>1, FS_Union
  <2>3. kinds = ({"user_input"} \cup {"speech"}) \cup {"progress_speech"}
    OBVIOUS
  <2> QED
    BY <2>2, <2>3
<1>2. IsFiniteSet(S)
  BY <1>1, FS_Product, ConversationAssumption
<1>3. f \in Surjection(S, Jobs)
  <2>1. f \in [S -> Jobs]
    BY DEF Jobs, Job
  <2>2. \A j \in Jobs : \E p \in S : f[p] = j
    <3> SUFFICES ASSUME NEW j \in Jobs PROVE \E p \in S : f[p] = j
      OBVIOUS
    <3>1. <<j.kind, j.key>> \in S /\ j = Job(j.kind, j.key)
      BY DEF Jobs, Job
    <3>2. f[<<j.kind, j.key>>] = j
      BY <3>1
    <3> QED
      BY <3>1, <3>2
  <2> QED
    BY <2>1, <2>2 DEF Surjection
<1> QED
  BY <1>2, <1>3, FS_Surjection

(* The types of the variables one by one. *)
LEMMA Types ==
  ASSUME IInv
  PROVE  /\ jobs \in Tables(Jobs, Texted) /\ DOMAIN jobs = Jobs
         /\ said \in [Keys -> Texts \cup {"none"}] /\ run \in [Keys -> RunStates]
         /\ reply \in [Keys -> {"none", "answer", "stopped"}]
         /\ stopped \in [Keys -> Keys \cup {NoKey}]
         /\ announced \subseteq Keys /\ lane \in [AllLanes -> LaneStates]
         /\ unsignalled \subseteq Keys /\ shown \in [Keys -> Nat] /\ heard \in [Keys -> Nat]
         /\ restarts \in 0 .. MaxRestarts
         /\ Speaker \in AllLanes /\ Speaker \notin Lanes /\ Lanes \subseteq AllLanes
         /\ \A k \in Keys : k # NoKey
  BY ConversationAssumption DEF IInv, TypeOK, Tables, Texted, AllLanes

(* What a lane of either sort holds. *)
LEMMA Holds ==
  ASSUME IInv
  PROVE  /\ \A w \in Lanes : lane[w].pc # "idle" =>
              /\ lane[w].job \in Jobs /\ KeyOf(w) \in Keys /\ lane[w].job = Input(KeyOf(w))
              /\ said[KeyOf(w)] # "none" /\ InputState(KeyOf(w)) # "absent"
         /\ lane[Speaker].pc # "idle" => lane[Speaker].job \in Jobs /\ KeyOf(Speaker) \in Keys
  BY JobNames DEF IInv, Asks, Speaks, KeyOf, Books, Booked

(* The row of an input whose answer is asked for is running and has no reply. *)
LEMMA Asking ==
  ASSUME IInv, NEW w \in Lanes, lane[w].pc # "idle", Current(w)
  PROVE  /\ InputState(KeyOf(w)) = "running" /\ reply[KeyOf(w)] = "none"
         /\ SpeechState(KeyOf(w)) = "absent" /\ heard[KeyOf(w)] = 0 /\ stopped[KeyOf(w)] = NoKey
  BY Holds, Types DEF Current, Owns, IInv, Books, Booked, Halted, Unheard, InputState

-----------------------------------------------------------------------------
(* The books. *)

(* What a step that answers nothing may do to the rows of one input. *)
Carries(k) ==
  /\ \/ jobs'[Input(k)].state = InputState(k) /\ run'[k] = run[k]
     \/ /\ InputState(k) \in LiveStates
        /\ jobs'[Input(k)].state \in {"queued", "running", "failed", "cancelled"}
        /\ run'[k] = RunFor(jobs'[Input(k)].state)
  /\ \/ jobs'[Speech(k)].state = SpeechState(k)
     \/ /\ SpeechState(k) \in LiveStates
        /\ jobs'[Speech(k)].state \in {"running", "completed", "failed", "cancelled", "interrupted"}
  /\ InputState(k) = "absent" => jobs'[Progress(k)].state = ProgressState(k)

Carried ==
  /\ jobs' \in Tables(Jobs, Texted) /\ run' \in [Keys -> RunStates]
  /\ said' = said /\ reply' = reply /\ stopped' = stopped
  /\ \A k \in Keys : Carries(k)

(* Such a step closes no input but this one. *)
Spares(key) ==
  \A k \in Keys \ {key} :
    jobs'[Input(k)].state = InputState(k) \/ {jobs'[Input(k)].state, InputState(k)} \subseteq LiveStates

(* The books survive it. *)
LEMMA CarriedBooks ==
  ASSUME IInv, Carried, heard' = heard
  PROVE  Books'
<1> SUFFICES ASSUME NEW k \in Keys PROVE Booked(k)' /\ Halted(k)' /\ Unheard(k)'
  BY DEF Books
<1>1. Booked(k) /\ Halted(k) /\ Unheard(k) /\ Carries(k)
  BY DEF IInv, Books, Carried
<1>2. said' = said /\ reply' = reply /\ stopped' = stopped
  BY DEF Carried
<1>3. Booked(k)'
  BY <1>1, <1>2 DEF Booked, Carries, InputState, SpeechState, ProgressState, RunFor, LiveStates
<1>4. Halted(k)'
  <2>1. CASE reply[k] = "stopped"
    <3>1. stopped[k] \in Keys
      BY <1>1, <2>1 DEF Halted
    <3>2. Carries(stopped[k])
      BY <3>1 DEF Carried
    <3> QED
      BY <1>1, <1>2, <2>1, <3>1, <3>2
         DEF Halted, Carries, InputState, SpeechState, LiveStates, FinalStates
  <2> QED
    BY <1>1, <1>2, <2>1 DEF Halted
<1>5. Unheard(k)'
  BY <1>1, <1>2 DEF Unheard, Carries, SpeechState, LiveStates
<1> QED
  BY <1>3, <1>4, <1>5

(* A step that leaves the store alone, or only saves a progress line. *)
LEMMA StoreKept ==
  ASSUME IInv, UNCHANGED <<jobs, said, run, reply, stopped>>
  PROVE  Carried /\ Spares(NoKey)
  BY Types DEF Carried, Carries, Spares, InputState, SpeechState, ProgressState

(* A step on the progress line of an accepted input. *)
LEMMA ProgressCarried ==
  ASSUME IInv, UNCHANGED <<said, run, reply, stopped>>, jobs' \in Tables(Jobs, Texted),
         NEW key \in Keys, InputState(key) # "absent",
         \A j \in Jobs \ {Progress(key)} : jobs'[j] = jobs[j]
  PROVE  Carried /\ Spares(NoKey)
<1>1. \A k \in Keys : /\ jobs'[Input(k)] = jobs[Input(k)] /\ jobs'[Speech(k)] = jobs[Speech(k)]
                      /\ k # key => jobs'[Progress(k)] = jobs[Progress(k)]
  BY JobNames
<1> QED
  BY <1>1, Types DEF Carried, Carries, Spares, InputState, SpeechState, ProgressState

(* Progress lines end in bulk statements too. *)
LEMMA ProgressEnds ==
  ASSUME IInv, NEW key \in Keys
  PROVE  /\ ProgressCancelled(jobs, key) \in Tables(Jobs, Texted)
         /\ \A j \in Jobs \ {Progress(key)} : ProgressCancelled(jobs, key)[j] = jobs[j]
  BY Types, CancelledRows DEF ProgressCancelled

(* The run of an input closes with its row. *)
LEMMA RunCloses ==
  ASSUME IInv, NEW key \in Keys, NEW status \in {"cancelled", "failed"}
  PROVE  /\ RunClosed(run, key, status) \in [Keys -> RunStates]
         /\ \A k \in Keys \ {key} : RunClosed(run, key, status)[k] = run[k]
         /\ InputState(key) \in LiveStates => RunClosed(run, key, status)[key] = status
         /\ InputState(key) \notin LiveStates => RunClosed(run, key, status)[key] = run[key]
<1>1. run[key] = "running" <=> InputState(key) \in LiveStates
  BY DEF IInv, Books, Booked, RunFor, LiveStates
<1>2. run \in [Keys -> RunStates] /\ status \in RunStates
  BY Types DEF RunStates
<1> QED
  BY <1>1, <1>2 DEF RunClosed

(* A user's cancel, or a request that replaces another, closes one input. *)
LEMMA CancelCarried ==
  ASSUME IInv, NEW key \in Keys, UNCHANGED <<said, reply, stopped>>,
         jobs' = InputCancelled(jobs, key), run' = RunClosed(run, key, "cancelled")
  PROVE  Carried /\ Spares(key)
<1>1. /\ jobs' \in Tables(Jobs, Texted)
      /\ \A i \in Jobs : IF i.key = key /\ jobs[i].state \in LiveStates
                         THEN jobs'[i].state = "cancelled" ELSE jobs'[i] = jobs[i]
  BY Types, CancelledKeyRows DEF InputCancelled
<1>2. /\ run' \in [Keys -> RunStates] /\ \A k \in Keys \ {key} : run'[k] = run[k]
      /\ InputState(key) \in LiveStates => run'[key] = "cancelled"
      /\ InputState(key) \notin LiveStates => run'[key] = run[key]
  BY RunCloses
<1>3. \A k \in Keys \ {key} : /\ jobs'[Input(k)] = jobs[Input(k)]
                              /\ jobs'[Speech(k)] = jobs[Speech(k)]
                              /\ jobs'[Progress(k)] = jobs[Progress(k)]
  BY <1>1, JobNames
<1>4. \A k \in Keys \ {key} : Carries(k)
  BY <1>2, <1>3 DEF Carries, InputState, SpeechState, ProgressState
<1>5. Carries(key)
  <2>1. /\ IF InputState(key) \in LiveStates THEN jobs'[Input(key)].state = "cancelled"
                                             ELSE jobs'[Input(key)] = jobs[Input(key)]
        /\ IF SpeechState(key) \in LiveStates THEN jobs'[Speech(key)].state = "cancelled"
                                              ELSE jobs'[Speech(key)] = jobs[Speech(key)]
    BY <1>1, JobNames DEF InputState, SpeechState
  <2>2. InputState(key) = "absent" => jobs'[Progress(key)].state = ProgressState(key)
    <3>1. InputState(key) = "absent" => ProgressState(key) = "absent"
      BY DEF IInv, Books, Booked
    <3> QED
      BY <1>1, <3>1, JobNames DEF ProgressState, LiveStates
  <2> QED
    BY <1>2, <2>1, <2>2 DEF Carries, InputState, SpeechState, RunFor, LiveStates
<1>6. Spares(key)
  BY <1>3 DEF Spares, InputState
<1> QED
  BY <1>1, <1>2, <1>4, <1>5, <1>6 DEF Carried

(* A step that moves the row of one open input, its progress line and its run. *)
LEMMA InputCarried ==
  ASSUME IInv, NEW key \in Keys, UNCHANGED <<said, reply, stopped>>,
         InputState(key) \in LiveStates,
         jobs' \in Tables(Jobs, Texted),
         \A j \in Jobs \ {Input(key), Progress(key)} : jobs'[j] = jobs[j],
         jobs'[Input(key)].state \in {"queued", "running", "failed"},
         run' \in [Keys -> RunStates], \A k \in Keys \ {key} : run'[k] = run[k],
         run'[key] = RunFor(jobs'[Input(key)].state)
  PROVE  Carried /\ Spares(key)
<1>1. \A k \in Keys \ {key} : /\ jobs'[Input(k)] = jobs[Input(k)]
                              /\ jobs'[Progress(k)] = jobs[Progress(k)]
  BY JobNames
<1>2. \A k \in Keys : jobs'[Speech(k)] = jobs[Speech(k)]
  BY JobNames
<1>3. \A k \in Keys : Carries(k)
  BY <1>1, <1>2 DEF Carries, InputState, SpeechState, ProgressState, LiveStates
<1>4. Spares(key)
  BY <1>1 DEF Spares, InputState
<1> QED
  BY <1>3, <1>4 DEF Carried

(* An open input is closed as failed. *)
LEMMA FailCarried ==
  ASSUME IInv, NEW key \in Keys, UNCHANGED <<said, reply, stopped>>,
         InputState(key) \in LiveStates, ClosedAsFailed(key)
  PROVE  Carried /\ Spares(key)
<1> DEFINE m == FailedTerminally(jobs, Input(key))
<1>1. /\ m \in Tables(Jobs, Texted) /\ m[Input(key)].state = "failed"
      /\ \A i \in Jobs \ {Input(key)} : m[i] = jobs[i]
  <2>1. Input(key) \in Jobs /\ jobs \in Tables(Jobs, Texted)
    BY Types, JobNames
  <2> QED
    BY <2>1, FailedRow
<1> HIDE DEF m
<1>2. /\ jobs' \in Tables(Jobs, Texted)
      /\ \A i \in Jobs \ {Progress(key)} : jobs'[i] = m[i]
  <2>1. jobs' = CancelledWhere(m, {Progress(key)})
    BY DEF ClosedAsFailed, ProgressCancelled, m
  <2> QED
    BY <1>1, <2>1, CancelledRows
<1>3. /\ jobs'[Input(key)].state = "failed"
      /\ \A j \in Jobs \ {Input(key), Progress(key)} : jobs'[j] = jobs[j]
  BY <1>1, <1>2, JobNames
<1>4. /\ run' \in [Keys -> RunStates] /\ \A k \in Keys \ {key} : run'[k] = run[k]
      /\ run'[key] = "failed"
  BY RunCloses DEF ClosedAsFailed
<1>5. run'[key] = RunFor(jobs'[Input(key)].state)
  BY <1>3, <1>4 DEF RunFor, LiveStates
<1> QED
  BY <1>2, <1>3, <1>4, <1>5, InputCarried

(* A claim, a retry or the end of a backoff leaves an open input open. *)
LEMMA OpenCarried ==
  ASSUME IInv, NEW key \in Keys, UNCHANGED <<said, run, reply, stopped>>,
         InputState(key) \in LiveStates, jobs' \in Tables(Jobs, Texted),
         \A j \in Jobs \ {Input(key)} : jobs'[j] = jobs[j],
         jobs'[Input(key)].state \in LiveStates
  PROVE  Carried /\ Spares(NoKey)
<1>1. run[key] = "running" /\ RunFor(jobs'[Input(key)].state) = "running"
  BY DEF IInv, Books, Booked, RunFor, LiveStates
<1>2. Carried
  <2>1. jobs'[Input(key)].state \in {"queued", "running", "failed"}
    BY DEF LiveStates
  <2>2. \A j \in Jobs \ {Input(key), Progress(key)} : jobs'[j] = jobs[j]
    OBVIOUS
  <2> QED
    BY <1>1, <2>1, <2>2, Types, InputCarried
<1>3. Spares(NoKey)
  BY JobNames DEF Spares, InputState
<1> QED
  BY <1>2, <1>3

(* The speech lane moves the row of an answer that is live, but never back. *)
LEMMA SpeechCarried ==
  ASSUME IInv, NEW key \in Keys, UNCHANGED <<said, run, reply, stopped>>,
         SpeechState(key) \in LiveStates, jobs' \in Tables(Jobs, Texted),
         \A j \in Jobs \ {Speech(key)} : jobs'[j] = jobs[j],
         jobs'[Speech(key)].state \in {"running", "completed", "failed", "cancelled", "interrupted"}
  PROVE  Carried /\ Spares(NoKey)
<1>1. \A k \in Keys : /\ jobs'[Input(k)] = jobs[Input(k)] /\ jobs'[Progress(k)] = jobs[Progress(k)]
                      /\ k # key => jobs'[Speech(k)] = jobs[Speech(k)]
  BY JobNames
<1>2. \A k \in Keys : Carries(k)
  BY <1>1 DEF Carries, InputState, SpeechState, ProgressState
<1> QED
  BY <1>1, <1>2, Types DEF Carried, Spares, InputState

(* A restart queues inputs again and interrupts what is spoken; progress lines that *)
(* nobody began come back, and every open run is found open.                        *)
LEMMA RestartCarried ==
  ASSUME IInv, Restart
  PROVE  Carried /\ Spares(NoKey)
<1> DEFINE m == Recovered(jobs, {"conversation"}, {"speech"})
           u == UncertainSpeechFailed(m)
<1>1. /\ m \in Tables(Jobs, Texted)
      /\ \A i \in Jobs :
           /\ i.kind = "user_input" =>
                IF jobs[i].state = "running" THEN m[i].state = "queued" ELSE m[i] = jobs[i]
           /\ i.kind # "user_input" =>
                IF jobs[i].state \in LiveStates THEN m[i].state = "interrupted" ELSE m[i] = jobs[i]
  <2>1. /\ m \in Tables(Jobs, Texted)
        /\ \A i \in Jobs :
             CASE LaneOf(i.kind) \in {"conversation"} /\ jobs[i].state = "running" ->
                    m[i].state = "queued"
               [] LaneOf(i.kind) \in {"speech"} /\ jobs[i].state \in LiveStates ->
                    m[i].state = "interrupted"
               [] OTHER -> m[i] = jobs[i]
    <3>1. {"conversation"} \cap {"speech"} = {} /\ jobs \in Tables(Jobs, Texted)
      BY Types
    <3> QED
      BY <3>1, RecoveredRows
  <2> HIDE DEF m
  <2>2. ASSUME NEW i \in Jobs, i.kind = "user_input"
        PROVE  IF jobs[i].state = "running" THEN m[i].state = "queued" ELSE m[i] = jobs[i]
    <3>1. LaneOf(i.kind) = "conversation"
      BY <2>2, LaneNames
    <3> QED
      BY <2>1, <3>1
  <2>3. ASSUME NEW i \in Jobs, i.kind # "user_input"
        PROVE  IF jobs[i].state \in LiveStates THEN m[i].state = "interrupted" ELSE m[i] = jobs[i]
    <3>1. LaneOf(i.kind) = "speech"
      BY <2>3, LaneNames
    <3> QED
      BY <2>1, <3>1
  <2> QED
    BY <2>1, <2>2, <2>3
<1> HIDE DEF m
<1>2. /\ u \in Tables(Jobs, Texted)
      /\ \A i \in Jobs : \/ u[i] = m[i]
                         \/ /\ i.kind = "speech" /\ m[i].state = "interrupted"
                            /\ reply[i.key] = "none" /\ u[i].state = "failed"
  BY <1>1 DEF UncertainSpeechFailed, Tables, Rows, JobStates
<1> HIDE DEF u
<1>3. /\ jobs' \in Tables(Jobs, Texted)
      /\ \A i \in Jobs : /\ i.kind # "progress_speech" => jobs'[i] = u[i]
                         /\ jobs'[i] = u[i] \/ u[i].state = "interrupted"
  <2>1. jobs' = ProgressRequeued(u)
    BY DEF Restart, u, m
  <2> QED
    BY <1>2, <2>1 DEF ProgressRequeued, Tables, Rows, JobStates
<1>4. \A k \in Keys :
        /\ IF InputState(k) = "running" THEN jobs'[Input(k)].state = "queued"
                                        ELSE jobs'[Input(k)] = jobs[Input(k)]
        /\ m[Input(k)].state = jobs'[Input(k)].state
  BY <1>1, <1>2, <1>3, JobNames DEF InputState
<1>5. \A k \in Keys : reply[k] = "none" => SpeechState(k) = "absent" /\ m[Speech(k)].state = "absent"
  BY <1>1, JobNames DEF IInv, Books, Booked, SpeechState, LiveStates
<1>6. \A k \in Keys : \/ jobs'[Speech(k)].state = SpeechState(k)
                      \/ /\ SpeechState(k) \in LiveStates
                         /\ jobs'[Speech(k)].state \in {"interrupted", "failed"}
  <2> SUFFICES ASSUME NEW k \in Keys
               PROVE \/ jobs'[Speech(k)].state = SpeechState(k)
                     \/ /\ SpeechState(k) \in LiveStates
                        /\ jobs'[Speech(k)].state \in {"interrupted", "failed"}
    OBVIOUS
  <2>1. Speech(k) \in Jobs /\ Speech(k).kind = "speech" /\ Speech(k).key = k
    BY JobNames
  <2>2. jobs'[Speech(k)] = u[Speech(k)] /\ u[Speech(k)] = m[Speech(k)]
    BY <1>2, <1>3, <1>5, <2>1
  <2> QED
    BY <1>1, <2>1, <2>2 DEF SpeechState
<1>7. \A k \in Keys : InputState(k) = "absent" => jobs'[Progress(k)].state = ProgressState(k)
  <2> SUFFICES ASSUME NEW k \in Keys, InputState(k) = "absent"
               PROVE  jobs'[Progress(k)].state = ProgressState(k)
    OBVIOUS
  <2>1. /\ Progress(k) \in Jobs /\ Progress(k).kind = "progress_speech"
        /\ jobs[Progress(k)].state = "absent"
    BY JobNames DEF IInv, Books, Booked, ProgressState
  <2>2. m[Progress(k)] = jobs[Progress(k)]
    BY <1>1, <2>1 DEF LiveStates
  <2>3. u[Progress(k)] = m[Progress(k)]
    BY <1>2, <2>1
  <2> QED
    BY <1>3, <2>1, <2>2, <2>3 DEF ProgressState
<1>8. \A k \in Keys : run'[k] = run[k]
  <2>1. \A k \in Keys : run'[k] = RunsReopened(run, m)[k]
    BY DEF Restart, m
  <2> SUFFICES ASSUME NEW k \in Keys PROVE RunsReopened(run, m)[k] = run[k]
    BY <2>1
  <2>2. run[k] = RunFor(InputState(k)) /\ InputState(k) # "interrupted"
    BY DEF IInv, Books, Booked
  <2>3. CASE InputState(k) \in LiveStates
    <3>1. m[Input(k)].state \in LiveStates
      BY <1>4, <2>3 DEF LiveStates, InputState
    <3>2. reply[k] = "none"
      BY <2>3 DEF IInv, Books, Booked, LiveStates
    <3>3. m[Speech(k)].state = "absent" /\ run[k] = "running"
      BY <1>5, <2>2, <2>3, <3>2 DEF RunFor, LiveStates
    <3> QED
      BY <3>1, <3>3 DEF RunsReopened
  <2>4. CASE InputState(k) \notin LiveStates
    <3>1. run[k] \notin {"running", "interrupted"}
      BY <2>2, <2>4 DEF RunFor, LiveStates
    <3> QED
      BY <3>1 DEF RunsReopened
  <2> QED
    BY <2>3, <2>4
<1>9. run' = run
  BY <1>8, Types DEF Restart, RunsReopened
<1>10. \A k \in Keys : Carries(k)
  <2> SUFFICES ASSUME NEW k \in Keys PROVE Carries(k)
    OBVIOUS
  <2>1. \/ jobs'[Input(k)].state = InputState(k) /\ run'[k] = run[k]
        \/ /\ InputState(k) = "running" /\ jobs'[Input(k)].state = "queued"
           /\ run'[k] = RunFor(jobs'[Input(k)].state)
    <3>1. InputState(k) = "running" => run[k] = "running"
      BY DEF IInv, Books, Booked, RunFor, LiveStates
    <3> QED
      BY <1>4, <1>9, <3>1 DEF InputState, RunFor, LiveStates
  <2> QED
    BY <1>6, <1>7, <2>1 DEF Carries, LiveStates
<1>11. Spares(NoKey)
  BY <1>4 DEF Spares, InputState, LiveStates
<1> QED
  BY <1>3, <1>9, <1>10, <1>11, Types DEF Carried, Restart

-----------------------------------------------------------------------------
(* The lanes. *)

LanesTyped == lane' \in [AllLanes -> LaneStates]

(* A lane that keeps what it does; at most it is told to stop. *)
Rests(w) ==
  /\ lane'[w].pc = lane[w].pc /\ lane'[w].job = lane[w].job
  /\ lane'[w].previous = lane[w].previous
  /\ lane[w].stop => lane'[w].stop

(* What an accepted input and a reply are stays so. *)
Kept ==
  \A k \in Keys : /\ said[k] # "none" => said'[k] # "none"
                  /\ reply[k] # "none" => reply'[k] = reply[k]

(* No saved answer is spoken. *)
Unspoken == \A k \in Keys : reply[k] # "none" => heard'[k] = heard[k]

(* A lane that is told goes on. *)
LEMMA ToldRests ==
  ASSUME NEW l \in LaneStates
  PROVE  /\ [l EXCEPT !.stop = TRUE] \in LaneStates
         /\ [l EXCEPT !.stop = TRUE].pc = l.pc /\ [l EXCEPT !.stop = TRUE].job = l.job
         /\ [l EXCEPT !.stop = TRUE].previous = l.previous
         /\ [l EXCEPT !.stop = TRUE].stop
  BY DEF LaneStates

(* Firing tokens moves no lane. *)
LEMMA FiredRests ==
  ASSUME IInv, NEW key, NEW w \in AllLanes
  PROVE  /\ Fired(lane, key) \in [AllLanes -> LaneStates]
         /\ Fired(lane, key)[w].pc = lane[w].pc /\ Fired(lane, key)[w].job = lane[w].job
         /\ Fired(lane, key)[w].previous = lane[w].previous
         /\ lane[w].stop => Fired(lane, key)[w].stop
<1>1. \A v \in AllLanes : /\ lane[v] \in LaneStates
                           /\ Fired(lane, key)[v] \in {lane[v], [lane[v] EXCEPT !.stop = TRUE]}
  BY Types DEF Fired
<1>2. \A v \in AllLanes : Fired(lane, key)[v] \in LaneStates
  BY <1>1, ToldRests
<1>3. Fired(lane, key) \in [AllLanes -> LaneStates]
  BY <1>2 DEF Fired
<1> QED
  BY <1>1, <1>3, ToldRests

(* Telling the progress player moves none, and it is told. *)
LEMMA HushedRests ==
  ASSUME IInv, NEW key, NEW w \in AllLanes
  PROVE  /\ Hushed(lane, key) \in [AllLanes -> LaneStates]
         /\ Hushed(lane, key)[w].pc = lane[w].pc /\ Hushed(lane, key)[w].job = lane[w].job
         /\ Hushed(lane, key)[w].previous = lane[w].previous
         /\ lane[w].stop => Hushed(lane, key)[w].stop
         /\ lane[w].pc = "announcing" /\ lane[w].job = Progress(key) => Hushed(lane, key)[w].stop
<1>1. \A v \in AllLanes :
        /\ lane[v] \in LaneStates
        /\ Hushed(lane, key)[v] = IF lane[v].pc = "announcing" /\ lane[v].job = Progress(key)
                                  THEN [lane[v] EXCEPT !.stop = TRUE] ELSE lane[v]
  BY Types DEF Hushed
<1>2. \A v \in AllLanes : Hushed(lane, key)[v] \in LaneStates
  BY <1>1, ToldRests
<1>3. Hushed(lane, key) \in [AllLanes -> LaneStates]
  BY <1>2 DEF Hushed
<1> QED
  BY <1>1, <1>3, ToldRests

LEMMA IdleTyped == IdleLane \in LaneStates
  BY DEF IdleLane, LaneStates

LanesOK == (\A w \in Lanes : Asks(w)) /\ Speaks /\ ProgressYields

(* A lane at rest still asks for what it asked for. *)
LEMMA RestingAsks ==
  ASSUME IInv, Kept, NEW w \in Lanes, Rests(w)
  PROVE  Asks(w)'
  BY DEF IInv, Asks, Rests, Kept, Jobs

LEMMA RestingSpeaks ==
  ASSUME IInv, Kept, Unspoken, Rests(Speaker)
  PROVE  Speaks'
  BY DEF IInv, Speaks, Rests, Kept, Unspoken, Jobs

(* While all lanes rest and no answer is saved, they stay as they should be. *)
LEMMA AllRest ==
  ASSUME IInv, Kept, Unspoken, reply' = reply, \A w \in AllLanes : Rests(w)
  PROVE  LanesOK'
<1>1. \A w \in Lanes : Asks(w)'
  BY RestingAsks, Types
<1>2. Speaks'
  BY RestingSpeaks, Types
<1>3. ProgressYields'
  BY Types DEF IInv, ProgressYields, Rests, At, KeyOf
<1> QED
  BY <1>1, <1>2, <1>3 DEF LanesOK

(* A step of one conversation lane: the others rest, a saved answer makes it quieting, *)
(* and it leaves that place only after it told the progress player.                    *)
LEMMA OneAsks ==
  ASSUME IInv, Kept, Unspoken, NEW w \in Lanes, \A v \in AllLanes \ {w} : Rests(v), Asks(w)',
         \A k \in Keys : reply'[k] = "answer" =>
           reply[k] = "answer" \/ (lane'[w].pc = "quieting" /\ lane'[w].job.key = k),
         lane[w].pc = "quieting" =>
           \/ lane'[w].pc = "quieting" /\ lane'[w].job = lane[w].job
           \/ lane[Speaker].pc = "announcing" /\ lane[Speaker].job = Progress(KeyOf(w))
                => lane'[Speaker].stop
  PROVE  LanesOK'
<1>1. \A v \in Lanes : Asks(v)'
  BY RestingAsks, Types
<1>2. Speaker \in AllLanes \ {w}
  BY Types
<1>3. Speaks'
  BY <1>2, RestingSpeaks
<1>4. ProgressYields'
  <2> SUFFICES ASSUME NEW k \in Keys, reply'[k] = "answer", lane'[Speaker].pc = "announcing",
                      lane'[Speaker].job = Progress(k)
               PROVE  lane'[Speaker].stop
                      \/ \E v \in Lanes : lane'[v].pc = "quieting" /\ lane'[v].job.key = k
    BY DEF ProgressYields, At, KeyOf
  <2>1. /\ lane[Speaker].pc = "announcing" /\ lane[Speaker].job = Progress(k)
        /\ lane[Speaker].stop => lane'[Speaker].stop
    BY <1>2 DEF Rests
  <2>2. CASE reply[k] = "answer"
    <3>1. lane[Speaker].stop \/ \E v \in Lanes : lane[v].pc = "quieting" /\ lane[v].job.key = k
      BY <2>1, <2>2 DEF IInv, ProgressYields, At, KeyOf
    <3>2. CASE lane[Speaker].stop
      BY <2>1, <3>2
    <3>3. CASE \E v \in Lanes : lane[v].pc = "quieting" /\ lane[v].job.key = k
      <4>1. PICK v \in Lanes : lane[v].pc = "quieting" /\ lane[v].job.key = k
        BY <3>3
      <4>2. CASE v = w
        BY <2>1, <4>1, <4>2 DEF KeyOf
      <4>3. CASE v # w
        BY <4>1, <4>3, Types DEF Rests
      <4> QED
        BY <4>2, <4>3
    <3> QED
      BY <3>1, <3>2, <3>3
  <2>3. CASE reply[k] # "answer"
    BY <2>3
  <2> QED
    BY <2>2, <2>3
<1> QED
  BY <1>1, <1>3, <1>4 DEF LanesOK

(* A step of the speech lane. *)
LEMMA OneSpeaks ==
  ASSUME IInv, Kept, reply' = reply, \A v \in Lanes : Rests(v), Speaks',
         lane'[Speaker].pc = "announcing" =>
           reply[lane'[Speaker].job.key] # "answer" \/ Rests(Speaker)
  PROVE  LanesOK'
<1>1. \A v \in Lanes : Asks(v)'
  BY RestingAsks
<1>2. ProgressYields'
  <2> SUFFICES ASSUME NEW k \in Keys, reply[k] = "answer", lane'[Speaker].pc = "announcing",
                      lane'[Speaker].job = Progress(k)
               PROVE  lane'[Speaker].stop
                      \/ \E v \in Lanes : lane'[v].pc = "quieting" /\ lane'[v].job.key = k
    BY DEF ProgressYields, At, KeyOf
  <2>1. Rests(Speaker)
    BY JobNames
  <2>2. lane[Speaker].stop \/ \E v \in Lanes : lane[v].pc = "quieting" /\ lane[v].job.key = k
    BY <2>1 DEF Rests, IInv, ProgressYields, At, KeyOf
  <2> QED
    BY <2>1, <2>2 DEF Rests
<1> QED
  BY <1>1, <1>2 DEF LanesOK

(* One lane changes and the others stay as they are. *)
LEMMA OneMoves ==
  ASSUME IInv, NEW w \in AllLanes, NEW l \in LaneStates, lane' = [lane EXCEPT ![w] = l]
  PROVE  /\ LanesTyped /\ lane'[w] = l
         /\ \A v \in AllLanes \ {w} : lane'[v] = lane[v] /\ Rests(v)
  BY Types DEF LanesTyped, Rests

(* A lane's own fields change one at a time. *)
LEMMA LabelTyped ==
  ASSUME NEW l \in LaneStates,
         NEW x \in {"idle", "claimed", "stopping", "stopped", "replacing", "replaced", "answering",
                    "quieting", "playing", "announcing", "failing"}
  PROVE  /\ [l EXCEPT !.pc = x] \in LaneStates
         /\ [l EXCEPT !.pc = x].pc = x /\ [l EXCEPT !.pc = x].job = l.job
         /\ [l EXCEPT !.pc = x].previous = l.previous /\ [l EXCEPT !.pc = x].stop = l.stop
  BY DEF LaneStates

(* A step of a lane that answers nothing, with what it changes besides. *)
Misc ==
  /\ announced \subseteq Keys /\ unsignalled \subseteq Keys
  /\ shown \in [Keys -> Nat] /\ heard \in [Keys -> Nat] /\ restarts \in 0 .. MaxRestarts

LEMMA Ordinary ==
  ASSUME IInv, Carried, heard' = heard, LanesTyped, LanesOK', Misc'
  PROVE  IInv'
<1>1. Books'
  BY CarriedBooks
<1>2. TypeOK'
  BY DEF IInv, TypeOK, Carried, Tables, Texted, LanesTyped, Misc
<1> QED
  BY <1>1, <1>2 DEF IInv, LanesOK

(* A step of a lane from one place to another. *)
LEMMA GoesOn ==
  ASSUME IInv, NEW w \in Lanes, Kept, Unspoken, reply' = reply, lane[w].pc # "quieting",
         NEW x \in {"stopped", "replaced", "answering", "quieting", "failing"}, Goes(w, x),
         lane[w].pc \notin {"idle"},
         x \in {"stopped", "replaced"} => lane[w].pc \in {"stopping", "replacing"}
  PROVE  LanesTyped /\ LanesOK'
<1>1. /\ lane[w] \in LaneStates /\ w \in AllLanes
      /\ [lane[w] EXCEPT !.pc = x] \in LaneStates
  BY LabelTyped, Types
<1>2. lane' = [lane EXCEPT ![w] = [lane[w] EXCEPT !.pc = x]]
  BY DEF Goes
<1>3. /\ LanesTyped /\ lane'[w] = [lane[w] EXCEPT !.pc = x]
      /\ \A v \in AllLanes \ {w} : Rests(v)
  BY <1>1, <1>2, OneMoves
<1>4. lane'[w].pc = x /\ lane'[w].job = lane[w].job /\ lane'[w].previous = lane[w].previous
  BY <1>1, <1>3, LabelTyped
<1>5. Asks(w)'
  BY <1>4 DEF IInv, Asks, Kept, Jobs
<1> QED
  BY <1>3, <1>5, OneAsks

(* A lane that lets go of its input. *)
LEMMA LetsGo ==
  ASSUME IInv, NEW w \in Lanes, Kept, Unspoken, reply' = reply, lane[w].pc # "quieting", Release(w)
  PROVE  LanesTyped /\ LanesOK'
<1>1. /\ LanesTyped /\ lane'[w] = IdleLane /\ \A v \in AllLanes \ {w} : Rests(v)
  BY IdleTyped, OneMoves, Types DEF Release
<1>2. Asks(w)'
  BY <1>1 DEF Asks, IdleLane
<1> QED
  BY <1>1, <1>2, OneAsks

-----------------------------------------------------------------------------
(* The steps of the users. *)

LEMMA StillKept ==
  ASSUME said' = said, reply' = reply, heard' = heard
  PROVE  Kept /\ Unspoken
  BY DEF Kept, Unspoken

(* A step that answers nothing: the invariant stays, and the rows moved as said. *)
Plain == IInv' /\ Carried /\ \E key : Spares(key)

LEMMA LanesKept ==
  ASSUME IInv, Kept, Unspoken, reply' = reply, lane' = lane
  PROVE  LanesTyped /\ LanesOK'
<1>1. \A w \in AllLanes : Rests(w)
  BY DEF Rests
<1> QED
  BY <1>1, AllRest, Types DEF LanesTyped

LEMMA CancelInputPlain ==
  ASSUME IInv, NEW key \in Keys, CancelInput(key)
  PROVE  Plain
<1>1. Carried /\ Spares(key)
  BY CancelCarried DEF CancelInput
<1>2. LanesTyped /\ LanesOK'
  BY LanesKept, StillKept DEF CancelInput, history
<1>3. Misc'
  BY Types DEF CancelInput, Misc, history
<1> QED
  BY <1>1, <1>2, <1>3, Ordinary DEF Plain, CancelInput, history

LEMMA SignalPlain ==
  ASSUME IInv, NEW key \in Keys, Signal(key)
  PROVE  Plain
<1>1. Carried /\ Spares(NoKey)
  BY StoreKept DEF Signal, store
<1>2. LanesTyped /\ LanesOK'
  <2>1. Kept /\ Unspoken /\ reply' = reply
    BY StillKept DEF Signal, store, history
  <2>2. /\ lane' = Fired(lane, key) /\ LanesTyped
        /\ \A w \in AllLanes : Rests(w)
    BY FiredRests, Types DEF Signal, LanesTyped, Rests
  <2> QED
    BY <2>1, <2>2, AllRest
<1>3. Misc'
  BY Types DEF Signal, Misc, store, history
<1> QED
  BY <1>1, <1>2, <1>3, Ordinary DEF Plain, Signal, history

LEMMA BackoffPlain ==
  ASSUME IInv, NEW key \in Keys, BackoffEnds(key)
  PROVE  Plain
<1>1. /\ jobs' \in Tables(Jobs, Texted) /\ jobs'[Input(key)].state = "queued"
      /\ \A j \in Jobs \ {Input(key)} : jobs'[j] = jobs[j]
      /\ InputState(key) = "queued"
  <2>1. Input(key) \in Jobs /\ jobs[Input(key)] \in Rows(Texted)
    BY JobNames, Types DEF Tables
  <2>2. /\ [jobs[Input(key)] EXCEPT !.ready = TRUE] \in Rows(Texted)
        /\ [jobs[Input(key)] EXCEPT !.ready = TRUE].state = "queued"
    BY <2>1 DEF Rows, BackoffEnds
  <2> QED
    BY <2>1, <2>2, Types DEF BackoffEnds, Tables, InputState
<1>2. Carried /\ Spares(NoKey)
  BY <1>1, OpenCarried DEF BackoffEnds, LiveStates
<1>3. LanesTyped /\ LanesOK'
  BY LanesKept, StillKept DEF BackoffEnds, history
<1>4. Misc'
  BY Types DEF BackoffEnds, Misc, history
<1> QED
  BY <1>2, <1>3, <1>4, Ordinary DEF Plain, BackoffEnds, history

(* An insert adds the row of an input that was not there. *)
LEMMA SendNext ==
  ASSUME IInv, NEW key \in Keys, NEW text \in Texts, Send(key, text)
  PROVE  /\ IInv' /\ InputState(key) = "absent" /\ jobs'[Input(key)].state = "queued"
         /\ \A k \in Keys \ {key} : jobs'[Input(k)] = jobs[Input(k)]
<1>1. Input(key) \in Jobs /\ text \in Texted /\ jobs \in Tables(Jobs, Texted) /\ text # "none"
  BY JobNames, Types, ConversationAssumption DEF Texted
<1>2. /\ jobs' \in Tables(Jobs, Texted) /\ jobs'[Input(key)].state = "queued"
      /\ \A j \in Jobs \ {Input(key)} : jobs'[j] = jobs[j]
  BY <1>1, JobsFinite, InsertedRow DEF Send
<1>3. /\ InputState(key) = "absent" /\ reply[key] = "none"
      /\ \A k \in Keys : jobs'[Speech(k)] = jobs[Speech(k)] /\ jobs'[Progress(k)] = jobs[Progress(k)]
      /\ \A k \in Keys \ {key} : jobs'[Input(k)] = jobs[Input(k)]
  BY <1>2, JobNames DEF Send, IInv, Books, Booked
<1>4. /\ said' = [said EXCEPT ![key] = text] /\ run' = [run EXCEPT ![key] = "running"]
      /\ reply' = reply /\ heard' = heard /\ stopped' = stopped
  BY DEF Send, history
<1>5. Books'
  <2> SUFFICES ASSUME NEW k \in Keys PROVE Booked(k)' /\ Halted(k)' /\ Unheard(k)'
    BY DEF Books
  <2>1. Booked(k) /\ Halted(k) /\ Unheard(k)
    BY DEF IInv, Books
  <2>2. Booked(k)'
    <3>1. CASE k = key
      <4>1. /\ jobs'[Input(k)].state = "queued" /\ run'[k] = "running" /\ said'[k] # "none"
            /\ jobs'[Speech(k)].state = SpeechState(k) /\ reply'[k] = "none"
        BY <1>1, <1>2, <1>3, <1>4, <3>1, Types DEF SpeechState
      <4>2. SpeechState(k) = "absent"
        BY <1>3, <2>1, <3>1 DEF Booked
      <4> QED
        BY <4>1, <4>2 DEF Booked, InputState, SpeechState, ProgressState, RunFor, LiveStates
    <3>2. CASE k # key
      <4>1. said'[k] = said[k] /\ run'[k] = run[k]
        BY <1>4, <3>2, Types
      <4> QED
        BY <1>3, <1>4, <2>1, <3>2, <4>1 DEF Booked, InputState, SpeechState, ProgressState
    <3> QED
      BY <3>1, <3>2
  <2>3. Halted(k)'
    BY <1>3, <1>4, <2>1 DEF Halted, InputState, SpeechState, FinalStates
  <2>4. Unheard(k)'
    BY <1>3, <1>4, <2>1 DEF Unheard, SpeechState
  <2> QED
    BY <2>2, <2>3, <2>4
<1>6. LanesTyped /\ LanesOK'
  <2>1. Kept /\ Unspoken
    BY <1>1, <1>4, Types DEF Kept, Unspoken
  <2> QED
    BY <1>4, <2>1, LanesKept DEF Send
<1>7. TypeOK'
  <2>1. said' \in [Keys -> Texts \cup {"none"}] /\ run' \in [Keys -> RunStates]
    BY <1>4, Types DEF RunStates
  <2> QED
    BY <1>2, <1>4, <1>6, <2>1, Types DEF TypeOK, Send, Tables, Texted, LanesTyped, history
<1> QED
  BY <1>2, <1>3, <1>5, <1>6, <1>7 DEF IInv, LanesOK

-----------------------------------------------------------------------------
(* The steps of a conversation lane. *)

(* A claim: the row runs, the lane holds it. *)
LEMMA TakePlain ==
  ASSUME IInv, NEW w \in Lanes, Take(w, "conversation")
  PROVE  Plain
<1>1. PICK j \in Jobs :
        /\ IsNext(jobs, "conversation", j) /\ jobs' = Claimed(jobs, j)
        /\ lane' = [lane EXCEPT ![w] = [IdleLane EXCEPT !.pc = "claimed", !.job = j,
                                          !.token = jobs'[j].owner]]
  BY DEF Take
<1>2. /\ j.key \in Keys /\ j = Input(j.key) /\ InputState(j.key) = "queued"
  <2>1. LaneOf(j.kind) = "conversation" /\ jobs[j].state = "queued"
    BY <1>1, Types, NextIsQueued
  <2> QED
    BY <2>1, LaneNames, JobNames DEF InputState
<1>3. /\ jobs' \in Tables(Jobs, Texted) /\ jobs'[j].state = "running" /\ jobs'[j].owner \in Nat
      /\ \A i \in Jobs \ {j} : jobs'[i] = jobs[i]
  BY <1>1, Types, ClaimedRow
<1>4. Carried /\ Spares(NoKey)
  BY <1>2, <1>3, OpenCarried DEF Take, LiveStates
<1>5. LanesTyped /\ LanesOK'
  <2> DEFINE l == [IdleLane EXCEPT !.pc = "claimed", !.job = j, !.token = jobs'[j].owner]
  <2>1. /\ l \in LaneStates /\ l.pc = "claimed" /\ l.job = j
    BY <1>3 DEF IdleLane, LaneStates
  <2> HIDE DEF l
  <2>2. lane' = [lane EXCEPT ![w] = l]
    BY <1>1 DEF l
  <2>3. LanesTyped /\ lane'[w] = l /\ \A v \in AllLanes \ {w} : Rests(v)
    BY <2>1, <2>2, OneMoves, Types
  <2>4. said[j.key] # "none"
    BY <1>2 DEF IInv, Books, Booked
  <2>5. Asks(w)'
    BY <1>2, <2>1, <2>3, <2>4, JobNames DEF Asks, Take
  <2>6. Kept /\ Unspoken /\ reply' = reply /\ lane[w].pc = "idle"
    BY StillKept DEF Take, history, At
  <2> QED
    BY <2>3, <2>5, <2>6, OneAsks
<1>6. Misc'
  BY Types DEF Take, Misc, history
<1> QED
  BY <1>4, <1>5, <1>6, Ordinary DEF Plain, Take, history

(* The earlier input that a request reads is another accepted one. *)
LEMMA PreviousIsOther ==
  ASSUME IInv, NEW key \in Keys, NEW p \in ActivePrevious(key)
  PROVE  p \in Keys \ {key} /\ said[p] # "none"
<1>1. p \in LiveKeys(jobs) /\ jobs[Input(p)].rowid < jobs[Input(key)].rowid
  BY DEF ActivePrevious
<1>2. PICK j \in Jobs : jobs[j].state \in LiveStates /\ j.key = p
  BY <1>1, Types DEF LiveKeys, Live
<1>3. p \in Keys /\ (j = Input(p) \/ j = Speech(p) \/ j = Progress(p))
  BY <1>2, JobNames
<1>4. p # key
  <2>1. jobs[Input(key)].rowid \in Nat
    BY Types, JobNames DEF Tables, Rows
  <2> QED
    BY <1>1, <2>1
<1>5. InputState(p) # "absent"
  BY <1>2, <1>3 DEF IInv, Books, Booked, InputState, SpeechState, ProgressState, LiveStates
<1> QED
  BY <1>3, <1>4, <1>5 DEF IInv, Books, Booked

LEMMA BeginPlain ==
  ASSUME IInv, NEW w \in Lanes, Begin(w)
  PROVE  Plain
<1>1. Carried /\ Spares(NoKey)
  BY StoreKept DEF Begin, store
<1>2. Kept /\ Unspoken /\ reply' = reply /\ lane[w].pc = "claimed" /\ said' = said
  BY StillKept DEF Begin, store, history, At
<1>3. LanesTyped /\ LanesOK'
  <2>1. CASE Release(w)
    BY <1>2, <2>1, LetsGo
  <2>2. CASE Goes(w, "answering")
    BY <1>2, <2>2, GoesOn
  <2>3. CASE ~Release(w) /\ ~Goes(w, "answering")
    <3>1. PICK p \in ActivePrevious(KeyOf(w)) :
            lane' = [lane EXCEPT ![w].previous = p,
                       ![w].pc = IF said[KeyOf(w)] = "stop" THEN "stopping" ELSE "replacing"]
      BY <2>3 DEF Begin
    <3>2. KeyOf(w) \in Keys /\ lane[w] \in LaneStates
      BY <1>2, Holds, Types
    <3>3. p \in Keys \ {KeyOf(w)} /\ said[p] # "none"
      BY <3>1, <3>2, PreviousIsOther
    <3> DEFINE x == IF said[KeyOf(w)] = "stop" THEN "stopping" ELSE "replacing"
               l == [lane[w] EXCEPT !.previous = p, !.pc = x]
    <3>4. x \in {"stopping", "replacing"}
      OBVIOUS
    <3> HIDE DEF x
    <3>5. l \in LaneStates /\ l.pc = x /\ l.job = lane[w].job /\ l.previous = p
      BY <3>2, <3>3, <3>4 DEF LaneStates
    <3>6. lane' = [lane EXCEPT ![w] = l]
      BY <3>1, Types DEF x
    <3> HIDE DEF l
    <3>7. LanesTyped /\ lane'[w] = l /\ \A v \in AllLanes \ {w} : Rests(v)
      BY <3>5, <3>6, OneMoves, Types
    <3>8. Asks(w)'
      BY <1>2, <3>3, <3>4, <3>5, <3>7 DEF IInv, Asks, KeyOf
    <3> QED
      BY <1>2, <3>7, <3>8, OneAsks
  <2> QED
    BY <2>1, <2>2, <2>3
<1>4. Misc'
  BY Types DEF Begin, Misc, store, history
<1> QED
  BY <1>1, <1>3, <1>4, Ordinary DEF Plain, Begin, history

LEMMA StopFailsPlain ==
  ASSUME IInv, NEW w \in Lanes, StopFails(w)
  PROVE  Plain
<1>1. Carried /\ Spares(NoKey)
  BY StoreKept DEF StopFails, store
<1>2. Kept /\ Unspoken /\ reply' = reply /\ lane[w].pc = "stopping" /\ Goes(w, "failing")
  BY StillKept DEF StopFails, store, history, At
<1>3. LanesTyped /\ LanesOK'
  BY <1>2, GoesOn
<1>4. Misc'
  BY Types DEF StopFails, Misc, store, history
<1> QED
  BY <1>1, <1>3, <1>4, Ordinary DEF Plain, StopFails, history

LEMMA ReplacePlain ==
  ASSUME IInv, NEW w \in Lanes, Replace(w)
  PROVE  Plain
<1>1. lane[w].pc = "replacing" /\ lane[w].previous \in Keys
  BY DEF IInv, Asks, Replace, At
<1>2. Carried /\ Spares(lane[w].previous)
  BY <1>1, CancelCarried DEF Replace
<1>3. Kept /\ Unspoken /\ reply' = reply /\ Goes(w, "replaced")
  BY StillKept DEF Replace, history
<1>4. LanesTyped /\ LanesOK'
  BY <1>1, <1>3, GoesOn
<1>5. Misc'
  BY Types DEF Replace, Misc, history
<1> QED
  BY <1>2, <1>4, <1>5, Ordinary DEF Plain, Replace, history

(* The tokens of the earlier input are fired; the lane goes on or is done. *)
LEMMA SignalPreviousPlain ==
  ASSUME IInv, NEW w \in Lanes, SignalPrevious(w)
  PROVE  Plain
<1>1. Carried /\ Spares(NoKey)
  BY StoreKept DEF SignalPrevious, store
<1>2. /\ Kept /\ Unspoken /\ reply' = reply /\ said' = said
      /\ lane[w].pc \in {"stopped", "replaced"}
  BY StillKept DEF SignalPrevious, store, history, At
<1>3. LanesTyped /\ LanesOK'
  <2> DEFINE f == Fired(lane, lane[w].previous)
             l == IF At(w, "stopped") THEN IdleLane ELSE [lane[w] EXCEPT !.pc = "answering"]
  <2>1. /\ f \in [AllLanes -> LaneStates]
        /\ \A v \in AllLanes : /\ f[v].pc = lane[v].pc /\ f[v].job = lane[v].job
                               /\ f[v].previous = lane[v].previous /\ (lane[v].stop => f[v].stop)
    BY FiredRests, Types
  <2>2. lane' = [f EXCEPT ![w] = l]
    BY DEF SignalPrevious
  <2>3. /\ l \in LaneStates
        /\ l = IdleLane \/ (l.pc = "answering" /\ l.job = lane[w].job)
    <3>0. lane[w] \in LaneStates
      BY Types
    <3>1. /\ [lane[w] EXCEPT !.pc = "answering"] \in LaneStates
          /\ [lane[w] EXCEPT !.pc = "answering"].pc = "answering"
          /\ [lane[w] EXCEPT !.pc = "answering"].job = lane[w].job
      BY <3>0, LabelTyped
    <3>2. CASE At(w, "stopped")
      BY <3>2, IdleTyped
    <3>3. CASE ~At(w, "stopped")
      BY <3>1, <3>3
    <3> QED
      BY <3>2, <3>3
  <2> HIDE DEF f, l
  <2>4. LanesTyped /\ lane'[w] = l /\ \A v \in AllLanes \ {w} : Rests(v)
    BY <2>1, <2>2, <2>3, Types DEF LanesTyped, Rests
  <2>5. Asks(w)'
    BY <1>2, <2>3, <2>4 DEF IInv, Asks, IdleLane
  <2> QED
    BY <1>2, <2>4, <2>5, OneAsks
<1>4. Misc'
  BY Types DEF SignalPrevious, Misc, store, history
<1> QED
  BY <1>1, <1>3, <1>4, Ordinary DEF Plain, SignalPrevious, history

(* A handler that is making its answer. *)
LEMMA Answers ==
  ASSUME IInv, NEW w \in Lanes, Kept, Unspoken, reply' = reply, lane[w].pc = "answering",
         NEW l \in LaneStates, lane' = [lane EXCEPT ![w] = l],
         l.pc \in {"answering", "failing"}, l.job = lane[w].job
  PROVE  LanesTyped /\ LanesOK'
<1>1. LanesTyped /\ lane'[w] = l /\ \A v \in AllLanes \ {w} : Rests(v)
  BY OneMoves, Types
<1>2. Asks(w)'
  BY <1>1 DEF IInv, Asks, Kept, Jobs
<1> QED
  BY <1>1, <1>2, OneAsks

LEMMA PublishPlain ==
  ASSUME IInv, NEW w \in Lanes, Publish(w)
  PROVE  Plain
<1>1. Carried /\ Spares(NoKey)
  BY StoreKept DEF Publish, store
<1>2. Kept /\ Unspoken /\ reply' = reply /\ lane[w].pc = "answering"
  BY StillKept DEF Publish, store, At
<1>3. LanesTyped /\ LanesOK'
  <2> DEFINE l == [lane[w] EXCEPT !.blocked = TRUE]
  <2>0. lane[w] \in LaneStates
    BY Types
  <2>1. l \in LaneStates /\ l.pc = "answering" /\ l.job = lane[w].job
    BY <1>2, <2>0 DEF LaneStates
  <2>2. lane' = [lane EXCEPT ![w] = l]
    BY DEF Publish
  <2> HIDE DEF l
  <2> QED
    BY <1>2, <2>1, <2>2, Answers
<1>4. Misc'
  BY Types, Holds, <1>2 DEF Publish, Misc, store
<1> QED
  BY <1>1, <1>3, <1>4, Ordinary DEF Plain, Publish

LEMMA DelegatePlain ==
  ASSUME IInv, NEW w \in Lanes, Delegate(w)
  PROVE  Plain
<1>1. KeyOf(w) \in Keys /\ InputState(KeyOf(w)) # "absent"
  BY Holds DEF Delegate, At
<1>2. /\ jobs' \in Tables(Jobs, Texted)
      /\ \A j \in Jobs \ {Progress(KeyOf(w))} : jobs'[j] = jobs[j]
  <2>1. Progress(KeyOf(w)) \in Jobs /\ "line" \in Texted /\ jobs \in Tables(Jobs, Texted)
    BY <1>1, JobNames, Types DEF Texted
  <2> QED
    BY <2>1, JobsFinite, InsertedRow DEF Delegate
<1>3. Carried /\ Spares(NoKey)
  BY <1>1, <1>2, ProgressCarried DEF Delegate
<1>4. LanesTyped /\ LanesOK'
  BY LanesKept, StillKept DEF Delegate, history
<1>5. Misc'
  BY Types DEF Delegate, Misc, history
<1> QED
  BY <1>3, <1>4, <1>5, Ordinary DEF Plain, Delegate, history

(* The progress line ends and its player is told. *)
LEMMA HushPlain ==
  ASSUME IInv, NEW w \in Lanes, Hush(w)
  PROVE  Plain
<1>1. KeyOf(w) \in Keys /\ InputState(KeyOf(w)) # "absent" /\ lane[w].pc = "answering"
  BY Holds DEF Hush, At
<1>2. Carried /\ Spares(NoKey)
  BY <1>1, ProgressEnds, ProgressCarried DEF Hush
<1>3. Kept /\ Unspoken /\ reply' = reply /\ said' = said
  BY StillKept DEF Hush, history
<1>4. LanesTyped /\ LanesOK'
  <2> DEFINE h == Hushed(lane, KeyOf(w))
  <2>1. /\ h \in [AllLanes -> LaneStates]
        /\ \A v \in AllLanes : /\ h[v].pc = lane[v].pc /\ h[v].job = lane[v].job
                               /\ h[v].previous = lane[v].previous /\ (lane[v].stop => h[v].stop)
    BY HushedRests, Types
  <2>2. lane' = [h EXCEPT ![w].hushed = TRUE]
    BY DEF Hush
  <2> HIDE DEF h
  <2>3. LanesTyped /\ \A v \in AllLanes : Rests(v)
    <3>0. h[w] \in LaneStates
      BY <2>1, Types
    <3>1. [h[w] EXCEPT !.hushed = TRUE] \in LaneStates
      BY <3>0 DEF LaneStates
    <3>2. \A v \in AllLanes : h[v] \in LaneStates
      BY <2>1
    <3>3. LanesTyped
      BY <2>1, <2>2, <3>1 DEF LanesTyped
    <3>4. /\ [h[w] EXCEPT !.hushed = TRUE].pc = h[w].pc /\ [h[w] EXCEPT !.hushed = TRUE].job = h[w].job
          /\ [h[w] EXCEPT !.hushed = TRUE].previous = h[w].previous
          /\ [h[w] EXCEPT !.hushed = TRUE].stop = h[w].stop
      BY <3>2, Types DEF LaneStates
    <3>5. \A v \in AllLanes : lane'[v] = IF v = w THEN [h[w] EXCEPT !.hushed = TRUE] ELSE h[v]
      BY <2>1, <2>2
    <3> QED
      BY <2>1, <3>3, <3>4, <3>5 DEF Rests
  <2> QED
    BY <1>3, <2>3, AllRest
<1>5. Misc'
  BY Types DEF Hush, Misc, history
<1> QED
  BY <1>2, <1>4, <1>5, Ordinary DEF Plain, Hush, history

LEMMA StartAudioPlain ==
  ASSUME IInv, NEW w \in Lanes, StartAudio(w)
  PROVE  Plain
<1>1. Carried /\ Spares(NoKey)
  BY StoreKept DEF StartAudio, store
<1>2. Kept /\ Unspoken /\ reply' = reply /\ lane[w].pc = "answering"
  BY StillKept DEF StartAudio, store, At
<1>3. LanesTyped /\ LanesOK'
  <2> DEFINE l == [lane[w] EXCEPT !.streamed = TRUE, !.blocked = TRUE]
  <2>0. lane[w] \in LaneStates
    BY Types
  <2>1. l \in LaneStates /\ l.pc = "answering" /\ l.job = lane[w].job
    BY <1>2, <2>0 DEF LaneStates
  <2>2. lane' = [lane EXCEPT ![w] = l]
    BY Types DEF StartAudio
  <2> HIDE DEF l
  <2> QED
    BY <1>2, <2>1, <2>2, Answers
<1>4. Misc'
  <2>1. KeyOf(w) \in Keys
    BY <1>2, Holds
  <2> QED
    BY <2>1, Types DEF StartAudio, Misc, store
<1> QED
  BY <1>1, <1>3, <1>4, Ordinary DEF Plain, StartAudio

LEMMA ErrPlain ==
  ASSUME IInv, NEW w \in Lanes, Err(w)
  PROVE  Plain
<1>1. Carried /\ Spares(NoKey)
  BY StoreKept DEF Err, store
<1>2. Kept /\ Unspoken /\ reply' = reply /\ lane[w].pc = "answering"
  BY StillKept DEF Err, store, history, At
<1>3. LanesTyped /\ LanesOK'
  <2> DEFINE l == [lane[w] EXCEPT !.pc = "failing", !.streamed = FALSE]
  <2>0. lane[w] \in LaneStates
    BY Types
  <2>1. l \in LaneStates /\ l.pc = "failing" /\ l.job = lane[w].job
    BY <1>2, <2>0 DEF LaneStates
  <2>2. lane' = [lane EXCEPT ![w] = l]
    BY Types DEF Err
  <2> HIDE DEF l
  <2> QED
    BY <1>2, <2>1, <2>2, Answers
<1>4. Misc'
  BY Types DEF Err, Misc, store, history
<1> QED
  BY <1>1, <1>3, <1>4, Ordinary DEF Plain, Err, history

LEMMA GiveUpPlain ==
  ASSUME IInv, NEW w \in Lanes, GiveUp(w)
  PROVE  Plain
<1>1. Carried /\ Spares(NoKey)
  BY StoreKept DEF GiveUp, store
<1>2. Kept /\ Unspoken /\ reply' = reply /\ lane[w].pc = "answering"
  BY StillKept DEF GiveUp, store, history, At
<1>3. LanesTyped /\ LanesOK'
  <2> DEFINE l == [lane[w] EXCEPT !.stop = TRUE, !.blocked = TRUE]
  <2>0. lane[w] \in LaneStates
    BY Types
  <2>1. l \in LaneStates /\ l.pc = "answering" /\ l.job = lane[w].job
    BY <1>2, <2>0 DEF LaneStates
  <2>2. lane' = [lane EXCEPT ![w] = l]
    BY Types DEF GiveUp
  <2> HIDE DEF l
  <2> QED
    BY <1>2, <2>1, <2>2, Answers
<1>4. Misc'
  BY Types DEF GiveUp, Misc, store, history
<1> QED
  BY <1>1, <1>3, <1>4, Ordinary DEF Plain, GiveUp, history

(* The input is closed as failed, unless it is no longer the handler's. *)
LEMMA FailForGoodPlain ==
  ASSUME IInv, NEW w \in Lanes, FailForGood(w)
  PROVE  Plain
<1>1. lane[w].pc = "answering" /\ KeyOf(w) \in Keys
  BY Holds DEF FailForGood, At
<1>2. Carried /\ \E key : Spares(key)
  <2>1. CASE Current(w)
    <3>1. InputState(KeyOf(w)) \in LiveStates
      BY <1>1, <2>1, Asking DEF LiveStates
    <3>2. ClosedAsFailed(KeyOf(w)) /\ UNCHANGED <<said, reply, stopped>>
      BY <2>1 DEF FailForGood
    <3> QED
      BY <1>1, <3>1, <3>2, FailCarried
  <2>2. CASE ~Current(w)
    BY <2>2, StoreKept DEF FailForGood
  <2> QED
    BY <2>1, <2>2
<1>3. LanesTyped /\ LanesOK'
  <2>1. Kept /\ Unspoken /\ reply' = reply /\ Release(w)
    BY StillKept DEF FailForGood, history
  <2> QED
    BY <1>1, <2>1, LetsGo
<1>4. Misc'
  BY Types DEF FailForGood, Misc, history
<1> QED
  BY <1>2, <1>3, <1>4, Ordinary DEF Plain, FailForGood, history

(* A failed handler's row is queued again or closed, unless it is no longer its own. *)
LEMMA PersistPlain ==
  ASSUME IInv, NEW w \in Lanes, Persist(w)
  PROVE  Plain
<1>1. lane[w].pc = "failing" /\ KeyOf(w) \in Keys /\ lane[w].job = Input(KeyOf(w))
  BY Holds DEF Persist, At
<1>2. Carried /\ \E key : Spares(key)
  <2>1. CASE jobs' = jobs /\ run' = run
    BY <2>1, StoreKept DEF Persist
  <2>2. CASE Current(w) /\ jobs' = Retried(jobs, lane[w].job, MaxAttempts) /\ run' = run
              /\ jobs[lane[w].job].attempts < MaxAttempts
    <3>1. InputState(KeyOf(w)) \in LiveStates
      BY <1>1, <2>2, Asking DEF LiveStates
    <3>2. /\ jobs' \in Tables(Jobs, Texted) /\ jobs'[Input(KeyOf(w))].state = "queued"
          /\ \A j \in Jobs \ {Input(KeyOf(w))} : jobs'[j] = jobs[j]
      BY <1>1, <2>2, Types, JobNames, RetriedRow
    <3> QED
      BY <1>1, <2>2, <3>1, <3>2, OpenCarried DEF Persist, LiveStates
  <2>3. CASE Current(w) /\ ClosedAsFailed(KeyOf(w))
    <3>1. InputState(KeyOf(w)) \in LiveStates
      BY <1>1, <2>3, Asking DEF LiveStates
    <3> QED
      BY <1>1, <2>3, <3>1, FailCarried DEF Persist
  <2> QED
    BY <2>1, <2>2, <2>3 DEF Persist
<1>3. LanesTyped /\ LanesOK'
  <2>1. Kept /\ Unspoken /\ reply' = reply /\ Release(w)
    BY StillKept DEF Persist, history
  <2> QED
    BY <1>1, <2>1, LetsGo
<1>4. Misc'
  BY Types DEF Persist, Misc, history
<1> QED
  BY <1>2, <1>3, <1>4, Ordinary DEF Plain, Persist, history

(* The handler is done once a progress line that still plays has been told. *)
LEMMA QuietPlain ==
  ASSUME IInv, NEW w \in Lanes, Quiet(w)
  PROVE  Plain
<1>1. Carried /\ Spares(NoKey)
  BY StoreKept DEF Quiet, store
<1>2. Kept /\ Unspoken /\ reply' = reply /\ lane[w].pc = "quieting"
  BY StillKept DEF Quiet, store, history, At
<1>3. LanesTyped /\ LanesOK'
  <2> DEFINE h == Hushed(lane, KeyOf(w))
  <2>1. /\ h \in [AllLanes -> LaneStates]
        /\ \A v \in AllLanes : /\ h[v].pc = lane[v].pc /\ h[v].job = lane[v].job
                               /\ h[v].previous = lane[v].previous /\ (lane[v].stop => h[v].stop)
        /\ lane[Speaker].pc = "announcing" /\ lane[Speaker].job = Progress(KeyOf(w))
             => h[Speaker].stop
    BY HushedRests, Types
  <2>2. lane' = [h EXCEPT ![w] = IdleLane]
    BY DEF Quiet
  <2> HIDE DEF h
  <2>3. /\ LanesTyped /\ lane'[w] = IdleLane /\ lane'[Speaker] = h[Speaker]
        /\ \A v \in AllLanes \ {w} : Rests(v)
    BY <2>1, <2>2, IdleTyped, Types DEF LanesTyped, Rests
  <2>4. Asks(w)'
    BY <2>3 DEF Asks, IdleLane
  <2> QED
    BY <1>2, <2>1, <2>3, <2>4, OneAsks
<1>4. Misc'
  BY Types DEF Quiet, Misc, store, history
<1> QED
  BY <1>1, <1>3, <1>4, Ordinary DEF Plain, Quiet, history

(* The answer transaction: whatever it closed before, the input is completed and its *)
(* speech row is there in the state it was given.                                    *)
LEMMA AnsweredRows ==
  ASSUME IInv, NEW t \in Tables(Jobs, Texted), NEW key \in Keys, NEW s \in JobStates
  PROVE  /\ Answered(t, key, s) \in Tables(Jobs, Texted)
         /\ Answered(t, key, s)[Input(key)].state = "completed"
         /\ Answered(t, key, s)[Speech(key)].state = s
         /\ \A j \in Jobs \ {Input(key), Speech(key)} : Answered(t, key, s)[j] = t[j]
<1> DEFINE a == Inserted(t, Speech(key), "reply")
           b == [a EXCEPT ![Speech(key)].state = s]
<1>1. /\ Speech(key) \in Jobs /\ Input(key) \in Jobs /\ Speech(key) # Input(key)
      /\ "reply" \in Texted
  BY JobNames DEF Texted
<1>2. a \in Tables(Jobs, Texted) /\ \A j \in Jobs \ {Speech(key)} : a[j] = t[j]
  BY <1>1, JobsFinite, InsertedRow
<1> HIDE DEF a
<1>3. /\ b \in Tables(Jobs, Texted) /\ b[Speech(key)].state = s
      /\ \A j \in Jobs \ {Speech(key)} : b[j] = t[j]
  <2>1. a[Speech(key)] \in Rows(Texted)
    BY <1>1, <1>2 DEF Tables
  <2>2. /\ [a[Speech(key)] EXCEPT !.state = s] \in Rows(Texted)
        /\ [a[Speech(key)] EXCEPT !.state = s].state = s
    BY <2>1 DEF Rows
  <2> QED
    BY <1>1, <1>2, <2>2 DEF Tables
<1>4. Answered(t, key, s) = Finished(b, Input(key))
  BY DEF Answered, a, b
<1> HIDE DEF b
<1>5. /\ Finished(b, Input(key)) \in Tables(Jobs, Texted)
      /\ Finished(b, Input(key))[Input(key)].state = "completed"
      /\ \A i \in Jobs \ {Input(key)} : Finished(b, Input(key))[i] = b[i]
  BY <1>1, <1>3, FinishedRow
<1> QED
  BY <1>1, <1>3, <1>4, <1>5

(* A handler saves its answer: its own input is completed and no other is touched. *)
LEMMA AnswerTables ==
  ASSUME IInv, NEW w \in Lanes, CommitAnswer(w)
  PROVE  LET key == KeyOf(w)
         IN  /\ key \in Keys /\ jobs' \in Tables(Jobs, Texted)
             /\ InputState(key) = "running" /\ jobs'[Input(key)].state = "completed"
             /\ jobs'[Speech(key)].state \in SpeechStates(w)
             /\ \A k \in Keys \ {key} : /\ jobs'[Input(k)] = jobs[Input(k)]
                                        /\ jobs'[Speech(k)] = jobs[Speech(k)]
                                        /\ jobs'[Progress(k)] = jobs[Progress(k)]
<1> DEFINE key == KeyOf(w)
           t == ProgressCancelled(jobs, key)
<1>1. key \in Keys /\ InputState(key) = "running"
  BY Holds, Asking DEF CommitAnswer, At
<1>2. t \in Tables(Jobs, Texted) /\ \A j \in Jobs \ {Progress(key)} : t[j] = jobs[j]
  BY <1>1, ProgressEnds
<1>3. PICK s \in SpeechStates(w) : jobs' = Answered(t, key, s)
  BY DEF CommitAnswer
<1>4. s \in JobStates
  BY DEF SpeechStates, JobStates
<1> HIDE DEF t, key
<1>5. /\ jobs' \in Tables(Jobs, Texted) /\ jobs'[Input(key)].state = "completed"
      /\ jobs'[Speech(key)].state = s
      /\ \A j \in Jobs \ {Input(key), Speech(key)} : jobs'[j] = t[j]
  BY <1>1, <1>2, <1>3, <1>4, AnsweredRows
<1>6. \A k \in Keys \ {key} : /\ jobs'[Input(k)] = jobs[Input(k)]
                              /\ jobs'[Speech(k)] = jobs[Speech(k)]
                              /\ jobs'[Progress(k)] = jobs[Progress(k)]
  BY <1>1, <1>2, <1>5, JobNames
<1> QED
  BY <1>1, <1>5, <1>6 DEF key

LEMMA AnswerNext ==
  ASSUME IInv, NEW w \in Lanes, CommitAnswer(w)
  PROVE  IInv'
<1> DEFINE key == KeyOf(w)
<1>1. /\ key \in Keys /\ jobs' \in Tables(Jobs, Texted)
      /\ InputState(key) = "running" /\ jobs'[Input(key)].state = "completed"
      /\ jobs'[Speech(key)].state \in SpeechStates(w)
      /\ \A k \in Keys \ {key} : /\ jobs'[Input(k)] = jobs[Input(k)]
                                 /\ jobs'[Speech(k)] = jobs[Speech(k)]
                                 /\ jobs'[Progress(k)] = jobs[Progress(k)]
  BY AnswerTables
<1>2. /\ reply[key] = "none" /\ heard[key] = 0 /\ stopped[key] = NoKey /\ said[key] # "none"
      /\ lane[w].pc = "answering" /\ lane[w].job = Input(key)
  BY Asking, Holds DEF CommitAnswer, At
<1> HIDE DEF key
<1>3. /\ run' = [run EXCEPT ![key] = "completed"] /\ reply' = [reply EXCEPT ![key] = "answer"]
      /\ heard' = IF lane[w].streamed THEN [heard EXCEPT ![key] = @ + 1] ELSE heard
      /\ said' = said /\ stopped' = stopped
  BY DEF CommitAnswer, key
<1>4. Books'
  <2> SUFFICES ASSUME NEW k \in Keys PROVE Booked(k)' /\ Halted(k)' /\ Unheard(k)'
    BY DEF Books
  <2>1. Booked(k) /\ Halted(k) /\ Unheard(k)
    BY DEF IInv, Books
  <2>2. CASE k = key
    <3>1. /\ run'[k] = "completed" /\ reply'[k] = "answer" /\ said'[k] # "none"
          /\ stopped'[k] = NoKey
      BY <1>1, <1>2, <1>3, <2>2, Types
    <3>2. /\ jobs'[Speech(k)].state # "absent"
          /\ ~lane[w].streamed => heard'[k] = 0
          /\ lane[w].streamed => heard'[k] = 1 /\ jobs'[Speech(k)].state # "queued"
      BY <1>1, <1>2, <1>3, <2>2, Types DEF SpeechStates
    <3>3. Booked(k)'
      BY <1>1, <2>2, <3>1, <3>2 DEF Booked, InputState, SpeechState, ProgressState, RunFor, LiveStates
    <3>4. Halted(k)'
      BY <3>1 DEF Halted
    <3>5. Unheard(k)'
      BY <3>1, <3>2 DEF Unheard, SpeechState
    <3> QED
      BY <3>3, <3>4, <3>5
  <2>3. CASE k # key
    <3>1. /\ run'[k] = run[k] /\ reply'[k] = reply[k] /\ said'[k] = said[k]
          /\ stopped'[k] = stopped[k] /\ heard'[k] = heard[k]
      BY <1>1, <1>3, <2>3, Types
    <3>2. Booked(k)'
      BY <1>1, <2>1, <2>3, <3>1 DEF Booked, InputState, SpeechState, ProgressState
    <3>3. Halted(k)'
      <4>1. reply[k] = "stopped" => stopped[k] # key
        BY <1>1, <2>1 DEF Halted, FinalStates
      <4> QED
        BY <1>1, <2>1, <3>1, <4>1 DEF Halted, InputState, SpeechState
    <3>4. Unheard(k)'
      BY <1>1, <2>1, <2>3, <3>1 DEF Unheard, SpeechState
    <3> QED
      BY <3>2, <3>3, <3>4
  <2> QED
    BY <2>2, <2>3
<1>5. LanesTyped /\ LanesOK'
  <2> DEFINE l == [lane[w] EXCEPT !.pc = "quieting", !.streamed = FALSE]
  <2>0. lane[w] \in LaneStates
    BY Types
  <2>1. l \in LaneStates /\ l.pc = "quieting" /\ l.job = lane[w].job
    BY <2>0 DEF LaneStates
  <2>2. lane' = [lane EXCEPT ![w] = l]
    BY Types DEF CommitAnswer
  <2> HIDE DEF l
  <2>3. LanesTyped /\ lane'[w] = l /\ \A v \in AllLanes \ {w} : Rests(v)
    BY <2>1, <2>2, OneMoves, Types
  <2>4. Kept /\ Unspoken
    BY <1>1, <1>2, <1>3, Types DEF Kept, Unspoken
  <2>5. Asks(w)'
    BY <1>1, <1>2, <1>3, <2>1, <2>3, JobNames DEF Asks
  <2>6. \A k \in Keys : reply'[k] = "answer" =>
          reply[k] = "answer" \/ (lane'[w].pc = "quieting" /\ lane'[w].job.key = k)
    BY <1>1, <1>2, <1>3, <2>1, <2>3, JobNames, Types
  <2>7. lane[w].pc # "quieting"
    BY <1>2
  <2> QED
    BY <2>3, <2>4, <2>5, <2>6, <2>7, OneAsks
<1>6. TypeOK'
  <2>1. /\ run' \in [Keys -> RunStates] /\ reply' \in [Keys -> {"none", "answer", "stopped"}]
        /\ heard' \in [Keys -> Nat]
    BY <1>1, <1>3, Types DEF RunStates
  <2> QED
    BY <1>1, <1>3, <1>5, <2>1, Types DEF TypeOK, CommitAnswer, Tables, Texted, LanesTyped
<1> QED
  BY <1>4, <1>5, <1>6 DEF IInv, LanesOK

(* A stop request is answered and the earlier input cancelled in one step. *)
LEMMA StopTables ==
  ASSUME IInv, NEW w \in Lanes, CommitStop(w)
  PROVE  LET key == KeyOf(w)  p == lane[w].previous
         IN  /\ key \in Keys /\ p \in Keys \ {key} /\ jobs' \in Tables(Jobs, Texted)
             /\ InputState(key) = "running" /\ jobs'[Input(key)].state = "completed"
             /\ jobs'[Speech(key)].state = "queued"
             /\ \A k \in Keys \ {key, p} : /\ jobs'[Input(k)] = jobs[Input(k)]
                                           /\ jobs'[Speech(k)] = jobs[Speech(k)]
                                           /\ jobs'[Progress(k)] = jobs[Progress(k)]
             /\ IF InputState(p) \in LiveStates THEN jobs'[Input(p)].state = "cancelled"
                                                ELSE jobs'[Input(p)] = jobs[Input(p)]
             /\ IF SpeechState(p) \in LiveStates THEN jobs'[Speech(p)].state = "cancelled"
                                                 ELSE jobs'[Speech(p)] = jobs[Speech(p)]
             /\ InputState(p) # "absent"
<1> DEFINE key == KeyOf(w)
           p == lane[w].previous
           t == ProgressCancelled(jobs, key)
           u == InputCancelled(t, p)
<1>1. key \in Keys /\ InputState(key) = "running"
  BY Holds, Asking DEF CommitStop, At
<1>2. p \in Keys \ {key} /\ InputState(p) # "absent"
  BY <1>1 DEF IInv, Asks, CommitStop, At, KeyOf, Books, Booked
<1>3. t \in Tables(Jobs, Texted) /\ \A j \in Jobs \ {Progress(key)} : t[j] = jobs[j]
  BY <1>1, ProgressEnds
<1>4. jobs' = Answered(u, key, "queued")
  BY DEF CommitStop
<1> HIDE DEF t, key, p
<1>5. /\ u \in Tables(Jobs, Texted)
      /\ \A i \in Jobs : IF i.key = p /\ t[i].state \in LiveStates
                         THEN u[i].state = "cancelled" ELSE u[i] = t[i]
  BY <1>3, CancelledKeyRows DEF InputCancelled
<1> HIDE DEF u
<1>6. /\ jobs' \in Tables(Jobs, Texted) /\ jobs'[Input(key)].state = "completed"
      /\ jobs'[Speech(key)].state = "queued"
      /\ \A j \in Jobs \ {Input(key), Speech(key)} : jobs'[j] = u[j]
  <2>1. "queued" \in JobStates
    BY DEF JobStates
  <2> QED
    BY <1>1, <1>4, <1>5, <2>1, AnsweredRows
<1>7. \A k \in Keys \ {key, p} : /\ jobs'[Input(k)] = jobs[Input(k)]
                                 /\ jobs'[Speech(k)] = jobs[Speech(k)]
                                 /\ jobs'[Progress(k)] = jobs[Progress(k)]
  <2> SUFFICES ASSUME NEW k \in Keys \ {key, p}
               PROVE  \A j \in {Input(k), Speech(k), Progress(k)} : jobs'[j] = jobs[j]
    OBVIOUS
  <2>1. \A j \in {Input(k), Speech(k), Progress(k)} :
          j \in Jobs /\ j.key = k /\ j \notin {Input(key), Speech(key), Progress(key)}
    BY <1>1, JobNames
  <2> QED
    BY <1>3, <1>5, <1>6, <2>1
<1>8. \A j \in {Input(p), Speech(p)} :
        IF jobs[j].state \in LiveStates THEN jobs'[j].state = "cancelled" ELSE jobs'[j] = jobs[j]
  <2>1. \A j \in {Input(p), Speech(p)} :
          j \in Jobs /\ j.key = p /\ j \notin {Input(key), Speech(key), Progress(key)}
    BY <1>1, <1>2, JobNames
  <2> QED
    BY <1>3, <1>5, <1>6, <2>1
<1> QED
  BY <1>1, <1>2, <1>6, <1>7, <1>8 DEF key, p, InputState, SpeechState

(* The books of both inputs are right afterwards. *)
LEMMA StopNext ==
  ASSUME IInv, NEW w \in Lanes, CommitStop(w)
  PROVE  IInv'
<1> DEFINE key == KeyOf(w)
           p == lane[w].previous
<1>1. /\ key \in Keys /\ p \in Keys \ {key} /\ jobs' \in Tables(Jobs, Texted)
      /\ InputState(key) = "running" /\ jobs'[Input(key)].state = "completed"
      /\ jobs'[Speech(key)].state = "queued"
      /\ \A k \in Keys \ {key, p} : /\ jobs'[Input(k)] = jobs[Input(k)]
                                    /\ jobs'[Speech(k)] = jobs[Speech(k)]
                                    /\ jobs'[Progress(k)] = jobs[Progress(k)]
      /\ IF InputState(p) \in LiveStates THEN jobs'[Input(p)].state = "cancelled"
                                         ELSE jobs'[Input(p)] = jobs[Input(p)]
      /\ IF SpeechState(p) \in LiveStates THEN jobs'[Speech(p)].state = "cancelled"
                                          ELSE jobs'[Speech(p)] = jobs[Speech(p)]
      /\ InputState(p) # "absent"
  BY StopTables
<1>2. /\ reply[key] = "none" /\ heard[key] = 0 /\ said[key] # "none"
      /\ lane[w].pc = "stopping" /\ lane[w].job = Input(key)
  BY Asking, Holds DEF CommitStop, At
<1>3. /\ run' = [RunClosed(run, p, "cancelled") EXCEPT ![key] = "completed"]
      /\ reply' = [reply EXCEPT ![key] = "stopped"] /\ stopped' = [stopped EXCEPT ![key] = p]
      /\ said' = said /\ heard' = heard /\ Goes(w, "stopped")
  BY DEF CommitStop, history
<1> HIDE DEF key, p
<1>4. /\ run' \in [Keys -> RunStates] /\ run'[key] = "completed"
      /\ \A k \in Keys \ {key, p} : run'[k] = run[k]
      /\ run'[p] = IF InputState(p) \in LiveStates THEN "cancelled" ELSE run[p]
  <2> DEFINE r == RunClosed(run, p, "cancelled")
  <2>1. /\ r \in [Keys -> RunStates] /\ \A k \in Keys \ {p} : r[k] = run[k]
        /\ InputState(p) \in LiveStates => r[p] = "cancelled"
        /\ InputState(p) \notin LiveStates => r[p] = run[p]
    BY <1>1, RunCloses
  <2> HIDE DEF r
  <2>2. run' = [r EXCEPT ![key] = "completed"]
    BY <1>3 DEF r
  <2> QED
    BY <1>1, <2>1, <2>2 DEF RunStates
<1>5. /\ reply'[key] = "stopped" /\ stopped'[key] = p
      /\ \A k \in Keys \ {key} : reply'[k] = reply[k] /\ stopped'[k] = stopped[k]
  BY <1>1, <1>3, Types
<1>6. jobs'[Input(p)].state \in FinalStates /\ jobs'[Speech(p)].state \notin LiveStates
  <2>1. InputState(p) \in JobStates \ {"interrupted"}
    BY <1>1, Types, JobNames DEF IInv, Books, Booked, InputState, Tables, Rows
  <2> QED
    BY <1>1, <2>1 DEF InputState, SpeechState, FinalStates, LiveStates, JobStates
<1>7. Books'
  <2> SUFFICES ASSUME NEW k \in Keys PROVE Booked(k)' /\ Halted(k)' /\ Unheard(k)'
    BY DEF Books
  <2>1. Booked(k) /\ Halted(k) /\ Unheard(k)
    BY DEF IInv, Books
  <2>2. Booked(k)'
    <3>1. CASE k = key
      BY <1>1, <1>2, <1>3, <1>4, <1>5, <3>1
         DEF Booked, InputState, SpeechState, ProgressState, RunFor, LiveStates
    <3>2. CASE k = p
      <4>1. /\ run'[k] = RunFor(jobs'[Input(k)].state)
            /\ jobs'[Input(k)].state \notin {"absent", "interrupted"}
        BY <1>1, <1>4, <2>1, <3>2 DEF Booked, InputState, RunFor, LiveStates
      <4>2. (reply'[k] # "none") = (jobs'[Input(k)].state = "completed")
        BY <1>1, <1>5, <2>1, <3>2 DEF Booked, InputState, LiveStates
      <4>3. (reply'[k] = "none") = (jobs'[Speech(k)].state = "absent")
        BY <1>1, <1>5, <2>1, <3>2 DEF Booked, SpeechState, LiveStates
      <4>4. said'[k] # "none"
        BY <1>1, <1>3, <2>1, <3>2 DEF Booked
      <4> QED
        BY <4>1, <4>2, <4>3, <4>4 DEF Booked, InputState, SpeechState, ProgressState
    <3>3. CASE k \notin {key, p}
      BY <1>1, <1>3, <1>4, <1>5, <2>1, <3>3 DEF Booked, InputState, SpeechState, ProgressState
    <3> QED
      BY <3>1, <3>2, <3>3
  <2>3. Halted(k)'
    <3>1. CASE k = key
      BY <1>1, <1>5, <1>6, <3>1 DEF Halted, InputState, SpeechState
    <3>2. CASE k # key
      <4>1. CASE reply[k] = "stopped"
        <5>1. stopped[k] \in Keys \ {key}
          BY <1>1, <2>1, <4>1 DEF Halted, FinalStates
        <5>2. /\ jobs'[Input(stopped[k])].state \in FinalStates
              /\ jobs'[Speech(stopped[k])].state \notin LiveStates
          BY <1>1, <1>6, <2>1, <4>1, <5>1 DEF Halted, InputState, SpeechState
        <5> QED
          BY <1>5, <3>2, <4>1, <5>1, <5>2 DEF Halted, InputState, SpeechState
      <4>2. CASE reply[k] # "stopped"
        BY <1>5, <2>1, <3>2, <4>2 DEF Halted
      <4> QED
        BY <4>1, <4>2
    <3> QED
      BY <3>1, <3>2
  <2>4. Unheard(k)'
    <3>1. CASE k = key
      BY <1>2, <1>3, <3>1 DEF Unheard
    <3>2. CASE k # key
      <4>1. jobs'[Speech(k)].state = "queued" => SpeechState(k) = "queued"
        BY <1>1, <3>2 DEF SpeechState
      <4> QED
        BY <1>3, <1>5, <2>1, <3>2, <4>1 DEF Unheard, SpeechState
    <3> QED
      BY <3>1, <3>2
  <2> QED
    BY <2>2, <2>3, <2>4
<1>8. LanesTyped /\ LanesOK'
  <2> DEFINE l == [lane[w] EXCEPT !.pc = "stopped"]
  <2>0. lane[w] \in LaneStates
    BY Types
  <2>1. /\ l \in LaneStates /\ l.pc = "stopped" /\ l.job = lane[w].job
        /\ l.previous = lane[w].previous
    BY <2>0, LabelTyped
  <2>2. lane' = [lane EXCEPT ![w] = l]
    BY <1>3 DEF Goes
  <2> HIDE DEF l
  <2>3. LanesTyped /\ lane'[w] = l /\ \A v \in AllLanes \ {w} : Rests(v)
    BY <2>1, <2>2, OneMoves, Types
  <2>4. Kept /\ Unspoken
    BY <1>2, <1>3, <1>5 DEF Kept, Unspoken
  <2>5. Asks(w)'
    BY <1>2, <1>3, <2>1, <2>3 DEF IInv, Asks
  <2>6. \A k \in Keys : reply'[k] = "answer" => reply[k] = "answer"
    BY <1>5
  <2>7. lane[w].pc # "quieting"
    BY <1>2
  <2> QED
    BY <2>3, <2>4, <2>5, <2>6, <2>7, OneAsks
<1>9. TypeOK'
  <2>1. /\ reply' \in [Keys -> {"none", "answer", "stopped"}]
        /\ stopped' \in [Keys -> Keys \cup {NoKey}]
    BY <1>1, <1>3, Types
  <2> QED
    BY <1>1, <1>3, <1>4, <1>8, <2>1, Types
       DEF TypeOK, CommitStop, Tables, Texted, LanesTyped, history
<1> QED
  BY <1>7, <1>8, <1>9 DEF IInv, LanesOK

-----------------------------------------------------------------------------
(* The steps of the speech lane. *)

(* A row that is spoken belongs to an accepted input. *)
LEMMA SpokenRow ==
  ASSUME IInv, NEW j \in Jobs, j.kind # "user_input", jobs[j].state # "absent"
  PROVE  InputState(j.key) # "absent" /\ (j.kind = "speech" => reply[j.key] # "none")
  BY JobNames DEF IInv, Books, Booked, SpeechState, ProgressState

(* The speech lane lets go of what it held. *)
LEMMA SpeakerLetsGo ==
  ASSUME IInv, Kept, reply' = reply, Release(Speaker)
  PROVE  LanesTyped /\ LanesOK'
<1>1. /\ LanesTyped /\ lane'[Speaker] = IdleLane /\ \A v \in AllLanes \ {Speaker} : Rests(v)
  BY IdleTyped, OneMoves, Types DEF Release
<1>2. Speaks'
  BY <1>1 DEF Speaks, IdleLane
<1>3. lane'[Speaker].pc # "announcing"
  BY <1>1 DEF IdleLane
<1> QED
  BY <1>1, <1>2, <1>3, OneSpeaks, Types

(* A row of the speech lane that is live is moved, but not back to the queue. *)
LEMMA SpokenCarried ==
  ASSUME IInv, NEW j \in Jobs, j.kind # "user_input", UNCHANGED <<said, run, reply, stopped>>,
         jobs[j].state \in LiveStates, jobs' \in Tables(Jobs, Texted),
         \A i \in Jobs \ {j} : jobs'[i] = jobs[i],
         jobs'[j].state \in {"running", "completed", "failed", "cancelled", "interrupted"}
  PROVE  Carried /\ Spares(NoKey)
<1>1. j.key \in Keys /\ InputState(j.key) # "absent"
  BY JobNames, SpokenRow DEF LiveStates
<1>2. CASE j.kind = "speech"
  <2>1. j = Speech(j.key)
    BY <1>2, JobNames
  <2> QED
    BY <1>1, <2>1, SpeechCarried DEF SpeechState
<1>3. CASE j.kind = "progress_speech"
  <2>1. j = Progress(j.key)
    BY <1>3, JobNames
  <2> QED
    BY <1>1, <2>1, ProgressCarried
<1> QED
  BY <1>2, <1>3, JobNames

(* A claim takes an answer that nobody has heard, or a progress line. *)
LEMMA TakeSpeechPlain ==
  ASSUME IInv, Take(Speaker, "speech")
  PROVE  Plain
<1>1. PICK j \in Jobs :
        /\ IsNext(jobs, "speech", j) /\ jobs' = Claimed(jobs, j)
        /\ lane' = [lane EXCEPT ![Speaker] = [IdleLane EXCEPT !.pc = "claimed", !.job = j,
                                                !.token = jobs'[j].owner]]
  BY DEF Take
<1>2. /\ j.kind \in {"speech", "progress_speech"} /\ jobs[j].state = "queued" /\ j.key \in Keys
  <2>1. LaneOf(j.kind) = "speech" /\ jobs[j].state = "queued"
    BY <1>1, Types, NextIsQueued
  <2> QED
    BY <2>1, LaneNames, JobNames
<1>3. /\ jobs' \in Tables(Jobs, Texted) /\ jobs'[j].state = "running" /\ jobs'[j].owner \in Nat
      /\ \A i \in Jobs \ {j} : jobs'[i] = jobs[i]
  BY <1>1, Types, ClaimedRow
<1>4. Carried /\ Spares(NoKey)
  BY <1>2, <1>3, SpokenCarried DEF Take, LiveStates
<1>5. LanesTyped /\ LanesOK'
  <2> DEFINE l == [IdleLane EXCEPT !.pc = "claimed", !.job = j, !.token = jobs'[j].owner]
  <2>1. /\ l \in LaneStates /\ l.pc = "claimed" /\ l.job = j
    BY <1>3 DEF IdleLane, LaneStates
  <2> HIDE DEF l
  <2>2. lane' = [lane EXCEPT ![Speaker] = l]
    BY <1>1 DEF l
  <2>3. LanesTyped /\ lane'[Speaker] = l /\ \A v \in AllLanes \ {Speaker} : Rests(v)
    BY <2>1, <2>2, OneMoves, Types
  <2>4. j.kind = "speech" => reply[j.key] # "none" /\ heard[j.key] = 0
    <3>1. j.kind = "speech" => SpeechState(j.key) = "queued"
      BY <1>2, JobNames DEF SpeechState
    <3> QED
      BY <1>2, <3>1, SpokenRow DEF IInv, Books, Unheard
  <2>5. Kept /\ reply' = reply /\ heard' = heard
    BY StillKept DEF Take, history
  <2>6. Speaks'
    BY <1>2, <2>1, <2>3, <2>4, <2>5 DEF Speaks
  <2>7. lane'[Speaker].pc # "announcing" /\ \A v \in Lanes : Rests(v)
    BY <2>1, <2>3, Types
  <2> QED
    BY <2>3, <2>5, <2>6, <2>7, OneSpeaks
<1>6. Misc'
  BY Types DEF Take, Misc, history
<1> QED
  BY <1>4, <1>5, <1>6, Ordinary DEF Plain, Take, history

(* The answer is heard for the first time, and its row is no longer queued. *)
LEMMA PlayPlain ==
  ASSUME IInv, Play(Speaker)
  PROVE  Plain
<1> DEFINE key == KeyOf(Speaker)
<1>1. /\ lane[Speaker].pc = "claimed" /\ lane[Speaker].job.kind = "speech" /\ key \in Keys
      /\ lane[Speaker].job = Speech(key) /\ SpeechState(key) = "running"
      /\ reply[key] # "none" /\ heard[key] = 0
  <2>1. lane[Speaker].pc = "claimed" /\ lane[Speaker].job.kind = "speech" /\ lane[Speaker].job \in Jobs
    BY Holds DEF Play, At, Holding
  <2> QED
    BY <2>1, JobNames DEF Play, KeyOf, Current, Owns, SpeechState, IInv, Speaks
<1>2. heard' = [heard EXCEPT ![key] = @ + 1] /\ Goes(Speaker, "playing") /\ UNCHANGED store
  BY DEF Play
<1> HIDE DEF key
<1>3. /\ heard' \in [Keys -> Nat] /\ heard'[key] = 1
      /\ \A k \in Keys \ {key} : heard'[k] = heard[k]
  BY <1>1, <1>2, Types
<1>4. Carried /\ Spares(NoKey)
  BY <1>2, StoreKept DEF store
<1>5. Books'
  <2> SUFFICES ASSUME NEW k \in Keys PROVE Booked(k)' /\ Halted(k)' /\ Unheard(k)'
    BY DEF Books
  <2>1. Booked(k) /\ Halted(k) /\ Unheard(k)
    BY DEF IInv, Books
  <2>2. Booked(k)' /\ Halted(k)'
    BY <1>2, <2>1 DEF store, Booked, Halted, InputState, SpeechState, ProgressState
  <2>3. Unheard(k)'
    BY <1>1, <1>2, <1>3, <2>1 DEF store, Unheard, SpeechState
  <2> QED
    BY <2>2, <2>3
<1>6. LanesTyped /\ LanesOK'
  <2> DEFINE l == [lane[Speaker] EXCEPT !.pc = "playing"]
  <2>0. lane[Speaker] \in LaneStates
    BY Types
  <2>1. l \in LaneStates /\ l.pc = "playing" /\ l.job = lane[Speaker].job
    BY <2>0, LabelTyped
  <2>2. lane' = [lane EXCEPT ![Speaker] = l]
    BY <1>2 DEF Goes
  <2> HIDE DEF l
  <2>3. LanesTyped /\ lane'[Speaker] = l /\ \A v \in AllLanes \ {Speaker} : Rests(v)
    BY <2>1, <2>2, OneMoves, Types
  <2>4. Kept /\ reply' = reply
    BY <1>2 DEF store, Kept
  <2>5. Speaks'
    BY <1>1, <2>1, <2>3, <2>4 DEF IInv, Speaks
  <2>6. lane'[Speaker].pc # "announcing" /\ \A v \in Lanes : Rests(v)
    BY <2>1, <2>3, Types
  <2> QED
    BY <2>3, <2>4, <2>5, <2>6, OneSpeaks
<1>7. TypeOK'
  BY <1>3, <1>4, <1>6, Types DEF TypeOK, Carried, Play, Tables, Texted, LanesTyped, store
<1> QED
  BY <1>4, <1>5, <1>6, <1>7 DEF Plain, IInv, LanesOK

(* A progress line is begun only while its input has no answer. *)
LEMMA AnnouncePlain ==
  ASSUME IInv, Announce(Speaker)
  PROVE  Plain
<1>1. /\ lane[Speaker].pc = "claimed" /\ lane[Speaker].job.kind = "progress_speech"
      /\ KeyOf(Speaker) \in Keys /\ reply[KeyOf(Speaker)] = "none"
  BY Holds DEF Announce, At, Holding, Eligible, IInv, Books, Booked, SpeechState
<1>2. Carried /\ Spares(NoKey)
  BY StoreKept DEF Announce
<1>3. LanesTyped /\ LanesOK'
  <2> DEFINE l == [lane[Speaker] EXCEPT !.pc = "announcing"]
  <2>0. lane[Speaker] \in LaneStates
    BY Types
  <2>1. l \in LaneStates /\ l.pc = "announcing" /\ l.job = lane[Speaker].job
    BY <2>0, LabelTyped
  <2>2. lane' = [lane EXCEPT ![Speaker] = l]
    BY DEF Announce, Goes
  <2> HIDE DEF l
  <2>3. LanesTyped /\ lane'[Speaker] = l /\ \A v \in AllLanes \ {Speaker} : Rests(v)
    BY <2>1, <2>2, OneMoves, Types
  <2>4. Kept /\ reply' = reply
    BY StillKept DEF Announce, history
  <2>5. Speaks'
    BY <1>1, <2>1, <2>3, <2>4 DEF IInv, Speaks
  <2>6. reply[lane'[Speaker].job.key] # "answer" /\ \A v \in Lanes : Rests(v)
    BY <1>1, <2>1, <2>3, Types DEF KeyOf
  <2> QED
    BY <2>3, <2>4, <2>5, <2>6, OneSpeaks
<1>4. Misc'
  BY <1>1, Types DEF Announce, Misc, history
<1> QED
  BY <1>2, <1>3, <1>4, Ordinary DEF Plain, Announce, history

LEMMA SkipPlain ==
  ASSUME IInv, SkipProgress(Speaker)
  PROVE  Plain
<1>1. lane[Speaker].job \in Jobs /\ lane[Speaker].job.kind = "progress_speech"
  BY Holds DEF SkipProgress, At, Holding
<1>2. Carried /\ Spares(NoKey)
  <2>1. CASE Current(Speaker)
    <3>1. jobs[lane[Speaker].job].state = "running" /\ jobs' = Finished(jobs, lane[Speaker].job)
      BY <2>1 DEF SkipProgress, Current, Owns
    <3>2. /\ jobs' \in Tables(Jobs, Texted) /\ jobs'[lane[Speaker].job].state = "completed"
          /\ \A i \in Jobs \ {lane[Speaker].job} : jobs'[i] = jobs[i]
      BY <1>1, <3>1, Types, FinishedRow
    <3> QED
      BY <1>1, <3>1, <3>2, SpokenCarried DEF SkipProgress, LiveStates
  <2>2. CASE ~Current(Speaker)
    BY <2>2, StoreKept DEF SkipProgress
  <2> QED
    BY <2>1, <2>2
<1>3. LanesTyped /\ LanesOK'
  BY SpeakerLetsGo, StillKept DEF SkipProgress, history
<1>4. Misc'
  BY Types DEF SkipProgress, Misc, history
<1> QED
  BY <1>2, <1>3, <1>4, Ordinary DEF Plain, SkipProgress, history

LEMMA EndSpeechPlain ==
  ASSUME IInv, EndSpeech(Speaker)
  PROVE  Plain
<1>1. lane[Speaker].job \in Jobs /\ lane[Speaker].job.kind # "user_input"
  BY DEF EndSpeech, IInv, Speaks
<1>2. Carried /\ Spares(NoKey)
  <2>1. CASE Current(Speaker)
    <3>1. PICK s \in {"completed", "interrupted"} :
            jobs[lane[Speaker].job].state = "running" /\ jobs' = Settled(jobs, lane[Speaker].job, s)
      BY <2>1 DEF EndSpeech, Current, Owns
    <3>2. s \in JobStates
      BY DEF JobStates
    <3>3. /\ jobs' \in Tables(Jobs, Texted) /\ jobs'[lane[Speaker].job].state = s
          /\ \A i \in Jobs \ {lane[Speaker].job} : jobs'[i] = jobs[i]
      BY <1>1, <3>1, <3>2, Types, SettledRow
    <3> QED
      BY <1>1, <3>1, <3>3, SpokenCarried DEF EndSpeech, LiveStates
  <2>2. CASE ~Current(Speaker)
    BY <2>2, StoreKept DEF EndSpeech
  <2> QED
    BY <2>1, <2>2
<1>3. LanesTyped /\ LanesOK'
  BY SpeakerLetsGo, StillKept DEF EndSpeech, history
<1>4. Misc'
  BY Types DEF EndSpeech, Misc, history
<1> QED
  BY <1>2, <1>3, <1>4, Ordinary DEF Plain, EndSpeech, history

(* After a restart all lanes are idle. *)
LEMMA RestartPlain ==
  ASSUME IInv, Restart
  PROVE  Plain
<1>1. Carried /\ Spares(NoKey)
  BY RestartCarried
<1>2. lane' = [w \in AllLanes |-> IdleLane]
  BY DEF Restart
<1>3. LanesTyped /\ LanesOK'
  BY <1>2, IdleTyped, Types DEF LanesTyped, LanesOK, Asks, Speaks, ProgressYields, IdleLane
<1>4. Misc'
  BY Types, ConversationAssumption DEF Restart, Misc, history
<1> QED
  BY <1>1, <1>3, <1>4, Ordinary DEF Plain, Restart, history

-----------------------------------------------------------------------------
(* The invariant and what follows from it. *)

Special ==
  \/ \E k \in Keys, text \in Texts : Send(k, text)
  \/ \E w \in Lanes : CommitStop(w) \/ CommitAnswer(w)

LEMMA ConversePlain ==
  ASSUME IInv, NEW w \in Lanes, Converse(w)
  PROVE  Plain \/ CommitStop(w) \/ CommitAnswer(w)
  BY TakePlain, BeginPlain, StopFailsPlain, ReplacePlain, SignalPreviousPlain, PublishPlain,
     DelegatePlain, HushPlain, StartAudioPlain, QuietPlain, FailForGoodPlain, ErrPlain, GiveUpPlain,
     PersistPlain DEF Converse

LEMMA SpeakPlain ==
  ASSUME IInv, Speak
  PROVE  Plain
  BY TakeSpeechPlain, PlayPlain, AnnouncePlain, SkipPlain, EndSpeechPlain DEF Speak

LEMMA StutterPlain ==
  ASSUME IInv, UNCHANGED vars
  PROVE  Plain
<1>1. Carried /\ Spares(NoKey)
  BY StoreKept DEF vars, store
<1>2. LanesTyped /\ LanesOK'
  BY LanesKept, StillKept DEF vars, store
<1>3. Misc'
  BY Types DEF vars, store, Misc
<1> QED
  BY <1>1, <1>2, <1>3, Ordinary DEF Plain, vars

(* Only three steps accept or answer anything; the others are plain. *)
LEMMA PlainOrSpecial ==
  ASSUME IInv, [Next]_vars
  PROVE  Plain \/ Special
<1>1. CASE UNCHANGED vars
  BY <1>1, StutterPlain
<1>2. CASE \E k \in Keys, text \in Texts : Send(k, text)
  BY <1>2 DEF Special
<1>3. CASE \E k \in Keys : CancelInput(k) \/ Signal(k) \/ BackoffEnds(k)
  BY <1>3, CancelInputPlain, SignalPlain, BackoffPlain
<1>4. CASE \E w \in Lanes : Converse(w)
  BY <1>4, ConversePlain DEF Special
<1>5. CASE Speak
  BY <1>5, SpeakPlain
<1>6. CASE Restart
  BY <1>6, RestartPlain
<1> QED
  BY <1>1, <1>2, <1>3, <1>4, <1>5, <1>6 DEF Next

LEMMA InitIInv == Init => IInv
<1> SUFFICES ASSUME Init PROVE IInv
  OBVIOUS
<1>1. jobs \in [Jobs -> Rows(Texts \cup {"reply", "line"})] /\ \A j \in Jobs : jobs[j].state = "absent"
  BY DEF Init, EmptyTable, AbsentRow, Rows
<1>2. lane \in [AllLanes -> LaneStates] /\ \A w \in AllLanes : lane[w].pc = "idle"
  BY IdleTyped DEF Init, IdleLane
<1>3. TypeOK
  <2>1. /\ said \in [Keys -> Texts \cup {"none"}] /\ run \in [Keys -> RunStates]
        /\ reply \in [Keys -> {"none", "answer", "stopped"}]
        /\ stopped \in [Keys -> Keys \cup {NoKey}]
    BY DEF Init, RunStates
  <2>2. /\ announced \subseteq Keys /\ unsignalled \subseteq Keys
        /\ shown \in [Keys -> Nat] /\ heard \in [Keys -> Nat] /\ restarts \in 0 .. MaxRestarts
    BY ConversationAssumption DEF Init
  <2> QED
    BY <1>1, <1>2, <2>1, <2>2 DEF TypeOK
<1>4. Books
  BY <1>1, JobNames
     DEF Init, Books, Booked, Halted, Unheard, InputState, SpeechState, ProgressState, RunFor,
         LiveStates
<1>5. (\A w \in Lanes : Asks(w)) /\ Speaks /\ ProgressYields
  BY <1>2 DEF AllLanes, Asks, Speaks, ProgressYields
<1> QED
  BY <1>3, <1>4, <1>5 DEF IInv

LEMMA NextStep == IInv /\ [Next]_vars => IInv'
<1> SUFFICES ASSUME IInv, [Next]_vars PROVE IInv'
  OBVIOUS
<1>1. CASE Plain
  BY <1>1 DEF Plain
<1>2. CASE Special
  BY <1>2, SendNext, StopNext, AnswerNext DEF Special
<1> QED
  BY <1>1, <1>2, PlainOrSpecial

(* Every conversation keeps its books and its lanes in order: IInv is inductive. *)
THEOREM Invariance == Spec => []IInv
  BY InitIInv, NextStep, PTL DEF Spec

(* No statement of the conversation and no recovery writes a value the schema does *)
(* not have (enqueue_text, commit_answer, cancel_input, mark_uncertain_speech).    *)
THEOREM TypeCorrect == Spec => []TypeOK
<1>1. IInv => TypeOK
  BY DEF IInv
<1> QED
  BY <1>1, Invariance, PTL

(* The queue row, the run and the reply of an input agree after every transaction and *)
(* every restart (commit_answer, queue_input_state::cancel, fail_answer_terminal,     *)
(* run_lane, spawn).                                                                  *)
THEOREM TablesInStep == Spec => []TablesAgree
<1>1. IInv => TablesAgree
  <2> SUFFICES ASSUME IInv, NEW k \in Keys
               PROVE  /\ (run[k] = "running") = (InputState(k) \in LiveStates)
                      /\ InputState(k) \in FinalStates => run[k] = InputState(k)
                      /\ (reply[k] # "none") = (InputState(k) = "completed")
    BY DEF TablesAgree
  <2>1. Booked(k)
    BY DEF IInv, Books
  <2> QED
    BY <2>1 DEF Booked, RunFor, LiveStates, FinalStates
<1> QED
  BY <1>1, Invariance, PTL

(* An input that a stop reply names, and its speech, are never worked on again, over *)
(* every retry and restart (process_conversation, queue_input_state::cancel).        *)
THEOREM StoppedForGood == Spec => []StopSticks
<1>1. IInv => StopSticks
  <2> SUFFICES ASSUME IInv, NEW k \in Keys, reply[k] = "stopped"
               PROVE  {Input(stopped[k]), Speech(stopped[k])} \cap Live(jobs) = {}
    BY DEF StopSticks
  <2>1. InputState(stopped[k]) \in FinalStates /\ SpeechState(stopped[k]) \notin LiveStates
    BY DEF IInv, Books, Halted
  <2> QED
    BY <2>1 DEF InputState, SpeechState, Live, FinalStates, LiveStates
<1> QED
  BY <1>1, Invariance, PTL

(* An answer is spoken at most once, streamed while it is made or played from its row *)
(* (commit_answer, speak_conversation_answer_inner, recover).                         *)
THEOREM SpeaksOnce == Spec => []SpokenOnce
<1>1. IInv => SpokenOnce
  BY DEF IInv, Books, Unheard, SpokenOnce
<1> QED
  BY <1>1, Invariance, PTL

(* A progress line that plays when the answer is saved has been told to stop once the *)
(* handler is done (process_conversation, cancel_active_progress_speech).             *)
THEOREM ProgressGivesWay == Spec => []ProgressYields
<1>1. IInv => ProgressYields
  BY DEF IInv
<1> QED
  BY <1>1, Invariance, PTL

-----------------------------------------------------------------------------
(* Silence. *)

(* Only an answer adds a reply, only an answer or a playback is heard, and only *)
(* an announcement saves a progress line.                                       *)
LEMMA WhoSpeaks ==
  ASSUME [Next]_vars
  PROVE  /\ reply' = reply \/ \E w \in Lanes : CommitStop(w) \/ CommitAnswer(w)
         /\ heard' = heard \/ Play(Speaker) \/ \E w \in Lanes : CommitAnswer(w)
         /\ announced' = announced \/ Announce(Speaker)
<1> DEFINE Mute == reply' = reply /\ heard' = heard /\ announced' = announced
<1>1. ASSUME NEW k \in Keys, CancelInput(k) \/ Signal(k) \/ BackoffEnds(k) PROVE Mute
  BY <1>1 DEF CancelInput, Signal, BackoffEnds, store, history
<1>2. ASSUME NEW k \in Keys, NEW text \in Texts, Send(k, text) PROVE Mute
  BY <1>2 DEF Send, history
<1>3. ASSUME NEW w \in Lanes, Converse(w), ~CommitStop(w), ~CommitAnswer(w) PROVE Mute
  <2>1. CASE Take(w, "conversation")
    BY <2>1 DEF Take, history
  <2>2. CASE \/ Begin(w) \/ StopFails(w) \/ SignalPrevious(w) \/ Publish(w) \/ StartAudio(w)
             \/ Quiet(w) \/ Err(w) \/ GiveUp(w)
    BY <2>2 DEF Begin, StopFails, SignalPrevious, Publish, StartAudio, Quiet, Err, GiveUp, store,
                history
  <2>3. CASE Replace(w) \/ Delegate(w) \/ Hush(w)
    BY <2>3 DEF Replace, Delegate, Hush, history
  <2>4. CASE FailForGood(w) \/ Persist(w)
    BY <2>4 DEF FailForGood, Persist, history
  <2> QED
    BY <1>3, <2>1, <2>2, <2>3, <2>4 DEF Converse
<1>4. ASSUME NEW w \in Lanes, CommitStop(w) PROVE heard' = heard /\ announced' = announced
  BY <1>4 DEF CommitStop, history
<1>5. ASSUME NEW w \in Lanes, CommitAnswer(w) PROVE announced' = announced
  BY <1>5 DEF CommitAnswer
<1>6. CASE Speak
  <2>1. CASE Take(Speaker, "speech")
    BY <2>1 DEF Take, history
  <2>2. CASE Play(Speaker)
    BY <2>2 DEF Play, store
  <2>3. CASE Announce(Speaker)
    BY <2>3 DEF Announce, history
  <2>4. CASE SkipProgress(Speaker) \/ EndSpeech(Speaker)
    BY <2>4 DEF SkipProgress, EndSpeech, history
  <2> QED
    BY <1>6, <2>1, <2>2, <2>3, <2>4 DEF Speak
<1>7. CASE Restart
  BY <1>7 DEF Restart, history
<1>8. CASE UNCHANGED vars
  BY <1>8 DEF vars, store
<1> HIDE DEF Mute
<1>9. CASE \E w \in Lanes : Converse(w)
  <2>1. PICK w \in Lanes : Converse(w)
    BY <1>9
  <2> QED
    BY <1>3, <1>4, <1>5, <2>1 DEF Mute
<1> QED
  BY <1>1, <1>2, <1>6, <1>7, <1>8, <1>9 DEF Next, Mute

Silent(k) ==
  InputState(k) = "cancelled" =>
    /\ reply'[k] = reply[k] /\ heard'[k] = heard[k]
    /\ k \in announced' => k \in announced

(* After a cancellation nothing more is said in the name of the input, although its *)
(* handler and its playback may still run (process_job, eligible, commit_answer).   *)
THEOREM CancelledSilent == Spec => CancelledStaysSilent
<1>1. ASSUME IInv, [Next]_vars PROVE \A k \in Keys : Silent(k)
  <2> SUFFICES ASSUME NEW k \in Keys, InputState(k) = "cancelled"
               PROVE  /\ reply'[k] = reply[k] /\ heard'[k] = heard[k]
                      /\ k \in announced' => k \in announced
    BY DEF Silent
  <2>1. reply[k] = "none"
    BY <1>1 DEF IInv, Books, Booked
  <2>2. \A w \in Lanes : CommitStop(w) \/ CommitAnswer(w) => KeyOf(w) # k
    BY <1>1, Asking DEF CommitStop, CommitAnswer, At
  <2>3. reply'[k] = reply[k]
    <3>1. CASE \E w \in Lanes : CommitStop(w) \/ CommitAnswer(w)
      <4>1. PICK w \in Lanes : CommitStop(w) \/ CommitAnswer(w)
        BY <3>1
      <4>2. \E s \in {"stopped", "answer"} : reply' = [reply EXCEPT ![KeyOf(w)] = s]
        BY <4>1 DEF CommitStop, CommitAnswer
      <4> QED
        BY <1>1, <2>2, <4>1, <4>2, Types
    <3> QED
      BY <1>1, <3>1, WhoSpeaks
  <2>4. heard'[k] = heard[k]
    <3>1. CASE Play(Speaker)
      <4>1. KeyOf(Speaker) # k /\ heard' = [heard EXCEPT ![KeyOf(Speaker)] = @ + 1]
        BY <2>1, <3>1 DEF Play
      <4> QED
        BY <1>1, <4>1, Types
    <3>2. CASE \E w \in Lanes : CommitAnswer(w)
      <4>1. PICK w \in Lanes : CommitAnswer(w)
        BY <3>2
      <4>2. heard' = heard \/ heard' = [heard EXCEPT ![KeyOf(w)] = @ + 1]
        BY <4>1 DEF CommitAnswer
      <4> QED
        BY <1>1, <2>2, <4>1, <4>2, Types
    <3> QED
      BY <1>1, <3>1, <3>2, WhoSpeaks
  <2>5. k \in announced' => k \in announced
    <3>1. CASE Announce(Speaker)
      <4>1. InputState(KeyOf(Speaker)) \in LiveStates
            /\ announced' = announced \cup {KeyOf(Speaker)}
        BY <3>1 DEF Announce, Eligible, InputState
      <4> QED
        BY <4>1 DEF LiveStates
    <3> QED
      BY <1>1, <3>1, WhoSpeaks
  <2> QED
    BY <2>3, <2>4, <2>5
<1>2. IInv /\ [Next]_vars => [\A k \in Keys : Silent(k)]_vars
  BY <1>1
<1> QED
  BY <1>2, Invariance, PTL DEF Spec, CancelledStaysSilent, Silent

-----------------------------------------------------------------------------
(* The conversation keeps its promise. *)

outcomes == [k \in Keys |-> Outcome(k)]
stops == [k \in Keys |-> {stopped[k]} \ {NoKey}]

(* What the row of an input says of its outcome. *)
OutcomeOf(state) ==
  IF state = "absent" THEN "none"
  ELSE IF state \in LiveStates THEN "waiting"
  ELSE IF state = "completed" THEN "answered" ELSE state

LEMMA OutcomeTold ==
  /\ \A k \in Keys : Outcome(k) = OutcomeOf(InputState(k))
  /\ \A k \in Keys : Outcome(k)' = OutcomeOf(jobs'[Input(k)].state)
  BY DEF Outcome, OutcomeOf, InputState, LiveStates

(* A plain step ends at most one request, unanswered. *)
LEMMA PlainPromised ==
  ASSUME IInv, Plain
  PROVE  [Promise!Next]_<<outcomes, stops>>
<1>1. stops' = stops /\ stopped' = stopped
  BY DEF Plain, Carried, stops
<1>2. PICK key : Spares(key)
  BY DEF Plain
<1>3. \A k \in Keys \ {key} : Outcome(k)' = Outcome(k)
  BY <1>2, OutcomeTold DEF Spares, OutcomeOf, LiveStates
<1>4. CASE key \in Keys
  <2>1. \/ Outcome(key)' = Outcome(key)
        \/ Outcome(key) = "waiting" /\ Outcome(key)' \in {"failed", "cancelled"}
    <3>1. Carries(key)
      BY <1>4 DEF Plain, Carried
    <3> QED
      BY <1>4, <3>1, OutcomeTold DEF Carries, OutcomeOf, LiveStates
  <2>2. outcomes' = [outcomes EXCEPT ![key] = Outcome(key)'] /\ outcomes[key] = Outcome(key)
    BY <1>3, <1>4 DEF outcomes
  <2>3. CASE Outcome(key)' = Outcome(key)
    BY <1>1, <1>3, <2>3 DEF outcomes
  <2>4. CASE Outcome(key) = "waiting" /\ Outcome(key)' = "failed"
    <3>1. Promise!Fail(key)
      BY <1>1, <2>2, <2>4 DEF Promise!Fail, outcomes, stops
    <3> QED
      BY <1>4, <3>1 DEF Promise!Next
  <2>5. CASE Outcome(key) = "waiting" /\ Outcome(key)' = "cancelled"
    <3>1. Promise!Withdraw(key)
      BY <1>1, <2>2, <2>5 DEF Promise!Withdraw, outcomes, stops
    <3> QED
      BY <1>4, <3>1 DEF Promise!Next
  <2> QED
    BY <2>1, <2>3, <2>4, <2>5
<1>5. CASE key \notin Keys
  BY <1>1, <1>3, <1>5 DEF outcomes
<1> QED
  BY <1>4, <1>5

(* A new request is accepted. *)
LEMMA SendPromised ==
  ASSUME IInv, NEW key \in Keys, NEW text \in Texts, Send(key, text)
  PROVE  Promise!Next
<1>1. /\ Outcome(key) = "none" /\ Outcome(key)' = "waiting"
      /\ \A k \in Keys \ {key} : Outcome(k)' = Outcome(k)
  BY SendNext, OutcomeTold DEF OutcomeOf, LiveStates, InputState
<1>2. outcomes' = [outcomes EXCEPT ![key] = "waiting"] /\ outcomes[key] = "none"
  BY <1>1 DEF outcomes
<1>3. stops' = stops
  BY DEF Send, stops
<1>4. Promise!Accept(key)
  BY <1>2, <1>3 DEF Promise!Accept, outcomes, stops
<1> QED
  BY <1>4 DEF Promise!Next

(* An answer ends its request alone. *)
LEMMA AnswerPromised ==
  ASSUME IInv, NEW w \in Lanes, CommitAnswer(w)
  PROVE  Promise!Next
<1>a. KeyOf(w) \in Keys
  BY AnswerTables
<1> SUFFICES ASSUME NEW key \in Keys, key = KeyOf(w) PROVE Promise!Next
  BY <1>a
<1>0. /\ key \in Keys /\ InputState(key) = "running" /\ jobs'[Input(key)].state = "completed"
      /\ \A k \in Keys \ {key} : jobs'[Input(k)] = jobs[Input(k)]
  BY AnswerTables
<1>2. stopped[key] = NoKey /\ stopped' = stopped
  BY Asking DEF CommitAnswer, At
<1>1. /\ key \in Keys /\ Outcome(key) = "waiting" /\ Outcome(key)' = "answered"
      /\ \A k \in Keys \ {key} : Outcome(k)' = Outcome(k)
  <2>1. Outcome(key) = OutcomeOf("running") /\ Outcome(key)' = OutcomeOf("completed")
    BY <1>0, OutcomeTold
  <2>2. OutcomeOf("running") = "waiting" /\ OutcomeOf("completed") = "answered"
    BY DEF OutcomeOf, LiveStates
  <2>3. \A k \in Keys \ {key} : Outcome(k)' = Outcome(k)
    BY <1>0, OutcomeTold DEF InputState
  <2> QED
    BY <1>0, <2>1, <2>2, <2>3
<1>3. /\ outcomes[key] = "waiting"
      /\ outcomes' = [j \in Keys |->
           CASE j = key -> "answered"
             [] j \in {} /\ outcomes[j] = "waiting" -> "cancelled"
             [] OTHER -> outcomes[j]]
  <2>1. \A j \in Keys :
          Outcome(j)' = CASE j = key -> "answered"
                          [] j \in {} /\ outcomes[j] = "waiting" -> "cancelled"
                          [] OTHER -> outcomes[j]
    BY <1>1 DEF outcomes
  <2> QED
    BY <1>1, <2>1 DEF outcomes
<1>4. stops' = [stops EXCEPT ![key] = {}]
  BY <1>1, <1>2 DEF stops
<1>5. Promise!Answer(key, {})
  BY <1>3, <1>4 DEF Promise!Answer, outcomes, stops
<1> QED
  BY <1>1, <1>5 DEF Promise!Next

(* A stop reply ends its request and the one it names, if that still waited. *)
LEMMA StopPromised ==
  ASSUME IInv, NEW w \in Lanes, CommitStop(w)
  PROVE  Promise!Next
<1>a. KeyOf(w) \in Keys /\ lane[w].previous \in Keys
  BY StopTables
<1> SUFFICES ASSUME NEW key \in Keys, key = KeyOf(w), NEW p \in Keys, p = lane[w].previous
             PROVE  Promise!Next
  BY <1>a
<1>0. /\ key \in Keys /\ p \in Keys \ {key}
      /\ InputState(key) = "running" /\ jobs'[Input(key)].state = "completed"
      /\ \A k \in Keys \ {key, p} : jobs'[Input(k)] = jobs[Input(k)]
      /\ IF InputState(p) \in LiveStates THEN jobs'[Input(p)].state = "cancelled"
                                         ELSE jobs'[Input(p)] = jobs[Input(p)]
  BY StopTables
<1>2. stopped' = [stopped EXCEPT ![key] = p]
  BY DEF CommitStop
<1>1. /\ key \in Keys /\ p \in Keys \ {key} /\ p # NoKey
      /\ Outcome(key) = "waiting" /\ Outcome(key)' = "answered"
      /\ Outcome(p)' = IF Outcome(p) = "waiting" THEN "cancelled" ELSE Outcome(p)
      /\ \A k \in Keys \ {key, p} : Outcome(k)' = Outcome(k)
  <2>1. Outcome(key) = OutcomeOf("running") /\ Outcome(key)' = OutcomeOf("completed")
    BY <1>0, OutcomeTold
  <2>2. /\ OutcomeOf("running") = "waiting" /\ OutcomeOf("completed") = "answered"
        /\ OutcomeOf("cancelled") = "cancelled"
        /\ \A s \in JobStates \cup {"absent"} : OutcomeOf(s) = "waiting" <=> s \in LiveStates
    BY DEF OutcomeOf, LiveStates, JobStates
  <2>3. \A k \in Keys \ {key, p} : Outcome(k)' = Outcome(k)
    BY <1>0, OutcomeTold DEF InputState
  <2>4. InputState(p) \in JobStates \cup {"absent"}
    <3>1. Input(p) \in Jobs
      BY <1>0, JobNames
    <3> QED
      BY <3>1, Types DEF InputState, Tables, Rows
  <2>5. Outcome(p)' = IF Outcome(p) = "waiting" THEN "cancelled" ELSE Outcome(p)
    <3>1. Outcome(p) = OutcomeOf(InputState(p)) /\ Outcome(p)' = OutcomeOf(jobs'[Input(p)].state)
      BY <1>0, OutcomeTold
    <3> QED
      BY <1>0, <2>2, <2>4, <3>1 DEF InputState
  <2> QED
    BY <1>0, <2>1, <2>2, <2>3, <2>5, Types
<1>3. /\ outcomes[key] = "waiting"
      /\ outcomes' = [j \in Keys |->
           CASE j = key -> "answered"
             [] j \in {p} /\ outcomes[j] = "waiting" -> "cancelled"
             [] OTHER -> outcomes[j]]
  <2>1. \A j \in Keys :
          Outcome(j)' = CASE j = key -> "answered"
                          [] j \in {p} /\ outcomes[j] = "waiting" -> "cancelled"
                          [] OTHER -> outcomes[j]
    BY <1>1 DEF outcomes
  <2> QED
    BY <1>1, <2>1 DEF outcomes
<1>4. stops' = [stops EXCEPT ![key] = {p}]
  BY <1>1, <1>2, Types DEF stops
<1>5. Promise!Answer(key, {p}) /\ {p} \in SUBSET Keys
  BY <1>1, <1>3, <1>4 DEF Promise!Answer, outcomes, stops
<1> QED
  BY <1>1, <1>5 DEF Promise!Next

-----------------------------------------------------------------------------
(* The rows of the conversation are what the queue promises. *)

RowsMove == Moved(Jobs, Audible, jobs, jobs')

(* Rows that move as a transaction may advance as promised. *)
LEMMA RowsAdvance == RowsMove => Queue!Next
<1> SUFFICES ASSUME RowsMove, NEW j \in Jobs PROVE Queue!Advances(j)
  BY DEF Queue!Next
<1>1. Advanced(Audible, j, jobs[j], jobs'[j])
  BY DEF RowsMove, Moved
<1> QED
  BY <1>1 DEF Advanced, Queue!Advances, Queue!Accepted, Queue!Taken, Queue!Ended,
       Queue!GivenBack, Queue!Stopped, Queue!Replayed, Queue!Requeued,
       Queue!Untouched, Queue!Moves, Queue!Counted, Queue!Uncounted

(* Nobody hears an input; the rest is heard. *)
LEMMA AudibleJobs ==
  /\ \A j \in Jobs : j \in Audible <=> j.kind # "user_input"
  /\ \A k \in Keys : Input(k) \notin Audible
  BY LaneNames, JobNames DEF Audible

(* The answer transaction, after what it closed before. *)
LEMMA AnsweredMoved ==
  ASSUME NEW t \in Tables(Jobs, Texted), NEW key \in Keys,
         NEW s \in {"queued", "completed", "interrupted"},
         t[Input(key)].state = "running",
         t[Speech(key)].state = "absent", t[Speech(key)].attempts = 0
  PROVE  /\ Moved(Jobs, Audible, t, Answered(t, key, s))
         /\ \A j \in Jobs \ {Input(key), Speech(key)} : Answered(t, key, s)[j] = t[j]
<1> DEFINE a == Inserted(t, Speech(key), "reply")
           b == [a EXCEPT ![Speech(key)].state = s]
<1>1. /\ Speech(key) \in Jobs /\ Input(key) \in Jobs /\ Speech(key) # Input(key)
      /\ "reply" \in Texted
  BY JobNames DEF Texted
<1>2. /\ a \in Tables(Jobs, Texted) /\ \A j \in Jobs \ {Speech(key)} : a[j] = t[j]
      /\ a[Speech(key)].attempts = 0
  <2>1. a[Speech(key)].attempts = 0
    BY <1>1 DEF Tables, Inserted, NewRow
  <2> QED
    BY <1>1, <2>1, JobsFinite, InsertedRow
<1> HIDE DEF a
<1>3. /\ b \in Tables(Jobs, Texted)
      /\ b[Speech(key)].state = s /\ b[Speech(key)].attempts = 0
      /\ \A j \in Jobs \ {Speech(key)} : b[j] = t[j]
  <2>1. a[Speech(key)] \in Rows(Texted) /\ s \in JobStates
    BY <1>1, <1>2 DEF Tables, JobStates
  <2>2. /\ [a[Speech(key)] EXCEPT !.state = s] \in Rows(Texted)
        /\ [a[Speech(key)] EXCEPT !.state = s].state = s
        /\ [a[Speech(key)] EXCEPT !.state = s].attempts = 0
    BY <1>2, <2>1 DEF Rows
  <2> QED
    BY <1>1, <1>2, <2>2 DEF Tables
<1>4. Answered(t, key, s) = Settled(b, Input(key), "completed")
  BY DEF Answered, Finished, a, b
<1> HIDE DEF b
<1>5. Moved(Jobs, Audible, t, b)
  BY <1>1, <1>3 DEF Moved, Advanced
<1>6. /\ Moved(Jobs, Audible, b, Answered(t, key, s))
      /\ \A j \in Jobs \ {Input(key)} : Answered(t, key, s)[j] = b[j]
  <2>1. b[Input(key)].state = "running" /\ "completed" \in JobStates
    BY <1>1, <1>3 DEF JobStates
  <2> QED
    BY <1>1, <1>3, <1>4, <2>1, SettledMoved, SettledRow
<1> QED
  BY <1>1, <1>3, <1>5, <1>6, ApartMoved

(* A lane whose claim is current has its input's row, and speech does not exist yet. *)
LEMMA Unanswered ==
  ASSUME IInv, Tallied(Jobs, jobs), NEW w \in Lanes, lane[w].pc # "idle", Current(w)
  PROVE  /\ KeyOf(w) \in Keys /\ jobs[Input(KeyOf(w))].state = "running"
         /\ jobs[Speech(KeyOf(w))].state = "absent" /\ jobs[Speech(KeyOf(w))].attempts = 0
<1>1. KeyOf(w) \in Keys
  BY Holds
<1>2. jobs[Input(KeyOf(w))].state = "running" /\ jobs[Speech(KeyOf(w))].state = "absent"
  BY Asking DEF InputState, SpeechState
<1>3. Speech(KeyOf(w)) \in Jobs
  BY <1>1, JobNames
<1>4. jobs[Speech(KeyOf(w))].attempts = 0
  BY <1>2, <1>3 DEF Tallied
<1> QED
  BY <1>1, <1>2, <1>4

(* A handler's answer: its progress line, its row and its speech. *)
LEMMA AnswerMoved ==
  ASSUME IInv, Tallied(Jobs, jobs), NEW w \in Lanes, CommitAnswer(w)
  PROVE  RowsMove
<1> DEFINE key == KeyOf(w)
           t == ProgressCancelled(jobs, key)
<1>1. /\ key \in Keys /\ jobs[Input(key)].state = "running" /\ jobs[Speech(key)].state = "absent"
      /\ jobs[Speech(key)].attempts = 0
  <2>1. lane[w].pc # "idle" /\ Current(w)
    BY DEF CommitAnswer, At
  <2> QED
    BY <2>1, Unanswered
<1>2. /\ t \in Tables(Jobs, Texted) /\ \A j \in Jobs \ {Progress(key)} : t[j] = jobs[j]
      /\ Moved(Jobs, Audible, jobs, t)
  BY <1>1, ProgressEnds, CancelledMoved, Types DEF ProgressCancelled
<1>3. PICK s \in SpeechStates(w) : jobs' = Answered(t, key, s)
  BY DEF CommitAnswer
<1>4. s \in {"queued", "completed", "interrupted"}
  BY DEF SpeechStates
<1> HIDE DEF t, key
<1>5. {Input(key), Speech(key), Progress(key)} \subseteq Jobs /\ Progress(key) \notin {Input(key), Speech(key)}
  BY <1>1, JobNames
<1>6. /\ Moved(Jobs, Audible, t, jobs')
      /\ \A j \in Jobs \ {Input(key), Speech(key)} : jobs'[j] = t[j]
  BY <1>1, <1>2, <1>3, <1>4, <1>5, AnsweredMoved
<1> QED
  BY <1>2, <1>5, <1>6, ApartMoved DEF RowsMove

(* A stop reply moves the rows of the input it stops as well. *)
LEMMA StopMoved ==
  ASSUME IInv, Tallied(Jobs, jobs), NEW w \in Lanes, CommitStop(w)
  PROVE  RowsMove
<1> DEFINE key == KeyOf(w)
           p == lane[w].previous
           t == ProgressCancelled(jobs, key)
           u == InputCancelled(t, p)
<1>1. /\ key \in Keys /\ jobs[Input(key)].state = "running" /\ jobs[Speech(key)].state = "absent"
      /\ jobs[Speech(key)].attempts = 0 /\ p \in Keys \ {key}
  <2>1. lane[w].pc # "idle" /\ Current(w)
    BY DEF CommitStop, At
  <2>2. p \in Keys \ {key}
    BY StopTables
  <2> QED
    BY <2>1, <2>2, Unanswered
<1>2. /\ t \in Tables(Jobs, Texted) /\ \A j \in Jobs \ {Progress(key)} : t[j] = jobs[j]
      /\ Moved(Jobs, Audible, jobs, t)
  BY <1>1, ProgressEnds, CancelledMoved, Types DEF ProgressCancelled
<1>3. jobs' = Answered(u, key, "queued")
  BY DEF CommitStop
<1> HIDE DEF t, key, p
<1>4. /\ u \in Tables(Jobs, Texted) /\ \A j \in Jobs : j.key # p => u[j] = t[j]
      /\ Moved(Jobs, Audible, t, u)
  BY <1>2, CancelledKeyRows, CancelledKeyMoved DEF InputCancelled
<1> HIDE DEF u
<1>5. /\ {Input(key), Speech(key), Progress(key)} \subseteq Jobs
      /\ Progress(key) \notin {Input(key), Speech(key)}
      /\ \A j \in {Input(key), Speech(key), Progress(key)} : j.key = key
  BY <1>1, JobNames
<1>6. /\ Moved(Jobs, Audible, u, jobs')
      /\ \A j \in Jobs \ {Input(key), Speech(key)} : jobs'[j] = u[j]
  BY <1>1, <1>2, <1>3, <1>4, <1>5, AnsweredMoved
<1>7. Moved(Jobs, Audible, jobs, u)
  BY <1>1, <1>2, <1>4, <1>5, ApartMoved
<1> QED
  BY <1>1, <1>2, <1>4, <1>5, <1>6, <1>7, ApartMoved DEF RowsMove

(* An input is closed as failed together with its progress line. *)
LEMMA ClosedMoved ==
  ASSUME IInv, NEW key \in Keys, InputState(key) = "running", ClosedAsFailed(key)
  PROVE  RowsMove
<1> DEFINE m == FailedTerminally(jobs, Input(key))
<1>1. Input(key) \in Jobs /\ Progress(key) # Input(key) /\ jobs \in Tables(Jobs, Texted)
  BY JobNames, Types
<1>2. /\ m \in Tables(Jobs, Texted) /\ \A j \in Jobs \ {Input(key)} : m[j] = jobs[j]
      /\ Moved(Jobs, Audible, jobs, m)
  <2>1. m \in Tables(Jobs, Texted) /\ \A j \in Jobs \ {Input(key)} : m[j] = jobs[j]
    BY <1>1, FailedRow
  <2>2. jobs[Input(key)].state = "running"
    BY DEF InputState
  <2> QED
    BY <1>1, <2>1, <2>2, SettledMoved DEF FailedTerminally
<1> HIDE DEF m
<1>3. jobs' = CancelledWhere(m, {Progress(key)})
  BY DEF ClosedAsFailed, ProgressCancelled, m
<1>4. /\ Moved(Jobs, Audible, m, jobs')
      /\ \A j \in Jobs \ {Progress(key)} : jobs'[j] = m[j]
  BY <1>2, <1>3, CancelledMoved, CancelledRows
<1> QED
  BY <1>1, <1>2, <1>4, ApartMoved DEF RowsMove

(* A restart gives inputs back and stops what is heard; speech has its reply, and a *)
(* progress line that comes back was never begun.                                   *)
LEMMA RestartMoved ==
  ASSUME IInv, Tallied(Jobs, jobs), Restart
  PROVE  RowsMove
<1> DEFINE m == Recovered(jobs, {"conversation"}, {"speech"})
           u == UncertainSpeechFailed(m)
<1>1. /\ m \in Tables(Jobs, Texted) /\ Moved(Jobs, Audible, jobs, m)
      /\ \A i \in Jobs : /\ jobs[i].state = "absent" => m[i] = jobs[i]
                         /\ m[i].attempts = jobs[i].attempts
                         /\ m[i].state = "interrupted" => m[i] = jobs[i] \/ jobs[i].state \in LiveStates
  <2>1. {"conversation"} \cap {"speech"} = {} /\ jobs \in Tables(Jobs, Texted)
    BY Types
  <2>2. \A j \in Jobs : LaneOf(j.kind) \in {"conversation"} => j \notin Audible
    BY DEF Audible
  <2>3. m \in Tables(Jobs, Texted) /\ Moved(Jobs, Audible, jobs, m)
    BY <2>1, <2>2, RecoveredRows, RecoveredMoved
  <2>4. \A i \in Jobs : /\ jobs[i].state = "absent" => m[i] = jobs[i]
                        /\ m[i].attempts = jobs[i].attempts
                        /\ m[i].state = "interrupted" => m[i] = jobs[i] \/ jobs[i].state \in LiveStates
    BY <2>1 DEF Recovered, Tables, Rows, LiveStates
  <2> QED
    BY <2>3, <2>4
<1> HIDE DEF m
<1>2. \A i \in Jobs : u[i] = m[i]
  <2> SUFFICES ASSUME NEW i \in Jobs, i.kind = "speech", m[i].state = "interrupted",
                      reply[i.key] = "none"
               PROVE  FALSE
    BY <1>1 DEF UncertainSpeechFailed, Tables
  <2>1. jobs[i].state = "absent"
    BY JobNames DEF IInv, Books, Booked, SpeechState
  <2> QED
    BY <1>1, <2>1
<1>3. u \in [Jobs -> Rows(Texted)]
  BY <1>1, <1>2 DEF UncertainSpeechFailed, Tables
<1> HIDE DEF u
<1>4. jobs' = ProgressRequeued(u)
  BY DEF Restart, u, m
<1> SUFFICES ASSUME NEW i \in Jobs PROVE Advanced(Audible, i, jobs[i], jobs'[i])
  BY DEF RowsMove, Moved
<1>5. \/ jobs'[i] = m[i]
      \/ /\ m[i].state = "interrupted" /\ m[i].attempts = 0
         /\ jobs'[i].state = "queued" /\ jobs'[i].attempts = 0
  BY <1>2, <1>3, <1>4 DEF ProgressRequeued, Rows
<1>6. CASE jobs'[i] = m[i]
  BY <1>1, <1>6 DEF Moved
<1>7. CASE /\ m[i].state = "interrupted" /\ m[i].attempts = 0
           /\ jobs'[i].state = "queued" /\ jobs'[i].attempts = 0
  <2>1. jobs[i].attempts = 0 /\ jobs[i].state # "running"
    BY <1>1, <1>7 DEF Tallied
  <2>2. jobs[i].state \in {"queued", "interrupted"}
    BY <1>1, <1>7, <2>1 DEF LiveStates
  <2> QED
    BY <1>7, <2>1, <2>2 DEF Advanced
<1> QED
  BY <1>5, <1>6, <1>7

(* The steps of a conversation lane, and of the speech lane. *)
LEMMA ConverseMoved ==
  ASSUME IInv, Tallied(Jobs, jobs), NEW w \in Lanes, Converse(w)
  PROVE  RowsMove
<1>0. jobs \in Tables(Jobs, Texted)
  BY Types
<1>1. CASE Take(w, "conversation")
  BY <1>0, <1>1, NextIsQueued, ClaimedMoved DEF Take, RowsMove
<1>2. CASE CommitStop(w) \/ CommitAnswer(w)
  BY <1>2, StopMoved, AnswerMoved
<1>3. CASE Replace(w)
  BY <1>0, <1>3, CancelledKeyMoved DEF Replace, InputCancelled, RowsMove
<1>4. CASE Delegate(w)
  <2>1. /\ KeyOf(w) \in Keys /\ jobs[Progress(KeyOf(w))].state = "absent"
        /\ jobs' = Inserted(jobs, Progress(KeyOf(w)), "line")
    BY <1>4, Holds DEF Delegate, At
  <2>2. Progress(KeyOf(w)) \in Jobs /\ "line" \in Texted
    BY <2>1, JobNames DEF Texted
  <2>3. jobs[Progress(KeyOf(w))].attempts = 0
    BY <2>1, <2>2 DEF Tallied
  <2> QED
    BY <1>0, <2>1, <2>2, <2>3, JobsFinite, InsertedMoved DEF RowsMove
<1>5. CASE Hush(w)
  BY <1>0, <1>5, CancelledMoved DEF Hush, ProgressCancelled, RowsMove
<1>6. CASE FailForGood(w)
  <2>1. CASE Current(w)
    <3>1. KeyOf(w) \in Keys /\ InputState(KeyOf(w)) = "running" /\ ClosedAsFailed(KeyOf(w))
      BY <1>6, <2>1, Holds, Asking DEF FailForGood, At
    <3> QED
      BY <3>1, ClosedMoved
  <2>2. CASE ~Current(w)
    BY <1>6, <2>2, StillMoved DEF FailForGood, RowsMove
  <2> QED
    BY <2>1, <2>2
<1>7. CASE Persist(w)
  <2>1. lane[w].pc # "idle" /\ KeyOf(w) \in Keys /\ lane[w].job = Input(KeyOf(w))
    BY <1>7, Holds DEF Persist, At
  <2>2. CASE jobs' = jobs
    BY <2>2, StillMoved DEF RowsMove
  <2>3. CASE Current(w) /\ jobs' = Retried(jobs, lane[w].job, MaxAttempts)
    <3>1. lane[w].job \in Jobs \ Audible /\ jobs[lane[w].job].state = "running"
      BY <2>1, <2>3, JobNames, AudibleJobs DEF Current, Owns
    <3> QED
      BY <1>0, <2>3, <3>1, RetriedMoved DEF RowsMove
  <2>4. CASE Current(w) /\ ClosedAsFailed(KeyOf(w))
    <3>1. InputState(KeyOf(w)) = "running"
      BY <2>1, <2>4, Asking
    <3> QED
      BY <2>1, <2>4, <3>1, ClosedMoved
  <2> QED
    BY <1>7, <2>2, <2>3, <2>4 DEF Persist
<1>8. CASE \/ Begin(w) \/ StopFails(w) \/ SignalPrevious(w) \/ Publish(w) \/ StartAudio(w)
           \/ Quiet(w) \/ Err(w) \/ GiveUp(w)
  <2>1. jobs' = jobs
    BY <1>8 DEF Begin, StopFails, SignalPrevious, Publish, StartAudio, Quiet, Err, GiveUp, store
  <2> QED
    BY <2>1, StillMoved DEF RowsMove
<1> QED
  BY <1>1, <1>2, <1>3, <1>4, <1>5, <1>6, <1>7, <1>8 DEF Converse

LEMMA SpeakMoved ==
  ASSUME IInv, Tallied(Jobs, jobs), Speak
  PROVE  RowsMove
<1>0. jobs \in Tables(Jobs, Texted)
  BY Types
<1>1. CASE Take(Speaker, "speech")
  BY <1>0, <1>1, NextIsQueued, ClaimedMoved DEF Take, RowsMove
<1>2. CASE jobs' = jobs
  BY <1>2, StillMoved DEF RowsMove
<1>3. ASSUME Current(Speaker), lane[Speaker].pc # "idle", NEW s \in {"completed", "interrupted"},
             jobs' = Settled(jobs, lane[Speaker].job, s)
      PROVE  RowsMove
  <2>1. lane[Speaker].job \in Jobs /\ jobs[lane[Speaker].job].state = "running"
    BY <1>3, Holds DEF Current, Owns
  <2> QED
    BY <1>0, <1>3, <2>1, SettledMoved DEF RowsMove
<1>4. CASE SkipProgress(Speaker)
  BY <1>2, <1>3, <1>4 DEF SkipProgress, Finished, At
<1>5. CASE EndSpeech(Speaker)
  BY <1>2, <1>3, <1>5 DEF EndSpeech, At
<1>6. CASE Play(Speaker) \/ Announce(Speaker)
  BY <1>2, <1>6 DEF Play, Announce, store
<1> QED
  BY <1>1, <1>4, <1>5, <1>6 DEF Speak

LEMMA NextMoved ==
  ASSUME IInv, Tallied(Jobs, jobs), [Next]_vars
  PROVE  RowsMove
<1>0. jobs \in Tables(Jobs, Texted)
  BY Types
<1>1. ASSUME NEW k \in Keys, NEW text \in Texts, Send(k, text) PROVE RowsMove
  <2>1. /\ Input(k) \in Jobs /\ text \in Texted /\ jobs[Input(k)].state = "absent"
        /\ jobs' = Inserted(jobs, Input(k), text)
    BY <1>1, JobNames DEF Send, Texted, IInv, Books, Booked, InputState
  <2>2. jobs[Input(k)].attempts = 0
    BY <2>1 DEF Tallied
  <2> QED
    BY <1>0, <2>1, <2>2, JobsFinite, InsertedMoved DEF RowsMove
<1>2. ASSUME NEW k \in Keys, CancelInput(k) PROVE RowsMove
  BY <1>0, <1>2, CancelledKeyMoved DEF CancelInput, InputCancelled, RowsMove
<1>3. ASSUME NEW k \in Keys, BackoffEnds(k) PROVE RowsMove
  BY <1>0, <1>3 DEF BackoffEnds, RowsMove, Moved, Advanced, Tables, Rows
<1>4. ASSUME jobs' = jobs PROVE RowsMove
  BY <1>4, StillMoved DEF RowsMove
<1>5. ASSUME NEW k \in Keys, Signal(k) PROVE RowsMove
  BY <1>4, <1>5 DEF Signal, store
<1>6. CASE UNCHANGED vars
  BY <1>4, <1>6 DEF vars, store
<1> QED
  BY <1>1, <1>2, <1>3, <1>5, <1>6, ConverseMoved, SpeakMoved, RestartMoved DEF Next

(* The conversation implements ConversationPromise: every request is answered, fails *)
(* or is cancelled, once, and what a reply says was stopped ends in the step of that *)
(* reply (commit_answer, cancel_input, fail_answer_terminal, run_lane, spawn). And   *)
(* all that its transactions do to the rows is what the queue promises of a job.     *)
THEOREM ConversationPromised == Spec => KeepsPromise
<1>1. Init => Promise!Init
  <2> SUFFICES ASSUME Init PROVE Promise!Init
    OBVIOUS
  <2>1. \A k \in Keys : Outcome(k) = "none"
    BY JobNames, OutcomeTold DEF Init, EmptyTable, AbsentRow, OutcomeOf, InputState
  <2>2. \A k \in Keys : {stopped[k]} \ {NoKey} = {}
    BY DEF Init
  <2> QED
    BY <2>1, <2>2 DEF Promise!Init
<1>2. IInv /\ [Next]_vars => [Promise!Next]_<<outcomes, stops>>
  BY PlainOrSpecial, PlainPromised, SendPromised, AnswerPromised, StopPromised DEF Special
<1>3. IInv /\ [Next]_vars => [Promise!Next]_Promise!vars
  BY <1>2 DEF Promise!vars, outcomes, stops
<1>4. Init => Tallied(Jobs, jobs) /\ Queue!Init
  BY DEF Init, Tallied, EmptyTable, AbsentRow, Queue!Init
<1>5. IInv /\ Tallied(Jobs, jobs) /\ [Next]_vars => Tallied(Jobs, jobs)' /\ Queue!Next
  <2> SUFFICES ASSUME IInv, Tallied(Jobs, jobs), [Next]_vars
               PROVE  Tallied(Jobs, jobs') /\ Queue!Next
    OBVIOUS
  <2>1. jobs \in Tables(Jobs, Texted) /\ Moved(Jobs, Audible, jobs, jobs')
    BY Types, NextMoved DEF RowsMove
  <2> QED
    BY <2>1, TalliedKept, RowsAdvance DEF RowsMove
<1>6. Spec => Promise!Spec
  BY <1>1, <1>3, Invariance, PTL DEF Spec, Promise!Spec
<1>7. Spec => Queue!Spec
  BY <1>4, <1>5, Invariance, PTL DEF Spec, Queue!Spec
<1> QED
  BY <1>6, <1>7 DEF KeepsPromise
=============================================================================
