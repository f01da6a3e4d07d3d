-------------------------- MODULE WorkerTaskProofs -------------------------
(***************************************************************************)
(* Proofs about WorkerTask for every set of inputs, delegations and lanes  *)
(* and every bound: types, an inductive invariant, and from it that every  *)
(* active task has a job, that a cancel reaches the worker, that verdicts  *)
(* are final, that a result is presented once, and that TaskPromise and,   *)
(* by its rows, JobPromise are implemented.                                *)
(***************************************************************************)
EXTENDS WorkerTask, JobTableProofs

Pay == {"text", "task"}
InputJobs == {Input(k) : k \in Inputs}
TaskJobs == UNION {WorkOf(t) : t \in Tasks}

Labouring(w) == work[w].pc # "idle"
Asking(c) == ask[c].pc # "idle"

-----------------------------------------------------------------------------
(* The inductive invariant. *)

(* A worker lane that is not idle holds a task's job and owns its row, unless *)
(* the row was cancelled under its hands; nobody else holds that job.         *)
WorkHeld ==
  \A w \in Workers : Labouring(w) =>
    /\ work[w].job \in TaskJobs
    /\ Works(w) \/ jobs[work[w].job].state = "cancelled"
OneLabourer ==
  \A v, w \in Workers :
    Labouring(v) /\ Labouring(w) /\ work[v].job = work[w].job => v = w

(* One worker at a time is in a task, it finishes with a verdict, and while it *)
(* climbs it is not below the rung the task has reached.                       *)
OneInTask ==
  \A v, w \in Workers : InTask(v) /\ InTask(w) /\ TaskOf(v) = TaskOf(w) => v = w
VerdictGiven == \A w \in Workers : work[w].pc = "finishing" => work[w].verdict \in Verdicts
TierAhead ==
  \A w \in Workers : work[w].pc \in {"climbing", "attempting", "judging"} =>
    tasks[TaskOf(w)].tier <= work[w].tier

(* The rows of a task: none before it is admitted; afterwards one generation is *)
(* the newest, none is newer than the restarts allow, at most one is live, and  *)
(* none is cancelled while the task is active.                                  *)
Newest(t, g) ==
  /\ jobs[Work(t, g)].state # "absent"
  /\ \A h \in Generations : h > g => jobs[Work(t, h)].state = "absent"
RowsFollow ==
  \A t \in Tasks :
    /\ tasks[t].state = "absent" => \A j \in WorkOf(t) : jobs[j].state = "absent"
    /\ tasks[t].state # "absent" => \E g \in Generations : g <= restarts /\ Newest(t, g)
    /\ \A i, j \in WorkOf(t) :
         jobs[i].state \in LiveStates /\ jobs[j].state \in LiveStates => i = j
    /\ \A j \in WorkOf(t) : jobs[j].state = "cancelled" => ~Active(t)

(* The delivery of a task fits its state and its report. *)
DeliveryFits ==
  \A t \in Tasks :
    \/ tasks[t] = NoRow /\ t \notin reports
    \/ Active(t) /\ tasks[t].delivery \in {"sync_waiting", "async_queued"} /\ t \notin reports
    \/ tasks[t].state = "cancelled" /\ tasks[t].delivery = "suppressed" /\ t \notin reports
    \/ /\ tasks[t].state \in {"succeeded", "failed"}
       /\ \/ tasks[t].delivery \in {"sync_waiting", "sync_delivered"} /\ t \notin reports
          \/ tasks[t].delivery = "async_delivered" /\ t \in reports
RestartsBounded == \A t \in Tasks : tasks[t].restarts <= MaxTaskRestarts

(* A conversation lane that is not idle holds an input, alone, and owns its row *)
(* unless it was cancelled; what it waits for or was handed is of that input.   *)
AskHeld ==
  \A c \in Lanes : Asking(c) =>
    /\ ask[c].job \in InputJobs
    /\ Asks(c) \/ jobs[ask[c].job].state = "cancelled"
OneAsker ==
  \A c, d \in Lanes :
    Asking(c) /\ Asking(d) /\ ask[c].job = ask[d].job => c = d
AskedFor ==
  \A c \in Lanes :
    /\ ask[c].pc = "waiting" =>
         ask[c].task \in Tasks /\ ask[c].job = Input(OriginOf[ask[c].task])
    /\ \A t \in ask[c].got : /\ Asking(c) /\ ask[c].job = Input(OriginOf[t])
                             /\ tasks[t].delivery = "sync_delivered"

(* A presented result was handed out, and its input is answered for good. *)
Presented ==
  \A t \in Tasks :
    /\ presented[t] <= 1
    /\ presented[t] = 1 => /\ tasks[t].delivery = "sync_delivered"
                           /\ jobs[Input(OriginOf[t])].state = "completed"

Staffed == WorkHeld /\ OneLabourer /\ OneInTask /\ VerdictGiven
Guided == TierAhead /\ CancelStopsWork
Supplied == RowsFollow /\ ActiveHasJob
Accounted == DeliveryFits /\ RestartsBounded
Asked == AskHeld /\ OneAsker /\ AskedFor

IInv == TypeOK /\ Staffed /\ Guided /\ Supplied /\ Accounted /\ Asked /\ Presented

-----------------------------------------------------------------------------
(* Job identities. *)

(* The rows of inputs and of tasks are apart, and a row of a task names it. *)
LEMMA JobNames ==
  /\ Jobs = InputJobs \cup TaskJobs
  /\ InputJobs \cap TaskJobs = {}
  /\ \A k \in Inputs : Input(k) \in InputJobs
  /\ \A t \in Tasks, g \in Generations : Work(t, g) \in WorkOf(t)
  /\ \A t \in Tasks : WorkOf(t) \subseteq TaskJobs
  /\ \A t \in Tasks : \A j \in WorkOf(t) : j.key = t /\ j.generation \in Generations
  /\ \A j \in TaskJobs : /\ j.key \in Tasks /\ j \in WorkOf(j.key)
                         /\ j.kind = "worker" /\ j.generation \in Generations
                         /\ j = Work(j.key, j.generation)
  /\ \A j \in InputJobs : j.key \in Inputs /\ j = Input(j.key) /\ j.kind = "user_input"
  /\ NoJob \notin Jobs
  /\ 0 \in Generations
<1>1. 0 \in Generations
  BY WorkerAssumption DEF Generations
<1> QED
  BY <1>1, WorkerAssumption DEF Jobs, InputJobs, TaskJobs, Input, Work, WorkOf

(* A model has finitely many job identities. *)
LEMMA JobsFinite == IsFiniteSet(Jobs)
<1>1. IsFiniteSet(InputJobs)
  <2> DEFINE f == [k \in Inputs |-> Input(k)]
  <2>1. f \in Surjection(Inputs, InputJobs)
    BY DEF Surjection, InputJobs
  <2> QED
    BY <2>1, FS_Surjection, WorkerAssumption
<1>2. IsFiniteSet(TaskJobs)
  <2> DEFINE S == Tasks \X Generations
             f == [p \in S |-> Work(p[1], p[2])]
  <2>1. IsFiniteSet(Generations)
    BY FS_Interval, WorkerAssumption DEF Generations
  <2>2. IsFiniteSet(S)
    BY <2>1, FS_Product, WorkerAssumption
  <2>3. f \in Surjection(S, TaskJobs)
    <3>1. f \in [S -> TaskJobs]
      BY DEF TaskJobs, WorkOf
    <3>2. \A j \in TaskJobs : \E p \in S : f[p] = j
      <4> SUFFICES ASSUME NEW j \in TaskJobs PROVE \E p \in S : f[p] = j
        OBVIOUS
      <4>1. PICK t \in Tasks, g \in Generations : j = Work(t, g)
        BY DEF TaskJobs, WorkOf
      <4>2. <<t, g>> \in S /\ f[<<t, g>>] = j
        BY <4>1
      <4> QED
        BY <4>2
    <3> QED
      BY <3>1, <3>2 DEF Surjection
  <2> QED
    BY <2>2, <2>3, FS_Surjection
<1> QED
  BY <1>1, <1>2, JobNames, FS_Union

-----------------------------------------------------------------------------
(* What a step leaves alone, and which parts of the invariant rest on it. *)

LEMMA TableType == TypeOK => jobs \in Tables(Jobs, Pay)
  BY DEF TypeOK, Tables, Pay

(* A busy worker's job is a row of its task. *)
LEMMA Hands ==
  ASSUME IInv, NEW w \in Workers, Labouring(w)
  PROVE  /\ work[w].job \in TaskJobs /\ work[w].job \in Jobs
         /\ TaskOf(w) \in Tasks /\ work[w].job \in WorkOf(TaskOf(w))
  BY JobNames DEF IInv, Staffed, WorkHeld, TaskOf

(* A lane's input is one of the inputs. *)
LEMMA Voices ==
  ASSUME IInv, NEW c \in Lanes, Asking(c)
  PROVE  /\ ask[c].job \in InputJobs /\ ask[c].job \in Jobs
         /\ ask[c].job.key \in Inputs /\ ask[c].job = Input(ask[c].job.key)
  BY JobNames DEF IInv, Asked, AskHeld

SameRow(j) == jobs'[j].state = jobs[j].state /\ jobs'[j].owner = jobs[j].owner
Cancels(j) == jobs[j].state \in LiveStates /\ jobs'[j].state = "cancelled"
Inserts(j) == jobs[j].state = "absent" /\ jobs'[j].state = "queued"

(* A worker that at most is told to stop. *)
Rests(w) ==
  /\ work'[w].pc = work[w].pc /\ work'[w].job = work[w].job /\ work'[w].token = work[w].token
  /\ work'[w].tier = work[w].tier /\ work'[w].verdict = work[w].verdict
  /\ work[w].stop => work'[w].stop

LEMMA LabourRests ==
  ASSUME IInv, \A w \in Workers : Rests(w),
         \A j \in TaskJobs : SameRow(j) \/ Cancels(j) \/ Inserts(j)
  PROVE  Staffed'
<1>1. \A w \in Workers : /\ Labouring(w)' = Labouring(w) /\ InTask(w)' = InTask(w)
                         /\ TaskOf(w)' = TaskOf(w)
  BY DEF Rests, Labouring, InTask, TaskOf
<1>2. WorkHeld'
  BY <1>1, Hands DEF IInv, Staffed, WorkHeld, Rests, SameRow, Cancels, Inserts, Works, Owns, LiveStates
<1>3. OneLabourer' /\ OneInTask' /\ VerdictGiven'
  BY <1>1 DEF IInv, Staffed, OneLabourer, OneInTask, VerdictGiven, Rests
<1> QED
  BY <1>2, <1>3 DEF Staffed

LEMMA AskedRests ==
  ASSUME IInv,
         \A c \in Lanes : /\ ask'[c].pc = ask[c].pc /\ ask'[c].job = ask[c].job
                          /\ ask'[c].token = ask[c].token /\ ask'[c].task = ask[c].task
                          /\ ask'[c].got = ask[c].got,
         \A j \in InputJobs : SameRow(j) \/ Cancels(j) \/ Inserts(j),
         \A t \in Tasks : tasks[t].delivery = "sync_delivered"
                            => tasks'[t].delivery = "sync_delivered"
  PROVE  Asked'
<1>1. \A c \in Lanes : Asking(c)' = Asking(c) /\ ask[c].got \subseteq Tasks
  BY DEF Asking, IInv, TypeOK
<1>2. AskHeld'
  BY <1>1 DEF IInv, Asked, AskHeld, SameRow, Cancels, Inserts, Asks, Owns, LiveStates
<1>3. OneAsker'
  BY <1>1 DEF IInv, Asked, OneAsker
<1>4. AskedFor'
  BY <1>1 DEF IInv, Asked, AskedFor
<1> QED
  BY <1>2, <1>3, <1>4 DEF Asked

(* No task is worse off, and its rows are as they were. *)
LEMMA SuppliedRests ==
  ASSUME IInv, restarts' = restarts,
         \A w \in Workers : Labouring(w) =>
           work'[w].pc # "idle" /\ work'[w].job = work[w].job /\ work'[w].token = work[w].token,
         \A j \in TaskJobs : SameRow(j),
         \A t \in Tasks : /\ Active(t)' => Active(t)
                          /\ (tasks'[t].state = "absent") = (tasks[t].state = "absent")
  PROVE  Supplied'
<1>1. RowsFollow'
  <2> SUFFICES ASSUME NEW t \in Tasks
               PROVE  /\ tasks'[t].state = "absent" => \A j \in WorkOf(t) : jobs'[j].state = "absent"
                      /\ tasks'[t].state # "absent" => \E g \in Generations : g <= restarts /\ Newest(t, g)'
                      /\ \A i, j \in WorkOf(t) :
                           jobs'[i].state \in LiveStates /\ jobs'[j].state \in LiveStates => i = j
                      /\ \A j \in WorkOf(t) : jobs'[j].state = "cancelled" => ~Active(t)'
    BY DEF RowsFollow
  <2>1. \A j \in WorkOf(t) : jobs'[j].state = jobs[j].state
    BY JobNames DEF SameRow
  <2>2. \A g \in Generations : Newest(t, g)' = Newest(t, g)
    BY <2>1, JobNames DEF Newest
  <2> QED
    BY <2>1, <2>2 DEF IInv, Supplied, RowsFollow
<1>2. ActiveHasJob'
  <2> SUFFICES ASSUME NEW t \in Tasks, Active(t)
               PROVE  \E j \in WorkOf(t) :
                        \/ jobs'[j].state = "queued"
                        \/ \E w \in Workers : work'[w].job = j /\ work'[w].pc # "idle" /\ Works(w)'
    BY DEF ActiveHasJob
  <2>1. PICK j \in WorkOf(t) :
          \/ jobs[j].state = "queued"
          \/ \E w \in Workers : work[w].job = j /\ work[w].pc # "idle" /\ Works(w)
    BY DEF IInv, Supplied, ActiveHasJob
  <2>2. SameRow(j)
    BY JobNames
  <2> QED
    BY <2>1, <2>2 DEF SameRow, Labouring, Works, Owns
<1> QED
  BY <1>1, <1>2 DEF Supplied

LEMMA GuidedRests ==
  ASSUME IInv, \A w \in Workers : Rests(w),
         \A t \in Tasks : /\ tasks'[t].tier = tasks[t].tier
                          /\ tasks'[t].state = "cancelled" => tasks[t].state = "cancelled"
  PROVE  Guided'
<1>1. \A w \in Workers : InTask(w)' = InTask(w) /\ TaskOf(w)' = TaskOf(w)
  BY DEF Rests, InTask, TaskOf
<1>2. \A w \in Workers : InTask(w) => TaskOf(w) \in Tasks
  BY Hands DEF InTask, Labouring
<1>3. TierAhead'
  BY <1>1, <1>2 DEF IInv, Guided, TierAhead, Rests, InTask
<1>4. CancelStopsWork'
  BY <1>1, <1>2 DEF IInv, Guided, CancelStopsWork, Rests
<1> QED
  BY <1>3, <1>4 DEF Guided

LEMMA PresentedRests ==
  ASSUME IInv, presented' = presented,
         \A t \in Tasks : tasks[t].delivery = "sync_delivered"
                            => tasks'[t].delivery = "sync_delivered",
         \A j \in InputJobs : jobs[j].state = "completed" => jobs'[j].state = "completed"
  PROVE  Presented'
<1>1. \A t \in Tasks : Input(OriginOf[t]) \in InputJobs
  BY JobNames, WorkerAssumption
<1> QED
  BY <1>1 DEF IInv, Presented

(* A lane goes on with its input. *)
LEMMA AskMoves ==
  ASSUME IInv, NEW c \in Lanes, Asking(c), NEW r, ask' = [ask EXCEPT ![c] = r],
         r.pc # "idle", r.job = ask[c].job, r.token = ask[c].token,
         r.pc = "waiting" => r.task \in Tasks /\ r.job = Input(OriginOf[r.task]),
         \A t \in r.got : /\ t \in Tasks /\ r.job = Input(OriginOf[t])
                          /\ tasks'[t].delivery = "sync_delivered",
         \A j \in InputJobs : SameRow(j),
         \A t \in Tasks : tasks[t].delivery = "sync_delivered"
                            => tasks'[t].delivery = "sync_delivered"
  PROVE  Asked'
<1>1. /\ ask'[c] = r
      /\ \A d \in Lanes \ {c} : ask'[d] = ask[d]
      /\ \A d \in Lanes : ask[d].got \subseteq Tasks
  BY DEF IInv, TypeOK
<1>2. \A d \in Lanes : Asking(d)' = Asking(d) /\ ask'[d].job = ask[d].job
                       /\ ask'[d].token = ask[d].token
  BY <1>1 DEF Asking
<1>3. AskHeld'
  BY <1>2 DEF IInv, Asked, AskHeld, SameRow, Asks, Owns
<1>4. OneAsker'
  BY <1>2 DEF IInv, Asked, OneAsker
<1>5. AskedFor'
  <2> SUFFICES ASSUME NEW d \in Lanes
               PROVE  /\ ask'[d].pc = "waiting" =>
                           ask'[d].task \in Tasks /\ ask'[d].job = Input(OriginOf[ask'[d].task])
                      /\ \A t \in ask'[d].got : /\ Asking(d)' /\ ask'[d].job = Input(OriginOf[t])
                                                /\ tasks'[t].delivery = "sync_delivered"
    BY DEF AskedFor
  <2>1. CASE d = c
    BY <1>1, <1>2, <2>1
  <2>2. CASE d # c
    BY <1>1, <1>2, <2>2 DEF IInv, Asked, AskedFor
  <2> QED
    BY <2>1, <2>2
<1> QED
  BY <1>3, <1>4, <1>5 DEF Asked

(* A lane lets go of its input. *)
LEMMA AskEnds ==
  ASSUME IInv, NEW c \in Lanes, Asking(c), EndAsk(c), UNCHANGED tasks,
         \A j \in InputJobs \ {ask[c].job} : jobs'[j] = jobs[j]
  PROVE  Asked'
<1>1. /\ ask'[c] = IdleAsker
      /\ \A d \in Lanes \ {c} : ask'[d] = ask[d]
      /\ \A d \in Lanes : ask[d].got \subseteq Tasks
  BY DEF IInv, TypeOK, EndAsk
<1>2. ~Asking(c)' /\ ask'[c].got = {} /\ ask'[c].pc # "waiting"
  BY <1>1 DEF Asking, IdleAsker
<1>3. \A d \in Lanes \ {c} : Asking(d) => ask[d].job \in InputJobs \ {ask[c].job}
  BY DEF IInv, Asked, AskHeld, OneAsker
<1>4. AskHeld'
  BY <1>1, <1>2, <1>3 DEF IInv, Asked, AskHeld, Asking, Asks, Owns
<1>5. OneAsker'
  BY <1>1, <1>2 DEF IInv, Asked, OneAsker, Asking
<1>6. AskedFor'
  BY <1>1, <1>2 DEF IInv, Asked, AskedFor, Asking
<1> QED
  BY <1>4, <1>5, <1>6 DEF Asked

(* A worker goes on with its task. *)
LEMMA LabourMoves ==
  ASSUME IInv, NEW w \in Workers, Labouring(w), NEW r, work' = [work EXCEPT ![w] = r],
         r.pc # "idle", r.job = work[w].job, r.token = work[w].token,
         InTask(w)' => \A v \in Workers \ {w} : ~(InTask(v) /\ TaskOf(v) = TaskOf(w)),
         r.pc = "finishing" => r.verdict \in Verdicts,
         UNCHANGED jobs
  PROVE  Staffed'
<1>1. /\ work'[w] = r
      /\ \A v \in Workers \ {w} : work'[v] = work[v]
  BY DEF IInv, TypeOK
<1>2. \A v \in Workers : /\ Labouring(v)' = Labouring(v) /\ work'[v].job = work[v].job
                         /\ work'[v].token = work[v].token /\ TaskOf(v)' = TaskOf(v)
  BY <1>1 DEF Labouring, TaskOf
<1>3. \A v \in Workers \ {w} : InTask(v)' = InTask(v)
  BY <1>1 DEF InTask
<1>4. WorkHeld'
  BY <1>2 DEF IInv, Staffed, WorkHeld, Works, Owns
<1>5. OneLabourer' /\ VerdictGiven'
  BY <1>1, <1>2 DEF IInv, Staffed, OneLabourer, VerdictGiven
<1>6. OneInTask'
  BY <1>2, <1>3 DEF IInv, Staffed, OneInTask
<1> QED
  BY <1>4, <1>5, <1>6 DEF Staffed

(* A worker lets go of its task. *)
LEMMA LabourEnds ==
  ASSUME IInv, NEW w \in Workers, Labouring(w), EndWork(w),
         \A j \in TaskJobs \ {work[w].job} : jobs'[j] = jobs[j]
  PROVE  Staffed'
<1>1. /\ work'[w] = IdleWorker
      /\ \A v \in Workers \ {w} : work'[v] = work[v]
  BY DEF IInv, TypeOK, EndWork
<1>2. ~Labouring(w)' /\ ~InTask(w)' /\ work'[w].pc # "finishing"
  BY <1>1 DEF Labouring, InTask, IdleWorker
<1>3. \A v \in Workers \ {w} : Labouring(v) => work[v].job \in TaskJobs \ {work[w].job}
  BY DEF IInv, Staffed, WorkHeld, OneLabourer
<1>4. WorkHeld'
  BY <1>1, <1>2, <1>3 DEF IInv, Staffed, WorkHeld, Labouring, Works, Owns
<1>5. OneLabourer' /\ OneInTask' /\ VerdictGiven'
  BY <1>1, <1>2 DEF IInv, Staffed, OneLabourer, OneInTask, VerdictGiven, Labouring, InTask, TaskOf
<1> QED
  BY <1>4, <1>5 DEF Staffed

-----------------------------------------------------------------------------
(* Types. *)

RowTypes ==
  [state : ActiveStates \cup Verdicts \cup {"absent"}, delivery : Deliveries,
   tier : 0 .. TopTier, restarts : Nat]
AskTypes ==
  [pc : {"idle", "claimed", "talking", "waiting", "failing"}, job : Jobs \cup {NoJob},
   token : Nat, stop : BOOLEAN, task : Tasks \cup {NoTask}, got : SUBSET Tasks]
WorkTypes ==
  [pc : {"idle", "claimed", "entered", "climbing", "attempting", "judging", "finishing",
         "failing"},
   job : Jobs \cup {NoJob}, token : Nat, stop : BOOLEAN, tier : Nat, tries : Nat,
   verdict : Verdicts \cup {"none"}]

LEMMA Types ==
  TypeOK <=> /\ jobs \in Tables(Jobs, Pay)
             /\ tasks \in [Tasks -> RowTypes]
             /\ reports \subseteq Tasks
             /\ ask \in [Lanes -> AskTypes]
             /\ work \in [Workers -> WorkTypes]
             /\ unsignalled \subseteq Inputs /\ withdrawn \subseteq Inputs
             /\ presented \in [Tasks -> Nat]
             /\ restarts \in 0 .. MaxRestarts
  BY DEF TypeOK, Tables, Pay, RowTypes, AskTypes, WorkTypes

LEMMA TypesNext ==
  TypeOK' <=> /\ jobs' \in Tables(Jobs, Pay)
              /\ tasks' \in [Tasks -> RowTypes]
              /\ reports' \subseteq Tasks
              /\ ask' \in [Lanes -> AskTypes]
              /\ work' \in [Workers -> WorkTypes]
              /\ unsignalled' \subseteq Inputs /\ withdrawn' \subseteq Inputs
              /\ presented' \in [Tasks -> Nat]
              /\ restarts' \in 0 .. MaxRestarts
  BY DEF TypeOK, Tables, Pay, RowTypes, AskTypes, WorkTypes

LEMMA IdleTypes == IdleAsker \in AskTypes /\ IdleWorker \in WorkTypes /\ NoRow \in RowTypes
  BY WorkerAssumption DEF IdleAsker, IdleWorker, NoRow, AskTypes, WorkTypes, RowTypes, Deliveries

(* Settling, delivering and cancelling keep the rows of tasks well typed. *)
LEMMA FinalizedType ==
  ASSUME NEW rows \in [Tasks -> RowTypes], NEW t \in Tasks, NEW v \in Verdicts
  PROVE  Finalized(rows, t, v) \in [Tasks -> RowTypes]
  BY DEF Finalized, RowTypes, Verdicts, ActiveStates, Deliveries

LEMMA DeliveredType ==
  ASSUME NEW rows \in [Tasks -> RowTypes], NEW t \in Tasks
  PROVE  Delivered(rows, t) \in [Tasks -> RowTypes]
  BY DEF Delivered, RowTypes, Deliveries

LEMMA TasksCancelledType ==
  ASSUME NEW rows \in [Tasks -> RowTypes], NEW ts
  PROVE  TasksCancelled(rows, ts) \in [Tasks -> RowTypes]
  BY DEF TasksCancelled, RowTypes, Verdicts, ActiveStates, Deliveries

LEMMA FiredType ==
  ASSUME work \in [Workers -> WorkTypes], NEW ts
  PROVE  FiredTasks(ts) \in [Workers -> WorkTypes]
  BY DEF FiredTasks, WorkTypes

-----------------------------------------------------------------------------
(* The user's steps keep the invariant. *)

LEMMA SendStep ==
  ASSUME IInv, NEW k \in Inputs, Send(k)
  PROVE  IInv'
<1>1. Input(k) \in InputJobs /\ Input(k) \in Jobs /\ Input(k) \notin TaskJobs
  BY JobNames
<1>2. /\ jobs' \in Tables(Jobs, Pay)
      /\ jobs[Input(k)].state = "absent" /\ jobs'[Input(k)].state = "queued"
      /\ \A i \in Jobs \ {Input(k)} : jobs'[i] = jobs[i]
  BY <1>1, InsertedRow, JobsFinite, TableType DEF Send, IInv, Pay
<1>3. \A j \in InputJobs : SameRow(j) \/ Inserts(j)
  BY <1>2, JobNames DEF SameRow, Inserts
<1>4. \A j \in TaskJobs : SameRow(j)
  BY <1>1, <1>2, JobNames DEF SameRow
<1>5. /\ tasks' = tasks /\ reports' = reports /\ ask' = ask /\ work' = work
      /\ presented' = presented /\ restarts' = restarts
  BY DEF Send, history
<1>6. \A w \in Workers : Rests(w)
  BY <1>5 DEF Rests
<1>7. TypeOK'
  BY <1>2, Types, TypesNext DEF IInv, Send, history
<1>8. Staffed' /\ Guided' /\ Supplied' /\ Asked'
  BY <1>3, <1>4, <1>5, <1>6, LabourRests, GuidedRests, SuppliedRests, AskedRests DEF Labouring, Active
<1>9. Accounted' /\ Presented'
  BY <1>1, <1>3, <1>5, PresentedRests
     DEF IInv, Accounted, DeliveryFits, RestartsBounded, Active, SameRow, Inserts
<1> QED
  BY <1>7, <1>8, <1>9 DEF IInv

LEMMA SignalStep ==
  ASSUME IInv, NEW k \in Inputs, Signal(k)
  PROVE  IInv'
<1>1. /\ jobs' = jobs /\ tasks' = tasks /\ reports' = reports /\ work' = work
      /\ presented' = presented /\ restarts' = restarts
  BY DEF Signal, history, store
<1>2. \A c \in Lanes : ask'[c] = ask[c] \/ ask'[c] = [ask[c] EXCEPT !.stop = TRUE]
  BY DEF Signal
<1>3. \A c \in Lanes : /\ ask'[c].pc = ask[c].pc /\ ask'[c].job = ask[c].job
                       /\ ask'[c].token = ask[c].token /\ ask'[c].task = ask[c].task
                       /\ ask'[c].got = ask[c].got /\ ask'[c] \in AskTypes
  <2> SUFFICES ASSUME NEW c \in Lanes
               PROVE  /\ ask'[c].pc = ask[c].pc /\ ask'[c].job = ask[c].job
                      /\ ask'[c].token = ask[c].token /\ ask'[c].task = ask[c].task
                      /\ ask'[c].got = ask[c].got /\ ask'[c] \in AskTypes
    OBVIOUS
  <2>1. ask[c] \in AskTypes
    BY Types DEF IInv
  <2>2. CASE ask'[c] = ask[c]
    BY <2>1, <2>2
  <2>3. CASE ask'[c] = [ask[c] EXCEPT !.stop = TRUE]
    <3>1. TRUE \in BOOLEAN
      OBVIOUS
    <3> QED
      BY <2>1, <2>3, <3>1 DEF AskTypes
  <2> QED
    BY <1>2, <2>2, <2>3
<1>4. TypeOK'
  <2>1. ask' \in [Lanes -> AskTypes]
    BY <1>3 DEF Signal
  <2> QED
    BY <1>1, <2>1, Types, TypesNext DEF IInv, Signal, history
<1>5. (\A w \in Workers : Rests(w)) /\ \A j \in Jobs : SameRow(j)
  BY <1>1 DEF Rests, SameRow
<1>6. Staffed' /\ Guided' /\ Supplied' /\ Asked'
  BY <1>1, <1>3, <1>5, JobNames, LabourRests, GuidedRests, SuppliedRests, AskedRests DEF Labouring, Active
<1>7. Accounted' /\ Presented'
  BY <1>1, PresentedRests DEF IInv, Accounted, DeliveryFits, RestartsBounded, Active
<1> QED
  BY <1>4, <1>6, <1>7 DEF IInv

LEMMA BackoffStep ==
  ASSUME IInv, NEW j \in Jobs, BackoffEnds(j)
  PROVE  IInv'
<1>1. /\ tasks' = tasks /\ reports' = reports /\ work' = work /\ ask' = ask
      /\ presented' = presented /\ restarts' = restarts
  BY DEF BackoffEnds, history
<1>2. jobs' \in Tables(Jobs, Pay) /\ \A i \in Jobs : SameRow(i)
  BY TableType DEF IInv, BackoffEnds, Tables, Rows, SameRow
<1>3. TypeOK'
  BY <1>2, Types, TypesNext DEF IInv, BackoffEnds, history
<1>4. \A w \in Workers : Rests(w)
  BY <1>1 DEF Rests
<1>5. Staffed' /\ Guided' /\ Supplied' /\ Asked'
  BY <1>1, <1>2, <1>4, JobNames, LabourRests, GuidedRests, SuppliedRests, AskedRests DEF Labouring, Active
<1>6. Accounted' /\ Presented'
  BY <1>1, <1>2, JobNames, PresentedRests DEF IInv, Accounted, DeliveryFits, RestartsBounded, Active, SameRow
<1> QED
  BY <1>3, <1>5, <1>6 DEF IInv

(* A cancel of some tasks with their rows, and of input rows. *)
LEMMA CancelStep ==
  ASSUME IInv, NEW ts \in SUBSET Tasks,
         jobs' \in Tables(Jobs, Pay),
         \A j \in InputJobs : SameRow(j) \/ Cancels(j),
         \A j \in TaskJobs : IF /\ Active(j.key) /\ j.key \in ts
                                /\ jobs[j].state \in LiveStates
                             THEN jobs'[j].state = "cancelled" ELSE jobs'[j] = jobs[j],
         tasks' = TasksCancelled(tasks, ts),
         work' = FiredTasks({t \in ts : Active(t)}),
         unsignalled' \subseteq Inputs, withdrawn' \subseteq Inputs,
         UNCHANGED <<reports, ask, presented, restarts>>
  PROVE  IInv'
<1>1. TypeOK'
  BY Types, TypesNext, TasksCancelledType, FiredType DEF IInv
<1>2. \A w \in Workers : work'[w] = work[w] \/ work'[w] = [work[w] EXCEPT !.stop = TRUE]
  BY DEF FiredTasks
<1>3. \A w \in Workers : Rests(w)
  <2> SUFFICES ASSUME NEW w \in Workers PROVE Rests(w)
    OBVIOUS
  <2>1. work[w] \in WorkTypes
    BY Types DEF IInv
  <2> QED
    BY <1>2, <2>1 DEF Rests, WorkTypes
<1>4. \A j \in TaskJobs : SameRow(j) \/ Cancels(j)
  BY DEF SameRow, Cancels
<1>5. \A t \in Tasks : IF t \in ts /\ Active(t)
                       THEN tasks'[t] = [tasks[t] EXCEPT !.state = "cancelled",
                                                         !.delivery = "suppressed"]
                       ELSE tasks'[t] = tasks[t]
  BY DEF TasksCancelled, Active
<1>6. \A t \in Tasks : IF t \in ts /\ Active(t)
                       THEN /\ tasks'[t].state = "cancelled" /\ tasks'[t].delivery = "suppressed"
                            /\ tasks'[t].tier = tasks[t].tier
                            /\ tasks'[t].restarts = tasks[t].restarts
                       ELSE tasks'[t] = tasks[t]
  BY <1>5, Types DEF IInv, RowTypes
<1>7. \A t \in Tasks : tasks[t].delivery = "sync_delivered" => ~Active(t)
  BY DEF IInv, Accounted, DeliveryFits, Active, ActiveStates, NoRow
<1>8. Staffed'
  BY <1>3, <1>4, LabourRests
<1>9. Guided'
  <2>1. \A w \in Workers : InTask(w)' = InTask(w) /\ TaskOf(w)' = TaskOf(w)
    BY <1>3 DEF Rests, InTask, TaskOf
  <2>2. \A w \in Workers : InTask(w) => TaskOf(w) \in Tasks
    BY Hands DEF InTask, Labouring
  <2>3. TierAhead'
    BY <1>3, <1>6, <2>1, <2>2 DEF IInv, Guided, TierAhead, Rests, InTask
  <2>4. CancelStopsWork'
    <3> SUFFICES ASSUME NEW w \in Workers, InTask(w), tasks'[TaskOf(w)].state = "cancelled"
                 PROVE  work'[w].stop \/ work'[w].pc = "entered"
      BY <2>1 DEF CancelStopsWork
    <3>1. CASE TaskOf(w) \in ts /\ Active(TaskOf(w))
      BY <2>2, <3>1, Types DEF FiredTasks, IInv, WorkTypes
    <3>2. CASE ~(TaskOf(w) \in ts /\ Active(TaskOf(w)))
      BY <1>3, <1>6, <2>2, <3>2 DEF IInv, Guided, CancelStopsWork, Rests
    <3> QED
      BY <3>1, <3>2
  <2> QED
    BY <2>3, <2>4 DEF Guided
<1>10. Supplied'
  <2>1. \A t \in Tasks : /\ Active(t)' = (Active(t) /\ t \notin ts)
                         /\ (tasks'[t].state = "absent") = (tasks[t].state = "absent")
    BY <1>6 DEF Active, ActiveStates
  <2>2. \A t \in Tasks : \A j \in WorkOf(t) :
          /\ (jobs'[j].state = "absent") = (jobs[j].state = "absent")
          /\ jobs'[j].state \in LiveStates => jobs[j].state \in LiveStates
          /\ Active(t)' => jobs'[j] = jobs[j]
          /\ jobs'[j].state = "cancelled" => jobs[j].state = "cancelled" \/ ~Active(t)'
    <3> SUFFICES ASSUME NEW t \in Tasks, NEW j \in WorkOf(t)
                 PROVE  /\ (jobs'[j].state = "absent") = (jobs[j].state = "absent")
                        /\ jobs'[j].state \in LiveStates => jobs[j].state \in LiveStates
                        /\ Active(t)' => jobs'[j] = jobs[j]
                        /\ jobs'[j].state = "cancelled" => jobs[j].state = "cancelled" \/ ~Active(t)'
      OBVIOUS
    <3>1. j \in TaskJobs /\ j.key = t
      BY JobNames
    <3>2. CASE Active(t) /\ t \in ts /\ jobs[j].state \in LiveStates
      BY <2>1, <3>1, <3>2 DEF LiveStates
    <3>3. CASE ~(Active(t) /\ t \in ts /\ jobs[j].state \in LiveStates)
      <4>1. jobs'[j] = jobs[j]
        BY <3>1, <3>3
      <4> QED
        BY <2>1, <4>1, <3>3, <3>1 DEF IInv, Supplied, RowsFollow
    <3> QED
      BY <3>2, <3>3
  <2>3. \A t \in Tasks, g \in Generations : Newest(t, g)' = Newest(t, g)
    BY <2>2, JobNames DEF Newest
  <2>4. RowsFollow'
    BY <2>1, <2>2, <2>3 DEF IInv, Supplied, RowsFollow
  <2>5. ActiveHasJob'
    <3> SUFFICES ASSUME NEW t \in Tasks, Active(t)'
                 PROVE  \E j \in WorkOf(t) :
                          \/ jobs'[j].state = "queued"
                          \/ \E w \in Workers : work'[w].job = j /\ work'[w].pc # "idle" /\ Works(w)'
      BY DEF ActiveHasJob
    <3>1. PICK j \in WorkOf(t) :
            \/ jobs[j].state = "queued"
            \/ \E w \in Workers : work[w].job = j /\ work[w].pc # "idle" /\ Works(w)
      BY <2>1 DEF IInv, Supplied, ActiveHasJob
    <3>2. jobs'[j] = jobs[j]
      BY <2>2
    <3> QED
      BY <1>3, <3>1, <3>2 DEF Rests, Works, Owns
  <2> QED
    BY <2>4, <2>5 DEF Supplied
<1>11. Accounted'
  BY <1>6 DEF IInv, Accounted, DeliveryFits, RestartsBounded, Active, ActiveStates
<1>12. Asked'
  BY <1>6, <1>7, AskedRests
<1>13. Presented'
  BY <1>6, <1>7, PresentedRests DEF SameRow, Cancels, LiveStates
<1> QED
  BY <1>1, <1>8, <1>9, <1>10, <1>11, <1>12, <1>13 DEF IInv

LEMMA CancelInputStep ==
  ASSUME IInv, NEW k \in Inputs, CancelInput(k)
  PROVE  IInv'
<1> DEFINE ts == TasksFrom(k)
           kept == CancelledKey(jobs, k)
           C == UNION {WorkOf(t) : t \in {u \in ts : Active(u)}}
<1>1. ts \in SUBSET Tasks
  BY DEF TasksFrom
<1>2. jobs \in Tables(Jobs, Pay)
  BY TableType DEF IInv
<1>3. /\ kept \in Tables(Jobs, Pay)
      /\ \A i \in Jobs : IF i.key = k /\ jobs[i].state \in LiveStates
                         THEN kept[i].state = "cancelled" ELSE kept[i] = jobs[i]
  BY <1>2, CancelledKeyRows
<1>4. jobs' = CancelledWhere(kept, C)
  BY DEF CancelInput, JobsCancelled
<1>5. /\ jobs' \in Tables(Jobs, Pay)
      /\ \A i \in Jobs : IF i \in C /\ kept[i].state \in LiveStates
                         THEN jobs'[i].state = "cancelled" ELSE jobs'[i] = kept[i]
  BY <1>3, <1>4, CancelledRows
<1>6. \A j \in TaskJobs : (j \in C) = (j.key \in ts /\ Active(j.key))
  BY <1>1, JobNames
<1>7. \A j \in TaskJobs : kept[j] = jobs[j]
  BY <1>3, JobNames, WorkerAssumption
<1>8. \A j \in InputJobs : j \notin C
  BY <1>1, JobNames
<1>9. \A j \in InputJobs : SameRow(j) \/ Cancels(j)
  BY <1>3, <1>5, <1>8, JobNames DEF SameRow, Cancels
<1>10. \A j \in TaskJobs : IF Active(j.key) /\ j.key \in ts /\ jobs[j].state \in LiveStates
                           THEN jobs'[j].state = "cancelled" ELSE jobs'[j] = jobs[j]
  BY <1>5, <1>6, <1>7, JobNames
<1>11. /\ tasks' = TasksCancelled(tasks, ts) /\ work' = FiredTasks({t \in ts : Active(t)})
       /\ UNCHANGED <<reports, ask, presented, restarts>>
  BY DEF CancelInput
<1>12. unsignalled' \subseteq Inputs /\ withdrawn' \subseteq Inputs
  BY DEF CancelInput, IInv, TypeOK
<1> HIDE DEF ts
<1> QED
  BY <1>1, <1>5, <1>9, <1>10, <1>11, <1>12, CancelStep

LEMMA CancelTaskStep ==
  ASSUME IInv, NEW t \in Tasks, CancelTask(t)
  PROVE  IInv'
<1> DEFINE ts == {t}
           C == UNION {WorkOf(u) : u \in {v \in ts : Active(v)}}
<1>1. jobs' = CancelledWhere(jobs, C) /\ jobs \in Tables(Jobs, Pay)
  BY TableType DEF CancelTask, JobsCancelled, IInv
<1>2. /\ jobs' \in Tables(Jobs, Pay)
      /\ \A i \in Jobs : IF i \in C /\ jobs[i].state \in LiveStates
                         THEN jobs'[i].state = "cancelled" ELSE jobs'[i] = jobs[i]
  BY <1>1, CancelledRows
<1>3. \A j \in TaskJobs : (j \in C) = (j.key \in ts /\ Active(j.key))
  BY JobNames
<1>4. \A j \in InputJobs : j \notin C
  BY JobNames
<1>5. \A j \in InputJobs : SameRow(j) \/ Cancels(j)
  BY <1>2, <1>4, JobNames DEF SameRow
<1>6. \A j \in TaskJobs : IF Active(j.key) /\ j.key \in ts /\ jobs[j].state \in LiveStates
                          THEN jobs'[j].state = "cancelled" ELSE jobs'[j] = jobs[j]
  BY <1>2, <1>3, JobNames
<1>7. {u \in ts : Active(u)} = {t}
  BY DEF CancelTask
<1>8. /\ tasks' = TasksCancelled(tasks, ts) /\ work' = FiredTasks({u \in ts : Active(u)})
      /\ UNCHANGED <<reports, ask, presented, restarts>>
  BY <1>7 DEF CancelTask, history
<1>9. unsignalled' \subseteq Inputs /\ withdrawn' \subseteq Inputs
  BY DEF CancelTask, history, IInv, TypeOK
<1>10. ts \in SUBSET Tasks
  OBVIOUS
<1> HIDE DEF ts
<1> QED
  BY <1>2, <1>5, <1>6, <1>8, <1>9, <1>10, CancelStep

-----------------------------------------------------------------------------
(* The steps of a conversation lane keep the invariant. *)

(* Workers and their rows are left alone. *)
LEMMA WorkRests ==
  ASSUME IInv, work' = work, restarts' = restarts, \A j \in TaskJobs : SameRow(j),
         \A t \in Tasks : /\ tasks'[t].tier = tasks[t].tier /\ tasks'[t].state = tasks[t].state
  PROVE  Staffed' /\ Guided' /\ Supplied'
<1>1. \A w \in Workers : Rests(w)
  BY DEF Rests
<1>2. \A t \in Tasks : Active(t)' = Active(t)
  BY DEF Active
<1> QED
  BY <1>1, <1>2, LabourRests, GuidedRests, SuppliedRests DEF Labouring

LEMMA AccountedRests ==
  ASSUME IInv, tasks' = tasks, reports' = reports
  PROVE  Accounted'
  BY DEF IInv, Accounted, DeliveryFits, RestartsBounded, Active

(* A queued row of a lane is held by nobody there. *)
LEMMA QueuedIsFree ==
  ASSUME IInv, NEW j, jobs[j].state = "queued"
  PROVE  /\ \A c \in Lanes : Asking(c) => ask[c].job # j
         /\ \A w \in Workers : Labouring(w) => work[w].job # j
  BY DEF IInv, Asked, AskHeld, Staffed, WorkHeld, Asks, Works, Owns

LEMMA LaneRows ==
  \A j \in Jobs : /\ LaneOf(j.kind) = "conversation" => j \in InputJobs
                  /\ LaneOf(j.kind) = "worker" => j \in TaskJobs
  BY JobNames DEF LaneOf

LEMMA TakeStep ==
  ASSUME IInv, NEW c \in Lanes, Take(c)
  PROVE  IInv'
<1>1. PICK j \in Jobs :
        /\ IsNext(jobs, "conversation", j)
        /\ jobs' = Claimed(jobs, j)
        /\ ask' = [ask EXCEPT ![c] = [IdleAsker EXCEPT !.pc = "claimed", !.job = j,
                                                       !.token = jobs'[j].owner]]
  BY DEF Take
<1>2. jobs \in Tables(Jobs, Pay) /\ ask \in [Lanes -> AskTypes]
  BY Types DEF IInv
<1>3. jobs[j].state = "queued" /\ j \in InputJobs
  BY <1>1, <1>2, NextIsQueued, LaneRows
<1>4. /\ jobs' \in Tables(Jobs, Pay)
      /\ jobs'[j].state = "running" /\ jobs'[j].owner \in Nat
      /\ \A i \in Jobs \ {j} : jobs'[i] = jobs[i]
  BY <1>1, <1>2, ClaimedRow
<1> DEFINE r == [IdleAsker EXCEPT !.pc = "claimed", !.job = j, !.token = jobs'[j].owner]
<1>5. /\ r.pc = "claimed" /\ r.job = j /\ r.token = jobs'[j].owner /\ r.got = {}
      /\ r \in AskTypes
  BY <1>4 DEF IdleAsker, AskTypes
<1> HIDE DEF r
<1>6. ask'[c] = r /\ \A d \in Lanes \ {c} : ask'[d] = ask[d]
  BY <1>1, <1>2 DEF r
<1>7. /\ tasks' = tasks /\ reports' = reports /\ work' = work
      /\ presented' = presented /\ restarts' = restarts
  BY DEF Take, history
<1>8. TypeOK'
  <2>1. ask' \in [Lanes -> AskTypes]
    BY <1>1, <1>2, <1>5 DEF r
  <2> QED
    BY <1>4, <1>7, <2>1, Types, TypesNext DEF IInv, Take, history
<1>9. \A i \in TaskJobs : SameRow(i)
  BY <1>3, <1>4, JobNames DEF SameRow
<1>10. Staffed' /\ Guided' /\ Supplied'
  BY <1>7, <1>9, WorkRests
<1>11. \A d \in Lanes \ {c} : Asking(d) => ask[d].job \in InputJobs \ {j}
  BY <1>3, QueuedIsFree DEF IInv, Asked, AskHeld
<1>12. AskHeld'
  BY <1>3, <1>4, <1>5, <1>6, <1>11, JobNames DEF IInv, Asked, AskHeld, Asking, Asks, Owns
<1>13. OneAsker'
  BY <1>5, <1>6, <1>11 DEF IInv, Asked, OneAsker, Asking
<1>14. AskedFor'
  BY <1>5, <1>6, <1>7 DEF IInv, Asked, AskedFor, Asking
<1>15. Presented'
  BY <1>3, <1>4, <1>7, JobNames, PresentedRests
<1> QED
  BY <1>7, <1>8, <1>10, <1>12, <1>13, <1>14, <1>15, AccountedRests DEF IInv, Asked

LEMMA BeginStep ==
  ASSUME IInv, NEW c \in Lanes, Begin(c)
  PROVE  IInv'
<1>1. /\ jobs' = jobs /\ tasks' = tasks /\ reports' = reports /\ work' = work
      /\ presented' = presented /\ restarts' = restarts
  BY DEF Begin, history, store
<1>2. (\A j \in Jobs : SameRow(j)) /\ Asking(c)
  BY <1>1 DEF SameRow, Begin, Asking
<1>3. Staffed' /\ Guided' /\ Supplied' /\ Accounted' /\ Presented'
  BY <1>1, <1>2, JobNames, WorkRests, AccountedRests, PresentedRests
<1>4. ask[c] \in AskTypes
  BY Types DEF IInv
<1>5. CASE Asks(c)
  <2> DEFINE r == [ask[c] EXCEPT !.pc = "talking"]
  <2>1. ask' = [ask EXCEPT ![c] = r]
    BY <1>5 DEF Begin, AskGoes
  <2>2. /\ r.pc = "talking" /\ r.job = ask[c].job /\ r.token = ask[c].token
        /\ r.got = ask[c].got /\ r \in AskTypes
    BY <1>4 DEF AskTypes
  <2> HIDE DEF r
  <2>3. Asked'
    <3>1. \A t \in r.got : /\ t \in Tasks /\ r.job = Input(OriginOf[t])
                           /\ tasks'[t].delivery = "sync_delivered"
      BY <1>1, <1>4, <2>2 DEF IInv, Asked, AskedFor, AskTypes
    <3> QED
      BY <1>1, <1>2, <2>1, <2>2, <3>1, JobNames, AskMoves
  <2>4. TypeOK'
    BY <1>1, <2>1, <2>2, Types, TypesNext DEF IInv, Begin, history
  <2> QED
    BY <1>3, <2>3, <2>4 DEF IInv
<1>6. CASE ~Asks(c)
  <2>1. EndAsk(c)
    BY <1>6 DEF Begin
  <2>2. TypeOK'
    BY <1>1, <2>1, Types, TypesNext, IdleTypes DEF IInv, Begin, history, EndAsk
  <2>3. Asked'
    BY <1>1, <1>2, <2>1, AskEnds
  <2> QED
    BY <1>3, <2>2, <2>3 DEF IInv
<1> QED
  BY <1>5, <1>6

(* The lane goes on talking, with the result in hand or without. *)
LEMMA ResumedLane ==
  ASSUME IInv, NEW c \in Lanes, NEW t \in Tasks, Resumes(c, t)
  PROVE  \E r \in AskTypes :
           /\ ask' = [ask EXCEPT ![c] = r]
           /\ r.pc = "talking" /\ r.job = ask[c].job /\ r.token = ask[c].token
           /\ r.got = IF HandsOut(t) THEN ask[c].got \cup {t} ELSE ask[c].got
<1>1. ask[c] \in AskTypes
  BY Types DEF IInv
<1> DEFINE g == IF HandsOut(t) THEN ask[c].got \cup {t} ELSE ask[c].got
           r == [ask[c] EXCEPT !.pc = "talking", !.task = NoTask, !.got = g]
<1>2. g \in SUBSET Tasks
  BY <1>1 DEF AskTypes
<1>3. ask' = [ask EXCEPT ![c] = r]
  BY DEF Resumes
<1> HIDE DEF g
<1>4. /\ r \in AskTypes
      /\ r.pc = "talking" /\ r.job = ask[c].job /\ r.token = ask[c].token /\ r.got = g
  BY <1>1, <1>2 DEF AskTypes
<1> HIDE DEF r
<1> QED
  BY <1>3, <1>4 DEF g

(* The end of a wait: the result is handed over, or left for the outbox. *)
LEMMA WaitEnds ==
  ASSUME IInv, NEW c \in Lanes, Asking(c), NEW t \in Tasks, ask[c].job = Input(OriginOf[t]),
         \/ ~Active(t) /\ tasks' = Delivered(tasks, t)
         \/ /\ Active(t)
            /\ tasks' = [tasks EXCEPT ![t].delivery =
                           IF @ = "sync_waiting" THEN "async_queued" ELSE @],
         Resumes(c, t),
         UNCHANGED <<jobs, reports, work, unsignalled, history, restarts>>
  PROVE  IInv'
<1>1. /\ jobs' = jobs /\ reports' = reports /\ work' = work
      /\ presented' = presented /\ restarts' = restarts
  BY DEF history
<1>2. \A j \in Jobs : SameRow(j)
  BY <1>1 DEF SameRow
<1>3. tasks \in [Tasks -> RowTypes]
  BY Types DEF IInv
<1>4. tasks' \in [Tasks -> RowTypes]
  <2>1. CASE tasks' = Delivered(tasks, t)
    BY <1>3, <2>1, DeliveredType
  <2>2. CASE tasks' = [tasks EXCEPT ![t].delivery = IF @ = "sync_waiting" THEN "async_queued" ELSE @]
    <3>1. tasks[t] \in RowTypes /\ "async_queued" \in Deliveries
      BY <1>3 DEF Deliveries
    <3>2. (IF tasks[t].delivery = "sync_waiting" THEN "async_queued" ELSE tasks[t].delivery) \in Deliveries
      BY <3>1 DEF RowTypes
    <3>3. tasks' = [tasks EXCEPT ![t] = [tasks[t] EXCEPT !.delivery =
                      IF tasks[t].delivery = "sync_waiting" THEN "async_queued" ELSE tasks[t].delivery]]
      BY <2>2
    <3> QED
      BY <1>3, <3>1, <3>2, <3>3 DEF RowTypes
  <2> QED
    BY <2>1, <2>2
<1>5. \A u \in Tasks \ {t} : tasks'[u] = tasks[u]
  BY <1>3 DEF Delivered
<1>6. /\ tasks'[t].state = tasks[t].state /\ tasks'[t].tier = tasks[t].tier
      /\ tasks'[t].restarts = tasks[t].restarts
      /\ tasks'[t].delivery =
           CASE tasks[t].delivery = "sync_waiting" ->
                  IF Active(t) THEN "async_queued" ELSE "sync_delivered"
             [] OTHER -> tasks[t].delivery
  BY <1>3 DEF Delivered, RowTypes
<1>7. \A u \in Tasks : /\ tasks'[u].state = tasks[u].state /\ tasks'[u].tier = tasks[u].tier
                       /\ tasks'[u].restarts = tasks[u].restarts
                       /\ tasks[u].delivery = "sync_delivered"
                            => tasks'[u].delivery = "sync_delivered"
  BY <1>5, <1>6
<1>8. Staffed' /\ Guided' /\ Supplied'
  BY <1>1, <1>2, <1>7, JobNames, WorkRests
<1>9. Accounted'
  <2>1. tasks[t] # NoRow => tasks[t].state # "absent"
    BY DEF IInv, Accounted, DeliveryFits, Active, ActiveStates
  <2>2. tasks[t] = NoRow => tasks'[t] = NoRow
    BY <1>3 DEF Delivered, Active, ActiveStates, NoRow
  <2>3. DeliveryFits'
    <3> SUFFICES ASSUME NEW u \in Tasks
                 PROVE \/ tasks'[u] = NoRow /\ u \notin reports'
                       \/ /\ Active(u)'
                          /\ tasks'[u].delivery \in {"sync_waiting", "async_queued"} /\ u \notin reports'
                       \/ /\ tasks'[u].state = "cancelled"
                          /\ tasks'[u].delivery = "suppressed" /\ u \notin reports'
                       \/ /\ tasks'[u].state \in {"succeeded", "failed"}
                          /\ \/ tasks'[u].delivery \in {"sync_waiting", "sync_delivered"} /\ u \notin reports'
                             \/ tasks'[u].delivery = "async_delivered" /\ u \in reports'
      BY DEF DeliveryFits
    <3>1. CASE u # t
      BY <1>1, <1>5, <3>1 DEF IInv, Accounted, DeliveryFits, Active
    <3>2. CASE u = t
      BY <1>1, <1>6, <2>2, <3>2 DEF IInv, Accounted, DeliveryFits, Active, ActiveStates
    <3> QED
      BY <3>1, <3>2
  <2> QED
    BY <1>7, <2>3 DEF IInv, Accounted, RestartsBounded
<1>10. PICK r \in AskTypes :
         /\ ask' = [ask EXCEPT ![c] = r]
         /\ r.pc = "talking" /\ r.job = ask[c].job /\ r.token = ask[c].token
         /\ r.got = IF HandsOut(t) THEN ask[c].got \cup {t} ELSE ask[c].got
  BY ResumedLane
<1>11. Asked'
  <2>1. HandsOut(t) => tasks'[t].delivery = "sync_delivered"
    BY <1>6 DEF HandsOut, Active, ActiveStates
  <2>2. \A u \in r.got : /\ u \in Tasks /\ r.job = Input(OriginOf[u])
                         /\ tasks'[u].delivery = "sync_delivered"
    BY <1>7, <1>10, <2>1 DEF IInv, Asked, AskedFor, AskTypes
  <2>3. r.pc # "idle" /\ r.pc # "waiting" /\ \A j \in InputJobs : SameRow(j)
    BY <1>2, <1>10, JobNames
  <2> QED
    BY <1>7, <1>10, <2>2, <2>3, AskMoves
<1>12. Presented'
  BY <1>1, <1>7, PresentedRests
<1>13. TypeOK'
  BY <1>1, <1>4, <1>10, Types, TypesNext DEF IInv, history
<1> QED
  BY <1>8, <1>9, <1>11, <1>12, <1>13 DEF IInv

(* The lane starts to wait. *)
LEMMA WaitStarts ==
  ASSUME IInv, NEW c \in Lanes, Asking(c), NEW t \in Tasks, ask[c].job = Input(OriginOf[t]),
         ask' = [ask EXCEPT ![c].pc = "waiting", ![c].task = t],
         \A j \in InputJobs : SameRow(j),
         \A u \in Tasks : tasks[u].delivery = "sync_delivered"
                            => tasks'[u].delivery = "sync_delivered"
  PROVE  Asked' /\ ask' \in [Lanes -> AskTypes]
<1> DEFINE r == [ask[c] EXCEPT !.pc = "waiting", !.task = t]
<1>1. ask[c] \in AskTypes /\ ask \in [Lanes -> AskTypes]
  BY Types DEF IInv
<1>2. /\ r \in AskTypes
      /\ r.pc = "waiting" /\ r.task = t /\ r.job = ask[c].job /\ r.token = ask[c].token
      /\ r.got = ask[c].got
  BY <1>1 DEF AskTypes
<1>3. ask' = [ask EXCEPT ![c] = r]
  OBVIOUS
<1> HIDE DEF r
<1>4. \A u \in r.got : /\ u \in Tasks /\ r.job = Input(OriginOf[u])
                       /\ tasks'[u].delivery = "sync_delivered"
  BY <1>1, <1>2 DEF IInv, Asked, AskedFor, AskTypes
<1>5. r.pc # "idle" /\ r.task \in Tasks /\ r.job = Input(OriginOf[r.task])
  BY <1>2
<1>6. Asked'
  BY <1>2, <1>3, <1>4, <1>5, AskMoves
<1> QED
  BY <1>1, <1>2, <1>3, <1>6

LEMMA AdmitAgainStep ==
  ASSUME IInv, NEW c \in Lanes, NEW t \in Tasks, AdmitAgain(c, t)
  PROVE  IInv'
<1>1. Asking(c) /\ ask[c].job = Input(OriginOf[t])
  BY DEF AdmitAgain, Asking
<1>2. CASE Active(t)
  <2>1. /\ jobs' = jobs /\ tasks' = tasks /\ reports' = reports /\ work' = work
        /\ presented' = presented /\ restarts' = restarts
    BY <1>2 DEF AdmitAgain, history
  <2>2. \A j \in Jobs : SameRow(j)
    BY <2>1 DEF SameRow
  <2>3. Staffed' /\ Guided' /\ Supplied' /\ Accounted' /\ Presented'
    BY <2>1, <2>2, JobNames, WorkRests, AccountedRests, PresentedRests
  <2>4. Asked' /\ ask' \in [Lanes -> AskTypes]
    <3>1. ask' = [ask EXCEPT ![c].pc = "waiting", ![c].task = t]
      BY <1>2 DEF AdmitAgain
    <3> QED
      BY <1>1, <2>1, <2>2, <3>1, JobNames, WaitStarts
  <2>5. TypeOK'
    BY <2>1, <2>4, Types, TypesNext DEF IInv, AdmitAgain, history
  <2> QED
    BY <2>3, <2>4, <2>5 DEF IInv
<1>3. CASE ~Active(t)
  BY <1>1, <1>3, WaitEnds DEF AdmitAgain
<1> QED
  BY <1>2, <1>3

(* The task a lane waits for is one its input asked for. *)
LEMMA WaitedFor ==
  ASSUME IInv, NEW c \in Lanes, ask[c].pc = "waiting"
  PROVE  /\ Asking(c) /\ ask[c].task \in Tasks
         /\ ask[c].job = Input(OriginOf[ask[c].task])
  BY DEF IInv, Asked, AskedFor, Asking

LEMMA CollectStep ==
  ASSUME IInv, NEW c \in Lanes, Collect(c)
  PROVE  IInv'
<1> DEFINE t == ask[c].task
<1>1. /\ ask[c].pc = "waiting" /\ ~Active(t)
      /\ tasks' = Delivered(tasks, t) /\ Resumes(c, t)
      /\ UNCHANGED <<jobs, reports, work, unsignalled, history, restarts>>
  BY DEF Collect
<1>2. Asking(c) /\ t \in Tasks /\ ask[c].job = Input(OriginOf[t])
  BY <1>1, WaitedFor
<1> HIDE DEF t
<1> QED
  BY <1>1, <1>2, WaitEnds

LEMMA StopWaitingStep ==
  ASSUME IInv, NEW c \in Lanes, StopWaiting(c)
  PROVE  IInv'
<1> DEFINE t == ask[c].task
<1>1. /\ ask[c].pc = "waiting" /\ Active(t)
      /\ tasks' = [tasks EXCEPT ![t].delivery =
                     IF @ = "sync_waiting" THEN "async_queued" ELSE @]
      /\ Resumes(c, t)
      /\ UNCHANGED <<jobs, reports, work, unsignalled, history, restarts>>
  BY DEF StopWaiting
<1>2. Asking(c) /\ t \in Tasks /\ ask[c].job = Input(OriginOf[t])
  BY <1>1, WaitedFor
<1> HIDE DEF t
<1> QED
  BY <1>1, <1>2, WaitEnds

LEMMA AdmitStep ==
  ASSUME IInv, NEW c \in Lanes, NEW t \in Tasks, Admit(c, t)
  PROVE  IInv'
<1> DEFINE j == Work(t, 0)
<1>1. /\ Asking(c) /\ ask[c].job = Input(OriginOf[t])
      /\ tasks[t] = NoRow /\ t \notin reports /\ NoRow.state = "absent" /\ NoRow.tier = 0
      /\ jobs \in Tables(Jobs, Pay) /\ tasks \in [Tasks -> RowTypes]
  BY Types DEF Admit, Asking, IInv, Accounted, DeliveryFits, Active, ActiveStates, NoRow
<1>2. /\ reports' = reports /\ work' = work /\ presented' = presented /\ restarts' = restarts
      /\ unsignalled' = unsignalled /\ withdrawn' = withdrawn
  BY DEF Admit, history
<1>3. j \in WorkOf(t) /\ j \in TaskJobs /\ j \in Jobs /\ j.key = t
  BY JobNames
<1>4. \A i \in WorkOf(t) : jobs[i].state = "absent"
  BY <1>1 DEF IInv, Supplied, RowsFollow
<1>5. /\ jobs' \in Tables(Jobs, Pay) /\ jobs'[j].state = "queued"
      /\ \A i \in Jobs \ {j} : jobs'[i] = jobs[i]
  BY <1>1, <1>3, InsertedRow, JobsFinite DEF Admit, Pay
<1> HIDE DEF j
<1>6. \A i \in TaskJobs : SameRow(i) \/ Inserts(i)
  BY <1>3, <1>4, <1>5, JobNames DEF SameRow, Inserts
<1>7. \A i \in InputJobs : SameRow(i) /\ jobs'[i] = jobs[i]
  BY <1>3, <1>5, JobNames DEF SameRow
<1> DEFINE r == [NoRow EXCEPT !.state = "accepted", !.delivery = "sync_waiting"]
<1>8. /\ r \in RowTypes /\ r.state = "accepted" /\ r.delivery = "sync_waiting"
      /\ r.tier = 0 /\ r.restarts = 0
  BY IdleTypes DEF RowTypes, NoRow, ActiveStates, Deliveries
<1>9. tasks' = [tasks EXCEPT ![t] = r]
  BY DEF Admit
<1> HIDE DEF r
<1>10. tasks'[t] = r /\ \A u \in Tasks \ {t} : tasks'[u] = tasks[u]
  BY <1>1, <1>9
<1>11. \A w \in Workers : Rests(w)
  BY <1>2 DEF Rests
<1>12. Staffed'
  BY <1>6, <1>11, LabourRests
<1>13. Guided'
  BY <1>1, <1>8, <1>10, <1>11, GuidedRests
<1>14. \A u \in Tasks : tasks[u].delivery = "sync_delivered"
                          => tasks'[u].delivery = "sync_delivered"
  BY <1>1, <1>10 DEF NoRow
<1>15. Asked' /\ ask' \in [Lanes -> AskTypes]
  <2>1. ask' = [ask EXCEPT ![c].pc = "waiting", ![c].task = t]
    BY DEF Admit
  <2> QED
    BY <1>1, <1>7, <1>14, <2>1, WaitStarts
<1>16. Supplied'
  <2>1. \A u \in Tasks \ {t} : \A i \in WorkOf(u) : jobs'[i] = jobs[i]
    BY <1>3, <1>5, JobNames
  <2>2. Active(t)' /\ \A u \in Tasks \ {t} : Active(u)' = Active(u)
    BY <1>8, <1>10 DEF Active, ActiveStates
  <2>3. RowsFollow'
    <3> SUFFICES ASSUME NEW u \in Tasks
                 PROVE  /\ tasks'[u].state = "absent" => \A i \in WorkOf(u) : jobs'[i].state = "absent"
                        /\ tasks'[u].state # "absent" =>
                             \E g \in Generations : g <= restarts' /\ Newest(u, g)'
                        /\ \A h, i \in WorkOf(u) :
                             jobs'[h].state \in LiveStates /\ jobs'[i].state \in LiveStates => h = i
                        /\ \A i \in WorkOf(u) : jobs'[i].state = "cancelled" => ~Active(u)'
      BY DEF RowsFollow
    <3>1. CASE u = t
      <4>1. \A i \in WorkOf(t) \ {j} : jobs'[i].state = "absent"
        BY <1>4, <1>5, JobNames
      <4>2. Newest(t, 0)'
        <5>1. \A h \in Generations : h > 0 => Work(t, h) # j /\ Work(t, h) \in WorkOf(t)
          BY JobNames DEF j, Work
        <5> QED
          BY <1>5, <4>1, <5>1 DEF Newest, j
      <4>3. 0 \in Generations /\ 0 <= restarts'
        BY <1>2, JobNames DEF IInv, TypeOK
      <4> QED
        BY <1>5, <1>8, <1>10, <3>1, <4>1, <4>2, <4>3 DEF LiveStates
    <3>2. CASE u # t
      <4>1. \A g \in Generations : Newest(u, g)' = Newest(u, g)
        BY <2>1, <3>2, JobNames DEF Newest
      <4> QED
        BY <1>2, <1>10, <2>1, <2>2, <3>2, <4>1 DEF IInv, Supplied, RowsFollow
    <3> QED
      BY <3>1, <3>2
  <2>4. ActiveHasJob'
    <3> SUFFICES ASSUME NEW u \in Tasks, Active(u)'
                 PROVE  \E i \in WorkOf(u) :
                          \/ jobs'[i].state = "queued"
                          \/ \E w \in Workers : work'[w].job = i /\ work'[w].pc # "idle" /\ Works(w)'
      BY DEF ActiveHasJob
    <3>1. CASE u = t
      BY <1>3, <1>5, <3>1
    <3>2. CASE u # t
      <4>1. PICK i \in WorkOf(u) :
              \/ jobs[i].state = "queued"
              \/ \E w \in Workers : work[w].job = i /\ work[w].pc # "idle" /\ Works(w)
        BY <2>2, <3>2 DEF IInv, Supplied, ActiveHasJob
      <4>2. jobs'[i] = jobs[i]
        BY <2>1, <3>2
      <4> QED
        BY <1>2, <4>1, <4>2 DEF Works, Owns
    <3> QED
      BY <3>1, <3>2
  <2> QED
    BY <2>3, <2>4 DEF Supplied
<1>17. Accounted'
  BY <1>1, <1>2, <1>8, <1>10, WorkerAssumption
     DEF IInv, Accounted, DeliveryFits, RestartsBounded, Active, ActiveStates
<1>18. Presented'
  BY <1>2, <1>7, <1>14, PresentedRests
<1>19. TypeOK'
  BY <1>1, <1>2, <1>5, <1>8, <1>9, <1>15, Types, TypesNext DEF IInv
<1> QED
  BY <1>12, <1>13, <1>15, <1>16, <1>17, <1>18, <1>19 DEF IInv

(* A lane lets go of its input; what it writes is to the row it owns. *)
LEMMA LetGo ==
  ASSUME IInv, NEW c \in Lanes, Asking(c), EndAsk(c),
         jobs' \in Tables(Jobs, Pay),
         \A j \in Jobs \ {ask[c].job} : jobs'[j] = jobs[j],
         Asks(c) \/ jobs' = jobs,
         presented' \in [Tasks -> Nat],
         UNCHANGED <<tasks, reports, work, unsignalled, withdrawn, restarts>>
  PROVE  /\ TypeOK' /\ Staffed' /\ Guided' /\ Supplied' /\ Accounted' /\ Asked'
         /\ \A j \in InputJobs : jobs[j].state = "completed" => jobs'[j].state = "completed"
<1>1. ask[c].job \in InputJobs
  BY Voices
<1>2. \A j \in TaskJobs : SameRow(j)
  BY <1>1, JobNames DEF SameRow
<1>3. Staffed' /\ Guided' /\ Supplied' /\ Accounted'
  BY <1>2, WorkRests, AccountedRests
<1>4. Asked'
  BY JobNames, AskEnds
<1>5. \A j \in InputJobs : jobs[j].state = "completed" => jobs'[j].state = "completed"
  BY JobNames DEF Asks, Owns
<1>6. TypeOK'
  BY Types, TypesNext, IdleTypes DEF IInv, EndAsk
<1> QED
  BY <1>3, <1>4, <1>5, <1>6

LEMMA AskFailsStep ==
  ASSUME IInv, NEW c \in Lanes, AskFails(c)
  PROVE  IInv'
<1>1. /\ tasks' = tasks /\ reports' = reports /\ work' = work /\ presented' = presented
      /\ restarts' = restarts /\ unsignalled' = unsignalled /\ withdrawn' = withdrawn
      /\ Asking(c)
  BY DEF AskFails, history, Asking
<1>2. jobs \in Tables(Jobs, Pay) /\ ask[c] \in AskTypes /\ ask[c].job \in Jobs
  BY <1>1, Types, Voices DEF IInv
<1>3. CASE AskGoes(c, "failing") /\ UNCHANGED jobs
  <2> DEFINE r == [ask[c] EXCEPT !.pc = "failing"]
  <2>1. ask' = [ask EXCEPT ![c] = r]
    BY <1>3 DEF AskGoes
  <2>2. /\ r.pc = "failing" /\ r.job = ask[c].job /\ r.token = ask[c].token
        /\ r.got = ask[c].got /\ r \in AskTypes
    BY <1>2 DEF AskTypes
  <2> HIDE DEF r
  <2>3. \A j \in Jobs : SameRow(j)
    BY <1>3 DEF SameRow
  <2>4. Asked'
    <3>1. \A t \in r.got : /\ t \in Tasks /\ r.job = Input(OriginOf[t])
                           /\ tasks'[t].delivery = "sync_delivered"
      BY <1>1, <1>2, <2>2 DEF IInv, Asked, AskedFor, AskTypes
    <3> QED
      BY <1>1, <2>1, <2>2, <2>3, <3>1, JobNames, AskMoves
  <2>5. TypeOK'
    BY <1>1, <1>3, <2>1, <2>2, Types, TypesNext DEF IInv
  <2>6. Staffed' /\ Guided' /\ Supplied' /\ Accounted' /\ Presented'
    BY <1>1, <1>3, <2>3, JobNames, WorkRests, AccountedRests, PresentedRests
  <2> QED
    BY <2>4, <2>5, <2>6 DEF IInv
<1>4. CASE jobs' = (IF Asks(c) THEN FailedTerminally(jobs, ask[c].job) ELSE jobs) /\ EndAsk(c)
  <2>1. /\ jobs' \in Tables(Jobs, Pay)
        /\ \A j \in Jobs \ {ask[c].job} : jobs'[j] = jobs[j]
        /\ Asks(c) \/ jobs' = jobs
    BY <1>2, <1>4, FailedRow
  <2> QED
    BY <1>1, <1>4, <2>1, LetGo, PresentedRests, Types DEF IInv
<1> QED
  BY <1>3, <1>4 DEF AskFails

LEMMA PersistAskStep ==
  ASSUME IInv, NEW c \in Lanes, PersistAsk(c)
  PROVE  IInv'
<1>1. /\ tasks' = tasks /\ reports' = reports /\ work' = work /\ presented' = presented
      /\ restarts' = restarts /\ unsignalled' = unsignalled /\ withdrawn' = withdrawn
      /\ Asking(c) /\ EndAsk(c)
  BY DEF PersistAsk, history, Asking
<1>2. jobs \in Tables(Jobs, Pay) /\ ask[c].job \in Jobs
  BY <1>1, Types, Voices DEF IInv
<1>3. /\ jobs' \in Tables(Jobs, Pay)
      /\ \A j \in Jobs \ {ask[c].job} : jobs'[j] = jobs[j]
      /\ Asks(c) \/ jobs' = jobs
  BY <1>2, RetriedRow DEF PersistAsk
<1> QED
  BY <1>1, <1>3, LetGo, PresentedRests, Types DEF IInv

LEMMA AnswerStep ==
  ASSUME IInv, NEW c \in Lanes, Answer(c)
  PROVE  IInv'
<1>1. /\ tasks' = tasks /\ reports' = reports /\ work' = work
      /\ restarts' = restarts /\ unsignalled' = unsignalled /\ withdrawn' = withdrawn
      /\ Asking(c) /\ EndAsk(c) /\ Asks(c)
      /\ presented' = [t \in Tasks |-> presented[t] + (IF t \in ask[c].got THEN 1 ELSE 0)]
  BY DEF Answer, Asking
<1>2. jobs \in Tables(Jobs, Pay) /\ ask[c].job \in Jobs /\ ask[c].job \in InputJobs
  BY <1>1, Types, Voices DEF IInv
<1>3. /\ jobs' \in Tables(Jobs, Pay)
      /\ jobs'[ask[c].job].state = "completed"
      /\ \A j \in Jobs \ {ask[c].job} : jobs'[j] = jobs[j]
  BY <1>2, FinishedRow DEF Answer
<1>4. presented \in [Tasks -> Nat] /\ presented' \in [Tasks -> Nat]
  BY <1>1, Types DEF IInv
<1>5. /\ TypeOK'
      /\ Staffed' /\ Guided' /\ Supplied' /\ Accounted' /\ Asked'
      /\ \A j \in InputJobs : jobs[j].state = "completed" => jobs'[j].state = "completed"
  BY <1>1, <1>3, <1>4, LetGo
<1>6. Presented'
  <2> SUFFICES ASSUME NEW t \in Tasks
               PROVE  /\ presented'[t] <= 1
                      /\ presented'[t] = 1 => /\ tasks'[t].delivery = "sync_delivered"
                                              /\ jobs'[Input(OriginOf[t])].state = "completed"
    BY DEF Presented
  <2>1. Input(OriginOf[t]) \in InputJobs
    BY JobNames, WorkerAssumption
  <2>2. CASE t \in ask[c].got
    <3>1. ask[c].job = Input(OriginOf[t]) /\ tasks[t].delivery = "sync_delivered"
      BY <2>2 DEF IInv, Asked, AskedFor
    <3>2. presented[t] = 0
      BY <1>1, <1>4, <3>1 DEF IInv, Presented, Asks, Owns
    <3> QED
      BY <1>1, <1>3, <2>2, <3>1, <3>2
  <2>3. CASE t \notin ask[c].got
    BY <1>1, <1>4, <1>5, <2>1, <2>3 DEF IInv, Presented
  <2> QED
    BY <2>2, <2>3
<1> QED
  BY <1>5, <1>6 DEF IInv

-----------------------------------------------------------------------------
(* The steps of a worker lane keep the invariant. *)

LEMMA TakeWorkStep ==
  ASSUME IInv, NEW w \in Workers, TakeWork(w)
  PROVE  IInv'
<1>1. PICK j \in Jobs :
        /\ IsNext(jobs, "worker", j)
        /\ jobs' = Claimed(jobs, j)
        /\ work' = [work EXCEPT ![w] = [IdleWorker EXCEPT !.pc = "claimed", !.job = j,
                                                         !.token = jobs'[j].owner]]
  BY DEF TakeWork
<1>2. jobs \in Tables(Jobs, Pay) /\ work \in [Workers -> WorkTypes]
  BY Types DEF IInv
<1>3. jobs[j].state = "queued" /\ j \in TaskJobs
  BY <1>1, <1>2, NextIsQueued, LaneRows
<1>4. /\ jobs' \in Tables(Jobs, Pay)
      /\ jobs'[j].state = "running" /\ jobs'[j].owner \in Nat
      /\ \A i \in Jobs \ {j} : jobs'[i] = jobs[i]
  BY <1>1, <1>2, ClaimedRow
<1> DEFINE r == [IdleWorker EXCEPT !.pc = "claimed", !.job = j, !.token = jobs'[j].owner]
<1>5. /\ r.pc = "claimed" /\ r.job = j /\ r.token = jobs'[j].owner
      /\ r \in WorkTypes
  BY <1>4 DEF IdleWorker, WorkTypes
<1> HIDE DEF r
<1>6. work'[w] = r /\ \A v \in Workers \ {w} : work'[v] = work[v]
  BY <1>1, <1>2 DEF r
<1>7. /\ tasks' = tasks /\ reports' = reports /\ ask' = ask
      /\ presented' = presented /\ restarts' = restarts
      /\ ~Labouring(w)
  BY DEF TakeWork, history, Labouring
<1>8. TypeOK'
  <2>1. work' \in [Workers -> WorkTypes]
    BY <1>1, <1>2, <1>5 DEF r
  <2> QED
    BY <1>4, <1>7, <2>1, Types, TypesNext DEF IInv, TakeWork, history
<1>9. \A i \in InputJobs : SameRow(i) /\ jobs'[i] = jobs[i]
  BY <1>3, <1>4, JobNames DEF SameRow
<1>10. \A v \in Workers \ {w} : /\ Labouring(v) => work[v].job \in TaskJobs \ {j}
                                /\ InTask(v)' = InTask(v) /\ TaskOf(v)' = TaskOf(v)
  BY <1>3, <1>6, QueuedIsFree DEF IInv, Staffed, WorkHeld, InTask, TaskOf
<1>11. ~InTask(w)' /\ work'[w].pc = "claimed"
  BY <1>5, <1>6 DEF InTask
<1>12. Staffed'
  <2>1. WorkHeld'
    BY <1>3, <1>4, <1>5, <1>6, <1>10, JobNames DEF IInv, Staffed, WorkHeld, Labouring, Works, Owns
  <2>2. OneLabourer'
    BY <1>5, <1>6, <1>10 DEF IInv, Staffed, OneLabourer, Labouring
  <2>3. OneInTask'
    BY <1>10, <1>11 DEF IInv, Staffed, OneInTask
  <2>4. VerdictGiven'
    BY <1>6, <1>11 DEF IInv, Staffed, VerdictGiven
  <2> QED
    BY <2>1, <2>2, <2>3, <2>4 DEF Staffed
<1>13. Guided'
  <2>1. TierAhead'
    BY <1>6, <1>7, <1>10, <1>11 DEF IInv, Guided, TierAhead, InTask
  <2>2. CancelStopsWork'
    BY <1>6, <1>7, <1>10, <1>11 DEF IInv, Guided, CancelStopsWork
  <2> QED
    BY <2>1, <2>2 DEF Guided
<1>14. Supplied'
  <2>1. \A i \in TaskJobs : /\ (jobs'[i].state = "absent") = (jobs[i].state = "absent")
                            /\ (jobs'[i].state \in LiveStates) = (jobs[i].state \in LiveStates)
                            /\ (jobs'[i].state = "cancelled") = (jobs[i].state = "cancelled")
    BY <1>3, <1>4, JobNames DEF LiveStates
  <2>2. \A t \in Tasks, g \in Generations : Newest(t, g)' = Newest(t, g)
    BY <2>1, JobNames DEF Newest
  <2>3. \A t \in Tasks : Active(t)' = Active(t)
    BY <1>7 DEF Active
  <2>4. RowsFollow'
    BY <1>7, <2>1, <2>2, <2>3, JobNames DEF IInv, Supplied, RowsFollow
  <2>5. ActiveHasJob'
    <3> SUFFICES ASSUME NEW t \in Tasks, Active(t)
                 PROVE  \E i \in WorkOf(t) :
                          \/ jobs'[i].state = "queued"
                          \/ \E v \in Workers : work'[v].job = i /\ work'[v].pc # "idle" /\ Works(v)'
      BY <2>3 DEF ActiveHasJob
    <3>1. PICK i \in WorkOf(t) :
            \/ jobs[i].state = "queued"
            \/ \E v \in Workers : work[v].job = i /\ work[v].pc # "idle" /\ Works(v)
      BY DEF IInv, Supplied, ActiveHasJob
    <3>2. CASE i = j
      BY <1>4, <1>5, <1>6, <1>11, <3>2 DEF Works, Owns
    <3>3. CASE i # j
      <4>1. jobs'[i] = jobs[i]
        BY <1>4, <3>3, JobNames
      <4> QED
        BY <1>6, <1>7, <3>1, <4>1 DEF Works, Owns, Labouring
    <3> QED
      BY <3>2, <3>3
  <2> QED
    BY <2>4, <2>5 DEF Supplied
<1>15. Asked' /\ Presented' /\ Accounted'
  BY <1>7, <1>9, AskedRests, PresentedRests, AccountedRests
<1> QED
  BY <1>8, <1>12, <1>13, <1>14, <1>15 DEF IInv

(* A worker goes on with its task and may move the task's row along. *)
LEMMA WorkMoves ==
  ASSUME IInv, NEW w \in Workers, Labouring(w),
         NEW r \in WorkTypes, work' = [work EXCEPT ![w] = r],
         r.pc # "idle", r.job = work[w].job, r.token = work[w].token,
         InTask(w)' => \A v \in Workers \ {w} : ~(InTask(v) /\ TaskOf(v) = TaskOf(w)),
         r.pc = "finishing" => r.verdict \in Verdicts,
         NEW row \in RowTypes, tasks' = [tasks EXCEPT ![TaskOf(w)] = row],
         row.delivery = tasks[TaskOf(w)].delivery,
         row.restarts = tasks[TaskOf(w)].restarts,
         \/ row = tasks[TaskOf(w)]
         \/ row.state \in ActiveStates /\ Active(TaskOf(w)),
         row.tier = tasks[TaskOf(w)].tier \/ InTask(w),
         r.pc \in {"climbing", "attempting", "judging"} => row.tier <= r.tier,
         InTask(w)' /\ row.state = "cancelled" => r.stop \/ r.pc = "entered",
         UNCHANGED <<jobs, reports, ask, unsignalled, history, restarts>>
  PROVE  IInv'
<1> DEFINE t == TaskOf(w)
<1>1. /\ jobs' = jobs /\ reports' = reports /\ ask' = ask
      /\ presented' = presented /\ restarts' = restarts
      /\ unsignalled' = unsignalled /\ withdrawn' = withdrawn
  BY DEF history
<1>2. /\ t \in Tasks /\ tasks \in [Tasks -> RowTypes] /\ work \in [Workers -> WorkTypes]
      /\ jobs \in Tables(Jobs, Pay)
  BY Hands, Types DEF IInv
<1>3. /\ tasks'[t] = row /\ \A u \in Tasks \ {t} : tasks'[u] = tasks[u]
      /\ work'[w] = r /\ \A v \in Workers \ {w} : work'[v] = work[v]
  BY <1>2
<1>4. \A v \in Workers : TaskOf(v)' = TaskOf(v)
  BY <1>3 DEF TaskOf
<1>5. \A v \in Workers \ {w} : /\ InTask(v)' = InTask(v)
                               /\ InTask(v) => TaskOf(v) \in Tasks
  BY <1>3, Hands DEF InTask, Labouring
<1>6. \A u \in Tasks : /\ Active(u)' = Active(u)
                       /\ (tasks'[u].state = "absent") = (tasks[u].state = "absent")
                       /\ (tasks'[u].state = "cancelled") = (tasks[u].state = "cancelled")
                       /\ tasks'[u].delivery = tasks[u].delivery
                       /\ tasks'[u].restarts = tasks[u].restarts
  BY <1>3 DEF Active, ActiveStates
<1> HIDE DEF t
<1>7. Staffed'
  BY <1>1, LabourMoves
<1>8. Guided'
  <2>1. TierAhead'
    <3> SUFFICES ASSUME NEW v \in Workers, work'[v].pc \in {"climbing", "attempting", "judging"}
                 PROVE  tasks'[TaskOf(v)].tier <= work'[v].tier
      BY <1>4 DEF TierAhead
    <3>1. CASE v = w
      BY <1>3, <3>1 DEF t
    <3>2. CASE v # w
      <4>1. InTask(v) /\ TaskOf(v) \in Tasks /\ work'[v] = work[v]
        BY <1>3, <1>5, <3>2 DEF InTask
      <4>2. tasks[TaskOf(v)].tier <= work[v].tier
        BY <1>3, <3>2 DEF IInv, Guided, TierAhead
      <4>3. tasks'[TaskOf(v)].tier = tasks[TaskOf(v)].tier
        BY <1>3, <3>2, <4>1 DEF IInv, Staffed, OneInTask, t
      <4> QED
        BY <4>1, <4>2, <4>3
    <3> QED
      BY <3>1, <3>2
  <2>2. CancelStopsWork'
    <3> SUFFICES ASSUME NEW v \in Workers, InTask(v)', tasks'[TaskOf(v)].state = "cancelled"
                 PROVE  work'[v].stop \/ work'[v].pc = "entered"
      BY <1>4 DEF CancelStopsWork
    <3>1. CASE v = w
      BY <1>3, <3>1 DEF t
    <3>2. CASE v # w
      BY <1>3, <1>5, <1>6, <3>2 DEF IInv, Guided, CancelStopsWork
    <3> QED
      BY <3>1, <3>2
  <2> QED
    BY <2>1, <2>2 DEF Guided
<1>9. Supplied'
  <2>1. \A v \in Workers : Labouring(v) =>
          work'[v].pc # "idle" /\ work'[v].job = work[v].job /\ work'[v].token = work[v].token
    BY <1>3 DEF Labouring
  <2>2. \A j \in TaskJobs : SameRow(j)
    BY <1>1 DEF SameRow
  <2> QED
    BY <1>1, <1>6, <2>1, <2>2, SuppliedRests
<1>10. Accounted'
  <2>1. DeliveryFits'
    <3> SUFFICES ASSUME NEW u \in Tasks
                 PROVE \/ tasks'[u] = NoRow /\ u \notin reports'
                       \/ /\ Active(u)'
                          /\ tasks'[u].delivery \in {"sync_waiting", "async_queued"} /\ u \notin reports'
                       \/ /\ tasks'[u].state = "cancelled"
                          /\ tasks'[u].delivery = "suppressed" /\ u \notin reports'
                       \/ /\ tasks'[u].state \in {"succeeded", "failed"}
                          /\ \/ tasks'[u].delivery \in {"sync_waiting", "sync_delivered"} /\ u \notin reports'
                             \/ tasks'[u].delivery = "async_delivered" /\ u \in reports'
      BY DEF DeliveryFits
    <3>1. CASE u # t
      BY <1>1, <1>3, <3>1 DEF IInv, Accounted, DeliveryFits, Active
    <3>2. CASE u = t /\ Active(t)
      BY <1>1, <1>2, <1>6, <3>2 DEF IInv, Accounted, DeliveryFits, Active, ActiveStates, NoRow
    <3>3. CASE u = t /\ ~Active(t)
      <4>1. tasks'[t] = tasks[t]
        BY <1>3, <3>3 DEF t
      <4> QED
        BY <1>1, <1>2, <1>6, <3>3, <4>1 DEF IInv, Accounted, DeliveryFits
    <3> QED
      BY <3>1, <3>2, <3>3
  <2> QED
    BY <1>6, <2>1 DEF IInv, Accounted, RestartsBounded
<1>11. Asked' /\ Presented'
  <2>1. \A j \in InputJobs : SameRow(j)
    BY <1>1 DEF SameRow
  <2> QED
    BY <1>1, <1>6, <2>1, AskedRests, PresentedRests
<1>12. TypeOK'
  BY <1>1, <1>2, Types, TypesNext DEF IInv, t
<1> QED
  BY <1>7, <1>8, <1>9, <1>10, <1>11, <1>12 DEF IInv

(* What settling an active task does to its row and its report. *)
LEMMA SettledTask ==
  ASSUME IInv, NEW t \in Tasks, NEW v \in Verdicts, Settle(t, v)
  PROVE  /\ tasks' \in [Tasks -> RowTypes] /\ reports' \subseteq Tasks
         /\ \A u \in Tasks \ {t} : tasks'[u] = tasks[u] /\ (u \in reports') = (u \in reports)
         /\ IF Active(t)
            THEN /\ tasks'[t].state = v /\ tasks'[t].tier = tasks[t].tier
                 /\ tasks'[t].restarts = tasks[t].restarts
                 /\ tasks'[t].delivery =
                      IF v = "cancelled" THEN "suppressed"
                      ELSE IF tasks[t].delivery = "async_queued" THEN "async_delivered"
                      ELSE tasks[t].delivery
                 /\ (t \in reports') = (v # "cancelled" /\ tasks[t].delivery = "async_queued")
            ELSE tasks'[t] = tasks[t] /\ reports' = reports
<1>1. tasks \in [Tasks -> RowTypes] /\ reports \subseteq Tasks
  BY Types DEF IInv
<1>2. tasks' = Finalized(tasks, t, v) /\ tasks' \in [Tasks -> RowTypes]
  BY <1>1, FinalizedType DEF Settle
<1>3. /\ reports' = reports \cup {u \in {t} : /\ Active(u) /\ v # "cancelled"
                                              /\ tasks[u].delivery = "async_queued"}
      /\ Active(t) => t \notin reports
  BY DEF Settle, IInv, Accounted, DeliveryFits, Active, ActiveStates, NoRow
<1>4. \A u \in Tasks \ {t} : tasks'[u] = tasks[u] /\ (u \in reports') = (u \in reports)
  BY <1>1, <1>2, <1>3 DEF Finalized
<1>5. CASE Active(t)
  <2> DEFINE d == IF v = "cancelled" THEN "suppressed"
                  ELSE IF tasks[t].delivery = "async_queued" THEN "async_delivered"
                  ELSE tasks[t].delivery
  <2>1. tasks' = [tasks EXCEPT ![t] = [tasks[t] EXCEPT !.state = v, !.delivery = d]]
    <3>1. tasks' = [tasks EXCEPT ![t].state = v,
                                 ![t].delivery = IF v = "cancelled" THEN "suppressed"
                                                 ELSE IF @ = "async_queued"
                                                      THEN "async_delivered" ELSE @]
      BY <1>2, <1>5 DEF Finalized, Active
    <3> QED
      BY <1>1, <3>1 DEF RowTypes
  <2> HIDE DEF d
  <2>2. tasks'[t] = [tasks[t] EXCEPT !.state = v, !.delivery = d]
    BY <1>1, <2>1
  <2>3. /\ tasks'[t].state = v /\ tasks'[t].delivery = d /\ tasks'[t].tier = tasks[t].tier
        /\ tasks'[t].restarts = tasks[t].restarts
    BY <1>1, <2>2 DEF RowTypes
  <2> QED
    BY <1>1, <1>2, <1>3, <1>4, <1>5, <2>3 DEF d
<1>6. CASE ~Active(t)
  BY <1>1, <1>2, <1>3, <1>4, <1>6 DEF Finalized, Active
<1> QED
  BY <1>5, <1>6

LEMMA SettledAccounted ==
  ASSUME IInv, NEW t \in Tasks, NEW v \in Verdicts, Settle(t, v)
  PROVE  Accounted' /\ ~Active(t)'
<1>1. DeliveryFits'
  <2> SUFFICES ASSUME NEW u \in Tasks
               PROVE \/ tasks'[u] = NoRow /\ u \notin reports'
                     \/ /\ Active(u)'
                        /\ tasks'[u].delivery \in {"sync_waiting", "async_queued"} /\ u \notin reports'
                     \/ /\ tasks'[u].state = "cancelled"
                        /\ tasks'[u].delivery = "suppressed" /\ u \notin reports'
                     \/ /\ tasks'[u].state \in {"succeeded", "failed"}
                        /\ \/ tasks'[u].delivery \in {"sync_waiting", "sync_delivered"} /\ u \notin reports'
                           \/ tasks'[u].delivery = "async_delivered" /\ u \in reports'
    BY DEF DeliveryFits
  <2>1. CASE u # t \/ ~Active(t)
    BY <2>1, SettledTask DEF IInv, Accounted, DeliveryFits, Active
  <2>2. CASE u = t /\ Active(t)
    <3>1. tasks[t].delivery \in {"sync_waiting", "async_queued"}
      BY <2>2 DEF IInv, Accounted, DeliveryFits, Active, ActiveStates, NoRow
    <3> QED
      BY <2>2, <3>1, SettledTask DEF Verdicts
  <2> QED
    BY <2>1, <2>2
<1>2. RestartsBounded'
  BY SettledTask DEF IInv, Accounted, RestartsBounded
<1>3. ~Active(t)'
  BY SettledTask DEF Active, ActiveStates, Verdicts
<1> QED
  BY <1>1, <1>2, <1>3 DEF Accounted

(* A worker lets go of its task: what it writes is to the row it owns, it may *)
(* settle the task, and it leaves the task queued, in other hands or settled. *)
LEMMA WorkLetsGo ==
  ASSUME IInv, NEW w \in Workers, Labouring(w), EndWork(w),
         \/ jobs' = jobs
         \/ /\ Works(w) /\ jobs' \in Tables(Jobs, Pay)
            /\ jobs'[work[w].job].state \in {"queued", "failed"}
            /\ \A j \in Jobs \ {work[w].job} : jobs'[j] = jobs[j],
         \/ UNCHANGED <<tasks, reports>>
         \/ \E v \in Verdicts : Settle(TaskOf(w), v) /\ (v # "cancelled" \/ InTask(w)),
         \/ tasks'[TaskOf(w)].state \notin ActiveStates
         \/ jobs'[work[w].job].state = "queued"
         \/ \E v \in Workers \ {w} : Labouring(v) /\ Works(v) /\ TaskOf(v) = TaskOf(w)
                                     /\ work[v].job # work[w].job,
         UNCHANGED <<ask, unsignalled, history, restarts>>
  PROVE  IInv'
<1> DEFINE t == TaskOf(w)
           j == work[w].job
<1>1. /\ ask' = ask /\ presented' = presented /\ restarts' = restarts
      /\ unsignalled' = unsignalled /\ withdrawn' = withdrawn
  BY DEF history
<1>2. /\ t \in Tasks /\ j \in TaskJobs /\ j \in Jobs /\ j \in WorkOf(t)
      /\ tasks \in [Tasks -> RowTypes] /\ work \in [Workers -> WorkTypes]
      /\ jobs \in Tables(Jobs, Pay) /\ reports \subseteq Tasks
  BY Hands, Types DEF IInv
<1>3. /\ work' = [work EXCEPT ![w] = IdleWorker] /\ IdleWorker.pc = "idle"
      /\ work'[w] = IdleWorker /\ \A v \in Workers \ {w} : work'[v] = work[v]
  BY <1>2 DEF EndWork, IdleWorker
<1>4. /\ tasks' \in [Tasks -> RowTypes] /\ reports' \subseteq Tasks
      /\ \A u \in Tasks : /\ tasks'[u].tier = tasks[u].tier
                          /\ Active(u)' => Active(u)
                          /\ (tasks'[u].state = "absent") = (tasks[u].state = "absent")
                          /\ tasks[u].delivery = "sync_delivered"
                               => tasks'[u].delivery = "sync_delivered"
                          /\ tasks'[u].state = "cancelled" =>
                               tasks[u].state = "cancelled" \/ (u = t /\ InTask(w))
      /\ Accounted'
  <2>1. CASE UNCHANGED <<tasks, reports>>
    BY <1>2, <2>1, AccountedRests DEF Active
  <2>2. CASE \E v \in Verdicts : Settle(t, v) /\ (v # "cancelled" \/ InTask(w))
    <3>1. PICK v \in Verdicts : Settle(t, v) /\ (v # "cancelled" \/ InTask(w))
      BY <2>2
    <3>2. tasks[t].delivery = "sync_delivered" => ~Active(t)
      BY <1>2 DEF IInv, Accounted, DeliveryFits, Active, ActiveStates, NoRow
    <3>3. tasks' \in [Tasks -> RowTypes] /\ reports' \subseteq Tasks /\ Accounted'
      BY <1>2, <3>1, SettledTask, SettledAccounted
    <3>4. \A u \in Tasks \ {t} : tasks'[u] = tasks[u]
      BY <1>2, <3>1, SettledTask
    <3>5. /\ tasks'[t].tier = tasks[t].tier
          /\ tasks'[t] = tasks[t] \/ (Active(t) /\ tasks'[t].state = v)
      BY <1>2, <3>1, SettledTask
    <3> HIDE DEF t
    <3> QED
      BY <3>1, <3>2, <3>3, <3>4, <3>5 DEF Active, ActiveStates, Verdicts
  <2> QED
    BY <2>1, <2>2
<1>5. /\ jobs' \in Tables(Jobs, Pay)
      /\ \A i \in Jobs \ {j} : jobs'[i] = jobs[i]
      /\ jobs'[j] = jobs[j] \/ (Works(w) /\ jobs'[j].state \in {"queued", "failed"})
  BY <1>2
<1> HIDE DEF t, j
<1>6. \A i \in InputJobs : SameRow(i) /\ jobs'[i] = jobs[i]
  BY <1>2, <1>5, JobNames DEF SameRow
<1>7. Staffed'
  BY <1>5, JobNames, LabourEnds DEF j
<1>8. Guided'
  <2>1. \A v \in Workers : InTask(v)' =>
          v # w /\ InTask(v) /\ TaskOf(v)' = TaskOf(v) /\ work'[v] = work[v] /\ TaskOf(v) \in Tasks
    BY <1>3, Hands DEF InTask, TaskOf, Labouring
  <2>2. TierAhead'
    BY <1>4, <2>1 DEF IInv, Guided, TierAhead, InTask
  <2>3. CancelStopsWork'
    BY <1>4, <2>1 DEF IInv, Guided, CancelStopsWork, Staffed, OneInTask, t
  <2> QED
    BY <2>2, <2>3 DEF Guided
<1>9. Supplied'
  <2>1. \A i \in TaskJobs :
          /\ (jobs'[i].state = "absent") = (jobs[i].state = "absent")
          /\ jobs'[i].state \in LiveStates => jobs[i].state \in LiveStates
          /\ jobs'[i].state = "cancelled" => jobs[i].state = "cancelled"
    <3> SUFFICES ASSUME NEW i \in TaskJobs
                 PROVE  /\ (jobs'[i].state = "absent") = (jobs[i].state = "absent")
                        /\ jobs'[i].state \in LiveStates => jobs[i].state \in LiveStates
                        /\ jobs'[i].state = "cancelled" => jobs[i].state = "cancelled"
      OBVIOUS
    <3>1. CASE jobs'[i] = jobs[i]
      BY <3>1
    <3>2. CASE i = j /\ Works(w) /\ jobs'[j].state \in {"queued", "failed"}
      BY <3>2 DEF Works, Owns, LiveStates, j
    <3> QED
      BY <1>5, <3>1, <3>2, JobNames
  <2>2. \A u \in Tasks, g \in Generations : Newest(u, g)' = Newest(u, g)
    BY <2>1, JobNames DEF Newest
  <2>3. RowsFollow'
    BY <1>1, <1>4, <2>1, <2>2, JobNames DEF IInv, Supplied, RowsFollow
  <2>4. ActiveHasJob'
    <3> SUFFICES ASSUME NEW u \in Tasks, Active(u)'
                 PROVE  \E i \in WorkOf(u) :
                          \/ jobs'[i].state = "queued"
                          \/ \E v \in Workers : work'[v].job = i /\ work'[v].pc # "idle" /\ Works(v)'
      BY DEF ActiveHasJob
    <3>1. CASE u = t /\ jobs'[j].state = "queued"
      BY <1>2, <3>1
    <3>2. CASE u = t /\ jobs'[j].state # "queued"
      <4>1. PICK v \in Workers \ {w} : Labouring(v) /\ Works(v) /\ TaskOf(v) = t /\ work[v].job # j
        BY <3>2 DEF t, j, Active
      <4>2. work[v].job \in WorkOf(t) /\ work[v].job \in Jobs
        BY <4>1, Hands
      <4>3. jobs'[work[v].job] = jobs[work[v].job]
        BY <1>5, <4>1, <4>2
      <4> QED
        BY <1>3, <3>2, <4>1, <4>2, <4>3 DEF Works, Owns, Labouring
    <3>3. CASE u # t
      <4>1. PICK i \in WorkOf(u) :
              \/ jobs[i].state = "queued"
              \/ \E v \in Workers : work[v].job = i /\ work[v].pc # "idle" /\ Works(v)
        BY <1>4 DEF IInv, Supplied, ActiveHasJob
      <4>2. i # j /\ i \in Jobs
        BY <1>2, <3>3, JobNames
      <4>3. jobs'[i] = jobs[i]
        BY <1>5, <4>2
      <4> QED
        BY <1>3, <4>1, <4>2, <4>3 DEF Works, Owns, j
    <3> QED
      BY <3>1, <3>2, <3>3
  <2> QED
    BY <2>3, <2>4 DEF Supplied
<1>10. Asked' /\ Presented'
  BY <1>1, <1>4, <1>6, AskedRests, PresentedRests
<1>11. TypeOK'
  BY <1>1, <1>2, <1>3, <1>4, <1>5, Types, TypesNext, IdleTypes DEF IInv
<1> QED
  BY <1>4, <1>7, <1>8, <1>9, <1>10, <1>11 DEF IInv

(* A worker in a task goes on and leaves the tables alone. *)
LEMMA WorkSteps ==
  ASSUME IInv, NEW w \in Workers, InTask(w),
         NEW r \in WorkTypes, work' = [work EXCEPT ![w] = r],
         r.pc \in {"climbing", "finishing", "failing"},
         r.job = work[w].job, r.token = work[w].token, r.stop = work[w].stop,
         r.pc = "finishing" => r.verdict \in Verdicts,
         r.pc = "climbing" => tasks[TaskOf(w)].tier <= r.tier,
         r.pc # "failing" => work[w].pc # "entered",
         UNCHANGED <<store, ask, unsignalled, history, restarts>>
  PROVE  IInv'
<1>1. Labouring(w) /\ TaskOf(w) \in Tasks
  BY Hands DEF InTask, Labouring
<1>2. /\ tasks \in [Tasks -> RowTypes] /\ work \in [Workers -> WorkTypes]
      /\ tasks[TaskOf(w)] \in RowTypes
      /\ tasks' = tasks /\ UNCHANGED <<jobs, reports, ask, unsignalled, history, restarts>>
  BY <1>1, Types DEF IInv, store
<1>3. tasks' = [tasks EXCEPT ![TaskOf(w)] = tasks[TaskOf(w)]]
  BY <1>1, <1>2
<1>4. \A v \in Workers \ {w} : ~(InTask(v) /\ TaskOf(v) = TaskOf(w))
  BY DEF IInv, Staffed, OneInTask
<1>5. r.pc # "failing" /\ tasks[TaskOf(w)].state = "cancelled" => r.stop
  BY DEF IInv, Guided, CancelStopsWork
<1>6. InTask(w)' => r.pc # "failing"
  BY <1>2 DEF InTask
<1>7. InTask(w)' /\ tasks[TaskOf(w)].state = "cancelled" => r.stop \/ r.pc = "entered"
  BY <1>5, <1>6
<1> QED
  BY <1>1, <1>2, <1>3, <1>4, <1>7, WorkMoves

LEMMA DecidesStep ==
  ASSUME IInv, NEW w \in Workers, InTask(w), work[w].pc # "entered", NEW v \in Verdicts,
         Decides(w, v), UNCHANGED <<store, ask, unsignalled, history, restarts>>
  PROVE  IInv'
<1> DEFINE r == [work[w] EXCEPT !.pc = "finishing", !.verdict = v]
<1>1. work[w] \in WorkTypes
  BY Types DEF IInv
<1>2. /\ r \in WorkTypes /\ r.pc = "finishing" /\ r.verdict = v
      /\ r.job = work[w].job /\ r.token = work[w].token /\ r.stop = work[w].stop
  BY <1>1 DEF WorkTypes, Verdicts
<1>3. work' = [work EXCEPT ![w] = r]
  BY DEF Decides
<1> HIDE DEF r
<1> QED
  BY <1>2, <1>3, WorkSteps

LEMMA DecidedSteps ==
  ASSUME IInv, NEW w \in Workers,
         Decline(w) \/ GiveUp(w) \/ Succeed(w) \/ EndAttempt(w)
  PROVE  IInv'
<1>1. \E v \in Verdicts : Decides(w, v)
  BY DEF Decline, GiveUp, Succeed, EndAttempt, Verdicts
<1>2. /\ InTask(w) /\ work[w].pc # "entered"
      /\ UNCHANGED <<store, ask, unsignalled, history, restarts>>
  BY DEF Decline, GiveUp, Succeed, EndAttempt, InTask
<1> QED
  BY <1>1, <1>2, DecidesStep

LEMMA TryAgainStep ==
  ASSUME IInv, NEW w \in Workers, TryAgain(w)
  PROVE  IInv'
<1>1. work[w] \in WorkTypes /\ InTask(w)
  BY Types DEF IInv, TryAgain, InTask
<1>2. TaskOf(w) \in Tasks /\ tasks \in [Tasks -> RowTypes]
  BY <1>1, Types, Hands DEF IInv, InTask, Labouring
<1> DEFINE up == IF work[w].tries < MaxSameTierRetries THEN work[w].tier ELSE work[w].tier + 1
           n  == IF work[w].tries < MaxSameTierRetries THEN work[w].tries + 1 ELSE 0
           r  == [work[w] EXCEPT !.pc = "climbing", !.tier = up, !.tries = n]
<1>3. up \in Nat /\ n \in Nat /\ work[w].tier <= up
  BY <1>1 DEF WorkTypes
<1>4. work' = [work EXCEPT ![w] = r]
  BY DEF TryAgain
<1> HIDE DEF up, n
<1>5. /\ r \in WorkTypes /\ r.pc = "climbing" /\ r.tier = up
      /\ r.job = work[w].job /\ r.token = work[w].token /\ r.stop = work[w].stop
  BY <1>1, <1>3 DEF WorkTypes
<1> HIDE DEF r
<1>6. tasks[TaskOf(w)].tier <= work[w].tier /\ work[w].pc # "entered"
  BY DEF TryAgain, IInv, Guided, TierAhead
<1>7. tasks[TaskOf(w)].tier <= r.tier
  <2>1. tasks[TaskOf(w)].tier \in Int /\ work[w].tier \in Int
    BY <1>1, <1>2 DEF RowTypes, WorkTypes
  <2> QED
    BY <1>3, <1>5, <1>6, <2>1
<1> QED
  BY <1>1, <1>4, <1>5, <1>6, <1>7, WorkSteps DEF TryAgain

LEMMA WorkFailsStep ==
  ASSUME IInv, NEW w \in Workers, WorkFails(w)
  PROVE  IInv'
<1> DEFINE r == [work[w] EXCEPT !.pc = "failing"]
<1>1. work[w] \in WorkTypes
  BY Types DEF IInv
<1>2. /\ r \in WorkTypes /\ r.pc = "failing"
      /\ r.job = work[w].job /\ r.token = work[w].token /\ r.stop = work[w].stop
  BY <1>1 DEF WorkTypes
<1>3. work' = [work EXCEPT ![w] = r]
  BY DEF WorkFails, WorkGoes
<1> HIDE DEF r
<1> QED
  BY <1>2, <1>3, WorkSteps DEF WorkFails

(* A job that lost its row belongs to a task that is over. *)
LEMMA LostIsOver ==
  ASSUME IInv, NEW w \in Workers, Labouring(w), ~Works(w)
  PROVE  ~Active(TaskOf(w))
  BY Hands DEF IInv, Staffed, WorkHeld, Supplied, RowsFollow

LEMMA EnterStep ==
  ASSUME IInv, NEW w \in Workers, Enter(w)
  PROVE  IInv'
<1>1. /\ Labouring(w) /\ work[w] \in WorkTypes /\ TaskOf(w) \in Tasks
      /\ tasks' = tasks /\ reports' = reports /\ jobs' = jobs
      /\ UNCHANGED <<ask, unsignalled, history, restarts>>
      /\ ~InTask(w) /\ work[w].pc = "claimed"
  BY Types, Hands DEF Enter, IInv, Labouring, store, InTask
<1>2. tasks \in [Tasks -> RowTypes] /\ tasks[TaskOf(w)] \in RowTypes
  BY <1>1, Types DEF IInv
<1> DEFINE enters == Works(w) /\ ~\E v \in Workers : InTask(v) /\ TaskOf(v) = TaskOf(w)
<1>3. CASE enters
  <2> DEFINE r == [work[w] EXCEPT !.pc = "entered"]
  <2>1. work' = [work EXCEPT ![w] = r]
    BY <1>3 DEF Enter, WorkGoes
  <2>2. /\ r \in WorkTypes /\ r.pc = "entered"
        /\ r.job = work[w].job /\ r.token = work[w].token
    BY <1>1 DEF WorkTypes
  <2> HIDE DEF r
  <2>3. tasks' = [tasks EXCEPT ![TaskOf(w)] = tasks[TaskOf(w)]]
    BY <1>1, <1>2
  <2> QED
    BY <1>1, <1>2, <1>3, <2>1, <2>2, <2>3, WorkMoves
<1>4. CASE ~enters
  <2>1. EndWork(w)
    BY <1>4 DEF Enter
  <2>2. \/ ~Active(TaskOf(w))
        \/ \E v \in Workers \ {w} : Labouring(v) /\ Works(v) /\ TaskOf(v) = TaskOf(w)
                                    /\ work[v].job # work[w].job
    <3>1. CASE ~Works(w)
      BY <1>1, <3>1, LostIsOver
    <3>2. CASE \E v \in Workers : InTask(v) /\ TaskOf(v) = TaskOf(w)
      <4>1. PICK v \in Workers : InTask(v) /\ TaskOf(v) = TaskOf(w)
        BY <3>2
      <4>2. v # w /\ Labouring(v)
        BY <1>1, <4>1 DEF InTask, Labouring
      <4>3. work[v].job # work[w].job
        BY <1>1, <4>2 DEF IInv, Staffed, OneLabourer
      <4>4. Works(v) \/ ~Active(TaskOf(w))
        BY <4>1, <4>2, LostIsOver
      <4> QED
        BY <4>1, <4>2, <4>3, <4>4
    <3> QED
      BY <1>4, <3>1, <3>2
  <2>3. \/ tasks'[TaskOf(w)].state \notin ActiveStates
        \/ jobs'[work[w].job].state = "queued"
        \/ \E v \in Workers \ {w} : Labouring(v) /\ Works(v) /\ TaskOf(v) = TaskOf(w)
                                    /\ work[v].job # work[w].job
    BY <1>1, <2>2 DEF Active
  <2> QED
    BY <1>1, <2>1, <2>3, WorkLetsGo
<1> QED
  BY <1>3, <1>4

LEMMA ClaimTaskStep ==
  ASSUME IInv, NEW w \in Workers, ClaimTask(w)
  PROVE  IInv'
<1> DEFINE t == TaskOf(w)
<1>1. /\ Labouring(w) /\ InTask(w) /\ work[w] \in WorkTypes /\ t \in Tasks
      /\ tasks \in [Tasks -> RowTypes] /\ tasks[t] \in RowTypes
      /\ UNCHANGED <<jobs, reports, ask, unsignalled, history, restarts>>
  BY Types, Hands DEF ClaimTask, IInv, Labouring, InTask
<1>2. CASE Active(t)
  <2> DEFINE r == [work[w] EXCEPT !.pc = "climbing", !.tier = tasks[t].tier]
             row == [tasks[t] EXCEPT !.state = "running"]
  <2>1. work' = [work EXCEPT ![w] = r] /\ tasks' = [tasks EXCEPT ![t] = row]
    BY <1>2 DEF ClaimTask
  <2>2. /\ r \in WorkTypes /\ r.pc = "climbing" /\ r.tier = tasks[t].tier
        /\ r.job = work[w].job /\ r.token = work[w].token
    <3>1. tasks[t].tier \in Nat
      BY <1>1, WorkerAssumption DEF RowTypes
    <3> QED
      BY <1>1, <3>1 DEF WorkTypes
  <2>3. /\ row \in RowTypes /\ row.state = "running" /\ row.tier = tasks[t].tier
        /\ row.delivery = tasks[t].delivery /\ row.restarts = tasks[t].restarts
    BY <1>1 DEF RowTypes, ActiveStates
  <2> HIDE DEF r, row
  <2>4. /\ \A v \in Workers \ {w} : ~(InTask(v) /\ TaskOf(v) = TaskOf(w))
        /\ row.state \in ActiveStates
        /\ row.tier <= r.tier
    BY <1>1, <2>2, <2>3 DEF IInv, Staffed, OneInTask, ActiveStates, RowTypes
  <2> QED
    BY <1>1, <1>2, <2>1, <2>2, <2>3, <2>4, WorkMoves
<1>3. CASE ~Active(t)
  <2>1. EndWork(w) /\ tasks' = tasks /\ tasks'[t].state \notin ActiveStates
    BY <1>3 DEF ClaimTask, Active
  <2> QED
    BY <1>1, <2>1, WorkLetsGo
<1> QED
  BY <1>2, <1>3

LEMMA BeginAttemptStep ==
  ASSUME IInv, NEW w \in Workers, BeginAttempt(w)
  PROVE  IInv'
<1> DEFINE t == TaskOf(w)
           r == [work[w] EXCEPT !.pc = "attempting"]
           row == IF tasks[t].state \in {"running", "verifying"}
                  THEN [tasks[t] EXCEPT !.state = "running", !.tier = work[w].tier] ELSE tasks[t]
<1>1. /\ Labouring(w) /\ InTask(w) /\ work[w] \in WorkTypes /\ t \in Tasks
      /\ tasks \in [Tasks -> RowTypes] /\ tasks[t] \in RowTypes
      /\ UNCHANGED <<jobs, reports, ask, unsignalled, history, restarts>>
  BY Types, Hands DEF BeginAttempt, IInv, Labouring, InTask
<1>2. work' = [work EXCEPT ![w] = r] /\ tasks' = [tasks EXCEPT ![t] = row]
  BY <1>1 DEF BeginAttempt, WorkGoes
<1>3. /\ r \in WorkTypes /\ r.pc = "attempting" /\ r.tier = work[w].tier
      /\ r.job = work[w].job /\ r.token = work[w].token /\ r.stop = work[w].stop
  BY <1>1 DEF WorkTypes
<1>4. work[w].tier \in 0 .. TopTier /\ tasks[t].tier <= work[w].tier
  BY <1>1, WorkerAssumption DEF BeginAttempt, WorkTypes, IInv, Guided, TierAhead
<1>5. /\ row \in RowTypes /\ row.tier <= r.tier
      /\ row.delivery = tasks[t].delivery /\ row.restarts = tasks[t].restarts
      /\ row = tasks[t] \/ (row.state \in ActiveStates /\ tasks[t].state \in ActiveStates)
  <2>1. CASE tasks[t].state \in {"running", "verifying"}
    <3>1. row = [tasks[t] EXCEPT !.state = "running", !.tier = work[w].tier]
      BY <2>1
    <3>2. "running" \in ActiveStates /\ tasks[t].state \in ActiveStates
      BY <2>1 DEF ActiveStates
    <3> HIDE DEF row
    <3>3. /\ row \in RowTypes /\ row.tier = work[w].tier /\ row.state = "running"
          /\ row.delivery = tasks[t].delivery /\ row.restarts = tasks[t].restarts
      BY <1>1, <1>4, <3>1, <3>2 DEF RowTypes
    <3> QED
      BY <1>3, <1>4, <3>2, <3>3
  <2>2. CASE tasks[t].state \notin {"running", "verifying"}
    BY <1>1, <1>3, <1>4, <2>2
  <2> QED
    BY <2>1, <2>2
<1>6. /\ \A v \in Workers \ {w} : ~(InTask(v) /\ TaskOf(v) = TaskOf(w))
      /\ tasks[t].state # "cancelled"
      /\ row.state # "cancelled"
  <2>1. tasks[t].state # "cancelled"
    BY <1>1 DEF BeginAttempt, IInv, Guided, CancelStopsWork
  <2>2. row.state # "cancelled"
    BY <1>5, <2>1 DEF ActiveStates
  <2> QED
    BY <1>1, <2>1, <2>2 DEF IInv, Staffed, OneInTask
<1> HIDE DEF r, row
<1> QED
  BY <1>1, <1>2, <1>3, <1>5, <1>6, WorkMoves DEF Active

LEMMA ProduceStep ==
  ASSUME IInv, NEW w \in Workers, Produce(w)
  PROVE  IInv'
<1> DEFINE t == TaskOf(w)
           r == [work[w] EXCEPT !.pc = "judging"]
           s == IF tasks[t].state \in {"running", "verifying"} THEN "verifying" ELSE tasks[t].state
           row == [tasks[t] EXCEPT !.state = s]
<1>1. /\ Labouring(w) /\ InTask(w) /\ work[w] \in WorkTypes /\ t \in Tasks
      /\ tasks \in [Tasks -> RowTypes] /\ tasks[t] \in RowTypes
      /\ UNCHANGED <<jobs, reports, ask, unsignalled, history, restarts>>
  BY Types, Hands DEF Produce, IInv, Labouring, InTask
<1>2. work' = [work EXCEPT ![w] = r] /\ tasks' = [tasks EXCEPT ![t] = row]
  BY <1>1 DEF Produce, WorkGoes
<1>3. /\ r \in WorkTypes /\ r.pc = "judging" /\ r.tier = work[w].tier
      /\ r.job = work[w].job /\ r.token = work[w].token /\ r.stop = work[w].stop
  BY <1>1 DEF WorkTypes
<1>4. /\ s = tasks[t].state \/ (s \in ActiveStates /\ tasks[t].state \in ActiveStates)
      /\ s = "cancelled" => tasks[t].state = "cancelled"
  BY DEF ActiveStates
<1>5. s \in ActiveStates \cup Verdicts \cup {"absent"}
  BY <1>1, <1>4 DEF RowTypes
<1> HIDE DEF s
<1>6. /\ row \in RowTypes /\ row.state = s /\ row.tier = tasks[t].tier
      /\ row.delivery = tasks[t].delivery /\ row.restarts = tasks[t].restarts
      /\ s = tasks[t].state => row = tasks[t]
  BY <1>1, <1>5 DEF RowTypes
<1>7. /\ \A v \in Workers \ {w} : ~(InTask(v) /\ TaskOf(v) = TaskOf(w))
      /\ tasks[t].state = "cancelled" => r.stop
      /\ tasks[t].tier <= r.tier
  BY <1>1, <1>3 DEF Produce, IInv, Guided, CancelStopsWork, TierAhead, Staffed, OneInTask
<1> HIDE DEF r, row
<1> QED
  BY <1>1, <1>2, <1>3, <1>4, <1>6, <1>7, WorkMoves DEF Active

LEMMA FinishStep ==
  ASSUME IInv, NEW w \in Workers, Finish(w)
  PROVE  IInv'
<1>1. /\ Labouring(w) /\ InTask(w) /\ work[w].verdict \in Verdicts
      /\ Settle(TaskOf(w), work[w].verdict) /\ EndWork(w) /\ jobs' = jobs
      /\ UNCHANGED <<ask, unsignalled, history, restarts>>
  BY DEF Finish, Labouring, InTask, IInv, Staffed, VerdictGiven
<1>2. TaskOf(w) \in Tasks
  BY <1>1, Hands
<1>3. tasks'[TaskOf(w)].state \notin ActiveStates
  BY <1>1, <1>2, SettledTask DEF Active, Verdicts, ActiveStates
<1> QED
  BY <1>1, <1>3, WorkLetsGo

LEMMA PersistWorkStep ==
  ASSUME IInv, NEW w \in Workers, PersistWork(w)
  PROVE  IInv'
<1>1. /\ Labouring(w) /\ EndWork(w) /\ TaskOf(w) \in Tasks /\ work[w].job \in Jobs
      /\ jobs \in Tables(Jobs, Pay)
      /\ UNCHANGED <<ask, unsignalled, history, restarts>>
  BY Types, Hands DEF PersistWork, Labouring, IInv
<1>2. CASE ~Works(w) /\ UNCHANGED store
  <2>1. tasks'[TaskOf(w)].state \notin ActiveStates
    BY <1>1, <1>2, LostIsOver DEF store, Active
  <2> QED
    BY <1>1, <1>2, <2>1, WorkLetsGo DEF store
<1>3. CASE /\ Works(w) /\ jobs[work[w].job].attempts < MaxAttempts
           /\ jobs' = Retried(jobs, work[w].job, MaxAttempts)
           /\ UNCHANGED <<tasks, reports>>
  <2>1. /\ jobs' \in Tables(Jobs, Pay)
        /\ jobs'[work[w].job].state = "queued"
        /\ \A j \in Jobs \ {work[w].job} : jobs'[j] = jobs[j]
    BY <1>1, <1>3, RetriedRow
  <2> QED
    BY <1>1, <1>3, <2>1, WorkLetsGo
<1>4. CASE /\ Works(w)
           /\ jobs' = FailedTerminally(jobs, work[w].job)
           /\ Settle(TaskOf(w), "failed")
  <2>1. /\ jobs' \in Tables(Jobs, Pay)
        /\ jobs'[work[w].job].state = "failed"
        /\ \A j \in Jobs \ {work[w].job} : jobs'[j] = jobs[j]
    BY <1>1, <1>4, FailedRow
  <2>2. "failed" \in Verdicts /\ "failed" # "cancelled"
    BY DEF Verdicts
  <2>3. tasks'[TaskOf(w)].state \notin ActiveStates
    BY <1>1, <1>4, <2>2, SettledTask DEF Active, Verdicts, ActiveStates
  <2> QED
    BY <1>1, <1>4, <2>1, <2>2, <2>3, WorkLetsGo
<1> QED
  BY <1>2, <1>3, <1>4 DEF PersistWork

-----------------------------------------------------------------------------
(* A restart keeps the invariant. *)

LEMMA RowLanes ==
  /\ \A j \in InputJobs : LaneOf(j.kind) = "conversation"
  /\ \A j \in TaskJobs : LaneOf(j.kind) = "worker"
  BY JobNames DEF LaneOf

Survivors == {t \in Tasks : Active(t) /\ ~Interrupted(t)}
AfterCrash == Recovered(jobs, {"conversation"}, {"speech", "worker"})
Fresh(t) == Work(t, NewestGeneration(AfterCrash, t) + 1)

(* task_queue::recover interrupts what a task has live and queues inputs again. *)
LEMMA CrashedRows ==
  ASSUME IInv
  PROVE  /\ AfterCrash \in Tables(Jobs, Pay)
         /\ \A j \in InputJobs : IF jobs[j].state = "running"
                                 THEN AfterCrash[j].state = "queued"
                                 ELSE AfterCrash[j] = jobs[j]
         /\ \A j \in TaskJobs : IF jobs[j].state \in LiveStates
                                THEN AfterCrash[j].state = "interrupted"
                                ELSE AfterCrash[j] = jobs[j]
<1> DEFINE R == {"conversation"}
           I == {"speech", "worker"}
<1>1. jobs \in Tables(Jobs, Pay) /\ R \cap I = {}
  BY Types DEF IInv
<1>2. "conversation" \in R /\ "worker" \notin R /\ "conversation" \notin I /\ "worker" \in I
  OBVIOUS
<1>3. AfterCrash = Recovered(jobs, R, I)
  BY DEF AfterCrash
<1> HIDE DEF R, I
<1>4. /\ AfterCrash \in Tables(Jobs, Pay)
      /\ \A i \in Jobs :
           CASE LaneOf(i.kind) \in R /\ jobs[i].state = "running" ->
                  AfterCrash[i].state = "queued"
             [] LaneOf(i.kind) \in I /\ jobs[i].state \in LiveStates ->
                  AfterCrash[i].state = "interrupted"
             [] OTHER -> AfterCrash[i] = jobs[i]
  BY <1>1, <1>3, RecoveredRows
<1>5. ASSUME NEW j \in InputJobs
      PROVE  IF jobs[j].state = "running" THEN AfterCrash[j].state = "queued"
             ELSE AfterCrash[j] = jobs[j]
  <2>1. j \in Jobs /\ LaneOf(j.kind) \in R /\ LaneOf(j.kind) \notin I
    BY <1>2, RowLanes, JobNames
  <2> QED
    BY <1>4, <2>1
<1>6. ASSUME NEW j \in TaskJobs
      PROVE  IF jobs[j].state \in LiveStates THEN AfterCrash[j].state = "interrupted"
             ELSE AfterCrash[j] = jobs[j]
  <2>1. j \in Jobs /\ LaneOf(j.kind) \notin R /\ LaneOf(j.kind) \in I
    BY <1>2, RowLanes, JobNames
  <2> QED
    BY <1>4, <2>1
<1> QED
  BY <1>4, <1>5, <1>6

(* The next generation of a surviving task is one the restarts allow, unused. *)
LEMMA FreshRow ==
  ASSUME IInv, restarts < MaxRestarts, NEW t \in Tasks, NEW g \in Generations,
         g <= restarts, Newest(t, g)
  PROVE  /\ Fresh(t) = Work(t, g + 1) /\ g + 1 \in Generations
         /\ Fresh(t) \in WorkOf(t) /\ Fresh(t) \in Jobs
         /\ \A h \in Generations : h > g => AfterCrash[Work(t, h)].state = "absent"
<1>1. \A h \in Generations : (AfterCrash[Work(t, h)].state = "absent")
                               = (jobs[Work(t, h)].state = "absent")
  <2> SUFFICES ASSUME NEW h \in Generations
               PROVE  (AfterCrash[Work(t, h)].state = "absent") = (jobs[Work(t, h)].state = "absent")
    OBVIOUS
  <2>1. Work(t, h) \in TaskJobs
    BY JobNames
  <2> QED
    BY <2>1, CrashedRows DEF LiveStates
<1> DEFINE P(n) == /\ AfterCrash[Work(t, n)].state # "absent"
                   /\ \A h \in Generations : h > n => AfterCrash[Work(t, h)].state = "absent"
<1>2. P(g)
  BY <1>1 DEF Newest
<1>3. \A n \in Generations : P(n) => n = g
  BY <1>2 DEF Generations
<1>4. NewestGeneration(AfterCrash, t) = CHOOSE n \in Generations : P(n)
  BY DEF NewestGeneration
<1>5. NewestGeneration(AfterCrash, t) = g
  BY <1>2, <1>3, <1>4
<1>6. g + 1 \in Generations
  BY WorkerAssumption DEF Generations, IInv, TypeOK
<1>7. \A h \in Generations : h > g => AfterCrash[Work(t, h)].state = "absent"
  BY <1>2
<1> QED
  BY <1>5, <1>6, <1>7, JobNames DEF Fresh

(* ensure_live_job gives every survivor, and nobody else, a fresh queued row. *)
LEMMA EnsuredRows ==
  ASSUME IInv, Restart
  PROVE  /\ jobs' \in Tables(Jobs, Pay)
         /\ \A j \in Jobs : IF \E t \in Survivors : j = Fresh(t)
                            THEN jobs'[j].state = "queued" /\ jobs'[j].attempts = 0
                            ELSE jobs'[j] = AfterCrash[j]
<1> DEFINE bereft == {t \in Survivors : WorkOf(t) \cap Live(AfterCrash) = {}}
           fresh(t) == Work(t, NewestGeneration(AfterCrash, t) + 1)
           earlier(t) == {u \in bereft : AfterCrash[Work(u, 0)].rowid < AfterCrash[Work(t, 0)].rowid}
<1>1. jobs' = [j \in Jobs |->
                 IF \E t \in bereft : j = fresh(t)
                 THEN [NewRow(AfterCrash, "task") EXCEPT !.rowid = @ + Cardinality(earlier(j.key))]
                 ELSE AfterCrash[j]]
  BY DEF Restart, JobsEnsured, AfterCrash, Survivors
<1>2. bereft = Survivors
  <2>1. \A j \in TaskJobs : AfterCrash[j].state \notin LiveStates
    BY CrashedRows DEF LiveStates
  <2>2. \A t \in Survivors : WorkOf(t) \subseteq TaskJobs
    BY JobNames DEF Survivors
  <2> QED
    BY <2>1, <2>2 DEF Live
<1>3. \A t : earlier(t) \in SUBSET Tasks
  BY DEF Survivors
<1>4. \A t : Cardinality(earlier(t)) \in Nat
  <2> HIDE DEF earlier
  <2> QED
    BY <1>3, FS_Subset, FS_CardinalityType, WorkerAssumption
<1>5. /\ NewRow(AfterCrash, "task") \in Rows(Pay)
      /\ NewRow(AfterCrash, "task").state = "queued" /\ NewRow(AfterCrash, "task").attempts = 0
  <2>1. NewRow(AfterCrash, "task").attempts = 0
    BY DEF NewRow
  <2> QED
    BY <2>1, CrashedRows, JobsFinite, NewRowType DEF Pay
<1> DEFINE new(j) == [NewRow(AfterCrash, "task") EXCEPT !.rowid = @ + Cardinality(earlier(j.key))]
<1>6. ASSUME NEW j \in Jobs
      PROVE  new(j) \in Rows(Pay) /\ new(j).state = "queued" /\ new(j).attempts = 0
  <2> DEFINE n == Cardinality(earlier(j.key))
             row == NewRow(AfterCrash, "task")
  <2>1. n \in Nat
    BY <1>4
  <2> HIDE DEF n, row
  <2>2. row \in Rows(Pay) /\ row.state = "queued" /\ row.attempts = 0
    BY <1>5 DEF row
  <2>3. /\ [row EXCEPT !.rowid = @ + n] \in Rows(Pay)
        /\ [row EXCEPT !.rowid = @ + n].state = "queued"
        /\ [row EXCEPT !.rowid = @ + n].attempts = 0
    BY <2>1, <2>2 DEF Rows
  <2> QED
    BY <2>3 DEF row, n
<1>7. jobs' = [j \in Jobs |-> IF \E t \in Survivors : j = Fresh(t) THEN new(j) ELSE AfterCrash[j]]
  BY <1>1, <1>2 DEF Fresh
<1>8. AfterCrash \in [Jobs -> Rows(Pay)]
  BY CrashedRows DEF Tables
<1> HIDE DEF new
<1> QED
  BY <1>6, <1>7, <1>8 DEF Tables

(* recover of the executor: what is not active stays, what may not be restarted *)
(* fails with a report, and the rest is accepted again and no longer waited for. *)
LEMMA RecoveredTasks ==
  ASSUME IInv, Restart
  PROVE  /\ tasks' \in [Tasks -> RowTypes]
         /\ \A t \in Tasks :
              /\ ~Active(t) => tasks'[t] = tasks[t]
              /\ Interrupted(t) => /\ tasks'[t].state = "failed"
                                   /\ tasks'[t].delivery = "async_delivered"
              /\ t \in Survivors => /\ tasks'[t].state = "accepted"
                                    /\ tasks'[t].delivery = "async_queued"
              /\ tasks'[t].tier = tasks[t].tier
              /\ tasks'[t].restarts <= MaxTaskRestarts
<1>1. tasks \in [Tasks -> RowTypes] /\ tasks' = TasksRecovered
  BY Types DEF IInv, Restart
<1> SUFFICES ASSUME NEW t \in Tasks
             PROVE  /\ tasks'[t] \in RowTypes
                    /\ ~Active(t) => tasks'[t] = tasks[t]
                    /\ Interrupted(t) => /\ tasks'[t].state = "failed"
                                         /\ tasks'[t].delivery = "async_delivered"
                    /\ t \in Survivors => /\ tasks'[t].state = "accepted"
                                          /\ tasks'[t].delivery = "async_queued"
                    /\ tasks'[t].tier = tasks[t].tier
                    /\ tasks'[t].restarts <= MaxTaskRestarts
  BY <1>1 DEF TasksRecovered
<1>2. tasks[t] \in RowTypes /\ tasks[t].restarts <= MaxTaskRestarts /\ tasks[t].restarts \in Nat
  BY <1>1 DEF IInv, Accounted, RestartsBounded, RowTypes
<1>3. CASE ~Active(t)
  <2>1. tasks'[t] = tasks[t] /\ ~Interrupted(t) /\ t \notin Survivors
    BY <1>1, <1>3 DEF TasksRecovered, Interrupted, Restartable, Survivors
  <2> QED
    BY <1>2, <1>3, <2>1
<1>4. CASE Interrupted(t)
  <2>1. /\ tasks'[t] = [tasks[t] EXCEPT !.state = "failed", !.delivery = "async_delivered"]
        /\ Active(t) /\ t \notin Survivors
    BY <1>1, <1>4 DEF TasksRecovered, Interrupted, Restartable, Survivors
  <2>2. /\ tasks'[t] \in RowTypes /\ tasks'[t].state = "failed"
        /\ tasks'[t].delivery = "async_delivered" /\ tasks'[t].tier = tasks[t].tier
        /\ tasks'[t].restarts = tasks[t].restarts
    BY <1>2, <2>1 DEF RowTypes, Verdicts, Deliveries
  <2> QED
    BY <1>2, <2>1, <2>2
<1>5. CASE Restartable(t)
  <2>1. /\ tasks'[t] = [tasks[t] EXCEPT !.state = "accepted", !.delivery = "async_queued",
                                        !.restarts = @ + 1]
        /\ Active(t) /\ ~Interrupted(t) /\ tasks[t].restarts < MaxTaskRestarts
    BY <1>1, <1>5 DEF TasksRecovered, Interrupted, Restartable
  <2>2. /\ tasks'[t] \in RowTypes /\ tasks'[t].state = "accepted"
        /\ tasks'[t].delivery = "async_queued" /\ tasks'[t].tier = tasks[t].tier
        /\ tasks'[t].restarts = tasks[t].restarts + 1
    <3> DEFINE n == tasks[t].restarts + 1
    <3>1. n \in Nat /\ "accepted" \in ActiveStates /\ "async_queued" \in Deliveries
      BY <1>2 DEF ActiveStates, Deliveries
    <3>2. tasks'[t] = [tasks[t] EXCEPT !.state = "accepted", !.delivery = "async_queued",
                                       !.restarts = n]
      BY <1>2, <2>1 DEF RowTypes
    <3> HIDE DEF n
    <3>3. /\ tasks'[t] \in RowTypes /\ tasks'[t].state = "accepted"
          /\ tasks'[t].delivery = "async_queued" /\ tasks'[t].tier = tasks[t].tier
          /\ tasks'[t].restarts = n
      BY <1>2, <3>1, <3>2 DEF RowTypes
    <3> QED
      BY <3>3 DEF n
  <2>3. tasks'[t].restarts <= MaxTaskRestarts
    BY <1>2, <2>1, <2>2, WorkerAssumption
  <2> QED
    BY <2>1, <2>2, <2>3
<1>6. CASE Active(t) /\ ~Interrupted(t) /\ ~Restartable(t)
  <2>1. /\ tasks'[t] = [tasks[t] EXCEPT !.delivery = "async_queued"]
        /\ tasks[t].state = "accepted"
    BY <1>1, <1>6 DEF TasksRecovered, Interrupted
  <2>2. "async_queued" \in Deliveries
    BY DEF Deliveries
  <2>3. /\ tasks'[t] \in RowTypes /\ tasks'[t].state = "accepted"
        /\ tasks'[t].delivery = "async_queued" /\ tasks'[t].tier = tasks[t].tier
        /\ tasks'[t].restarts = tasks[t].restarts
    BY <1>2, <2>1, <2>2 DEF RowTypes
  <2> QED
    BY <1>2, <1>6, <2>3
<1> QED
  BY <1>3, <1>4, <1>5, <1>6

LEMMA RestartStep ==
  ASSUME IInv, Restart
  PROVE  IInv'
<1>1. /\ restarts < MaxRestarts /\ restarts' = restarts + 1 /\ restarts \in Nat
      /\ reports' = reports \cup {t \in Tasks : Interrupted(t)}
      /\ ask' = [c \in Lanes |-> IdleAsker] /\ work' = [w \in Workers |-> IdleWorker]
      /\ unsignalled' = {} /\ withdrawn' = withdrawn /\ presented' = presented
      /\ MaxRestarts \in Nat
  BY WorkerAssumption DEF Restart, history, IInv, TypeOK
<1>2. /\ IdleAsker.pc = "idle" /\ IdleAsker.got = {} /\ IdleWorker.pc = "idle"
  BY DEF IdleAsker, IdleWorker
<1>3. \A w \in Workers : ~Labouring(w)' /\ ~InTask(w)' /\ work'[w].pc = "idle"
  BY <1>1, <1>2 DEF Labouring, InTask
<1>4. Staffed' /\ Guided'
  BY <1>3 DEF Staffed, WorkHeld, OneLabourer, OneInTask, VerdictGiven, Guided, TierAhead,
              CancelStopsWork
<1>5. \A c \in Lanes : ~Asking(c)' /\ ask'[c].pc = "idle" /\ ask'[c].got = {}
  BY <1>1, <1>2 DEF Asking
<1>6. Asked'
  BY <1>5 DEF Asked, AskHeld, OneAsker, AskedFor
<1>7. \A t \in Tasks : /\ Active(t)' = (t \in Survivors)
                       /\ t \in Survivors => Active(t)
                       /\ (tasks'[t].state = "absent") = (tasks[t].state = "absent")
                       /\ tasks[t].delivery = "sync_delivered" => ~Active(t)
  BY RecoveredTasks
     DEF Active, ActiveStates, Survivors, IInv, Accounted, DeliveryFits, NoRow
<1>8. Accounted'
  <2>1. DeliveryFits'
    <3> SUFFICES ASSUME NEW t \in Tasks
                 PROVE \/ tasks'[t] = NoRow /\ t \notin reports'
                       \/ /\ Active(t)'
                          /\ tasks'[t].delivery \in {"sync_waiting", "async_queued"} /\ t \notin reports'
                       \/ /\ tasks'[t].state = "cancelled"
                          /\ tasks'[t].delivery = "suppressed" /\ t \notin reports'
                       \/ /\ tasks'[t].state \in {"succeeded", "failed"}
                          /\ \/ tasks'[t].delivery \in {"sync_waiting", "sync_delivered"} /\ t \notin reports'
                             \/ tasks'[t].delivery = "async_delivered" /\ t \in reports'
      BY DEF DeliveryFits
    <3>1. CASE ~Active(t)
      BY <1>1, <3>1, RecoveredTasks DEF IInv, Accounted, DeliveryFits, Interrupted
    <3>2. CASE Interrupted(t)
      BY <1>1, <3>2, RecoveredTasks
    <3>3. CASE t \in Survivors
      <4>1. t \notin reports /\ ~Interrupted(t)
        BY <3>3 DEF IInv, Accounted, DeliveryFits, Survivors, Active, ActiveStates, NoRow
      <4> QED
        BY <1>1, <1>7, <3>3, <4>1, RecoveredTasks
    <3> QED
      BY <3>1, <3>2, <3>3 DEF Survivors
  <2> QED
    BY <2>1, RecoveredTasks DEF Accounted, RestartsBounded
<1>9. \A t \in Tasks : \A j \in WorkOf(t) :
        IF t \in Survivors /\ j = Fresh(t)
        THEN jobs'[j].state = "queued"
        ELSE /\ jobs'[j].state \notin LiveStates
             /\ (jobs'[j].state = "absent") = (jobs[j].state = "absent")
             /\ jobs'[j].state = "cancelled" => jobs[j].state = "cancelled"
  <2> SUFFICES ASSUME NEW t \in Tasks, NEW j \in WorkOf(t)
               PROVE  IF t \in Survivors /\ j = Fresh(t)
                      THEN jobs'[j].state = "queued"
                      ELSE /\ jobs'[j].state \notin LiveStates
                           /\ (jobs'[j].state = "absent") = (jobs[j].state = "absent")
                           /\ jobs'[j].state = "cancelled" => jobs[j].state = "cancelled"
    OBVIOUS
  <2>1. j \in TaskJobs /\ j \in Jobs /\ j.key = t
    BY JobNames
  <2>2. \A u : Fresh(u).key = u
    BY DEF Fresh, Work
  <2>3. (\E u \in Survivors : j = Fresh(u)) <=> (t \in Survivors /\ j = Fresh(t))
    BY <2>1, <2>2
  <2> QED
    BY <2>1, <2>3, EnsuredRows, CrashedRows DEF LiveStates
<1>10. \A t \in Tasks : tasks[t].state # "absent" =>
         \E g \in Generations : g <= restarts /\ Newest(t, g)
  BY DEF IInv, Supplied, RowsFollow
<1>11. \A t \in Survivors : Fresh(t) \in WorkOf(t)
  BY <1>1, <1>10, FreshRow DEF Survivors, Active, ActiveStates
<1>12. RowsFollow'
  <2> SUFFICES ASSUME NEW t \in Tasks
               PROVE  /\ tasks'[t].state = "absent" => \A j \in WorkOf(t) : jobs'[j].state = "absent"
                      /\ tasks'[t].state # "absent" =>
                           \E g \in Generations : g <= restarts' /\ Newest(t, g)'
                      /\ \A i, j \in WorkOf(t) :
                           jobs'[i].state \in LiveStates /\ jobs'[j].state \in LiveStates => i = j
                      /\ \A j \in WorkOf(t) : jobs'[j].state = "cancelled" => ~Active(t)'
    BY DEF RowsFollow
  <2>1. tasks'[t].state = "absent" => \A j \in WorkOf(t) : jobs'[j].state = "absent"
    <3>1. tasks'[t].state = "absent" => t \notin Survivors
      BY RecoveredTasks
    <3> QED
      BY <1>7, <1>9, <3>1 DEF IInv, Supplied, RowsFollow
  <2>2. ASSUME tasks'[t].state # "absent"
        PROVE  \E g \in Generations : g <= restarts' /\ Newest(t, g)'
    <3>1. PICK g \in Generations : g <= restarts /\ Newest(t, g)
      BY <1>7, <1>10, <2>2
    <3>2. g \in Nat
      BY DEF Generations
    <3>3. CASE t \in Survivors
      <4>1. /\ Fresh(t) = Work(t, g + 1) /\ g + 1 \in Generations /\ Fresh(t) \in WorkOf(t)
        BY <1>1, <3>1, FreshRow
      <4>2. jobs'[Work(t, g + 1)].state = "queued"
        BY <1>9, <3>3, <4>1
      <4>3. \A h \in Generations : h > g + 1 => jobs'[Work(t, h)].state = "absent"
        <5> SUFFICES ASSUME NEW h \in Generations, h > g + 1
                     PROVE  jobs'[Work(t, h)].state = "absent"
          OBVIOUS
        <5>1. h > g /\ Work(t, h) \in WorkOf(t) /\ Work(t, h) # Fresh(t)
          <6>1. Work(t, h).generation = h /\ Work(t, g + 1).generation = g + 1
            BY DEF Work
          <6>2. h \in Nat
            BY DEF Generations
          <6> QED
            BY <3>2, <4>1, <6>1, <6>2, JobNames
        <5>2. jobs[Work(t, h)].state = "absent"
          BY <3>1, <5>1 DEF Newest
        <5> QED
          BY <1>9, <5>1, <5>2
      <4>4. g + 1 <= restarts'
        BY <1>1, <3>1, <3>2
      <4> QED
        BY <4>1, <4>2, <4>3, <4>4 DEF Newest
    <3>4. CASE t \notin Survivors
      <4>1. \A h \in Generations : (jobs'[Work(t, h)].state = "absent")
                                     = (jobs[Work(t, h)].state = "absent")
        BY <1>9, <3>4, JobNames
      <4>2. g <= restarts'
        BY <1>1, <3>1, <3>2
      <4> QED
        BY <3>1, <4>1, <4>2 DEF Newest
    <3> QED
      BY <3>3, <3>4
  <2>3. \A i, j \in WorkOf(t) :
          jobs'[i].state \in LiveStates /\ jobs'[j].state \in LiveStates => i = j
    BY <1>9
  <2>4. \A j \in WorkOf(t) : jobs'[j].state = "cancelled" => ~Active(t)'
    <3>1. \A j \in WorkOf(t) : jobs'[j].state = "cancelled" => jobs[j].state = "cancelled"
      BY <1>9
    <3> QED
      BY <1>7, <3>1 DEF IInv, Supplied, RowsFollow
  <2> QED
    BY <2>1, <2>2, <2>3, <2>4
<1>13. ActiveHasJob'
  BY <1>7, <1>9, <1>11 DEF ActiveHasJob
<1>14. Presented'
  <2>1. \A t \in Tasks : tasks[t].delivery = "sync_delivered"
                           => tasks'[t].delivery = "sync_delivered"
    BY <1>7, RecoveredTasks
  <2>2. \A j \in InputJobs : jobs[j].state = "completed" => jobs'[j].state = "completed"
    <3> SUFFICES ASSUME NEW j \in InputJobs, jobs[j].state = "completed"
                 PROVE  jobs'[j].state = "completed"
      OBVIOUS
    <3>1. j \in Jobs /\ ~\E t \in Survivors : j = Fresh(t)
      BY <1>11, JobNames DEF Survivors
    <3> QED
      BY <3>1, EnsuredRows, CrashedRows
  <2> QED
    BY <1>1, <2>1, <2>2, PresentedRests
<1>15. TypeOK'
  <2>1. reports' \subseteq Tasks /\ withdrawn' \subseteq Inputs /\ presented' \in [Tasks -> Nat]
    BY <1>1, Types DEF IInv
  <2>2. ask' \in [Lanes -> AskTypes] /\ work' \in [Workers -> WorkTypes]
    BY <1>1, IdleTypes
  <2>3. restarts' \in 0 .. MaxRestarts /\ unsignalled' \subseteq Inputs
    BY <1>1
  <2> QED
    BY <2>1, <2>2, <2>3, TypesNext, EnsuredRows, RecoveredTasks
<1> QED
  BY <1>4, <1>6, <1>8, <1>12, <1>13, <1>14, <1>15 DEF IInv, Supplied

-----------------------------------------------------------------------------
(* Every step keeps the invariant. *)

LEMMA InitIInv == Init => IInv
<1> SUFFICES ASSUME Init PROVE IInv
  OBVIOUS
<1>1. /\ jobs = EmptyTable(Jobs) /\ tasks = [t \in Tasks |-> NoRow] /\ reports = {}
      /\ ask = [c \in Lanes |-> IdleAsker] /\ work = [w \in Workers |-> IdleWorker]
      /\ unsignalled = {} /\ withdrawn = {} /\ presented = [t \in Tasks |-> 0] /\ restarts = 0
  BY DEF Init
<1>2. /\ IdleAsker.pc = "idle" /\ IdleAsker.got = {} /\ IdleWorker.pc = "idle"
      /\ NoRow.state = "absent" /\ NoRow.delivery = "none" /\ NoRow.restarts = 0
  BY DEF IdleAsker, IdleWorker, NoRow
<1>3. \A j \in Jobs : jobs[j] = AbsentRow /\ jobs[j].state = "absent"
  BY <1>1 DEF EmptyTable, AbsentRow
<1>4. TypeOK
  <2>1. jobs \in Tables(Jobs, Pay)
    BY <1>1 DEF EmptyTable, AbsentRow, Tables, Rows
  <2> QED
    BY <1>1, <2>1, Types, IdleTypes, WorkerAssumption
<1>5. Staffed /\ Guided
  BY <1>1, <1>2 DEF Staffed, WorkHeld, OneLabourer, OneInTask, VerdictGiven, Guided, TierAhead,
                    CancelStopsWork, Labouring, InTask
<1>6. Asked
  BY <1>1, <1>2 DEF Asked, AskHeld, OneAsker, AskedFor, Asking
<1>7. Supplied
  BY <1>1, <1>2, <1>3, JobNames
     DEF Supplied, RowsFollow, ActiveHasJob, Active, ActiveStates, LiveStates
<1>8. Accounted /\ Presented
  BY <1>1, <1>2, WorkerAssumption DEF Accounted, DeliveryFits, RestartsBounded, Presented
<1> QED
  BY <1>4, <1>5, <1>6, <1>7, <1>8 DEF IInv

LEMMA StutterStep ==
  ASSUME IInv, UNCHANGED vars
  PROVE  IInv'
<1>1. /\ jobs' = jobs /\ tasks' = tasks /\ reports' = reports /\ ask' = ask /\ work' = work
      /\ presented' = presented /\ restarts' = restarts
      /\ unsignalled' = unsignalled /\ withdrawn' = withdrawn
  BY DEF vars, store, history
<1>2. \A j \in Jobs : SameRow(j)
  BY <1>1 DEF SameRow
<1>3. Staffed' /\ Guided' /\ Supplied' /\ Accounted' /\ Asked' /\ Presented'
  BY <1>1, <1>2, JobNames, WorkRests, AccountedRests, AskedRests, PresentedRests
<1>4. TypeOK'
  BY <1>1, Types, TypesNext DEF IInv
<1> QED
  BY <1>3, <1>4 DEF IInv

LEMMA NextStep ==
  ASSUME IInv, [Next]_vars
  PROVE  IInv'
<1>1. ASSUME NEW k \in Inputs, Send(k) \/ CancelInput(k) \/ Signal(k) PROVE IInv'
  BY <1>1, SendStep, CancelInputStep, SignalStep
<1>2. ASSUME NEW t \in Tasks, CancelTask(t) PROVE IInv'
  BY <1>2, CancelTaskStep
<1>3. ASSUME NEW j \in Jobs, BackoffEnds(j) PROVE IInv'
  BY <1>3, BackoffStep
<1>4. ASSUME NEW c \in Lanes, Converse(c) PROVE IInv'
  <2>1. ASSUME NEW t \in Tasks, Admit(c, t) \/ AdmitAgain(c, t) PROVE IInv'
    BY <2>1, AdmitStep, AdmitAgainStep
  <2> QED
    BY <1>4, <2>1, TakeStep, BeginStep, CollectStep, StopWaitingStep, AnswerStep, AskFailsStep,
       PersistAskStep DEF Converse
<1>5. ASSUME NEW w \in Workers, Labour(w) PROVE IInv'
  BY <1>5, TakeWorkStep, EnterStep, ClaimTaskStep, DecidedSteps, BeginAttemptStep, ProduceStep,
     TryAgainStep, FinishStep, WorkFailsStep, PersistWorkStep DEF Labour
<1>6. CASE Restart
  BY <1>6, RestartStep
<1>7. CASE UNCHANGED vars
  BY <1>7, StutterStep
<1> QED
  BY <1>1, <1>2, <1>3, <1>4, <1>5, <1>6, <1>7 DEF Next

(* Rows, lanes, deliveries and answers fit each other in every reachable state. *)
THEOREM Invariance == Spec => []IInv
<1>1. Init => IInv
  BY InitIInv
<1>2. IInv /\ [Next]_vars => IInv'
  BY NextStep
<1> QED
  BY <1>1, <1>2, PTL DEF Spec

(* Every variable keeps its type: no counter leaves the naturals, no rung goes *)
(* past the top of the ladder, no restart past its bound.                      *)
THEOREM TypeCorrect == Spec => []TypeOK
<1>1. IInv => TypeOK
  BY DEF IInv
<1> QED
  BY <1>1, Invariance, PTL

(* No task is left behind: while it is active one of its rows is queued or in *)
(* the hands of a worker that owns it, through retries, the queue's giving up *)
(* (abandon_job) and restarts (ensure_live_job).                              *)
THEOREM NoTaskLeftBehind == Spec => []ActiveHasJob
<1>1. IInv => ActiveHasJob
  BY DEF IInv, Supplied
<1> QED
  BY <1>1, Invariance, PTL

(* A cancel reaches the worker of the task, or finds it before it has claimed *)
(* the task (cancel_task, signals::fire).                                     *)
THEOREM CancelIsTold == Spec => []CancelStopsWork
<1>1. IInv => CancelStopsWork
  BY DEF IInv, Guided
<1> QED
  BY <1>1, Invariance, PTL

(* A result is in one saved answer or in one report (deliver_sync, finalize, *)
(* commit_answer).                                                           *)
THEOREM ResultHeardOnce == Spec => []PresentedOnce
<1>1. IInv => PresentedOnce
  <2> SUFFICES ASSUME IInv, NEW t \in Tasks
               PROVE  presented[t] + (IF t \in reports THEN 1 ELSE 0) <= 1
    BY DEF PresentedOnce
  <2>1. presented[t] \in Nat /\ presented[t] <= 1
    BY Types DEF IInv, Presented
  <2>2. presented[t] = 1 => t \notin reports
    BY DEF IInv, Presented, Accounted, DeliveryFits, Active, ActiveStates, NoRow
  <2> QED
    BY <2>1, <2>2
<1> QED
  BY <1>1, Invariance, PTL

-----------------------------------------------------------------------------
(* What a step does to the tasks: to none, to one, to those of an input, or, at *)
(* a restart, to all.                                                           *)

Alone(t) == \A u \in Tasks \ {t} : tasks'[u] = tasks[u]
Admitted(t) ==
  /\ Alone(t) /\ tasks[t] = NoRow
  /\ tasks'[t].state \in ActiveStates /\ tasks'[t].delivery = "sync_waiting"
WorkedOn(t) ==
  /\ Alone(t) /\ Active(t) /\ tasks'[t].state \in ActiveStates
  /\ tasks'[t].tier >= tasks[t].tier
  /\ \/ tasks'[t].delivery = tasks[t].delivery
     \/ tasks[t].delivery = "sync_waiting" /\ tasks'[t].delivery = "async_queued"
HandedOver(t) ==
  /\ Alone(t) /\ tasks[t].delivery = "sync_waiting"
  /\ tasks[t].state \notin ActiveStates /\ tasks'[t].state = tasks[t].state
  /\ tasks'[t].tier >= tasks[t].tier /\ tasks'[t].delivery = "sync_delivered"
Ended(t) ==
  /\ Alone(t) /\ Active(t) /\ tasks'[t].state \in Verdicts
  /\ tasks'[t].tier >= tasks[t].tier
  /\ \/ tasks'[t].state = "cancelled"
     \/ tasks[t].delivery = "sync_waiting" /\ tasks'[t].delivery = "sync_waiting"
     \/ tasks[t].delivery = "async_queued" /\ tasks'[t].delivery = "async_delivered"
CancelledIn(ts) == tasks' = TasksCancelled(tasks, ts)

SomeTaskMoves ==
  \E t \in Tasks : Admitted(t) \/ WorkedOn(t) \/ HandedOver(t) \/ Ended(t)

LEMMA WorkerTouches ==
  ASSUME IInv, NEW w \in Workers, Labour(w)
  PROVE  tasks' = tasks \/ SomeTaskMoves
<1> DEFINE t == TaskOf(w)
<1>1. tasks \in [Tasks -> RowTypes]
  BY Types DEF IInv
<1>2. work[w].pc # "idle" => t \in Tasks
  BY Hands DEF Labouring
<1>3. CASE ClaimTask(w) /\ Active(t)
  <2>1. t \in Tasks /\ tasks' = [tasks EXCEPT ![t].state = "running"]
    BY <1>2, <1>3 DEF ClaimTask
  <2>2. WorkedOn(t)
    BY <1>1, <1>3, <2>1, WorkerAssumption DEF WorkedOn, Alone, RowTypes, ActiveStates
  <2> QED
    BY <2>1, <2>2 DEF SomeTaskMoves
<1>4. CASE BeginAttempt(w)
  <2>1. /\ t \in Tasks
        /\ tasks' = [tasks EXCEPT ![t] =
                       IF @.state \in {"running", "verifying"}
                       THEN [@ EXCEPT !.state = "running", !.tier = work[w].tier] ELSE @]
        /\ tasks[t].tier <= work[w].tier
    BY <1>2, <1>4 DEF BeginAttempt, IInv, Guided, TierAhead
  <2>2. CASE tasks[t].state \in {"running", "verifying"}
    <3>1. tasks' = [tasks EXCEPT ![t] = [tasks[t] EXCEPT !.state = "running", !.tier = work[w].tier]]
      BY <1>1, <2>1, <2>2
    <3>2. work[w].tier \in Nat /\ tasks[t].tier \in Int
      BY <1>1, <2>1, Types DEF IInv, WorkTypes, RowTypes
    <3>3. /\ tasks'[t].state = "running" /\ tasks'[t].tier = work[w].tier
          /\ tasks'[t].delivery = tasks[t].delivery /\ Alone(t)
      <4>1. tasks[t] \in RowTypes
        BY <1>1, <2>1
      <4> DEFINE row == [tasks[t] EXCEPT !.state = "running", !.tier = work[w].tier]
      <4>2. /\ row.state = "running" /\ row.tier = work[w].tier
            /\ row.delivery = tasks[t].delivery
        BY <4>1 DEF RowTypes
      <4> HIDE DEF row, t
      <4>3. tasks'[t] = row /\ Alone(t)
        BY <1>1, <2>1, <3>1 DEF Alone, row
      <4> QED
        BY <4>2, <4>3
    <3>4. WorkedOn(t)
      BY <2>1, <2>2, <3>2, <3>3 DEF WorkedOn, Active, ActiveStates
    <3> QED
      BY <2>1, <3>4 DEF SomeTaskMoves
  <2>3. CASE tasks[t].state \notin {"running", "verifying"}
    BY <1>1, <2>1, <2>3
  <2> QED
    BY <2>2, <2>3
<1>5. CASE Produce(w)
  <2>1. /\ t \in Tasks
        /\ tasks' = [tasks EXCEPT ![t].state =
                       IF @ \in {"running", "verifying"} THEN "verifying" ELSE @]
    BY <1>2, <1>5 DEF Produce
  <2>2. CASE tasks[t].state \in {"running", "verifying"}
    <3>1. /\ tasks'[t].state = "verifying" /\ tasks'[t].tier = tasks[t].tier
          /\ tasks'[t].delivery = tasks[t].delivery /\ Alone(t)
      BY <1>1, <2>1, <2>2 DEF Alone, RowTypes
    <3>2. tasks[t].tier \in Int
      BY <1>1, <2>1 DEF RowTypes
    <3>3. WorkedOn(t)
      BY <2>2, <3>1, <3>2 DEF WorkedOn, Active, ActiveStates
    <3> QED
      BY <2>1, <3>3 DEF SomeTaskMoves
  <2>3. CASE tasks[t].state \notin {"running", "verifying"}
    BY <1>1, <2>1, <2>3 DEF RowTypes
  <2> QED
    BY <2>2, <2>3
<1>6. ASSUME NEW v \in Verdicts, Settle(t, v), work[w].pc # "idle"
      PROVE  tasks' = tasks \/ SomeTaskMoves
  <2>1. t \in Tasks
    BY <1>2, <1>6
  <2> HIDE DEF t
  <2>2. tasks[t].tier \in Int /\ Alone(t) /\ tasks' \in [Tasks -> RowTypes]
    BY <1>1, <1>6, <2>1, SettledTask DEF RowTypes, Alone
  <2>3. CASE ~Active(t)
    <3>1. tasks'[t] = tasks[t]
      BY <1>6, <2>1, <2>3, SettledTask
    <3> QED
      BY <1>1, <2>2, <3>1 DEF Alone
  <2>4. CASE Active(t)
    <3>1. tasks[t].delivery \in {"sync_waiting", "async_queued"}
      BY <2>1, <2>4 DEF IInv, Accounted, DeliveryFits, Active, ActiveStates, NoRow
    <3>2. /\ tasks'[t].state = v /\ tasks'[t].tier = tasks[t].tier
          /\ tasks'[t].delivery =
               IF v = "cancelled" THEN "suppressed"
               ELSE IF tasks[t].delivery = "async_queued" THEN "async_delivered"
               ELSE tasks[t].delivery
      BY <1>6, <2>1, <2>4, SettledTask
    <3>3. Ended(t)
      BY <2>2, <2>4, <3>1, <3>2 DEF Ended
    <3> QED
      BY <2>1, <3>3 DEF SomeTaskMoves
  <2> QED
    BY <2>3, <2>4
<1>7. CASE Finish(w)
  BY <1>6, <1>7 DEF Finish, IInv, Staffed, VerdictGiven
<1>8. CASE PersistWork(w)
  BY <1>6, <1>8 DEF PersistWork, store, Verdicts
<1>9. CASE \/ TakeWork(w) \/ Enter(w) \/ Decline(w) \/ GiveUp(w) \/ Succeed(w) \/ TryAgain(w)
           \/ EndAttempt(w) \/ WorkFails(w) \/ (ClaimTask(w) /\ ~Active(t))
  BY <1>9 DEF TakeWork, Enter, Decline, GiveUp, Succeed, TryAgain, EndAttempt, WorkFails, ClaimTask,
              store
<1> QED
  BY <1>3, <1>4, <1>5, <1>7, <1>8, <1>9 DEF Labour

LEMMA LaneTouches ==
  ASSUME IInv, NEW c \in Lanes, Converse(c)
  PROVE  tasks' = tasks \/ SomeTaskMoves
<1>1. tasks \in [Tasks -> RowTypes]
  BY Types DEF IInv
<1>2. ASSUME NEW t \in Tasks, ~Active(t), tasks' = Delivered(tasks, t)
      PROVE  tasks' = tasks \/ SomeTaskMoves
  <2>1. CASE tasks[t].delivery = "sync_waiting"
    <3>1. tasks' = [tasks EXCEPT ![t] = [tasks[t] EXCEPT !.delivery = "sync_delivered"]]
      BY <1>1, <1>2, <2>1 DEF Delivered
    <3>2. /\ tasks'[t].state = tasks[t].state /\ tasks'[t].delivery = "sync_delivered"
          /\ tasks'[t].tier = tasks[t].tier /\ tasks[t].tier \in Int /\ Alone(t)
      BY <1>1, <3>1 DEF RowTypes, Alone
    <3>3. HandedOver(t)
      BY <1>2, <2>1, <3>2 DEF HandedOver, Active
    <3> QED
      BY <3>3 DEF SomeTaskMoves
  <2>2. CASE tasks[t].delivery # "sync_waiting"
    BY <1>2, <2>2 DEF Delivered
  <2> QED
    BY <2>1, <2>2
<1>3. CASE \E t \in Tasks : Admit(c, t)
  <2>1. PICK t \in Tasks : Admit(c, t)
    BY <1>3
  <2> DEFINE r == [NoRow EXCEPT !.state = "accepted", !.delivery = "sync_waiting"]
  <2>2. r.state = "accepted" /\ r.delivery = "sync_waiting"
    BY DEF NoRow
  <2>3. tasks' = [tasks EXCEPT ![t] = r]
    BY <2>1 DEF Admit
  <2>4. tasks[t] = NoRow
    BY <2>1 DEF Admit, IInv, Accounted, DeliveryFits, Active, ActiveStates
  <2> HIDE DEF r
  <2>5. Admitted(t)
    BY <1>1, <2>2, <2>3, <2>4 DEF Admitted, Alone, ActiveStates
  <2> QED
    BY <2>5 DEF SomeTaskMoves
<1>4. CASE \E t \in Tasks : AdmitAgain(c, t)
  BY <1>2, <1>4 DEF AdmitAgain
<1>5. CASE Collect(c)
  BY <1>2, <1>5, WaitedFor DEF Collect
<1>6. CASE StopWaiting(c)
  <2> DEFINE t == ask[c].task
  <2>1. /\ Active(t) /\ t \in Tasks
        /\ tasks' = [tasks EXCEPT ![t].delivery = IF @ = "sync_waiting" THEN "async_queued" ELSE @]
    BY <1>6, WaitedFor DEF StopWaiting
  <2> HIDE DEF t
  <2>2. /\ tasks'[t].state = tasks[t].state /\ tasks'[t].tier = tasks[t].tier
        /\ tasks'[t].delivery = (IF tasks[t].delivery = "sync_waiting" THEN "async_queued"
                                 ELSE tasks[t].delivery)
        /\ tasks[t].tier \in Int /\ Alone(t)
    BY <1>1, <2>1 DEF RowTypes, Alone
  <2>3. WorkedOn(t)
    BY <2>1, <2>2 DEF WorkedOn, Active
  <2> QED
    BY <2>1, <2>3 DEF SomeTaskMoves
<1>7. CASE Take(c) \/ Begin(c) \/ Answer(c) \/ AskFails(c) \/ PersistAsk(c)
  BY <1>7 DEF Take, Begin, Answer, AskFails, PersistAsk, store
<1> QED
  BY <1>3, <1>4, <1>5, <1>6, <1>7 DEF Converse

LEMMA TasksTouched ==
  ASSUME IInv, [Next]_vars
  PROVE  \/ tasks' = tasks
         \/ SomeTaskMoves
         \/ \E ts \in SUBSET Tasks : CancelledIn(ts)
         \/ Restart
<1>1. ASSUME NEW k \in Inputs, CancelInput(k) PROVE \E ts \in SUBSET Tasks : CancelledIn(ts)
  BY <1>1 DEF CancelInput, CancelledIn, TasksFrom
<1>2. ASSUME NEW t \in Tasks, CancelTask(t) PROVE \E ts \in SUBSET Tasks : CancelledIn(ts)
  BY <1>2 DEF CancelTask, CancelledIn
<1>3. CASE (\E k \in Inputs : Send(k) \/ Signal(k)) \/ \E j \in Jobs : BackoffEnds(j)
  BY <1>3 DEF Send, Signal, BackoffEnds, store
<1>4. CASE UNCHANGED vars
  BY <1>4 DEF vars, store
<1> QED
  BY <1>1, <1>2, <1>3, <1>4, WorkerTouches, LaneTouches DEF Next

(* What a cancel does to one task. *)
LEMMA CancelledOne ==
  ASSUME IInv, NEW ts \in SUBSET Tasks, CancelledIn(ts), NEW t \in Tasks
  PROVE  \/ tasks'[t] = tasks[t]
         \/ /\ Active(t) /\ tasks'[t].state = "cancelled" /\ tasks'[t].delivery = "suppressed"
            /\ tasks'[t].tier = tasks[t].tier
<1>1. tasks[t] \in RowTypes
  BY Types DEF IInv
<1> QED
  BY <1>1 DEF CancelledIn, TasksCancelled, Active, RowTypes

(* A verdict stands, a ladder is climbed, and a task is restarted no more often *)
(* than its profile allows, whatever cancels, retries and restarts race         *)
(* (finalize, claim_task, recover).                                             *)
THEOREM VerdictsStand == Spec => TaskMovesOn
<1> DEFINE Goes(t) == /\ tasks[t].state \in Verdicts => tasks'[t].state = tasks[t].state
                      /\ tasks'[t].tier >= tasks[t].tier
                      /\ tasks'[t].restarts <= MaxTaskRestarts
<1>1. ASSUME IInv, IInv', [Next]_vars, NEW t \in Tasks PROVE Goes(t)
  <2>1. tasks[t] \in RowTypes /\ tasks'[t] \in RowTypes
    BY <1>1, Types, TypesNext DEF IInv
  <2>2. tasks[t].tier \in Nat /\ tasks'[t].tier \in Nat
    BY <2>1, WorkerAssumption DEF RowTypes
  <2>3. tasks'[t].restarts <= MaxTaskRestarts
    BY <1>1 DEF IInv, Accounted, RestartsBounded
  <2>4. CASE tasks'[t] = tasks[t]
    BY <2>2, <2>3, <2>4
  <2>5. CASE SomeTaskMoves
    <3>1. PICK u \in Tasks : Admitted(u) \/ WorkedOn(u) \/ HandedOver(u) \/ Ended(u)
      BY <2>5 DEF SomeTaskMoves
    <3>2. CASE u # t
      BY <2>4, <3>1, <3>2 DEF Admitted, WorkedOn, HandedOver, Ended, Alone
    <3>3. CASE u = t /\ Admitted(t)
      BY <2>2, <2>3, <3>3 DEF Admitted, NoRow, Verdicts
    <3>4. CASE u = t /\ (WorkedOn(t) \/ HandedOver(t) \/ Ended(t))
      BY <2>2, <2>3, <3>4 DEF WorkedOn, HandedOver, Ended, Active, ActiveStates, Verdicts
    <3> QED
      BY <3>1, <3>2, <3>3, <3>4
  <2>6. CASE \E ts \in SUBSET Tasks : CancelledIn(ts)
    BY <1>1, <2>2, <2>3, <2>4, <2>6, CancelledOne DEF Active, ActiveStates, Verdicts
  <2>7. CASE Restart
    BY <1>1, <2>2, <2>3, <2>7, RecoveredTasks DEF Active, ActiveStates, Verdicts
  <2> QED
    BY <1>1, <2>4, <2>5, <2>6, <2>7, TasksTouched
<1>2. IInv /\ IInv' /\ [Next]_vars => [\A t \in Tasks : Goes(t)]_vars
  BY <1>1
<1> QED
  BY <1>2, Invariance, PTL DEF Spec, TaskMovesOn

-----------------------------------------------------------------------------
(* The delegations keep their promise. *)

(* The fate of a task, read off its row alone. *)
Told(t) ==
  IF tasks[t].state = "absent" THEN "none"
  ELSE IF tasks[t].state = "cancelled" THEN "cancelled"
  ELSE IF Active(t) THEN IF tasks[t].delivery = "sync_waiting" THEN "awaited" ELSE "deferred"
  ELSE IF tasks[t].delivery = "sync_waiting" THEN "ready"
  ELSE IF tasks[t].delivery = "sync_delivered" THEN "handed" ELSE "reported"

Telling == \A t \in Tasks : Fate(t) = Told(t)

(* No result is lost: a row says all that happened to its task. *)
LEMMA FateIsTold == IInv => Telling
<1> SUFFICES ASSUME IInv, NEW t \in Tasks PROVE Fate(t) = Told(t)
  BY DEF Telling
<1>1. CASE tasks[t] = NoRow
  <2>1. tasks[t].state = "absent"
    BY <1>1 DEF NoRow
  <2> QED
    BY <2>1 DEF Fate, Told
<1>2. CASE Active(t)
  <2>1. tasks[t].state \notin {"absent", "cancelled"}
    BY <1>2 DEF Active, ActiveStates
  <2> QED
    BY <1>2, <2>1 DEF Fate, Told
<1>3. CASE tasks[t].state = "cancelled" /\ t \notin reports
  <2>1. tasks[t].state # "absent"
    BY <1>3
  <2> QED
    BY <1>3, <2>1 DEF Fate, Told
<1>4. CASE tasks[t].state \in {"succeeded", "failed"}
  <2>1. tasks[t].state \notin {"absent", "cancelled"} /\ ~Active(t)
    BY <1>4 DEF Active, ActiveStates
  <2>2. tasks[t].delivery \in {"sync_waiting", "sync_delivered"} \/ t \in reports
    BY <1>4, <2>1 DEF IInv, Accounted, DeliveryFits, NoRow
  <2> QED
    BY <2>1, <2>2 DEF Fate, Told
<1> QED
  BY <1>1, <1>2, <1>3, <1>4 DEF IInv, Accounted, DeliveryFits

LEMMA FateIsToldNext == IInv' => \A t \in Tasks : Fate(t)' = Told(t)'
<1>1. IInv => Telling
  BY FateIsTold
<1>2. IInv' => Telling'
  BY <1>1, PTL
<1> QED
  BY <1>2 DEF Telling

(* What a step on one task means for its fate. *)
LEMMA OneTold ==
  ASSUME IInv, NEW t \in Tasks, Admitted(t) \/ WorkedOn(t) \/ HandedOver(t) \/ Ended(t)
  PROVE  /\ \A u \in Tasks \ {t} : Told(u)' = Told(u)
         /\ \/ Told(t)' = Told(t)
            \/ Told(t) = "none" /\ Told(t)' = "awaited"
            \/ Told(t) = "awaited" /\ Told(t)' \in {"deferred", "ready"}
            \/ Told(t) = "ready" /\ Told(t)' = "handed"
            \/ Told(t) = "deferred" /\ Told(t)' = "reported"
            \/ Told(t) \in {"awaited", "deferred"} /\ Told(t)' = "cancelled"
<1> DEFINE Turned ==
      \/ Told(t)' = Told(t)
      \/ Told(t) = "none" /\ Told(t)' = "awaited"
      \/ Told(t) = "awaited" /\ Told(t)' \in {"deferred", "ready"}
      \/ Told(t) = "ready" /\ Told(t)' = "handed"
      \/ Told(t) = "deferred" /\ Told(t)' = "reported"
      \/ Told(t) \in {"awaited", "deferred"} /\ Told(t)' = "cancelled"
<1>1. \A u \in Tasks \ {t} : Told(u)' = Told(u)
  BY DEF Admitted, WorkedOn, HandedOver, Ended, Alone, Told, Active
<1>2. CASE Admitted(t)
  <2>1. Told(t) = "none" /\ Told(t)' = "awaited"
    BY <1>2 DEF Admitted, Told, Active, ActiveStates, NoRow
  <2> QED
    BY <1>1, <2>1
<1>3. CASE WorkedOn(t)
  <2>1. Turned
    BY <1>3 DEF WorkedOn, Told, Active, ActiveStates
  <2> QED
    BY <1>1, <2>1
<1>4. CASE HandedOver(t)
  <2>1. Turned
    BY <1>4 DEF HandedOver, Told, Active, IInv, Accounted, DeliveryFits, ActiveStates, NoRow
  <2> QED
    BY <1>1, <2>1
<1>5. CASE Ended(t)
  <2>1. Turned
    BY <1>5 DEF Ended, Told, Active, ActiveStates, Verdicts
  <2> QED
    BY <1>1, <2>1
<1> QED
  BY <1>2, <1>3, <1>4, <1>5

LEMMA PromiseStep ==
  ASSUME IInv, IInv', [Next]_vars
  PROVE  [Promise!Next]_([t \in Tasks |-> Fate(t)])
<1> DEFINE fate == [t \in Tasks |-> Told(t)]
<1>1. [t \in Tasks |-> Fate(t)] = fate
  BY FateIsTold DEF Telling
<1>2. [t \in Tasks |-> Fate(t)]' = fate'
  BY FateIsToldNext
<1>3. fate' = [t \in Tasks |-> Told(t)']
  OBVIOUS
<1>4. \A t \in Tasks : fate[t] = Told(t) /\ fate'[t] = Told(t)'
  BY <1>3
<1>5. \A t \in Tasks : Told(t)' \in {"none", "awaited", "deferred", "ready", "handed", "reported",
                                     "cancelled"}
  BY DEF Told
<1>6. fate' \in [Tasks -> Promise!Fates]
  BY <1>3, <1>5 DEF Promise!Fates
<1>7. CASE tasks' = tasks
  <2>1. \A t \in Tasks : Told(t)' = Told(t)
    BY <1>7 DEF Told, Active
  <2> QED
    BY <1>1, <1>2, <1>3, <2>1
<1>8. CASE SomeTaskMoves
  <2>1. PICK t \in Tasks : Admitted(t) \/ WorkedOn(t) \/ HandedOver(t) \/ Ended(t)
    BY <1>8 DEF SomeTaskMoves
  <2>2. /\ \A u \in Tasks \ {t} : Told(u)' = Told(u)
        /\ \/ Told(t)' = Told(t)
           \/ Told(t) = "none" /\ Told(t)' = "awaited"
           \/ Told(t) = "awaited" /\ Told(t)' \in {"deferred", "ready"}
           \/ Told(t) = "ready" /\ Told(t)' = "handed"
           \/ Told(t) = "deferred" /\ Told(t)' = "reported"
           \/ Told(t) \in {"awaited", "deferred"} /\ Told(t)' = "cancelled"
    BY <2>1, OneTold
  <2>3. fate' = [fate EXCEPT ![t] = Told(t)']
    BY <1>3, <2>2
  <2> HIDE DEF fate
  <2>4. CASE Told(t)' = Told(t)
    <3>1. fate' = fate
      BY <1>4, <2>3, <2>4 DEF fate
    <3> QED
      BY <1>1, <1>2, <3>1
  <2>5. CASE Told(t)' # Told(t)
    <3>1. fate[t] = Told(t)
      BY <1>4
    <3>2. Promise!Next
      BY <1>1, <1>2, <2>2, <2>3, <2>5, <3>1
         DEF Promise!Next, Promise!Becomes, Promise!Delegate, Promise!Defer, Promise!End,
             Promise!Hand, Promise!Report, Promise!Cancel
    <3> QED
      BY <3>2
  <2> QED
    BY <2>4, <2>5
<1>9. CASE \E ts \in SUBSET Tasks : CancelledIn(ts)
  <2>1. PICK ts \in SUBSET Tasks : CancelledIn(ts)
    BY <1>9
  <2>2. \A t \in Tasks : \/ Told(t)' = Told(t)
                         \/ Told(t) \in {"awaited", "deferred"} /\ Told(t)' = "cancelled"
    BY <2>1, CancelledOne DEF Told, Active, ActiveStates
  <2>3. fate' \in {g \in [Tasks -> Promise!Fates] :
          \A t \in Tasks : \/ g[t] = fate[t]
                           \/ fate[t] \in {"awaited", "deferred"} /\ g[t] = "cancelled"}
    BY <1>4, <1>6, <2>2
  <2> HIDE DEF fate
  <2>4. Promise!CancelMany
    BY <1>1, <1>2, <2>3 DEF Promise!CancelMany
  <2> QED
    BY <2>4 DEF Promise!Next
<1>10. CASE Restart
  <2>1. \A t \in Tasks : IF Told(t) \in {"awaited", "deferred"}
                         THEN Told(t)' \in {"deferred", "reported"} ELSE Told(t)' = Told(t)
    <3> SUFFICES ASSUME NEW t \in Tasks
                 PROVE  IF Told(t) \in {"awaited", "deferred"}
                        THEN Told(t)' \in {"deferred", "reported"} ELSE Told(t)' = Told(t)
      OBVIOUS
    <3>1. CASE ~Active(t)
      BY <1>10, <3>1, RecoveredTasks DEF Told, Active
    <3>2. CASE Active(t) /\ Interrupted(t)
      BY <1>10, <3>2, RecoveredTasks DEF Told, Active, ActiveStates
    <3>3. CASE Active(t) /\ ~Interrupted(t)
      BY <1>10, <3>3, RecoveredTasks DEF Told, Active, ActiveStates, Survivors
    <3> QED
      BY <3>1, <3>2, <3>3
  <2>2. fate' \in {g \in [Tasks -> Promise!Fates] :
          \A t \in Tasks : IF fate[t] \in {"awaited", "deferred"}
                           THEN g[t] \in {"deferred", "reported"} ELSE g[t] = fate[t]}
    BY <1>4, <1>6, <2>1
  <2> HIDE DEF fate
  <2>3. Promise!DeferAll
    BY <1>1, <1>2, <2>2 DEF Promise!DeferAll
  <2> QED
    BY <2>3 DEF Promise!Next
<1> QED
  BY <1>7, <1>8, <1>9, <1>10, TasksTouched

-----------------------------------------------------------------------------
(* The rows of inputs and delegations are what the queue promises. *)

RowsMove == Moved(Jobs, Audible, jobs, jobs')

(* Rows that move as a transaction may advance as promised. *)
LEMMA RowsAdvance == RowsMove => Queue!Next
<1> SUFFICES ASSUME RowsMove, NEW j \in Jobs PROVE Queue!Advances(j)
  BY DEF Queue!Next
<1>1. Advanced(Audible, j, jobs[j], jobs'[j])
  BY DEF RowsMove, Moved
<1> QED
  BY <1>1 DEF Advanced, Queue!Advances, Queue!Accepted, Queue!Taken, Queue!Ended,
       Queue!GivenBack, Queue!Stopped, Queue!Replayed, Queue!Requeued,
       Queue!Untouched, Queue!Moves, Queue!Counted, Queue!Uncounted

(* Neither an input nor a delegation can be heard. *)
LEMMA NoneAudible == \A j \in Jobs : j \notin Audible
  BY RowLanes, JobNames DEF Audible

(* An input whose lane owns it is retried or settled. *)
LEMMA AskRowMoved ==
  ASSUME IInv, NEW c \in Lanes, Asking(c),
         \/ jobs' = jobs
         \/ Asks(c) /\ jobs' = Settled(jobs, ask[c].job, "completed")
         \/ Asks(c) /\ jobs' = Settled(jobs, ask[c].job, "failed")
         \/ Asks(c) /\ jobs' = Retried(jobs, ask[c].job, MaxAttempts)
  PROVE  RowsMove
<1>1. jobs \in Tables(Jobs, Pay) /\ ask[c].job \in Jobs \ Audible
  BY Types, Voices, NoneAudible DEF IInv
<1>2. Asks(c) => jobs[ask[c].job].state = "running"
  BY DEF Asks, Owns
<1> QED
  BY <1>1, <1>2, StillMoved, SettledMoved, RetriedMoved DEF RowsMove

(* A task's row whose worker owns it is retried or fails. *)
LEMMA WorkRowMoved ==
  ASSUME IInv, NEW w \in Workers, Labouring(w),
         \/ jobs' = jobs
         \/ Works(w) /\ jobs' = Settled(jobs, work[w].job, "failed")
         \/ Works(w) /\ jobs' = Retried(jobs, work[w].job, MaxAttempts)
  PROVE  RowsMove
<1>1. jobs \in Tables(Jobs, Pay) /\ work[w].job \in Jobs \ Audible
  BY Types, Hands, NoneAudible DEF IInv
<1>2. Works(w) => jobs[work[w].job].state = "running"
  BY DEF Works, Owns
<1> QED
  BY <1>1, <1>2, StillMoved, SettledMoved, RetriedMoved DEF RowsMove

(* The steps of a conversation lane. *)
LEMMA ConverseMoved ==
  ASSUME IInv, Tallied(Jobs, jobs), NEW c \in Lanes, Converse(c)
  PROVE  RowsMove
<1>0. jobs \in Tables(Jobs, Pay)
  BY Types DEF IInv
<1>1. CASE Take(c)
  BY <1>0, <1>1, NextIsQueued, ClaimedMoved DEF Take, RowsMove
<1>2. ASSUME NEW t \in Tasks, Admit(c, t) PROVE RowsMove
  <2>1. Work(t, 0) \in WorkOf(t) /\ Work(t, 0) \in Jobs /\ "task" \in Pay
    BY JobNames DEF Pay
  <2>2. jobs[Work(t, 0)].state = "absent" /\ jobs' = Inserted(jobs, Work(t, 0), "task")
    BY <1>2, <2>1 DEF Admit, IInv, Supplied, RowsFollow
  <2>3. jobs[Work(t, 0)].attempts = 0
    BY <2>1, <2>2 DEF Tallied
  <2> QED
    BY <1>0, <2>1, <2>2, <2>3, JobsFinite, InsertedMoved DEF RowsMove
<1>3. CASE Answer(c) \/ AskFails(c) \/ PersistAsk(c)
  <2>1. /\ Asking(c)
        /\ \/ jobs' = jobs
           \/ Asks(c) /\ jobs' = Settled(jobs, ask[c].job, "completed")
           \/ Asks(c) /\ jobs' = Settled(jobs, ask[c].job, "failed")
           \/ Asks(c) /\ jobs' = Retried(jobs, ask[c].job, MaxAttempts)
    BY <1>3 DEF Answer, AskFails, PersistAsk, Asking, Finished, FailedTerminally
  <2> QED
    BY <2>1, AskRowMoved
<1>4. CASE \/ Begin(c) \/ Collect(c) \/ StopWaiting(c)
           \/ \E t \in Tasks : AdmitAgain(c, t)
  <2>1. jobs' = jobs
    BY <1>4 DEF Begin, Collect, StopWaiting, AdmitAgain, store
  <2> QED
    BY <2>1, StillMoved DEF RowsMove
<1> QED
  BY <1>1, <1>2, <1>3, <1>4 DEF Converse

(* The steps of a worker lane. *)
LEMMA LabourMoved ==
  ASSUME IInv, NEW w \in Workers, Labour(w)
  PROVE  RowsMove
<1>0. jobs \in Tables(Jobs, Pay)
  BY Types DEF IInv
<1>1. CASE TakeWork(w)
  BY <1>0, <1>1, NextIsQueued, ClaimedMoved DEF TakeWork, RowsMove
<1>2. CASE PersistWork(w)
  <2>1. /\ Labouring(w)
        /\ \/ jobs' = jobs
           \/ Works(w) /\ jobs' = Settled(jobs, work[w].job, "failed")
           \/ Works(w) /\ jobs' = Retried(jobs, work[w].job, MaxAttempts)
    BY <1>2 DEF PersistWork, Labouring, FailedTerminally, store
  <2> QED
    BY <2>1, WorkRowMoved
<1>3. CASE \/ Enter(w) \/ ClaimTask(w) \/ Decline(w) \/ BeginAttempt(w) \/ GiveUp(w) \/ Produce(w)
           \/ Succeed(w) \/ TryAgain(w) \/ EndAttempt(w) \/ Finish(w) \/ WorkFails(w)
  <2>1. jobs' = jobs
    BY <1>3 DEF Enter, ClaimTask, Decline, BeginAttempt, GiveUp, Produce, Succeed, TryAgain,
                EndAttempt, Finish, WorkFails, store
  <2> QED
    BY <2>1, StillMoved DEF RowsMove
<1> QED
  BY <1>1, <1>2, <1>3 DEF Labour

(* A restart gives inputs back and interrupts the rows of tasks; the row it adds for a *)
(* surviving task is a new one.                                                        *)
LEMMA RestartMoved ==
  ASSUME IInv, Tallied(Jobs, jobs), Restart
  PROVE  RowsMove
<1>1. Moved(Jobs, Audible, jobs, AfterCrash)
  <2> DEFINE R == {"conversation"}
             I == {"speech", "worker"}
  <2>1. R \cap I = {} /\ jobs \in Tables(Jobs, Pay) /\ AfterCrash = Recovered(jobs, R, I)
    BY Types DEF IInv, AfterCrash
  <2> HIDE DEF R, I
  <2> QED
    BY <2>1, NoneAudible, RecoveredMoved
<1>2. \A t \in Survivors : /\ Fresh(t) \in TaskJobs
                           /\ AfterCrash[Fresh(t)].state = "absent"
  <2> SUFFICES ASSUME NEW t \in Survivors
               PROVE  Fresh(t) \in TaskJobs /\ AfterCrash[Fresh(t)].state = "absent"
    OBVIOUS
  <2>1. t \in Tasks /\ tasks[t].state # "absent" /\ restarts < MaxRestarts
    BY DEF Survivors, Active, ActiveStates, Restart
  <2>2. PICK g \in Generations : g <= restarts /\ Newest(t, g)
    BY <2>1 DEF IInv, Supplied, RowsFollow
  <2>3. /\ Fresh(t) = Work(t, g + 1) /\ g + 1 \in Generations /\ Fresh(t) \in WorkOf(t)
        /\ \A h \in Generations : h > g => AfterCrash[Work(t, h)].state = "absent"
    BY <2>1, <2>2, FreshRow
  <2>4. g + 1 > g
    BY <2>2 DEF Generations
  <2> QED
    BY <2>1, <2>3, <2>4, JobNames
<1> SUFFICES ASSUME NEW j \in Jobs PROVE Advanced(Audible, j, jobs[j], jobs'[j])
  BY DEF RowsMove, Moved
<1>3. CASE \E t \in Survivors : j = Fresh(t)
  <2>1. j \in TaskJobs /\ AfterCrash[j].state = "absent"
    BY <1>2, <1>3
  <2>2. jobs[j].state = "absent" /\ jobs[j].attempts = 0
    BY <2>1, CrashedRows DEF Tallied
  <2>3. jobs'[j].state = "queued" /\ jobs'[j].attempts = 0
    BY <1>3, EnsuredRows
  <2> QED
    BY <2>2, <2>3 DEF Advanced
<1>4. CASE ~\E t \in Survivors : j = Fresh(t)
  BY <1>1, <1>4, EnsuredRows DEF Moved
<1> QED
  BY <1>3, <1>4

LEMMA NextMoved ==
  ASSUME IInv, Tallied(Jobs, jobs), [Next]_vars
  PROVE  RowsMove
<1>0. jobs \in Tables(Jobs, Pay)
  BY Types DEF IInv
<1>1. ASSUME NEW k \in Inputs, Send(k) PROVE RowsMove
  <2>1. /\ Input(k) \in Jobs /\ "text" \in Pay /\ jobs[Input(k)].state = "absent"
        /\ jobs' = Inserted(jobs, Input(k), "text")
    BY <1>1, JobNames DEF Send, Pay
  <2>2. jobs[Input(k)].attempts = 0
    BY <2>1 DEF Tallied
  <2> QED
    BY <1>0, <2>1, <2>2, JobsFinite, InsertedMoved DEF RowsMove
<1>2. ASSUME NEW k \in Inputs, CancelInput(k) PROVE RowsMove
  <2> DEFINE m == CancelledKey(jobs, k)
             C == UNION {WorkOf(t) : t \in {u \in TasksFrom(k) : Active(u)}}
  <2>1. m \in Tables(Jobs, Pay) /\ Moved(Jobs, Audible, jobs, m)
    BY <1>0, CancelledKeyRows, CancelledKeyMoved
  <2>2. \A j \in Jobs : m[j] = jobs[j] \/ m[j].state = "cancelled"
    BY <1>0 DEF CancelledKey, CancelledWhere, Tables, Rows
  <2>3. jobs' = CancelledWhere(m, C)
    BY <1>2 DEF CancelInput, JobsCancelled
  <2> HIDE DEF m, C
  <2>4. Moved(Jobs, Audible, m, jobs')
    BY <2>1, <2>3, CancelledMoved
  <2>5. \A j \in Jobs : m[j].state = "cancelled" => jobs'[j] = m[j]
    BY <2>1, <2>3, CancelledRows DEF LiveStates
  <2> QED
    BY <2>1, <2>2, <2>4, <2>5, ApartMoved DEF RowsMove
<1>3. ASSUME NEW t \in Tasks, CancelTask(t) PROVE RowsMove
  BY <1>0, <1>3, CancelledMoved DEF CancelTask, JobsCancelled, RowsMove
<1>4. ASSUME NEW j \in Jobs, BackoffEnds(j) PROVE RowsMove
  BY <1>0, <1>4 DEF BackoffEnds, RowsMove, Moved, Advanced, Tables, Rows
<1>5. ASSUME jobs' = jobs PROVE RowsMove
  BY <1>5, StillMoved DEF RowsMove
<1>6. ASSUME NEW k \in Inputs, Signal(k) PROVE RowsMove
  BY <1>5, <1>6 DEF Signal, store
<1>7. CASE UNCHANGED vars
  BY <1>5, <1>7 DEF vars, store
<1> QED
  BY <1>1, <1>2, <1>3, <1>4, <1>6, <1>7, ConverseMoved, LabourMoved, RestartMoved DEF Next

(* Delegation implements TaskPromise: whatever cancels, ends of waits, retries, *)
(* the queue's giving up and restarts happen, a result goes to the conversation *)
(* that waits or into one report, and a cancelled task's goes nowhere (admit,   *)
(* finalize, deliver_sync, cancel_task, recover). And all that its transactions *)
(* do to the rows is what the queue promises of a job, the row ensure_live_job  *)
(* adds after a crash included.                                                 *)
THEOREM DelegationsPromised == Spec => KeepsPromise
<1>1. Init => Promise!Init
  <2> SUFFICES ASSUME Init PROVE Promise!Init
    OBVIOUS
  <2>1. \A t \in Tasks : tasks[t].state = "absent"
    BY DEF Init, NoRow
  <2>2. \A t \in Tasks : Fate(t) = "none"
    BY <2>1 DEF Fate
  <2> QED
    BY <2>2 DEF Promise!Init
<1>2. IInv /\ IInv' /\ [Next]_vars => [Promise!Next]_([t \in Tasks |-> Fate(t)])
  BY PromiseStep
<1>3. Init => Tallied(Jobs, jobs) /\ Queue!Init
  BY DEF Init, Tallied, EmptyTable, AbsentRow, Queue!Init
<1>4. IInv /\ Tallied(Jobs, jobs) /\ [Next]_vars => Tallied(Jobs, jobs)' /\ Queue!Next
  <2> SUFFICES ASSUME IInv, Tallied(Jobs, jobs), [Next]_vars
               PROVE  Tallied(Jobs, jobs') /\ Queue!Next
    OBVIOUS
  <2>1. jobs \in Tables(Jobs, Pay) /\ Moved(Jobs, Audible, jobs, jobs')
    BY Types, NextMoved DEF RowsMove, IInv
  <2> QED
    BY <2>1, TalliedKept, RowsAdvance DEF RowsMove
<1>5. Spec => Promise!Spec
  BY <1>1, <1>2, Invariance, PTL DEF Spec, Promise!Spec
<1>6. Spec => Queue!Spec
  BY <1>3, <1>4, Invariance, PTL DEF Spec, Queue!Spec
<1> QED
  BY <1>5, <1>6 DEF KeepsPromise
=============================================================================
