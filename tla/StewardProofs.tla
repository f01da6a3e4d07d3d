---------------------------- MODULE StewardProofs ----------------------------
(* What holds of delegated work for every set of goals, every plan, budget and *)
(* bound: one agent works at a time, work is done only when it was proved, and *)
(* a task is told and heard once; and the tables keep the promise of a goal.   *)
EXTENDS Steward, FiniteSetTheorems, WellFoundedInduction, TLAPS

(* Rows, events and tables: what the columns may hold. *)
Row ==
  [state : TaskStates, intent : {"none", "pending", "accepted", "failed"}, due : BOOLEAN,
   reserve : {"none", "reserved", "consumed", "released"}, screen : BOOLEAN, claimed : BOOLEAN,
   report : {"none", "later", "waiting", "flushed"},
   speech : {"none", "pending", "starting", "playing", "finished", "unknown", "suppressed"}]
Event ==
  [task : Tasks, kind : {"settled", "failed", "interrupted", "outcome_unknown"},
   outcome : {"none", "pass", "fail", "missing", "unknown", "confirm"}]
Tables ==
  [withdrawn : SUBSET Goals, complete : SUBSET Goals, plan : [Goals -> Plans],
   task : [Tasks -> Row], job : [Tasks -> JobStates], events : Seq(Event)]

(* The task of the step before, on which t depends. *)
Before(t) == [t EXCEPT !.step = @ - 1]

(* A task that is not there has an empty row and no job. *)
Blank(d) == \A t \in Tasks : d.task[t].state = "absent" => d.task[t] = NoRow /\ d.job[t] = "none"

(* A report exists from the claim on, and is spoken only as a message. *)
Outbox(d) ==
  \A t \in Tasks :
    /\ d.task[t].claimed <=> d.task[t].report # "none"
    /\ d.task[t].speech \notin {"none", "pending"} => d.task[t].report = "flushed"

(* Done is proved, and a task is there only when the step before it was. *)
InOrder(d, p) ==
  \A t \in Tasks :
    /\ d.task[t].state = "done" => t \in p
    /\ d.task[t].state # "absent" /\ t.step > 1 => Before(t) \in p

(* An event is about a job there is, and a pass it carries was proved. *)
Backed(e, d, p) ==
  /\ d.job[e.task] # "none"
  /\ e.kind = "settled" => e.outcome # "none"
  /\ e.kind = "settled" /\ e.outcome = "pass" => e.task \in p

Sound(d, p) ==
  /\ d \in Tables /\ Blank(d) /\ Outbox(d) /\ InOrder(d, p)
  /\ \A i \in DOMAIN d.events : Backed(d.events[i], d, p)

(* What the processes of the system may be. *)
Labels == {"idle", "start", "flush", "follow", "speak", "say", "queue"}
Doing == [pc : Labels, launch : Tasks \cup {NoTask}, speech : SUBSET Tasks]
Typed ==
  /\ agent \in [Tasks -> {"none", "live", "orphan"}]
  /\ own \in {"none", "live", "orphan", "unknown"}
  /\ host \in [Hosts -> Doing]
  /\ playing \in SUBSET (SUBSET Tasks)
  /\ told \in [Tasks -> Nat] /\ heard \in [Tasks -> Nat] /\ proved \in SUBSET Tasks

(* What was told and heard is what the rows say. *)
Said(d, tl, hd) ==
  \A t \in Tasks :
    /\ tl[t] = IF d.task[t].report = "flushed" THEN 1 ELSE 0
    /\ hd[t] <= 1
    /\ d.task[t].speech \in {"none", "pending", "starting", "suppressed"} => hd[t] = 0

(* There is one place: a process, and a launch on its way, belongs to the job that has it. *)
Place ==
  /\ \A t, u \in Tasks : db.job[t] \in JobActive /\ db.job[u] \in JobActive => t = u
  /\ own # "none" => \A t \in Tasks : db.job[t] \notin JobActive
  /\ \A t \in Tasks : agent[t] # "none" => db.job[t] \in JobActive
  /\ \A t \in Tasks : agent[t] = "live" => db.job[t] \in Ending
  /\ \A h \in Hosts : LET t == host[h].launch IN
       t # NoTask => /\ db.job[t] \in Ending /\ agent[t] = "none"
                     /\ \A k \in Hosts : host[k].launch # NoTask => k = h

(* What is still to be consumed was written by a restart. *)
Late(d) == \A i \in DOMAIN d.events : d.events[i].kind \in {"interrupted", "outcome_unknown"}

IInv == Typed /\ Sound(db, proved) /\ Said(db, told, heard) /\ Place /\ Late(db)

-----------------------------------------------------------------------------
(* Induction over the numbers, and what consuming events is.                   *)

(* A set of numbers that is not empty has a least one, for no set of finite sets *)
(* descends for ever.                                                            *)
LEMMA LeastOf ==
  ASSUME NEW N \in SUBSET Nat, N # {}
  PROVE  \E n \in N : \A m \in N : n <= m
<1> DEFINE T == {1 .. n : n \in N}
<1>1. ASSUME NEW n \in N
      PROVE  1 .. n \in SUBSET Nat /\ IsFiniteSet(1 .. n)
  <2>1. n \in Int /\ 1 \in Int OBVIOUS
  <2> QED BY <2>1, FS_Interval
<1>2. T \subseteq FiniteSubsetsOf(Nat) /\ T # {}
  BY <1>1 DEF FiniteSubsetsOf
<1>3. IsWellFoundedOn(StrictSubsetOrdering(Nat), FiniteSubsetsOf(Nat))
  BY FS_StrictSubsetOrderingWellFounded
<1> HIDE DEF T
<1>4. PICK x \in T : \A y \in T : ~(<<y, x>> \in StrictSubsetOrdering(Nat))
  BY <1>2, <1>3, WFMin
<1> USE DEF T
<1>5. PICK n \in N : x = 1 .. n
  BY <1>4
<1>6. ASSUME NEW m \in N, m < n PROVE FALSE
  <2>1. 1 .. m \in T /\ 1 .. m \subseteq 1 .. n /\ 1 .. m # 1 .. n
    <3>1. n \in 1 .. n /\ n \notin 1 .. m /\ 1 .. m \subseteq 1 .. n
      BY <1>6
    <3> QED BY <3>1
  <2>2. <<1 .. m, 1 .. n>> \notin StrictSubsetOrdering(Nat)
    BY <1>4, <1>5, <2>1
  <2>3. <<1 .. m, 1 .. n>> \in (SUBSET Nat) \X (SUBSET Nat)
    BY <1>1
  <2> HIDE DEF T
  <2> QED BY <2>1, <2>2, <2>3 DEF StrictSubsetOrdering
<1> QED BY <1>6

(* The tables after the first n events. *)
Course(d, a, m) ==
  a = [n \in 0 .. m |-> IF n = 0 THEN d ELSE Apply(a[n - 1], d.events[n])]

(* The events may be applied up to any of them. *)
LEMMA CourseRuns ==
  ASSUME NEW d, NEW m \in Nat
  PROVE  \E a : Course(d, a, m)
<1> DEFINE Bad == {n \in Nat : ~\E a : Course(d, a, n)}
<1>1. SUFFICES ASSUME Bad # {} PROVE FALSE
  OBVIOUS
<1>2. PICK n \in Bad : \A k \in Bad : n <= k
  BY <1>1, LeastOf
<1>3. CASE n = 0
  <2>1. Course(d, [i \in 0 .. 0 |-> d], 0)
    BY DEF Course
  <2> QED BY <2>1, <1>3, <1>2
<1>4. CASE n # 0
  <2>1. n - 1 \in Nat /\ n - 1 \notin Bad
    BY <1>4, <1>2
  <2>2. PICK a : Course(d, a, n - 1)
    BY <2>1
  <2> DEFINE b == [i \in 0 .. n |-> IF i = n THEN Apply(a[n - 1], d.events[n]) ELSE a[i]]
  <2>3. ASSUME NEW i \in 0 .. n
        PROVE  b[i] = IF i = 0 THEN d ELSE Apply(b[i - 1], d.events[i])
    <3>1. CASE i = n
      BY <3>1, <1>4, <2>1
    <3>2. CASE i # n
      <4>1. i \in 0 .. n - 1 /\ b[i] = a[i]
        BY <3>2
      <4>2. a[i] = IF i = 0 THEN d ELSE Apply(a[i - 1], d.events[i])
        BY <4>1, <2>2 DEF Course
      <4>3. i # 0 => i - 1 \in 0 .. n /\ i - 1 # n
        BY <4>1
      <4> QED BY <4>1, <4>2, <4>3
    <3> QED BY <3>1, <3>2
  <2>4. b = [i \in 0 .. n |-> b[i]]
    OBVIOUS
  <2> HIDE DEF b
  <2>5. Course(d, b, n)
    BY <2>3, <2>4 DEF Course
  <2> QED BY <2>5, <1>2
<1> QED BY <1>3, <1>4

(* driver::consume goes through the events in order. *)
LEMMA ConsumeRuns ==
  ASSUME NEW d, Len(d.events) \in Nat
  PROVE  \E a : /\ Course(d, a, Len(d.events))
                /\ Consume(d) = [a[Len(d.events)] EXCEPT !.events = <<>>]
<1>1. \E a : Course(d, a, Len(d.events))
  BY CourseRuns
<1> QED
  BY <1>1, Zenon DEF Consume, Course

-----------------------------------------------------------------------------
(* What the steward's statements may do to the tables.                         *)

(* A row goes on from a to b: its report stays, it gets no done without a proof, and it *)
(* comes into being only after its dependency.                                          *)
RowKept(t, a, b, p) ==
  /\ b.claimed = a.claimed /\ b.report = a.report /\ b.speech = a.speech
  /\ \/ b = a
     \/ /\ b.state # "absent"
        /\ b.state = "done" => t \in p
        /\ a.state = "absent" /\ t.step > 1 => Before(t) \in p

(* Jobs, events and withdrawals stay. *)
Works(d, e, p) ==
  /\ e \in Tables /\ e.job = d.job /\ e.withdrawn = d.withdrawn /\ e.events = d.events
  /\ \A t \in Tasks : RowKept(t, d.task[t], e.task[t], p)

LEMMA WorksSound ==
  ASSUME NEW d, NEW e, NEW p, Sound(d, p), Works(d, e, p)
  PROVE  Sound(e, p)
<1>1. ASSUME NEW t \in Tasks
      PROVE  /\ e.task[t].state = "absent" => e.task[t] = NoRow /\ e.job[t] = "none"
             /\ e.task[t].claimed <=> e.task[t].report # "none"
             /\ e.task[t].speech \notin {"none", "pending"} => e.task[t].report = "flushed"
             /\ e.task[t].state = "done" => t \in p
             /\ e.task[t].state # "absent" /\ t.step > 1 => Before(t) \in p
  <2>1. RowKept(t, d.task[t], e.task[t], p) /\ e.job = d.job
    BY DEF Works
  <2>2. /\ d.task[t].state = "absent" => d.task[t] = NoRow /\ d.job[t] = "none"
        /\ d.task[t].claimed <=> d.task[t].report # "none"
        /\ d.task[t].speech \notin {"none", "pending"} => d.task[t].report = "flushed"
        /\ d.task[t].state = "done" => t \in p
        /\ d.task[t].state # "absent" /\ t.step > 1 => Before(t) \in p
    BY DEF Sound, Blank, Outbox, InOrder
  <2> QED BY <2>1, <2>2 DEF RowKept
<1>2. \A i \in DOMAIN e.events : Backed(e.events[i], e, p)
  BY DEF Sound, Works, Backed
<1> QED BY <1>1, <1>2 DEF Sound, Works, Blank, Outbox, InOrder

LEMMA WorksNot ==
  ASSUME NEW d, NEW p, d \in Tables
  PROVE  Works(d, d, p)
BY DEF Works, RowKept

LEMMA WorksOn ==
  ASSUME NEW d, NEW e, NEW f, NEW p, Works(d, e, p), Works(e, f, p)
  PROVE  Works(d, f, p)
<1>1. ASSUME NEW t \in Tasks PROVE RowKept(t, d.task[t], f.task[t], p)
  <2>1. RowKept(t, d.task[t], e.task[t], p) /\ RowKept(t, e.task[t], f.task[t], p)
    BY DEF Works
  <2> QED BY <2>1 DEF RowKept
<1> QED BY <1>1 DEF Works

(* A row put in the place of another. *)
LEMMA PutWorks ==
  ASSUME NEW d, NEW p, d \in Tables, NEW t \in Tasks, NEW row \in Row,
         RowKept(t, d.task[t], row, p)
  PROVE  /\ Works(d, Put(d, t, row), p)
         /\ Put(d, t, row).complete = d.complete /\ Put(d, t, row).plan = d.plan
         /\ Put(d, t, row).task = [d.task EXCEPT ![t] = row]
BY DEF Works, RowKept, Put, Tables

(* set_loop_state *)
LEMMA LoopWorks ==
  ASSUME NEW d, NEW p, d \in Tables, NEW t \in Tasks, NEW st \in TaskStates \ {"absent"},
         st = "done" => t \in p, d.task[t].state # "absent"
  PROVE  /\ Works(d, Loop(d, t, st), p)
         /\ Loop(d, t, st).complete = d.complete /\ Loop(d, t, st).plan = d.plan
         /\ \A u \in Tasks : u # t => Loop(d, t, st).task[u] = d.task[u]
         /\ Loop(d, t, st).task[t].intent = d.task[t].intent
         /\ Loop(d, t, st).task[t].state \in {d.task[t].state, st}
<1>1. CASE d.task[t].state \in {"cancelled", "outcome_unknown"} \/ ~Active(d, t.goal)
  BY <1>1, WorksNot DEF Loop
<1>2. CASE ~(d.task[t].state \in {"cancelled", "outcome_unknown"} \/ ~Active(d, t.goal))
  <2> DEFINE old == d.task[t]
             res == CASE old.reserve = "reserved" /\ st = "running" -> "consumed"
                      [] old.reserve = "reserved" /\ st = "cancelled" -> "released"
                      [] OTHER -> old.reserve
             row == [old EXCEPT !.state = st, !.reserve = res]
  <2>1. old \in Row
    BY DEF Tables
  <2>2. res \in {"none", "reserved", "consumed", "released"}
    BY <2>1 DEF Row
  <2>3. row \in Row /\ RowKept(t, old, row, p) /\ row.intent = old.intent /\ row.state = st
    BY <2>1, <2>2 DEF Row, RowKept
  <2>4. Loop(d, t, st) = Put(d, t, row)
    BY <1>2, <2>1 DEF Loop, Put, Tables, Row
  <2> HIDE DEF row
  <2>5. d.task \in [Tasks -> Row]
    BY DEF Tables
  <2>6. /\ Works(d, Put(d, t, row), p)
        /\ Put(d, t, row).complete = d.complete /\ Put(d, t, row).plan = d.plan
        /\ Put(d, t, row).task = [d.task EXCEPT ![t] = row]
    BY <2>3, PutWorks
  <2>7. row.state = st /\ row.intent = d.task[t].intent
    BY <2>3
  <2> HIDE DEF old
  <2> QED BY <2>4, <2>5, <2>6, <2>7
<1> QED BY <1>1, <1>2

LEMMA SyncedState ==
  ASSUME NEW d, NEW p, Sound(d, p), NEW t \in Tasks, d.task[t].state # "absent"
  PROVE  Synced(d, t) \in TaskStates \ {"absent"} /\ (Synced(d, t) = "done" => t \in p)
<1>1. d.task[t].state \in TaskStates /\ d.job[t] \in JobStates
  BY DEF Sound, Tables, Row
<1>2. d.task[t].state = "done" => t \in p
  BY DEF Sound, InOrder
<1> QED
  BY <1>1, <1>2 DEF Synced, TaskStates, OpenStates, JobStates, JobActive

(* sync_from_coding *)
LEMMA SyncWorks ==
  ASSUME NEW d, NEW p, Sound(d, p), NEW S
  PROVE  /\ Works(d, SyncSome(d, S), p)
         /\ SyncSome(d, S).complete = d.complete /\ SyncSome(d, S).plan = d.plan
<1> DEFINE f == SyncSome(d, S)
<1>1. d \in Tables
  BY DEF Sound
<1>2. ASSUME NEW t \in Tasks
      PROVE  f.task[t] \in Row /\ RowKept(t, d.task[t], f.task[t], p)
  <2>1. f.task[t] = IF t \notin S \/ d.task[t].state = "absent" THEN d.task[t]
                    ELSE Loop(d, t, Synced(d, t)).task[t]
    BY <1>1 DEF SyncSome, Tables
  <2>2. CASE t \notin S \/ d.task[t].state = "absent"
    BY <2>1, <2>2, <1>1 DEF RowKept, Tables
  <2>3. CASE ~(t \notin S \/ d.task[t].state = "absent")
    <3>1. Works(d, Loop(d, t, Synced(d, t)), p)
      BY <2>3, <1>1, SyncedState, LoopWorks
    <3> QED BY <2>1, <2>3, <3>1 DEF Works, Tables
  <2> QED BY <2>2, <2>3
<1>3. /\ f.job = d.job /\ f.withdrawn = d.withdrawn /\ f.events = d.events
      /\ f.complete = d.complete /\ f.plan = d.plan
      /\ f.task = [t \in Tasks |-> f.task[t]]
      /\ f = [d EXCEPT !.task = f.task]
  BY <1>1 DEF SyncSome, Tables
<1> HIDE DEF f
<1>4. f.task \in [Tasks -> Row]
  BY <1>2, <1>3
<1>5. f \in Tables
  BY <1>1, <1>3, <1>4 DEF Tables
<1> QED BY <1>2, <1>3, <1>5 DEF Works, f

LEMMA BeforeIsTask ==
  ASSUME NEW t \in Tasks, t.step > 1
  PROVE  Before(t) \in Tasks /\ Before(t).goal = t.goal /\ Before(t).plan = t.plan
BY StewardAssumption DEF Tasks, Before

(* The next step of a plan is one that is ready. *)
LEMMA NextStep ==
  ASSUME NEW F, F # {}, F \subseteq Tasks
  PROVE  (CHOOSE t \in F : \A u \in F : t.step <= u.step) \in F
<1> DEFINE N == {t.step : t \in F}
<1>1. \A t \in F : t.step \in Nat
  BY StewardAssumption DEF Tasks
<1>2. N \in SUBSET Nat /\ N # {}
  BY <1>1
<1>3. PICK n \in N : \A m \in N : n <= m
  BY <1>2, LeastOf
<1>4. \E t \in F : \A u \in F : t.step <= u.step
  BY <1>3
<1> QED BY <1>4

(* A row of the goal is added when none of its tasks is open, or nothing is. *)
Queued(d, e, g) ==
  \/ e = d
  \/ /\ \A u \in TasksOf(g) : ~Open(d, u)
     /\ \E x \in TasksOf(g) : \A u \in Tasks \ {x} : e.task[u] = d.task[u]

LEMMA QueuedUnique ==
  ASSUME NEW d, NEW e, NEW g, Queued(d, e, g), Unique(d)
  PROVE  Unique(e)
<1>1. CASE e = d
  BY <1>1
<1>2. CASE e # d
  <2>1. PICK x \in TasksOf(g) : \A u \in Tasks \ {x} : e.task[u] = d.task[u]
    BY <1>2 DEF Queued
  <2>2. x \in Tasks /\ x.goal = g /\ \A u \in Tasks : u.goal = g => ~Open(d, u)
    BY <1>2 DEF Queued, TasksOf
  <2>3. \A u \in Tasks \ {x} : Open(e, u) <=> Open(d, u)
    BY <2>1 DEF Open
  <2> QED BY <2>2, <2>3 DEF Unique
<1> QED BY <1>1, <1>2

(* The rows that were open are the ones that may be. *)
NoneOpens(d, e) == \A t \in Tasks : Open(e, t) => Open(d, t)

LEMMA NoneOpensUnique ==
  ASSUME NEW d, NEW e, NoneOpens(d, e), Unique(d)
  PROVE  Unique(e)
BY DEF NoneOpens, Unique

LEMMA LoopNoneOpens ==
  ASSUME NEW d, d \in Tables, NEW t \in Tasks, NEW st, st \in OpenStates => Open(d, t)
  PROVE  NoneOpens(d, Loop(d, t, st)) /\ \A u \in Tasks \ {t} : Loop(d, t, st).task[u] = d.task[u]
<1>1. \A u \in Tasks \ {t} : Loop(d, t, st).task[u] = d.task[u]
  BY DEF Loop, Tables
<1>2. Loop(d, t, st).task[t].state \in {d.task[t].state, st}
  BY DEF Loop, Tables, Row
<1> QED BY <1>1, <1>2 DEF NoneOpens, Open

(* queue_task *)
LEMMA QueueWorks ==
  ASSUME NEW d, NEW p, Sound(d, p), NEW g \in Goals, NEW s \in BOOLEAN
  PROVE  /\ Works(d, QueueTask(d, g, s), p) /\ Queued(d, QueueTask(d, g, s), g)
         /\ QueueTask(d, g, s).complete = d.complete /\ QueueTask(d, g, s).plan = d.plan
<1>1. d \in Tables
  BY DEF Sound
<1> DEFINE fresh == Ready(d, g)
           x == CHOOSE t \in fresh : \A u \in fresh : t.step <= u.step
           made == [NoRow EXCEPT !.state = "queued", !.intent = "pending",
                                !.reserve = "reserved", !.screen = s]
<1>2. CASE QueueTask(d, g, s) = d
  BY <1>1, <1>2, WorksNot DEF Queued
<1>3. CASE QueueTask(d, g, s) # d
  <2>1. /\ fresh # {} /\ QueueTask(d, g, s) = Put(d, x, made)
        /\ ~\E t \in TasksOf(g) : Open(d, t)
    BY <1>3, Zenon DEF QueueTask
  <2>2. fresh \subseteq Tasks /\ fresh \subseteq TasksOf(g)
    BY DEF Ready, TasksOf
  <2> HIDE DEF made, fresh
  <2>3. x \in fresh
    BY <2>1, <2>2, NextStep
  <2> HIDE DEF x
  <2>4. x \in Tasks /\ x \in TasksOf(g) /\ d.task[x].state = "absent" /\ d.task[x] = NoRow
    BY <2>2, <2>3 DEF fresh, Ready, Sound, Blank
  <2>5. x.step > 1 => Before(x) \in p
    <3>1. x.step > 1 => d.task[Before(x)].state = "done"
      BY <2>3 DEF fresh, Ready, Before
    <3> QED BY <3>1, <2>4, BeforeIsTask DEF Sound, InOrder
  <2>6. made \in Row /\ RowKept(x, NoRow, made, p)
    BY <2>5 DEF made, Row, NoRow, RowKept, TaskStates, OpenStates
  <2>7. made \in Row /\ RowKept(x, d.task[x], made, p)
    BY <2>4, <2>6
  <2>8. /\ Works(d, Put(d, x, made), p)
        /\ Put(d, x, made).complete = d.complete /\ Put(d, x, made).plan = d.plan
    <3>1. d \in Tables /\ x \in Tasks /\ made \in Row
      BY <1>1, <2>4, <2>7
    <3>2. Works(d, Put(d, x, made), p)
      BY <3>1, <2>7, PutWorks, Zenon
    <3> QED BY <3>1, <3>2 DEF Put, Tables
  <2>9. \A u \in Tasks \ {x} : Put(d, x, made).task[u] = d.task[u]
    BY <1>1 DEF Put, Tables
  <2>10. Queued(d, Put(d, x, made), g)
    BY <2>1, <2>4, <2>9 DEF Queued
  <2> QED BY <2>1, <2>8, <2>10
<1> QED BY <1>2, <1>3

(* Only a settled event with a pass completes a goal, whose plan is proved then. *)
Fulfilled(g, p) == \E q \in Plans : \A t \in TasksOf(g) : t.plan = q => t \in p
Completes(d, f, e, p) ==
  \/ f.complete = d.complete
  \/ /\ e.kind = "settled" /\ e.outcome = "pass"
     /\ e.task.goal \notin d.withdrawn /\ Fulfilled(e.task.goal, p)
     /\ f.complete = d.complete \cup {e.task.goal}

(* finish_goal_if_complete *)
LEMMA FinishWorks ==
  ASSUME NEW d, NEW p, Sound(d, p), NEW g \in Goals
  PROVE  /\ Works(d, Finish(d, g), p) /\ Finish(d, g).task = d.task
         /\ \/ Finish(d, g).complete = d.complete
            \/ Finish(d, g).complete = d.complete \cup {g} /\ Fulfilled(g, p)
<1>1. d \in Tables
  BY DEF Sound
<1>2. CASE \A t \in TasksOf(g) : t.plan = d.plan[g] => d.task[t].state = "done"
  <2> DEFINE f == [d EXCEPT !.complete = @ \cup {g}]
  <2>1. Finish(d, g) = f
    BY <1>2 DEF Finish
  <2>2. /\ f \in Tables /\ f.task = d.task /\ f.job = d.job /\ f.withdrawn = d.withdrawn
        /\ f.events = d.events /\ f.complete = d.complete \cup {g}
    BY <1>1 DEF Tables
  <2>3. Works(d, f, p)
    BY <2>2 DEF Works, RowKept
  <2>4. Fulfilled(g, p)
    <3>1. d.plan[g] \in Plans
      BY <1>1 DEF Tables
    <3>2. \A t \in TasksOf(g) : t.plan = d.plan[g] => t \in p
      BY <1>2 DEF Sound, InOrder, TasksOf
    <3> QED BY <3>1, <3>2 DEF Fulfilled
  <2> HIDE DEF f
  <2> QED BY <2>1, <2>2, <2>3, <2>4
<1>3. CASE ~\A t \in TasksOf(g) : t.plan = d.plan[g] => d.task[t].state = "done"
  <2>1. Finish(d, g) = d
    BY <1>3 DEF Finish
  <2> QED BY <2>1, <1>1, WorksNot
<1> QED BY <1>2, <1>3

(* replan_after_failure *)
LEMMA ReplanWorks ==
  ASSUME NEW d, NEW p, Sound(d, p), NEW t \in Tasks
  PROVE  /\ Works(d, Replan(d, t), p) /\ Replan(d, t).complete = d.complete
         /\ Unique(d) => Unique(Replan(d, t))
<1>1. d \in Tables /\ d.task[t] \in Row
  BY DEF Sound, Tables
<1> DEFINE f == [d EXCEPT !.plan[t.goal] = t.plan + 1]
<1>2. CASE Replan(d, t) = d
  BY <1>1, <1>2, WorksNot
<1>3. CASE Replan(d, t) # d
  <2>1. ~(t.plan > MaxReplans) /\ Replan(d, t) = QueueTask(f, t.goal, d.task[t].screen)
    BY <1>3 DEF Replan
  <2>2. t.goal \in Goals /\ t.plan + 1 \in Plans
    BY <2>1, StewardAssumption DEF Tasks, Plans
  <2>3. /\ f \in Tables /\ f.task = d.task /\ f.job = d.job /\ f.withdrawn = d.withdrawn
        /\ f.events = d.events /\ f.complete = d.complete
    BY <1>1, <2>2 DEF Tables
  <2>4. Works(d, f, p)
    BY <2>3 DEF Works, RowKept
  <2>5. Sound(f, p)
    BY <2>4, WorksSound
  <2>6. d.task[t].screen \in BOOLEAN
    BY <1>1 DEF Row
  <2> HIDE DEF f
  <2>7. /\ Works(f, Replan(d, t), p) /\ Replan(d, t).complete = f.complete
        /\ Queued(f, Replan(d, t), t.goal)
    BY <2>1, <2>2, <2>5, <2>6, QueueWorks
  <2>8. Unique(d) => Unique(f)
    BY <2>3 DEF Unique, Open
  <2>9. Unique(d) => Unique(Replan(d, t))
    BY <2>7, <2>8, QueuedUnique
  <2> QED BY <2>3, <2>4, <2>7, <2>9, WorksOn
<1> QED BY <1>2, <1>3

(* apply_terminal_event *)
LEMMA ApplyWorks ==
  ASSUME NEW d, NEW p, Sound(d, p), NEW e \in Event, Backed(e, d, p)
  PROVE  /\ Works(d, Apply(d, e), p) /\ Completes(d, Apply(d, e), e, p)
         /\ Unique(d) => Unique(Apply(d, e))
<1> DEFINE x == e.task
           to == CASE e.kind = "settled" -> Judged(e.outcome)
                   [] e.kind = "outcome_unknown" -> "outcome_unknown"
                   [] OTHER -> "failed"
           after == Loop(d, x, to)
<1>1. d \in Tables /\ x \in Tasks /\ x.goal \in Goals /\ d.task[x] \in Row
  BY DEF Sound, Tables, Event, Tasks
<1>2. CASE ~Active(d, x.goal) \/ ~Open(d, x)
  <2>1. Apply(d, e) = d
    BY <1>2 DEF Apply
  <2> QED BY <2>1, <1>1, WorksNot DEF Completes
<1>3. CASE Active(d, x.goal) /\ Open(d, x)
  <2>1. to \in TaskStates \ {"absent"}
    BY DEF Event, Backed, Judged, TaskStates, OpenStates
  <2>2. to = "done" => e.kind = "settled" /\ e.outcome = "pass" /\ x \in p
    BY DEF Event, Backed, Judged
  <2>3. d.task[x].state # "absent"
    BY <1>3 DEF Open, OpenStates
  <2>4. /\ Apply(d, e) = IF to = "done" THEN Finish(QueueTask(after, x.goal, d.task[x].screen), x.goal)
                         ELSE IF e.kind = "failed" THEN Replan(after, x) ELSE after
    BY <1>3 DEF Apply
  <2> HIDE DEF to
  <2>5. Works(d, after, p) /\ after.complete = d.complete
    <3>1. d \in Tables /\ x \in Tasks
      BY <1>1
    <3>2. Works(d, Loop(d, x, to), p)
      BY <3>1, <2>1, <2>2, <2>3, LoopWorks, Zenon
    <3>3. Loop(d, x, to).complete = d.complete
      BY <3>1, <1>1 DEF Loop, Tables
    <3> QED BY <3>2, <3>3
  <2>6. Sound(after, p)
    BY <2>5, WorksSound
  <2>10. Unique(d) => Unique(after)
    <3>1. d \in Tables /\ x \in Tasks /\ Open(d, x)
      BY <1>1, <1>3
    <3>2. NoneOpens(d, Loop(d, x, to))
      BY <3>1, LoopNoneOpens
    <3> QED BY <3>2, NoneOpensUnique
  <2> HIDE DEF after
  <2>7. CASE to = "done"
    <3> DEFINE next == QueueTask(after, x.goal, d.task[x].screen)
    <3>1. d.task[x].screen \in BOOLEAN
      BY <1>1 DEF Row
    <3>2. Works(after, next, p) /\ next.complete = after.complete /\ Queued(after, next, x.goal)
      BY <1>1, <2>6, <3>1, QueueWorks
    <3>3. Works(d, next, p) /\ Sound(next, p)
      BY <2>5, <2>6, <3>2, WorksOn, WorksSound
    <3> HIDE DEF next
    <3>4. /\ Works(next, Finish(next, x.goal), p) /\ Finish(next, x.goal).task = next.task
          /\ \/ Finish(next, x.goal).complete = next.complete
             \/ /\ Finish(next, x.goal).complete = next.complete \cup {x.goal}
                /\ Fulfilled(x.goal, p)
      BY <1>1, <3>3, FinishWorks
    <3>5. Apply(d, e) = Finish(next, x.goal)
      BY <2>4, <2>7 DEF next
    <3>6. x.goal \notin d.withdrawn
      BY <1>3 DEF Active
    <3>7. Works(d, Apply(d, e), p)
      BY <3>3, <3>4, <3>5, WorksOn
    <3>8. Completes(d, Apply(d, e), e, p)
      BY <2>2, <2>5, <2>7, <3>2, <3>4, <3>5, <3>6 DEF Completes, next
    <3>9. Unique(d) => Unique(Apply(d, e))
      <4>1. Unique(d) => Unique(next)
        BY <2>10, <3>2, QueuedUnique
      <4>2. Unique(next) => Unique(Finish(next, x.goal))
        BY <3>4 DEF Unique, Open
      <4> QED BY <3>5, <4>1, <4>2
    <3> QED BY <3>7, <3>8, <3>9
  <2>8. CASE to # "done" /\ e.kind = "failed"
    <3>1. /\ Works(after, Replan(after, x), p) /\ Replan(after, x).complete = after.complete
          /\ Unique(after) => Unique(Replan(after, x))
      BY <1>1, <2>6, ReplanWorks
    <3> QED BY <2>4, <2>5, <2>8, <2>10, <3>1, WorksOn DEF Completes
  <2>9. CASE to # "done" /\ e.kind # "failed"
    BY <2>4, <2>5, <2>9, <2>10 DEF Completes
  <2> QED BY <2>7, <2>8, <2>9
<1> QED BY <1>2, <1>3

(* What consuming may do to the goals: each that is completed has an event that says so. *)
Closes(d, f, p, n) ==
  /\ d.complete \subseteq f.complete
  /\ \A g \in f.complete \ d.complete :
       /\ g \notin d.withdrawn /\ Fulfilled(g, p)
       /\ \E i \in 1 .. n : /\ d.events[i].kind = "settled" /\ d.events[i].outcome = "pass"
                            /\ d.events[i].task.goal = g

(* driver::consume *)
LEMMA ConsumeWorks ==
  ASSUME NEW d, NEW p, Sound(d, p)
  PROVE  /\ Works([d EXCEPT !.events = <<>>], Consume(d), p)
         /\ Closes(d, Consume(d), p, Len(d.events))
         /\ Unique(d) => Unique(Consume(d))
<1> DEFINE m == Len(d.events)
<1>1. d \in Tables /\ d.events \in Seq(Event) /\ m \in Nat
  BY DEF Sound, Tables
<1>2. PICK a : Course(d, a, m) /\ Consume(d) = [a[m] EXCEPT !.events = <<>>]
  BY <1>1, ConsumeRuns
<1> DEFINE K(n) == Works(d, a[n], p) /\ Closes(d, a[n], p, n) /\ (Unique(d) => Unique(a[n]))
           Bad == {n \in Nat : n <= m /\ ~K(n)}
<1>3. ASSUME Bad # {} PROVE FALSE
  <2>1. PICK n \in Bad : \A k \in Bad : n <= k
    BY <1>3, LeastOf
  <2>2. n \in 0 .. m /\ a[n] = IF n = 0 THEN d ELSE Apply(a[n - 1], d.events[n])
    BY <1>1, <1>2, <2>1 DEF Course
  <2>3. CASE n = 0
    <3>1. a[n] = d
      BY <2>2, <2>3
    <3>2. Works(d, d, p) /\ Closes(d, d, p, n)
      BY <1>1, WorksNot DEF Closes
    <3> HIDE DEF m
    <3> QED BY <3>1, <3>2, <2>1
  <2>4. CASE n # 0
    <3> DEFINE e == d.events[n]
               b == a[n - 1]
    <3>1. n - 1 \in Nat /\ n - 1 <= m /\ n - 1 \notin Bad
      BY <2>1, <2>2, <2>4
    <3>2. Works(d, b, p) /\ Closes(d, b, p, n - 1) /\ (Unique(d) => Unique(b))
      BY <3>1
    <3>3. Sound(b, p)
      BY <3>2, WorksSound
    <3>4. n \in DOMAIN d.events /\ e \in Event
      BY <1>1, <2>2, <2>4
    <3>5. Backed(e, b, p)
      BY <3>2, <3>4 DEF Sound, Works, Backed
    <3> HIDE DEF b, e
    <3>6. /\ Works(b, Apply(b, e), p) /\ Completes(b, Apply(b, e), e, p)
          /\ Unique(b) => Unique(Apply(b, e))
      BY <3>3, <3>4, <3>5, ApplyWorks
    <3>7. a[n] = Apply(b, e)
      BY <2>2, <2>4 DEF b, e
    <3>8. Works(d, a[n], p)
      BY <3>2, <3>6, <3>7, WorksOn
    <3>9. Closes(d, a[n], p, n)
      <4>1. b.withdrawn = d.withdrawn
        BY <3>2 DEF Works
      <4>2. \A i \in 1 .. n - 1 : i \in 1 .. n
        BY <2>2
      <4>3. n \in 1 .. n
        BY <2>2, <2>4
      <4> QED BY <3>2, <3>6, <3>7, <4>1, <4>2, <4>3 DEF Closes, Completes, e
    <3>10. Unique(d) => Unique(a[n])
      BY <3>2, <3>6, <3>7
    <3> QED BY <3>8, <3>9, <3>10, <2>1
  <2> QED BY <2>3, <2>4
<1>4. Works(d, a[m], p) /\ Closes(d, a[m], p, m) /\ (Unique(d) => Unique(a[m]))
  <2>1. m \notin Bad
    BY <1>3
  <2> QED BY <2>1, <1>1
<1> DEFINE f == Consume(d)
<1>5. a[m] \in Tables
  BY <1>4 DEF Works
<1>6. /\ f \in Tables /\ f.job = a[m].job /\ f.withdrawn = a[m].withdrawn /\ f.task = a[m].task
      /\ f.complete = a[m].complete /\ f.events = <<>>
  <2>1. <<>> \in Seq(Event)
    OBVIOUS
  <2> QED BY <1>2, <1>5, <2>1 DEF Tables
<1> HIDE DEF f
<1>7. Works([d EXCEPT !.events = <<>>], f, p)
  BY <1>1, <1>4, <1>6 DEF Works, Tables
<1>8. Closes(d, f, p, m)
  BY <1>4, <1>6 DEF Closes
<1>9. Unique(d) => Unique(f)
  BY <1>4, <1>6 DEF Unique, Open
<1> QED BY <1>7, <1>8, <1>9 DEF f

-----------------------------------------------------------------------------
(* What a transaction of the steward leaves behind, and the rows of reports.   *)

SameReports(d, e) ==
  \A t \in Tasks :
    e.task[t].report = d.task[t].report /\ e.task[t].speech = d.task[t].speech

(* Jobs and withdrawals stay, and events that are late complete nothing. *)
Follows(d, e, p) ==
  /\ Sound(e, p) /\ SameReports(d, e)
  /\ e.job = d.job /\ e.withdrawn = d.withdrawn /\ e.events \in {d.events, <<>>}
  /\ Late(d) => e.complete = d.complete

LEMMA WorksFollows ==
  ASSUME NEW d, NEW e, NEW p, Sound(d, p), Works(d, e, p), e.complete = d.complete
  PROVE  Follows(d, e, p)
<1>1. Sound(e, p)
  BY WorksSound
<1> QED BY <1>1 DEF Follows, Works, RowKept, SameReports

LEMMA FollowsOn ==
  ASSUME NEW d, NEW e, NEW f, NEW p, Follows(d, e, p), Follows(e, f, p)
  PROVE  Follows(d, f, p)
<1>1. Late(d) => Late(e)
  BY DEF Follows, Late
<1> QED BY <1>1 DEF Follows, SameReports

LEMMA ConsumeFollows ==
  ASSUME NEW d, NEW p, Sound(d, p)
  PROVE  Follows(d, Consume(d), p) /\ Consume(d).events = <<>>
<1> DEFINE e == [d EXCEPT !.events = <<>>]
           f == Consume(d)
<1>1. d \in Tables /\ <<>> \in Seq(Event)
  BY DEF Sound
<1>2. /\ e \in Tables /\ e.job = d.job /\ e.withdrawn = d.withdrawn /\ e.task = d.task
      /\ e.events = <<>> /\ e.complete = d.complete
  BY <1>1 DEF Tables
<1>3. Sound(e, p)
  BY <1>2 DEF Sound, Blank, Outbox, InOrder
<1>4. Works(e, f, p) /\ Closes(d, f, p, Len(d.events))
  BY ConsumeWorks
<1> HIDE DEF e, f
<1>5. Sound(f, p)
  BY <1>3, <1>4, WorksSound
<1>6. SameReports(d, f) /\ f.job = d.job /\ f.withdrawn = d.withdrawn /\ f.events = <<>>
  BY <1>2, <1>4 DEF Works, RowKept, SameReports
<1>7. ASSUME Late(d) PROVE f.complete = d.complete
  <2>1. \A i \in 1 .. Len(d.events) : d.events[i].kind # "settled"
    BY <1>1, <1>7 DEF Late, Tables
  <2> QED BY <2>1, <1>4 DEF Closes
<1> QED BY <1>5, <1>6, <1>7 DEF Follows, f

LEMMA SyncFollows ==
  ASSUME NEW d, NEW p, Sound(d, p), NEW S
  PROVE  Follows(d, SyncSome(d, S), p)
BY SyncWorks, WorksFollows

LEMMA RecoverFollows ==
  ASSUME NEW d, NEW p, Sound(d, p), NEW S
  PROVE  /\ Follows(d, SyncSome(Consume(d), S), p)
         /\ SyncSome(Consume(d), S).events = <<>>
<1>1. Follows(d, Consume(d), p) /\ Consume(d).events = <<>>
  BY ConsumeFollows
<1>2. Sound(Consume(d), p)
  BY <1>1 DEF Follows
<1>3. Follows(Consume(d), SyncSome(Consume(d), S), p)
  BY <1>2, SyncFollows
<1>4. SyncSome(Consume(d), S).events = <<>>
  BY <1>1, <1>3 DEF Follows
<1> QED BY <1>1, <1>3, <1>4, FollowsOn

(* Only reports and their speech are written, for rows that are there. *)
Notes(d, e) ==
  /\ e \in Tables /\ e.job = d.job /\ e.withdrawn = d.withdrawn /\ e.events = d.events
  /\ e.complete = d.complete /\ e.plan = d.plan
  /\ \A t \in Tasks : /\ e.task[t].state = d.task[t].state
                      /\ e.task[t].intent = d.task[t].intent
                      /\ d.task[t].state = "absent" => e.task[t] = d.task[t]

LEMMA NotesSound ==
  ASSUME NEW d, NEW e, NEW p, Sound(d, p), Notes(d, e), Outbox(e)
  PROVE  Sound(e, p)
BY DEF Sound, Notes, Blank, InOrder, Backed

(* The table of rows alone is replaced. *)
LEMMA RowsNoted ==
  ASSUME NEW d, NEW r \in [Tasks -> Row], d \in Tables,
         \A t \in Tasks : /\ r[t].state = d.task[t].state /\ r[t].intent = d.task[t].intent
                          /\ d.task[t].state = "absent" => r[t] = d.task[t]
  PROVE  Notes(d, [d EXCEPT !.task = r]) /\ [d EXCEPT !.task = r].task = r
BY DEF Notes, Tables

(* claim_terminals *)
LEMMA ClaimNotes ==
  ASSUME NEW d, NEW p, Sound(d, p), NEW silent \in BOOLEAN, NEW tl, NEW hd, Said(d, tl, hd)
  PROVE  /\ Notes(d, Claim(d, silent)) /\ Sound(Claim(d, silent), p)
         /\ Said(Claim(d, silent), tl, hd)
<1> DEFINE r == Claim(d, silent).task
<1>1. d \in Tables
  BY DEF Sound
<1>2. Claim(d, silent) = [d EXCEPT !.task = r] /\ r = [t \in Tasks |-> r[t]]
  BY <1>1 DEF Claim, Tables
<1>3. ASSUME NEW t \in Tasks
      PROVE  /\ r[t] \in Row /\ r[t].state = d.task[t].state /\ r[t].intent = d.task[t].intent
             /\ d.task[t].state = "absent" => r[t] = d.task[t]
             /\ r[t].claimed <=> r[t].report # "none"
             /\ r[t].speech \notin {"none", "pending"} => r[t].report = "flushed"
             /\ r[t].report = "flushed" <=> d.task[t].report = "flushed"
             /\ \/ r[t].speech = d.task[t].speech
                \/ r[t].speech \in {"none", "pending"} /\ d.task[t].speech \in {"none", "pending"}
  <2>1. d.task[t] \in Row
    BY <1>1 DEF Tables
  <2>2. /\ d.task[t].claimed <=> d.task[t].report # "none"
        /\ d.task[t].speech \notin {"none", "pending"} => d.task[t].report = "flushed"
    BY DEF Sound, Outbox
  <2> DEFINE made == [d.task[t] EXCEPT !.claimed = TRUE,
                                       !.report = IF silent THEN "later" ELSE "waiting",
                                       !.speech = IF silent THEN "none" ELSE "pending"]
  <2>3. r[t] = IF d.task[t].state \notin Reportable \/ d.task[t].claimed THEN d.task[t] ELSE made
    BY <1>1 DEF Claim, Tables
  <2>4. /\ made \in Row /\ made.state = d.task[t].state /\ made.intent = d.task[t].intent
        /\ made.claimed /\ made.report \in {"later", "waiting"} /\ made.speech \in {"none", "pending"}
    BY <2>1 DEF Row
  <2> HIDE DEF made, r
  <2>5. CASE d.task[t].state \notin Reportable \/ d.task[t].claimed
    BY <2>1, <2>2, <2>3, <2>5
  <2>6. CASE ~(d.task[t].state \notin Reportable \/ d.task[t].claimed)
    <3>1. d.task[t].state # "absent" /\ r[t] = made /\ d.task[t].report = "none"
      BY <2>1, <2>2, <2>3, <2>6 DEF Reportable, Row
    <3> QED BY <3>1, <2>1, <2>2, <2>4
  <2> QED BY <2>5, <2>6
<1> HIDE DEF r
<1>4. r \in [Tasks -> Row]
  BY <1>2, <1>3
<1>5. Notes(d, [d EXCEPT !.task = r]) /\ [d EXCEPT !.task = r].task = r
  BY <1>1, <1>3, <1>4, RowsNoted
<1>6. Notes(d, Claim(d, silent)) /\ Claim(d, silent).task = r
  BY <1>2, <1>5
<1>7. Outbox(Claim(d, silent))
  BY <1>3, <1>6 DEF Outbox
<1>8. Said(Claim(d, silent), tl, hd)
  BY <1>3, <1>6 DEF Said
<1> QED BY <1>6, <1>7, <1>8, NotesSound

(* outbox::flush_unflushed, with a message for all that waits *)
LEMMA FlushNotes ==
  ASSUME NEW d, NEW p, Sound(d, p), NEW tl \in [Tasks -> Nat], NEW hd, Said(d, tl, hd)
  PROVE  /\ Notes(d, Flush(d)) /\ Sound(Flush(d), p)
         /\ Said(Flush(d), [t \in Tasks |-> tl[t] + IF t \in Waiting(d) THEN 1 ELSE 0], hd)
<1> DEFINE r == Flush(d).task
           told2 == [t \in Tasks |-> tl[t] + IF t \in Waiting(d) THEN 1 ELSE 0]
<1>1. d \in Tables
  BY DEF Sound
<1>2. Flush(d) = [d EXCEPT !.task = r] /\ r = [t \in Tasks |-> r[t]]
  BY <1>1 DEF Flush, Tables
<1>3. ASSUME NEW t \in Tasks
      PROVE  /\ r[t] \in Row /\ r[t].state = d.task[t].state /\ r[t].intent = d.task[t].intent
             /\ d.task[t].state = "absent" => r[t] = d.task[t]
             /\ r[t].claimed <=> r[t].report # "none"
             /\ r[t].speech \notin {"none", "pending"} => r[t].report = "flushed"
             /\ r[t].speech = d.task[t].speech
             /\ told2[t] = IF r[t].report = "flushed" THEN 1 ELSE 0
  <2>1. d.task[t] \in Row /\ tl[t] \in Nat
    BY <1>1 DEF Tables
  <2>2. /\ d.task[t].claimed <=> d.task[t].report # "none"
        /\ d.task[t].speech \notin {"none", "pending"} => d.task[t].report = "flushed"
        /\ d.task[t].state = "absent" => d.task[t].report = "none"
    BY DEF Sound, Outbox, Blank, NoRow
  <2>3. tl[t] = IF d.task[t].report = "flushed" THEN 1 ELSE 0
    BY DEF Said
  <2>4. r[t] = IF d.task[t].report = "waiting" THEN [d.task[t] EXCEPT !.report = "flushed"]
               ELSE d.task[t]
    BY <1>1 DEF Flush, Tables, Waiting
  <2>5. told2[t] = tl[t] + IF d.task[t].report = "waiting" THEN 1 ELSE 0
    BY DEF Waiting
  <2> HIDE DEF r, told2
  <2>6. CASE d.task[t].report = "waiting"
    <3>1. r[t] = [d.task[t] EXCEPT !.report = "flushed"] /\ told2[t] = 1
      BY <2>3, <2>4, <2>5, <2>6
    <3> QED BY <3>1, <2>1, <2>2, <2>6 DEF Row
  <2>7. CASE d.task[t].report # "waiting"
    BY <2>1, <2>2, <2>3, <2>4, <2>5, <2>7
  <2> QED BY <2>6, <2>7
<1> HIDE DEF r, told2
<1>4. r \in [Tasks -> Row]
  BY <1>2, <1>3
<1>5. Notes(d, [d EXCEPT !.task = r]) /\ [d EXCEPT !.task = r].task = r
  BY <1>1, <1>3, <1>4, RowsNoted
<1>6. Notes(d, Flush(d)) /\ Flush(d).task = r
  BY <1>2, <1>5
<1>7. Outbox(Flush(d))
  BY <1>3, <1>6 DEF Outbox
<1>8. Said(Flush(d), told2, hd)
  BY <1>3, <1>6 DEF Said
<1> QED BY <1>6, <1>7, <1>8, NotesSound DEF told2

(* Speech of messages is moved on; what is begun was heard. *)
LEMMA VoicedNotes ==
  ASSUME NEW d, NEW p, Sound(d, p), NEW S,
         NEW st \in {"starting", "suppressed", "playing", "finished", "unknown"},
         \A t \in S : t \in Tasks /\ d.task[t].report = "flushed",
         NEW tl, NEW hd, Said(d, tl, hd), NEW hd2,
         \A t \in Tasks : t \notin S => hd2[t] = hd[t],
         \A t \in S : hd2[t] <= 1 /\ (st \in {"starting", "suppressed"} => hd2[t] = 0)
  PROVE  /\ Notes(d, Voiced(d, S, st)) /\ Sound(Voiced(d, S, st), p)
         /\ Said(Voiced(d, S, st), tl, hd2)
<1> DEFINE r == Voiced(d, S, st).task
<1>1. d \in Tables
  BY DEF Sound
<1>2. Voiced(d, S, st) = [d EXCEPT !.task = r] /\ r = [t \in Tasks |-> r[t]]
  BY <1>1 DEF Voiced, Tables
<1>3. ASSUME NEW t \in Tasks
      PROVE  /\ r[t] \in Row /\ r[t].state = d.task[t].state /\ r[t].intent = d.task[t].intent
             /\ d.task[t].state = "absent" => r[t] = d.task[t]
             /\ r[t].claimed <=> r[t].report # "none"
             /\ r[t].speech \notin {"none", "pending"} => r[t].report = "flushed"
             /\ r[t].report = d.task[t].report
             /\ hd2[t] <= 1
             /\ r[t].speech \in {"none", "pending", "starting", "suppressed"} => hd2[t] = 0
  <2>1. d.task[t] \in Row
    BY <1>1 DEF Tables
  <2>2. /\ d.task[t].claimed <=> d.task[t].report # "none"
        /\ d.task[t].speech \notin {"none", "pending"} => d.task[t].report = "flushed"
        /\ d.task[t].state = "absent" => d.task[t].report = "none"
    BY DEF Sound, Outbox, Blank, NoRow
  <2>3. r[t] = IF t \in S THEN [d.task[t] EXCEPT !.speech = st] ELSE d.task[t]
    BY <1>1 DEF Voiced, Tables
  <2>4. hd[t] <= 1 /\ (d.task[t].speech \in {"none", "pending", "starting", "suppressed"} => hd[t] = 0)
    BY DEF Said
  <2> HIDE DEF r
  <2>5. CASE t \in S
    <3>1. r[t] = [d.task[t] EXCEPT !.speech = st] /\ d.task[t].report = "flushed"
      BY <2>3, <2>5
    <3> QED BY <3>1, <2>1, <2>2, <2>5 DEF Row
  <2>6. CASE t \notin S
    BY <2>1, <2>2, <2>3, <2>4, <2>6
  <2> QED BY <2>5, <2>6
<1> HIDE DEF r
<1>4. r \in [Tasks -> Row]
  BY <1>2, <1>3
<1>5. Notes(d, [d EXCEPT !.task = r]) /\ [d EXCEPT !.task = r].task = r
  BY <1>1, <1>3, <1>4, RowsNoted
<1>6. Notes(d, Voiced(d, S, st)) /\ Voiced(d, S, st).task = r
  BY <1>2, <1>5
<1>7. Outbox(Voiced(d, S, st))
  BY <1>3, <1>6 DEF Outbox
<1>8. Said(Voiced(d, S, st), tl, hd2)
  BY <1>3, <1>6 DEF Said
<1> QED BY <1>6, <1>7, <1>8, NotesSound

-----------------------------------------------------------------------------
(* Dispatch and the table of jobs.                                             *)

(* Jobs are written: a job there is stays, and a task that is not there gets none. *)
LEMMA JobsSound ==
  ASSUME NEW d, NEW p, Sound(d, p), NEW j \in [Tasks -> JobStates],
         \A t \in Tasks : /\ d.job[t] # "none" => j[t] # "none"
                          /\ d.task[t].state = "absent" => j[t] = "none"
  PROVE  Sound([d EXCEPT !.job = j], p)
<1> DEFINE e == [d EXCEPT !.job = j]
<1>1. d \in Tables
  BY DEF Sound
<1>2. e \in Tables /\ e.task = d.task /\ e.job = j /\ e.events = d.events
  BY <1>1 DEF Tables
<1>3. \A i \in DOMAIN d.events : d.events[i] \in Event /\ d.events[i].task \in Tasks
  <2>1. d.events \in Seq(Event)
    BY <1>1 DEF Tables
  <2>2. \A i \in DOMAIN d.events : d.events[i] \in Event
    BY <2>1
  <2>3. \A x \in Event : x.task \in Tasks
    BY DEF Event
  <2> QED BY <2>2, <2>3
<1> HIDE DEF e
<1>4. \A i \in DOMAIN e.events : Backed(e.events[i], e, p)
  BY <1>2, <1>3 DEF Sound, Backed
<1>5. Blank(e) /\ Outbox(e) /\ InOrder(e, p)
  BY <1>2 DEF Sound, Blank, Outbox, InOrder
<1> QED BY <1>2, <1>4, <1>5 DEF Sound, e

(* A row that is there gets other columns than its state and its report. *)
LEMMA RowWorks ==
  ASSUME NEW d, NEW p, Sound(d, p), NEW t \in Tasks, d.task[t].state # "absent",
         NEW row \in Row, row.state = d.task[t].state, row.claimed = d.task[t].claimed,
         row.report = d.task[t].report, row.speech = d.task[t].speech
  PROVE  Works(d, Put(d, t, row), p) /\ Put(d, t, row).complete = d.complete
<1>1. RowKept(t, d.task[t], row, p)
  BY DEF RowKept, Sound, InOrder
<1>2. d \in Tables
  BY DEF Sound
<1>3. Works(d, Put(d, t, row), p)
  BY <1>1, <1>2, PutWorks, Zenon
<1> QED BY <1>2, <1>3 DEF Put, Tables

(* An intent that is parked or refused. *)
LEMMA ParkWorks ==
  ASSUME NEW d, NEW p, Sound(d, p), NEW t \in Tasks, d.task[t].state # "absent"
  PROVE  /\ Works(d, Park(d, t), p) /\ Park(d, t).complete = d.complete
         /\ Works(d, Refuse(d, t), p) /\ Refuse(d, t).complete = d.complete
<1>1. d \in Tables /\ d.task[t] \in Row
  BY DEF Sound, Tables
<1> DEFINE parked == [d.task[t] EXCEPT !.intent = "pending", !.due = FALSE]
           refused == [d.task[t] EXCEPT !.intent = "failed"]
<1>2. Park(d, t) = Put(d, t, parked) /\ Refuse(d, t) = Put(d, t, refused)
  BY <1>1 DEF Park, Refuse, Put, Tables
<1>3. /\ parked \in Row /\ parked.state = d.task[t].state
      /\ parked.claimed = d.task[t].claimed
      /\ parked.report = d.task[t].report /\ parked.speech = d.task[t].speech
  BY <1>1 DEF Row
<1>4. /\ refused \in Row /\ refused.state = d.task[t].state
      /\ refused.claimed = d.task[t].claimed
      /\ refused.report = d.task[t].report /\ refused.speech = d.task[t].speech
  BY <1>1 DEF Row
<1> HIDE DEF parked, refused
<1>5. Works(d, Put(d, t, parked), p) /\ Put(d, t, parked).complete = d.complete
  BY <1>3, RowWorks
<1>6. Works(d, Put(d, t, refused), p) /\ Put(d, t, refused).complete = d.complete
  BY <1>4, RowWorks
<1> QED BY <1>2, <1>5, <1>6

(* The loop state of a task that is there is set, and its row may be written after that. *)
LEMMA LoopSound ==
  ASSUME NEW d, NEW p, Sound(d, p), NEW t \in Tasks, d.task[t].state # "absent",
         NEW st \in TaskStates \ {"absent", "done"}
  PROVE  /\ Works(d, Loop(d, t, st), p) /\ Loop(d, t, st).complete = d.complete
         /\ Sound(Loop(d, t, st), p) /\ Loop(d, t, st).task[t].state # "absent"
<1>1. d \in Tables /\ st \in TaskStates \ {"absent"} /\ st # "done"
  BY DEF Sound
<1>2. /\ Works(d, Loop(d, t, st), p)
      /\ Loop(d, t, st).complete = d.complete
      /\ Loop(d, t, st).task[t].state \in {d.task[t].state, st}
  BY <1>1, LoopWorks
<1>3. Sound(Loop(d, t, st), p)
  BY <1>2, WorksSound
<1> QED BY <1>1, <1>2, <1>3

(* The task is launched: it has a job now, and nothing else changed that others see. *)
Launches(d, e, p, t) ==
  /\ ~Busy(d) /\ ~Spent(d, t.goal) /\ d.job[t] = "none"
  /\ Sound(e, p) /\ SameReports(d, e) /\ e.job = [d.job EXCEPT ![t] = "queued"]
  /\ e.withdrawn = d.withdrawn /\ e.events = d.events /\ e.complete = d.complete

(* prepare_candidate *)
LEMMA PrepareWorks ==
  ASSUME NEW d, NEW p, Sound(d, p), NEW t \in Tasks, d.task[t].state = "queued", NEW finding
  PROVE  \/ Follows(d, Prepare(d, t, finding).db, p) /\ Prepare(d, t, finding).launch = NoTask
         \/ Launches(d, Prepare(d, t, finding).db, p, t) /\ Prepare(d, t, finding).launch = t
<1> DEFINE r == Prepare(d, t, finding)
           Stay(e) == [db |-> e, launch |-> NoTask]
           there == [Loop(d, t, "running") EXCEPT
                       !.task[t].intent = "accepted", !.job[t] = IF @ = "none" THEN "queued" ELSE @]
<1>1. d \in Tables /\ d.task[t].state # "absent"
  BY DEF Sound
<1>2. \/ r = Stay(Loop(d, t, "awaiting_user"))
      \/ r = Stay(Park(Loop(d, t, "awaiting_user"), t))
      \/ r = Stay(Loop(d, t, "running"))
      \/ r = Stay(d)
      \/ r = Stay(Refuse(Loop(d, t, "cancelled"), t))
      \/ r = Stay(Refuse(Loop(d, t, "failed"), t))
      \/ r = Stay(Park(d, t))
      \/ /\ ~Busy(d) /\ ~Spent(d, t.goal)
         /\ r = [db |-> there, launch |-> IF d.job[t] = "none" THEN t ELSE NoTask]
  BY DEF Prepare
<1>3. ASSUME NEW st \in {"awaiting_user", "running", "cancelled", "failed"}
      PROVE  /\ Works(d, Loop(d, t, st), p) /\ Loop(d, t, st).complete = d.complete
             /\ Sound(Loop(d, t, st), p) /\ Loop(d, t, st).task[t].state # "absent"
  <2>1. st \in TaskStates \ {"absent", "done"}
    BY DEF TaskStates, OpenStates
  <2> QED BY <2>1, <1>1, LoopSound
<1>4. ASSUME NEW e, Works(d, e, p), e.complete = d.complete, r = Stay(e)
      PROVE  Follows(d, r.db, p) /\ r.launch = NoTask
  <2>1. Follows(d, e, p)
    BY <1>4, WorksFollows
  <2> QED BY <2>1, <1>4
<1>5. ASSUME NEW st \in {"awaiting_user", "running", "cancelled", "failed"}
      PROVE  /\ Works(d, Park(Loop(d, t, st), t), p)
             /\ Park(Loop(d, t, st), t).complete = d.complete
             /\ Works(d, Refuse(Loop(d, t, st), t), p)
             /\ Refuse(Loop(d, t, st), t).complete = d.complete
  <2> DEFINE a == Loop(d, t, st)
  <2>1. /\ Works(d, a, p) /\ a.complete = d.complete
        /\ Sound(a, p) /\ a.task[t].state # "absent"
    BY <1>3
  <2> HIDE DEF a
  <2>2. /\ Works(a, Park(a, t), p) /\ Park(a, t).complete = a.complete
        /\ Works(a, Refuse(a, t), p) /\ Refuse(a, t).complete = a.complete
    BY <2>1, ParkWorks
  <2>3. Works(d, Park(a, t), p) /\ Works(d, Refuse(a, t), p)
    BY <2>1, <2>2, WorksOn
  <2> QED BY <2>1, <2>2, <2>3 DEF a
<1>6. Works(d, Park(d, t), p) /\ Park(d, t).complete = d.complete
  BY <1>1, ParkWorks
<1>7. Works(d, d, p)
  BY <1>1, WorksNot
<1>8. ASSUME ~Busy(d), ~Spent(d, t.goal),
             r = [db |-> there, launch |-> IF d.job[t] = "none" THEN t ELSE NoTask]
      PROVE  \/ Follows(d, r.db, p) /\ r.launch = NoTask
             \/ Launches(d, r.db, p, t) /\ r.launch = t
  <2> DEFINE a == Loop(d, t, "running")
             row == [a.task[t] EXCEPT !.intent = "accepted"]
             b == Put(a, t, row)
             j == [d.job EXCEPT ![t] = IF @ = "none" THEN "queued" ELSE @]
  <2>1. /\ Works(d, a, p) /\ a.complete = d.complete
        /\ Sound(a, p) /\ a.task[t].state # "absent"
    BY <1>3
  <2>2. a \in Tables /\ a.task[t] \in Row /\ a.job = d.job
    BY <2>1 DEF Sound, Tables, Works
  <2>3. there = [b EXCEPT !.job = j]
    BY <2>2, <1>1 DEF Put, Tables
  <2> HIDE DEF a
  <2>4. /\ row \in Row /\ row.state = a.task[t].state /\ row.claimed = a.task[t].claimed
        /\ row.report = a.task[t].report /\ row.speech = a.task[t].speech
    BY <2>2 DEF Row
  <2> HIDE DEF row
  <2>5. Works(a, b, p) /\ b.complete = a.complete
    BY <2>1, <2>4, RowWorks
  <2>6. b.task[t].state # "absent"
    BY <2>1, <2>2, <2>4 DEF Put, Tables
  <2> HIDE DEF b
  <2>7. Works(d, b, p) /\ Sound(b, p)
    BY <2>1, <2>5, WorksOn, WorksSound
  <2>8. Follows(d, b, p) /\ b.job = d.job /\ b.events = d.events
    BY <2>1, <2>5, <2>7, WorksFollows DEF Works
  <2>9. CASE d.job[t] # "none"
    <3>1. j = d.job
      BY <2>9, <1>1 DEF Tables
    <3>2. there = b
      BY <2>3, <2>8, <3>1, <2>7 DEF Sound, Tables
    <3> QED BY <2>8, <2>9, <3>2, <1>8
  <2>10. CASE d.job[t] = "none"
    <3>1. j = [d.job EXCEPT ![t] = "queued"] /\ j \in [Tasks -> JobStates]
      BY <2>10, <1>1 DEF Tables, JobStates, JobActive
    <3>2. \A u \in Tasks : /\ b.job[u] # "none" => j[u] # "none"
                           /\ b.task[u].state = "absent" => j[u] = "none"
      BY <3>1, <2>6, <2>7, <2>8, <1>1 DEF Sound, Blank, Tables
    <3> HIDE DEF j
    <3>3. Sound(there, p)
      BY <2>3, <2>7, <3>1, <3>2, JobsSound
    <3>4. b \in Tables
      BY <2>7 DEF Sound
    <3>5. /\ there.job = j /\ there.task = b.task /\ there.withdrawn = b.withdrawn
          /\ there.events = b.events /\ there.complete = b.complete
      BY <2>3, <3>4 DEF Tables
    <3> HIDE DEF there
    <3>6. SameReports(d, there)
      BY <3>5, <2>8 DEF Follows, SameReports
    <3>7. /\ there.withdrawn = d.withdrawn /\ there.events = d.events
          /\ there.complete = d.complete
      BY <3>5, <2>1, <2>5, <2>7 DEF Works
    <3>8. Launches(d, there, p, t)
      BY <1>8, <2>10, <3>1, <3>3, <3>5, <3>6, <3>7 DEF Launches
    <3> QED BY <3>8, <2>10, <1>8
  <2> QED BY <2>9, <2>10
<1> HIDE DEF r, there
<1> QED
  <2>1. CASE r = Stay(Loop(d, t, "awaiting_user")) \/ r = Stay(Loop(d, t, "running"))
    BY <2>1, <1>3, <1>4 DEF r
  <2>2. CASE r = Stay(d)
    BY <2>2, <1>4, <1>7 DEF r
  <2>3. CASE r = Stay(Park(d, t))
    BY <2>3, <1>4, <1>6 DEF r
  <2>4. CASE \/ r = Stay(Park(Loop(d, t, "awaiting_user"), t))
             \/ r = Stay(Refuse(Loop(d, t, "cancelled"), t))
             \/ r = Stay(Refuse(Loop(d, t, "failed"), t))
    BY <2>4, <1>4, <1>5 DEF r
  <2> QED BY <1>2, <1>8, <2>1, <2>2, <2>3, <2>4 DEF r

-----------------------------------------------------------------------------
(* Steps that leave the jobs alone.                                            *)

(* What the promise of a goal sees is as before. *)
GoalQuiet ==
  /\ db'.withdrawn = db.withdrawn /\ db'.complete = db.complete /\ proved' = proved
  /\ {t \in Tasks : db'.job[t] # "none"} = {t \in Tasks : db.job[t] # "none"}
  /\ {t \in Tasks : db'.job[t] \in JobActive} = {t \in Tasks : db.job[t] \in JobActive}

SameLaunches == \A h \in Hosts : host'[h].launch = host[h].launch

(* Neither promise sees anything. *)
Quiet == GoalQuiet /\ db'.job = db.job /\ agent' = agent /\ SameLaunches

GoalSteps == [Promise!Next]_(Promise!gvars)
RunSteps == [Delegated!Next]_(Delegated!rvars)
Promised == GoalSteps /\ RunSteps

LEMMA GoalQuietSteps == GoalQuiet => GoalSteps
BY DEF GoalQuiet, GoalSteps, Promise!gvars

LEMMA QuietPromised == Quiet => Promised
<1> SUFFICES ASSUME Quiet PROVE Promised
  OBVIOUS
<1>1. \A t \in Tasks : AgentOf(t)' = AgentOf(t)
  BY DEF Quiet, SameLaunches, AgentOf
<1>2. [t \in Tasks |-> AgentOf(t)]' = [t \in Tasks |-> AgentOf(t)]
  BY <1>1
<1>3. UNCHANGED Delegated!rvars
  BY <1>2 DEF Quiet, Delegated!rvars
<1>4. RunSteps
  BY <1>3 DEF RunSteps
<1> QED BY <1>4, GoalQuietSteps DEF Quiet, Promised

(* The run of one task moves, and no other does. *)
RunMoves(t, st, ag) ==
  /\ db'.job[t] = st /\ AgentOf(t)' = ag
  /\ \A u \in Tasks \ {t} : db'.job[u] = db.job[u] /\ AgentOf(u)' = AgentOf(u)

LEMMA RunMoved ==
  ASSUME NEW t \in Tasks, NEW st, NEW ag, RunMoves(t, st, ag),
         db.job \in [Tasks -> JobStates], db'.job \in [Tasks -> JobStates]
  PROVE  Delegated!Moves(t, st, ag)
<1> DEFINE A == [u \in Tasks |-> AgentOf(u)]
<1>1. db'.job = [db.job EXCEPT ![t] = st]
  BY DEF RunMoves
<1>2. A' = [A EXCEPT ![t] = ag]
  BY DEF RunMoves
<1> QED BY <1>1, <1>2 DEF Delegated!Moves

(* A process that is there has been launched. *)
LEMMA AgentLaunched ==
  ASSUME Place, NEW t \in Tasks, agent[t] # "none"
  PROVE  AgentOf(t) = agent[t] /\ \A h \in Hosts : host[h].launch # t
<1>1. NoTask \notin Tasks
  BY StewardAssumption
<1>2. \A h \in Hosts : host[h].launch # t
  BY <1>1 DEF Place
<1> QED BY <1>2 DEF AgentOf

LEMMA PlaceStays ==
  ASSUME Place, db'.job = db.job, agent' = agent, own' = own, SameLaunches
  PROVE  Place'
<1>1. ASSUME NEW h \in Hosts, host'[h].launch # NoTask
      PROVE  /\ db'.job[host'[h].launch] \in Ending /\ agent'[host'[h].launch] = "none"
             /\ \A k \in Hosts : host'[k].launch # NoTask => k = h
  BY <1>1 DEF Place, SameLaunches
<1>2. /\ \A t, u \in Tasks : db'.job[t] \in JobActive /\ db'.job[u] \in JobActive => t = u
      /\ own' # "none" => \A t \in Tasks : db'.job[t] \notin JobActive
      /\ \A t \in Tasks : agent'[t] # "none" => db'.job[t] \in JobActive
      /\ \A t \in Tasks : agent'[t] = "live" => db'.job[t] \in Ending
  BY DEF Place
<1> QED BY <1>1, <1>2 DEF Place

(* The rows may change, and the history with them. *)
LEMMA RowsChange ==
  ASSUME IInv, Sound(db', proved), Said(db', told', heard'), Typed',
         db'.job = db.job, db'.withdrawn = db.withdrawn, db'.complete = db.complete,
         db'.events \in {db.events, <<>>}, proved' = proved, agent' = agent, own' = own,
         SameLaunches
  PROVE  IInv' /\ Quiet
<1>1. Late(db')
  BY DEF IInv, Late
<1>2. Place'
  BY PlaceStays DEF IInv
<1>3. Sound(db', proved')
  BY DEF IInv
<1>4. IInv'
  BY <1>1, <1>2, <1>3 DEF IInv
<1> QED BY <1>4 DEF Quiet, GoalQuiet

LEMMA SaidStays ==
  ASSUME NEW d, NEW e, NEW tl, NEW hd, Said(d, tl, hd), SameReports(d, e)
  PROVE  Said(e, tl, hd)
BY DEF Said, SameReports

(* The next step of a host alone. *)
LEMMA HostGoes ==
  ASSUME Typed, NEW h \in Hosts, NEW l \in Labels, Goes(h, l)
  PROVE  host' \in [Hosts -> Doing] /\ SameLaunches
BY DEF Typed, Goes, Doing, SameLaunches

(* A step of the steward and nothing else. *)
LEMMA StewardStep ==
  ASSUME IInv, Follows(db, db', proved), host' \in [Hosts -> Doing], SameLaunches,
         UNCHANGED <<agent, own, playing, history>>
  PROVE  IInv' /\ Quiet
<1>1. Typed'
  BY DEF IInv, Typed, history
<1>2. Said(db', told', heard')
  BY SaidStays DEF IInv, Follows, history
<1> QED BY <1>1, <1>2, RowsChange DEF IInv, Follows, history

(* The tables stay as they are. *)
LEMMA TablesStay ==
  ASSUME IInv, db' = db, Typed', UNCHANGED <<agent, own, told, heard, proved>>, SameLaunches
  PROVE  IInv' /\ Quiet
BY RowsChange DEF IInv

(* Works leave jobs alone. *)
LEMMA WorksStep ==
  ASSUME IInv, Works(db, db', proved), db'.complete = db.complete,
         host' \in [Hosts -> Doing], SameLaunches, UNCHANGED <<agent, own, playing, history>>
  PROVE  IInv' /\ Quiet
BY WorksFollows, StewardStep DEF IInv

LEMMA PumpRecoversKeeps ==
  ASSUME IInv, PumpRecovers
  PROVE  IInv' /\ Quiet
<1>1. PICK S \in SUBSET Tasks : db' = SyncSome(Consume(db), S)
  BY DEF PumpRecovers, Sync
<1>2. Follows(db, db', proved)
  BY <1>1, RecoverFollows DEF IInv
<1>3. "pump" \in Hosts /\ "start" \in Labels /\ "idle" \in Labels
  BY DEF Hosts, Labels
<1>4. Goes("pump", "start") \/ Goes("pump", "idle")
  BY DEF PumpRecovers
<1>5. host' \in [Hosts -> Doing] /\ SameLaunches
  BY <1>3, <1>4, HostGoes DEF IInv
<1> QED BY <1>2, <1>5, StewardStep DEF PumpRecovers

LEMMA PumpStopsStartingKeeps ==
  ASSUME IInv, PumpStopsStarting \/ PumpSkipsFlush
  PROVE  IInv' /\ Quiet
<1>1. "pump" \in Hosts /\ "flush" \in Labels /\ "idle" \in Labels
  BY DEF Hosts, Labels
<1>2. Goes("pump", "flush") \/ Goes("pump", "idle")
  BY DEF PumpStopsStarting, PumpSkipsFlush
<1>3. host' \in [Hosts -> Doing] /\ SameLaunches
  BY <1>1, <1>2, HostGoes DEF IInv
<1>4. UNCHANGED <<db, agent, own, playing, history>>
  BY DEF PumpStopsStarting, PumpSkipsFlush
<1>5. Typed'
  BY <1>3, <1>4 DEF IInv, Typed, history
<1> QED BY <1>3, <1>4, <1>5, TablesStay DEF history

(* A publication: what is known of the ends is claimed for a report. *)
LEMMA PublishSound ==
  ASSUME NEW d, NEW p, Sound(d, p), NEW tl \in [Tasks -> Nat], NEW hd, Said(d, tl, hd), Late(d),
         NEW silent \in BOOLEAN
  PROVE  LET e == Publish(d, silent)
             f == Flush(e)
         IN  /\ Sound(e, p) /\ Said(e, tl, hd) /\ e.job = d.job /\ e.withdrawn = d.withdrawn
             /\ e.complete = d.complete /\ e.events = <<>>
             /\ Sound(f, p) /\ f.job = d.job /\ f.withdrawn = d.withdrawn
             /\ f.complete = d.complete /\ f.events = <<>>
             /\ Said(f, [t \in Tasks |-> tl[t] + IF t \in Waiting(e) THEN 1 ELSE 0], hd)
<1> DEFINE c == Sync(Consume(d))
           e == Claim(c, silent)
           f == Flush(e)
<1>1. Follows(d, c, p) /\ c.events = <<>>
  BY RecoverFollows DEF Sync
<1> HIDE DEF c
<1>2. /\ Sound(c, p) /\ Said(c, tl, hd) /\ c.job = d.job /\ c.withdrawn = d.withdrawn
      /\ c.complete = d.complete
  BY <1>1, SaidStays DEF Follows
<1>3. Notes(c, e) /\ Sound(e, p) /\ Said(e, tl, hd)
  BY <1>2, ClaimNotes
<1> HIDE DEF e
<1>4. /\ Notes(e, f) /\ Sound(f, p)
      /\ Said(f, [t \in Tasks |-> tl[t] + IF t \in Waiting(e) THEN 1 ELSE 0], hd)
  BY <1>3, FlushNotes
<1> HIDE DEF f
<1>5. /\ e.job = d.job /\ e.withdrawn = d.withdrawn /\ e.complete = d.complete /\ e.events = <<>>
      /\ f.job = d.job /\ f.withdrawn = d.withdrawn /\ f.complete = d.complete /\ f.events = <<>>
  BY <1>1, <1>2, <1>3, <1>4 DEF Notes
<1> QED BY <1>3, <1>4, <1>5 DEF Publish, c, e, f

LEMMA PumpFlushesKeeps ==
  ASSUME IInv, PumpFlushes
  PROVE  IInv' /\ Quiet
<1>1. PICK silent \in BOOLEAN : /\ db' = Flush(Publish(db, silent))
                                /\ TellsAll(Publish(db, silent))
  BY DEF PumpFlushes
<1> DEFINE e == Publish(db, silent)
<1>2. /\ Sound(db, proved) /\ Said(db, told, heard) /\ Late(db) /\ told \in [Tasks -> Nat]
  BY DEF IInv, Typed
<1>3. told' = [t \in Tasks |-> told[t] + IF t \in Waiting(e) THEN 1 ELSE 0]
  BY <1>1 DEF TellsAll
<1>4. /\ Sound(db', proved) /\ db'.job = db.job /\ db'.withdrawn = db.withdrawn
      /\ db'.complete = db.complete /\ db'.events = <<>> /\ Said(db', told', heard)
  BY <1>1, <1>2, <1>3, PublishSound
<1> HIDE DEF e
<1>5. "pump" \in Hosts /\ "follow" \in Labels /\ Goes("pump", "follow")
  BY DEF Hosts, Labels, PumpFlushes
<1>6. host' \in [Hosts -> Doing] /\ SameLaunches
  BY <1>5, HostGoes DEF IInv
<1>7. told' \in [Tasks -> Nat]
  BY <1>2, <1>3
<1>8. UNCHANGED <<agent, own, playing, heard, proved>>
  BY DEF PumpFlushes
<1>9. Typed'
  BY <1>6, <1>7, <1>8 DEF IInv, Typed
<1> QED BY <1>4, <1>6, <1>8, <1>9, RowsChange

LEMMA TurnPublishesKeeps ==
  ASSUME IInv, TurnPublishes
  PROVE  IInv' /\ Quiet
<1>1. PICK held \in BOOLEAN, silent \in BOOLEAN :
        IF held THEN db' = Publish(db, silent) /\ told' = told
        ELSE db' = Flush(Publish(db, silent)) /\ TellsAll(Publish(db, silent))
  BY DEF TurnPublishes
<1> DEFINE e == Publish(db, silent)
<1>2. /\ Sound(db, proved) /\ Said(db, told, heard) /\ Late(db) /\ told \in [Tasks -> Nat]
  BY DEF IInv, Typed
<1>3. /\ Sound(db', proved) /\ db'.job = db.job /\ db'.withdrawn = db.withdrawn
      /\ db'.complete = db.complete /\ db'.events = <<>> /\ Said(db', told', heard)
  <2>1. CASE held
    BY <1>1, <1>2, <2>1, PublishSound
  <2>2. CASE ~held
    <3>1. told' = [t \in Tasks |-> told[t] + IF t \in Waiting(e) THEN 1 ELSE 0]
      BY <1>1, <2>2 DEF TellsAll
    <3> QED BY <1>1, <1>2, <2>2, <3>1, PublishSound
  <2> QED BY <2>1, <2>2
<1>4. told' \in [Tasks -> Nat]
  <2> HIDE DEF e
  <2> QED BY <1>1, <1>2 DEF TellsAll
<1>5. "turn" \in Hosts /\ "queue" \in Labels /\ Goes("turn", "queue")
  BY DEF Hosts, Labels, TurnPublishes
<1>6. host' \in [Hosts -> Doing] /\ SameLaunches
  BY <1>5, HostGoes DEF IInv
<1>7. UNCHANGED <<agent, own, playing, heard, proved>>
  BY DEF TurnPublishes
<1>8. Typed'
  BY <1>4, <1>6, <1>7 DEF IInv, Typed
<1> QED BY <1>3, <1>6, <1>7, <1>8, RowsChange

-----------------------------------------------------------------------------
(* Reports, their speech, and the steps of the user that write no job.         *)

(* Reports are written and nothing else. *)
LEMMA NotesStep ==
  ASSUME IInv, Notes(db, db'), Sound(db', proved), Said(db', told', heard'), Typed',
         UNCHANGED <<agent, own, proved>>, SameLaunches
  PROVE  IInv' /\ Quiet
BY RowsChange DEF Notes

LEMMA PumpClaimsSpeechKeeps ==
  ASSUME IInv, PumpClaimsSpeech
  PROVE  IInv' /\ Quiet
<1>1. PICK allowed \in BOOLEAN :
        /\ db' = Voiced(db, Unspoken, IF allowed THEN "starting" ELSE "suppressed")
        /\ host' = [host EXCEPT !["pump"].pc = IF allowed /\ Unspoken # {} THEN "say" ELSE "idle",
                                !["pump"].speech = IF allowed THEN Unspoken ELSE {}]
  BY DEF PumpClaimsSpeech
<1> DEFINE st == IF allowed THEN "starting" ELSE "suppressed"
<1>2. /\ Sound(db, proved) /\ Said(db, told, heard)
      /\ st \in {"starting", "suppressed", "playing", "finished", "unknown"}
      /\ \A t \in Unspoken : t \in Tasks /\ db.task[t].report = "flushed" /\ heard[t] = 0
  BY DEF IInv, Said, Unspoken
<1>3. /\ Notes(db, db') /\ Sound(db', proved) /\ Said(db', told, heard)
  <2>1. \A t \in Unspoken : heard[t] <= 1
    BY <1>2
  <2>2. db' = Voiced(db, Unspoken, st)
    BY <1>1
  <2> HIDE DEF st
  <2> QED BY <1>2, <2>1, <2>2, VoicedNotes
<1>4. /\ "pump" \in Hosts /\ host \in [Hosts -> Doing] /\ Unspoken \in SUBSET Tasks
      /\ "say" \in Labels /\ "idle" \in Labels
  BY DEF IInv, Typed, Hosts, Labels, Unspoken
<1>5. host' \in [Hosts -> Doing] /\ SameLaunches
  <2> DEFINE to == IF allowed /\ Unspoken # {} THEN "say" ELSE "idle"
             said == IF allowed THEN Unspoken ELSE {}
             w == [host["pump"] EXCEPT !.pc = to, !.speech = said]
  <2>1. host["pump"] \in Doing /\ to \in Labels /\ said \in SUBSET Tasks
    BY <1>4
  <2>2. w \in Doing /\ w.launch = host["pump"].launch
    BY <2>1 DEF Doing
  <2>3. host' = [host EXCEPT !["pump"] = w]
    BY <1>1, <1>4
  <2> HIDE DEF w
  <2> QED BY <1>4, <2>2, <2>3 DEF SameLaunches
<1>6. UNCHANGED <<agent, own, playing, history>>
  BY DEF PumpClaimsSpeech
<1>7. Typed'
  BY <1>5, <1>6 DEF IInv, Typed, history
<1> QED BY <1>3, <1>5, <1>6, <1>7, NotesStep DEF history

(* mark_speech_state, of speech that may have begun *)
LEMMA MarkedNotes ==
  ASSUME NEW d, NEW p, Sound(d, p), NEW S \in SUBSET Tasks,
         NEW st \in {"playing", "finished", "unknown"},
         NEW tl, NEW hd, Said(d, tl, hd), NEW hd2,
         \A t \in Tasks : t \notin S => hd2[t] = hd[t],
         \A t \in S : hd2[t] = hd[t] \/ (d.task[t].speech = "starting" /\ hd2[t] <= 1)
  PROVE  /\ Notes(d, Marked(d, S, st)) /\ Sound(Marked(d, S, st), p)
         /\ Said(Marked(d, S, st), tl, hd2)
<1> DEFINE M == {t \in S : d.task[t].speech \in {"starting", "playing"}}
<1>1. \A t \in M : t \in Tasks /\ d.task[t].report = "flushed"
  BY DEF Sound, Outbox
<1>2. \A t \in Tasks : t \notin M => hd2[t] = hd[t]
  OBVIOUS
<1>3. \A t \in M : hd2[t] <= 1 /\ (st \in {"starting", "suppressed"} => hd2[t] = 0)
  BY DEF Said
<1>4. st \in {"starting", "suppressed", "playing", "finished", "unknown"}
  OBVIOUS
<1>5. Marked(d, S, st) = Voiced(d, M, st)
  BY DEF Marked
<1> HIDE DEF M
<1> QED BY <1>1, <1>2, <1>3, <1>4, <1>5, VoicedNotes

LEMMA PumpSaysKeeps ==
  ASSUME IInv, PumpSays
  PROVE  IInv' /\ Quiet
<1>1. /\ "pump" \in Hosts /\ host \in [Hosts -> Doing] /\ playing \in SUBSET (SUBSET Tasks)
      /\ host["pump"].launch = NoTask /\ host["pump"].speech \in SUBSET Tasks
  BY DEF IInv, Typed, Doing, Hosts, PumpSays, At
<1>2. host' = [host EXCEPT !["pump"] = Idle] /\ Idle \in Doing /\ Idle.launch = NoTask
  BY DEF PumpSays, Idle, Doing, Labels
<1>3. host' \in [Hosts -> Doing] /\ SameLaunches
  <2>1. \A h \in Hosts : host'[h].launch = host[h].launch
    BY <1>1, <1>2
  <2>2. host' \in [Hosts -> Doing]
    BY <1>1, <1>2
  <2> QED BY <2>1, <2>2 DEF SameLaunches
<1>4. playing' \in SUBSET (SUBSET Tasks)
  BY <1>1 DEF PumpSays
<1>5. UNCHANGED <<agent, own, history>>
  BY DEF PumpSays
<1>6. Typed'
  BY <1>3, <1>4, <1>5 DEF IInv, Typed, history
<1>7. CASE db' = db
  BY <1>3, <1>5, <1>6, <1>7, TablesStay DEF history
<1>8. CASE db' = Marked(db, host["pump"].speech, "unknown")
  <2>1. Sound(db, proved) /\ Said(db, told, heard)
    BY DEF IInv
  <2>2. Notes(db, db') /\ Sound(db', proved) /\ Said(db', told, heard)
    BY <1>1, <1>8, <2>1, MarkedNotes
  <2> QED BY <1>3, <1>5, <1>6, <2>2, NotesStep DEF history
<1> QED BY <1>7, <1>8 DEF PumpSays

LEMMA PlaybackStartsKeeps ==
  ASSUME IInv, NEW S \in SUBSET Tasks, PlaybackStarts(S)
  PROVE  IInv' /\ Quiet
<1>1. Sound(db, proved) /\ Said(db, told, heard) /\ heard \in [Tasks -> Nat]
  BY DEF IInv, Typed
<1>2. /\ \A t \in S : db.task[t].speech = "starting"
      /\ db' = Marked(db, S, "playing")
      /\ heard' = [t \in Tasks |-> heard[t] + IF t \in S THEN 1 ELSE 0]
      /\ UNCHANGED <<agent, own, host, playing, told, proved>>
  BY DEF PlaybackStarts
<1>3. \A t \in S : heard[t] = 0
  BY <1>1, <1>2 DEF Said
<1>4. /\ heard' \in [Tasks -> Nat]
      /\ \A t \in Tasks : t \notin S => heard'[t] = heard[t]
      /\ \A t \in S : heard'[t] <= 1
  BY <1>1, <1>2, <1>3
<1>5. Notes(db, db') /\ Sound(db', proved) /\ Said(db', told, heard')
  BY <1>1, <1>2, <1>4, MarkedNotes
<1>6. Typed'
  BY <1>2, <1>4 DEF IInv, Typed
<1>7. SameLaunches
  BY <1>2 DEF SameLaunches
<1> QED BY <1>2, <1>5, <1>6, <1>7, NotesStep

LEMMA PlaybackEndsKeeps ==
  ASSUME IInv, NEW S \in SUBSET Tasks, PlaybackEnds(S)
  PROVE  IInv' /\ Quiet
<1>1. Sound(db, proved) /\ Said(db, told, heard)
  BY DEF IInv
<1>2. PICK st \in {"finished", "unknown"} : db' = Marked(db, S, st)
  BY DEF PlaybackEnds
<1>3. playing' = playing \ {S} /\ UNCHANGED <<agent, own, host, history>>
  BY DEF PlaybackEnds
<1>4. Notes(db, db') /\ Sound(db', proved) /\ Said(db', told, heard)
  BY <1>1, <1>2, MarkedNotes
<1>5. Typed'
  BY <1>3 DEF IInv, Typed, history
<1>6. SameLaunches
  BY <1>3 DEF SameLaunches
<1> QED BY <1>3, <1>4, <1>5, <1>6, NotesStep DEF history

LEMMA ReportDueKeeps ==
  ASSUME IInv, NEW t \in Tasks, ReportDue(t)
  PROVE  IInv' /\ Quiet
<1>1. /\ Sound(db, proved) /\ Said(db, told, heard) /\ db \in Tables /\ db.task[t] \in Row
      /\ db.task[t].report = "later"
  BY DEF IInv, Sound, Tables, ReportDue
<1> DEFINE row == [db.task[t] EXCEPT !.report = "waiting"]
           r == [db.task EXCEPT ![t] = row]
<1>2. /\ db.task[t].state # "absent"
      /\ db.task[t].claimed /\ db.task[t].speech \in {"none", "pending"}
  BY <1>1 DEF Sound, Blank, Outbox, NoRow, Row
<1>3. /\ row \in Row /\ row.state = db.task[t].state /\ row.intent = db.task[t].intent
      /\ row.claimed = db.task[t].claimed /\ row.report = "waiting"
      /\ row.speech = db.task[t].speech
  BY <1>1 DEF Row
<1>4. db' = [db EXCEPT !.task = r]
  BY <1>1 DEF ReportDue, Tables
<1> HIDE DEF row
<1>5. /\ r \in [Tasks -> Row] /\ r[t] = row /\ \A u \in Tasks : u # t => r[u] = db.task[u]
  BY <1>1, <1>3 DEF Tables
<1> HIDE DEF r
<1>6. Notes(db, db') /\ db'.task = r
  BY <1>1, <1>2, <1>3, <1>4, <1>5, RowsNoted
<1>7. Outbox(db') /\ Said(db', told, heard)
  BY <1>1, <1>2, <1>3, <1>5, <1>6 DEF Outbox, Said, Sound
<1>8. Sound(db', proved)
  BY <1>1, <1>6, <1>7, NotesSound
<1>9. Typed' /\ SameLaunches /\ UNCHANGED <<agent, own, history>>
  BY DEF IInv, Typed, ReportDue, SameLaunches, history
<1> QED BY <1>6, <1>7, <1>8, <1>9, NotesStep DEF history

LEMMA IntentDueKeeps ==
  ASSUME IInv, NEW t \in Tasks, IntentDue(t)
  PROVE  IInv' /\ Quiet
<1>1. Sound(db, proved) /\ db \in Tables /\ db.task[t] \in Row
  BY DEF IInv, Sound, Tables
<1> DEFINE row == [db.task[t] EXCEPT !.due = TRUE]
<1>2. db.task[t].state # "absent"
  BY <1>1 DEF Sound, Blank, NoRow, IntentDue
<1>3. /\ row \in Row /\ row.state = db.task[t].state /\ row.claimed = db.task[t].claimed
      /\ row.report = db.task[t].report /\ row.speech = db.task[t].speech
  BY <1>1 DEF Row
<1>4. db' = Put(db, t, row)
  BY <1>1 DEF IntentDue, Put, Tables
<1> HIDE DEF row
<1>5. Works(db, db', proved) /\ db'.complete = db.complete
  BY <1>1, <1>2, <1>3, <1>4, RowWorks
<1>6. /\ host' \in [Hosts -> Doing] /\ SameLaunches
      /\ UNCHANGED <<agent, own, playing, history>>
  BY DEF IInv, Typed, IntentDue, SameLaunches, history
<1> QED BY <1>5, <1>6, WorksStep

LEMMA TurnQueuesKeeps ==
  ASSUME IInv, TurnQueues
  PROVE  IInv' /\ Quiet
<1>1. Sound(db, proved) /\ db \in Tables
  BY DEF IInv, Sound
<1>2. "turn" \in Hosts /\ "idle" \in Labels /\ "start" \in Labels
  BY DEF Hosts, Labels
<1>3. Goes("turn", "idle") \/ Goes("turn", "start")
  BY DEF TurnQueues
<1>4. host' \in [Hosts -> Doing] /\ SameLaunches
  BY <1>2, <1>3, HostGoes DEF IInv
<1>5. UNCHANGED <<agent, own, playing, history>>
  BY DEF TurnQueues
<1>6. CASE db' = db
  BY <1>1, <1>4, <1>5, <1>6, WorksNot, WorksStep
<1>7. ASSUME NEW S,
             db' = [db EXCEPT !.task = [t \in Tasks |->
                      IF t.goal \in S THEN QueueTask(db, t.goal, FALSE).task[t] ELSE db.task[t]]]
      PROVE  IInv' /\ Quiet
  <2>1. /\ db'.task = [t \in Tasks |->
              IF t.goal \in S THEN QueueTask(db, t.goal, FALSE).task[t] ELSE db.task[t]]
        /\ db'.job = db.job /\ db'.withdrawn = db.withdrawn /\ db'.events = db.events
        /\ db'.complete = db.complete /\ db'.plan = db.plan
        /\ db' = [db EXCEPT !.task = db'.task]
    BY <1>1, <1>7 DEF Tables
  <2>2. ASSUME NEW t \in Tasks
        PROVE  db'.task[t] \in Row /\ RowKept(t, db.task[t], db'.task[t], proved)
    <3>1. CASE t.goal \in S
      <4>1. t.goal \in Goals /\ FALSE \in BOOLEAN
        BY DEF Tasks
      <4>2. Works(db, QueueTask(db, t.goal, FALSE), proved)
        BY <1>1, <4>1, QueueWorks
      <4>3. db'.task[t] = QueueTask(db, t.goal, FALSE).task[t]
        BY <2>1, <3>1
      <4> QED BY <4>2, <4>3 DEF Works, Tables
    <3>2. CASE t.goal \notin S
      <4>1. db'.task[t] = db.task[t]
        BY <2>1, <3>2
      <4> QED BY <4>1, <1>1 DEF RowKept, Tables
    <3> QED BY <3>1, <3>2
  <2>3. db'.task \in [Tasks -> Row]
    BY <2>1, <2>2
  <2>4. db' \in Tables
    BY <1>1, <2>1, <2>3 DEF Tables
  <2>5. Works(db, db', proved)
    BY <2>1, <2>2, <2>4 DEF Works
  <2> QED BY <1>4, <1>5, <2>1, <2>5, WorksStep
<1> QED BY <1>6, <1>7 DEF TurnQueues

LEMMA ScreenQueuesKeeps ==
  ASSUME IInv, NEW g \in Goals, ScreenQueues(g)
  PROVE  IInv' /\ Quiet
<1>1. Sound(db, proved) /\ TRUE \in BOOLEAN /\ db' = QueueTask(db, g, TRUE)
  BY DEF IInv, ScreenQueues
<1>2. Works(db, db', proved) /\ db'.complete = db.complete
  BY <1>1, QueueWorks
<1>3. /\ host' \in [Hosts -> Doing] /\ SameLaunches
      /\ UNCHANGED <<agent, own, playing, history>>
  BY DEF IInv, Typed, ScreenQueues, SameLaunches, history
<1> QED BY <1>2, <1>3, WorksStep

-----------------------------------------------------------------------------
(* Dispatch: a job is begun where nothing else works.                          *)

LEMMA TasksFinite == IsFiniteSet(Tasks)
<1> DEFINE f == [t \in Tasks |-> <<<<t.goal, t.plan>>, t.step>>]
           T == (Goals \X Plans) \X (1 .. Steps)
<1>1. IsFiniteSet(Goals) /\ MaxReplans + 1 \in Int /\ Steps \in Int /\ 1 \in Int
  BY StewardAssumption
<1>2. IsFiniteSet(Plans) /\ IsFiniteSet(1 .. Steps)
  BY <1>1, FS_Interval DEF Plans
<1>3. IsFiniteSet(Goals \X Plans)
  BY <1>1, <1>2, FS_Product
<1>4. IsFiniteSet(T)
  BY <1>2, <1>3, FS_Product
<1>5. \A t \in Tasks : f[t] \in T
  BY DEF Tasks
<1>6. \A t, u \in Tasks : f[t] = f[u] => t = u
  BY DEF Tasks
<1>7. f \in Injection(Tasks, T)
  BY <1>5, <1>6 DEF Injection, IsInjective
<1> HIDE DEF f, T
<1> QED BY <1>4, <1>7, FS_Injection

LEMMA LaunchedCounted ==
  ASSUME NEW d, NEW g
  PROVE  Cardinality(Launched(d, g)) \in Nat
<1>1. Launched(d, g) \in SUBSET Tasks
  BY DEF Launched, TasksOf
<1>2. IsFiniteSet(Launched(d, g))
  BY <1>1, TasksFinite, FS_Subset
<1> QED BY <1>2, FS_CardinalityType

(* A launch is a start the promise allows. *)
LEMMA StartPromised ==
  ASSUME IInv, NEW t \in Tasks, Active(db, t.goal), Launches(db, db', proved, t), proved' = proved
  PROVE  GoalSteps
<1>1. /\ \A u \in Tasks : db.job[u] \notin JobActive
      /\ ~Spent(db, t.goal) /\ db.job[t] = "none" /\ db'.job = [db.job EXCEPT ![t] = "queued"]
      /\ db'.withdrawn = db.withdrawn /\ db'.complete = db.complete
  BY DEF Launches, Busy, RunActive
<1>2. db.job \in [Tasks -> JobStates] /\ t.goal \in Goals
  BY DEF IInv, Sound, Tables, Tasks
<1>3. Cardinality(Launched(db, t.goal)) < Budget
  BY <1>1, LaunchedCounted, StewardAssumption DEF Spent
<1>4. {r \in {u \in Tasks : db.job[u] # "none"} : [u \in Tasks |-> u.goal][r] = t.goal}
        = Launched(db, t.goal)
  BY DEF Launched, TasksOf
<1>5. {u \in Tasks : db'.job[u] # "none"} = {u \in Tasks : db.job[u] # "none"} \cup {t}
  BY <1>1, <1>2
<1>6. {u \in Tasks : db.job[u] \in JobActive} = {} /\ {u \in Tasks : db'.job[u] \in JobActive} = {t}
  BY <1>1, <1>2 DEF JobActive
<1>7. [u \in Tasks |-> u.goal][t] = t.goal
  OBVIOUS
<1>8. Promise!Cardinality(Launched(db, t.goal)) = Cardinality(Launched(db, t.goal))
  BY DEF Promise!Cardinality, Cardinality
<1> DEFINE G == [u \in Tasks |-> u.goal]
<1>9. Promise!Started(G[t]) = Launched(db, t.goal)
  BY <1>4, <1>7 DEF Promise!Started
<1>10. Promise!Cardinality(Promise!Started(G[t])) < Budget
  BY <1>3, <1>8, <1>9
<1>11. t \notin {u \in Tasks : db.job[u] # "none"} /\ G[t] \notin db.withdrawn
  BY <1>1, <1>7 DEF Active
<1> HIDE DEF G
<1>12. Promise!Start(t)
  BY <1>1, <1>5, <1>6, <1>10, <1>11 DEF Promise!Start, G
<1> QED BY <1>12 DEF GoalSteps, Promise!Next

(* It takes the place, which nobody has. *)
LEMMA StartTakesPlace ==
  ASSUME NEW t \in Tasks, NEW h \in Hosts, db.job[t] = "none", UNCHANGED agent,
         db.job \in [Tasks -> JobStates], db'.job = [db.job EXCEPT ![t] = "queued"],
         \A u \in Tasks : db.job[u] \notin JobActive /\ agent[u] = "none",
         \A k \in Hosts : host[k].launch = NoTask,
         host'[h].launch = t, \A k \in Hosts : host'[k].launch # NoTask => k = h
  PROVE  RunSteps
<1>0. NoTask \notin Tasks
  BY StewardAssumption
<1>1. ASSUME NEW u \in Tasks PROVE AgentOf(u) = "none" /\ ~Delegated!HasPlace(u)
  <2>1. AgentOf(u) = "none"
    BY <1>0 DEF AgentOf
  <2> QED BY <2>1 DEF Delegated!HasPlace, Delegated!Open, JobActive
<1>2. AgentOf(t)' = "due"
  BY DEF AgentOf
<1>3. ASSUME NEW u \in Tasks \ {t} PROVE AgentOf(u)' = AgentOf(u)
  <2>1. \A k \in Hosts : host'[k].launch # u
    BY <1>0
  <2> QED BY <1>1, <2>1 DEF AgentOf
<1>4. db'.job \in [Tasks -> JobStates]
  BY DEF JobStates, JobActive
<1>5. RunMoves(t, "queued", "due")
  BY <1>2, <1>3 DEF RunMoves
<1>6. Delegated!Start(t)
  BY <1>1, <1>4, <1>5, RunMoved DEF Delegated!Start
<1> QED BY <1>6 DEF RunSteps, Delegated!Next

(* One look for work *)
LEMMA DispatchKeeps ==
  ASSUME IInv, NEW h \in Hosts, host[h].launch = NoTask, NEW next \in Labels, NEW candidates,
         \A t \in candidates : t \in Tasks /\ db.task[t].state = "queued" /\ Active(db, t.goal),
         Dispatch(h, candidates, next)
  PROVE  IInv' /\ Promised
<1>1. PICK t \in candidates, finding \in Findings :
        /\ db' = Prepare(db, t, finding).db
        /\ host' = [host EXCEPT ![h].pc = next, ![h].launch = Prepare(db, t, finding).launch]
  BY DEF Dispatch
<1>2. t \in Tasks /\ db.task[t].state = "queued" /\ Active(db, t.goal)
  BY <1>1
<1>3. UNCHANGED <<agent, own, playing, history>>
  BY DEF Dispatch
<1>4. Sound(db, proved) /\ host \in [Hosts -> Doing] /\ host[h] \in Doing /\ NoTask \notin Tasks
  BY StewardAssumption DEF IInv, Typed
<1> DEFINE l == Prepare(db, t, finding).launch
<1>5. \/ Follows(db, db', proved) /\ l = NoTask
      \/ Launches(db, db', proved, t) /\ l = t
  BY <1>1, <1>2, <1>4, PrepareWorks
<1> DEFINE w == [host[h] EXCEPT !.pc = next, !.launch = l]
<1>6. host' = [host EXCEPT ![h] = w]
  BY <1>1, <1>4
<1> HIDE DEF l
<1>7. w \in Doing /\ w.launch = l
  BY <1>2, <1>4, <1>5 DEF Doing
<1> HIDE DEF w
<1>8. /\ host' \in [Hosts -> Doing] /\ host'[h].launch = l
      /\ \A k \in Hosts : k # h => host'[k].launch = host[k].launch
  BY <1>4, <1>6, <1>7
<1>9. CASE Follows(db, db', proved) /\ l = NoTask
  <2>1. SameLaunches
    BY <1>8, <1>9 DEF SameLaunches
  <2> QED BY <1>3, <1>8, <1>9, <2>1, StewardStep, QuietPromised
<1>10. CASE Launches(db, db', proved, t) /\ l = t
  <2>1. /\ own = "none" /\ \A u \in Tasks : db.job[u] \notin JobActive
        /\ db'.job = [db.job EXCEPT ![t] = "queued"] /\ db.job \in [Tasks -> JobStates]
    BY <1>4, <1>10 DEF Launches, Busy, RunActive, Sound, Tables
  <2>2. \A u \in Tasks : agent[u] = "none"
    BY <2>1 DEF IInv, Place
  <2>3. \A k \in Hosts : host[k].launch = NoTask
    <3>1. Ending \subseteq JobActive
      BY DEF Ending, JobActive
    <3>2. \A k \in Hosts : host[k].launch \in Tasks \cup {NoTask}
      BY <1>4 DEF Doing
    <3> QED BY <2>1, <3>1, <3>2 DEF IInv, Place
  <2>4. Place'
    <3>1. /\ \A u \in Tasks : db'.job[u] \in JobActive => u = t
          /\ db'.job[t] \in Ending
      BY <2>1, <1>2 DEF Ending
    <3>2. \A k \in Hosts : host'[k].launch # NoTask => k = h /\ host'[k].launch = t
      BY <1>8, <1>10, <2>3
    <3> QED BY <1>2, <1>3, <2>1, <2>2, <3>1, <3>2 DEF Place
  <2>5. Typed'
    BY <1>3, <1>8 DEF IInv, Typed, history
  <2>6. Said(db', told', heard')
    BY <1>3, <1>10, SaidStays DEF IInv, Launches, history
  <2>7. Late(db') /\ Sound(db', proved')
    BY <1>3, <1>10 DEF IInv, Late, Launches, history
  <2>8. IInv'
    BY <2>4, <2>5, <2>6, <2>7 DEF IInv
  <2>9. GoalSteps
    BY <1>2, <1>3, <1>10, StartPromised DEF history
  <2>10. RunSteps
    <3>1. db.job[t] = "none" /\ host'[h].launch = t
      BY <1>8, <1>10 DEF Launches
    <3>2. \A k \in Hosts : host'[k].launch # NoTask => k = h
      BY <1>8, <2>3
    <3> QED BY <1>2, <1>3, <2>1, <2>2, <2>3, <3>1, <3>2, StartTakesPlace
  <2> QED BY <2>8, <2>9, <2>10 DEF Promised
<1> QED BY <1>5, <1>9, <1>10

LEMMA StartsKeep ==
  ASSUME IInv, PumpStarts \/ PumpFollows \/ TurnStarts \/ ScheduleStarts
  PROVE  IInv' /\ Promised
<1>1. /\ "pump" \in Hosts /\ "turn" \in Hosts
      /\ "idle" \in Labels /\ "start" \in Labels /\ "speak" \in Labels
  BY DEF Hosts, Labels
<1>2. /\ \A t \in Eligible(db) :
           t \in Tasks /\ db.task[t].state = "queued" /\ Active(db, t.goal)
      /\ \A t \in {t \in Tasks : db.task[t].state = "queued" /\ Active(db, t.goal)} :
           t \in Tasks /\ db.task[t].state = "queued" /\ Active(db, t.goal)
  BY DEF Eligible
<1>3. CASE PumpStarts
  <2>1. host["pump"].launch = NoTask /\ Dispatch("pump", Eligible(db), "start")
    BY <1>3 DEF PumpStarts, At
  <2> QED BY <1>1, <1>2, <2>1, DispatchKeeps
<1>4. ASSUME NEW h \in Hosts, NEW l \in Labels, Goes(h, l),
             UNCHANGED <<db, agent, own, playing, history>>
      PROVE  IInv' /\ Promised
  <2>1. host' \in [Hosts -> Doing] /\ SameLaunches
    BY <1>4, HostGoes DEF IInv
  <2>2. Typed'
    BY <1>4, <2>1 DEF IInv, Typed, history
  <2> QED BY <1>4, <2>1, <2>2, TablesStay, QuietPromised DEF history
<1>5. CASE PumpFollows
  <2>1. CASE Dispatch("pump", Eligible(db), "speak")
    <3>1. host["pump"].launch = NoTask
      BY <1>5 DEF PumpFollows, At
    <3> QED BY <1>1, <1>2, <2>1, <3>1, DispatchKeeps
  <2>2. CASE Goes("pump", "speak") /\ UNCHANGED <<db, agent, own, playing, history, counters>>
    BY <1>1, <1>4, <2>2
  <2> QED BY <1>5, <2>1, <2>2 DEF PumpFollows
<1>6. CASE TurnStarts
  <2>1. CASE Dispatch("turn", Eligible(db), "idle")
    <3>1. host["turn"].launch = NoTask
      BY <1>6 DEF TurnStarts, At
    <3> QED BY <1>1, <1>2, <2>1, <3>1, DispatchKeeps
  <2>2. CASE Goes("turn", "idle") /\ UNCHANGED <<db, agent, own, playing, history, counters>>
    BY <1>1, <1>4, <2>2
  <2> QED BY <1>6, <2>1, <2>2 DEF TurnStarts
<1>7. CASE ScheduleStarts
  <2>1. /\ host["turn"].launch = NoTask
        /\ Dispatch("turn", {t \in Tasks : db.task[t].state = "queued" /\ Active(db, t.goal)}, "idle")
    BY <1>7 DEF ScheduleStarts, At
  <2> QED BY <1>1, <1>2, <2>1, DispatchKeeps
<1> QED BY <1>3, <1>5, <1>6, <1>7

(* spawn_run: the process belongs to the job that was begun for it. *)
LEMMA LaunchKeeps ==
  ASSUME IInv, NEW h \in Hosts, Launch(h)
  PROVE  IInv' /\ Promised
<1>0. NoTask \notin Tasks
  BY StewardAssumption
<1> PICK t \in Tasks : host[h].launch = t
  BY DEF IInv, Typed, Launch, Doing
<1>1. /\ t \in Tasks /\ host \in [Hosts -> Doing] /\ host[h] \in Doing
      /\ agent \in [Tasks -> {"none", "live", "orphan"}]
  BY DEF IInv, Typed, Launch, Doing
<1>2. /\ host' = [host EXCEPT ![h].launch = NoTask] /\ agent' = [agent EXCEPT ![t] = "live"]
      /\ UNCHANGED <<db, own, playing, history>>
  BY DEF Launch
<1>3. db.job[t] \in Ending /\ \A k \in Hosts : host[k].launch # NoTask => k = h
  BY DEF IInv, Place, Launch
<1>4. host' \in [Hosts -> Doing] /\ \A k \in Hosts : host'[k].launch = NoTask
  <2> DEFINE w == [host[h] EXCEPT !.launch = NoTask]
  <2>1. w \in Doing /\ w.launch = NoTask
    BY <1>1 DEF Doing
  <2>2. host' = [host EXCEPT ![h] = w]
    BY <1>1, <1>2
  <2> HIDE DEF w
  <2> QED BY <1>1, <1>3, <2>1, <2>2
<1>5. Typed'
  BY <1>1, <1>2, <1>4 DEF IInv, Typed, history
<1>6. Place'
  <2>1. Ending \subseteq JobActive
    BY DEF Ending, JobActive
  <2>2. \A u \in Tasks : agent'[u] # "none" => db.job[u] \in JobActive
    BY <1>1, <1>2, <1>3, <2>1 DEF IInv, Place
  <2>3. \A u \in Tasks : agent'[u] = "live" => db.job[u] \in Ending
    BY <1>1, <1>2, <1>3 DEF IInv, Place
  <2> QED BY <1>2, <1>4, <2>2, <2>3 DEF IInv, Place
<1>7. Sound(db', proved') /\ Said(db', told', heard') /\ Late(db')
  BY <1>2 DEF IInv, history
<1>8. RunSteps
  <2>1. AgentOf(t) = "due"
    BY <1>0 DEF AgentOf
  <2>2. AgentOf(t)' = "live"
    <3>1. \A k \in Hosts : host'[k].launch # t
      BY <1>0, <1>1, <1>4
    <3> QED BY <1>1, <1>2, <3>1 DEF AgentOf
  <2>3. ASSUME NEW u \in Tasks \ {t} PROVE AgentOf(u)' = AgentOf(u)
    <3>1. \A k \in Hosts : host'[k].launch # u /\ host[k].launch # u
      BY <1>0, <1>3, <1>4
    <3> QED BY <1>1, <1>2, <3>1 DEF AgentOf
  <2>4. db.job \in [Tasks -> JobStates] /\ db' = db
    BY <1>2 DEF IInv, Sound, Tables
  <2>5. RunMoves(t, db.job[t], "live")
    BY <2>2, <2>3, <2>4 DEF RunMoves
  <2>6. Delegated!Spawn(t)
    BY <1>1, <2>1, <2>4, <2>5, RunMoved DEF Delegated!Spawn
  <2> QED BY <1>1, <2>6 DEF RunSteps, Delegated!Next
<1>9. GoalSteps
  BY <1>2, GoalQuietSteps DEF GoalQuiet, history
<1> QED BY <1>2, <1>5, <1>6, <1>7, <1>8, <1>9 DEF IInv, Promised, history

(* The end of a process that has no job any more to end, and the user's own runs. *)
LEMMA OutsideKeeps ==
  ASSUME IInv, OwnStarts \/ OwnEnds \/ \E t \in Tasks : OrphanEnds(t)
  PROVE  IInv' /\ GoalQuiet
<1>1. UNCHANGED <<db, host, playing, history>>
  BY DEF OwnStarts, OwnEnds, OrphanEnds
<1>2. \/ own' = own /\ \E t \in Tasks : agent' = [agent EXCEPT ![t] = "none"]
      \/ agent' = agent /\ own' \in {"none", "live", "unknown"} /\ own # "none"
      \/ agent' = agent /\ own' = "live" /\ ~Busy(db)
  BY DEF OwnStarts, OwnEnds, OrphanEnds
<1>3. agent \in [Tasks -> {"none", "live", "orphan"}]
  BY DEF IInv, Typed
<1>4. /\ agent' \in [Tasks -> {"none", "live", "orphan"}]
      /\ own' \in {"none", "live", "orphan", "unknown"}
      /\ \A t \in Tasks : agent'[t] \in {agent[t], "none"}
  BY <1>2, <1>3 DEF IInv, Typed
<1>5. Typed'
  BY <1>1, <1>4 DEF IInv, Typed, history
<1>6. own' # "none" => \A t \in Tasks : db.job[t] \notin JobActive
  BY <1>2 DEF IInv, Place, Busy, RunActive
<1>7. Place'
  <2>1. /\ \A t \in Tasks : agent'[t] # "none" => db.job[t] \in JobActive
        /\ \A t \in Tasks : agent'[t] = "live" => db.job[t] \in Ending
    BY <1>4 DEF IInv, Place
  <2>2. \A h \in Hosts : LET t == host[h].launch IN
          t # NoTask => /\ db.job[t] \in Ending /\ agent'[t] = "none"
                        /\ \A k \in Hosts : host[k].launch # NoTask => k = h
    <3>1. \A h \in Hosts : host[h].launch \in Tasks \cup {NoTask}
      BY DEF IInv, Typed, Doing
    <3> QED BY <1>4, <3>1 DEF IInv, Place
  <2> QED BY <1>1, <1>6, <2>1, <2>2 DEF IInv, Place
<1>8. Sound(db', proved') /\ Said(db', told', heard') /\ Late(db')
  BY <1>1 DEF IInv, history
<1> QED BY <1>1, <1>5, <1>7, <1>8 DEF IInv, GoalQuiet, history

LEMMA OwnKeeps ==
  ASSUME IInv, OwnStarts \/ OwnEnds
  PROVE  IInv' /\ Promised
<1>1. IInv' /\ GoalQuiet
  BY OutsideKeeps
<1>2. UNCHANGED <<db, agent, host>>
  BY DEF OwnStarts, OwnEnds
<1>3. Quiet
  BY <1>1, <1>2 DEF Quiet, SameLaunches
<1> QED BY <1>1, <1>3, QuietPromised

LEMMA OrphanKeeps ==
  ASSUME IInv, NEW t \in Tasks, OrphanEnds(t)
  PROVE  IInv' /\ Promised
<1>1. IInv' /\ GoalQuiet
  BY OutsideKeeps
<1>2. /\ agent[t] = "orphan" /\ agent' = [agent EXCEPT ![t] = "none"] /\ UNCHANGED <<db, host>>
      /\ agent \in [Tasks -> {"none", "live", "orphan"}] /\ db.job \in [Tasks -> JobStates]
  BY DEF OrphanEnds, IInv, Typed, Sound, Tables
<1>3. AgentOf(t) = "orphan" /\ \A h \in Hosts : host[h].launch # t
  BY <1>2, AgentLaunched DEF IInv
<1>4. RunMoves(t, db.job[t], "none")
  <2>1. AgentOf(t)' = "none"
    BY <1>2, <1>3 DEF AgentOf
  <2>2. \A u \in Tasks \ {t} : AgentOf(u)' = AgentOf(u)
    BY <1>2 DEF AgentOf
  <2> QED BY <1>2, <2>1, <2>2 DEF RunMoves
<1>5. Delegated!OrphanEnds(t)
  BY <1>2, <1>3, <1>4, RunMoved DEF Delegated!OrphanEnds
<1>6. RunSteps
  BY <1>5 DEF RunSteps, Delegated!Next
<1> QED BY <1>1, <1>6, GoalQuietSteps DEF Promised

-----------------------------------------------------------------------------
(* Decisions, withdrawals, and the steps of the runner.                        *)

LEMMA SoundMore ==
  ASSUME NEW d, NEW p, NEW q, Sound(d, p), p \subseteq q
  PROVE  Sound(d, q)
BY DEF Sound, InOrder, Backed

(* work_resolve: only an approval proves. *)
LEMMA ResolveKeeps ==
  ASSUME IInv, NEW t \in Tasks, NEW decision \in {"approve", "reject", "reinspect"},
         Resolve(t, decision)
  PROVE  IInv' /\ Promised
<1> DEFINE st == CASE decision = "approve" -> "done" [] decision = "reject" -> "cancelled"
                   [] decision = "reinspect" -> "queued"
<1>1. /\ db' = Loop(db, t, st) /\ db.task[t].state # "absent"
      /\ proved' = IF decision = "approve" /\ db' # db THEN proved \cup {t} ELSE proved
      /\ UNCHANGED <<agent, own, host, playing, told, heard>>
  BY DEF Resolve
<1>2. Typed' /\ SameLaunches
  BY <1>1 DEF IInv, Typed, SameLaunches
<1>3. CASE db' = db
  <2>1. UNCHANGED <<agent, own, told, heard, proved>>
    BY <1>1, <1>3
  <2> QED BY <1>2, <1>3, <2>1, TablesStay, QuietPromised
<1>4. CASE db' # db
  <2>1. /\ st \in TaskStates \ {"absent"} /\ (st = "done" => t \in proved')
        /\ proved \subseteq proved'
    BY <1>1, <1>4 DEF TaskStates, OpenStates
  <2>2. Sound(db, proved') /\ db \in Tables
    BY <2>1, SoundMore DEF IInv, Sound
  <2> HIDE DEF st
  <2>3. Works(db, db', proved') /\ db'.complete = db.complete
    BY <1>1, <2>1, <2>2, LoopWorks
  <2>4. Follows(db, db', proved')
    BY <2>2, <2>3, WorksFollows
  <2>5. /\ Sound(db', proved') /\ Said(db', told', heard') /\ Late(db')
        /\ db'.job = db.job /\ db'.withdrawn = db.withdrawn
    BY <1>1, <2>3, <2>4, SaidStays DEF Follows, IInv, Works, Late
  <2>6. Place'
    BY <1>1, <1>2, <2>5, PlaceStays DEF IInv
  <2>7. IInv'
    BY <1>2, <2>5, <2>6 DEF IInv
  <2>8. CASE decision = "approve"
    <3>1. Promise!Approve(t)
      BY <1>1, <1>4, <2>3, <2>5, <2>8 DEF Promise!Approve
    <3>2. RunSteps
      <4>1. \A u \in Tasks : AgentOf(u)' = AgentOf(u)
        BY <1>1 DEF AgentOf
      <4>2. [u \in Tasks |-> AgentOf(u)]' = [u \in Tasks |-> AgentOf(u)]
        BY <4>1
      <4> QED BY <2>5, <4>2 DEF RunSteps, Delegated!rvars
    <3> QED BY <2>7, <3>1, <3>2 DEF Promised, GoalSteps, Promise!Next
  <2>9. CASE decision # "approve"
    <3>1. Quiet
      BY <1>1, <1>2, <2>3, <2>5, <2>9 DEF Quiet, GoalQuiet
    <3> QED BY <2>7, <3>1, QuietPromised
  <2> QED BY <2>8, <2>9
<1> QED BY <1>3, <1>4

(* A job that runs is asked to stop, or has been accepted. *)
Asked(d, e) ==
  \A t \in Tasks :
    e.job[t] = d.job[t] \/ (d.job[t] \in {"queued", "running"} /\ e.job[t] \in Ending)

LEMMA AskedPlace ==
  ASSUME IInv, Asked(db, db'), UNCHANGED <<agent, own, host>>
  PROVE  /\ Place'
         /\ {t \in Tasks : db'.job[t] # "none"} = {t \in Tasks : db.job[t] # "none"}
         /\ {t \in Tasks : db'.job[t] \in JobActive} = {t \in Tasks : db.job[t] \in JobActive}
<1>1. \A t \in Tasks : /\ db'.job[t] # "none" <=> db.job[t] # "none"
                       /\ db'.job[t] \in JobActive <=> db.job[t] \in JobActive
                       /\ db.job[t] \in Ending => db'.job[t] \in Ending
  BY DEF Asked, Ending, JobActive
<1>2. \A h \in Hosts : host[h].launch \in Tasks \cup {NoTask}
  BY DEF IInv, Typed, Doing
<1>3. Place'
  <2>1. \A h \in Hosts : LET t == host[h].launch IN
          t # NoTask => /\ db'.job[t] \in Ending /\ agent[t] = "none"
                        /\ \A k \in Hosts : host[k].launch # NoTask => k = h
    BY <1>1, <1>2 DEF IInv, Place
  <2>2. /\ \A t, u \in Tasks : db'.job[t] \in JobActive /\ db'.job[u] \in JobActive => t = u
        /\ own # "none" => \A t \in Tasks : db'.job[t] \notin JobActive
        /\ \A t \in Tasks : agent[t] # "none" => db'.job[t] \in JobActive
        /\ \A t \in Tasks : agent[t] = "live" => db'.job[t] \in Ending
    BY <1>1 DEF IInv, Place
  <2> QED BY <2>1, <2>2 DEF Place
<1> QED BY <1>1, <1>3

LEMMA RunnerLooksKeeps ==
  ASSUME IInv, NEW t \in Tasks, StopNoticed(t) \/ Accept(t)
  PROVE  IInv' /\ Promised
<1>1. PICK k \in {"cancel_requested", "running"} : db' = [db EXCEPT !.job[t] = k]
  BY DEF StopNoticed, Accept
<1>2. db.job[t] \in {"queued", "running"} /\ UNCHANGED <<agent, own, host, playing, history>>
  BY DEF StopNoticed, Accept
<1> DEFINE j == [db.job EXCEPT ![t] = k]
<1>3. Sound(db, proved) /\ db \in Tables
  BY DEF IInv, Sound
<1>4. /\ j \in [Tasks -> JobStates] /\ db' = [db EXCEPT !.job = j] /\ j[t] = k
      /\ \A u \in Tasks : u # t => j[u] = db.job[u]
  BY <1>1, <1>3 DEF Tables, JobStates, JobActive
<1>5. /\ db'.job = j /\ db'.task = db.task /\ db'.events = db.events
      /\ db'.withdrawn = db.withdrawn /\ db'.complete = db.complete
  BY <1>3, <1>4 DEF Tables
<1> HIDE DEF j
<1>6. \A u \in Tasks : /\ db.job[u] # "none" => j[u] # "none"
                       /\ db.task[u].state = "absent" => j[u] = "none"
  BY <1>2, <1>3, <1>4 DEF Sound, Blank
<1>7. Sound(db', proved)
  BY <1>3, <1>4, <1>6, JobsSound
<1>8. Asked(db, db')
  BY <1>2, <1>4, <1>5 DEF Asked, Ending
<1>9. Typed' /\ Said(db', told', heard') /\ Late(db')
  BY <1>2, <1>5 DEF IInv, Typed, Said, Late, history
<1>10. IInv' /\ GoalQuiet
  BY <1>2, <1>5, <1>7, <1>8, <1>9, AskedPlace DEF IInv, GoalQuiet, history
<1>11. RunSteps
  <2>1. AgentOf(t) = "live" /\ \A u \in Tasks : AgentOf(u)' = AgentOf(u)
    <3>1. agent[t] = "live"
      BY DEF StopNoticed, Accept
    <3>2. AgentOf(t) = "live"
      BY <3>1, AgentLaunched DEF IInv
    <3> QED BY <1>2, <3>2 DEF AgentOf
  <2>2. RunMoves(t, k, AgentOf(t))
    BY <1>4, <1>5, <2>1 DEF RunMoves
  <2>3. Delegated!Moves(t, k, AgentOf(t))
    BY <1>3, <1>4, <1>5, <2>2, RunMoved DEF Tables
  <2>4. CASE k = "cancel_requested"
    <3>1. Delegated!StopAsked(t)
      BY <1>2, <2>3, <2>4 DEF Delegated!StopAsked
    <3> QED BY <3>1 DEF RunSteps, Delegated!Next
  <2>5. CASE k = "running"
    <3>1. db.job[t] = "queued"
      BY <1>1, <1>3, <1>4, <1>5, <2>5 DEF StopNoticed, Accept, Tables
    <3>2. Delegated!Accept(t)
      BY <2>1, <2>3, <2>5, <3>1 DEF Delegated!Accept
    <3> QED BY <3>2 DEF RunSteps, Delegated!Next
  <2> QED BY <2>4, <2>5
<1> QED BY <1>10, <1>11, GoalQuietSteps DEF Promised

(* A stop is asked of the jobs that run, of which there is at most one. *)
Stopped(d, e) ==
  \A t \in Tasks :
    e.job[t] = d.job[t] \/ (d.job[t] \in {"queued", "running"} /\ e.job[t] = "cancel_requested")

LEMMA StoppedSteps ==
  ASSUME IInv, Stopped(db, db'), db'.job \in [Tasks -> JobStates], UNCHANGED <<agent, host>>
  PROVE  RunSteps
<1>1. db.job \in [Tasks -> JobStates] /\ \A u \in Tasks : AgentOf(u)' = AgentOf(u)
  BY DEF IInv, Sound, Tables, AgentOf
<1>2. CASE db'.job = db.job
  <2>1. [u \in Tasks |-> AgentOf(u)]' = [u \in Tasks |-> AgentOf(u)]
    BY <1>1
  <2> QED BY <1>2, <2>1 DEF RunSteps, Delegated!rvars
<1>3. CASE db'.job # db.job
  <2>1. PICK t \in Tasks : db'.job[t] # db.job[t]
    BY <1>1, <1>3
  <2>2. db.job[t] \in {"queued", "running"} /\ db'.job[t] = "cancel_requested"
    BY <2>1 DEF Stopped
  <2>3. ASSUME NEW u \in Tasks \ {t} PROVE db'.job[u] = db.job[u]
    <3>1. db.job[u] \notin {"queued", "running"}
      BY <2>2 DEF IInv, Place, JobActive
    <3> QED BY <3>1 DEF Stopped
  <2>4. RunMoves(t, "cancel_requested", AgentOf(t))
    BY <1>1, <2>2, <2>3 DEF RunMoves
  <2>5. Delegated!StopAsked(t)
    BY <1>1, <2>2, <2>4, RunMoved DEF Delegated!StopAsked
  <2> QED BY <2>5 DEF RunSteps, Delegated!Next
<1> QED BY <1>2, <1>3

(* The statements of withdraw_specified before the tasks are closed. *)
LEMMA RevokedSound ==
  ASSUME NEW d, NEW p, Sound(d, p), NEW g \in Goals
  PROVE  /\ Sound(Revoked(d, g), p) /\ Asked(d, Revoked(d, g)) /\ Stopped(d, Revoked(d, g))
         /\ Revoked(d, g).task = d.task /\ Revoked(d, g).events = d.events
         /\ Revoked(d, g).withdrawn = d.withdrawn \cup {g}
         /\ Revoked(d, g).complete = d.complete
<1> DEFINE j == [t \in Tasks |-> IF t.goal = g THEN CancelledJob(d, t) ELSE d.job[t]]
           a == [d EXCEPT !.job = j]
           e == [a EXCEPT !.withdrawn = d.withdrawn \cup {g}]
<1>1. d \in Tables
  BY DEF Sound
<1>2. \A t \in Tasks : \/ j[t] = d.job[t]
                       \/ d.job[t] \in {"queued", "running"} /\ j[t] = "cancel_requested"
  BY DEF CancelledJob
<1>3. Revoked(d, g) = e
  BY <1>1 DEF Revoked, Tables
<1>4. j = [t \in Tasks |-> j[t]]
  OBVIOUS
<1> HIDE DEF j
<1>5. j \in [Tasks -> JobStates]
  BY <1>1, <1>2, <1>4 DEF Tables, JobStates, JobActive
<1>6. \A t \in Tasks : /\ d.job[t] # "none" => j[t] # "none"
                       /\ d.task[t].state = "absent" => j[t] = "none"
  BY <1>2 DEF Sound, Blank
<1>7. Sound(a, p)
  BY <1>5, <1>6, JobsSound
<1>8. /\ a.job = j /\ a.task = d.task /\ a.events = d.events
      /\ a.withdrawn = d.withdrawn /\ a.complete = d.complete
  BY <1>1 DEF Tables
<1> HIDE DEF a
<1>9. /\ e \in Tables /\ e.job = a.job /\ e.task = a.task /\ e.events = a.events
      /\ e.withdrawn = d.withdrawn \cup {g} /\ e.complete = a.complete
  BY <1>7, <1>8 DEF Sound, Tables
<1> HIDE DEF e
<1>10. Sound(e, p)
  BY <1>7, <1>9 DEF Sound, Blank, Outbox, InOrder, Backed
<1>11. Asked(d, e) /\ Stopped(d, e)
  BY <1>2, <1>8, <1>9 DEF Asked, Stopped, Ending
<1> QED BY <1>3, <1>8, <1>9, <1>10, <1>11

(* withdraw_goal: the tasks of the goal are closed. *)
LEMMA WithdrawKeeps ==
  ASSUME IInv, NEW g \in Goals, Withdraw(g)
  PROVE  IInv' /\ Promised
<1> DEFINE d == Revoked(db, g)
           r == [t \in Tasks |-> IF t.goal = g THEN ClosedTask(db.task[t]) ELSE db.task[t]]
<1>1. Sound(db, proved)
  BY DEF IInv
<1>2. /\ Sound(d, proved) /\ Asked(db, d) /\ Stopped(db, d) /\ d.task = db.task /\ d.events = db.events
      /\ d.withdrawn = db.withdrawn \cup {g} /\ d.complete = db.complete
  BY <1>1, RevokedSound
<1>3. db' = [d EXCEPT !.task = r] /\ UNCHANGED <<agent, own, host, playing, history>>
  BY DEF Withdraw
<1>4. d \in Tables
  BY <1>2 DEF Sound
<1> HIDE DEF d
<1>5. ASSUME NEW t \in Tasks
      PROVE  r[t] \in Row /\ RowKept(t, d.task[t], r[t], proved)
  <2>1. d.task[t] \in Row /\ d.task[t] = db.task[t]
    BY <1>2, <1>4 DEF Tables
  <2>2. CASE t.goal # g
    BY <2>1, <2>2 DEF RowKept
  <2>3. CASE t.goal = g
    <3> DEFINE old == d.task[t]
               st == IF old.state \in {"queued", "running", "awaiting_user"} THEN "cancelled"
                     ELSE old.state
               res == IF old.reserve = "reserved" THEN "released" ELSE old.reserve
    <3>1. r[t] = [old EXCEPT !.state = st, !.reserve = res]
      BY <2>1, <2>3 DEF ClosedTask
    <3>2. /\ st \in TaskStates /\ (st = "done" => old.state = "done")
          /\ (st = "absent" => old.state = "absent")
          /\ (old.state = "absent" => st = "absent")
          /\ res \in {"none", "reserved", "consumed", "released"}
      BY <2>1 DEF Row, TaskStates, OpenStates
    <3>3. old.state = "absent" => r[t] = old
      <4>1. old.state = "absent" => old.state = st /\ old.reserve = res
        BY <1>2 DEF Sound, Blank, NoRow
      <4>2. old \in Row
        BY <2>1
      <4> HIDE DEF st, res, r, old
      <4>3. [old EXCEPT !.state = old.state, !.reserve = old.reserve] = old
        BY <4>2 DEF Row
      <4>4. old.state = "absent" => r[t] = [old EXCEPT !.state = old.state, !.reserve = old.reserve]
        BY <3>1, <4>1, Zenon
      <4> QED BY <4>3, <4>4
    <3>4. old.state = "done" => t \in proved
      BY <1>2 DEF Sound, InOrder
    <3> HIDE DEF st, res, r
    <3>5. /\ r[t] \in Row /\ r[t].state = st /\ r[t].claimed = old.claimed
          /\ r[t].report = old.report /\ r[t].speech = old.speech
      BY <2>1, <3>1, <3>2 DEF Row
    <3> QED BY <3>2, <3>3, <3>4, <3>5 DEF RowKept
  <2> QED BY <2>2, <2>3
<1>6. r = [t \in Tasks |-> r[t]]
  OBVIOUS
<1> HIDE DEF r
<1>7. r \in [Tasks -> Row]
  BY <1>5, <1>6
<1>8. /\ db' \in Tables /\ db'.task = r /\ db'.job = d.job /\ db'.events = d.events
      /\ db'.withdrawn = d.withdrawn /\ db'.complete = d.complete
  BY <1>3, <1>4, <1>7 DEF Tables
<1>9. Works(d, db', proved)
  BY <1>5, <1>8 DEF Works
<1>10. Sound(db', proved) /\ SameReports(db, db')
  <2>1. Sound(db', proved)
    BY <1>2, <1>9, WorksSound
  <2>2. SameReports(d, db')
    BY <1>5, <1>8 DEF SameReports, RowKept
  <2> QED BY <1>2, <2>1, <2>2 DEF SameReports
<1>11. Asked(db, db')
  BY <1>2, <1>8 DEF Asked
<1>12. Typed' /\ Said(db', told', heard') /\ Late(db')
  <2>1. Said(db', told, heard)
    BY <1>10, SaidStays DEF IInv
  <2> QED BY <1>2, <1>3, <1>8, <2>1 DEF IInv, Typed, Late, history
<1>13. /\ Place'
       /\ {t \in Tasks : db'.job[t] # "none"} = {t \in Tasks : db.job[t] # "none"}
       /\ {t \in Tasks : db'.job[t] \in JobActive} = {t \in Tasks : db.job[t] \in JobActive}
  BY <1>3, <1>11, AskedPlace
<1>14. IInv'
  BY <1>3, <1>10, <1>12, <1>13 DEF IInv, history
<1>15. Promise!Withdraw(g)
  BY <1>2, <1>3, <1>8, <1>13 DEF Promise!Withdraw, history
<1>16. RunSteps
  <2>1. Stopped(db, db') /\ db'.job \in [Tasks -> JobStates]
    BY <1>2, <1>8 DEF Stopped, Tables
  <2> QED BY <1>3, <2>1, StoppedSteps
<1> QED BY <1>14, <1>15, <1>16 DEF Promised, GoalSteps, Promise!Next

(* The events may be any that the jobs and the proofs stand for. *)
LEMMA EventsSound ==
  ASSUME NEW d, NEW p, Sound(d, p), NEW evs \in Seq(Event),
         \A i \in DOMAIN evs : Backed(evs[i], d, p)
  PROVE  Sound([d EXCEPT !.events = evs], p)
<1> DEFINE e == [d EXCEPT !.events = evs]
<1>1. d \in Tables
  BY DEF Sound
<1>2. e \in Tables /\ e.task = d.task /\ e.job = d.job /\ e.events = evs
  BY <1>1 DEF Tables
<1> HIDE DEF e
<1>3. Sound(e, p)
  BY <1>2 DEF Sound, Blank, Outbox, InOrder, Backed
<1> QED BY <1>3 DEF e

-----------------------------------------------------------------------------
(* The end of a run.                                                           *)

(* A job ends and says so; p is proved before the end, and q after it. *)
Ends(d, e, p, q, t, kind, outcome) ==
  /\ Sound(d, p) /\ p \subseteq q /\ d.job[t] # "none"
  /\ kind \in {"settled", "failed", "interrupted"}
  /\ outcome \in {"none", "pass", "fail", "missing", "unknown", "confirm"}
  /\ kind = "settled" => outcome # "none"
  /\ kind = "settled" /\ outcome = "pass" => t \in q
  /\ e = Happened(d, t, kind, outcome)

After(d, e, t, kind, outcome) ==
  /\ e.task = d.task /\ e.withdrawn = d.withdrawn /\ e.complete = d.complete
  /\ e.job = [d.job EXCEPT ![t] = kind]
  /\ e.events = Append(d.events, [task |-> t, kind |-> kind, outcome |-> outcome])

LEMMA HappenedSound ==
  ASSUME NEW d, NEW e, NEW p, NEW q, NEW t \in Tasks, NEW kind, NEW outcome,
         Ends(d, e, p, q, t, kind, outcome)
  PROVE  Sound(e, q) /\ After(d, e, t, kind, outcome)
<1> DEFINE j == [d.job EXCEPT ![t] = kind]
           a == [d EXCEPT !.job = j]
           new == [task |-> t, kind |-> kind, outcome |-> outcome]
           evs == Append(d.events, new)
           made == [a EXCEPT !.events = evs]
<1> USE DEF Ends
<1>1. d \in Tables /\ d.events \in Seq(Event) /\ d.job \in [Tasks -> JobStates]
  BY DEF Sound, Tables
<1>2. e = made
  BY <1>1 DEF Happened, Tables
<1>3. j \in [Tasks -> JobStates]
  BY <1>1 DEF JobStates, JobActive
<1>4. /\ d.task[t].state # "absent" /\ Sound(d, q)
      /\ \A u \in Tasks : /\ d.job[u] # "none" => j[u] # "none"
                          /\ d.task[u].state = "absent" => j[u] = "none"
  BY <1>1, SoundMore DEF Sound, Blank
<1>5. /\ a.job = j /\ a.task = d.task /\ a.events = d.events
      /\ a.withdrawn = d.withdrawn /\ a.complete = d.complete
  BY <1>1 DEF Tables
<1>6. j[t] = kind
  BY <1>1
<1> HIDE DEF j
<1>7. Sound(a, q)
  BY <1>3, <1>4, JobsSound
<1> HIDE DEF a
<1>8. new \in Event /\ Backed(new, a, q)
  BY <1>5, <1>6 DEF Event, Backed
<1> HIDE DEF new
<1>9. evs \in Seq(Event)
  BY <1>1, <1>8
<1>10. ASSUME NEW i \in DOMAIN evs PROVE Backed(evs[i], a, q)
  <2>1. i \in 1 .. Len(d.events) + 1 /\ Len(d.events) \in Nat
    BY <1>1, <1>8
  <2>2. CASE i = Len(d.events) + 1
    BY <1>1, <1>8, <2>2
  <2>3. CASE i # Len(d.events) + 1
    <3>1. i \in DOMAIN a.events /\ evs[i] = a.events[i]
      BY <1>1, <1>5, <1>8, <2>1, <2>3
    <3> QED BY <1>7, <3>1 DEF Sound
  <2> QED BY <2>2, <2>3
<1> HIDE DEF evs
<1>11. Sound(made, q)
  BY <1>7, <1>9, <1>10, EventsSound
<1>12. /\ made.job = a.job /\ made.task = a.task /\ made.events = evs
       /\ made.withdrawn = a.withdrawn /\ made.complete = a.complete
  BY <1>7 DEF Sound, Tables
<1> HIDE DEF made
<1> QED BY <1>2, <1>5, <1>11, <1>12 DEF j, evs, new, After

(* The only job there was has ended, and its process with it. *)
LEMMA PlaceLeft ==
  ASSUME IInv, NEW t \in Tasks, agent[t] = "live", agent' = [agent EXCEPT ![t] = "none"],
         UNCHANGED <<own, host>>,
         \/ db'.job = db.job
         \/ \E k \in {"settled", "failed", "interrupted"} : db'.job = [db.job EXCEPT ![t] = k]
  PROVE  Place'
<1>1. /\ agent \in [Tasks -> {"none", "live", "orphan"}] /\ db.job \in [Tasks -> JobStates]
      /\ \A h \in Hosts : host[h].launch \in Tasks \cup {NoTask}
  BY DEF IInv, Typed, Sound, Tables, Doing
<1>2. db.job[t] \in JobActive /\ \A u \in Tasks : u # t => db.job[u] \notin JobActive
  BY DEF IInv, Place
<1>3. /\ own = "none" /\ \A u \in Tasks : agent'[u] = "none"
  BY <1>1, <1>2 DEF IInv, Place
<1>4. \A h \in Hosts : host[h].launch = NoTask
  <2>1. Ending \subseteq JobActive
    BY DEF Ending, JobActive
  <2> QED BY <1>1, <1>2, <2>1 DEF IInv, Place
<1>5. \A u \in Tasks : db'.job[u] \in JobActive => u = t
  BY <1>1, <1>2
<1> QED BY <1>3, <1>4, <1>5 DEF Place

(* The closing transaction: the one running job ends, and perhaps its goal is reached. *)
LEMMA EndPromised ==
  ASSUME IInv, NEW t \in Tasks, db.job[t] \in JobActive,
         NEW e, NEW kind, NEW outcome, Ends(db, e, proved, proved', t, kind, outcome),
         db' = Consume(e), proved' \in {proved, proved \cup {t}}
  PROVE  GoalSteps
<1> DEFINE new == [task |-> t, kind |-> kind, outcome |-> outcome]
           G == [u \in Tasks |-> u.goal]
           Ps == [g \in Goals |-> {{u \in TasksOf(g) : u.plan = q} : q \in Plans}]
<1>1. /\ Sound(e, proved') /\ e.withdrawn = db.withdrawn /\ e.complete = db.complete
      /\ e.job = [db.job EXCEPT ![t] = kind] /\ e.events = Append(db.events, new)
  <2>1. Sound(e, proved') /\ After(db, e, t, kind, outcome)
    BY HappenedSound
  <2> QED BY <2>1 DEF After
<1>2. db'.job = [db.job EXCEPT ![t] = kind] /\ db'.withdrawn = db.withdrawn
  <2>1. Follows(e, db', proved')
    BY <1>1, ConsumeFollows
  <2> QED BY <1>1, <2>1 DEF Follows
<1>3. /\ kind \in {"settled", "failed", "interrupted"}
      /\ kind = "settled" /\ outcome = "pass" => t \in proved'
  BY DEF Ends
<1>4. db.events \in Seq(Event) /\ Late(db) /\ db.job \in [Tasks -> JobStates]
  BY DEF IInv, Sound, Tables
<1>5. e.events \in Seq(Event) /\ Len(db.events) \in Nat /\ Len(e.events) = Len(db.events) + 1
  BY <1>4, <1>1 DEF Sound, Tables
<1>6. Closes(e, db', proved', Len(e.events))
  BY <1>1, ConsumeWorks
<1>7. ASSUME NEW g \in db'.complete \ db.complete
      PROVE  g = t.goal /\ t \in proved' /\ g \notin db.withdrawn /\ Fulfilled(g, proved')
  <2>1. g \notin db.withdrawn /\ Fulfilled(g, proved')
    BY <1>6, <1>1 DEF Closes
  <2>2. PICK i \in 1 .. Len(e.events) :
          e.events[i].kind = "settled" /\ e.events[i].outcome = "pass" /\ e.events[i].task.goal = g
    BY <1>6, <1>1 DEF Closes
  <2>3. i = Len(db.events) + 1
    <3>1. SUFFICES ASSUME i # Len(db.events) + 1 PROVE FALSE
      OBVIOUS
    <3>2. i \in DOMAIN db.events /\ e.events[i] = db.events[i]
      BY <1>4, <1>5, <1>1, <3>1
    <3> QED BY <1>4, <2>2, <3>2 DEF Late
  <2>4. e.events[i] = new
    BY <1>4, <1>1, <2>3
  <2> QED BY <1>3, <2>1, <2>2, <2>4
<1>8. db.complete \subseteq db'.complete
  BY <1>6, <1>1 DEF Closes
<1>9. \/ db'.complete = db.complete
      \/ /\ db'.complete = db.complete \cup {G[t]} /\ G[t] \notin db.withdrawn
         /\ t \in proved' /\ \E x \in Ps[G[t]] : x \subseteq proved'
  <2>1. CASE db'.complete \ db.complete = {}
    BY <1>8, <2>1
  <2>2. CASE db'.complete \ db.complete # {}
    <3>1. db'.complete = db.complete \cup {t.goal}
      BY <1>7, <1>8, <2>2
    <3>2. t \in proved' /\ t.goal \notin db.withdrawn /\ Fulfilled(t.goal, proved')
      BY <1>7, <2>2
    <3>3. t.goal \in Goals /\ G[t] = t.goal
      BY DEF Tasks
    <3>4. PICK q \in Plans : \A u \in TasksOf(t.goal) : u.plan = q => u \in proved'
      BY <3>2 DEF Fulfilled
    <3>5. {u \in TasksOf(t.goal) : u.plan = q} \in Ps[t.goal]
      BY <3>3
    <3>6. {u \in TasksOf(t.goal) : u.plan = q} \subseteq proved'
      BY <3>4
    <3> HIDE DEF G, Ps
    <3>7. \E x \in Ps[G[t]] : x \subseteq proved'
      BY <3>3, <3>5, <3>6
    <3> QED BY <3>1, <3>2, <3>3, <3>7
  <2> QED BY <2>1, <2>2
<1>10. {u \in Tasks : db'.job[u] # "none"} = {u \in Tasks : db.job[u] # "none"}
  BY <1>4, <1>2, <1>3 DEF JobActive
<1>11. {u \in Tasks : db'.job[u] \in JobActive} = {u \in Tasks : db.job[u] \in JobActive} \ {t}
  BY <1>4, <1>2, <1>3 DEF JobActive
<1>12. t \in {u \in Tasks : db.job[u] \in JobActive}
  OBVIOUS
<1> HIDE DEF G, Ps
<1>13. Promise!End(t)
  BY <1>9, <1>10, <1>11, <1>12, <1>2 DEF Promise!End, G, Ps
<1> QED BY <1>13 DEF GoalSteps, Promise!Next

(* The process is gone, and the run has ended as one may expect or was rolled back. *)
LEMMA EndLeavesPlace ==
  ASSUME IInv, NEW t \in Tasks, agent[t] = "live", db.job[t] \in Ending,
         agent' = [agent EXCEPT ![t] = "none"], UNCHANGED host, NEW st,
         db'.job = [db.job EXCEPT ![t] = st],
         \/ db.job[t] = "cancel_requested" /\ st = "interrupted"
         \/ db.job[t] = "running" /\ st = "settled"
         \/ db.job[t] # "cancel_requested" /\ st \in {"failed", db.job[t]}
  PROVE  RunSteps
<1>1. /\ agent \in [Tasks -> {"none", "live", "orphan"}] /\ db.job \in [Tasks -> JobStates]
      /\ db'.job \in [Tasks -> JobStates]
  <2>1. st \in JobStates
    BY DEF Ending, JobStates, JobActive
  <2> QED BY <2>1 DEF IInv, Typed, Sound, Tables
<1>2. AgentOf(t) = "live" /\ \A h \in Hosts : host[h].launch # t
  BY AgentLaunched DEF IInv
<1>3. RunMoves(t, st, "none")
  <2>1. AgentOf(t)' = "none"
    BY <1>1, <1>2 DEF AgentOf
  <2>2. \A u \in Tasks \ {t} : AgentOf(u)' = AgentOf(u)
    BY <1>1 DEF AgentOf
  <2> QED BY <1>1, <2>1, <2>2 DEF RunMoves
<1>4. Delegated!Moves(t, st, "none")
  BY <1>1, <1>3, RunMoved
<1>5. Delegated!End(t)
  BY <1>2, <1>4 DEF Delegated!End, Delegated!Open, Ending
<1> QED BY <1>5 DEF RunSteps, Delegated!Next

LEMMA RunEndsKeeps ==
  ASSUME IInv, NEW t \in Tasks, RunEnds(t)
  PROVE  IInv' /\ Promised
<1>1. PICK asked, outcome :
        /\ asked \in {"settled", "failed"} /\ (asked = "settled" => db.job[t] # "queued")
        /\ outcome \in IF asked = "settled" THEN Outcomes(t) ELSE {"none"}
        /\ db' = IF Unwritable(db, t, asked) THEN db ELSE Ended(db, t, asked, outcome)
        /\ proved' = IF outcome = "pass" /\ db'.job[t] = "settled" THEN proved \cup {t} ELSE proved
  BY DEF RunEnds
<1>2. /\ agent[t] = "live" /\ db.job[t] \in Ending /\ db.job[t] \in JobActive
      /\ agent' = [agent EXCEPT ![t] = "none"]
      /\ UNCHANGED <<own, host, playing, told, heard>>
  BY DEF RunEnds, Ending, JobActive
<1>3. /\ Sound(db, proved) /\ Said(db, told, heard) /\ db.job \in [Tasks -> JobStates]
      /\ agent \in [Tasks -> {"none", "live", "orphan"}]
  BY DEF IInv, Typed, Sound, Tables
<1>4. agent' \in [Tasks -> {"none", "live", "orphan"}] /\ proved' \in {proved, proved \cup {t}}
  BY <1>1, <1>2, <1>3
<1>5. Typed' /\ SameLaunches
  BY <1>2, <1>4 DEF IInv, Typed, SameLaunches
<1>6. CASE Unwritable(db, t, asked)
  <2>1. db' = db /\ proved' = proved
    BY <1>1, <1>6 DEF Unwritable
  <2>2. Place'
    BY <1>2, <2>1, PlaceLeft
  <2>3. GoalSteps
    BY <2>1, GoalQuietSteps DEF GoalQuiet
  <2>4. db.job[t] # "cancel_requested" /\ db'.job = [db.job EXCEPT ![t] = db.job[t]]
    BY <1>3, <1>6, <2>1 DEF Unwritable
  <2>5. RunSteps
    BY <1>2, <2>4, EndLeavesPlace
  <2> QED BY <1>2, <1>3, <1>5, <2>1, <2>2, <2>3, <2>5 DEF IInv, Promised
<1>7. CASE ~Unwritable(db, t, asked)
  <2> DEFINE stopped == db.job[t] = "cancel_requested"
             kind == IF stopped THEN "interrupted" ELSE asked
             out == IF stopped THEN "none" ELSE outcome
             e == Happened(db, t, kind, out)
  <2>1. db' = Consume(e)
    BY <1>1, <1>7 DEF Ended
  <2>2. /\ kind \in {"settled", "failed", "interrupted"}
        /\ out \in {"none", "pass", "fail", "missing", "unknown", "confirm"}
        /\ kind = "settled" => out # "none"
        /\ db.job[t] # "none"
    BY <1>1, <1>2 DEF Outcomes, Ending
  <2> HIDE DEF kind, out, e
  <2>3. e = Happened(db, t, kind, out)
    BY DEF e
  <2>4. /\ Sound(e, proved \cup {t}) /\ e.task = db.task /\ e.job = [db.job EXCEPT ![t] = kind]
    <3>1. Ends(db, e, proved, proved \cup {t}, t, kind, out)
      BY <1>3, <2>2, <2>3 DEF Ends
    <3>2. Sound(e, proved \cup {t}) /\ After(db, e, t, kind, out)
      BY <3>1, HappenedSound
    <3> QED BY <3>2 DEF After
  <2>5. db'.job = [db.job EXCEPT ![t] = kind] /\ db'.job[t] = kind
    <3>1. Follows(e, db', proved \cup {t})
      BY <2>1, <2>4, ConsumeFollows
    <3> QED BY <1>3, <2>4, <3>1 DEF Follows
  <2>6. kind = "settled" /\ out = "pass" => t \in proved'
    BY <1>1, <2>5 DEF kind, out
  <2>7. Ends(db, e, proved, proved', t, kind, out)
    BY <1>3, <1>4, <2>2, <2>6, <2>3 DEF Ends
  <2>8. Sound(e, proved') /\ e.withdrawn = db.withdrawn
    <3>1. Sound(e, proved') /\ After(db, e, t, kind, out)
      BY <2>7, HappenedSound
    <3> QED BY <3>1 DEF After
  <2>9. Follows(e, db', proved') /\ db'.events = <<>>
    BY <2>1, <2>8, ConsumeFollows
  <2>10. Sound(db', proved') /\ SameReports(db, db') /\ db'.withdrawn = db.withdrawn
    BY <2>4, <2>8, <2>9 DEF Follows, SameReports
  <2>11. Said(db', told', heard') /\ Late(db')
    BY <1>2, <1>3, <2>9, <2>10, SaidStays DEF Late
  <2>12. Place'
    BY <1>2, <2>2, <2>5, PlaceLeft
  <2>13. GoalSteps
    BY <1>2, <1>4, <2>1, <2>7, EndPromised
  <2>14. RunSteps
    <3>1. \/ db.job[t] = "cancel_requested" /\ kind = "interrupted"
          \/ db.job[t] = "running" /\ kind = "settled"
          \/ db.job[t] # "cancel_requested" /\ kind \in {"failed", db.job[t]}
      BY <1>1, <1>2 DEF kind, Ending
    <3> QED BY <1>2, <2>5, <3>1, EndLeavesPlace
  <2> QED BY <1>5, <2>10, <2>11, <2>12, <2>13, <2>14 DEF IInv, Promised
<1> QED BY <1>6, <1>7

-----------------------------------------------------------------------------
(* The death of the process.                                                   *)

(* The rows of speech after a restart *)
LEMMA ResetNotes ==
  ASSUME NEW d, NEW p, Sound(d, p), NEW tl, NEW hd, Said(d, tl, hd),
         NEW e, e = [d EXCEPT !.task = [t \in Tasks |-> SpeechReset(d.task[t])]]
  PROVE  Notes(d, e) /\ Sound(e, p) /\ Said(e, tl, hd)
<1> DEFINE r == [t \in Tasks |-> SpeechReset(d.task[t])]
<1>1. d \in Tables
  BY DEF Sound
<1>2. ASSUME NEW t \in Tasks
      PROVE  /\ r[t] \in Row /\ r[t].state = d.task[t].state /\ r[t].intent = d.task[t].intent
             /\ d.task[t].state = "absent" => r[t] = d.task[t]
             /\ r[t].claimed = d.task[t].claimed /\ r[t].report = d.task[t].report
             /\ \/ r[t].speech = d.task[t].speech
                \/ r[t].speech = "unknown" /\ d.task[t].speech \in {"starting", "playing"}
  <2>1. d.task[t] \in Row /\ (d.task[t].state = "absent" => d.task[t].speech = "none")
    BY <1>1 DEF Tables, Sound, Blank, NoRow
  <2>2. CASE d.task[t].speech \in {"starting", "playing"}
    <3>1. r[t] = [d.task[t] EXCEPT !.speech = "unknown"]
      BY <2>2 DEF SpeechReset
    <3> QED BY <2>1, <2>2, <3>1 DEF Row
  <2>3. CASE d.task[t].speech \notin {"starting", "playing"}
    <3>1. r[t] = [d.task[t] EXCEPT !.speech = d.task[t].speech]
      BY <2>3 DEF SpeechReset
    <3>2. [d.task[t] EXCEPT !.speech = d.task[t].speech] = d.task[t]
      BY <2>1 DEF Row
    <3> HIDE DEF r
    <3> QED BY <2>1, <3>1, <3>2
  <2> QED BY <2>2, <2>3
<1>3. r = [t \in Tasks |-> r[t]] /\ e = [d EXCEPT !.task = r]
  OBVIOUS
<1> HIDE DEF r
<1>4. r \in [Tasks -> Row]
  BY <1>2, <1>3
<1>5. Notes(d, e) /\ e.task = r
  <2>1. Notes(d, [d EXCEPT !.task = r]) /\ [d EXCEPT !.task = r].task = r
    BY <1>1, <1>2, <1>4, RowsNoted
  <2> QED BY <1>3, <2>1, Zenon
<1>6. Outbox(e) /\ Said(e, tl, hd)
  BY <1>2, <1>5 DEF Outbox, Said, Sound
<1> QED BY <1>5, <1>6, NotesSound

(* reconcile goes through some jobs that are there; each that was open is resolved. *)
Reconciles(d, e, order, unresolved) ==
  /\ \E n \in Nat, open \in SUBSET Tasks :
       order \in [1 .. n -> open] /\ \A t \in open : d.job[t] # "none"
  /\ e = Reconciled(d, order, unresolved)
Resolves(d, e, unresolved) ==
  /\ e.task = d.task /\ e.withdrawn = d.withdrawn /\ e.complete = d.complete
  /\ \A t \in Tasks :
       e.job[t] = IF d.job[t] \notin JobActive THEN d.job[t]
                  ELSE IF t \in unresolved THEN "outcome_unknown" ELSE "interrupted"

LEMMA ReconciledSound ==
  ASSUME NEW d, NEW e, NEW p, NEW order, NEW unresolved,
         Sound(d, p), Late(d), Reconciles(d, e, order, unresolved)
  PROVE  Sound(e, p) /\ Late(e) /\ Resolves(d, e, unresolved)
<1>1. PICK n \in Nat, open \in SUBSET Tasks :
        order \in [1 .. n -> open] /\ \A t \in open : d.job[t] # "none"
  BY DEF Reconciles
<1> DEFINE Left(t) == IF t \in unresolved THEN "outcome_unknown" ELSE "interrupted"
           j == [t \in Tasks |-> IF d.job[t] \in JobActive THEN Left(t) ELSE d.job[t]]
           new == [i \in 1 .. n |-> [task |-> order[i], kind |-> Left(order[i]), outcome |-> "none"]]
           evs == d.events \o new
           a == [d EXCEPT !.job = j]
           made == [a EXCEPT !.events = evs]
<1>2. d \in Tables /\ d.events \in Seq(Event) /\ d.job \in [Tasks -> JobStates]
  BY DEF Sound, Tables
<1>3. e = made
  BY <1>1, <1>2 DEF Reconciles, Reconciled, Tables
<1>4. \A t \in Tasks : /\ Left(t) \in {"outcome_unknown", "interrupted"}
                       /\ j[t] = IF d.job[t] \in JobActive THEN Left(t) ELSE d.job[t]
  OBVIOUS
<1>5. j \in [Tasks -> JobStates]
  BY <1>2 DEF JobStates, JobActive
<1>6. \A t \in Tasks : /\ d.job[t] # "none" => j[t] # "none"
                       /\ d.task[t].state = "absent" => j[t] = "none"
  BY DEF Sound, Blank, JobActive
<1>7. /\ a.job = j /\ a.task = d.task /\ a.events = d.events
      /\ a.withdrawn = d.withdrawn /\ a.complete = d.complete
  BY <1>2 DEF Tables
<1> HIDE DEF j
<1>8. Sound(a, p)
  BY <1>5, <1>6, JobsSound
<1> HIDE DEF a
<1>9. new \in Seq(Event) /\ Len(new) = n
  <2>1. \A i \in 1 .. n : order[i] \in Tasks
    BY <1>1
  <2>2. \A i \in 1 .. n : new[i] \in Event
    BY <2>1 DEF Event
  <2> QED BY <2>2
<1>10. \A i \in 1 .. n : Backed(new[i], a, p) /\ new[i].kind \in {"interrupted", "outcome_unknown"}
  BY <1>1, <1>6, <1>7 DEF Backed
<1> HIDE DEF new
<1>11. evs \in Seq(Event) /\ DOMAIN evs = 1 .. Len(d.events) + n
  BY <1>2, <1>9
<1>12. ASSUME NEW i \in DOMAIN evs
       PROVE  Backed(evs[i], a, p) /\ evs[i].kind \in {"interrupted", "outcome_unknown"}
  <2>1. Len(d.events) \in Nat /\ i \in 1 .. Len(d.events) + n
    BY <1>2, <1>11
  <2>2. CASE i <= Len(d.events)
    <3>1. i \in DOMAIN d.events /\ i \in DOMAIN a.events /\ evs[i] = d.events[i]
      BY <1>2, <1>7, <1>9, <2>1, <2>2
    <3> QED BY <1>7, <1>8, <3>1 DEF Sound, Late
  <2>3. CASE i > Len(d.events)
    <3>1. i - Len(d.events) \in 1 .. n /\ evs[i] = new[i - Len(d.events)]
      BY <1>2, <1>9, <2>1, <2>3
    <3> QED BY <1>10, <3>1
  <2> QED BY <2>1, <2>2, <2>3
<1> HIDE DEF evs
<1>13. Sound(made, p)
  BY <1>8, <1>11, <1>12, EventsSound
<1>14. /\ made.job = j /\ made.task = d.task /\ made.events = evs
       /\ made.withdrawn = d.withdrawn /\ made.complete = d.complete
  BY <1>7, <1>8 DEF Sound, Tables
<1> HIDE DEF made
<1>15. Late(made)
  BY <1>12, <1>14 DEF Late
<1>16. \A t \in Tasks :
         e.job[t] = IF d.job[t] \notin JobActive THEN d.job[t]
                    ELSE IF t \in unresolved THEN "outcome_unknown" ELSE "interrupted"
  BY <1>3, <1>4, <1>14
<1> QED BY <1>3, <1>13, <1>14, <1>15, <1>16 DEF Resolves

LEMMA RestartedKeeps ==
  ASSUME IInv, NEW d, Sound(d, proved), Asked(db, d), d.task = db.task, d.events = db.events,
         d.complete = db.complete, Restarted(d)
  PROVE  /\ IInv' /\ db'.withdrawn = d.withdrawn /\ db'.complete = db.complete /\ proved' = proved
         /\ RunSteps
         /\ \A t \in Tasks : /\ db'.job[t] # "none" <=> db.job[t] # "none"
                             /\ db'.job[t] \in JobActive => db.job[t] \in JobActive
<1> DEFINE open == {t \in Tasks : d.job[t] \in JobActive}
<1>1. PICK alive \in SUBSET {t \in Tasks : agent[t] # "none"}, doubtful \in BOOLEAN :
        /\ agent' = [t \in Tasks |-> IF t \in alive THEN "orphan" ELSE "none"]
        /\ \E order \in Bijection(1 .. Cardinality(open), open) :
             db' = [Reconciled(d, order,
                      alive \cup {t \in open : doubtful /\ (agent[t] # "none" \/ d.job[t] = "outcome_unknown")})
                      EXCEPT !.task = [t \in Tasks |-> SpeechReset(d.task[t])]]
  BY DEF Restarted
<1> DEFINE unresolved ==
      alive \cup {t \in open : doubtful /\ (agent[t] # "none" \/ d.job[t] = "outcome_unknown")}
<1>2. PICK order \in Bijection(1 .. Cardinality(open), open) :
        db' = [Reconciled(d, order, unresolved)
                 EXCEPT !.task = [t \in Tasks |-> SpeechReset(d.task[t])]]
  BY <1>1
<1>3. /\ own' \in CASE own = "none" -> {"none"} [] own = "unknown" -> {"none", "unknown"}
                    [] OTHER -> {"none", "unknown", "orphan"}
      /\ host' = [h \in Hosts |-> Idle] /\ playing' = {}
      /\ UNCHANGED <<told, heard, proved>>
  BY DEF Restarted, history
<1>4. open \in SUBSET Tasks /\ \A t \in open : d.job[t] # "none"
  BY DEF JobActive
<1>5. Cardinality(open) \in Nat
  <2> HIDE DEF open
  <2>1. IsFiniteSet(open)
    BY <1>4, TasksFinite, FS_Subset
  <2> QED BY <2>1, FS_CardinalityType
<1>6. order \in [1 .. Cardinality(open) -> open]
  BY DEF Bijection, Injection
<1>7. Late(d) /\ Said(d, told, heard)
  BY DEF IInv, Late, Said
<1> DEFINE e == Reconciled(d, order, unresolved)
<1> HIDE DEF open, unresolved
<1>8. e = Reconciled(d, order, unresolved)
  OBVIOUS
<1> HIDE DEF e
<1>9. Sound(e, proved) /\ Late(e) /\ Resolves(d, e, unresolved)
  <2>1. Reconciles(d, e, order, unresolved)
    BY <1>8, <1>4, <1>5, <1>6 DEF Reconciles
  <2> QED BY <1>7, <2>1, ReconciledSound
<1>10. db' = [e EXCEPT !.task = [t \in Tasks |-> SpeechReset(e.task[t])]]
  BY <1>8, <1>2, <1>9 DEF Resolves
<1>11. Said(e, told, heard)
  BY <1>7, <1>9 DEF Said, Resolves
<1>12. Notes(e, db') /\ Sound(db', proved) /\ Said(db', told, heard)
  BY <1>9, <1>10, <1>11, ResetNotes
<1>13. /\ db'.job = e.job /\ db'.withdrawn = d.withdrawn /\ db'.complete = db.complete /\ Late(db')
  BY <1>9, <1>12 DEF Notes, Late, Resolves
<1>14. \A t \in Tasks : /\ d.job[t] \in JobActive <=> db.job[t] \in JobActive
                        /\ d.job[t] # "none" <=> db.job[t] # "none"
  BY DEF Asked, Ending, JobActive
<1>15. \A t \in Tasks : /\ db'.job[t] # "none" <=> db.job[t] # "none"
                        /\ db'.job[t] \in JobActive => db.job[t] \in JobActive
  BY <1>9, <1>13, <1>14 DEF JobActive, Resolves
<1>16. Typed'
  <2>1. Idle \in Doing
    BY DEF Idle, Doing, Labels
  <2>2. /\ agent' \in [Tasks -> {"none", "live", "orphan"}]
        /\ host' \in [Hosts -> Doing] /\ playing' \in SUBSET (SUBSET Tasks)
    BY <1>1, <1>3, <2>1
  <2>3. own' \in {"none", "live", "orphan", "unknown"}
    BY <1>3 DEF IInv, Typed
  <2> QED BY <1>3, <2>2, <2>3 DEF IInv, Typed
<1>17. Place'
  <2>1. \A t, u \in Tasks : db'.job[t] \in JobActive /\ db'.job[u] \in JobActive => t = u
    BY <1>15 DEF IInv, Place
  <2>2. own' # "none" => \A t \in Tasks : db'.job[t] \notin JobActive
    BY <1>3, <1>15 DEF IInv, Place
  <2>3. \A t \in Tasks : agent'[t] # "live" /\ (agent'[t] # "none" => db'.job[t] \in JobActive)
    <3>1. SUFFICES ASSUME NEW t \in Tasks, t \in alive PROVE db'.job[t] \in JobActive
      BY <1>1
    <3>2. db.job[t] \in JobActive /\ t \in unresolved
      BY <3>1 DEF IInv, Place, unresolved
    <3>3. db'.job[t] = "outcome_unknown"
      BY <1>9, <1>13, <1>14, <3>2 DEF Resolves
    <3> QED BY <3>3 DEF JobActive
  <2>4. \A h \in Hosts : host'[h].launch = NoTask
    BY <1>3 DEF Idle
  <2> QED BY <2>1, <2>2, <2>3, <2>4 DEF Place
<1>18. IInv'
  BY <1>3, <1>12, <1>13, <1>16, <1>17 DEF IInv
<1>19. Delegated!Die
  <2> DEFINE A == [t \in Tasks |-> AgentOf(t)]
  <2>1. \A t \in Tasks : agent[t] # "none" => A[t] \in {"live", "orphan"}
    BY AgentLaunched DEF IInv, Typed
  <2>2. alive \in SUBSET {t \in Tasks : A[t] \in {"live", "orphan"}}
    BY <2>1
  <2>3. unresolved \in SUBSET {t \in Tasks : \/ A[t] \in {"live", "orphan"}
                                            \/ db.job[t] = "outcome_unknown"}
    <3>1. \A t \in Tasks : d.job[t] = "outcome_unknown" => db.job[t] = "outcome_unknown"
      BY DEF Asked, Ending
    <3> QED BY <1>4, <2>1, <3>1 DEF unresolved
  <2>4. A' = [t \in Tasks |-> IF t \in alive THEN "orphan" ELSE "none"]
    <3>1. \A t \in Tasks, h \in Hosts : host'[h].launch # t
      BY <1>3, StewardAssumption DEF Idle
    <3> QED BY <1>1, <3>1 DEF AgentOf
  <2>5. db'.job = [t \in Tasks |->
                     IF db.job[t] \notin Delegated!Open \cup {"outcome_unknown"} THEN db.job[t]
                     ELSE IF t \in alive \cup unresolved THEN "outcome_unknown" ELSE "interrupted"]
    <3>1. db'.job \in [Tasks -> JobStates] /\ alive \subseteq unresolved
      BY <1>12 DEF Sound, Tables, unresolved
    <3>2. \A t \in Tasks : db'.job[t] = IF d.job[t] \notin JobActive THEN d.job[t]
                                         ELSE IF t \in unresolved THEN "outcome_unknown"
                                         ELSE "interrupted"
      BY <1>9, <1>13 DEF Resolves
    <3>3. \A t \in Tasks : d.job[t] \notin JobActive => d.job[t] = db.job[t]
      BY DEF Asked, Ending, JobActive
    <3>4. JobActive = Delegated!Open \cup {"outcome_unknown"}
      BY DEF JobActive, Delegated!Open
    <3>5. alive \cup unresolved = unresolved
      BY <3>1
    <3>6. ASSUME NEW t \in Tasks
          PROVE  db'.job[t] = IF db.job[t] \notin Delegated!Open \cup {"outcome_unknown"} THEN db.job[t]
                              ELSE IF t \in alive \cup unresolved THEN "outcome_unknown"
                              ELSE "interrupted"
      BY <1>14, <3>2, <3>3, <3>4, <3>5
    <3> QED BY <3>1, <3>6
  <2> QED BY <2>2, <2>3, <2>4, <2>5 DEF Delegated!Die
<1>20. RunSteps
  BY <1>19 DEF RunSteps, Delegated!Next
<1> QED BY <1>3, <1>13, <1>15, <1>18, <1>20

(* A run that a restart resolves has ended, without a proof. *)
LEMMA DieKeeps ==
  ASSUME IInv, Die
  PROVE  IInv' /\ Promised
<1>1. Sound(db, proved) /\ Asked(db, db)
  BY DEF IInv, Asked
<1>2. /\ IInv' /\ RunSteps /\ db'.withdrawn = db.withdrawn /\ db'.complete = db.complete /\ proved' = proved
      /\ \A t \in Tasks : /\ db'.job[t] # "none" <=> db.job[t] # "none"
                          /\ db'.job[t] \in JobActive => db.job[t] \in JobActive
  BY <1>1, RestartedKeeps DEF Die
<1>3. {t \in Tasks : db'.job[t] # "none"} = {t \in Tasks : db.job[t] # "none"}
  BY <1>2
<1>4. CASE \A t \in Tasks : db.job[t] \in JobActive => db'.job[t] \in JobActive
  <2>1. GoalQuiet
    BY <1>2, <1>3, <1>4 DEF GoalQuiet
  <2> QED BY <1>2, <2>1, GoalQuietSteps DEF Promised
<1>5. ASSUME NEW t \in Tasks, db.job[t] \in JobActive, db'.job[t] \notin JobActive
      PROVE  GoalSteps
  <2>1. \A u \in Tasks : db.job[u] \in JobActive => u = t
    BY <1>5 DEF IInv, Place
  <2>2. /\ t \in {u \in Tasks : db.job[u] \in JobActive}
        /\ {u \in Tasks : db'.job[u] \in JobActive} = {u \in Tasks : db.job[u] \in JobActive} \ {t}
    BY <1>2, <1>5, <2>1
  <2>3. Promise!End(t)
    BY <1>2, <1>3, <2>2 DEF Promise!End
  <2> QED BY <2>3 DEF GoalSteps, Promise!Next
<1> QED BY <1>2, <1>4, <1>5 DEF Promised

LEMMA DieInWithdrawKeeps ==
  ASSUME IInv, NEW g \in Goals, DieInWithdraw(g)
  PROVE  IInv' /\ Promised
<1> DEFINE d == Revoked(db, g)
<1>1. Sound(db, proved) /\ Restarted(d)
  BY DEF IInv, DieInWithdraw
<1>2. /\ Sound(d, proved) /\ Asked(db, d) /\ d.task = db.task /\ d.events = db.events
      /\ d.withdrawn = db.withdrawn \cup {g} /\ d.complete = db.complete
  BY <1>1, RevokedSound
<1> HIDE DEF d
<1>3. /\ IInv' /\ RunSteps /\ db'.withdrawn = d.withdrawn /\ db'.complete = db.complete /\ proved' = proved
      /\ \A t \in Tasks : /\ db'.job[t] # "none" <=> db.job[t] # "none"
                          /\ db'.job[t] \in JobActive => db.job[t] \in JobActive
  BY <1>1, <1>2, RestartedKeeps
<1>4. /\ {t \in Tasks : db'.job[t] # "none"} = {t \in Tasks : db.job[t] # "none"}
      /\ {t \in Tasks : db'.job[t] \in JobActive} \subseteq {t \in Tasks : db.job[t] \in JobActive}
  BY <1>3
<1>5. Promise!Withdraw(g)
  BY <1>2, <1>3, <1>4 DEF Promise!Withdraw
<1> QED BY <1>3, <1>5 DEF Promised, GoalSteps, Promise!Next

-----------------------------------------------------------------------------
(* Two tasks of a goal are never open at once: the dedupe index is respected also by the  *)
(* statements that cannot be refused.                                                     *)

SameStates(d, e) == \A t \in Tasks : e.task[t].state = d.task[t].state

LEMMA SameStatesUnique ==
  ASSUME NEW d, NEW e, SameStates(d, e), Unique(d)
  PROVE  Unique(e)
BY DEF SameStates, Unique, Open

(* Reports and their speech are columns of their own. *)
LEMMA ReportsKeepStates ==
  ASSUME NEW d, d \in Tables
  PROVE  /\ \A silent \in BOOLEAN : SameStates(d, Claim(d, silent))
         /\ SameStates(d, Flush(d))
         /\ \A S, st : SameStates(d, Voiced(d, S, st)) /\ SameStates(d, Marked(d, S, st))
<1>1. d.task \in [Tasks -> Row] /\ \A t \in Tasks : d.task[t] \in Row
  BY DEF Tables
<1>2. ASSUME NEW silent \in BOOLEAN PROVE SameStates(d, Claim(d, silent))
  BY <1>1 DEF SameStates, Claim, Tables, Row
<1>3. SameStates(d, Flush(d))
  BY <1>1 DEF SameStates, Flush, Tables, Row
<1>4. ASSUME NEW S, NEW st PROVE SameStates(d, Voiced(d, S, st))
  BY <1>1 DEF SameStates, Voiced, Tables, Row
<1>5. ASSUME NEW S, NEW st PROVE SameStates(d, Marked(d, S, st))
  BY <1>4 DEF Marked
<1> QED BY <1>2, <1>3, <1>4, <1>5

(* prepare_candidate writes the row of the task alone, which was queued. *)
LEMMA PrepareNoneOpens ==
  ASSUME NEW d, NEW p, Sound(d, p), NEW t \in Tasks, d.task[t].state = "queued", NEW finding
  PROVE  NoneOpens(d, Prepare(d, t, finding).db)
<1> DEFINE e == Prepare(d, t, finding).db
           Alone(f) == \A u \in Tasks \ {t} : f.task[u] = d.task[u]
<1>1. d \in Tables /\ d.task[t].state # "absent" /\ Open(d, t)
  BY DEF Sound, Open, OpenStates
<1>2. ASSUME NEW st \in {"awaiting_user", "running", "cancelled", "failed"}
      PROVE  Loop(d, t, st) \in Tables /\ Alone(Loop(d, t, st))
  <2>1. st \in TaskStates \ {"absent", "done"}
    BY DEF TaskStates, OpenStates
  <2>2. Loop(d, t, st) \in Tables
    BY <2>1, <1>1, LoopSound DEF Works
  <2> QED BY <2>2, <1>1 DEF Loop, Tables
<1>3. ASSUME NEW f, f \in Tables, Alone(f)
      PROVE  Alone(Park(f, t)) /\ Alone(Refuse(f, t))
  BY <1>3 DEF Park, Refuse, Tables
<1>4. ASSUME NEW f, f \in Tables, Alone(f), NEW j
      PROVE  Alone([f EXCEPT !.task[t].intent = "accepted", !.job[t] = j])
  BY <1>4 DEF Tables
<1>5. Alone(d)
  OBVIOUS
<1>6. \/ e \in {Loop(d, t, "awaiting_user"), Loop(d, t, "running"), d, Park(d, t)}
      \/ e = Park(Loop(d, t, "awaiting_user"), t)
      \/ e \in {Refuse(Loop(d, t, "cancelled"), t), Refuse(Loop(d, t, "failed"), t)}
      \/ \E j : e = [Loop(d, t, "running") EXCEPT !.task[t].intent = "accepted", !.job[t] = j]
  BY DEF Prepare
<1> HIDE DEF e, Alone
<1>7. Alone(e)
  <2>1. CASE e \in {Loop(d, t, "awaiting_user"), Loop(d, t, "running"), d, Park(d, t)}
    BY <2>1, <1>1, <1>2, <1>3, <1>5
  <2>2. CASE e = Park(Loop(d, t, "awaiting_user"), t)
    BY <2>2, <1>2, <1>3
  <2>3. CASE e \in {Refuse(Loop(d, t, "cancelled"), t), Refuse(Loop(d, t, "failed"), t)}
    BY <2>3, <1>2, <1>3
  <2>4. ASSUME NEW j, e = [Loop(d, t, "running") EXCEPT !.task[t].intent = "accepted",
                                                        !.job[t] = j]
        PROVE  Alone(e)
    BY <2>4, <1>2, <1>4
  <2> QED BY <1>6, <2>1, <2>2, <2>3, <2>4
<1> QED BY <1>1, <1>7 DEF NoneOpens, Open, Alone, e

LEMMA DispatchUnique ==
  ASSUME IInv, Unique(db), NEW h, NEW next, NEW candidates, Dispatch(h, candidates, next),
         \A t \in candidates : t \in Tasks /\ db.task[t].state = "queued"
  PROVE  Unique(db')
<1>1. PICK t \in candidates, finding \in Findings : db' = Prepare(db, t, finding).db
  BY DEF Dispatch
<1>2. NoneOpens(db, db')
  BY <1>1, PrepareNoneOpens DEF IInv
<1> QED BY <1>2, NoneOpensUnique

(* A publication keeps the states that the end of the runs gave the tasks. *)
LEMMA PublishUnique ==
  ASSUME IInv, Unique(Sync(Consume(db))), NEW silent \in BOOLEAN
  PROVE  Unique(Publish(db, silent)) /\ Unique(Flush(Publish(db, silent)))
<1> DEFINE c == Sync(Consume(db))
           e == Publish(db, silent)
<1>1. c \in Tables
  BY RecoverFollows DEF Sync, IInv, Follows, Sound
<1>2. SameStates(c, e)
  BY <1>1, ReportsKeepStates DEF Publish
<1>3. Sound(e, proved)
  BY PublishSound DEF IInv, Typed
<1>4. e \in Tables
  BY <1>3 DEF Sound
<1> HIDE DEF c, e
<1>5. SameStates(e, Flush(e))
  BY <1>4, ReportsKeepStates
<1>6. Unique(e)
  BY <1>2, SameStatesUnique DEF c
<1> QED BY <1>5, <1>6, SameStatesUnique DEF e

(* A statement of recover_conversations or of a publication that opens a second task fails. *)
LEMMA PumpUnique ==
  ASSUME IInv, Unique(db), Pump
  PROVE  Unique(db')
<1>1. db \in Tables /\ Sound(db, proved)
  BY DEF IInv, Sound
<1>2. CASE PumpRecovers
  BY <1>2 DEF PumpRecovers
<1>3. CASE PumpStarts
  BY <1>3, DispatchUnique DEF PumpStarts, Eligible
<1>4. CASE PumpFollows
  BY <1>4, DispatchUnique DEF PumpFollows, Eligible
<1>5. CASE PumpStopsStarting \/ PumpSkipsFlush
  BY <1>5 DEF PumpStopsStarting, PumpSkipsFlush
<1>6. CASE PumpFlushes
  <2>1. PICK silent \in BOOLEAN : db' = Flush(Publish(db, silent))
    BY <1>6 DEF PumpFlushes
  <2> QED BY <1>6, <2>1, PublishUnique DEF PumpFlushes
<1>7. CASE PumpClaimsSpeech
  <2>1. PICK st : db' = Voiced(db, Unspoken, st)
    BY <1>7 DEF PumpClaimsSpeech
  <2> QED BY <2>1, <1>1, ReportsKeepStates, SameStatesUnique
<1>8. CASE PumpSays
  <2>1. db' = db \/ db' = Marked(db, host["pump"].speech, "unknown")
    BY <1>8 DEF PumpSays
  <2> QED BY <2>1, <1>1, ReportsKeepStates, SameStatesUnique
<1> QED BY <1>2, <1>3, <1>4, <1>5, <1>6, <1>7, <1>8 DEF Pump

(* queue_task of several goals, each of which has rows of its own. *)
LEMMA TurnQueuesUnique ==
  ASSUME IInv, Unique(db), TurnQueues
  PROVE  Unique(db')
<1>1. CASE db' = db
  BY <1>1
<1>2. ASSUME NEW S,
             db' = [db EXCEPT !.task = [t \in Tasks |->
                      IF t.goal \in S THEN QueueTask(db, t.goal, FALSE).task[t] ELSE db.task[t]]]
      PROVE  Unique(db')
  <2>1. \A t \in Tasks : db'.task[t] = IF t.goal \in S THEN QueueTask(db, t.goal, FALSE).task[t]
                                       ELSE db.task[t]
    BY <1>2 DEF IInv, Sound, Tables
  <2>2. SUFFICES ASSUME NEW t \in Tasks, NEW u \in Tasks, t.goal = u.goal,
                        Open(db', t), Open(db', u)
                 PROVE  t = u
    BY DEF Unique
  <2>3. CASE t.goal \in S
    <3> DEFINE e == QueueTask(db, t.goal, FALSE)
    <3>1. t.goal \in Goals /\ FALSE \in BOOLEAN /\ Sound(db, proved)
      BY DEF Tasks, IInv
    <3>2. Queued(db, e, t.goal)
      BY <3>1, QueueWorks
    <3>3. Unique(e)
      BY <3>2, QueuedUnique
    <3>4. db'.task[t] = e.task[t] /\ db'.task[u] = e.task[u]
      BY <2>1, <2>2, <2>3
    <3> HIDE DEF e
    <3> QED BY <2>2, <3>3, <3>4 DEF Unique, Open
  <2>4. CASE t.goal \notin S
    <3>1. db'.task[t] = db.task[t] /\ db'.task[u] = db.task[u]
      BY <2>1, <2>2, <2>4
    <3> QED BY <2>2, <3>1 DEF Unique, Open
  <2> QED BY <2>3, <2>4
<1> QED BY <1>1, <1>2 DEF TurnQueues

(* withdraw_goal closes rows. *)
LEMMA WithdrawUnique ==
  ASSUME IInv, Unique(db), NEW g \in Goals, Withdraw(g)
  PROVE  Unique(db')
<1> DEFINE d == Revoked(db, g)
           r == [t \in Tasks |-> IF t.goal = g THEN ClosedTask(db.task[t]) ELSE db.task[t]]
<1>1. Sound(d, proved)
  BY RevokedSound DEF IInv
<1>2. d \in Tables /\ db' = [d EXCEPT !.task = r]
  BY <1>1 DEF Withdraw, Sound
<1> HIDE DEF d
<1>3. db'.task = r
  BY <1>2 DEF Tables
<1>4. ASSUME NEW t \in Tasks, Open(db', t) PROVE Open(db, t)
  <2>1. db.task[t] \in Row
    BY DEF IInv, Sound, Tables
  <2>2. ClosedTask(db.task[t]).state \in {db.task[t].state, "cancelled"}
    BY <2>1 DEF ClosedTask, Row
  <2>3. db'.task[t].state \in {db.task[t].state, "cancelled"}
    BY <1>3, <2>2
  <2> QED BY <1>4, <2>3 DEF Open, OpenStates
<1>5. NoneOpens(db, db')
  BY <1>4 DEF NoneOpens
<1> QED BY <1>5, NoneOpensUnique

(* A row that is opened again is the only one of its goal. *)
LEMMA ResolveUnique ==
  ASSUME IInv, Unique(db), NEW t \in Tasks, NEW decision \in {"approve", "reject", "reinspect"},
         Resolve(t, decision)
  PROVE  Unique(db')
<1> DEFINE st == CASE decision = "approve" -> "done" [] decision = "reject" -> "cancelled"
                   [] decision = "reinspect" -> "queued"
<1>1. db' = Loop(db, t, st) /\ db \in Tables
  BY DEF Resolve, IInv, Sound
<1>2. decision # "reinspect" => st \notin OpenStates
  BY DEF OpenStates
<1> HIDE DEF st
<1>3. CASE decision # "reinspect" \/ Open(db, t)
  <2>1. NoneOpens(db, db')
    BY <1>1, <1>2, <1>3, LoopNoneOpens
  <2> QED BY <2>1, NoneOpensUnique
<1>4. CASE decision = "reinspect" /\ ~Open(db, t)
  <2>1. \A u \in TasksOf(t.goal) : ~Open(db, u)
    BY <1>4 DEF Resolve
  <2>2. \A u \in Tasks \ {t} : db'.task[u] = db.task[u]
    BY <1>1 DEF Loop, Tables
  <2>3. Queued(db, db', t.goal)
    BY <2>1, <2>2 DEF Queued, TasksOf
  <2> QED BY <2>3, QueuedUnique
<1> QED BY <1>3, <1>4

(* The closing transaction consumes the end, and with it queues or replans. *)
LEMMA RunEndsUnique ==
  ASSUME IInv, Unique(db), NEW t \in Tasks, RunEnds(t)
  PROVE  Unique(db')
<1>1. PICK asked, outcome :
        /\ asked \in {"settled", "failed"}
        /\ outcome \in IF asked = "settled" THEN Outcomes(t) ELSE {"none"}
        /\ db' = IF Unwritable(db, t, asked) THEN db ELSE Ended(db, t, asked, outcome)
  BY DEF RunEnds
<1>2. Sound(db, proved) /\ db.job[t] # "none"
  BY DEF IInv, RunEnds, Ending
<1>3. CASE db' = db
  BY <1>3
<1>4. CASE db' # db
  <2> DEFINE stopped == db.job[t] = "cancel_requested"
             kind == IF stopped THEN "interrupted" ELSE asked
             out == IF stopped THEN "none" ELSE outcome
             e == Happened(db, t, kind, out)
  <2>1. db' = Consume(e)
    BY <1>1, <1>4 DEF Ended
  <2>2. /\ kind \in {"settled", "failed", "interrupted"}
        /\ out \in {"none", "pass", "fail", "missing", "unknown", "confirm"}
        /\ kind = "settled" => out # "none"
    BY <1>1 DEF Outcomes
  <2> HIDE DEF kind, out, e
  <2>3. Ends(db, e, proved, proved \cup {t}, t, kind, out)
    BY <1>2, <2>2 DEF Ends, e
  <2>4. Sound(e, proved \cup {t}) /\ e.task = db.task
    BY <2>3, HappenedSound DEF After
  <2>5. Unique(e)
    BY <2>4 DEF Unique, Open
  <2> QED BY <2>1, <2>4, <2>5, ConsumeWorks
<1> QED BY <1>3, <1>4

(* reconcile writes jobs and events, the schema speech. *)
LEMMA RestartedUnique ==
  ASSUME IInv, Unique(db), NEW d, d.task = db.task, d \in Tables, Restarted(d)
  PROVE  Unique(db')
<1>1. PICK order, unresolved :
        db' = [Reconciled(d, order, unresolved)
                 EXCEPT !.task = [t \in Tasks |-> SpeechReset(d.task[t])]]
  BY DEF Restarted
<1>2. db'.task = [t \in Tasks |-> SpeechReset(d.task[t])]
  BY <1>1 DEF Reconciled, Tables
<1>3. \A t \in Tasks : SpeechReset(d.task[t]).state = db.task[t].state
  BY DEF SpeechReset, Tables, Row
<1>4. SameStates(db, db')
  BY <1>2, <1>3 DEF SameStates
<1> QED BY <1>4, SameStatesUnique

LEMMA UniqueStep ==
  ASSUME IInv, Unique(db), [Next]_vars
  PROVE  Unique(db')
<1>0. db \in Tables /\ Sound(db, proved)
  BY DEF IInv, Sound
<1>1. CASE UNCHANGED vars
  BY <1>1 DEF vars
<1>2. CASE Pump
  BY <1>2, PumpUnique
<1>3. CASE User
  <2>1. CASE TurnPublishes
    <3>1. PICK silent \in BOOLEAN : db' \in {Publish(db, silent), Flush(Publish(db, silent))}
      BY <2>1 DEF TurnPublishes
    <3> QED BY <2>1, <3>1, PublishUnique DEF TurnPublishes
  <2>2. CASE TurnQueues
    BY <2>2, TurnQueuesUnique
  <2>3. CASE TurnStarts
    BY <2>3, DispatchUnique DEF TurnStarts, Eligible
  <2>4. CASE ScheduleStarts
    BY <2>4, DispatchUnique DEF ScheduleStarts
  <2>5. ASSUME NEW g \in Goals, Withdraw(g) PROVE Unique(db')
    BY <2>5, WithdrawUnique
  <2>6. ASSUME NEW g \in Goals, ScreenQueues(g) PROVE Unique(db')
    <3>1. Queued(db, db', g)
      BY <2>6, <1>0, QueueWorks DEF ScreenQueues
    <3> QED BY <3>1, QueuedUnique
  <2>7. ASSUME NEW t \in Tasks, NEW decision \in {"approve", "reject", "reinspect"},
               Resolve(t, decision)
        PROVE  Unique(db')
    BY <2>7, ResolveUnique
  <2> QED BY <1>3, <2>1, <2>2, <2>3, <2>4, <2>5, <2>6, <2>7 DEF User
<1>4. ASSUME NEW h \in Hosts, Launch(h) PROVE Unique(db')
  BY <1>4 DEF Launch
<1>5. ASSUME NEW t \in Tasks, Runner(t) \/ ReportDue(t) \/ IntentDue(t)
      PROVE  Unique(db')
  <2>1. CASE StopNoticed(t) \/ Accept(t)
    <3>1. db'.task = db.task
      BY <2>1, <1>0 DEF StopNoticed, Accept, Tables
    <3> QED BY <3>1 DEF Unique, Open
  <2>2. CASE RunEnds(t)
    BY <2>2, RunEndsUnique
  <2>3. CASE OrphanEnds(t)
    BY <2>3 DEF OrphanEnds
  <2>4. CASE ReportDue(t) \/ IntentDue(t)
    <3>1. db.task \in [Tasks -> Row]
      BY <1>0 DEF Tables
    <3>2. PICK c, x : db' = [db EXCEPT !.task[t] = [@ EXCEPT ![c] = x]] /\ c # "state"
      BY <2>4 DEF ReportDue, IntentDue
    <3>3. db'.task = [db.task EXCEPT ![t] = [db.task[t] EXCEPT ![c] = x]]
      BY <1>0, <3>2 DEF Tables
    <3>4. [db.task[t] EXCEPT ![c] = x].state = db.task[t].state
      BY <3>1, <3>2 DEF Row
    <3>5. SameStates(db, db')
      BY <3>1, <3>3, <3>4 DEF SameStates
    <3> QED BY <3>5, SameStatesUnique
  <2> QED BY <1>5, <2>1, <2>2, <2>3, <2>4 DEF Runner
<1>6. ASSUME NEW S \in SUBSET Tasks, PlaybackStarts(S) \/ PlaybackEnds(S)
      PROVE  Unique(db')
  <2>1. PICK st : db' = Marked(db, S, st)
    BY <1>6 DEF PlaybackStarts, PlaybackEnds
  <2> QED BY <2>1, <1>0, ReportsKeepStates, SameStatesUnique
<1>7. CASE OwnStarts \/ OwnEnds
  BY <1>7 DEF OwnStarts, OwnEnds
<1>8. CASE Die
  BY <1>8, <1>0, RestartedUnique DEF Die
<1>9. ASSUME NEW g \in Goals, DieInWithdraw(g) PROVE Unique(db')
  <2>1. Sound(Revoked(db, g), proved) /\ Revoked(db, g).task = db.task
    BY <1>0, RevokedSound
  <2>2. Revoked(db, g) \in Tables
    BY <2>1 DEF Sound
  <2> QED BY <1>9, <2>1, <2>2, RestartedUnique DEF DieInWithdraw
<1> QED BY <1>1, <1>2, <1>3, <1>4, <1>5, <1>6, <1>7, <1>8, <1>9 DEF Next

-----------------------------------------------------------------------------
(* The invariant, and what it says.                                            *)

LEMMA InitHolds == Init => IInv /\ Promise!Init /\ Delegated!Init
<1> SUFFICES ASSUME Init PROVE IInv /\ Promise!Init /\ Delegated!Init
  OBVIOUS
<1>1. NoRow \in Row /\ <<>> \in Seq(Event) /\ 1 \in Plans
  BY StewardAssumption DEF NoRow, Row, TaskStates, OpenStates, Plans
<1>2. /\ \A t \in Tasks : db.task[t] = NoRow /\ db.job[t] = "none"
      /\ db.events = <<>> /\ db.withdrawn = {} /\ db.complete = {}
      /\ db.task \in [Tasks -> Row] /\ db.job \in [Tasks -> JobStates]
      /\ db.plan \in [Goals -> Plans]
  BY <1>1 DEF Init, JobStates
<1>3. db \in Tables
  BY <1>1, <1>2 DEF Init, Tables
<1>4. Sound(db, proved)
  <2>1. Blank(db) /\ Outbox(db) /\ InOrder(db, proved)
    BY <1>2 DEF Blank, Outbox, InOrder, NoRow
  <2>2. \A i \in DOMAIN db.events : Backed(db.events[i], db, proved)
    BY <1>2
  <2> QED BY <1>3, <2>1, <2>2 DEF Sound
<1>5. Idle \in Doing /\ Idle.launch = NoTask
  BY DEF Idle, Doing, Labels
<1>6. Typed
  BY <1>5 DEF Init, Typed
<1>7. Said(db, told, heard)
  BY <1>2 DEF Init, Said, NoRow
<1>8. Place
  <2>1. \A t \in Tasks : db.job[t] \notin JobActive
    BY <1>2 DEF JobActive
  <2>2. /\ own = "none" /\ \A t \in Tasks : agent[t] = "none"
        /\ \A h \in Hosts : host[h].launch = NoTask
    BY <1>5 DEF Init
  <2> QED BY <2>1, <2>2 DEF Place
<1>9. Late(db)
  BY <1>2 DEF Late
<1>10. Promise!Init
  <2>1. /\ {t \in Tasks : db.job[t] # "none"} = {}
        /\ {t \in Tasks : db.job[t] \in JobActive} = {}
    BY <1>2 DEF JobActive
  <2> QED BY <1>2, <2>1 DEF Init, Promise!Init
<1>11. Delegated!Init
  <2>1. db.job = [t \in Tasks |-> "none"]
    BY <1>2
  <2>2. \A t \in Tasks : AgentOf(t) = "none"
    BY <1>5, StewardAssumption DEF Init, AgentOf
  <2> QED BY <2>1, <2>2 DEF Delegated!Init
<1> QED BY <1>4, <1>6, <1>7, <1>8, <1>9, <1>10, <1>11 DEF IInv

LEMMA NextKeeps == IInv /\ [Next]_vars => IInv' /\ Promised
<1> SUFFICES ASSUME IInv, [Next]_vars PROVE IInv' /\ Promised
  OBVIOUS
<1>1. CASE UNCHANGED vars
  <2>1. Typed' /\ SameLaunches /\ UNCHANGED <<db, agent, own, told, heard, proved>>
    BY <1>1 DEF IInv, Typed, SameLaunches, vars, history
  <2> QED BY <2>1, TablesStay, QuietPromised
<1>2. CASE Pump
  <2>1. CASE PumpStarts \/ PumpFollows
    BY <2>1, StartsKeep
  <2>2. CASE ~(PumpStarts \/ PumpFollows)
    BY <1>2, <2>2, PumpRecoversKeeps, PumpStopsStartingKeeps, PumpFlushesKeeps,
       PumpClaimsSpeechKeeps, PumpSaysKeeps, QuietPromised DEF Pump
  <2> QED BY <2>1, <2>2
<1>3. CASE User
  <2>1. CASE TurnPublishes \/ TurnQueues
    BY <2>1, TurnPublishesKeeps, TurnQueuesKeeps, QuietPromised
  <2>2. CASE TurnStarts \/ ScheduleStarts
    BY <2>2, StartsKeep
  <2>3. ASSUME NEW g \in Goals, Withdraw(g) \/ ScreenQueues(g)
        PROVE  IInv' /\ Promised
    BY <2>3, WithdrawKeeps, ScreenQueuesKeeps, QuietPromised
  <2>4. ASSUME NEW t \in Tasks, NEW decision \in {"approve", "reject", "reinspect"},
               Resolve(t, decision)
        PROVE  IInv' /\ Promised
    BY <2>4, ResolveKeeps
  <2> QED BY <1>3, <2>1, <2>2, <2>3, <2>4 DEF User
<1>4. ASSUME NEW h \in Hosts, Launch(h) PROVE IInv' /\ Promised
  BY <1>4, LaunchKeeps
<1>5. ASSUME NEW t \in Tasks, Runner(t) \/ ReportDue(t) \/ IntentDue(t)
      PROVE  IInv' /\ Promised
  <2>1. CASE StopNoticed(t) \/ Accept(t)
    BY <2>1, RunnerLooksKeeps
  <2>2. CASE RunEnds(t)
    BY <2>2, RunEndsKeeps
  <2>3. CASE OrphanEnds(t)
    BY <2>3, OrphanKeeps
  <2>4. CASE ReportDue(t) \/ IntentDue(t)
    BY <2>4, ReportDueKeeps, IntentDueKeeps, QuietPromised
  <2> QED BY <1>5, <2>1, <2>2, <2>3, <2>4 DEF Runner
<1>6. ASSUME NEW S \in SUBSET Tasks, PlaybackStarts(S) \/ PlaybackEnds(S)
      PROVE  IInv' /\ Promised
  BY <1>6, PlaybackStartsKeeps, PlaybackEndsKeeps, QuietPromised
<1>7. CASE OwnStarts \/ OwnEnds
  BY <1>7, OwnKeeps
<1>8. CASE Die
  BY <1>8, DieKeeps
<1>9. ASSUME NEW g \in Goals, DieInWithdraw(g) PROVE IInv' /\ Promised
  BY <1>9, DieInWithdrawKeeps
<1> QED BY <1>1, <1>2, <1>3, <1>4, <1>5, <1>6, <1>7, <1>8, <1>9 DEF Next

(* The inductive invariant: the tables are sound under the proofs there are, what was *)
(* told and heard is what their rows say, one job has the one place, and what waits   *)
(* to be consumed completes nothing.                                                  *)
THEOREM Invariance == Spec => []IInv
<1>1. Init => IInv
  BY InitHolds
<1>2. IInv /\ [Next]_vars => IInv'
  BY NextKeeps
<1> QED BY <1>1, <1>2, PTL DEF Spec

(* Two tasks of a goal are never open at once. *)
LEMMA UniqueHolds == Spec => []Unique(db)
<1>1. Init => Unique(db)
  BY DEF Init, Unique, Open, OpenStates, NoRow
<1>2. IInv /\ Unique(db) /\ [Next]_vars => Unique(db)'
  BY UniqueStep DEF Unique, Open
<1> QED BY <1>1, <1>2, Invariance, PTL DEF Spec

(* The rows keep to their states, two tasks of a goal are never open at once, and a *)
(* runner lives only while its run is open.                                         *)
THEOREM TypeCorrect == Spec => []TypeOK
<1>1. IInv /\ Unique(db) => TypeOK
  <2> SUFFICES ASSUME IInv, Unique(db) PROVE TypeOK
    OBVIOUS
  <2>1. db \in Tables /\ Typed /\ Place
    BY DEF IInv, Sound
  <2>2. \A t \in Tasks :
          /\ db.task[t] \in Row /\ db.job[t] \in JobStates
          /\ agent[t] \in {"none", "live", "orphan"} /\ told[t] \in Nat /\ heard[t] \in Nat
          /\ agent[t] = "live" => db.job[t] \in Ending
    BY <2>1 DEF Tables, Typed, Place
  <2>3. \A r \in Row :
          /\ r.state \in TaskStates /\ r.intent \in {"none", "pending", "accepted", "failed"}
          /\ r.reserve \in {"none", "reserved", "consumed", "released"}
          /\ r.report \in {"none", "later", "waiting", "flushed"}
    BY DEF Row
  <2>4. db.plan \in [Goals -> Plans] /\ \A h \in Hosts : host[h].launch \in Tasks \cup {NoTask}
    BY <2>1 DEF Tables, Typed, Doing
  <2> QED BY <2>2, <2>3, <2>4 DEF TypeOK
<1> QED BY <1>1, Invariance, UniqueHolds, PTL

(* Two agents never work in the user's workspaces at once: active_run_exists is asked in *)
(* the transaction that begins a job, and a process or a launch on its way keeps its job *)
(* open, across restarts too.                                                            *)
THEOREM NeverTwoAgents == Spec => []OneAgent
<1>1. IInv => OneAgent
  <2> SUFFICES ASSUME IInv PROVE OneAgent
    OBVIOUS
  <2> DEFINE working == {t \in Tasks : agent[t] # "none" \/ \E h \in Hosts : host[h].launch = t}
  <2>1. \A t \in working : t \in Tasks /\ db.job[t] \in JobActive
    <3>1. Ending \subseteq JobActive /\ NoTask \notin Tasks
      BY StewardAssumption DEF Ending, JobActive
    <3> QED BY <3>1 DEF IInv, Place
  <2> HIDE DEF working
  <2>2. \A t, u \in working : t = u
    BY <2>1 DEF IInv, Place
  <2>3. Cardinality(working) <= 1
    <3>1. CASE working = {}
      <4>1. Cardinality(working) = 0
        BY <3>1, FS_EmptySet
      <4> QED BY <4>1
    <3>2. CASE working # {}
      <4>1. PICK x \in working : TRUE
        BY <3>2
      <4>2. working = {x}
        BY <2>2, <4>1
      <4>3. Cardinality(working) = 1
        BY <4>2, FS_Singleton
      <4> QED BY <4>3
    <3> QED BY <3>1, <3>2
  <2>4. own \in {"live", "orphan"} => working = {}
    BY <2>1 DEF IInv, Place
  <2> QED BY <2>3, <2>4 DEF OneAgent, working
<1> QED BY <1>1, Invariance, PTL

(* A task is done, and the step after it runs, only on evidence that passed or the user's *)
(* approval: sync_from_coding, replans, withdrawals and restarts do not make work done.   *)
THEOREM AlwaysProvenInOrder == Spec => []ProvenInOrder
<1>1. IInv => ProvenInOrder
  <2> SUFFICES ASSUME IInv, NEW t \in Tasks
               PROVE  /\ db.task[t].state = "done" => t \in proved
                      /\ db.job[t] # "none" /\ t.step > 1 => Before(t) \in proved
    BY DEF ProvenInOrder, Before
  <2>1. db.job[t] # "none" => db.task[t].state # "absent"
    BY DEF IInv, Sound, Blank
  <2> QED BY <2>1 DEF IInv, Sound, InOrder
<1> QED BY <1>1, Invariance, PTL

(* A task becomes one message and is spoken at most once, after the message, whoever    *)
(* publishes (the pump or a user's turn) and whenever the process dies.                 *)
THEOREM ReportedOnlyOnce == Spec => []ReportedOnce
<1>1. IInv => ReportedOnce
  <2> SUFFICES ASSUME IInv, NEW t \in Tasks PROVE heard[t] <= told[t] /\ told[t] <= 1
    BY DEF ReportedOnce
  <2>1. /\ told[t] = IF db.task[t].report = "flushed" THEN 1 ELSE 0
        /\ heard[t] <= 1 /\ heard[t] \in Nat
        /\ db.task[t].speech \in {"none", "pending", "starting", "suppressed"} => heard[t] = 0
    BY DEF IInv, Said, Typed
  <2>2. db.task[t].speech \notin {"none", "pending"} => db.task[t].report = "flushed"
    BY DEF IInv, Sound, Outbox
  <2> QED BY <2>1, <2>2
<1> QED BY <1>1, Invariance, PTL

(* The tables of the steward implement the promise made for a goal: its budget, one run  *)
(* at a time, nothing after the withdrawal, and completion only when each step of a plan *)
(* is proved. And they do with runs of the coding agent what one may do with them:       *)
(* dispatch, withdraw, the closing transaction and reconcile keep the one place.         *)
THEOREM GoalsPromised == Spec => KeepsPromise
<1>1. Init => IInv /\ Promise!Init /\ Delegated!Init
  BY InitHolds
<1>2. IInv /\ [Next]_vars => /\ [Promise!Next]_(Promise!gvars)
                            /\ [Delegated!Next]_(Delegated!rvars)
  BY NextKeeps DEF Promised, GoalSteps, RunSteps
<1> QED
  BY <1>1, <1>2, Invariance, PTL DEF Spec, KeepsPromise, Promise!Spec, Delegated!Spec

-----------------------------------------------------------------------------
(* What the promise of a goal means for the tables.                            *)

Budgeted == \A g \in Goals : Cardinality(Launched(db, g)) <= Budget
Completed == \A g \in db.complete : Fulfilled(g, proved)

(* Runs are counted where they start, and are not forgotten. *)
LEMMA BudgetStep ==
  ASSUME IInv, Budgeted, GoalSteps
  PROVE  Budgeted'
<1> DEFINE begun == {t \in Tasks : db.job[t] # "none"}
           G == [t \in Tasks |-> t.goal]
<1>1. \A g : Launched(db, g) = {t \in begun : t.goal = g}
  BY DEF Launched, TasksOf
<1>2. \A g : Launched(db', g) = {t \in begun' : t.goal = g}
  BY DEF Launched, TasksOf
<1>3. CASE begun' = begun
  <2>1. \A g : Launched(db', g) = Launched(db, g)
    BY <1>1, <1>2, <1>3
  <2> QED BY <2>1 DEF Budgeted
<1>4. ASSUME NEW t \in Tasks, Promise!Start(t) PROVE Budgeted'
  <2>1. /\ t \notin begun /\ begun' = begun \cup {t}
        /\ Promise!Cardinality({r \in begun : G[r] = G[t]}) < Budget
    BY <1>4 DEF Promise!Start, Promise!Started
  <2>2. {r \in begun : G[r] = G[t]} = Launched(db, t.goal)
    BY <1>1
  <2>3. Promise!Cardinality(Launched(db, t.goal)) = Cardinality(Launched(db, t.goal))
    BY DEF Promise!Cardinality, Cardinality
  <2>4. Cardinality(Launched(db, t.goal)) < Budget
    BY <2>1, <2>2, <2>3
  <2> HIDE DEF begun, G
  <2>5. SUFFICES ASSUME NEW g \in Goals PROVE Cardinality(Launched(db', g)) <= Budget
    BY DEF Budgeted
  <2>6. CASE g # t.goal
    <3>1. Launched(db', g) = Launched(db, g)
      BY <1>1, <1>2, <2>1, <2>6
    <3> QED BY <3>1 DEF Budgeted
  <2>7. CASE g = t.goal
    <3>1. Launched(db', g) = Launched(db, g) \cup {t} /\ t \notin Launched(db, g)
      BY <1>1, <1>2, <2>1, <2>7
    <3>2. IsFiniteSet(Launched(db, g))
      <4>1. Launched(db, g) \in SUBSET Tasks
        BY DEF Launched, TasksOf
      <4> QED BY <4>1, TasksFinite, FS_Subset
    <3>3. Cardinality(Launched(db', g)) = Cardinality(Launched(db, g)) + 1
      BY <3>1, <3>2, FS_AddElement
    <3>4. Cardinality(Launched(db, g)) \in Nat /\ Budget \in Nat
      BY LaunchedCounted, StewardAssumption
    <3> QED BY <2>4, <2>7, <3>3, <3>4
  <2> QED BY <2>6, <2>7
<1> QED BY <1>3, <1>4 DEF GoalSteps, Promise!Next, Promise!gvars, Promise!End, Promise!Approve,
                          Promise!Withdraw

(* What is proved stays proved, and completion has its proof with it. *)
LEMMA CompletedStep ==
  ASSUME IInv, Completed, GoalSteps
  PROVE  Completed'
<1> DEFINE G == [t \in Tasks |-> t.goal]
           Ps == [g \in Goals |-> {{t \in TasksOf(g) : t.plan = q} : q \in Plans}]
<1>1. proved \subseteq proved' => \A g : Fulfilled(g, proved) => Fulfilled(g, proved')
  BY DEF Fulfilled
<1>2. CASE db'.complete = db.complete /\ proved \subseteq proved'
  BY <1>1, <1>2 DEF Completed
<1>3. ASSUME NEW t \in Tasks, Promise!End(t), db'.complete = db.complete \cup {G[t]},
             \E p \in Ps[G[t]] : p \subseteq proved'
      PROVE  Completed'
  <2>1. proved \subseteq proved'
    BY <1>3 DEF Promise!End
  <2>2. t.goal \in Goals /\ G[t] = t.goal
    BY DEF Tasks
  <2>3. Ps[t.goal] = {{u \in TasksOf(t.goal) : u.plan = q} : q \in Plans}
    BY <2>2
  <2>4. PICK q \in Plans : {u \in TasksOf(t.goal) : u.plan = q} \subseteq proved'
    BY <1>3, <2>2, <2>3
  <2>5. Fulfilled(t.goal, proved')
    BY <2>4 DEF Fulfilled
  <2> HIDE DEF G, Ps
  <2> QED BY <1>1, <1>3, <2>1, <2>2, <2>5 DEF Completed
<1>4. ASSUME NEW t \in Tasks, Promise!End(t) PROVE Completed'
  <2>1. proved \subseteq proved'
    BY <1>4 DEF Promise!End
  <2>2. \/ db'.complete = db.complete
        \/ db'.complete = db.complete \cup {G[t]} /\ \E p \in Ps[G[t]] : p \subseteq proved'
    BY <1>4 DEF Promise!End
  <2> HIDE DEF G, Ps
  <2> QED BY <1>2, <1>3, <1>4, <2>1, <2>2 DEF G, Ps
<1> HIDE DEF G, Ps
<1> QED BY <1>2, <1>4 DEF GoalSteps, Promise!Next, Promise!gvars, Promise!Start, Promise!Approve,
                          Promise!Withdraw

(* A goal never costs more runs than its delegation granted: budget_exceeded is asked in *)
(* the transaction that begins a job, whoever begins it, and jobs are not forgotten.      *)
THEOREM WithinBudget == Spec => []Budgeted
<1>1. Init => Budgeted
  <2> SUFFICES ASSUME Init, NEW g \in Goals PROVE Cardinality(Launched(db, g)) <= Budget
    BY DEF Budgeted
  <2>1. Launched(db, g) = {}
    BY DEF Init, Launched, TasksOf
  <2>2. Cardinality(Launched(db, g)) = 0
    BY <2>1, FS_EmptySet
  <2> QED BY <2>2, StewardAssumption
<1>2. IInv /\ Budgeted /\ [Next]_vars => Budgeted'
  BY NextKeeps, BudgetStep DEF Promised
<1> QED BY <1>1, <1>2, Invariance, PTL DEF Spec

(* A goal that counts as complete has a plan of which every step was proved: replans, later *)
(* decisions of the user and restarts take nothing of it back.                              *)
THEOREM CompleteIsProved == Spec => []Completed
<1>1. Init => Completed
  BY DEF Init, Completed
<1>2. IInv /\ Completed /\ [Next]_vars => Completed'
  BY NextKeeps, CompletedStep DEF Promised
<1> QED BY <1>1, <1>2, Invariance, PTL DEF Spec

(* A run that is over stays as it ended, and one that was asked to stop does not settle. *)
StopKept ==
  \A t \in Tasks :
    /\ db.job[t] \in {"settled", "failed", "interrupted"} => db'.job[t] = db.job[t]
    /\ db.job[t] = "cancel_requested"
         => db'.job[t] \in {"cancel_requested", "interrupted", "outcome_unknown"}

LEMMA StopStep ==
  ASSUME IInv, RunSteps
  PROVE  StopKept
<1>1. db.job \in [Tasks -> JobStates]
  BY DEF IInv, Sound, Tables
<1>2. ASSUME NEW t \in Tasks, NEW st, NEW ag, Delegated!Moves(t, st, ag)
      PROVE  db'.job = [db.job EXCEPT ![t] = st]
  BY <1>2 DEF Delegated!Moves
<1>3. ASSUME NEW t \in Tasks,
             Delegated!Start(t) \/ Delegated!Spawn(t) \/ Delegated!Accept(t)
               \/ Delegated!StopAsked(t) \/ Delegated!End(t) \/ Delegated!OrphanEnds(t)
      PROVE  StopKept
  <2>1. PICK st, ag :
          /\ Delegated!Moves(t, st, ag)
          /\ \/ st = db.job[t]
             \/ db.job[t] = "none"
             \/ db.job[t] \in {"queued", "running"}
             \/ db.job[t] = "cancel_requested" /\ st = "interrupted"
    BY <1>3 DEF Delegated!Start, Delegated!Spawn, Delegated!Accept, Delegated!StopAsked,
                Delegated!End, Delegated!OrphanEnds, Delegated!Open
  <2>2. db'.job = [db.job EXCEPT ![t] = st]
    BY <1>2, <2>1
  <2> QED BY <1>1, <2>1, <2>2 DEF StopKept
<1>4. CASE Delegated!Die
  BY <1>4 DEF Delegated!Die, Delegated!Open, StopKept
<1>5. CASE UNCHANGED Delegated!rvars
  BY <1>5 DEF Delegated!rvars, StopKept
<1> QED BY <1>3, <1>4, <1>5 DEF RunSteps, Delegated!Next

(* A delegated run that was withdrawn or stopped never counts as settled, and nothing that *)
(* comes late, an answer, a closing transaction or a reconcile, changes an end.            *)
THEOREM StopsStand == Spec => [][StopKept]_vars
<1>1. IInv /\ [Next]_vars => StopKept
  BY NextKeeps, StopStep DEF Promised
<1> QED BY <1>1, Invariance, PTL DEF Spec
=============================================================================
