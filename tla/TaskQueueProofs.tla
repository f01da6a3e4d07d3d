-------------------------- MODULE TaskQueueProofs --------------------------
(***************************************************************************)
(* Proofs about TaskQueue for every set of jobs, workers and payloads and  *)
(* every bound.  The first part says what each statement of JobTable does  *)
(* to a well-typed table; the second proves the inductive invariant, and   *)
(* the third the promise to each job and that a cancel reaches handlers.   *)
(***************************************************************************)
EXTENDS TaskQueue, FiniteSetTheorems, TLAPS

Tables == [Jobs -> Rows(Payloads)]

-----------------------------------------------------------------------------
(* The statements on one row keep the table well typed and touch only that *)
(* row.                                                                    *)

(* Settling a row (finish, fail, fail_terminal) sets its state, no other row. *)
LEMMA SettledRow ==
  ASSUME NEW t \in Tables, NEW j \in Jobs, NEW s \in JobStates
  PROVE  /\ Settled(t, j, s) \in Tables
         /\ Settled(t, j, s)[j].state = s
         /\ \A i \in Jobs \ {j} : Settled(t, j, s)[i] = t[i]
  BY DEF Tables, Rows, Settled

LEMMA FinishedRow ==
  ASSUME NEW t \in Tables, NEW j \in Jobs
  PROVE  /\ Finished(t, j) \in Tables
         /\ Finished(t, j)[j].state = "completed"
         /\ \A i \in Jobs \ {j} : Finished(t, j)[i] = t[i]
<1>1. "completed" \in JobStates
  BY DEF JobStates
<1> QED
  BY <1>1, SettledRow DEF Finished

LEMMA FailedRow ==
  ASSUME NEW t \in Tables, NEW j \in Jobs
  PROVE  /\ FailedTerminally(t, j) \in Tables
         /\ FailedTerminally(t, j)[j].state = "failed"
         /\ \A i \in Jobs \ {j} : FailedTerminally(t, j)[i] = t[i]
<1>1. "failed" \in JobStates
  BY DEF JobStates
<1> QED
  BY <1>1, SettledRow DEF FailedTerminally

LEMMA InterruptedRow ==
  ASSUME NEW t \in Tables, NEW j \in Jobs
  PROVE  /\ Settled(t, j, "interrupted") \in Tables
         /\ Settled(t, j, "interrupted")[j].state = "interrupted"
         /\ \A i \in Jobs \ {j} : Settled(t, j, "interrupted")[i] = t[i]
<1>1. "interrupted" \in JobStates
  BY DEF JobStates
<1> QED
  BY <1>1, SettledRow

(* A retry ends in queued or failed, and touches no other row. *)
LEMMA RetriedRow ==
  ASSUME NEW t \in Tables, NEW j \in Jobs
  PROVE  /\ Retried(t, j, MaxAttempts) \in Tables
         /\ Retried(t, j, MaxAttempts)[j].state \in {"queued", "failed"}
         /\ \A i \in Jobs \ {j} : Retried(t, j, MaxAttempts)[i] = t[i]
<1>1. CASE t[j].attempts < MaxAttempts
  <2>1. /\ Settled(t, j, "queued") \in Tables
        /\ Settled(t, j, "queued")[j].state = "queued"
        /\ \A i \in Jobs \ {j} : Settled(t, j, "queued")[i] = t[i]
    BY SettledRow DEF JobStates
  <2> QED
    BY <1>1, <2>1 DEF Tables, Rows, Retried
<1>2. CASE ~(t[j].attempts < MaxAttempts)
  <2>1. /\ Settled(t, j, "failed") \in Tables
        /\ Settled(t, j, "failed")[j].state = "failed"
        /\ \A i \in Jobs \ {j} : Settled(t, j, "failed")[i] = t[i]
    BY SettledRow DEF JobStates
  <2> QED
    BY <1>2, <2>1 DEF Retried
<1> QED
  BY <1>1, <1>2

(* A claim makes its row running under a fresh owner. *)
LEMMA ClaimedRow ==
  ASSUME NEW t \in Tables, NEW j \in Jobs
  PROVE  /\ Claimed(t, j) \in Tables
         /\ Claimed(t, j)[j].state = "running"
         /\ Claimed(t, j)[j].owner \in Nat
         /\ \A i \in Jobs \ {j} : Claimed(t, j)[i] = t[i]
<1> DEFINE n == t[j].attempts + 1
           row == [t[j] EXCEPT !.state = "running", !.attempts = n, !.owner = n]
<1>1. t[j] \in Rows(Payloads) /\ n \in Nat
  BY DEF Tables, Rows
<1>2. /\ row \in Rows(Payloads)
      /\ row.state = "running"
      /\ row.owner = n
  BY <1>1 DEF Rows, JobStates
<1>3. Claimed(t, j) = [t EXCEPT ![j] = row]
  BY DEF Tables, Claimed
<1> QED
  BY <1>1, <1>2, <1>3 DEF Tables

(* The next row number exists: only finitely many rows are present. *)
LEMMA NextRowidType ==
  ASSUME NEW t \in Tables
  PROVE  NextRowid(t) \in Nat
<1>1. Present(t) \subseteq Jobs
  BY DEF Present, Tables
<1>2. IsFiniteSet(Present(t))
  BY <1>1, FS_Subset, JobsAssumption
<1> QED
  BY <1>2, FS_CardinalityType DEF NextRowid

(* An insert adds one queued row. *)
LEMMA InsertedRow ==
  ASSUME NEW t \in Tables, NEW j \in Jobs, NEW p \in Payloads
  PROVE  /\ Inserted(t, j, p) \in Tables
         /\ Inserted(t, j, p)[j].state = "queued"
         /\ \A i \in Jobs \ {j} : Inserted(t, j, p)[i] = t[i]
  BY NextRowidType DEF Tables, Rows, Inserted, NewRow, JobStates

(* A cancel turns the chosen live rows into cancelled ones. *)
LEMMA CancelledRows ==
  ASSUME NEW t \in Tables, NEW C
  PROVE  /\ CancelledWhere(t, C) \in Tables
         /\ \A i \in Jobs :
              \/ CancelledWhere(t, C)[i] = t[i]
              \/ /\ t[i].state \in LiveStates
                 /\ CancelledWhere(t, C)[i].state = "cancelled"
  BY DEF Tables, Rows, CancelledWhere, JobStates, LiveStates

(* After the two recoveries no conversation or speech row is running, the *)
(* final rows are as they were, and no completed row appears.             *)
LEMMA RestartedRows ==
  ASSUME NEW t \in Tables
  PROVE  LET r == ProgressRecovered(Recovered(t, {"conversation"}, {"speech", "worker"}))
         IN  /\ r \in Tables
             /\ \A i \in Jobs : r[i].state # "running"
             /\ \A i \in Jobs : t[i].state \in FinalStates => r[i] = t[i]
<1> DEFINE m == Recovered(t, {"conversation"}, {"speech", "worker"})
           r == ProgressRecovered(m)
<1>1. \A i \in Jobs : LaneOf(i.kind) \in {"conversation", "speech", "worker"}
  BY JobsAssumption DEF LaneOf, JobKinds
<1>2. /\ m \in Tables
      /\ \A i \in Jobs : m[i].state # "running"
      /\ \A i \in Jobs : t[i].state \in FinalStates => m[i] = t[i]
  BY <1>1 DEF Tables, Rows, Recovered, JobStates, LiveStates, FinalStates
<1> HIDE DEF m
<1>3. /\ r \in Tables
      /\ \A i \in Jobs : r[i].state # "running"
      /\ \A i \in Jobs : m[i].state \in FinalStates => r[i] = m[i]
  BY <1>2 DEF Tables, Rows, ProgressRecovered, JobStates, FinalStates
<1>4. \A i \in Jobs : t[i].state \in FinalStates => r[i] = t[i]
  BY <1>2, <1>3
<1> QED
  BY <1>3, <1>4 DEF m

-----------------------------------------------------------------------------
(* The inductive invariant.  OneWorker, RunningIsHeld and CommitOnce do not *)
(* stand alone: they need that a busy worker's claim is current until a     *)
(* cancel takes the row away from it for good.                              *)

Busy(w) == ~Idle(w)

IdleHoldsNothing == \A w \in Workers : Idle(w) <=> held[w] = NoJob

OwnedOrCancelled ==
  \A w \in Workers : Busy(w) => Current(w) \/ jobs[held[w]].state = "cancelled"

WorkerLaneHoldsWorkerJobs ==
  \A w \in Workers : Busy(w) /\ LaneOfWorker[w] = "worker" => held[w].kind = "worker"

Exclusion ==
  /\ IdleHoldsNothing
  /\ OwnedOrCancelled
  /\ WorkerLaneHoldsWorkerJobs
  /\ OneWorker
  /\ RunningIsHeld
  /\ CommitOnce

IInv == TypeOK /\ Exclusion

(* A worker that holds a job holds one of Jobs, and only a busy one does. *)
LEMMA HeldJob ==
  ASSUME IInv, NEW w \in Workers
  PROVE  /\ Busy(w) => held[w] \in Jobs
         /\ held[w] \in Jobs => Busy(w)
  BY JobsAssumption DEF IInv, TypeOK, Exclusion, IdleHoldsNothing, Busy

(* A row that is neither running nor cancelled is held by nobody. *)
LEMMA FreeRow ==
  ASSUME IInv, NEW j \in Jobs, jobs[j].state \notin {"running", "cancelled"}
  PROVE  \A w \in Workers : held[w] # j
  BY HeldJob DEF IInv, Exclusion, OwnedOrCancelled, Current, Owns

(* Statements that move no running row, unless they cancel it. *)
Harmless(i) ==
  \/ jobs'[i] = jobs[i]
  \/ jobs[i].state \in {"absent", "queued"} /\ jobs'[i].state # "running"
  \/ jobs[i].state \in LiveStates /\ jobs'[i].state = "cancelled"

LEMMA TableStep ==
  ASSUME IInv, UNCHANGED <<pc, held, token, lost, commits>>, \A i \in Jobs : Harmless(i)
  PROVE  Exclusion'
<1>1. IdleHoldsNothing' /\ WorkerLaneHoldsWorkerJobs' /\ OneWorker'
  BY DEF IInv, Exclusion, IdleHoldsNothing, WorkerLaneHoldsWorkerJobs, OneWorker, Busy, Idle
<1>2. OwnedOrCancelled'
  <2> SUFFICES ASSUME NEW w \in Workers, Busy(w)'
               PROVE  Current(w)' \/ (jobs[held[w]].state = "cancelled")'
    BY DEF OwnedOrCancelled
  <2>1. Busy(w) /\ held[w] \in Jobs
    BY HeldJob DEF Busy, Idle
  <2>2. Current(w) \/ jobs[held[w]].state = "cancelled"
    BY <2>1 DEF IInv, Exclusion, OwnedOrCancelled
  <2> QED
    BY <2>1, <2>2 DEF Harmless, LiveStates, Current, Owns
<1>3. RunningIsHeld'
  <2> SUFFICES ASSUME NEW j \in Jobs, jobs'[j].state = "running", j.kind # "worker",
                      j \notin lost'
               PROVE  \E w \in Workers : Holds(w, j)'
    BY DEF RunningIsHeld
  <2>1. jobs'[j] = jobs[j]
    BY DEF Harmless
  <2>2. PICK w \in Workers : Holds(w, j)
    BY <2>1 DEF IInv, Exclusion, RunningIsHeld
  <2> QED
    BY <2>1, <2>2 DEF Holds, Current, Owns
<1>4. CommitOnce'
  BY DEF IInv, Exclusion, CommitOnce, Harmless, LiveStates
<1> QED
  BY <1>1, <1>2, <1>3, <1>4 DEF Exclusion

(* A busy worker stays busy with the same claim. *)
LEMMA BusyStep ==
  ASSUME IInv, UNCHANGED <<jobs, held, token, lost, commits>>,
         NEW w \in Workers, Busy(w), Busy(w)',
         \A v \in Workers \ {w} : pc'[v] = pc[v]
  PROVE  Exclusion'
<1>1. \A v \in Workers : Busy(v)' = Busy(v) /\ Current(v)' = Current(v) /\ Idle(v)' = Idle(v)
  BY DEF Busy, Idle, Current, Owns
<1>2. \A v \in Workers, j \in Jobs : Holds(v, j)' = Holds(v, j)
  BY <1>1 DEF Holds
<1> QED
  BY <1>1, <1>2 DEF IInv, Exclusion, IdleHoldsNothing, OwnedOrCancelled,
       WorkerLaneHoldsWorkerJobs, OneWorker, RunningIsHeld, CommitOnce

(* A busy worker lets go of its job.  It leaves a row it still owns settled, *)
(* or the row is one of the worker lane, or its failure could not be written. *)
LEMMA ReleaseStep ==
  ASSUME IInv, NEW w \in Workers, Busy(w), Release(w),
         \A i \in Jobs \ {held[w]} : jobs'[i] = jobs[i] /\ commits'[i] = commits[i],
         \/ jobs'[held[w]].state # "running"
         \/ held[w].kind = "worker" /\ jobs' = jobs
         \/ held[w] \in lost',
         lost \subseteq lost',
         \/ jobs'[held[w]] = jobs[held[w]] /\ commits'[held[w]] = commits[held[w]]
         \/ Current(w) /\ commits'[held[w]] = commits[held[w]]
         \/ /\ Current(w)
            /\ jobs'[held[w]].state = "completed"
            /\ commits'[held[w]] = commits[held[w]] + 1
  PROVE  Exclusion'
<1> USE DEF Busy, Idle
<1>1. /\ pc'[w] = "idle" /\ held'[w] = NoJob
      /\ \A v \in Workers \ {w} : pc'[v] = pc[v] /\ held'[v] = held[v] /\ token'[v] = token[v]
  BY DEF IInv, TypeOK, Release, Goto
<1>2. held[w] \in Jobs
  BY HeldJob
<1>3. IdleHoldsNothing' /\ WorkerLaneHoldsWorkerJobs'
  BY <1>1 DEF IInv, Exclusion, IdleHoldsNothing, WorkerLaneHoldsWorkerJobs
<1>4. OneWorker'
  BY <1>1, JobsAssumption, HeldJob DEF IInv, Exclusion, OneWorker
<1>5. \A v \in Workers \ {w} : Busy(v) => held[v] \in Jobs \ {held[w]}
  BY HeldJob DEF IInv, Exclusion, OneWorker
<1>6. OwnedOrCancelled'
  BY <1>1, <1>5 DEF IInv, Exclusion, OwnedOrCancelled, Current, Owns
<1>7. RunningIsHeld'
  <2> SUFFICES ASSUME NEW j \in Jobs, jobs'[j].state = "running", j.kind # "worker",
                      j \notin lost'
               PROVE  \E v \in Workers : Holds(v, j)'
    BY DEF RunningIsHeld
  <2>1. j # held[w] /\ jobs'[j] = jobs[j]
    OBVIOUS
  <2>2. PICK v \in Workers : Holds(v, j)
    BY <2>1 DEF IInv, Exclusion, RunningIsHeld
  <2> QED
    BY <1>1, <2>1, <2>2 DEF Holds, Current, Owns
<1>8. CommitOnce'
  <2>1. Current(w) => commits[held[w]] = 0
    BY <1>2 DEF IInv, Exclusion, CommitOnce, Current, Owns
  <2> QED
    BY <1>2, <2>1 DEF IInv, Exclusion, CommitOnce
<1> QED
  BY <1>3, <1>4, <1>6, <1>7, <1>8 DEF Exclusion

(* An idle worker takes a row that nobody works on. *)
LEMMA TakeStep ==
  ASSUME IInv, NEW w \in Workers, Idle(w), NEW j \in Jobs,
         jobs[j].state \in {"queued", "interrupted"},
         LaneOfWorker[w] = "worker" => j.kind = "worker",
         jobs' = Claimed(jobs, j), UNCHANGED <<lost, commits>>,
         pc'[w] # "idle", \A v \in Workers \ {w} : pc'[v] = pc[v],
         held' = [held EXCEPT ![w] = j],
         token' = [token EXCEPT ![w] = jobs'[j].owner]
  PROVE  Exclusion'
<1> USE DEF Busy, Idle
<1>1. /\ jobs'[j].state = "running"
      /\ \A i \in Jobs \ {j} : jobs'[i] = jobs[i]
  BY ClaimedRow DEF IInv, TypeOK, Tables
<1>2. /\ held'[w] = j /\ token'[w] = jobs'[j].owner
      /\ \A v \in Workers \ {w} : held'[v] = held[v] /\ token'[v] = token[v]
  BY DEF IInv, TypeOK
<1>3. \A v \in Workers : held[v] # j
  BY FreeRow
<1>4. Holds(w, j)'
  BY <1>1, <1>2, JobsAssumption DEF Holds, Current, Owns
<1>5. IdleHoldsNothing' /\ WorkerLaneHoldsWorkerJobs' /\ OneWorker'
  BY <1>2, <1>3, JobsAssumption
  DEF IInv, Exclusion, IdleHoldsNothing, WorkerLaneHoldsWorkerJobs, OneWorker
<1>6. OwnedOrCancelled'
  <2> SUFFICES ASSUME NEW v \in Workers \ {w}, Busy(v)'
               PROVE  Current(v)' \/ (jobs[held[v]].state = "cancelled")'
    BY <1>4 DEF OwnedOrCancelled, Holds
  <2>1. Busy(v) /\ held[v] \in Jobs \ {j}
    BY <1>3, HeldJob
  <2> QED
    BY <1>1, <1>2, <2>1 DEF IInv, Exclusion, OwnedOrCancelled, Current, Owns
<1>7. RunningIsHeld'
  <2> SUFFICES ASSUME NEW i \in Jobs \ {j}, jobs'[i].state = "running", i.kind # "worker",
                      i \notin lost'
               PROVE  \E v \in Workers : Holds(v, i)'
    BY <1>4 DEF RunningIsHeld
  <2>1. PICK v \in Workers : Holds(v, i)
    BY <1>1 DEF IInv, Exclusion, RunningIsHeld
  <2>2. v # w
    BY <2>1, JobsAssumption DEF Holds, IInv, Exclusion, IdleHoldsNothing
  <2> QED
    BY <1>1, <1>2, <2>1, <2>2 DEF Holds, Current, Owns
<1>8. CommitOnce'
  BY <1>1 DEF IInv, Exclusion, CommitOnce
<1> QED
  BY <1>5, <1>6, <1>7, <1>8 DEF Exclusion

(* A fresh process works on nothing and finds nothing running. *)
LEMMA RestartStep ==
  ASSUME IInv, Restart
  PROVE  Exclusion'
<1>1. /\ \A i \in Jobs : jobs'[i].state # "running"
      /\ \A i \in Jobs : jobs[i].state \in FinalStates => jobs'[i] = jobs[i]
  BY RestartedRows DEF IInv, TypeOK, Tables, Restart
<1>2. IdleHoldsNothing' /\ OwnedOrCancelled' /\ WorkerLaneHoldsWorkerJobs' /\ OneWorker'
  BY DEF Restart, IdleHoldsNothing, OwnedOrCancelled, WorkerLaneHoldsWorkerJobs, OneWorker,
     Busy, Idle
<1>3. RunningIsHeld'
  BY <1>1 DEF RunningIsHeld
<1>4. CommitOnce'
  BY <1>1 DEF IInv, Exclusion, CommitOnce, Restart, FinalStates
<1> QED
  BY <1>2, <1>3, <1>4 DEF Exclusion

-----------------------------------------------------------------------------
(* Type correctness of one step. *)

LEMMA TypeStep ==
  ASSUME IInv, [Next]_vars
  PROVE  TypeOK'
<1> USE DEF Tables
<1>0. /\ TypeOK
      /\ \A w \in Workers : pc[w] # "idle" => held[w] \in Jobs
  BY HeldJob DEF IInv, Busy, Idle
<1>1. ASSUME NEW j \in Jobs, NEW p \in Payloads, Enqueue(j, p) PROVE TypeOK'
  BY <1>0, <1>1, InsertedRow DEF TypeOK, Enqueue, memory
<1>2. ASSUME NEW j \in Jobs, NEW p \in Payloads, NEW s \in {"completed", "interrupted"},
             EnqueueStreamed(j, p, s)
      PROVE  TypeOK'
  <2>1. Inserted(jobs, j, p) \in Tables
    BY <1>0, InsertedRow DEF TypeOK
  <2>2. jobs' \in Tables
    BY <1>2, <2>1 DEF EnqueueStreamed, Rows, JobStates
  <2> QED
    BY <1>0, <1>2, <2>2 DEF TypeOK, EnqueueStreamed, memory
<1>3. ASSUME NEW k \in Keys, Cancel(k) PROVE TypeOK'
  BY <1>0, <1>3, CancelledRows DEF TypeOK, Cancel, CancelledKey
<1>4. ASSUME NEW k \in Keys, CancelProgress(k) PROVE TypeOK'
  BY <1>0, <1>4, CancelledRows DEF TypeOK, CancelProgress, memory
<1>5. ASSUME NEW w \in Workers, NEW j \in Jobs, Replay(w, j) PROVE TypeOK'
  BY <1>0, <1>5, ClaimedRow, BoundsAssumption DEF TypeOK, Replay, Goto
<1>6. ASSUME NEW k \in Keys, Signal(k) PROVE TypeOK'
  BY <1>0, <1>6 DEF TypeOK, Signal, Registered
<1>7. ASSUME NEW j \in Jobs, BackoffEnds(j) PROVE TypeOK'
  BY <1>0, <1>7 DEF TypeOK, BackoffEnds, memory, Rows
<1>8. ASSUME NEW w \in Workers, Step(w) PROVE TypeOK'
  <2>1. CASE Claim(w)
    BY <1>0, <2>1, ClaimedRow DEF TypeOK, Claim, Goto
  <2>2. CASE Register(w)
    BY <1>0, <2>2 DEF TypeOK, Register, Goto
  <2>3. CASE Recheck(w)
    <3>1. CASE Current(w)
      <4>1. Goto(w, "handling") /\ UNCHANGED <<held, token, stop>>
        BY <2>3, <3>1, Zenon DEF Recheck
      <4> QED
        BY <1>0, <2>3, <4>1 DEF TypeOK, Recheck, Goto
    <3>2. CASE ~Current(w)
      <4>1. Release(w)
        BY <2>3, <3>2, Zenon DEF Recheck
      <4> QED
        BY <1>0, <2>3, <4>1 DEF TypeOK, Recheck, Release, Goto
    <3> QED
      BY <3>1, <3>2
  <2>4. CASE Commit(w)
    <3>1. held[w] \in Jobs
      BY <1>0, <2>4 DEF Commit
    <3>2. Finished(jobs, held[w]) \in Tables
      BY <1>0, <3>1, FinishedRow DEF TypeOK
    <3> QED
      BY <1>0, <2>4, <3>1, <3>2 DEF TypeOK, Commit, Release, Goto
  <2>5. CASE Return(w)
    BY <1>0, <2>5 DEF TypeOK, Return, Release, Goto
  <2>6. CASE FailForGood(w)
    <3>1. held[w] \in Jobs
      BY <1>0, <2>6 DEF FailForGood
    <3>2. FailedTerminally(jobs, held[w]) \in Tables
      BY <1>0, <3>1, FailedRow DEF TypeOK
    <3> QED
      BY <1>0, <2>6, <3>2 DEF TypeOK, FailForGood, Release, Goto
  <2>7. CASE Err(w)
    BY <1>0, <2>7 DEF TypeOK, Err, Goto
  <2>8. CASE Persist(w)
    <3>1. held[w] \in Jobs
      BY <1>0, <2>8 DEF Persist
    <3>2. jobs' \in Tables
      BY <1>0, <2>8, <3>1, FailedRow, InterruptedRow, RetriedRow DEF TypeOK, Persist
    <3> QED
      BY <1>0, <2>8, <3>2 DEF TypeOK, Persist, Release, Goto
  <2>9. CASE PersistFails(w)
    <3>1. lost' \subseteq Jobs
      BY <1>0, <2>9 DEF TypeOK, PersistFails
    <3> QED
      BY <1>0, <2>9, <3>1 DEF TypeOK, PersistFails, Release, Goto
  <2> QED
    BY <1>8, <2>1, <2>2, <2>3, <2>4, <2>5, <2>6, <2>7, <2>8, <2>9 DEF Step
<1>9. CASE Restart
  BY <1>0, <1>9, RestartedRows, BoundsAssumption DEF TypeOK, Restart
<1>10. CASE UNCHANGED vars
  BY <1>0, <1>10 DEF TypeOK, vars
<1> QED
  BY <1>1, <1>2, <1>3, <1>4, <1>5, <1>6, <1>7, <1>8, <1>9, <1>10 DEF Next, Outside

(* One step of the queue preserves the exclusion part. *)
LEMMA ExclusionStep ==
  ASSUME IInv, [Next]_vars
  PROVE  Exclusion'
<1>0. /\ jobs \in Tables
      /\ \A w \in Workers : Busy(w) => held[w] \in Jobs
  BY HeldJob DEF IInv, TypeOK, Tables
<1>1. ASSUME NEW j \in Jobs, NEW p \in Payloads, Enqueue(j, p) PROVE Exclusion'
  <2>1. \A i \in Jobs : Harmless(i)
    BY <1>0, <1>1, InsertedRow DEF Enqueue, Harmless
  <2> QED
    BY <1>1, <2>1, TableStep DEF Enqueue, memory
<1>2. ASSUME NEW j \in Jobs, NEW p \in Payloads, NEW s \in {"completed", "interrupted"},
             EnqueueStreamed(j, p, s)
      PROVE  Exclusion'
  <2>1. /\ Inserted(jobs, j, p) \in Tables
        /\ \A i \in Jobs \ {j} : Inserted(jobs, j, p)[i] = jobs[i]
    BY <1>0, InsertedRow
  <2>2. \A i \in Jobs : Harmless(i)
    BY <1>2, <2>1 DEF EnqueueStreamed, Harmless, Tables, Rows
  <2> QED
    BY <1>2, <2>2, TableStep DEF EnqueueStreamed, memory
<1>3. ASSUME NEW k \in Keys, Cancel(k) PROVE Exclusion'
  <2>1. \A i \in Jobs : Harmless(i)
    BY <1>0, <1>3, CancelledRows DEF Cancel, CancelledKey, Harmless
  <2> QED
    BY <1>3, <2>1, TableStep DEF Cancel
<1>4. ASSUME NEW k \in Keys, CancelProgress(k) PROVE Exclusion'
  <2>1. \A i \in Jobs : Harmless(i)
    BY <1>0, <1>4, CancelledRows DEF CancelProgress, Harmless
  <2> QED
    BY <1>4, <2>1, TableStep DEF CancelProgress, memory
<1>5. ASSUME NEW w \in Workers, NEW j \in Jobs, Replay(w, j) PROVE Exclusion'
  <2>1. pc'[w] # "idle" /\ \A v \in Workers \ {w} : pc'[v] = pc[v]
    BY <1>5 DEF Replay, Goto, IInv, TypeOK
  <2> QED
    BY <1>5, <2>1, TakeStep DEF Replay, Idle
<1>6. ASSUME NEW k \in Keys, Signal(k) PROVE Exclusion'
  <2>1. \A i \in Jobs : Harmless(i)
    BY <1>6 DEF Signal, Harmless
  <2> QED
    BY <1>6, <2>1, TableStep DEF Signal
<1>7. ASSUME NEW j \in Jobs, BackoffEnds(j) PROVE Exclusion'
  <2>1. \A i \in Jobs : Harmless(i)
    BY <1>0, <1>7 DEF BackoffEnds, Harmless, Tables, Rows
  <2> QED
    BY <1>7, <2>1, TableStep DEF BackoffEnds, memory
<1>8. ASSUME NEW w \in Workers, Step(w) PROVE Exclusion'
  <2>1. CASE Claim(w)
    <3>1. PICK j \in Jobs :
            /\ IsNext(jobs, LaneOfWorker[w], j)
            /\ jobs' = Claimed(jobs, j)
            /\ held' = [held EXCEPT ![w] = j]
            /\ token' = [token EXCEPT ![w] = jobs'[j].owner]
      BY <2>1 DEF Claim
    <3>2. jobs[j].state = "queued" /\ LaneOf(j.kind) = LaneOfWorker[w]
      BY <3>1 DEF IsNext, Claimable
    <3>3. LaneOfWorker[w] = "worker" => j.kind = "worker"
      BY <3>2, JobsAssumption DEF LaneOf, JobKinds
    <3>4. pc'[w] # "idle" /\ \A v \in Workers \ {w} : pc'[v] = pc[v]
      BY <2>1 DEF Claim, Goto, IInv, TypeOK
    <3> QED
      BY <2>1, <3>1, <3>2, <3>3, <3>4, TakeStep DEF Claim, Idle
  <2>2. CASE Register(w)
    BY <2>2, BusyStep DEF Register, Goto, IInv, TypeOK, Busy, Idle
  <2>3. CASE Recheck(w)
    <3>1. CASE Current(w)
      BY <2>3, <3>1, BusyStep DEF Recheck, Goto, IInv, TypeOK, Busy, Idle
    <3>2. CASE ~Current(w)
      <4>1. Busy(w) /\ held[w] \in Jobs /\ Release(w) /\ UNCHANGED <<jobs, lost, commits>>
        BY <1>0, <2>3, <3>2 DEF Recheck, Busy, Idle
      <4>2. jobs[held[w]].state # "running"
        BY <3>2, <4>1 DEF IInv, Exclusion, OwnedOrCancelled
      <4> QED
        BY <4>1, <4>2, ReleaseStep
    <3> QED
      BY <3>1, <3>2
  <2>4. CASE Commit(w)
    <3>1. Busy(w) /\ held[w] \in Jobs /\ Release(w) /\ Current(w) /\ UNCHANGED lost
      BY <1>0, <2>4 DEF Commit, Busy, Idle
    <3>2. /\ jobs'[held[w]].state = "completed"
          /\ \A i \in Jobs \ {held[w]} : jobs'[i] = jobs[i]
      BY <1>0, <2>4, <3>1, FinishedRow DEF Commit
    <3>3. /\ commits'[held[w]] = commits[held[w]] + 1
          /\ \A i \in Jobs \ {held[w]} : commits'[i] = commits[i]
      BY <2>4, <3>1 DEF Commit, IInv, TypeOK
    <3> QED
      BY <3>1, <3>2, <3>3, ReleaseStep
  <2>5. CASE Return(w)
    <3>1. /\ Busy(w) /\ Release(w) /\ UNCHANGED <<jobs, lost, commits>>
          /\ held[w].kind = "worker"
      BY <2>5 DEF Return, Busy, Idle, IInv, Exclusion, WorkerLaneHoldsWorkerJobs
    <3> QED
      BY <3>1, ReleaseStep
  <2>6. CASE FailForGood(w)
    <3>1. Busy(w) /\ held[w] \in Jobs /\ Release(w) /\ UNCHANGED <<lost, commits>>
      BY <1>0, <2>6 DEF FailForGood, Busy, Idle
    <3>2. \A i \in Jobs \ {held[w]} : jobs'[i] = jobs[i]
      BY <1>0, <2>6, <3>1, FailedRow DEF FailForGood
    <3>3. CASE Current(w)
      <4>1. jobs'[held[w]].state = "failed"
        BY <1>0, <2>6, <3>1, <3>3, FailedRow DEF FailForGood
      <4> QED
        BY <3>1, <3>2, <3>3, <4>1, ReleaseStep
    <3>4. CASE ~Current(w)
      <4>1. jobs[held[w]].state # "running" /\ jobs' = jobs
        BY <2>6, <3>1, <3>4 DEF FailForGood, IInv, Exclusion, OwnedOrCancelled
      <4> QED
        BY <3>1, <4>1, ReleaseStep
    <3> QED
      BY <3>3, <3>4
  <2>7. CASE Err(w)
    BY <2>7, BusyStep DEF Err, Goto, IInv, TypeOK, Busy, Idle
  <2>8. CASE Persist(w)
    <3>1. Busy(w) /\ held[w] \in Jobs /\ Release(w) /\ UNCHANGED <<lost, commits>>
      BY <1>0, <2>8 DEF Persist, Busy, Idle
    <3>2. CASE Current(w)
      <4>1. \/ jobs' = Retried(jobs, held[w], MaxAttempts)
            \/ jobs' = FailedTerminally(jobs, held[w])
            \/ jobs' = Settled(jobs, held[w], "interrupted")
        BY <2>8, <3>2, Zenon DEF Persist
      <4>2. /\ jobs'[held[w]].state # "running"
            /\ \A i \in Jobs \ {held[w]} : jobs'[i] = jobs[i]
        <5>1. CASE jobs' = Retried(jobs, held[w], MaxAttempts)
          BY <1>0, <3>1, <5>1, RetriedRow
        <5>2. CASE jobs' = FailedTerminally(jobs, held[w])
          BY <1>0, <3>1, <5>2, FailedRow
        <5>3. CASE jobs' = Settled(jobs, held[w], "interrupted")
          BY <1>0, <3>1, <5>3, InterruptedRow
        <5> QED
          BY <4>1, <5>1, <5>2, <5>3
      <4> QED
        BY <3>1, <3>2, <4>2, ReleaseStep
    <3>3. CASE ~Current(w)
      <4>1. jobs[held[w]].state # "running" /\ jobs' = jobs
        BY <2>8, <3>1, <3>3 DEF Persist, IInv, Exclusion, OwnedOrCancelled
      <4> QED
        BY <3>1, <4>1, ReleaseStep
    <3> QED
      BY <3>2, <3>3
  <2>9. CASE PersistFails(w)
    <3>1. Busy(w) /\ held[w] \in Jobs /\ Release(w) /\ UNCHANGED <<jobs, commits>>
      BY <1>0, <2>9 DEF PersistFails, Busy, Idle
    <3>2. CASE Current(w)
      <4>1. lost' = lost \cup {held[w]}
        BY <2>9, <3>2, Zenon DEF PersistFails
      <4> QED
        BY <3>1, <4>1, ReleaseStep
    <3>3. CASE ~Current(w)
      <4>1. lost' = lost
        BY <2>9, <3>3, Zenon DEF PersistFails
      <4>2. jobs[held[w]].state # "running"
        BY <3>1, <3>3 DEF IInv, Exclusion, OwnedOrCancelled
      <4> QED
        BY <3>1, <4>1, <4>2, ReleaseStep
    <3> QED
      BY <3>2, <3>3
  <2> QED
    BY <1>8, <2>1, <2>2, <2>3, <2>4, <2>5, <2>6, <2>7, <2>8, <2>9 DEF Step
<1>9. CASE Restart
  BY <1>9, RestartStep
<1>10. CASE UNCHANGED vars
  <2>1. \A i \in Jobs : Harmless(i)
    BY <1>10 DEF vars, Harmless
  <2> QED
    BY <1>10, <2>1, TableStep DEF vars
<1> QED
  BY <1>1, <1>2, <1>3, <1>4, <1>5, <1>6, <1>7, <1>8, <1>9, <1>10 DEF Next, Outside

-----------------------------------------------------------------------------
(* The invariant holds initially. *)
LEMMA InvariantInit ==
  ASSUME Init
  PROVE  IInv
<1>1. TypeOK
  BY BoundsAssumption DEF Init, TypeOK, EmptyTable, AbsentRow, Rows
<1>2. Exclusion
  BY DEF Init, Exclusion, IdleHoldsNothing, OwnedOrCancelled, WorkerLaneHoldsWorkerJobs,
     OneWorker, RunningIsHeld, CommitOnce, Busy, Idle, EmptyTable, AbsentRow
<1> QED
  BY <1>1, <1>2 DEF IInv

(* The inductive invariant holds in every state of the queue. *)
THEOREM Invariance == Spec => []IInv
<1>1. Init => IInv
  BY InvariantInit
<1>2. IInv /\ [Next]_vars => IInv'
  BY TypeStep, ExclusionStep DEF IInv
<1> QED
  BY <1>1, <1>2, PTL DEF Spec

(* The table and the workers' memory keep their types: in particular no *)
(* statement writes a state the schema's CHECK would refuse.            *)
THEOREM TypeCorrect == Spec => []TypeOK
<1>1. IInv => TypeOK
  BY DEF IInv
<1> QED
  BY <1>1, Invariance, PTL

(* claim, finish, fail, cancel, replay and recover never let two workers *)
(* work on one job.                                                      *)
THEOREM NeverShared == Spec => []OneWorker
<1>1. IInv => OneWorker
  BY DEF IInv, Exclusion
<1> QED
  BY <1>1, Invariance, PTL

(* run_lane and process_job leave no running conversation or speech row    *)
(* behind without a worker that will settle it, unless the transaction     *)
(* that writes its failure fails itself.                                   *)
THEOREM NeverStranded == Spec => []RunningIsHeld
<1>1. IInv => RunningIsHeld
  BY DEF IInv, Exclusion
<1> QED
  BY <1>1, Invariance, PTL

(* The effect that commits with finish() commits at most once per job, over *)
(* every retry, cancel, replay and restart.                                 *)
THEOREM CommitsOnce == Spec => []CommitOnce
<1>1. IInv => CommitOnce
  BY DEF IInv, Exclusion
<1> QED
  BY <1>1, Invariance, PTL

-----------------------------------------------------------------------------
(* FinalIsFinal is a property of steps. *)
FinalKept == \A j \in Jobs : jobs[j].state \in FinalStates => jobs'[j] = jobs[j]

(* A step of a worker settles only a row that is running, takes only a row *)
(* that is queued, and leaves the others alone.                            *)
LEMMA WorkerKeepsFinal ==
  ASSUME IInv, NEW w \in Workers, Step(w)
  PROVE  FinalKept
<1>0. /\ jobs \in Tables
      /\ pc[w] # "idle" => held[w] \in Jobs
      /\ pc[w] # "idle" /\ Current(w) => jobs[held[w]].state \notin FinalStates
  BY HeldJob DEF IInv, TypeOK, Tables, Busy, Idle, Current, Owns, FinalStates
<1>1. CASE Claim(w)
  <2>1. PICK j \in Jobs : IsNext(jobs, LaneOfWorker[w], j) /\ jobs' = Claimed(jobs, j)
    BY <1>1 DEF Claim
  <2>2. jobs[j].state \notin FinalStates
    BY <2>1 DEF IsNext, Claimable, FinalStates
  <2> QED
    BY <1>0, <2>1, <2>2, ClaimedRow DEF FinalKept
<1>2. CASE Commit(w)
  <2>1. jobs' = Finished(jobs, held[w]) /\ held[w] \in Jobs
        /\ jobs[held[w]].state \notin FinalStates
    BY <1>0, <1>2 DEF Commit
  <2> QED
    BY <1>0, <2>1, FinishedRow DEF FinalKept
<1>3. CASE FailForGood(w)
  <2>1. CASE Current(w)
    <3>1. jobs' = FailedTerminally(jobs, held[w]) /\ held[w] \in Jobs
          /\ jobs[held[w]].state \notin FinalStates
      BY <1>0, <1>3, <2>1 DEF FailForGood
    <3> QED
      BY <1>0, <3>1, FailedRow DEF FinalKept
  <2>2. CASE ~Current(w)
    BY <1>3, <2>2 DEF FailForGood, FinalKept
  <2> QED
    BY <2>1, <2>2
<1>4. CASE Persist(w)
  <2>1. CASE Current(w)
    <3>1. held[w] \in Jobs /\ jobs[held[w]].state \notin FinalStates
      BY <1>0, <1>4, <2>1 DEF Persist
    <3>2. \/ jobs' = Retried(jobs, held[w], MaxAttempts)
          \/ jobs' = FailedTerminally(jobs, held[w])
          \/ jobs' = Settled(jobs, held[w], "interrupted")
      BY <1>4, <2>1, Zenon DEF Persist
    <3>3. CASE jobs' = Retried(jobs, held[w], MaxAttempts)
      BY <1>0, <3>1, <3>3, RetriedRow DEF FinalKept
    <3>4. CASE jobs' = FailedTerminally(jobs, held[w])
      BY <1>0, <3>1, <3>4, FailedRow DEF FinalKept
    <3>5. CASE jobs' = Settled(jobs, held[w], "interrupted")
      BY <1>0, <3>1, <3>5, InterruptedRow DEF FinalKept
    <3> QED
      BY <3>2, <3>3, <3>4, <3>5
  <2>2. CASE ~Current(w)
    BY <1>4, <2>2 DEF Persist, FinalKept
  <2> QED
    BY <2>1, <2>2
<1>5. CASE Register(w) \/ Recheck(w) \/ Return(w) \/ Err(w) \/ PersistFails(w)
  BY <1>5 DEF Register, Recheck, Return, Err, PersistFails, FinalKept
<1> QED
  BY <1>1, <1>2, <1>3, <1>4, <1>5 DEF Step

LEMMA FinalStep ==
  ASSUME IInv, [Next]_vars
  PROVE  FinalKept
<1>0. jobs \in Tables
  BY DEF IInv, TypeOK, Tables
<1>1. ASSUME NEW j \in Jobs, NEW p \in Payloads, Enqueue(j, p) PROVE FinalKept
  BY <1>0, <1>1, InsertedRow DEF Enqueue, FinalKept, FinalStates
<1>2. ASSUME NEW j \in Jobs, NEW p \in Payloads, NEW s \in {"completed", "interrupted"},
             EnqueueStreamed(j, p, s)
      PROVE  FinalKept
  <2>1. /\ Inserted(jobs, j, p) \in Tables
        /\ \A i \in Jobs \ {j} : Inserted(jobs, j, p)[i] = jobs[i]
    BY <1>0, InsertedRow
  <2> QED
    BY <1>2, <2>1 DEF EnqueueStreamed, FinalKept, FinalStates, Tables, Rows
<1>3. ASSUME NEW C, jobs' = CancelledWhere(jobs, C) PROVE FinalKept
  BY <1>0, <1>3, CancelledRows DEF FinalKept, FinalStates, LiveStates
<1>4. ASSUME NEW k \in Keys, Cancel(k) \/ CancelProgress(k) PROVE FinalKept
  BY <1>3, <1>4 DEF Cancel, CancelProgress, CancelledKey
<1>5. ASSUME NEW w \in Workers, NEW j \in Jobs, Replay(w, j) PROVE FinalKept
  BY <1>0, <1>5, ClaimedRow DEF Replay, FinalKept, FinalStates
<1>6. ASSUME NEW j \in Jobs, BackoffEnds(j) PROVE FinalKept
  BY <1>0, <1>6 DEF BackoffEnds, FinalKept, FinalStates, Tables, Rows
<1>7. ASSUME NEW k \in Keys, Signal(k) PROVE FinalKept
  BY <1>7 DEF Signal, FinalKept
<1>8. ASSUME NEW w \in Workers, Step(w) PROVE FinalKept
  BY <1>8, WorkerKeepsFinal
<1>9. CASE Restart
  BY <1>0, <1>9, RestartedRows DEF Restart, FinalKept
<1>10. CASE UNCHANGED vars
  BY <1>10 DEF vars, FinalKept
<1> QED
  BY <1>1, <1>2, <1>4, <1>5, <1>6, <1>7, <1>8, <1>9, <1>10 DEF Next, Outside

(* A completed, failed or cancelled row is never changed again by any *)
(* statement of the queue, recover included.                          *)
THEOREM FinalForever == Spec => FinalIsFinal
<1>1. IInv /\ [Next]_vars => [FinalKept]_vars
  BY FinalStep
<1> QED
  BY <1>1, Invariance, PTL DEF Spec, FinalIsFinal, FinalKept

-----------------------------------------------------------------------------
(* AttemptsBounded does not stand alone: a row may be claimed once more, so *)
(* a queued row must be below the limit.                                    *)
BelowLimit(attempts, state) ==
  /\ attempts <= MaxAttempts + restarts
  /\ state = "queued" => attempts < MaxAttempts + restarts

Bounded == \A j \in Jobs : j.kind # "speech" => BelowLimit(jobs[j].attempts, jobs[j].state)

(* What the statements on one row do to its attempts. *)
LEMMA SettledAttempts ==
  ASSUME NEW t \in Tables, NEW j \in Jobs, NEW s \in JobStates
  PROVE  \A i \in Jobs : Settled(t, j, s)[i].attempts = t[i].attempts
  BY DEF Tables, Rows, Settled

LEMMA RetriedAttempts ==
  ASSUME NEW t \in Tables, NEW j \in Jobs
  PROVE  /\ \A i \in Jobs : Retried(t, j, MaxAttempts)[i].attempts = t[i].attempts
         /\ Retried(t, j, MaxAttempts)[j].state = "queued" => t[j].attempts < MaxAttempts
<1>1. CASE t[j].attempts < MaxAttempts
  <2>1. Settled(t, j, "queued") \in Tables
        /\ \A i \in Jobs : Settled(t, j, "queued")[i].attempts = t[i].attempts
    BY SettledRow, SettledAttempts DEF JobStates
  <2> QED
    BY <1>1, <2>1 DEF Tables, Rows, Retried
<1>2. CASE ~(t[j].attempts < MaxAttempts)
  <2>1. Settled(t, j, "failed")[j].state = "failed"
        /\ \A i \in Jobs : Settled(t, j, "failed")[i].attempts = t[i].attempts
    BY SettledRow, SettledAttempts DEF JobStates
  <2> QED
    BY <1>2, <2>1 DEF Retried
<1> QED
  BY <1>1, <1>2

LEMMA ClaimedAttempts ==
  ASSUME NEW t \in Tables, NEW j \in Jobs
  PROVE  Claimed(t, j)[j].attempts = t[j].attempts + 1
  BY DEF Tables, Rows, Claimed

(* A row that a restart puts back was queued or running, or never begun. *)
LEMMA RestartedAttempts ==
  ASSUME NEW t \in Tables, NEW i \in Jobs
  PROVE  LET r == ProgressRecovered(Recovered(t, {"conversation"}, {"speech", "worker"}))
         IN  /\ r[i].attempts = t[i].attempts
             /\ r[i].state = "queued" => t[i].state \in LiveStates \/ t[i].attempts = 0
<1> DEFINE m == Recovered(t, {"conversation"}, {"speech", "worker"})
<1>1. /\ m \in Tables
      /\ m[i].attempts = t[i].attempts
      /\ m[i].state = "queued" => t[i].state \in LiveStates
  BY DEF Tables, Rows, Recovered, JobStates, LiveStates
<1> HIDE DEF m
<1>2. \/ ProgressRecovered(m)[i] = m[i]
      \/ m[i].attempts = 0 /\ ProgressRecovered(m)[i].attempts = m[i].attempts
  BY <1>1 DEF Tables, Rows, ProgressRecovered
<1> QED
  BY <1>1, <1>2 DEF m

(* A step that counts no attempt and puts no row back in the queue. *)
LEMMA BoundedStays ==
  ASSUME IInv, Bounded, restarts' = restarts,
         \A i \in Jobs : i.kind # "speech" =>
           \/ jobs'[i].attempts = jobs[i].attempts
              /\ (jobs'[i].state = "queued" => jobs[i].state = "queued")
           \/ BelowLimit(jobs'[i].attempts, jobs'[i].state)
  PROVE  Bounded'
  BY DEF Bounded, BelowLimit

LEMMA SettledBounded ==
  ASSUME IInv, Bounded, restarts' = restarts,
         NEW j \in Jobs, NEW s \in JobStates \ {"queued"}, jobs' = Settled(jobs, j, s)
  PROVE  Bounded'
<1>1. jobs \in Tables /\ s \in JobStates /\ s # "queued"
  BY DEF IInv, TypeOK, Tables
<1>2. \A i \in Jobs : jobs'[i].attempts = jobs[i].attempts
  BY <1>1, SettledAttempts
<1>3. jobs'[j].state = s /\ \A i \in Jobs \ {j} : jobs'[i] = jobs[i]
  BY <1>1, SettledRow
<1> QED
  BY <1>1, <1>2, <1>3, BoundedStays

LEMMA WorkerBounded ==
  ASSUME IInv, Bounded, NEW w \in Workers, Step(w)
  PROVE  Bounded'
<1>0. /\ jobs \in Tables /\ restarts \in Nat
      /\ pc[w] # "idle" => held[w] \in Jobs
  BY HeldJob, BoundsAssumption DEF IInv, TypeOK, Tables, Busy, Idle
<1>1. CASE Claim(w)
  <2>1. PICK j \in Jobs : IsNext(jobs, LaneOfWorker[w], j) /\ jobs' = Claimed(jobs, j)
    BY <1>1 DEF Claim
  <2>2. jobs[j].state = "queued" /\ restarts' = restarts
    BY <1>1, <2>1 DEF Claim, IsNext, Claimable
  <2>3. /\ jobs'[j].attempts = jobs[j].attempts + 1 /\ jobs'[j].state = "running"
        /\ \A i \in Jobs \ {j} : jobs'[i] = jobs[i]
    BY <1>0, <2>1, ClaimedRow, ClaimedAttempts
  <2>4. j.kind # "speech" => BelowLimit(jobs'[j].attempts, jobs'[j].state)
    BY <1>0, <2>2, <2>3, BoundsAssumption DEF Bounded, BelowLimit, Tables, Rows
  <2> QED
    BY <2>2, <2>3, <2>4, BoundedStays
<1>2. CASE Commit(w)
  <2>1. jobs' = Settled(jobs, held[w], "completed") /\ held[w] \in Jobs /\ restarts' = restarts
    BY <1>0, <1>2 DEF Commit, Finished
  <2> QED
    BY <2>1, SettledBounded DEF JobStates
<1>3. CASE FailForGood(w)
  <2>1. /\ restarts' = restarts /\ held[w] \in Jobs
        /\ jobs' = jobs \/ jobs' = Settled(jobs, held[w], "failed")
    BY <1>0, <1>3 DEF FailForGood, FailedTerminally
  <2>2. CASE jobs' = jobs
    BY <2>1, <2>2, BoundedStays
  <2>3. CASE jobs' = Settled(jobs, held[w], "failed")
    BY <2>1, <2>3, SettledBounded DEF JobStates
  <2> QED
    BY <2>1, <2>2, <2>3
<1>4. CASE Persist(w)
  <2>1. held[w] \in Jobs /\ restarts' = restarts
    BY <1>0, <1>4 DEF Persist
  <2>2. \/ jobs' = jobs
        \/ jobs' = Retried(jobs, held[w], MaxAttempts)
        \/ jobs' = Settled(jobs, held[w], "failed")
        \/ jobs' = Settled(jobs, held[w], "interrupted")
    BY <1>4, Zenon DEF Persist, FailedTerminally
  <2>3. CASE jobs' = jobs
    BY <2>1, <2>3, BoundedStays
  <2>4. CASE jobs' = Retried(jobs, held[w], MaxAttempts)
    <3>1. /\ \A i \in Jobs : jobs'[i].attempts = jobs[i].attempts
          /\ \A i \in Jobs \ {held[w]} : jobs'[i] = jobs[i]
          /\ jobs'[held[w]].state = "queued" => jobs[held[w]].attempts < MaxAttempts
      BY <1>0, <2>1, <2>4, RetriedRow, RetriedAttempts
    <3>2. held[w].kind # "speech" => BelowLimit(jobs'[held[w]].attempts, jobs'[held[w]].state)
      BY <1>0, <2>1, <3>1, BoundsAssumption DEF Bounded, BelowLimit, Tables, Rows
    <3> QED
      BY <2>1, <3>1, <3>2, BoundedStays
  <2>5. CASE jobs' = Settled(jobs, held[w], "failed")
    BY <2>1, <2>5, SettledBounded DEF JobStates
  <2>6. CASE jobs' = Settled(jobs, held[w], "interrupted")
    BY <2>1, <2>6, SettledBounded DEF JobStates
  <2> QED
    BY <2>2, <2>3, <2>4, <2>5, <2>6
<1>5. CASE Register(w) \/ Recheck(w) \/ Return(w) \/ Err(w) \/ PersistFails(w)
  <2>1. jobs' = jobs /\ restarts' = restarts
    BY <1>5 DEF Register, Recheck, Return, Err, PersistFails
  <2> QED
    BY <2>1, BoundedStays
<1> QED
  BY <1>1, <1>2, <1>3, <1>4, <1>5 DEF Step

LEMMA BoundedStep ==
  ASSUME IInv, Bounded, [Next]_vars
  PROVE  Bounded'
<1>0. jobs \in Tables /\ restarts \in Nat /\ MaxAttempts \in Nat \ {0}
  BY BoundsAssumption DEF IInv, TypeOK, Tables
<1>1. ASSUME NEW j \in Jobs, NEW p \in Payloads, Enqueue(j, p) PROVE Bounded'
  <2>1. jobs' = Inserted(jobs, j, p) /\ restarts' = restarts
    BY <1>1 DEF Enqueue
  <2>2. jobs'[j].attempts = 0 /\ \A i \in Jobs \ {j} : jobs'[i] = jobs[i]
    BY <1>0, <2>1, InsertedRow DEF Inserted, NewRow, Tables
  <2>3. BelowLimit(jobs'[j].attempts, jobs'[j].state)
    BY <1>0, <2>2 DEF BelowLimit
  <2> QED
    BY <2>1, <2>2, <2>3, BoundedStays
<1>2. ASSUME NEW j \in Jobs, NEW p \in Payloads, NEW s \in {"completed", "interrupted"},
             EnqueueStreamed(j, p, s)
      PROVE  Bounded'
  <2>1. /\ Inserted(jobs, j, p) \in Tables
        /\ \A i \in Jobs \ {j} : Inserted(jobs, j, p)[i] = jobs[i]
    BY <1>0, InsertedRow
  <2>2. j.kind = "speech" /\ restarts' = restarts /\ \A i \in Jobs \ {j} : jobs'[i] = jobs[i]
    BY <1>2, <2>1 DEF EnqueueStreamed, Tables
  <2> QED
    BY <2>2, BoundedStays
<1>3. ASSUME NEW C, jobs' = CancelledWhere(jobs, C), restarts' = restarts PROVE Bounded'
  <2>1. \A i \in Jobs : /\ jobs'[i].attempts = jobs[i].attempts
                        /\ jobs'[i].state = "queued" => jobs[i].state = "queued"
    BY <1>0, <1>3 DEF CancelledWhere, Tables, Rows
  <2> QED
    BY <1>3, <2>1, BoundedStays
<1>4. ASSUME NEW k \in Keys, Cancel(k) \/ CancelProgress(k) PROVE Bounded'
  BY <1>3, <1>4 DEF Cancel, CancelProgress, CancelledKey
<1>5. ASSUME NEW w \in Workers, NEW j \in Jobs, Replay(w, j) PROVE Bounded'
  <2>1. /\ j.kind = "speech" /\ restarts' = restarts
        /\ \A i \in Jobs \ {j} : jobs'[i] = jobs[i]
    BY <1>0, <1>5, ClaimedRow DEF Replay
  <2> QED
    BY <2>1, BoundedStays
<1>6. ASSUME NEW j \in Jobs, BackoffEnds(j) PROVE Bounded'
  <2>1. /\ restarts' = restarts
        /\ \A i \in Jobs : jobs'[i].attempts = jobs[i].attempts /\ jobs'[i].state = jobs[i].state
    BY <1>0, <1>6 DEF BackoffEnds, Tables, Rows
  <2> QED
    BY <2>1, BoundedStays
<1>7. ASSUME NEW k \in Keys, Signal(k) PROVE Bounded'
  BY <1>7, BoundedStays DEF Signal
<1>8. ASSUME NEW w \in Workers, Step(w) PROVE Bounded'
  BY <1>8, WorkerBounded
<1>9. CASE Restart
  <2>1. /\ restarts' = restarts + 1
        /\ jobs' = ProgressRecovered(Recovered(jobs, {"conversation"}, {"speech", "worker"}))
    BY <1>9 DEF Restart
  <2>2. ASSUME NEW i \in Jobs, i.kind # "speech"
        PROVE  BelowLimit(jobs[i].attempts, jobs[i].state) /\ jobs[i].attempts \in Nat
    BY <1>0, <2>2 DEF Bounded, Tables, Rows
  <2>3. ASSUME NEW i \in Jobs
        PROVE  /\ jobs'[i].attempts = jobs[i].attempts
               /\ jobs'[i].state = "queued"
                    => jobs[i].state \in LiveStates \/ jobs[i].attempts = 0
    BY <1>0, <2>1, RestartedAttempts
  <2> QED
    BY <1>0, <2>1, <2>2, <2>3 DEF Bounded, BelowLimit
<1>10. CASE UNCHANGED vars
  BY <1>10, BoundedStays DEF vars
<1> QED
  BY <1>1, <1>2, <1>4, <1>5, <1>6, <1>7, <1>8, <1>9, <1>10 DEF Next, Outside

(* task_queue::fail and recover keep the number of attempts of every job, but *)
(* for speech the user replays, within the limit and one for each restart.    *)
THEOREM AttemptsLimited == Spec => []AttemptsBounded
<1>1. Init => Bounded
  BY BoundsAssumption DEF Init, Bounded, BelowLimit, EmptyTable, AbsentRow
<1>2. IInv /\ Bounded /\ [Next]_vars => Bounded'
  BY BoundedStep
<1>3. Bounded => AttemptsBounded
  BY DEF Bounded, BelowLimit, AttemptsBounded
<1> QED
  BY <1>1, <1>2, <1>3, Invariance, PTL DEF Spec

-----------------------------------------------------------------------------
(* The queue implements JobPromise, and a cancel reaches every handler.        *)

(* A lane whose failures are retried never holds speech, a running row was counted *)
(* when it was claimed, and a row that does not exist was not.                     *)
Fits ==
  /\ \A w \in Workers : Busy(w) /\ Retries(w) => held[w] \notin Audible
  /\ \A j \in Jobs : /\ jobs[j].state = "running" => jobs[j].attempts # 0
                     /\ jobs[j].state = "absent" => jobs[j].attempts = 0

(* What a transaction may do to a row, from a to b. *)
Lives(j, a, b) ==
  \/ /\ a.attempts = b.attempts
     /\ \/ a.state = b.state
        \/ a.state = "absent" /\ b.state \in {"queued", "completed", "interrupted"}
        \/ a.state = "running" /\ b.state \in {"completed", "failed"}
        \/ a.state = "running" /\ b.state = "queued" /\ j \notin Audible
        \/ a.state \in {"queued", "running"} /\ b.state \in {"cancelled", "interrupted"}
        \/ a.state = "interrupted" /\ b.state = "queued" /\ a.attempts = 0
  \/ a.state \in {"queued", "interrupted"} /\ b.state = "running" /\ b.attempts = a.attempts + 1

AllLive == \A j \in Jobs : Lives(j, jobs[j], jobs'[j])

(* Rows that live so advance as promised. *)
LEMMA LivesAdvances == AllLive => Promise!Next
<1> SUFFICES ASSUME AllLive, NEW j \in Jobs PROVE Promise!Advances(j)
  BY DEF Promise!Next
<1>1. Lives(j, jobs[j], jobs'[j])
  BY DEF AllLive
<1> QED
  BY <1>1 DEF Lives, Promise!Advances, Promise!Accepted, Promise!Taken, Promise!Ended,
       Promise!GivenBack, Promise!Stopped, Promise!Replayed, Promise!Requeued,
       Promise!Untouched, Promise!Moves, Promise!Counted, Promise!Uncounted

(* A row that begins to run is counted. *)
LEMMA Counted ==
  ASSUME IInv, Fits, AllLive
  PROVE  \A j \in Jobs : /\ jobs'[j].state = "running" => jobs'[j].attempts # 0
                         /\ jobs'[j].state = "absent" => jobs'[j].attempts = 0
  BY DEF IInv, TypeOK, Rows, Fits, AllLive, Lives

(* A claim takes a queued row of the worker's lane, a replay an interrupted one. *)
LEMMA TakenLives ==
  ASSUME IInv, NEW j \in Jobs, jobs[j].state \in {"queued", "interrupted"}, jobs' = Claimed(jobs, j)
  PROVE  AllLive
<1>1. /\ jobs'[j].state = "running" /\ jobs'[j].attempts = jobs[j].attempts + 1
      /\ \A i \in Jobs \ {j} : jobs'[i] = jobs[i]
  BY ClaimedRow, ClaimedAttempts DEF IInv, TypeOK, Tables
<1> QED
  BY <1>1 DEF AllLive, Lives

(* An outcome is written to the row the worker still owns, which is running. *)
LEMMA SettledLives ==
  ASSUME IInv, NEW j \in Jobs, jobs[j].state = "running",
         NEW s \in {"completed", "failed", "interrupted"}, jobs' = Settled(jobs, j, s)
  PROVE  AllLive
<1>1. /\ jobs'[j].state = s /\ \A i \in Jobs \ {j} : jobs'[i] = jobs[i]
      /\ \A i \in Jobs : jobs'[i].attempts = jobs[i].attempts
  <2>1. s \in JobStates /\ jobs \in Tables
    BY DEF IInv, TypeOK, Tables, JobStates
  <2> QED
    BY <2>1, SettledRow, SettledAttempts
<1> QED
  BY <1>1 DEF AllLive, Lives

(* A retry puts back a row that nobody can hear. *)
LEMMA RetriedLives ==
  ASSUME IInv, NEW j \in Jobs, jobs[j].state = "running", j \notin Audible,
         jobs' = Retried(jobs, j, MaxAttempts)
  PROVE  AllLive
<1>1. /\ jobs'[j].state \in {"queued", "failed"} /\ \A i \in Jobs \ {j} : jobs'[i] = jobs[i]
      /\ \A i \in Jobs : jobs'[i].attempts = jobs[i].attempts
  BY RetriedRow, RetriedAttempts DEF IInv, TypeOK, Tables
<1> QED
  BY <1>1 DEF AllLive, Lives

(* A cancel stops live rows. *)
LEMMA CancelledLives ==
  ASSUME IInv, NEW C, jobs' = CancelledWhere(jobs, C)
  PROVE  AllLive
<1>1. \A i \in Jobs :
        \/ jobs'[i] = jobs[i]
        \/ /\ jobs[i].state \in LiveStates /\ jobs'[i].state = "cancelled"
           /\ jobs'[i].attempts = jobs[i].attempts
  BY DEF IInv, TypeOK, Rows, CancelledWhere, LiveStates
<1> QED
  BY <1>1 DEF AllLive, Lives, LiveStates

(* A restart gives back what cannot be heard, stops the rest, and puts back a progress *)
(* line that nobody began; that a running row was counted keeps out those somebody did. *)
LEMMA RestartedLives ==
  ASSUME IInv, Fits, Restart
  PROVE  AllLive
<1> DEFINE m == Recovered(jobs, {"conversation"}, {"speech", "worker"})
<1> SUFFICES ASSUME NEW i \in Jobs PROVE Lives(i, jobs[i], jobs'[i])
  BY DEF AllLive
<1>1. jobs[i] \in Rows(Payloads) /\ jobs \in Tables
  BY DEF IInv, TypeOK, Tables
<1>2. /\ m \in Tables /\ m[i].attempts = jobs[i].attempts
      /\ \/ m[i].state = jobs[i].state
         \/ jobs[i].state = "running" /\ m[i].state = "queued" /\ i \notin Audible
         \/ jobs[i].state \in LiveStates /\ m[i].state = "interrupted"
  BY <1>1, JobsAssumption DEF Tables, Rows, Recovered, JobStates, LiveStates, Audible, LaneOf, JobKinds
<1> HIDE DEF m
<1>3. /\ jobs'[i].attempts = m[i].attempts
      /\ \/ jobs'[i].state = m[i].state
         \/ m[i].state = "interrupted" /\ m[i].attempts = 0 /\ jobs'[i].state = "queued"
  <2>1. jobs' = ProgressRecovered(m)
    BY DEF Restart, m
  <2> QED
    BY <1>2, <2>1 DEF Tables, Rows, ProgressRecovered
<1>4. jobs[i].state = "running" => jobs[i].attempts # 0
  BY DEF Fits
<1> QED
  BY <1>2, <1>3, <1>4 DEF Lives, LiveStates

-----------------------------------------------------------------------------
(* A worker that is busy after a step was so before, with the same job, but for one *)
(* that takes a job in this step.                                                   *)
Kept(w) == Busy(w)' => Busy(w) /\ held'[w] = held[w]

(* A worker that lets go of its job changes nobody else's. *)
LEMMA ReleasedKept ==
  ASSUME IInv, NEW w \in Workers, Release(w)
  PROVE  \A v \in Workers : Kept(v)
  BY DEF IInv, TypeOK, Release, Goto, Kept, Busy, Idle

(* Nor does one that goes on with it. *)
LEMMA MovedKept ==
  ASSUME IInv, NEW w \in Workers, Busy(w), NEW label, Goto(w, label), held' = held
  PROVE  \A v \in Workers : Kept(v)
  BY DEF IInv, TypeOK, Goto, Kept, Busy, Idle

(* While nobody takes a job, the lanes keep what fits them. *)
LEMMA FitsKept ==
  ASSUME IInv, Fits, AllLive, \A w \in Workers : Kept(w)
  PROVE  Fits'
<1>1. \A w \in Workers : Busy(w)' /\ Retries(w) => held'[w] \notin Audible
  BY DEF Fits, Kept
<1>2. \A j \in Jobs : /\ jobs'[j].state = "running" => jobs'[j].attempts # 0
                      /\ jobs'[j].state = "absent" => jobs'[j].attempts = 0
  BY Counted
<1> QED
  BY <1>1, <1>2 DEF Fits, Retries, Busy, Idle, Audible

(* A lane that retries takes no job that people can hear. *)
LEMMA TakenFits ==
  ASSUME IInv, Fits, AllLive, NEW w \in Workers, NEW j \in Jobs, NEW label,
         Retries(w) => j \notin Audible, Goto(w, label), held' = [held EXCEPT ![w] = j]
  PROVE  Fits'
<1>1. \A v \in Workers \ {w} : Kept(v)
  BY DEF IInv, TypeOK, Goto, Kept, Busy, Idle
<1>2. held'[w] = j
  BY DEF IInv, TypeOK
<1>3. \A v \in Workers : Busy(v)' /\ Retries(v) => held'[v] \notin Audible
  BY <1>1, <1>2 DEF Fits, Kept
<1>4. \A i \in Jobs : /\ jobs'[i].state = "running" => jobs'[i].attempts # 0
                      /\ jobs'[i].state = "absent" => jobs'[i].attempts = 0
  BY Counted
<1> QED
  BY <1>3, <1>4 DEF Fits, Retries, Busy, Idle, Audible

(* A step of a worker moves its row as promised. *)
LEMMA WorkerLives ==
  ASSUME IInv, Fits, NEW w \in Workers, Step(w)
  PROVE  AllLive /\ Fits'
<1>0. /\ Busy(w) => held[w] \in Jobs
      /\ Busy(w) /\ Current(w) => jobs[held[w]].state = "running"
      /\ Busy(w) <=> pc[w] # "idle"
  BY HeldJob DEF Current, Owns, Busy, Idle
<1>1. CASE Claim(w)
  <2>1. PICK j \in Jobs : /\ IsNext(jobs, LaneOfWorker[w], j) /\ jobs' = Claimed(jobs, j)
                          /\ held' = [held EXCEPT ![w] = j]
    BY <1>1 DEF Claim
  <2>2. jobs[j].state = "queued" /\ LaneOf(j.kind) = LaneOfWorker[w]
    BY <2>1 DEF IsNext, Claimable
  <2>3. AllLive
    BY <2>1, <2>2, TakenLives
  <2>4. Retries(w) => j \notin Audible
    BY <2>2 DEF Retries, Audible
  <2> QED
    BY <1>1, <2>1, <2>3, <2>4, TakenFits DEF Claim
<1>2. CASE Commit(w)
  <2>1. AllLive
    BY <1>0, <1>2, SettledLives DEF Commit, Finished
  <2> QED
    BY <1>2, <2>1, ReleasedKept, FitsKept DEF Commit
<1>3. CASE FailForGood(w)
  <2>1. jobs' = jobs \/ (Current(w) /\ jobs' = Settled(jobs, held[w], "failed"))
    BY <1>3, Zenon DEF FailForGood, FailedTerminally
  <2>2. AllLive
    BY <1>0, <1>3, <2>1, SettledLives DEF FailForGood, AllLive, Lives
  <2> QED
    BY <1>3, <2>2, ReleasedKept, FitsKept DEF FailForGood
<1>4. CASE Persist(w)
  <2>1. \/ jobs' = jobs
        \/ Current(w) /\ Retries(w) /\ jobs' = Retried(jobs, held[w], MaxAttempts)
        \/ Current(w) /\ jobs' = Settled(jobs, held[w], "failed")
        \/ Current(w) /\ jobs' = Settled(jobs, held[w], "interrupted")
    BY <1>4, Zenon DEF Persist, FailedTerminally
  <2>2. Busy(w) /\ Release(w) /\ (Retries(w) => held[w] \notin Audible)
    BY <1>0, <1>4 DEF Persist, Fits
  <2>3. AllLive
    <3>1. CASE jobs' = jobs
      BY <3>1 DEF AllLive, Lives
    <3>2. CASE Current(w) /\ Retries(w) /\ jobs' = Retried(jobs, held[w], MaxAttempts)
      BY <1>0, <2>2, <3>2, RetriedLives
    <3>3. CASE Current(w) /\ jobs' = Settled(jobs, held[w], "failed")
      BY <1>0, <2>2, <3>3, SettledLives
    <3>4. CASE Current(w) /\ jobs' = Settled(jobs, held[w], "interrupted")
      BY <1>0, <2>2, <3>4, SettledLives
    <3> QED
      BY <2>1, <3>1, <3>2, <3>3, <3>4
  <2> QED
    BY <2>2, <2>3, ReleasedKept, FitsKept
<1>5. CASE Register(w) \/ Recheck(w) \/ Return(w) \/ Err(w) \/ PersistFails(w)
  <2>1. AllLive
    BY <1>5 DEF Register, Recheck, Return, Err, PersistFails, AllLive, Lives
  <2>2. Release(w) \/ (Busy(w) /\ held' = held /\ \E label : Goto(w, label))
    BY <1>0, <1>5, Zenon DEF Register, Recheck, Return, Err, PersistFails
  <2> QED
    BY <2>1, <2>2, ReleasedKept, MovedKept, FitsKept
<1> QED
  BY <1>1, <1>2, <1>3, <1>4, <1>5 DEF Step

(* Every step moves the rows as promised. *)
LEMMA StepLives ==
  ASSUME IInv, Fits, [Next]_vars
  PROVE  AllLive /\ Fits'
<1>1. ASSUME AllLive, UNCHANGED <<pc, held>> PROVE AllLive /\ Fits'
  BY <1>1, FitsKept DEF Kept, Busy, Idle
<1>2. ASSUME NEW j \in Jobs, NEW p \in Payloads,
             Enqueue(j, p) \/ \E s \in {"completed", "interrupted"} : EnqueueStreamed(j, p, s)
      PROVE  AllLive /\ Fits'
  <2>1. jobs[j].state = "absent" /\ jobs[j].attempts = 0 /\ jobs \in Tables
    BY <1>2 DEF Enqueue, EnqueueStreamed, Fits, IInv, TypeOK, Tables
  <2>2. /\ Inserted(jobs, j, p) \in Tables /\ Inserted(jobs, j, p)[j].state = "queued"
        /\ Inserted(jobs, j, p)[j].attempts = 0
        /\ \A i \in Jobs \ {j} : Inserted(jobs, j, p)[i] = jobs[i]
    BY <2>1, InsertedRow DEF Inserted, NewRow, Tables
  <2>3. /\ jobs'[j].attempts = 0 /\ jobs'[j].state \in {"queued", "completed", "interrupted"}
        /\ \A i \in Jobs \ {j} : jobs'[i] = jobs[i]
    BY <1>2, <2>2 DEF Enqueue, EnqueueStreamed, Tables, Rows
  <2> QED
    BY <1>1, <1>2, <2>1, <2>3 DEF AllLive, Lives, Enqueue, EnqueueStreamed, memory
<1>3. ASSUME NEW k \in Keys, Cancel(k) \/ CancelProgress(k) PROVE AllLive /\ Fits'
  BY <1>1, <1>3, CancelledLives DEF Cancel, CancelProgress, CancelledKey, memory
<1>4. ASSUME NEW w \in Workers, NEW j \in Jobs, Replay(w, j) PROVE AllLive /\ Fits'
  <2>1. AllLive
    BY <1>4, TakenLives DEF Replay
  <2>2. ~Retries(w)
    BY <1>4 DEF Replay, Retries
  <2> QED
    BY <1>4, <2>1, <2>2, TakenFits DEF Replay
<1>5. ASSUME NEW k \in Keys, Signal(k) PROVE AllLive /\ Fits'
  BY <1>1, <1>5 DEF Signal, AllLive, Lives
<1>6. ASSUME NEW j \in Jobs, BackoffEnds(j) PROVE AllLive /\ Fits'
  BY <1>1, <1>6 DEF BackoffEnds, AllLive, Lives, memory, IInv, TypeOK, Rows
<1>7. ASSUME NEW w \in Workers, Step(w) PROVE AllLive /\ Fits'
  BY <1>7, WorkerLives
<1>8. CASE Restart
  <2>1. AllLive
    BY <1>8, RestartedLives
  <2>2. \A w \in Workers : Kept(w)
    BY <1>8 DEF Restart, Kept, Busy, Idle
  <2> QED
    BY <2>1, <2>2, FitsKept
<1>9. CASE UNCHANGED vars
  BY <1>1, <1>9 DEF vars, AllLive, Lives
<1> QED
  BY <1>2, <1>3, <1>4, <1>5, <1>6, <1>7, <1>8, <1>9 DEF Next, Outside

(* The queue keeps its promise to every job: none that is final comes back, and none *)
(* that people can hear is begun twice unless a person asks for it.                  *)
THEOREM JobsPromised == Spec => KeepsPromise
<1>1. Init => Fits /\ Promise!Init
  BY DEF Init, Fits, Busy, Idle, EmptyTable, AbsentRow, Promise!Init
<1>2. IInv /\ Fits /\ [Next]_vars => Fits' /\ [Promise!Next]_(Promise!vars)
  BY StepLives, LivesAdvances
<1> QED
  BY <1>1, <1>2, Invariance, PTL DEF Spec, KeepsPromise, Promise!Spec

-----------------------------------------------------------------------------
(* A step that cancels nothing that is handled, and in which a handler goes on as it *)
(* was or begins with a row that is not cancelled.                                   *)
NobodyMisses ==
  /\ unsignalled' = unsignalled
  /\ \A j \in Jobs : j.kind \in {"user_input", "speech"} /\ jobs'[j].state = "cancelled"
       => jobs[j].state = "cancelled"
  /\ \A w \in Workers : pc'[w] = "handling" =>
       \/ pc[w] = "handling" /\ held'[w] = held[w] /\ stop'[w] = stop[w]
       \/ jobs'[held'[w]].state # "cancelled"

(* Such a step leaves every handler told that was to be told. *)
LEMMA NobodyMissed == IInv /\ CancelReaches /\ NobodyMisses => CancelReaches'
<1> SUFFICES ASSUME IInv, CancelReaches, NobodyMisses, NEW w \in Workers,
                    pc'[w] = "handling", held'[w].kind \in {"user_input", "speech"},
                    jobs'[held'[w]].state = "cancelled", held'[w].key \notin unsignalled'
             PROVE  stop'[w]
  BY DEF CancelReaches
<1>1. pc[w] = "handling" /\ held'[w] = held[w] /\ stop'[w] = stop[w] /\ unsignalled' = unsignalled
  BY DEF NobodyMisses
<1>2. held[w] \in Jobs
  BY <1>1, HeldJob DEF Busy, Idle
<1>3. jobs[held[w]].state = "cancelled"
  BY <1>1, <1>2 DEF NobodyMisses
<1> QED
  BY <1>1, <1>3 DEF CancelReaches

(* The row is read again after its token was registered: a handler begins with a row *)
(* that runs.                                                                        *)
LEMMA WorkerMissesNone ==
  ASSUME IInv, NEW w \in Workers, Step(w)
  PROVE  NobodyMisses
<1>0. /\ jobs \in Tables /\ unsignalled' = unsignalled
      /\ Busy(w) => held[w] \in Jobs
      /\ Busy(w) <=> pc[w] # "idle"
  BY HeldJob DEF IInv, TypeOK, Tables, Busy, Idle, Step, Claim, Register, Recheck, Commit, Return,
                 FailForGood, Err, Persist, PersistFails
<1>1. \A j \in Jobs : jobs'[j].state = "cancelled" => jobs[j].state = "cancelled"
  <2>1. CASE Claim(w)
    <3>1. PICK j \in Jobs : jobs' = Claimed(jobs, j)
      BY <2>1 DEF Claim
    <3> QED
      BY <1>0, <3>1, ClaimedRow
  <2>2. CASE Commit(w)
    BY <1>0, <2>2, FinishedRow DEF Commit
  <2>3. CASE FailForGood(w)
    <3>1. held[w] \in Jobs /\ (jobs' = jobs \/ jobs' = FailedTerminally(jobs, held[w]))
      BY <1>0, <2>3 DEF FailForGood
    <3> QED
      BY <1>0, <3>1, FailedRow
  <2>4. CASE Persist(w)
    <3>1. \/ jobs' = jobs
          \/ jobs' = Retried(jobs, held[w], MaxAttempts)
          \/ jobs' = FailedTerminally(jobs, held[w])
          \/ jobs' = Settled(jobs, held[w], "interrupted")
      BY <2>4, Zenon DEF Persist
    <3>2. held[w] \in Jobs
      BY <1>0, <2>4 DEF Persist
    <3>3. CASE jobs' = Retried(jobs, held[w], MaxAttempts)
      BY <1>0, <3>2, <3>3, RetriedRow
    <3>4. CASE jobs' = FailedTerminally(jobs, held[w])
      BY <1>0, <3>2, <3>4, FailedRow
    <3>5. CASE jobs' = Settled(jobs, held[w], "interrupted")
      BY <1>0, <3>2, <3>5, InterruptedRow
    <3> QED
      BY <3>1, <3>3, <3>4, <3>5
  <2>5. CASE Register(w) \/ Recheck(w) \/ Return(w) \/ Err(w) \/ PersistFails(w)
    BY <2>5 DEF Register, Recheck, Return, Err, PersistFails
  <2> QED
    BY <2>1, <2>2, <2>3, <2>4, <2>5 DEF Step
<1>2. \A v \in Workers \ {w} : pc'[v] = pc[v] /\ held'[v] = held[v] /\ stop'[v] = stop[v]
  <2>1. CASE Release(w)
    BY <2>1 DEF Release, Goto, IInv, TypeOK
  <2>2. CASE ~Release(w)
    <3>1. stop' = stop /\ \E label : Goto(w, label)
      <4>1. CASE Recheck(w)
        <5>1. Goto(w, "handling") /\ UNCHANGED <<held, token, stop>>
          BY <2>2, <4>1, Zenon DEF Recheck
        <5> QED
          BY <5>1
      <4>2. CASE Claim(w) \/ Register(w) \/ Err(w)
        BY <4>2 DEF Claim, Register, Err
      <4> QED
        BY <2>2, <4>1, <4>2 DEF Step, Commit, Return, FailForGood, Persist, PersistFails
    <3>2. held' = held \/ \E j \in Jobs : held' = [held EXCEPT ![w] = j]
      BY <2>2, Zenon DEF Step, Claim, Register, Recheck, Commit, Return, FailForGood, Err, Persist,
                         PersistFails
    <3> QED
      BY <3>1, <3>2 DEF Goto, IInv, TypeOK
  <2> QED
    BY <2>1, <2>2
<1>3. pc'[w] = "handling" => jobs'[held'[w]].state # "cancelled"
  <2>1. CASE Recheck(w) /\ Current(w)
    <3>1. jobs' = jobs /\ held' = held
      BY <2>1, Zenon DEF Recheck
    <3> QED
      BY <2>1, <3>1 DEF Current, Owns
  <2>2. CASE ~(Recheck(w) /\ Current(w))
    <3>1. Release(w) \/ \E label \in {"claimed", "registered", "failing"} : Goto(w, label)
      BY <2>2, Zenon DEF Step, Claim, Register, Recheck, Commit, Return, FailForGood, Err, Persist,
                         PersistFails
    <3> QED
      BY <3>1 DEF Release, Goto, IInv, TypeOK
  <2> QED
    BY <2>1, <2>2
<1> QED
  BY <1>0, <1>1, <1>2, <1>3 DEF NobodyMisses

(* No step lets a handler miss its cancel. *)
LEMMA CancelStep ==
  ASSUME IInv, CancelReaches, [Next]_vars
  PROVE  CancelReaches'
<1>0. jobs \in Tables /\ \A w \in Workers : pc[w] = "handling" => held[w] \in Jobs
  BY HeldJob DEF IInv, TypeOK, Tables, Busy, Idle
<1>1. ASSUME NEW j \in Jobs, NEW p \in Payloads,
             Enqueue(j, p) \/ \E s \in {"completed", "interrupted"} : EnqueueStreamed(j, p, s)
      PROVE  CancelReaches'
  <2>1. /\ Inserted(jobs, j, p) \in Tables /\ Inserted(jobs, j, p)[j].state = "queued"
        /\ \A i \in Jobs \ {j} : Inserted(jobs, j, p)[i] = jobs[i]
    BY <1>0, InsertedRow
  <2>2. \A i \in Jobs : jobs'[i].state = "cancelled" => jobs[i].state = "cancelled"
    BY <1>1, <2>1 DEF Enqueue, EnqueueStreamed, Tables, Rows
  <2> QED
    BY <1>1, <2>2, NobodyMissed DEF NobodyMisses, Enqueue, EnqueueStreamed, memory
<1>2. ASSUME NEW k \in Keys, Cancel(k) PROVE CancelReaches'
  <2>1. \A i \in Jobs : jobs'[i].state = "cancelled" => jobs[i].state = "cancelled" \/ i.key = k
    BY <1>0, <1>2 DEF Cancel, CancelledKey, CancelledWhere, Tables
  <2> QED
    BY <1>0, <1>2, <2>1 DEF Cancel, CancelReaches
<1>3. ASSUME NEW k \in Keys, CancelProgress(k) PROVE CancelReaches'
  <2>1. \A i \in Jobs : jobs'[i].state = "cancelled"
                        => jobs[i].state = "cancelled" \/ i.kind = "progress_speech"
    BY <1>0, <1>3 DEF CancelProgress, CancelledWhere, Tables
  <2> QED
    BY <1>3, <2>1, NobodyMissed DEF NobodyMisses, CancelProgress, memory
<1>4. ASSUME NEW w \in Workers, NEW j \in Jobs, Replay(w, j) PROVE CancelReaches'
  <2>1. \A i \in Jobs : jobs'[i].state = "cancelled" => jobs[i].state = "cancelled"
    BY <1>0, <1>4, ClaimedRow DEF Replay
  <2>2. \A v \in Workers : pc'[v] = "handling" => pc[v] = "handling" /\ held'[v] = held[v]
    BY <1>4 DEF Replay, Goto, IInv, TypeOK
  <2> QED
    BY <1>4, <2>1, <2>2, NobodyMissed DEF NobodyMisses, Replay
<1>5. ASSUME NEW k \in Keys, Signal(k) PROVE CancelReaches'
  BY <1>0, <1>5 DEF Signal, CancelReaches, Registered
<1>6. ASSUME NEW j \in Jobs, BackoffEnds(j) PROVE CancelReaches'
  <2>1. \A i \in Jobs : jobs'[i].state = jobs[i].state
    BY <1>0, <1>6 DEF BackoffEnds, Tables, Rows
  <2> QED
    BY <1>6, <2>1, NobodyMissed DEF NobodyMisses, BackoffEnds, memory
<1>7. ASSUME NEW w \in Workers, Step(w) PROVE CancelReaches'
  BY <1>7, WorkerMissesNone, NobodyMissed
<1>8. CASE Restart
  BY <1>8 DEF Restart, CancelReaches
<1>9. CASE UNCHANGED vars
  BY <1>9, NobodyMissed DEF vars, NobodyMisses
<1> QED
  BY <1>1, <1>2, <1>3, <1>4, <1>5, <1>6, <1>7, <1>8, <1>9 DEF Next, Outside

(* A handler whose row is cancelled is told to stop, whether the cancel comes before the *)
(* token is registered, between that and the second look at the row, or later.           *)
THEOREM CancelAlwaysReaches == Spec => []CancelReaches
<1>1. Init => CancelReaches
  BY DEF Init, CancelReaches
<1>2. IInv /\ CancelReaches /\ [Next]_vars => CancelReaches'
  BY CancelStep
<1> QED
  BY <1>1, <1>2, Invariance, PTL DEF Spec
=============================================================================
