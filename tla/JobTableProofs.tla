-------------------------- MODULE JobTableProofs ---------------------------
(***************************************************************************)
(* What each statement of JobTable does to a well-typed table, for every   *)
(* set of job identities and payloads: it keeps the table well typed, and  *)
(* it changes the state and the owner of the rows it is about and of no    *)
(* other.  The proofs of the modules over the table cite these facts.      *)
(***************************************************************************)
EXTENDS JobTable, FiniteSetTheorems, TLAPS

Tables(ids, pay) == [ids -> Rows(pay)]

(* finish, fail and fail_terminal settle one row and take its owner away. *)
LEMMA SettledRow ==
  ASSUME NEW ids, NEW pay, NEW t \in Tables(ids, pay), NEW j \in ids, NEW s \in JobStates
  PROVE  /\ Settled(t, j, s) \in Tables(ids, pay)
         /\ Settled(t, j, s)[j].state = s
         /\ \A i \in ids \ {j} : Settled(t, j, s)[i] = t[i]
  BY DEF Tables, Rows, Settled

LEMMA FinishedRow ==
  ASSUME NEW ids, NEW pay, NEW t \in Tables(ids, pay), NEW j \in ids
  PROVE  /\ Finished(t, j) \in Tables(ids, pay)
         /\ Finished(t, j)[j].state = "completed"
         /\ \A i \in ids \ {j} : Finished(t, j)[i] = t[i]
<1>1. "completed" \in JobStates
  BY DEF JobStates
<1> QED
  BY <1>1, SettledRow DEF Finished

LEMMA FailedRow ==
  ASSUME NEW ids, NEW pay, NEW t \in Tables(ids, pay), NEW j \in ids
  PROVE  /\ FailedTerminally(t, j) \in Tables(ids, pay)
         /\ FailedTerminally(t, j)[j].state = "failed"
         /\ \A i \in ids \ {j} : FailedTerminally(t, j)[i] = t[i]
<1>1. "failed" \in JobStates
  BY DEF JobStates
<1> QED
  BY <1>1, SettledRow DEF FailedTerminally

(* A retry queues the row again while attempts are left, and fails it then. *)
LEMMA RetriedRow ==
  ASSUME NEW ids, NEW pay, NEW t \in Tables(ids, pay), NEW j \in ids, NEW max
  PROVE  /\ Retried(t, j, max) \in Tables(ids, pay)
         /\ Retried(t, j, max)[j].state =
              IF t[j].attempts < max THEN "queued" ELSE "failed"
         /\ \A i \in ids \ {j} : Retried(t, j, max)[i] = t[i]
<1>1. CASE t[j].attempts < max
  <2>1. /\ Settled(t, j, "queued") \in Tables(ids, pay)
        /\ Settled(t, j, "queued")[j].state = "queued"
        /\ \A i \in ids \ {j} : Settled(t, j, "queued")[i] = t[i]
    BY SettledRow DEF JobStates
  <2> QED
    BY <1>1, <2>1 DEF Tables, Rows, Retried
<1>2. CASE ~(t[j].attempts < max)
  <2>1. /\ Settled(t, j, "failed") \in Tables(ids, pay)
        /\ Settled(t, j, "failed")[j].state = "failed"
        /\ \A i \in ids \ {j} : Settled(t, j, "failed")[i] = t[i]
    BY SettledRow DEF JobStates
  <2> QED
    BY <1>2, <2>1 DEF Retried
<1> QED
  BY <1>1, <1>2

(* A claim makes its row running under the owner of that attempt. *)
LEMMA ClaimedRow ==
  ASSUME NEW ids, NEW pay, NEW t \in Tables(ids, pay), NEW j \in ids
  PROVE  /\ Claimed(t, j) \in Tables(ids, pay)
         /\ Claimed(t, j)[j].state = "running"
         /\ Claimed(t, j)[j].owner \in Nat
         /\ \A i \in ids \ {j} : Claimed(t, j)[i] = t[i]
<1> DEFINE n == t[j].attempts + 1
           row == [t[j] EXCEPT !.state = "running", !.attempts = n, !.owner = n]
<1>1. t[j] \in Rows(pay) /\ n \in Nat
  BY DEF Tables, Rows
<1>2. /\ row \in Rows(pay)
      /\ row.state = "running"
      /\ row.owner = n
  BY <1>1 DEF Rows, JobStates
<1>3. Claimed(t, j) = [t EXCEPT ![j] = row]
  BY DEF Tables, Claimed
<1> QED
  BY <1>1, <1>2, <1>3 DEF Tables

(* The row a lane may claim next is a queued row of that lane. *)
LEMMA NextIsQueued ==
  ASSUME NEW ids, NEW pay, NEW t \in Tables(ids, pay), NEW lane, NEW j, IsNext(t, lane, j)
  PROVE  j \in ids /\ t[j].state = "queued" /\ LaneOf(j.kind) = lane
  BY DEF IsNext, Claimable, Tables

(* The number of the next row is a natural number: finitely many rows are there. *)
LEMMA NewRowType ==
  ASSUME NEW ids, IsFiniteSet(ids), NEW pay, NEW t \in Tables(ids, pay), NEW p \in pay
  PROVE  NewRow(t, p) \in Rows(pay) /\ NewRow(t, p).state = "queued"
<1>1. Present(t) \in SUBSET ids
  BY DEF Present, Tables
<1>2. IsFiniteSet(Present(t))
  BY <1>1, FS_Subset
<1>3. NextRowid(t) \in Nat
  BY <1>2, FS_CardinalityType DEF NextRowid
<1> QED
  BY <1>3 DEF Rows, NewRow, JobStates

(* An insert adds one queued row. *)
LEMMA InsertedRow ==
  ASSUME NEW ids, IsFiniteSet(ids), NEW pay, NEW t \in Tables(ids, pay), NEW j \in ids,
         NEW p \in pay
  PROVE  /\ Inserted(t, j, p) \in Tables(ids, pay)
         /\ Inserted(t, j, p)[j].state = "queued"
         /\ \A i \in ids \ {j} : Inserted(t, j, p)[i] = t[i]
  BY NewRowType DEF Tables, Inserted

(* A cancel turns the chosen live rows into cancelled ones. *)
LEMMA CancelledRows ==
  ASSUME NEW ids, NEW pay, NEW t \in Tables(ids, pay), NEW C
  PROVE  /\ CancelledWhere(t, C) \in Tables(ids, pay)
         /\ \A i \in ids : IF i \in C /\ t[i].state \in LiveStates
                           THEN CancelledWhere(t, C)[i].state = "cancelled"
                           ELSE CancelledWhere(t, C)[i] = t[i]
  BY DEF Tables, Rows, CancelledWhere, JobStates, LiveStates

LEMMA CancelledKeyRows ==
  ASSUME NEW ids, NEW pay, NEW t \in Tables(ids, pay), NEW key
  PROVE  /\ CancelledKey(t, key) \in Tables(ids, pay)
         /\ \A i \in ids : IF i.key = key /\ t[i].state \in LiveStates
                           THEN CancelledKey(t, key)[i].state = "cancelled"
                           ELSE CancelledKey(t, key)[i] = t[i]
<1> DEFINE C == {j \in ids : j.key = key}
<1>1. CancelledKey(t, key) = CancelledWhere(t, C)
  BY DEF CancelledKey, Tables
<1> QED
  BY <1>1, CancelledRows

(* Recovery queues the running rows of the first lanes and interrupts the live *)
(* rows of the second.                                                         *)
LEMMA RecoveredRows ==
  ASSUME NEW ids, NEW pay, NEW t \in Tables(ids, pay), NEW R, NEW I, R \cap I = {}
  PROVE  /\ Recovered(t, R, I) \in Tables(ids, pay)
         /\ \A i \in ids :
              CASE LaneOf(i.kind) \in R /\ t[i].state = "running" ->
                     Recovered(t, R, I)[i].state = "queued"
                [] LaneOf(i.kind) \in I /\ t[i].state \in LiveStates ->
                     Recovered(t, R, I)[i].state = "interrupted"
                [] OTHER -> Recovered(t, R, I)[i] = t[i]
  BY DEF Tables, Rows, Recovered, JobStates, LiveStates

-----------------------------------------------------------------------------
(* What JobPromise asks of a statement, for jobs that can be heard and others. *)

(* What a transaction may do to the row of j, from a to b. *)
Advanced(heard, j, a, b) ==
  \/ /\ a.attempts = b.attempts
     /\ \/ a.state = b.state
        \/ a.state = "absent" /\ b.state \in {"queued", "completed", "interrupted"}
        \/ a.state = "running" /\ b.state \in {"completed", "failed"}
        \/ a.state = "running" /\ b.state = "queued" /\ j \notin heard
        \/ a.state \in {"queued", "running"} /\ b.state \in {"cancelled", "interrupted"}
        \/ a.state = "interrupted" /\ b.state = "queued" /\ a.attempts = 0
  \/ a.state \in {"queued", "interrupted"} /\ b.state = "running" /\ b.attempts = a.attempts + 1

Moved(ids, heard, t, u) == \A j \in ids : Advanced(heard, j, t[j], u[j])

(* A running row was counted when it was claimed, and a row that does not exist was not. *)
Tallied(ids, t) ==
  \A j \in ids : /\ t[j].state = "running" => t[j].attempts # 0
                 /\ t[j].state = "absent" => t[j].attempts = 0

(* Rows that move as they may stay counted. *)
LEMMA TalliedKept ==
  ASSUME NEW ids, NEW heard, NEW pay, NEW t \in Tables(ids, pay), NEW u,
         Tallied(ids, t), Moved(ids, heard, t, u)
  PROVE  Tallied(ids, u)
  BY DEF Tables, Rows, Tallied, Moved, Advanced

(* Two statements on rows apart move them as one transaction may. *)
LEMMA ApartMoved ==
  ASSUME NEW ids, NEW heard, NEW t, NEW u, NEW v,
         Moved(ids, heard, t, u), Moved(ids, heard, u, v),
         \A j \in ids : u[j] = t[j] \/ v[j] = u[j]
  PROVE  Moved(ids, heard, t, v)
  BY DEF Moved

LEMMA StillMoved ==
  ASSUME NEW ids, NEW heard, NEW t
  PROVE  Moved(ids, heard, t, t)
  BY DEF Moved, Advanced

(* A claim counts. *)
LEMMA ClaimedMoved ==
  ASSUME NEW ids, NEW heard, NEW pay, NEW t \in Tables(ids, pay), NEW j \in ids,
         t[j].state = "queued"
  PROVE  Moved(ids, heard, t, Claimed(t, j))
<1>1. Claimed(t, j)[j].attempts = t[j].attempts + 1
  BY DEF Tables, Rows, Claimed
<1> QED
  BY <1>1, ClaimedRow DEF Moved, Advanced

(* An outcome is written to a running row. *)
LEMMA SettledMoved ==
  ASSUME NEW ids, NEW heard, NEW pay, NEW t \in Tables(ids, pay), NEW j \in ids,
         t[j].state = "running", NEW s \in {"completed", "failed", "interrupted"}
  PROVE  Moved(ids, heard, t, Settled(t, j, s))
<1>1. s \in JobStates /\ \A i \in ids : Settled(t, j, s)[i].attempts = t[i].attempts
  BY DEF JobStates, Tables, Rows, Settled
<1> QED
  BY <1>1, SettledRow DEF Moved, Advanced

(* A retry puts back a row that nobody can hear. *)
LEMMA RetriedMoved ==
  ASSUME NEW ids, NEW heard, NEW pay, NEW t \in Tables(ids, pay), NEW j \in ids \ heard,
         t[j].state = "running", NEW max
  PROVE  Moved(ids, heard, t, Retried(t, j, max))
<1>1. \A i \in ids : Settled(t, j, "queued")[i].attempts = t[i].attempts
  BY DEF Tables, Rows, Settled
<1>2. \A i \in ids : Settled(t, j, "failed")[i].attempts = t[i].attempts
  BY DEF Tables, Rows, Settled
<1>3. \A i \in ids : Retried(t, j, max)[i].attempts = t[i].attempts
  <2>1. Settled(t, j, "queued") \in Tables(ids, pay)
    BY SettledRow DEF JobStates
  <2> QED
    BY <1>1, <1>2, <2>1 DEF Tables, Rows, Retried
<1>4. /\ Retried(t, j, max)[j].state \in {"queued", "failed"}
      /\ \A i \in ids \ {j} : Retried(t, j, max)[i] = t[i]
  BY RetriedRow
<1> QED
  BY <1>3, <1>4 DEF Moved, Advanced

(* A cancel stops live rows. *)
LEMMA CancelledMoved ==
  ASSUME NEW ids, NEW heard, NEW pay, NEW t \in Tables(ids, pay), NEW C
  PROVE  Moved(ids, heard, t, CancelledWhere(t, C))
<1>1. \A i \in ids : CancelledWhere(t, C)[i].attempts = t[i].attempts
  BY DEF Tables, Rows, CancelledWhere
<1> QED
  BY <1>1, CancelledRows DEF Moved, Advanced, LiveStates

LEMMA CancelledKeyMoved ==
  ASSUME NEW ids, NEW heard, NEW pay, NEW t \in Tables(ids, pay), NEW key
  PROVE  Moved(ids, heard, t, CancelledKey(t, key))
  BY CancelledMoved DEF CancelledKey

(* An insert makes a row where there was none. *)
LEMMA InsertedMoved ==
  ASSUME NEW ids, IsFiniteSet(ids), NEW heard, NEW pay, NEW t \in Tables(ids, pay),
         NEW j \in ids, NEW p \in pay, t[j].state = "absent", t[j].attempts = 0
  PROVE  Moved(ids, heard, t, Inserted(t, j, p))
<1>1. Inserted(t, j, p)[j].attempts = 0
  BY DEF Tables, Inserted, NewRow
<1> QED
  BY <1>1, InsertedRow DEF Moved, Advanced

(* Recovery gives back what nobody can hear and interrupts the rest. *)
LEMMA RecoveredMoved ==
  ASSUME NEW ids, NEW heard, NEW pay, NEW t \in Tables(ids, pay), NEW R, NEW I, R \cap I = {},
         \A j \in ids : LaneOf(j.kind) \in R => j \notin heard
  PROVE  Moved(ids, heard, t, Recovered(t, R, I))
<1>1. \A i \in ids : Recovered(t, R, I)[i].attempts = t[i].attempts
  BY DEF Tables, Rows, Recovered
<1> SUFFICES ASSUME NEW i \in ids PROVE Advanced(heard, i, t[i], Recovered(t, R, I)[i])
  BY DEF Moved
<1>2. \/ LaneOf(i.kind) \in R /\ t[i].state = "running" /\ Recovered(t, R, I)[i].state = "queued"
      \/ t[i].state \in LiveStates /\ Recovered(t, R, I)[i].state = "interrupted"
      \/ Recovered(t, R, I)[i] = t[i]
  BY DEF Recovered, Tables
<1> QED
  BY <1>1, <1>2 DEF Advanced, LiveStates
=============================================================================
