--------------------------- MODULE CodingRunProofs ---------------------------
(* What holds of the coding agent for every set of runs and every number of   *)
(* restarts: one agent works at a time, the rows say what the agent was told, *)
(* jobs follow their runs, and a cancel stops the run its author has seen.    *)
EXTENDS CodingRun, TLAPS

Driving == {"starting", "running", "stopping"}

(* No two rows keep the one place. *)
OneActive ==
  \A r, s \in Runs : run[r].state \in Active /\ run[s].state \in Active => r = s

(* A run has its job, and a job its first run. *)
Linked ==
  \A r \in Runs :
    /\ run[r].state # "absent" => job[run[r].job].state # "absent"
    /\ job[r].state # "absent" => run[r].state # "absent"

(* A thread drives an open run, and an open run has a thread. *)
Driven == \A r \in Runs : runner[r] # "none" <=> run[r].state \in Driving

(* What the rows and the process are while the thread is at a line. *)
Stage ==
  \A r \in Runs :
    /\ runner[r] \in {"due", "begun", "checked", "launching", "open", "saved"}
         => run[r].delivery = "prepared"
    /\ runner[r] = "launching" => run[r].mark = "launching"
    /\ runner[r] = "dispatched" => run[r].delivery = "sending" /\ prompts[r] = 0
    /\ runner[r] \in {"returned", "over"} => process[r] = "none"

(* What is known of a run before its prompt was accepted: it did not work out well, and *)
(* before its thread is there nothing was launched for it.                              *)
Vouched ==
  \A r \in Runs :
    /\ runner[r] = "due" => run[r].mark = "none"
    /\ run[r].state = "starting" => run[r].delivery # "accepted" /\ how[r] # "ok"

(* A process belongs to a run that keeps the place, and to a row from which a *)
(* later start can tell that there may be one.                                *)
ProcessHeld ==
  \A r \in Runs : process[r] # "none" =>
    /\ run[r].state \in Active
    /\ run[r].mark \in {"launching", "pid"} \/ run[r].delivery # "prepared"

(* A run that has not begun has no prompt. *)
Unsent == \A r \in Runs : run[r].state = "absent" => prompts[r] = 0

(* What was inspected is an earlier state of the job, or its present one. *)
ViewFence ==
  view.job \in Runs =>
    /\ job[view.job].state # "absent"
    /\ view.revision <= job[view.job].revision
    /\ view.revision = job[view.job].revision => view.run = job[view.job].current

IInv ==
  /\ TypeOK /\ OneActive /\ Linked /\ JobFollowsRun /\ Driven
  /\ Stage /\ Vouched /\ ProcessHeld /\ Unsent /\ DeliveryTold /\ ViewFence

-----------------------------------------------------------------------------
(* Every step keeps the types.                                                *)

Lines ==
  {"none", "due", "begun", "checked", "launching", "open", "saved", "sent",
   "accepted", "aborting", "dispatched", "turning", "returned", "over"}
ThreadTypes ==
  /\ runner \in [Runs -> Lines]
  /\ how \in [Runs -> {"none", "ok", "model_errors", "error"}]
  /\ process \in [Runs -> {"none", "idle", "working"}]
Deliveries == {"prepared", "sending", "accepted", "rejected", "unknown"}
Marks == {"none", "launching", "pid", "codex"}
RunRows == [job : Runs, state : RunStates, delivery : Deliveries, mark : Marks]
JobRows == [state : JobStates, revision : Nat, current : Runs]
OtherTypes ==
  /\ messages \subseteq Runs
  /\ view \in [job : Runs \cup {NoRun}, revision : Nat, run : Runs \cup {NoRun}]
  /\ prompts \in [Runs -> Nat]
  /\ restarts \in Nat

(* The parts of the type invariant, for steps that disturb one of them. *)
LEMMA TypeParts ==
  /\ TypeOK <=> /\ run \in [Runs -> RunRows] /\ job \in [Runs -> JobRows]
                /\ ThreadTypes /\ OtherTypes
  /\ TypeOK' <=> /\ run' \in [Runs -> RunRows] /\ job' \in [Runs -> JobRows]
                 /\ ThreadTypes' /\ OtherTypes'
  BY DEF TypeOK, RunRows, JobRows, ThreadTypes, OtherTypes, Lines, Deliveries, Marks

(* A row that is written in two columns stays a row. *)
LEMMA RunRow ==
  ASSUME NEW row \in RunRows, NEW d \in Deliveries, NEW st \in RunStates
  PROVE  [row EXCEPT !.delivery = d, !.state = st] \in RunRows
  BY DEF RunRows

LEMMA JobRow ==
  ASSUME NEW row \in JobRows, NEW st \in JobStates
  PROVE  [row EXCEPT !.state = st, !.revision = @ + 1] \in JobRows
<1>1. row.revision + 1 \in Nat
  BY DEF JobRows
<1> QED
  BY <1>1 DEF JobRows

(* reconcile writes open rows only. It takes no job, mark or sent prompt away, and *)
(* keeps the place for a run whose process may live.                               *)
LEMMA ReconciledRow ==
  ASSUME run \in [Runs -> RunRows], NEW r \in Runs, NEW occupied \in BOOLEAN
  PROVE  /\ Reconciled(r, occupied) \in RunRows
         /\ Reconciled(r, occupied).job = run[r].job
         /\ Reconciled(r, occupied).mark = run[r].mark
         /\ Reconciled(r, occupied).delivery \in {"prepared", "rejected"}
              <=> run[r].delivery \in {"prepared", "rejected"}
         /\ run[r].delivery # "prepared" => Reconciled(r, occupied).delivery # "prepared"
         /\ run[r].state \in Active =>
              Reconciled(r, occupied).state \in {"outcome_unknown", "interrupted"}
         /\ run[r].state \notin Active => Reconciled(r, occupied) = run[r]
         /\ run[r].state \in Active /\ occupied
              /\ (run[r].mark \in {"launching", "pid"} \/ run[r].delivery # "prepared")
                => Reconciled(r, occupied).state = "outcome_unknown"
<1>1. run[r] \in RunRows
  OBVIOUS
<1> QED
  BY <1>1 DEF RunRows, Reconciled, Unresolved, Deliveries, RunStates, Active, Closed

LEMMA DieRows ==
  ASSUME TypeOK, Die, NEW r \in Runs
  PROVE  /\ run'[r] \in RunRows
         /\ run'[r].job = run[r].job
         /\ run'[r].mark = run[r].mark
         /\ run'[r].delivery \in {"prepared", "rejected"}
              <=> run[r].delivery \in {"prepared", "rejected"}
         /\ run[r].delivery # "prepared" => run'[r].delivery # "prepared"
         /\ run[r].state \in Active => run'[r].state \in {"outcome_unknown", "interrupted"}
         /\ run[r].state \notin Active => run'[r] = run[r]
         /\ process'[r] # "none" => process[r] # "none"
         /\ run[r].state \in Active /\ process'[r] # "none"
              /\ (run[r].mark \in {"launching", "pid"} \/ run[r].delivery # "prepared")
                => run'[r].state = "outcome_unknown"
<1>1. PICK alive \in SUBSET Runs, reused \in SUBSET Runs :
        /\ process' = [s \in Runs |-> IF s \in alive THEN process[s] ELSE "none"]
        /\ run' = [s \in Runs |-> Reconciled(s, s \in alive \cup reused)]
  BY DEF Die
<1> DEFINE occupied == r \in alive \cup reused
<1>2. occupied \in BOOLEAN /\ run'[r] = Reconciled(r, occupied)
  BY <1>1
<1>3. process'[r] # "none" => occupied /\ process[r] # "none"
  BY <1>1
<1>4. run \in [Runs -> RunRows]
  BY TypeParts
<1> HIDE DEF occupied
<1> QED
  BY <1>2, <1>3, <1>4, ReconciledRow

(* The end of a thread's work is one of three. *)
LEMMA OverTypes ==
  ASSUME TypeOK, NEW r \in Runs, NEW result \in {"ok", "model_errors", "error"}, Over(r, result)
  PROVE  ThreadTypes'
  BY DEF TypeOK, Over, Goto, ThreadTypes, Lines

(* The steps with more than one write to a row. *)
LEMMA TypesSendBreaks ==
  ASSUME TypeOK, NEW r \in Runs, SendBreaks(r)
  PROVE  TypeOK'
<1> USE TypeParts
<1>1. run' \in [Runs -> RunRows]
  BY DEF SendBreaks, RunRows, Deliveries
<1>2. ThreadTypes'
  BY OverTypes DEF SendBreaks
<1> QED
  BY <1>1, <1>2 DEF SendBreaks, OtherTypes

LEMMA TypesAccepts ==
  ASSUME TypeOK, NEW r \in Runs, Accepts(r)
  PROVE  TypeOK'
<1> USE TypeParts
<1>1. run' \in [Runs -> RunRows]
  <2> DEFINE row == [run[r] EXCEPT !.delivery = "accepted", !.state = Running(run[r].state)]
  <2>1. Running(run[r].state) \in RunStates
    BY DEF Running, RunRows, RunStates, Active
  <2>2. row \in RunRows
    BY <2>1, RunRow DEF Deliveries
  <2>3. run' = [run EXCEPT ![r] = row]
    BY DEF Accepts, RunRows
  <2> HIDE DEF row
  <2> QED
    BY <2>2, <2>3
<1>2. job' \in [Runs -> JobRows]
  <2>1. run[r].job \in Runs
    BY DEF RunRows
  <2> QED
    BY <2>1 DEF Accepts, JobRows, JobStates
<1>3. ThreadTypes'
  BY DEF Accepts, Goto, ThreadTypes, Lines
<1> QED
  BY <1>1, <1>2, <1>3 DEF Accepts, OtherTypes

LEMMA TypesStops ==
  ASSUME TypeOK, NEW r \in Runs, Stops(r)
  PROVE  TypeOK'
<1> USE TypeParts
<1>1. run' \in [Runs -> RunRows]
  BY DEF Stops, StopSeen, Marked, RunRows, RunStates, Active
<1>2. job' \in [Runs -> JobRows]
  BY DEF Stops, StopSeen, Marked, JobRows, JobStates
<1>3. ThreadTypes'
  <2>1. CASE Over(r, "error")
    BY <2>1, OverTypes
  <2>2. CASE Goto(r, "aborting") /\ UNCHANGED <<how, process>>
    BY <2>2 DEF Goto, ThreadTypes, Lines
  <2> QED
    BY <2>1, <2>2 DEF Stops
<1> QED
  BY <1>1, <1>2, <1>3 DEF Stops, OtherTypes

LEMMA TypesCodexSends ==
  ASSUME TypeOK, NEW r \in Runs, CodexSends(r)
  PROVE  TypeOK'
<1> USE TypeParts
<1>1. run' \in [Runs -> RunRows]
  BY DEF CodexSends, RunRows, Deliveries, Marks
<1>2. ThreadTypes'
  <2>1. CASE Over(r, "error")
    BY <2>1, OverTypes
  <2>2. CASE Goto(r, "dispatched") /\ UNCHANGED <<how, process>>
    BY <2>2 DEF Goto, ThreadTypes, Lines
  <2> QED
    BY <2>1, <2>2 DEF CodexSends
<1> QED
  BY <1>1, <1>2 DEF CodexSends, OtherTypes

LEMMA TypesCodexAccepts ==
  ASSUME TypeOK, NEW r \in Runs, CodexAccepts(r)
  PROVE  TypeOK'
<1> USE TypeParts
<1>1. run' \in [Runs -> RunRows]
  <2> DEFINE row == [run[r] EXCEPT !.delivery = "accepted", !.state = Running(run[r].state)]
  <2>1. Running(run[r].state) \in RunStates
    BY DEF Running, RunRows, RunStates, Active
  <2>2. row \in RunRows
    BY <2>1, RunRow DEF Deliveries
  <2>3. run' = [run EXCEPT ![r] = row]
    BY DEF CodexAccepts, RunRows
  <2> HIDE DEF row
  <2> QED
    BY <2>2, <2>3
<1>2. ThreadTypes'
  BY OverTypes DEF CodexAccepts
<1> QED
  BY <1>1, <1>2 DEF CodexAccepts, OtherTypes

LEMMA TypesDie ==
  ASSUME TypeOK, Die
  PROVE  TypeOK'
<1> USE TypeParts
<1>1. /\ \A j \in Runs : run'[j] \in RunRows
      /\ \A j \in Runs : run[j].state \in Active
           => run'[j].state \in {"outcome_unknown", "interrupted"}
  BY DieRows
<1>2. run' \in [Runs -> RunRows]
  BY <1>1 DEF Die
<1>3. job' \in [Runs -> JobRows]
  <2>1. ASSUME NEW j \in Runs PROVE job'[j] \in JobRows
    <3>1. job[j] \in JobRows /\ job[j].current \in Runs
      BY DEF JobRows
    <3>2. CASE job[j].state # "absent" /\ run[job[j].current].state \in Active
      <4>1. run'[job[j].current].state \in {"outcome_unknown", "interrupted"}
        BY <1>1, <3>1, <3>2
      <4>2. run'[job[j].current].state \in JobStates
        BY <4>1 DEF JobStates, Closed
      <4>3. job'[j] = [job[j] EXCEPT !.state = run'[job[j].current].state, !.revision = @ + 1]
        BY <3>2 DEF Die
      <4> QED
        BY <3>1, <4>2, <4>3, JobRow
    <3>3. CASE ~(job[j].state # "absent" /\ run[job[j].current].state \in Active)
      BY <3>1, <3>3 DEF Die
    <3> QED
      BY <3>2, <3>3
  <2> QED
    BY <2>1 DEF Die
<1>4. ThreadTypes'
  BY DEF Die, ThreadTypes, Lines
<1>5. OtherTypes'
  <2>1. restarts' = restarts + 1 /\ UNCHANGED <<messages, view, prompts>>
    BY DEF Die
  <2> QED
    BY <2>1 DEF OtherTypes
<1> QED
  BY <1>2, <1>3, <1>4, <1>5

(* A step keeps every row within the values of its schema. *)
LEMMA TypeStep ==
  ASSUME TypeOK, Next
  PROVE  TypeOK'
<1> USE DEF TypeOK, tables, threads, Active, Closed, RunStates, JobStates
<1>1. ASSUME NEW r \in Runs, Start(r) PROVE TypeOK'
  BY <1>1 DEF Start, NewRun
<1>2. ASSUME NEW r \in Runs, Inspect(r) PROVE TypeOK'
  BY <1>2 DEF Inspect
<1>3. ASSUME NEW r \in Runs, NEW j \in Runs, Continue(r, j) PROVE TypeOK'
  BY <1>3 DEF Continue, NewRun, QueueContinuation
<1>4. ASSUME NEW r \in Runs, Cancel(r) PROVE TypeOK'
  BY <1>4 DEF Cancel
<1>5. ASSUME NEW r \in Runs, Forget(r) PROVE TypeOK'
  BY <1>5 DEF Forget
<1>6. ASSUME NEW r \in Runs, Spawn(r) PROVE TypeOK'
  BY <1>6 DEF Spawn, Goto, At
<1>7. ASSUME NEW r \in Runs, LooksOnce(r) PROVE TypeOK'
  BY <1>7 DEF LooksOnce, Goto, At
<1>8. ASSUME NEW r \in Runs, Launching(r) PROVE TypeOK'
  BY <1>8 DEF Launching, Goto, At
<1>9. ASSUME NEW r \in Runs, Opens(r) PROVE TypeOK'
  BY <1>9 DEF Opens, Goto, At
<1>10. ASSUME NEW r \in Runs, SavesPid(r) PROVE TypeOK'
  BY <1>10 DEF SavesPid, Goto, At
<1>11. ASSUME NEW r \in Runs, Sends(r) PROVE TypeOK'
  BY <1>11 DEF Sends, Goto, At, Prompted
<1>12. ASSUME NEW r \in Runs, SendBreaks(r) PROVE TypeOK'
  BY <1>12, TypesSendBreaks
<1>13. ASSUME NEW r \in Runs, SendRefused(r) PROVE TypeOK'
  BY <1>13 DEF SendRefused, Goto, At, Over
<1>14. ASSUME NEW r \in Runs, Accepts(r) PROVE TypeOK'
  BY <1>14, TypesAccepts
<1>15. ASSUME NEW r \in Runs, Stops(r) PROVE TypeOK'
  BY <1>15, TypesStops
<1>16. ASSUME NEW r \in Runs, Deadline(r) PROVE TypeOK'
  BY <1>16 DEF Deadline, Goto
<1>17. ASSUME NEW r \in Runs, Settles(r) PROVE TypeOK'
  BY <1>17 DEF Settles, Goto, Over
<1>18. ASSUME NEW r \in Runs, Fails(r) PROVE TypeOK'
  BY <1>18 DEF Fails, Goto, Over
<1>19. ASSUME NEW r \in Runs, CodexSends(r) PROVE TypeOK'
  BY <1>19, TypesCodexSends
<1>20. ASSUME NEW r \in Runs, CodexTurns(r) PROVE TypeOK'
  BY <1>20 DEF CodexTurns, Goto, At
<1>21. ASSUME NEW r \in Runs, CodexReturns(r) PROVE TypeOK'
  BY <1>21 DEF CodexReturns, Goto, At
<1>22. ASSUME NEW r \in Runs, CodexAccepts(r) PROVE TypeOK'
  BY <1>22, TypesCodexAccepts
<1>23. ASSUME NEW r \in Runs, Closes(r) PROVE TypeOK'
  BY <1>23 DEF Closes, Goto, At, Verdict
<1>24. ASSUME NEW r \in Runs, OrphanEnds(r) PROVE TypeOK'
  BY <1>24 DEF OrphanEnds, At
<1>25. ASSUME Die PROVE TypeOK'
  BY <1>25, TypesDie
<1> QED
  BY <1>1, <1>2, <1>3, <1>4, <1>5, <1>6, <1>7, <1>8, <1>9, <1>10, <1>11, <1>12, <1>13, <1>14, <1>15, <1>16, <1>17, <1>18, <1>19, <1>20, <1>21, <1>22, <1>23, <1>24, <1>25 DEF Next, Tools, Thread

-----------------------------------------------------------------------------
(* One lemma for each part of the invariant.                               *)

(* The one place: a run gets it when nobody has it. *)
LEMMA PlaceStep ==
  ASSUME TypeOK, OneActive, JobFollowsRun, Driven, Next
  PROVE  OneActive'
<1> USE DEF OneActive, Active, RunRows, JobRows, tables, threads
<1>0. run \in [Runs -> RunRows] /\ job \in [Runs -> JobRows]
  BY TypeParts
<1>1. ASSUME NEW r \in Runs, Start(r) PROVE OneActive'
  BY <1>0, <1>1 DEF Start, NewRun, Busy
<1>2. ASSUME NEW r \in Runs, Inspect(r) PROVE OneActive'
  BY <1>0, <1>2 DEF Inspect
<1>3. ASSUME NEW r \in Runs, NEW j \in Runs, Continue(r, j) PROVE OneActive'
  BY <1>0, <1>3 DEF Continue, NewRun, Busy
<1>4. ASSUME NEW r \in Runs, Cancel(r) PROVE OneActive'
  BY <1>0, <1>4 DEF Cancel, JobFollowsRun
<1>5. ASSUME NEW r \in Runs, Forget(r) PROVE OneActive'
  BY <1>0, <1>5 DEF Forget
<1>6. ASSUME NEW r \in Runs, Spawn(r) PROVE OneActive'
  BY <1>0, <1>6 DEF Spawn
<1>7. ASSUME NEW r \in Runs, LooksOnce(r) PROVE OneActive'
  BY <1>0, <1>7 DEF LooksOnce
<1>8. ASSUME NEW r \in Runs, Launching(r) PROVE OneActive'
  BY <1>0, <1>8 DEF Launching
<1>9. ASSUME NEW r \in Runs, Opens(r) PROVE OneActive'
  BY <1>0, <1>9 DEF Opens
<1>10. ASSUME NEW r \in Runs, SavesPid(r) PROVE OneActive'
  BY <1>0, <1>10 DEF SavesPid
<1>11. ASSUME NEW r \in Runs, Sends(r) PROVE OneActive'
  BY <1>0, <1>11 DEF Sends, Prompted
<1>12. ASSUME NEW r \in Runs, SendBreaks(r) PROVE OneActive'
  BY <1>0, <1>12 DEF SendBreaks
<1>13. ASSUME NEW r \in Runs, SendRefused(r) PROVE OneActive'
  BY <1>0, <1>13 DEF SendRefused
<1>14. ASSUME NEW r \in Runs, Accepts(r) PROVE OneActive'
  BY <1>0, <1>14 DEF Accepts, At, Driven, Driving, Running
<1>15. ASSUME NEW r \in Runs, Stops(r) PROVE OneActive'
  BY <1>0, <1>15 DEF Stops, StopSeen, Marked, Driven, Driving
<1>16. ASSUME NEW r \in Runs, Deadline(r) PROVE OneActive'
  BY <1>0, <1>16 DEF Deadline
<1>17. ASSUME NEW r \in Runs, Settles(r) PROVE OneActive'
  BY <1>0, <1>17 DEF Settles
<1>18. ASSUME NEW r \in Runs, Fails(r) PROVE OneActive'
  BY <1>0, <1>18 DEF Fails
<1>19. ASSUME NEW r \in Runs, CodexSends(r) PROVE OneActive'
  BY <1>0, <1>19 DEF CodexSends
<1>20. ASSUME NEW r \in Runs, CodexTurns(r) PROVE OneActive'
  BY <1>0, <1>20 DEF CodexTurns
<1>21. ASSUME NEW r \in Runs, CodexReturns(r) PROVE OneActive'
  BY <1>0, <1>21 DEF CodexReturns
<1>22. ASSUME NEW r \in Runs, CodexAccepts(r) PROVE OneActive'
  BY <1>0, <1>22 DEF CodexAccepts, At, Driven, Driving, Running
<1>23. ASSUME NEW r \in Runs, Closes(r) PROVE OneActive'
  BY <1>0, <1>23 DEF Closes, At, Verdict, Driven, Driving
<1>24. ASSUME NEW r \in Runs, OrphanEnds(r) PROVE OneActive'
  BY <1>0, <1>24 DEF OrphanEnds
<1>25. ASSUME Die PROVE OneActive'
  BY DieRows, <1>25
<1> QED
  BY <1>1, <1>2, <1>3, <1>4, <1>5, <1>6, <1>7, <1>8, <1>9, <1>10, <1>11, <1>12, <1>13, <1>14, <1>15, <1>16, <1>17, <1>18, <1>19, <1>20, <1>21, <1>22, <1>23, <1>24, <1>25 DEF Next, Tools, Thread

(* A thread drives an open run until it closes it. *)
LEMMA DrivenStep ==
  ASSUME TypeOK, JobFollowsRun, Driven, Next
  PROVE  Driven'
<1> USE DEF Driven, Driving, RunRows, JobRows, ThreadTypes, tables, threads
<1>0. run \in [Runs -> RunRows] /\ job \in [Runs -> JobRows] /\ ThreadTypes
  BY TypeParts
<1>1. ASSUME NEW r \in Runs, Start(r) PROVE Driven'
  BY <1>0, <1>1 DEF Start, NewRun
<1>2. ASSUME NEW r \in Runs, Inspect(r) PROVE Driven'
  BY <1>0, <1>2 DEF Inspect
<1>3. ASSUME NEW r \in Runs, NEW j \in Runs, Continue(r, j) PROVE Driven'
  BY <1>0, <1>3 DEF Continue, NewRun, QueueContinuation
<1>4. ASSUME NEW r \in Runs, Cancel(r) PROVE Driven'
  BY <1>0, <1>4 DEF Cancel, JobFollowsRun, Closed
<1>5. ASSUME NEW r \in Runs, Forget(r) PROVE Driven'
  BY <1>0, <1>5 DEF Forget
<1>6. ASSUME NEW r \in Runs, Spawn(r) PROVE Driven'
  BY <1>0, <1>6 DEF Spawn, Goto, At
<1>7. ASSUME NEW r \in Runs, LooksOnce(r) PROVE Driven'
  BY <1>0, <1>7 DEF LooksOnce, Goto, At
<1>8. ASSUME NEW r \in Runs, Launching(r) PROVE Driven'
  BY <1>0, <1>8 DEF Launching, Goto, At
<1>9. ASSUME NEW r \in Runs, Opens(r) PROVE Driven'
  BY <1>0, <1>9 DEF Opens, Goto, At
<1>10. ASSUME NEW r \in Runs, SavesPid(r) PROVE Driven'
  BY <1>0, <1>10 DEF SavesPid, Goto, At
<1>11. ASSUME NEW r \in Runs, Sends(r) PROVE Driven'
  BY <1>0, <1>11 DEF Sends, Goto, At, Prompted
<1>12. ASSUME NEW r \in Runs, SendBreaks(r) PROVE Driven'
  BY <1>0, <1>12 DEF SendBreaks, Goto, At, Over
<1>13. ASSUME NEW r \in Runs, SendRefused(r) PROVE Driven'
  BY <1>0, <1>13 DEF SendRefused, Goto, At, Over
<1>14. ASSUME NEW r \in Runs, Accepts(r) PROVE Driven'
  BY <1>0, <1>14 DEF Accepts, Goto, At, Running
<1>15. ASSUME NEW r \in Runs, Stops(r) PROVE Driven'
  BY <1>0, <1>15 DEF Stops, Goto, Over, StopSeen, Marked
<1>16. ASSUME NEW r \in Runs, Deadline(r) PROVE Driven'
  BY <1>0, <1>16 DEF Deadline, Goto
<1>17. ASSUME NEW r \in Runs, Settles(r) PROVE Driven'
  BY <1>0, <1>17 DEF Settles, Goto, Over
<1>18. ASSUME NEW r \in Runs, Fails(r) PROVE Driven'
  BY <1>0, <1>18 DEF Fails, Goto, Over
<1>19. ASSUME NEW r \in Runs, CodexSends(r) PROVE Driven'
  BY <1>0, <1>19 DEF CodexSends, Goto, At, Over
<1>20. ASSUME NEW r \in Runs, CodexTurns(r) PROVE Driven'
  BY <1>0, <1>20 DEF CodexTurns, Goto, At
<1>21. ASSUME NEW r \in Runs, CodexReturns(r) PROVE Driven'
  BY <1>0, <1>21 DEF CodexReturns, Goto, At
<1>22. ASSUME NEW r \in Runs, CodexAccepts(r) PROVE Driven'
  BY <1>0, <1>22 DEF CodexAccepts, Goto, At, Over, Running
<1>23. ASSUME NEW r \in Runs, Closes(r) PROVE Driven'
  BY <1>0, <1>23 DEF Closes, Goto, At, Verdict
<1>24. ASSUME NEW r \in Runs, OrphanEnds(r) PROVE Driven'
  BY <1>0, <1>24 DEF OrphanEnds, At
<1>25. ASSUME Die PROVE Driven'
  BY <1>25, DieRows DEF Die, Active
<1> QED
  BY <1>1, <1>2, <1>3, <1>4, <1>5, <1>6, <1>7, <1>8, <1>9, <1>10, <1>11, <1>12, <1>13, <1>14, <1>15, <1>16, <1>17, <1>18, <1>19, <1>20, <1>21, <1>22, <1>23, <1>24, <1>25 DEF Next, Tools, Thread

(* Nothing is launched before the thread is there, and a run ends well only when its prompt *)
(* was accepted.                                                                           *)
LEMMA VouchedStep ==
  ASSUME TypeOK, JobFollowsRun, Driven, Vouched, Next
  PROVE  Vouched'
<1> USE DEF Vouched, RunRows, JobRows, ThreadTypes, tables, threads
<1>0. run \in [Runs -> RunRows] /\ job \in [Runs -> JobRows] /\ ThreadTypes
  BY TypeParts
<1>1. ASSUME NEW r \in Runs, Start(r) PROVE Vouched'
  BY <1>0, <1>1 DEF Start, NewRun
<1>2. ASSUME NEW r \in Runs, Inspect(r) PROVE Vouched'
  BY <1>0, <1>2 DEF Inspect
<1>3. ASSUME NEW r \in Runs, NEW j \in Runs, Continue(r, j) PROVE Vouched'
  BY <1>0, <1>3 DEF Continue, NewRun, QueueContinuation
<1>4. ASSUME NEW r \in Runs, Cancel(r) PROVE Vouched'
  BY <1>0, <1>4 DEF Cancel, JobFollowsRun
<1>5. ASSUME NEW r \in Runs, Forget(r) PROVE Vouched'
  BY <1>0, <1>5 DEF Forget
<1>6. ASSUME NEW r \in Runs, Spawn(r) PROVE Vouched'
  BY <1>0, <1>6 DEF Spawn, Goto, At
<1>7. ASSUME NEW r \in Runs, LooksOnce(r) PROVE Vouched'
  BY <1>0, <1>7 DEF LooksOnce, Goto, At
<1>8. ASSUME NEW r \in Runs, Launching(r) PROVE Vouched'
  BY <1>0, <1>8 DEF Launching, Goto, At
<1>9. ASSUME NEW r \in Runs, Opens(r) PROVE Vouched'
  BY <1>0, <1>9 DEF Opens, Goto, At
<1>10. ASSUME NEW r \in Runs, SavesPid(r) PROVE Vouched'
  BY <1>0, <1>10 DEF SavesPid, Goto, At
<1>11. ASSUME NEW r \in Runs, Sends(r) PROVE Vouched'
  BY <1>0, <1>11 DEF Sends, Goto, At, Prompted
<1>12. ASSUME NEW r \in Runs, SendBreaks(r) PROVE Vouched'
  BY <1>0, <1>12 DEF SendBreaks, Goto, At, Over
<1>13. ASSUME NEW r \in Runs, SendRefused(r) PROVE Vouched'
  BY <1>0, <1>13 DEF SendRefused, Goto, At, Over
<1>14. ASSUME NEW r \in Runs, Accepts(r) PROVE Vouched'
  BY <1>0, <1>14 DEF Accepts, Goto, At, Running
<1>15. ASSUME NEW r \in Runs, Stops(r) PROVE Vouched'
  BY <1>0, <1>15 DEF Stops, Goto, Over, StopSeen, Marked
<1>16. ASSUME NEW r \in Runs, Deadline(r) PROVE Vouched'
  BY <1>0, <1>16 DEF Deadline, Goto
<1>17. ASSUME NEW r \in Runs, Settles(r) PROVE Vouched'
  BY <1>0, <1>17 DEF Settles, Goto, Over
<1>18. ASSUME NEW r \in Runs, Fails(r) PROVE Vouched'
  BY <1>0, <1>18 DEF Fails, Goto, Over
<1>19. ASSUME NEW r \in Runs, CodexSends(r) PROVE Vouched'
  BY <1>0, <1>19 DEF CodexSends, Goto, At, Over
<1>20. ASSUME NEW r \in Runs, CodexTurns(r) PROVE Vouched'
  BY <1>0, <1>20 DEF CodexTurns, Goto, At
<1>21. ASSUME NEW r \in Runs, CodexReturns(r) PROVE Vouched'
  BY <1>0, <1>21 DEF CodexReturns, Goto, At
<1>22. ASSUME NEW r \in Runs, CodexAccepts(r) PROVE Vouched'
  BY <1>0, <1>22 DEF CodexAccepts, Goto, At, Over, Running
<1>23. ASSUME NEW r \in Runs, Closes(r) PROVE Vouched'
  BY <1>0, <1>23 DEF Closes, Goto, At, Verdict
<1>24. ASSUME NEW r \in Runs, OrphanEnds(r) PROVE Vouched'
  BY <1>0, <1>24 DEF OrphanEnds, At
<1>25. ASSUME Die PROVE Vouched'
  BY <1>25, DieRows DEF Die, Active
<1> QED
  BY <1>1, <1>2, <1>3, <1>4, <1>5, <1>6, <1>7, <1>8, <1>9, <1>10, <1>11, <1>12, <1>13, <1>14, <1>15, <1>16, <1>17, <1>18, <1>19, <1>20, <1>21, <1>22, <1>23, <1>24, <1>25 DEF Next, Tools, Thread

(* A prompt is given to a run that has begun. *)
LEMMA UnsentStep ==
  ASSUME TypeOK, JobFollowsRun, Driven, Unsent, Next
  PROVE  Unsent'
<1> USE DEF Unsent, RunRows, JobRows, tables, threads
<1>0. run \in [Runs -> RunRows] /\ job \in [Runs -> JobRows] /\ prompts \in [Runs -> Nat]
  BY TypeParts DEF OtherTypes
<1>1. ASSUME NEW r \in Runs, Start(r) PROVE Unsent'
  BY <1>0, <1>1 DEF Start, NewRun
<1>2. ASSUME NEW r \in Runs, Inspect(r) PROVE Unsent'
  BY <1>0, <1>2 DEF Inspect
<1>3. ASSUME NEW r \in Runs, NEW j \in Runs, Continue(r, j) PROVE Unsent'
  BY <1>0, <1>3 DEF Continue, NewRun, QueueContinuation
<1>4. ASSUME NEW r \in Runs, Cancel(r) PROVE Unsent'
  BY <1>0, <1>4 DEF Cancel, JobFollowsRun, Closed
<1>5. ASSUME NEW r \in Runs, Forget(r) PROVE Unsent'
  BY <1>0, <1>5 DEF Forget
<1>6. ASSUME NEW r \in Runs, Spawn(r) PROVE Unsent'
  BY <1>0, <1>6 DEF Spawn
<1>7. ASSUME NEW r \in Runs, LooksOnce(r) PROVE Unsent'
  BY <1>0, <1>7 DEF LooksOnce
<1>8. ASSUME NEW r \in Runs, Launching(r) PROVE Unsent'
  BY <1>0, <1>8 DEF Launching
<1>9. ASSUME NEW r \in Runs, Opens(r) PROVE Unsent'
  BY <1>0, <1>9 DEF Opens
<1>10. ASSUME NEW r \in Runs, SavesPid(r) PROVE Unsent'
  BY <1>0, <1>10 DEF SavesPid
<1>11. ASSUME NEW r \in Runs, Sends(r) PROVE Unsent'
  BY <1>0, <1>11 DEF Sends, At, Driven, Driving, Running, Prompted
<1>12. ASSUME NEW r \in Runs, SendBreaks(r) PROVE Unsent'
  BY <1>0, <1>12 DEF SendBreaks
<1>13. ASSUME NEW r \in Runs, SendRefused(r) PROVE Unsent'
  BY <1>0, <1>13 DEF SendRefused
<1>14. ASSUME NEW r \in Runs, Accepts(r) PROVE Unsent'
  BY <1>0, <1>14 DEF Accepts, At, Driven, Driving, Running
<1>15. ASSUME NEW r \in Runs, Stops(r) PROVE Unsent'
  BY <1>0, <1>15 DEF Stops, StopSeen, Marked
<1>16. ASSUME NEW r \in Runs, Deadline(r) PROVE Unsent'
  BY <1>0, <1>16 DEF Deadline
<1>17. ASSUME NEW r \in Runs, Settles(r) PROVE Unsent'
  BY <1>0, <1>17 DEF Settles
<1>18. ASSUME NEW r \in Runs, Fails(r) PROVE Unsent'
  BY <1>0, <1>18 DEF Fails
<1>19. ASSUME NEW r \in Runs, CodexSends(r) PROVE Unsent'
<2>1. CASE Wanted(run[r].job) /\ run[r].state = "starting"
  BY <1>0, <1>19, <2>1 DEF CodexSends, At, Over, Goto
<2>2. CASE ~(Wanted(run[r].job) /\ run[r].state = "starting")
  BY <1>0, <1>19, <2>2 DEF CodexSends, At, Over, Goto
<2> QED
  BY <2>1, <2>2
<1>20. ASSUME NEW r \in Runs, CodexTurns(r) PROVE Unsent'
  BY <1>0, <1>20 DEF CodexTurns, At, Driven, Driving, Running
<1>21. ASSUME NEW r \in Runs, CodexReturns(r) PROVE Unsent'
  BY <1>0, <1>21 DEF CodexReturns
<1>22. ASSUME NEW r \in Runs, CodexAccepts(r) PROVE Unsent'
  BY <1>0, <1>22 DEF CodexAccepts, At, Driven, Driving, Running
<1>23. ASSUME NEW r \in Runs, Closes(r) PROVE Unsent'
  BY <1>0, <1>23 DEF Closes, Verdict, At, Driven, Driving
<1>24. ASSUME NEW r \in Runs, OrphanEnds(r) PROVE Unsent'
  BY <1>0, <1>24 DEF OrphanEnds
<1>25. ASSUME Die PROVE Unsent'
<2>1. prompts' = prompts
  BY <1>25 DEF Die
<2> QED
  BY <2>1, <1>25, DieRows DEF Active
<1> QED
  BY <1>1, <1>2, <1>3, <1>4, <1>5, <1>6, <1>7, <1>8, <1>9, <1>10, <1>11, <1>12, <1>13, <1>14, <1>15, <1>16, <1>17, <1>18, <1>19, <1>20, <1>21, <1>22, <1>23, <1>24, <1>25 DEF Next, Tools, Thread

(* Runs and jobs are made together. *)
LEMMA LinkedStep ==
  ASSUME TypeOK, JobFollowsRun, Linked, Driven, Next
  PROVE  Linked'
<1> USE DEF Linked, RunRows, JobRows, tables, threads
<1>0. /\ run \in [Runs -> RunRows] /\ job \in [Runs -> JobRows]
      /\ ThreadTypes /\ prompts \in [Runs -> Nat]
  BY TypeParts DEF OtherTypes
<1>1. ASSUME NEW r \in Runs, Start(r) PROVE Linked'
  BY <1>0, <1>1 DEF Start, NewRun
<1>2. ASSUME NEW r \in Runs, Inspect(r) PROVE Linked'
  BY <1>0, <1>2 DEF Inspect
<1>3. ASSUME NEW r \in Runs, NEW j \in Runs, Continue(r, j) PROVE Linked'
  BY <1>0, <1>3 DEF Continue, NewRun, QueueContinuation
<1>4. ASSUME NEW r \in Runs, Cancel(r) PROVE Linked'
  BY <1>0, <1>4 DEF Cancel, JobFollowsRun, Closed
<1>5. ASSUME NEW r \in Runs, Forget(r) PROVE Linked'
  BY <1>0, <1>5 DEF Forget
<1>6. ASSUME NEW r \in Runs, Spawn(r) PROVE Linked'
  BY <1>0, <1>6 DEF Spawn
<1>7. ASSUME NEW r \in Runs, LooksOnce(r) PROVE Linked'
  BY <1>0, <1>7 DEF LooksOnce
<1>8. ASSUME NEW r \in Runs, Launching(r) PROVE Linked'
  BY <1>0, <1>8 DEF Launching
<1>9. ASSUME NEW r \in Runs, Opens(r) PROVE Linked'
  BY <1>0, <1>9 DEF Opens
<1>10. ASSUME NEW r \in Runs, SavesPid(r) PROVE Linked'
  BY <1>0, <1>10 DEF SavesPid
<1>11. ASSUME NEW r \in Runs, Sends(r) PROVE Linked'
  BY <1>0, <1>11 DEF Sends, Prompted
<1>12. ASSUME NEW r \in Runs, SendBreaks(r) PROVE Linked'
  BY <1>0, <1>12 DEF SendBreaks
<1>13. ASSUME NEW r \in Runs, SendRefused(r) PROVE Linked'
  BY <1>0, <1>13 DEF SendRefused
<1>14. ASSUME NEW r \in Runs, Accepts(r) PROVE Linked'
  BY <1>0, <1>14 DEF Accepts, At, Driven, Driving, Running
<1>15. ASSUME NEW r \in Runs, Stops(r) PROVE Linked'
  <2>1. run[r].state \in Driving
    BY <1>15 DEF Stops, Driven
  <2>2. CASE Marked(r)
    <3>1. \A s \in Runs : /\ run'[s].job = run[s].job
                          /\ run'[s].state = "absent" <=> run[s].state = "absent"
                          /\ job'[s].state = "absent" <=> job[s].state = "absent"
      BY <1>0, <2>1, <2>2 DEF Marked, Driving
    <3>2. \A s \in Runs : run[s].job \in Runs
      BY <1>0
    <3> QED BY <3>1, <3>2
  <2>3. CASE UNCHANGED <<run, job>>
    BY <2>3
  <2> QED BY <1>15, <2>2, <2>3 DEF Stops, StopSeen
<1>16. ASSUME NEW r \in Runs, Deadline(r) PROVE Linked'
  BY <1>0, <1>16 DEF Deadline
<1>17. ASSUME NEW r \in Runs, Settles(r) PROVE Linked'
  BY <1>0, <1>17 DEF Settles
<1>18. ASSUME NEW r \in Runs, Fails(r) PROVE Linked'
  BY <1>0, <1>18 DEF Fails
<1>19. ASSUME NEW r \in Runs, CodexSends(r) PROVE Linked'
<2>1. CASE Wanted(run[r].job) /\ run[r].state = "starting"
  BY <1>0, <1>19, <2>1 DEF CodexSends, At, Over, Goto
<2>2. CASE ~(Wanted(run[r].job) /\ run[r].state = "starting")
  BY <1>0, <1>19, <2>2 DEF CodexSends, At, Over, Goto
<2> QED
  BY <2>1, <2>2
<1>20. ASSUME NEW r \in Runs, CodexTurns(r) PROVE Linked'
  BY <1>0, <1>20 DEF CodexTurns
<1>21. ASSUME NEW r \in Runs, CodexReturns(r) PROVE Linked'
  BY <1>0, <1>21 DEF CodexReturns
<1>22. ASSUME NEW r \in Runs, CodexAccepts(r) PROVE Linked'
  BY <1>0, <1>22 DEF CodexAccepts, At, Driven, Driving, Running
<1>23. ASSUME NEW r \in Runs, Closes(r) PROVE Linked'
  BY <1>0, <1>23 DEF Closes, Verdict, At, Driven, Driving
<1>24. ASSUME NEW r \in Runs, OrphanEnds(r) PROVE Linked'
  BY <1>0, <1>24 DEF OrphanEnds
<1>25. ASSUME Die PROVE Linked'
<2>1. job' = [j \in Runs |->
        IF job[j].state # "absent" /\ run[job[j].current].state \in Active
        THEN [job[j] EXCEPT !.state = run'[job[j].current].state, !.revision = @ + 1]
        ELSE job[j]]
  BY <1>25 DEF Die
<2>2. \A j \in Runs : job'[j].state = "absent" <=> job[j].state = "absent"
  <3>1. ASSUME NEW j \in Runs PROVE job'[j].state = "absent" <=> job[j].state = "absent"
    <4>1. job[j] \in JobRows /\ job[j].current \in Runs
      BY <1>0
    <4>2. run[job[j].current].state \in Active => run'[job[j].current].state # "absent"
      BY <1>25, <4>1, DieRows
    <4> QED
      BY <2>1, <4>1, <4>2
  <3> QED
    BY <3>1
<2>3. \A r \in Runs : /\ run'[r].job = run[r].job
                      /\ run'[r].state = "absent" <=> run[r].state = "absent"
  <3>1. ASSUME NEW r \in Runs
        PROVE  /\ run'[r].job = run[r].job
               /\ run'[r].state = "absent" <=> run[r].state = "absent"
    BY <1>25, DieRows DEF Active
  <3> QED
    BY <3>1
<2>4. \A r \in Runs : run[r].job \in Runs
  BY <1>0
<2> QED
  BY <2>2, <2>3, <2>4
<1> QED
  BY <1>1, <1>2, <1>3, <1>4, <1>5, <1>6, <1>7, <1>8, <1>9, <1>10, <1>11, <1>12, <1>13, <1>14, <1>15, <1>16, <1>17, <1>18, <1>19, <1>20, <1>21, <1>22, <1>23, <1>24, <1>25 DEF Next, Tools, Thread

(* A thread goes through its lines in order. *)
LEMMA StageStep ==
  ASSUME TypeOK, Driven, JobFollowsRun, ProcessHeld, Unsent, DeliveryTold, Stage, Next
  PROVE  Stage'
<1> USE DEF Stage, RunRows, JobRows, ThreadTypes, tables, threads
<1>0. /\ run \in [Runs -> RunRows] /\ job \in [Runs -> JobRows]
      /\ ThreadTypes /\ prompts \in [Runs -> Nat]
  BY TypeParts DEF OtherTypes
<1>1. ASSUME NEW r \in Runs, Start(r) PROVE Stage'
  BY <1>0, <1>1 DEF Start, NewRun, ProcessHeld, Active, Unsent
<1>2. ASSUME NEW r \in Runs, Inspect(r) PROVE Stage'
  BY <1>0, <1>2 DEF Inspect
<1>3. ASSUME NEW r \in Runs, NEW j \in Runs, Continue(r, j) PROVE Stage'
  BY <1>0, <1>3 DEF Continue, NewRun, ProcessHeld, Active, Unsent
<1>4. ASSUME NEW r \in Runs, Cancel(r) PROVE Stage'
  BY <1>0, <1>4 DEF Cancel
<1>5. ASSUME NEW r \in Runs, Forget(r) PROVE Stage'
  BY <1>0, <1>5 DEF Forget
<1>6. ASSUME NEW r \in Runs, Spawn(r) PROVE Stage'
  BY <1>0, <1>6 DEF Spawn, Goto, At
<1>7. ASSUME NEW r \in Runs, LooksOnce(r) PROVE Stage'
  BY <1>0, <1>7 DEF LooksOnce, Goto, At
<1>8. ASSUME NEW r \in Runs, Launching(r) PROVE Stage'
  BY <1>0, <1>8 DEF Launching, Goto, At
<1>9. ASSUME NEW r \in Runs, Opens(r) PROVE Stage'
  BY <1>0, <1>9 DEF Opens, Goto, At
<1>10. ASSUME NEW r \in Runs, SavesPid(r) PROVE Stage'
  BY <1>0, <1>10 DEF SavesPid, Goto, At
<1>11. ASSUME NEW r \in Runs, Sends(r) PROVE Stage'
  BY <1>0, <1>11 DEF Sends, Goto, At, Prompted
<1>12. ASSUME NEW r \in Runs, SendBreaks(r) PROVE Stage'
  BY <1>0, <1>12 DEF SendBreaks, Goto, At, Over
<1>13. ASSUME NEW r \in Runs, SendRefused(r) PROVE Stage'
  BY <1>0, <1>13 DEF SendRefused, Goto, At, Over
<1>14. ASSUME NEW r \in Runs, Accepts(r) PROVE Stage'
  BY <1>0, <1>14 DEF Accepts, Goto, At, Running
<1>15. ASSUME NEW r \in Runs, Stops(r) PROVE Stage'
  BY <1>0, <1>15 DEF Stops, Goto, Over, StopSeen, Marked
<1>16. ASSUME NEW r \in Runs, Deadline(r) PROVE Stage'
  BY <1>0, <1>16 DEF Deadline, Goto
<1>17. ASSUME NEW r \in Runs, Settles(r) PROVE Stage'
  BY <1>0, <1>17 DEF Settles, Goto, Over
<1>18. ASSUME NEW r \in Runs, Fails(r) PROVE Stage'
  BY <1>0, <1>18 DEF Fails, Goto, Over
<1>19. ASSUME NEW r \in Runs, CodexSends(r) PROVE Stage'
<2>1. CASE Wanted(run[r].job) /\ run[r].state = "starting"
  BY <1>0, <1>19, <2>1 DEF CodexSends, At, Over, Goto, DeliveryTold
<2>2. CASE ~(Wanted(run[r].job) /\ run[r].state = "starting")
  BY <1>0, <1>19, <2>2 DEF CodexSends, At, Over, Goto, DeliveryTold
<2> QED
  BY <2>1, <2>2
<1>20. ASSUME NEW r \in Runs, CodexTurns(r) PROVE Stage'
  BY <1>0, <1>20 DEF CodexTurns, Goto, At
<1>21. ASSUME NEW r \in Runs, CodexReturns(r) PROVE Stage'
  BY <1>0, <1>21 DEF CodexReturns, Goto, At
<1>22. ASSUME NEW r \in Runs, CodexAccepts(r) PROVE Stage'
  BY <1>0, <1>22 DEF CodexAccepts, Goto, At, Over, Running
<1>23. ASSUME NEW r \in Runs, Closes(r) PROVE Stage'
  BY <1>0, <1>23 DEF Closes, Goto, At, Verdict
<1>24. ASSUME NEW r \in Runs, OrphanEnds(r) PROVE Stage'
  BY <1>0, <1>24 DEF OrphanEnds, At
<1>25. ASSUME Die PROVE Stage'
  BY <1>25 DEF Die
<1> QED
  BY <1>1, <1>2, <1>3, <1>4, <1>5, <1>6, <1>7, <1>8, <1>9, <1>10, <1>11, <1>12, <1>13, <1>14, <1>15, <1>16, <1>17, <1>18, <1>19, <1>20, <1>21, <1>22, <1>23, <1>24, <1>25 DEF Next, Tools, Thread

(* A process belongs to a run that keeps the place. *)
LEMMA ProcessStep ==
  ASSUME TypeOK, Driven, JobFollowsRun, Stage, ProcessHeld, Next
  PROVE  ProcessHeld'
<1> USE DEF ProcessHeld, RunRows, JobRows, ThreadTypes, tables, threads
<1>0. /\ run \in [Runs -> RunRows] /\ job \in [Runs -> JobRows]
      /\ ThreadTypes /\ prompts \in [Runs -> Nat]
  BY TypeParts DEF OtherTypes
<1>1. ASSUME NEW r \in Runs, Start(r) PROVE ProcessHeld'
  BY <1>0, <1>1 DEF Start, NewRun, Active
<1>2. ASSUME NEW r \in Runs, Inspect(r) PROVE ProcessHeld'
  BY <1>0, <1>2 DEF Inspect
<1>3. ASSUME NEW r \in Runs, NEW j \in Runs, Continue(r, j) PROVE ProcessHeld'
  BY <1>0, <1>3 DEF Continue, NewRun, Active
<1>4. ASSUME NEW r \in Runs, Cancel(r) PROVE ProcessHeld'
  BY <1>0, <1>4 DEF Cancel, Active
<1>5. ASSUME NEW r \in Runs, Forget(r) PROVE ProcessHeld'
  BY <1>0, <1>5 DEF Forget
<1>6. ASSUME NEW r \in Runs, Spawn(r) PROVE ProcessHeld'
  BY <1>0, <1>6 DEF Spawn, Goto, At
<1>7. ASSUME NEW r \in Runs, LooksOnce(r) PROVE ProcessHeld'
  BY <1>0, <1>7 DEF LooksOnce, Goto, At
<1>8. ASSUME NEW r \in Runs, Launching(r) PROVE ProcessHeld'
  BY <1>0, <1>8 DEF Launching, Goto, At
<1>9. ASSUME NEW r \in Runs, Opens(r) PROVE ProcessHeld'
  BY <1>0, <1>9 DEF Opens, Goto, At, Stage, Driven, Driving, Active
<1>10. ASSUME NEW r \in Runs, SavesPid(r) PROVE ProcessHeld'
  BY <1>0, <1>10 DEF SavesPid, Goto, At
<1>11. ASSUME NEW r \in Runs, Sends(r) PROVE ProcessHeld'
  BY <1>0, <1>11 DEF Sends, Prompted, Goto, At, Active
<1>12. ASSUME NEW r \in Runs, SendBreaks(r) PROVE ProcessHeld'
  BY <1>0, <1>12 DEF SendBreaks, Goto, At, Over
<1>13. ASSUME NEW r \in Runs, SendRefused(r) PROVE ProcessHeld'
  BY <1>0, <1>13 DEF SendRefused, Goto, At, Over
<1>14. ASSUME NEW r \in Runs, Accepts(r) PROVE ProcessHeld'
  BY <1>0, <1>14 DEF Accepts, Goto, At, Running, Active
<1>15. ASSUME NEW r \in Runs, Stops(r) PROVE ProcessHeld'
  BY <1>0, <1>15 DEF Stops, StopSeen, Marked, Over, Goto, Active
<1>16. ASSUME NEW r \in Runs, Deadline(r) PROVE ProcessHeld'
  BY <1>0, <1>16 DEF Deadline, Goto
<1>17. ASSUME NEW r \in Runs, Settles(r) PROVE ProcessHeld'
  BY <1>0, <1>17 DEF Settles, Goto, Over
<1>18. ASSUME NEW r \in Runs, Fails(r) PROVE ProcessHeld'
  BY <1>0, <1>18 DEF Fails, Goto, Over
<1>19. ASSUME NEW r \in Runs, CodexSends(r) PROVE ProcessHeld'
<2>1. CASE Wanted(run[r].job) /\ run[r].state = "starting"
  BY <1>0, <1>19, <2>1 DEF CodexSends, At, Over, Goto
<2>2. CASE ~(Wanted(run[r].job) /\ run[r].state = "starting")
  BY <1>0, <1>19, <2>2 DEF CodexSends, At, Over, Goto
<2> QED
  BY <2>1, <2>2
<1>20. ASSUME NEW r \in Runs, CodexTurns(r) PROVE ProcessHeld'
  BY <1>0, <1>20 DEF CodexTurns, Goto, At, Stage, Driven, Driving, Active
<1>21. ASSUME NEW r \in Runs, CodexReturns(r) PROVE ProcessHeld'
  BY <1>0, <1>21 DEF CodexReturns, Goto, At
<1>22. ASSUME NEW r \in Runs, CodexAccepts(r) PROVE ProcessHeld'
  BY <1>0, <1>22 DEF CodexAccepts, Over, Goto, At, Running, Active
<1>23. ASSUME NEW r \in Runs, Closes(r) PROVE ProcessHeld'
  BY <1>0, <1>23 DEF Closes, At, Goto, Stage
<1>24. ASSUME NEW r \in Runs, OrphanEnds(r) PROVE ProcessHeld'
  BY <1>0, <1>24 DEF OrphanEnds, At
<1>25. ASSUME Die PROVE ProcessHeld'
  BY <1>0, <1>25, DieRows DEF Active
<1> QED
  BY <1>1, <1>2, <1>3, <1>4, <1>5, <1>6, <1>7, <1>8, <1>9, <1>10, <1>11, <1>12, <1>13, <1>14, <1>15, <1>16, <1>17, <1>18, <1>19, <1>20, <1>21, <1>22, <1>23, <1>24, <1>25 DEF Next, Tools, Thread

(* One prompt for a run, written down as it is sent. *)
LEMMA DeliveryStep ==
  ASSUME TypeOK, Driven, JobFollowsRun, Stage, Unsent, DeliveryTold, Next
  PROVE  DeliveryTold'
<1> USE DEF DeliveryTold, RunRows, JobRows, ThreadTypes, tables, threads
<1>0. /\ run \in [Runs -> RunRows] /\ job \in [Runs -> JobRows]
      /\ ThreadTypes /\ prompts \in [Runs -> Nat]
  BY TypeParts DEF OtherTypes
<1>1. ASSUME NEW r \in Runs, Start(r) PROVE DeliveryTold'
  BY <1>0, <1>1 DEF Start, NewRun, Unsent
<1>2. ASSUME NEW r \in Runs, Inspect(r) PROVE DeliveryTold'
  BY <1>0, <1>2 DEF Inspect
<1>3. ASSUME NEW r \in Runs, NEW j \in Runs, Continue(r, j) PROVE DeliveryTold'
  BY <1>0, <1>3 DEF Continue, NewRun, Unsent
<1>4. ASSUME NEW r \in Runs, Cancel(r) PROVE DeliveryTold'
  BY <1>0, <1>4 DEF Cancel
<1>5. ASSUME NEW r \in Runs, Forget(r) PROVE DeliveryTold'
  BY <1>0, <1>5 DEF Forget
<1>6. ASSUME NEW r \in Runs, Spawn(r) PROVE DeliveryTold'
  BY <1>0, <1>6 DEF Spawn, At
<1>7. ASSUME NEW r \in Runs, LooksOnce(r) PROVE DeliveryTold'
  BY <1>0, <1>7 DEF LooksOnce, At
<1>8. ASSUME NEW r \in Runs, Launching(r) PROVE DeliveryTold'
  BY <1>0, <1>8 DEF Launching, At
<1>9. ASSUME NEW r \in Runs, Opens(r) PROVE DeliveryTold'
  BY <1>0, <1>9 DEF Opens, At
<1>10. ASSUME NEW r \in Runs, SavesPid(r) PROVE DeliveryTold'
  BY <1>0, <1>10 DEF SavesPid, At
<1>11. ASSUME NEW r \in Runs, Sends(r) PROVE DeliveryTold'
  BY <1>0, <1>11 DEF Sends, Prompted, At, Stage
<1>12. ASSUME NEW r \in Runs, SendBreaks(r) PROVE DeliveryTold'
  BY <1>0, <1>12 DEF SendBreaks, At, Over
<1>13. ASSUME NEW r \in Runs, SendRefused(r) PROVE DeliveryTold'
  BY <1>0, <1>13 DEF SendRefused, At, Over
<1>14. ASSUME NEW r \in Runs, Accepts(r) PROVE DeliveryTold'
  BY <1>0, <1>14 DEF Accepts, At, Running
<1>15. ASSUME NEW r \in Runs, Stops(r) PROVE DeliveryTold'
  BY <1>0, <1>15 DEF Stops, Over, StopSeen, Marked
<1>16. ASSUME NEW r \in Runs, Deadline(r) PROVE DeliveryTold'
  BY <1>0, <1>16 DEF Deadline
<1>17. ASSUME NEW r \in Runs, Settles(r) PROVE DeliveryTold'
  BY <1>0, <1>17 DEF Settles, Over
<1>18. ASSUME NEW r \in Runs, Fails(r) PROVE DeliveryTold'
  BY <1>0, <1>18 DEF Fails, Over
<1>19. ASSUME NEW r \in Runs, CodexSends(r) PROVE DeliveryTold'
  BY <1>0, <1>19 DEF CodexSends, At, Over
<1>20. ASSUME NEW r \in Runs, CodexTurns(r) PROVE DeliveryTold'
  BY <1>0, <1>20 DEF CodexTurns, At, Stage
<1>21. ASSUME NEW r \in Runs, CodexReturns(r) PROVE DeliveryTold'
  BY <1>0, <1>21 DEF CodexReturns, At
<1>22. ASSUME NEW r \in Runs, CodexAccepts(r) PROVE DeliveryTold'
  BY <1>0, <1>22 DEF CodexAccepts, At, Over, Running
<1>23. ASSUME NEW r \in Runs, Closes(r) PROVE DeliveryTold'
  BY <1>0, <1>23 DEF Closes, At, Verdict
<1>24. ASSUME NEW r \in Runs, OrphanEnds(r) PROVE DeliveryTold'
  BY <1>0, <1>24 DEF OrphanEnds, At
<1>25. ASSUME Die PROVE DeliveryTold'
<2>1. prompts' = prompts
  BY <1>25 DEF Die
<2> QED
  BY <1>25, <2>1, DieRows
<1> QED
  BY <1>1, <1>2, <1>3, <1>4, <1>5, <1>6, <1>7, <1>8, <1>9, <1>10, <1>11, <1>12, <1>13, <1>14, <1>15, <1>16, <1>17, <1>18, <1>19, <1>20, <1>21, <1>22, <1>23, <1>24, <1>25 DEF Next, Tools, Thread

(* What JobFollowsRun says of one job. *)
Follows(j) ==
  LET state == run[job[j].current].state IN
  /\ run[job[j].current].job = j
  /\ \/ state \in {"starting", "running"} /\ job[j].state \in {"queued", "running"}
     \/ state = "stopping" /\ job[j].state = "cancel_requested"
     \/ state \in Closed \cup {"outcome_unknown"} /\ job[j].state = state
  /\ \A r \in RunsOf(j) \ {job[j].current} : run[r].state \in Closed

(* Steps that change neither a state nor the job of a run. *)
LEMMA SameStates ==
  ASSUME TypeOK, JobFollowsRun, job' = job,
         \A r \in Runs : run'[r].state = run[r].state /\ run'[r].job = run[r].job
  PROVE  JobFollowsRun'
<1>1. \A j \in Runs : job[j].current \in Runs
  BY TypeParts DEF JobRows
<1>2. \A j \in Runs : RunsOf(j)' = RunsOf(j)
  BY DEF RunsOf
<1> QED
  BY <1>1, <1>2 DEF JobFollowsRun, RunsOf

(* A job follows its run. *)
LEMMA JobStep ==
  ASSUME TypeOK, Linked, Driven, JobFollowsRun, Next
  PROVE  JobFollowsRun'
<1> USE DEF RunRows, JobRows, tables, threads
<1>0. run \in [Runs -> RunRows] /\ job \in [Runs -> JobRows]
  BY TypeParts
<1>1. ASSUME NEW r \in Runs, Start(r) PROVE JobFollowsRun'
  BY <1>0, <1>1 DEF Start, JobFollowsRun, RunsOf, Linked, Driven, Driving, Active, Closed, NewRun
<1>2. ASSUME NEW r \in Runs, Inspect(r) PROVE JobFollowsRun'
<2>1. job' = job /\ \A s \in Runs : run'[s].state = run[s].state /\ run'[s].job = run[s].job
  BY <1>0, <1>2 DEF Inspect
<2> QED
  BY <2>1, SameStates
<1>3. ASSUME NEW r \in Runs, NEW j \in Runs, Continue(r, j) PROVE JobFollowsRun'
  BY <1>0, <1>3 DEF Continue, JobFollowsRun, RunsOf, Linked, Driven, Driving, Active, Closed, NewRun, QueueContinuation
<1>4. ASSUME NEW r \in Runs, Cancel(r) PROVE JobFollowsRun'
  BY <1>0, <1>4 DEF Cancel, JobFollowsRun, RunsOf, Linked, Driven, Driving, Active, Closed
<1>5. ASSUME NEW r \in Runs, Forget(r) PROVE JobFollowsRun'
<2>1. job' = job /\ \A s \in Runs : run'[s].state = run[s].state /\ run'[s].job = run[s].job
  BY <1>0, <1>5 DEF Forget
<2> QED
  BY <2>1, SameStates
<1>6. ASSUME NEW r \in Runs, Spawn(r) PROVE JobFollowsRun'
<2>1. job' = job /\ \A s \in Runs : run'[s].state = run[s].state /\ run'[s].job = run[s].job
  BY <1>0, <1>6 DEF Spawn
<2> QED
  BY <2>1, SameStates
<1>7. ASSUME NEW r \in Runs, LooksOnce(r) PROVE JobFollowsRun'
<2>1. job' = job /\ \A s \in Runs : run'[s].state = run[s].state /\ run'[s].job = run[s].job
  BY <1>0, <1>7 DEF LooksOnce
<2> QED
  BY <2>1, SameStates
<1>8. ASSUME NEW r \in Runs, Launching(r) PROVE JobFollowsRun'
<2>1. job' = job /\ \A s \in Runs : run'[s].state = run[s].state /\ run'[s].job = run[s].job
  BY <1>0, <1>8 DEF Launching
<2> QED
  BY <2>1, SameStates
<1>9. ASSUME NEW r \in Runs, Opens(r) PROVE JobFollowsRun'
<2>1. job' = job /\ \A s \in Runs : run'[s].state = run[s].state /\ run'[s].job = run[s].job
  BY <1>0, <1>9 DEF Opens
<2> QED
  BY <2>1, SameStates
<1>10. ASSUME NEW r \in Runs, SavesPid(r) PROVE JobFollowsRun'
<2>1. job' = job /\ \A s \in Runs : run'[s].state = run[s].state /\ run'[s].job = run[s].job
  BY <1>0, <1>10 DEF SavesPid
<2> QED
  BY <2>1, SameStates
<1>11. ASSUME NEW r \in Runs, Sends(r) PROVE JobFollowsRun'
<2>1. job' = job /\ \A s \in Runs : run'[s].state = run[s].state /\ run'[s].job = run[s].job
  BY <1>0, <1>11 DEF Sends, Prompted
<2> QED
  BY <2>1, SameStates
<1>12. ASSUME NEW r \in Runs, SendBreaks(r) PROVE JobFollowsRun'
<2>1. job' = job /\ \A s \in Runs : run'[s].state = run[s].state /\ run'[s].job = run[s].job
  BY <1>0, <1>12 DEF SendBreaks
<2> QED
  BY <2>1, SameStates
<1>13. ASSUME NEW r \in Runs, SendRefused(r) PROVE JobFollowsRun'
<2>1. job' = job /\ \A s \in Runs : run'[s].state = run[s].state /\ run'[s].job = run[s].job
  BY <1>0, <1>13 DEF SendRefused
<2> QED
  BY <2>1, SameStates
<1>14. ASSUME NEW r \in Runs, Accepts(r) PROVE JobFollowsRun'
  <2>1. run[r].state \in Driving
    BY <1>14 DEF Accepts, At, Driven
  <2> QED
    BY <1>0, <1>14, <2>1 DEF Accepts, JobFollowsRun, RunsOf, Linked, Driving, Active, Closed, At, Running
<1>15. ASSUME NEW r \in Runs, Stops(r) PROVE JobFollowsRun'
<2>1. CASE UNCHANGED <<run, job>>
  BY <2>1, SameStates
<2>2. CASE Marked(r)
  <3>1. run[r].state \in Driving
    BY <1>15 DEF Stops, Driven
  <3>2. \A s \in Runs :
          /\ run'[s].job = run[s].job
          /\ run'[s].state = IF s = r THEN "stopping" ELSE run[s].state
    BY <1>0, <2>2 DEF Marked
  <3>3. \A j \in Runs :
          /\ job'[j].current = job[j].current
          /\ job'[j].state = IF job[j].state # "absent" /\ job[j].current = r
                             THEN "cancel_requested" ELSE job[j].state
    BY <1>0, <2>2 DEF Marked
  <3>4. ASSUME NEW j \in Runs, job'[j].state # "absent" PROVE Follows(j)'
    <4>1. job[j].state # "absent" /\ Follows(j) /\ job[j].current \in Runs
      BY <1>0, <3>3, <3>4 DEF JobFollowsRun, Follows
    <4>2. RunsOf(j)' = RunsOf(j)
      BY <3>1, <3>2 DEF RunsOf, Driving
    <4> QED
      BY <3>1, <3>2, <3>3, <4>1, <4>2 DEF Follows, RunsOf, Closed, Driving
  <3> QED
    BY <3>4 DEF JobFollowsRun, Follows
<2> QED
  BY <1>15, <2>1, <2>2 DEF Stops, StopSeen
<1>16. ASSUME NEW r \in Runs, Deadline(r) PROVE JobFollowsRun'
<2>1. job' = job /\ \A s \in Runs : run'[s].state = run[s].state /\ run'[s].job = run[s].job
  BY <1>0, <1>16 DEF Deadline
<2> QED
  BY <2>1, SameStates
<1>17. ASSUME NEW r \in Runs, Settles(r) PROVE JobFollowsRun'
<2>1. job' = job /\ \A s \in Runs : run'[s].state = run[s].state /\ run'[s].job = run[s].job
  BY <1>0, <1>17 DEF Settles
<2> QED
  BY <2>1, SameStates
<1>18. ASSUME NEW r \in Runs, Fails(r) PROVE JobFollowsRun'
<2>1. job' = job /\ \A s \in Runs : run'[s].state = run[s].state /\ run'[s].job = run[s].job
  BY <1>0, <1>18 DEF Fails
<2> QED
  BY <2>1, SameStates
<1>19. ASSUME NEW r \in Runs, CodexSends(r) PROVE JobFollowsRun'
<2>1. job' = job /\ \A s \in Runs : run'[s].state = run[s].state /\ run'[s].job = run[s].job
  <3>1. CASE Wanted(run[r].job) /\ run[r].state = "starting"
    BY <1>0, <1>19, <3>1 DEF CodexSends
  <3>2. CASE ~(Wanted(run[r].job) /\ run[r].state = "starting")
    BY <1>0, <1>19, <3>2 DEF CodexSends
  <3> QED
    BY <3>1, <3>2 
<2> QED
  BY <2>1, SameStates
<1>20. ASSUME NEW r \in Runs, CodexTurns(r) PROVE JobFollowsRun'
<2>1. job' = job /\ \A s \in Runs : run'[s].state = run[s].state /\ run'[s].job = run[s].job
  BY <1>0, <1>20 DEF CodexTurns
<2> QED
  BY <2>1, SameStates
<1>21. ASSUME NEW r \in Runs, CodexReturns(r) PROVE JobFollowsRun'
<2>1. job' = job /\ \A s \in Runs : run'[s].state = run[s].state /\ run'[s].job = run[s].job
  BY <1>0, <1>21 DEF CodexReturns
<2> QED
  BY <2>1, SameStates
<1>22. ASSUME NEW r \in Runs, CodexAccepts(r) PROVE JobFollowsRun'
  BY <1>0, <1>22 DEF CodexAccepts, JobFollowsRun, RunsOf, Linked, Driven, Driving, Active, Closed, At, Running
<1>23. ASSUME NEW r \in Runs, Closes(r) PROVE JobFollowsRun'
<2> DEFINE verdict == Verdict(run[r].state, how[r])
           m == run[r].job
<2>1. /\ run[r].state \in Driving /\ m \in Runs
      /\ verdict \in Closed
  BY <1>0, <1>23 DEF Closes, At, Driven, Verdict, Closed
<2>2. \A s \in Runs :
        /\ run'[s].job = run[s].job
        /\ run'[s].state = IF s = r THEN verdict ELSE run[s].state
  BY <1>0, <1>23 DEF Closes
<2>3. \A j \in Runs :
        /\ job'[j].current = job[j].current
        /\ job'[j].state = IF j = m THEN verdict ELSE job[j].state
  BY <1>0, <1>23, <2>1 DEF Closes
<2>4. job[m].state # "absent" /\ job[m].current = r
  BY <2>1 DEF Linked, JobFollowsRun, RunsOf, Driving, Closed
<2> HIDE DEF verdict, m
<2>5. ASSUME NEW j \in Runs, job'[j].state # "absent" PROVE Follows(j)'
  <3>1. job[j].state # "absent" /\ Follows(j) /\ job[j].current \in Runs
    BY <1>0, <2>3, <2>4, <2>5 DEF JobFollowsRun, Follows
  <3>2. RunsOf(j)' = RunsOf(j)
    BY <2>1, <2>2 DEF RunsOf, Driving, Closed
  <3>3. CASE j = m
    BY <2>1, <2>2, <2>3, <2>4, <3>1, <3>2, <3>3 DEF Follows, RunsOf, Closed
  <3>4. CASE j # m
    <4>1. job[j].current # r
      BY <3>1, <3>4 DEF Follows, m
    <4> QED
      BY <2>1, <2>2, <2>3, <3>1, <3>2, <3>4, <4>1 DEF Follows, RunsOf, Closed
  <3> QED
    BY <3>3, <3>4
<2> QED
  BY <2>5 DEF JobFollowsRun, Follows
<1>24. ASSUME NEW r \in Runs, OrphanEnds(r) PROVE JobFollowsRun'
<2>1. job' = job /\ \A s \in Runs : run'[s].state = run[s].state /\ run'[s].job = run[s].job
  BY <1>0, <1>24 DEF OrphanEnds
<2> QED
  BY <2>1, SameStates
<1>25. ASSUME Die PROVE JobFollowsRun'
<2>1. \A s \in Runs :
        /\ run'[s].job = run[s].job
        /\ run[s].state \in Active => run'[s].state \in {"outcome_unknown", "interrupted"}
        /\ run[s].state \notin Active => run'[s].state = run[s].state
  BY <1>25, DieRows
<2>2. \A j \in Runs :
        /\ job'[j].current = job[j].current
        /\ job'[j].state = IF job[j].state # "absent" /\ run[job[j].current].state \in Active
                           THEN run'[job[j].current].state ELSE job[j].state
  <3>1. ASSUME NEW j \in Runs
        PROVE  job'[j] = IF job[j].state # "absent" /\ run[job[j].current].state \in Active
                 THEN [job[j] EXCEPT !.state = run'[job[j].current].state, !.revision = @ + 1]
                 ELSE job[j]
    BY <1>25, <3>1 DEF Die
  <3>2. \A j \in Runs : job[j] \in JobRows
    BY <1>0
  <3> QED
    BY <3>1, <3>2
<2>3. ASSUME NEW j \in Runs, job'[j].state # "absent" PROVE Follows(j)'
  <3>1. job[j].current \in Runs
    BY <1>0
  <3>2. job[j].state # "absent" /\ Follows(j)
    BY <2>2, <2>3, <3>1 DEF JobFollowsRun, Follows
  <3>3. RunsOf(j)' = RunsOf(j)
    BY <2>1 DEF RunsOf, Active
  <3> QED
    BY <2>1, <2>2, <3>1, <3>2, <3>3 DEF Follows, RunsOf, Closed, Active
<2> QED
  BY <2>3 DEF JobFollowsRun, Follows
<1> QED
  BY <1>1, <1>2, <1>3, <1>4, <1>5, <1>6, <1>7, <1>8, <1>9, <1>10, <1>11, <1>12, <1>13, <1>14, <1>15, <1>16, <1>17, <1>18, <1>19, <1>20, <1>21, <1>22, <1>23, <1>24, <1>25 DEF Next, Tools, Thread

(* A job that changes its run changes its revision, and none goes back. *)
LEMMA FenceStays ==
  ASSUME TypeOK, ViewFence, view' = view,
         \A j \in Runs :
           /\ job'[j].revision \in Nat
           /\ job[j].state # "absent" =>
                /\ job'[j].state # "absent" /\ job'[j].revision >= job[j].revision
                /\ job'[j].current # job[j].current => job'[j].revision > job[j].revision
  PROVE  ViewFence'
<1>1. view.revision \in Nat /\ \A j \in Runs : job[j].revision \in Nat
  BY TypeParts DEF JobRows, OtherTypes
<1> QED
  BY <1>1 DEF ViewFence

(* An inspect shows the present state of the job. *)
LEMMA FenceStep ==
  ASSUME TypeOK, JobFollowsRun, Linked, Driven, ViewFence, Next
  PROVE  ViewFence'
<1> USE DEF ViewFence, tables, threads
<1>0. job \in [Runs -> JobRows] /\ OtherTypes /\ run \in [Runs -> RunRows]
  BY TypeParts
<1>1. ASSUME NEW r \in Runs, Start(r) PROVE ViewFence'
<2>1. ASSUME NEW k \in Runs
      PROVE  /\ job'[k].revision \in Nat
             /\ job[k].state # "absent" =>
                  /\ job'[k].state # "absent" /\ job'[k].revision >= job[k].revision
                  /\ job'[k].current # job[k].current => job'[k].revision > job[k].revision
  <3>1. job[k] \in JobRows /\ job[k].revision \in Nat
    BY <1>0 DEF JobRows
  <3> QED
    BY <1>0, <1>1, <3>1 DEF Start, NewRun, Linked, JobRows
<2>2. view' = view
  BY <1>1 DEF Start
<2> QED
  BY <2>1, <2>2, FenceStays
<1>2. ASSUME NEW r \in Runs, Inspect(r) PROVE ViewFence'
<2>1. /\ view'.job = r /\ view'.revision = job[r].revision /\ view'.run = job[r].current
      /\ job' = job /\ job[r].state # "absent"
  BY <1>2 DEF Inspect
<2>2. job[r].revision \in Nat
  BY <1>0 DEF JobRows
<2> QED
  BY <2>1, <2>2
<1>3. ASSUME NEW r \in Runs, NEW j \in Runs, Continue(r, j) PROVE ViewFence'
<2>1. ASSUME NEW k \in Runs
      PROVE  /\ job'[k].revision \in Nat
             /\ job[k].state # "absent" =>
                  /\ job'[k].state # "absent" /\ job'[k].revision >= job[k].revision
                  /\ job'[k].current # job[k].current => job'[k].revision > job[k].revision
  <3>1. job[k] \in JobRows /\ job[k].revision \in Nat
    BY <1>0 DEF JobRows
  <3> QED
    BY <1>0, <1>3, <3>1 DEF Continue, NewRun, QueueContinuation, JobRows
<2>2. view' = view
  BY <1>3 DEF Continue
<2> QED
  BY <2>1, <2>2, FenceStays
<1>4. ASSUME NEW r \in Runs, Cancel(r) PROVE ViewFence'
<2>1. ASSUME NEW k \in Runs
      PROVE  /\ job'[k].revision \in Nat
             /\ job[k].state # "absent" =>
                  /\ job'[k].state # "absent" /\ job'[k].revision >= job[k].revision
                  /\ job'[k].current # job[k].current => job'[k].revision > job[k].revision
  <3>1. job[k] \in JobRows /\ job[k].revision \in Nat
    BY <1>0 DEF JobRows
  <3> QED
    BY <1>0, <1>4, <3>1 DEF Cancel, JobRows
<2>2. view' = view
  BY <1>4 DEF Cancel
<2> QED
  BY <2>1, <2>2, FenceStays
<1>5. ASSUME NEW r \in Runs, Forget(r) PROVE ViewFence'
<2>1. UNCHANGED <<job, view>>
  BY <1>5 DEF Forget
<2> QED
  BY <2>1
<1>6. ASSUME NEW r \in Runs, Spawn(r) PROVE ViewFence'
<2>1. UNCHANGED <<job, view>>
  BY <1>6 DEF Spawn
<2> QED
  BY <2>1
<1>7. ASSUME NEW r \in Runs, LooksOnce(r) PROVE ViewFence'
<2>1. UNCHANGED <<job, view>>
  BY <1>7 DEF LooksOnce
<2> QED
  BY <2>1
<1>8. ASSUME NEW r \in Runs, Launching(r) PROVE ViewFence'
<2>1. UNCHANGED <<job, view>>
  BY <1>8 DEF Launching
<2> QED
  BY <2>1
<1>9. ASSUME NEW r \in Runs, Opens(r) PROVE ViewFence'
<2>1. UNCHANGED <<job, view>>
  BY <1>9 DEF Opens
<2> QED
  BY <2>1
<1>10. ASSUME NEW r \in Runs, SavesPid(r) PROVE ViewFence'
<2>1. UNCHANGED <<job, view>>
  BY <1>10 DEF SavesPid
<2> QED
  BY <2>1
<1>11. ASSUME NEW r \in Runs, Sends(r) PROVE ViewFence'
<2>1. UNCHANGED <<job, view>>
  BY <1>11 DEF Sends
<2> QED
  BY <2>1
<1>12. ASSUME NEW r \in Runs, SendBreaks(r) PROVE ViewFence'
<2>1. UNCHANGED <<job, view>>
  BY <1>12 DEF SendBreaks
<2> QED
  BY <2>1
<1>13. ASSUME NEW r \in Runs, SendRefused(r) PROVE ViewFence'
<2>1. UNCHANGED <<job, view>>
  BY <1>13 DEF SendRefused
<2> QED
  BY <2>1
<1>14. ASSUME NEW r \in Runs, Accepts(r) PROVE ViewFence'
<2>1. ASSUME NEW k \in Runs
      PROVE  /\ job'[k].revision \in Nat
             /\ job[k].state # "absent" =>
                  /\ job'[k].state # "absent" /\ job'[k].revision >= job[k].revision
                  /\ job'[k].current # job[k].current => job'[k].revision > job[k].revision
  <3>1. job[k] \in JobRows /\ job[k].revision \in Nat
    BY <1>0 DEF JobRows
  <3> QED
    BY <1>0, <1>14, <3>1 DEF Accepts, JobRows
<2>2. view' = view
  BY <1>14 DEF Accepts
<2> QED
  BY <2>1, <2>2, FenceStays
<1>15. ASSUME NEW r \in Runs, Stops(r) PROVE ViewFence'
<2>1. ASSUME NEW k \in Runs
      PROVE  /\ job'[k].revision \in Nat
             /\ job[k].state # "absent" =>
                  /\ job'[k].state # "absent" /\ job'[k].revision >= job[k].revision
                  /\ job'[k].current # job[k].current => job'[k].revision > job[k].revision
  <3>1. job[k] \in JobRows /\ job[k].revision \in Nat
    BY <1>0 DEF JobRows
  <3> QED
    BY <1>0, <1>15, <3>1 DEF Stops, StopSeen, Marked, JobRows
<2>2. view' = view
  BY <1>15 DEF Stops
<2> QED
  BY <2>1, <2>2, FenceStays
<1>16. ASSUME NEW r \in Runs, Deadline(r) PROVE ViewFence'
<2>1. UNCHANGED <<job, view>>
  BY <1>16 DEF Deadline
<2> QED
  BY <2>1
<1>17. ASSUME NEW r \in Runs, Settles(r) PROVE ViewFence'
<2>1. UNCHANGED <<job, view>>
  BY <1>17 DEF Settles
<2> QED
  BY <2>1
<1>18. ASSUME NEW r \in Runs, Fails(r) PROVE ViewFence'
<2>1. UNCHANGED <<job, view>>
  BY <1>18 DEF Fails
<2> QED
  BY <2>1
<1>19. ASSUME NEW r \in Runs, CodexSends(r) PROVE ViewFence'
<2>1. UNCHANGED <<job, view>>
  BY <1>19 DEF CodexSends
<2> QED
  BY <2>1
<1>20. ASSUME NEW r \in Runs, CodexTurns(r) PROVE ViewFence'
<2>1. UNCHANGED <<job, view>>
  BY <1>20 DEF CodexTurns
<2> QED
  BY <2>1
<1>21. ASSUME NEW r \in Runs, CodexReturns(r) PROVE ViewFence'
<2>1. UNCHANGED <<job, view>>
  BY <1>21 DEF CodexReturns
<2> QED
  BY <2>1
<1>22. ASSUME NEW r \in Runs, CodexAccepts(r) PROVE ViewFence'
<2>1. UNCHANGED <<job, view>>
  BY <1>22 DEF CodexAccepts
<2> QED
  BY <2>1
<1>23. ASSUME NEW r \in Runs, Closes(r) PROVE ViewFence'
<2>1. ASSUME NEW k \in Runs
      PROVE  /\ job'[k].revision \in Nat
             /\ job[k].state # "absent" =>
                  /\ job'[k].state # "absent" /\ job'[k].revision >= job[k].revision
                  /\ job'[k].current # job[k].current => job'[k].revision > job[k].revision
  <3>1. job[k] \in JobRows /\ job[k].revision \in Nat
    BY <1>0 DEF JobRows
  <3> QED
    BY <1>0, <1>23, <3>1 DEF Closes, Verdict, At, Driven, JobRows
<2>2. view' = view
  BY <1>23 DEF Closes
<2> QED
  BY <2>1, <2>2, FenceStays
<1>24. ASSUME NEW r \in Runs, OrphanEnds(r) PROVE ViewFence'
<2>1. UNCHANGED <<job, view>>
  BY <1>24 DEF OrphanEnds
<2> QED
  BY <2>1
<1>25. ASSUME Die PROVE ViewFence'
<2>1. ASSUME NEW k \in Runs
      PROVE  /\ job'[k].revision \in Nat
             /\ job[k].state # "absent" =>
                  /\ job'[k].state # "absent" /\ job'[k].revision >= job[k].revision
                  /\ job'[k].current # job[k].current => job'[k].revision > job[k].revision
  <3>1. job[k] \in JobRows /\ job[k].revision \in Nat /\ job[k].current \in Runs
    BY <1>0 DEF JobRows
  <3>2. run[job[k].current].state \in Active => run'[job[k].current].state # "absent"
    BY <1>25, <3>1, DieRows
  <3>3. job'[k] = IF job[k].state # "absent" /\ run[job[k].current].state \in Active
                  THEN [job[k] EXCEPT !.state = run'[job[k].current].state, !.revision = @ + 1]
                  ELSE job[k]
    BY <1>25 DEF Die
  <3> QED
    BY <3>1, <3>2, <3>3 DEF JobRows
<2>2. view' = view
  BY <1>25 DEF Die
<2> QED
  BY <2>1, <2>2, FenceStays
<1> QED
  BY <1>1, <1>2, <1>3, <1>4, <1>5, <1>6, <1>7, <1>8, <1>9, <1>10, <1>11, <1>12, <1>13, <1>14, <1>15, <1>16, <1>17, <1>18, <1>19, <1>20, <1>21, <1>22, <1>23, <1>24, <1>25 DEF Next, Tools, Thread

SeenOrUnwanted ==
  \A r \in Runs : run[r].state \in {"starting", "running"} /\ run'[r].state = "stopping"
                   => view.run = r \/ ~Wanted(run[r].job)

(* A run is stopped by a cancel of what was seen, or when it is not wanted. *)
LEMMA CancelStep ==
  ASSUME TypeOK, JobFollowsRun, Driven, ViewFence, Next
  PROVE  SeenOrUnwanted
<1> USE DEF SeenOrUnwanted, RunRows, tables, threads
<1>0. run \in [Runs -> RunRows] /\ job \in [Runs -> JobRows]
  BY TypeParts
<1>1. ASSUME NEW r \in Runs, Start(r) PROVE SeenOrUnwanted
<2>1. \A s \in Runs : run'[s].state = "stopping" => run[s].state \notin {"starting", "running"}
  BY <1>0, <1>1 DEF Start, NewRun
<2> QED
  BY <2>1
<1>2. ASSUME NEW r \in Runs, Inspect(r) PROVE SeenOrUnwanted
<2>1. \A s \in Runs : run'[s].state = "stopping" => run[s].state \notin {"starting", "running"}
  BY <1>0, <1>2 DEF Inspect
<2> QED
  BY <2>1
<1>3. ASSUME NEW r \in Runs, NEW j \in Runs, Continue(r, j) PROVE SeenOrUnwanted
<2>1. \A s \in Runs : run'[s].state = "stopping" => run[s].state \notin {"starting", "running"}
  BY <1>0, <1>3 DEF Continue, NewRun
<2> QED
  BY <2>1
<1>4. ASSUME NEW r \in Runs, Cancel(r) PROVE SeenOrUnwanted
<2>1. view.run = job[r].current
    BY <1>4 DEF Cancel, Current, ViewFence
<2> QED
  BY <1>0, <1>4, <2>1 DEF Cancel
<1>5. ASSUME NEW r \in Runs, Forget(r) PROVE SeenOrUnwanted
<2>1. \A s \in Runs : run'[s].state = "stopping" => run[s].state \notin {"starting", "running"}
  BY <1>0, <1>5 DEF Forget
<2> QED
  BY <2>1
<1>6. ASSUME NEW r \in Runs, Spawn(r) PROVE SeenOrUnwanted
<2>1. \A s \in Runs : run'[s].state = "stopping" => run[s].state \notin {"starting", "running"}
  BY <1>0, <1>6 DEF Spawn
<2> QED
  BY <2>1
<1>7. ASSUME NEW r \in Runs, LooksOnce(r) PROVE SeenOrUnwanted
<2>1. \A s \in Runs : run'[s].state = "stopping" => run[s].state \notin {"starting", "running"}
  BY <1>0, <1>7 DEF LooksOnce
<2> QED
  BY <2>1
<1>8. ASSUME NEW r \in Runs, Launching(r) PROVE SeenOrUnwanted
<2>1. \A s \in Runs : run'[s].state = "stopping" => run[s].state \notin {"starting", "running"}
  BY <1>0, <1>8 DEF Launching
<2> QED
  BY <2>1
<1>9. ASSUME NEW r \in Runs, Opens(r) PROVE SeenOrUnwanted
<2>1. \A s \in Runs : run'[s].state = "stopping" => run[s].state \notin {"starting", "running"}
  BY <1>0, <1>9 DEF Opens
<2> QED
  BY <2>1
<1>10. ASSUME NEW r \in Runs, SavesPid(r) PROVE SeenOrUnwanted
<2>1. \A s \in Runs : run'[s].state = "stopping" => run[s].state \notin {"starting", "running"}
  BY <1>0, <1>10 DEF SavesPid
<2> QED
  BY <2>1
<1>11. ASSUME NEW r \in Runs, Sends(r) PROVE SeenOrUnwanted
<2>1. \A s \in Runs : run'[s].state = "stopping" => run[s].state \notin {"starting", "running"}
  BY <1>0, <1>11 DEF Sends, Prompted
<2> QED
  BY <2>1
<1>12. ASSUME NEW r \in Runs, SendBreaks(r) PROVE SeenOrUnwanted
<2>1. \A s \in Runs : run'[s].state = "stopping" => run[s].state \notin {"starting", "running"}
  BY <1>0, <1>12 DEF SendBreaks
<2> QED
  BY <2>1
<1>13. ASSUME NEW r \in Runs, SendRefused(r) PROVE SeenOrUnwanted
<2>1. \A s \in Runs : run'[s].state = "stopping" => run[s].state \notin {"starting", "running"}
  BY <1>0, <1>13 DEF SendRefused
<2> QED
  BY <2>1
<1>14. ASSUME NEW r \in Runs, Accepts(r) PROVE SeenOrUnwanted
<2>1. \A s \in Runs : run'[s].state = "stopping" => run[s].state \notin {"starting", "running"}
  BY <1>0, <1>14 DEF Accepts, Running
<2> QED
  BY <2>1
<1>15. ASSUME NEW r \in Runs, Stops(r) PROVE SeenOrUnwanted
  BY <1>0, <1>15 DEF Stops, StopSeen, Marked
<1>16. ASSUME NEW r \in Runs, Deadline(r) PROVE SeenOrUnwanted
<2>1. \A s \in Runs : run'[s].state = "stopping" => run[s].state \notin {"starting", "running"}
  BY <1>0, <1>16 DEF Deadline
<2> QED
  BY <2>1
<1>17. ASSUME NEW r \in Runs, Settles(r) PROVE SeenOrUnwanted
<2>1. \A s \in Runs : run'[s].state = "stopping" => run[s].state \notin {"starting", "running"}
  BY <1>0, <1>17 DEF Settles
<2> QED
  BY <2>1
<1>18. ASSUME NEW r \in Runs, Fails(r) PROVE SeenOrUnwanted
<2>1. \A s \in Runs : run'[s].state = "stopping" => run[s].state \notin {"starting", "running"}
  BY <1>0, <1>18 DEF Fails
<2> QED
  BY <2>1
<1>19. ASSUME NEW r \in Runs, CodexSends(r) PROVE SeenOrUnwanted
<2>1. \A s \in Runs : run'[s].state = "stopping" => run[s].state \notin {"starting", "running"}
  BY <1>0, <1>19 DEF CodexSends
<2> QED
  BY <2>1
<1>20. ASSUME NEW r \in Runs, CodexTurns(r) PROVE SeenOrUnwanted
<2>1. \A s \in Runs : run'[s].state = "stopping" => run[s].state \notin {"starting", "running"}
  BY <1>0, <1>20 DEF CodexTurns
<2> QED
  BY <2>1
<1>21. ASSUME NEW r \in Runs, CodexReturns(r) PROVE SeenOrUnwanted
<2>1. \A s \in Runs : run'[s].state = "stopping" => run[s].state \notin {"starting", "running"}
  BY <1>0, <1>21 DEF CodexReturns
<2> QED
  BY <2>1
<1>22. ASSUME NEW r \in Runs, CodexAccepts(r) PROVE SeenOrUnwanted
<2>1. \A s \in Runs : run'[s].state = "stopping" => run[s].state \notin {"starting", "running"}
  BY <1>0, <1>22 DEF CodexAccepts, Running
<2> QED
  BY <2>1
<1>23. ASSUME NEW r \in Runs, Closes(r) PROVE SeenOrUnwanted
<2>1. \A s \in Runs : run'[s].state = "stopping" => run[s].state \notin {"starting", "running"}
  BY <1>0, <1>23 DEF Closes, Verdict
<2> QED
  BY <2>1
<1>24. ASSUME NEW r \in Runs, OrphanEnds(r) PROVE SeenOrUnwanted
<2>1. \A s \in Runs : run'[s].state = "stopping" => run[s].state \notin {"starting", "running"}
  BY <1>0, <1>24 DEF OrphanEnds
<2> QED
  BY <2>1
<1>25. ASSUME Die PROVE SeenOrUnwanted
<2>1. \A s \in Runs : run[s].state \in Active => run'[s].state # "stopping"
  BY <1>25, DieRows
<2> QED
  BY <2>1 DEF Active
<1> QED
  BY <1>1, <1>2, <1>3, <1>4, <1>5, <1>6, <1>7, <1>8, <1>9, <1>10, <1>11, <1>12, <1>13, <1>14, <1>15, <1>16, <1>17, <1>18, <1>19, <1>20, <1>21, <1>22, <1>23, <1>24, <1>25 DEF Next, Tools, Thread

-----------------------------------------------------------------------------
(* The inductive invariant and what follows from it.                          *)

LEMMA InitIInv ==
  ASSUME Init
  PROVE  IInv
<1> USE CodingAssumption DEF Init
<1>1. \A r \in Runs : /\ job[r].state = "absent" /\ run[r].state = "absent"
                      /\ run[r].delivery = "prepared" /\ runner[r] = "none"
                      /\ process[r] = "none" /\ prompts[r] = 0
  OBVIOUS
<1>2. TypeOK
  BY DEF TypeOK, NoView, RunStates, JobStates
<1>3. OneActive /\ Linked /\ Driven /\ Stage /\ Vouched /\ ProcessHeld /\ Unsent
  BY <1>1 DEF OneActive, Linked, Driven, Driving, Stage, Vouched, ProcessHeld, Unsent, Active
<1>4. JobFollowsRun
  BY <1>1 DEF JobFollowsRun
<1>5. DeliveryTold
  BY <1>1 DEF DeliveryTold
<1>6. ViewFence
  BY DEF ViewFence, NoView
<1> QED
  BY <1>2, <1>3, <1>4, <1>5, <1>6 DEF IInv

LEMMA StutterIInv ==
  ASSUME IInv, UNCHANGED vars
  PROVE  IInv'
<1> USE DEF vars, tables, threads
<1>1. TypeOK' /\ OneActive' /\ Linked' /\ Driven' /\ Stage' /\ Vouched'
  BY DEF IInv, TypeOK, OneActive, Linked, Driven, Stage, Vouched
<1>2. JobFollowsRun'
  BY DEF IInv, JobFollowsRun, RunsOf
<1>3. ProcessHeld' /\ Unsent' /\ DeliveryTold' /\ ViewFence'
  BY DEF IInv, ProcessHeld, Unsent, DeliveryTold, ViewFence
<1> QED
  BY <1>1, <1>2, <1>3 DEF IInv

(* IInv is an inductive invariant: of every instance, with any number of runs, jobs of *)
(* both methods and restarts.                                                          *)
THEOREM Invariance == Spec => []IInv
<1>1. Init => IInv
  BY InitIInv
<1>2. IInv /\ [Next]_vars => IInv'
  <2>1. ASSUME IInv, Next PROVE IInv'
    BY <2>1, TypeStep, PlaceStep, LinkedStep, JobStep, DrivenStep, StageStep, VouchedStep, ProcessStep,
       UnsentStep, DeliveryStep, FenceStep DEF IInv
  <2> QED
    BY <2>1, StutterIInv
<1> QED
  BY <1>1, <1>2, PTL DEF Spec

(* TypeCorrect: no statement of the coding service, of a runner or of reconcile writes a *)
(* value the schema does not have.                                                       *)
THEOREM TypeCorrect == Spec => []TypeOK
<1>1. IInv => TypeOK
  BY DEF IInv
<1> QED
  BY <1>1, Invariance, PTL

(* NeverTwoAgents: two agents never work at once, whatever outlives the application and *)
(* whoever gets a process id again: a process keeps the place of its run.               *)
THEOREM NeverTwoAgents == Spec => []OneAgentAtWork
<1>1. IInv => OneAgentAtWork
  BY DEF IInv, ProcessHeld, OneActive, OneAgentAtWork
<1> QED
  BY <1>1, Invariance, PTL

(* ToldTheTruth: the agent gets the prompt of a run at most once, and never that of a run *)
(* whose row says that it was not sent.                                                   *)
THEOREM ToldTheTruth == Spec => []DeliveryTold
<1>1. IInv => DeliveryTold
  BY DEF IInv
<1> QED
  BY <1>1, Invariance, PTL

(* JobAgrees: a job and its current run agree after every transaction of the tools, of a *)
(* runner and of reconcile.                                                              *)
THEOREM JobAgrees == Spec => []JobFollowsRun
<1>1. IInv => JobFollowsRun
  BY DEF IInv
<1> QED
  BY <1>1, Invariance, PTL

(* SeenIsStopped: a cancel with a revision that was inspected never stops a run that was *)
(* started since.                                                                        *)
THEOREM SeenIsStopped == Spec => CancelHitsSeen
<1>1. IInv /\ [Next]_vars => [SeenOrUnwanted]_vars
  BY CancelStep DEF IInv
<1> QED
  BY <1>1, Invariance, PTL DEF Spec, CancelHitsSeen, SeenOrUnwanted
-----------------------------------------------------------------------------
(* What the steward takes a run to be.                                        *)

(* The run r moves, and no other does. *)
Moved(r, st, ag) ==
  /\ Called(run'[r].state) = st /\ AgentOf(r)' = ag
  /\ \A s \in Runs \ {r} : Called(run'[s].state) = Called(run[s].state) /\ AgentOf(s)' = AgentOf(s)

LEMMA MovedPromised ==
  ASSUME NEW r \in Runs, NEW st, NEW ag, Moved(r, st, ag)
  PROVE  Promise!Moves(r, st, ag)
<1> DEFINE State == [s \in Runs |-> Called(run[s].state)]
           Agent == [s \in Runs |-> AgentOf(s)]
<1>1. State' = [State EXCEPT ![r] = st]
  BY DEF Moved
<1>2. Agent' = [Agent EXCEPT ![r] = ag]
  BY DEF Moved
<1> QED
  BY <1>1, <1>2 DEF Promise!Moves

(* A step that neither writes the state of a run nor begins or ends a thread is not seen. *)
LEMMA UnseenPromised ==
  ASSUME \A r \in Runs : Called(run'[r].state) = Called(run[r].state) /\ AgentOf(r)' = AgentOf(r)
  PROVE  UNCHANGED Promise!rvars
<1>1. [r \in Runs |-> Called(run[r].state)]' = [r \in Runs |-> Called(run[r].state)]
  OBVIOUS
<1>2. [r \in Runs |-> AgentOf(r)]' = [r \in Runs |-> AgentOf(r)]
  OBVIOUS
<1> QED
  BY <1>1, <1>2 DEF Promise!rvars

Live == Lines \ {"none", "due"}

(* A thread goes on while the states of all runs stay. *)
LEMMA ThreadUnseen ==
  ASSUME TypeOK, NEW r \in Runs, runner[r] \in Live, runner'[r] \in Live,
         \A s \in Runs : run'[s].state = run[s].state,
         \A s \in Runs \ {r} : runner'[s] = runner[s] /\ process'[s] = process[s]
  PROVE  UNCHANGED Promise!rvars
<1>1. ASSUME NEW s \in Runs
      PROVE  Called(run'[s].state) = Called(run[s].state) /\ AgentOf(s)' = AgentOf(s)
  <2>1. CASE s = r
    BY <2>1 DEF AgentOf, Live
  <2>2. CASE s # r
    BY <2>2 DEF AgentOf
  <2> QED BY <2>1, <2>2
<1> QED
  BY <1>1, UnseenPromised

(* Nobody has the place while no row is active. *)
LEMMA FreePlace ==
  ASSUME IInv, ~Busy, NEW s \in Runs
  PROVE  ~Promise!HasPlace(s)
<1>1. run[s].state \notin Active
  BY DEF Busy
<1>2. runner[s] = "none" /\ process[s] = "none"
  BY <1>1 DEF IInv, Driven, Driving, ProcessHeld, Active
<1>3. run[s].state \in {"absent"} \cup Closed
  BY <1>1, TypeParts DEF IInv, RunRows, RunStates
<1>4. Called(run[s].state) \notin {"queued", "running", "cancel_requested", "outcome_unknown"}
  BY <1>3 DEF Called, Closed
<1>5. AgentOf(s) = "none"
  BY <1>2 DEF AgentOf
<1> QED
  BY <1>4, <1>5 DEF Promise!HasPlace, Promise!Open

LEMMA NewRunPromised ==
  ASSUME IInv, NEW r \in Runs, NEW j \in Runs, NewRun(r, j)
  PROVE  Promise!Start(r)
<1>1. run \in [Runs -> RunRows] /\ ThreadTypes
  BY TypeParts DEF IInv
<1>2. Called(run[r].state) = "none"
  BY DEF NewRun, Called
<1>3. Moved(r, "queued", "due")
  BY <1>1 DEF NewRun, Moved, Called, AgentOf, ThreadTypes, RunRows
<1> QED
  BY <1>2, <1>3, MovedPromised, FreePlace DEF NewRun, Promise!Start

(* A stop is asked for, by a cancel or by the thread that sees that the run is not wanted. *)
LEMMA StopPromised ==
  ASSUME TypeOK, NEW r \in Runs, run[r].state \in {"starting", "running"},
         run' = [run EXCEPT ![r].state = "stopping"], AgentOf(r)' = AgentOf(r),
         \A s \in Runs \ {r} : AgentOf(s)' = AgentOf(s)
  PROVE  Promise!StopAsked(r)
<1>1. run \in [Runs -> RunRows]
  BY TypeParts
<1>2. Called(run[r].state) \in {"queued", "running"}
  BY DEF Called
<1>3. Moved(r, "cancel_requested", AgentOf(r))
  BY <1>1 DEF Moved, Called, RunRows
<1> QED
  BY <1>2, <1>3, MovedPromised DEF Promise!StopAsked

LEMMA CancelPromised ==
  ASSUME IInv, NEW j \in Runs, Cancel(j)
  PROVE  Promise!StopAsked(job[j].current)
<1> DEFINE r == job[j].current
<1>1. r \in Runs /\ run[r].state \in {"starting", "running"}
  <2>1. job[j] \in JobRows
    BY TypeParts DEF IInv
  <2>2. job[j].state # "absent" /\ job[j].state \in {"queued", "running"}
    BY DEF Cancel
  <2> QED BY <2>1, <2>2 DEF IInv, JobFollowsRun, JobRows, Closed
<1>2. /\ run' = [run EXCEPT ![r].state = "stopping"]
      /\ \A s \in Runs : AgentOf(s)' = AgentOf(s)
  BY DEF Cancel, threads, AgentOf
<1> QED
  BY <1>1, <1>2, StopPromised DEF IInv

LEMMA StopsPromised ==
  ASSUME IInv, NEW r \in Runs, Stops(r)
  PROVE  Promise!StopAsked(r) \/ UNCHANGED Promise!rvars
<1>1. /\ run \in [Runs -> RunRows] /\ ThreadTypes
      /\ run[r].state \in Driving /\ runner[r] \in Live
  BY TypeParts DEF IInv, Stops, Driven, Live, Lines
<1>2. /\ runner'[r] \in Live
      /\ \A s \in Runs \ {r} : runner'[s] = runner[s] /\ process'[s] = process[s]
  BY <1>1 DEF Stops, Over, Goto, ThreadTypes, Live, Lines
<1>3. \A s \in Runs : AgentOf(s)' = AgentOf(s)
  BY <1>1, <1>2 DEF AgentOf, Live
<1>4. CASE Marked(r) /\ run[r].state # "stopping"
  <2>1. run[r].state \in {"starting", "running"}
    BY <1>1, <1>4 DEF Driving
  <2> QED
    BY <1>3, <1>4, <2>1, StopPromised DEF Marked, IInv
<1>5. CASE Marked(r) /\ run[r].state = "stopping"
  <2>1. \A s \in Runs : run'[s].state = run[s].state
    BY <1>1, <1>5 DEF Marked, RunRows
  <2> QED
    BY <1>1, <1>2, <2>1, ThreadUnseen DEF IInv
<1>6. CASE UNCHANGED run
  BY <1>1, <1>2, <1>6, ThreadUnseen DEF IInv
<1> QED
  BY <1>4, <1>5, <1>6 DEF Stops, StopSeen

(* The agent's acceptance, of a pi run or of a codex turn. *)
LEMMA RunningPromised ==
  ASSUME IInv, NEW r \in Runs, runner[r] \in Live, runner'[r] \in Live,
         run' = [run EXCEPT ![r].delivery = "accepted", ![r].state = Running(@)],
         \A s \in Runs \ {r} : runner'[s] = runner[s] /\ process'[s] = process[s]
  PROVE  Promise!Accept(r) \/ UNCHANGED Promise!rvars
<1>1. run \in [Runs -> RunRows] /\ run[r].state \in Driving
  BY TypeParts DEF IInv, Driven, Live
<1>2. /\ run'[r].state = IF run[r].state = "stopping" THEN "stopping" ELSE "running"
      /\ \A s \in Runs \ {r} : run'[s] = run[s]
  BY <1>1 DEF Running, RunRows
<1>3. CASE run[r].state = "starting"
  <2>1. AgentOf(r) = "live" /\ Called(run[r].state) = "queued"
    BY <1>3 DEF AgentOf, Live, Called
  <2>2. Called(run'[r].state) = "running" /\ AgentOf(r)' = "live"
    BY <1>2, <1>3 DEF AgentOf, Live, Called
  <2>3. \A s \in Runs \ {r} :
          Called(run'[s].state) = Called(run[s].state) /\ AgentOf(s)' = AgentOf(s)
    BY <1>2 DEF AgentOf
  <2>4. Moved(r, "running", "live")
    BY <2>2, <2>3 DEF Moved
  <2> QED
    BY <2>1, <2>4, MovedPromised DEF Promise!Accept
<1>4. CASE run[r].state # "starting"
  <2>1. \A s \in Runs : run'[s].state = run[s].state
    BY <1>1, <1>2, <1>4 DEF Driving
  <2> QED
    BY <2>1, ThreadUnseen DEF IInv
<1> QED
  BY <1>3, <1>4

LEMMA AcceptsPromised ==
  ASSUME IInv, NEW r \in Runs, Accepts(r) \/ CodexAccepts(r)
  PROVE  Promise!Accept(r) \/ UNCHANGED Promise!rvars
<1>1. ThreadTypes
  BY TypeParts DEF IInv
<1>2. run' = [run EXCEPT ![r].delivery = "accepted", ![r].state = Running(@)]
  BY DEF Accepts, CodexAccepts
<1>3. runner[r] \in Live /\ runner'[r] \in Live
  BY <1>1 DEF Accepts, CodexAccepts, Over, Goto, At, ThreadTypes, Live, Lines
<1>4. \A s \in Runs \ {r} : runner'[s] = runner[s] /\ process'[s] = process[s]
  BY <1>1 DEF Accepts, CodexAccepts, Over, Goto, ThreadTypes
<1> QED
  BY <1>2, <1>3, <1>4, RunningPromised

(* The closing transaction, when the process is gone. *)
LEMMA ClosesPromised ==
  ASSUME IInv, NEW r \in Runs, Closes(r)
  PROVE  Promise!End(r)
<1>1. run \in [Runs -> RunRows] /\ ThreadTypes
  BY TypeParts DEF IInv
<1>2. /\ runner[r] = "over" /\ runner'[r] = "none" /\ process'[r] = "none"
      /\ \A s \in Runs \ {r} : runner'[s] = runner[s] /\ process'[s] = process[s]
  BY <1>1 DEF Closes, At, Goto, ThreadTypes, IInv, Stage
<1>3. /\ run'[r].state = Verdict(run[r].state, how[r])
      /\ \A s \in Runs \ {r} : run'[s] = run[s]
  BY <1>1 DEF Closes, RunRows
<1>4. run[r].state \in Driving /\ AgentOf(r) = "live"
  BY <1>2 DEF IInv, Driven, AgentOf
<1>5. Moved(r, run'[r].state, "none")
  BY <1>2, <1>3, <1>4 DEF Moved, AgentOf, Called, Verdict
<1>6. Promise!Moves(r, run'[r].state, "none")
  BY <1>5, MovedPromised
<1>7. CASE run[r].state = "stopping"
  <2>1. Called(run[r].state) = "cancel_requested" /\ run'[r].state = "interrupted"
    BY <1>3, <1>7 DEF Called, Verdict
  <2> QED BY <1>4, <1>6, <2>1 DEF Promise!End, Promise!Open
<1>8. CASE run[r].state # "stopping" /\ how[r] = "ok"
  <2>1. run[r].state = "running"
    BY <1>4, <1>8 DEF IInv, Vouched, Driving
  <2>2. Called(run[r].state) = "running" /\ run'[r].state = "settled"
    BY <1>3, <1>8, <2>1 DEF Called, Verdict
  <2> QED BY <1>4, <1>6, <2>2 DEF Promise!End, Promise!Open
<1>9. CASE run[r].state # "stopping" /\ how[r] # "ok"
  <2>1. Called(run[r].state) \in {"queued", "running"} /\ run'[r].state = "failed"
    BY <1>3, <1>4, <1>9 DEF Called, Verdict, Driving
  <2> QED BY <1>4, <1>6, <2>1 DEF Promise!End, Promise!Open
<1> QED
  BY <1>7, <1>8, <1>9

LEMMA SpawnPromised ==
  ASSUME IInv, NEW r \in Runs, Spawn(r)
  PROVE  Promise!Spawn(r)
<1>1. ThreadTypes
  BY TypeParts DEF IInv
<1>2. AgentOf(r) = "due"
  BY DEF Spawn, At, AgentOf
<1>3. Moved(r, Called(run[r].state), "live")
  BY <1>1 DEF Spawn, Goto, Moved, AgentOf, tables, ThreadTypes
<1> QED
  BY <1>2, <1>3, MovedPromised DEF Promise!Spawn

LEMMA OrphanPromised ==
  ASSUME IInv, NEW r \in Runs, OrphanEnds(r)
  PROVE  Promise!OrphanEnds(r)
<1>1. ThreadTypes
  BY TypeParts DEF IInv
<1>2. AgentOf(r) = "orphan"
  BY DEF OrphanEnds, At, AgentOf
<1>3. Moved(r, Called(run[r].state), "none")
  BY <1>1 DEF OrphanEnds, At, Moved, AgentOf, tables, ThreadTypes
<1> QED
  BY <1>2, <1>3, MovedPromised DEF Promise!OrphanEnds

(* The other lines of a thread: what goes on between its start and its end. *)
LEMMA WorkUnseen ==
  ASSUME IInv, NEW r \in Runs,
         \/ LooksOnce(r) \/ Launching(r) \/ Opens(r) \/ SavesPid(r) \/ Sends(r) \/ SendBreaks(r)
         \/ SendRefused(r) \/ Deadline(r) \/ Settles(r) \/ Fails(r)
         \/ CodexSends(r) \/ CodexTurns(r) \/ CodexReturns(r)
  PROVE  UNCHANGED Promise!rvars
<1> DEFINE Goes ==
      /\ runner[r] \in Live /\ runner'[r] \in Live
      /\ \A s \in Runs \ {r} : runner'[s] = runner[s] /\ process'[s] = process[s]
      /\ \A s \in Runs : run'[s].state = run[s].state
<1> USE DEF Live, Lines, Goto, At, Over, RunRows, tables
<1>0. run \in [Runs -> RunRows] /\ ThreadTypes
  BY TypeParts DEF IInv
<1>1. CASE LooksOnce(r)
  <2>1. Goes BY <1>0, <1>1 DEF LooksOnce, ThreadTypes
  <2> QED BY <2>1, ThreadUnseen DEF IInv
<1>2. CASE Launching(r)
  <2>1. Goes BY <1>0, <1>2 DEF Launching, ThreadTypes
  <2> QED BY <2>1, ThreadUnseen DEF IInv
<1>3. CASE Opens(r)
  <2>1. Goes BY <1>0, <1>3 DEF Opens, ThreadTypes
  <2> QED BY <2>1, ThreadUnseen DEF IInv
<1>4. CASE SavesPid(r)
  <2>1. Goes BY <1>0, <1>4 DEF SavesPid, ThreadTypes
  <2> QED BY <2>1, ThreadUnseen DEF IInv
<1>5. CASE Sends(r)
  <2>1. Goes BY <1>0, <1>5 DEF Sends, Prompted, ThreadTypes
  <2> QED BY <2>1, ThreadUnseen DEF IInv
<1>6. CASE SendBreaks(r)
  <2>1. Goes BY <1>0, <1>6 DEF SendBreaks, ThreadTypes
  <2> QED BY <2>1, ThreadUnseen DEF IInv
<1>7. CASE SendRefused(r)
  <2>1. Goes BY <1>0, <1>7 DEF SendRefused, ThreadTypes
  <2> QED BY <2>1, ThreadUnseen DEF IInv
<1>8. CASE Deadline(r)
  <2>1. Goes BY <1>0, <1>8 DEF Deadline, ThreadTypes
  <2> QED BY <2>1, ThreadUnseen DEF IInv
<1>9. CASE Settles(r)
  <2>1. Goes BY <1>0, <1>9 DEF Settles, ThreadTypes
  <2> QED BY <2>1, ThreadUnseen DEF IInv
<1>10. CASE Fails(r)
  <2>1. Goes BY <1>0, <1>10 DEF Fails, ThreadTypes
  <2> QED BY <2>1, ThreadUnseen DEF IInv
<1>11. CASE CodexSends(r)
  <2>1. Goes BY <1>0, <1>11 DEF CodexSends, ThreadTypes
  <2> QED BY <2>1, ThreadUnseen DEF IInv
<1>12. CASE CodexTurns(r)
  <2>1. Goes BY <1>0, <1>12 DEF CodexTurns, ThreadTypes
  <2> QED BY <2>1, ThreadUnseen DEF IInv
<1>13. CASE CodexReturns(r)
  <2>1. Goes BY <1>0, <1>13 DEF CodexReturns, ThreadTypes
  <2> QED BY <2>1, ThreadUnseen DEF IInv
<1> QED
  BY <1>1, <1>2, <1>3, <1>4, <1>5, <1>6, <1>7, <1>8, <1>9, <1>10, <1>11, <1>12, <1>13

(* What reconcile makes of a run of which no process lives: its place is kept only if the *)
(* run was on its way, or was kept already.                                               *)
LEMMA DoubtWasLive ==
  ASSUME IInv, Die, NEW r \in Runs, run'[r].state = "outcome_unknown"
  PROVE  AgentOf(r) \in {"live", "orphan"} \/ run[r].state = "outcome_unknown"
<1>1. PICK occupied \in BOOLEAN :
        /\ run'[r] = Reconciled(r, occupied)
        /\ occupied => run[r].state \in Active \/ process[r] # "none"
  <2>1. PICK alive \in SUBSET Runs, reused \in SUBSET Runs :
          /\ alive \subseteq {s \in Runs : process[s] # "none"}
          /\ reused \subseteq {s \in Runs : run[s].state \in Active}
          /\ run' = [s \in Runs |-> Reconciled(s, s \in alive \cup reused)]
    BY DEF Die
  <2> DEFINE occupied == r \in alive \cup reused
  <2>2. occupied \in BOOLEAN /\ run'[r] = Reconciled(r, occupied)
    BY <2>1
  <2>3. occupied => run[r].state \in Active \/ process[r] # "none"
    BY <2>1
  <2> HIDE DEF occupied
  <2> QED BY <2>2, <2>3
<1>2. run \in [Runs -> RunRows] /\ ThreadTypes
  BY TypeParts DEF IInv
<1>3. CASE run[r].state \notin Active
  BY <1>1, <1>3 DEF Reconciled
<1>4. CASE run[r].state \in Active /\ run[r].state # "outcome_unknown"
  <2>1. runner[r] # "none"
    BY <1>4 DEF IInv, Driven, Driving, Active
  <2>2. runner[r] # "due"
    <3> SUFFICES ASSUME runner[r] = "due" PROVE FALSE
      OBVIOUS
    <3>1. run[r].mark = "none" /\ run[r].delivery = "prepared"
      BY DEF IInv, Vouched, Stage
    <3>2. ~Unresolved(r, occupied)
      BY <3>1 DEF Unresolved
    <3>3. run'[r].state = "interrupted"
      BY <1>1, <1>2, <1>4, <3>2 DEF Reconciled, RunRows
    <3> QED BY <3>3
  <2> QED BY <2>1, <2>2 DEF AgentOf
<1> QED
  BY <1>3, <1>4

(* Death and the next start: as the promise has it, with the agents that live on and the *)
(* runs that reconcile is in doubt of.                                                   *)
LEMMA DiePromised ==
  ASSUME IInv, Die
  PROVE  Promise!Die
<1> DEFINE State == [r \in Runs |-> Called(run[r].state)]
           Agent == [r \in Runs |-> AgentOf(r)]
           Alive == {r \in Runs : process'[r] # "none"}
           Doubt == {r \in Runs : run'[r].state = "outcome_unknown"}
<1>1. ThreadTypes /\ run \in [Runs -> RunRows]
  BY TypeParts DEF IInv
<1>2. \A r \in Runs : runner'[r] = "none"
  BY DEF Die
<1>3. \A r \in Alive : /\ AgentOf(r) \in {"live", "orphan"}
                        /\ run'[r].state = "outcome_unknown"
  <2> SUFFICES ASSUME NEW r \in Runs, process'[r] # "none"
               PROVE  AgentOf(r) \in {"live", "orphan"} /\ run'[r].state = "outcome_unknown"
    OBVIOUS
  <2>1. process[r] # "none"
    BY DieRows DEF IInv
  <2>2. /\ run[r].state \in Active
        /\ run[r].mark \in {"launching", "pid"} \/ run[r].delivery # "prepared"
    BY <2>1 DEF IInv, ProcessHeld
  <2>3. run'[r].state = "outcome_unknown"
    BY <2>2, DieRows DEF IInv
  <2>4. runner[r] # "due"
    BY <2>2 DEF IInv, Stage, Vouched
  <2> QED BY <2>1, <2>3, <2>4 DEF AgentOf
<1>4. Alive \in SUBSET {r \in Runs : Agent[r] \in {"live", "orphan"}}
  BY <1>3
<1>5. Doubt \in SUBSET {r \in Runs : \/ Agent[r] \in {"live", "orphan"}
                                     \/ State[r] = "outcome_unknown"}
  BY DoubtWasLive DEF Called
<1>6. Agent' = [r \in Runs |-> IF r \in Alive THEN "orphan" ELSE "none"]
  BY <1>2 DEF AgentOf
<1>7. State' = [r \in Runs |-> IF State[r] \notin Promise!Open \cup {"outcome_unknown"} THEN State[r]
                               ELSE IF r \in Alive \cup Doubt THEN "outcome_unknown"
                               ELSE "interrupted"]
  <2> SUFFICES ASSUME NEW r \in Runs
               PROVE  Called(run'[r].state) =
                        IF Called(run[r].state) \notin Promise!Open \cup {"outcome_unknown"}
                        THEN Called(run[r].state)
                        ELSE IF r \in Alive \cup Doubt THEN "outcome_unknown" ELSE "interrupted"
    OBVIOUS
  <2>1. run[r].state \in RunStates
    BY <1>1 DEF RunRows
  <2>2. CASE run[r].state \in Active
    <3>1. Called(run[r].state) \in Promise!Open \cup {"outcome_unknown"}
      BY <2>2 DEF Active, Called, Promise!Open
    <3>2. run'[r].state \in {"outcome_unknown", "interrupted"}
      BY <2>2, DieRows DEF IInv
    <3>3. r \in Alive \cup Doubt <=> run'[r].state = "outcome_unknown"
      BY <1>3
    <3>4. Called(run'[r].state) = run'[r].state
      BY <3>2 DEF Called
    <3> QED BY <3>1, <3>2, <3>3, <3>4
  <2>3. CASE run[r].state \notin Active
    <3>1. run'[r] = run[r]
      BY <2>3, DieRows DEF IInv
    <3>2. Called(run[r].state) \notin Promise!Open \cup {"outcome_unknown"}
      BY <2>1, <2>3 DEF RunStates, Active, Closed, Called, Promise!Open
    <3> QED BY <3>1, <3>2
  <2> QED BY <2>2, <2>3
<1> HIDE DEF Alive, Doubt
<1> QED
  BY <1>4, <1>5, <1>6, <1>7 DEF Promise!Die

LEMMA InitPromised ==
  ASSUME Init
  PROVE  Promise!Init
<1>1. \A r \in Runs : Called(run[r].state) = "none" /\ AgentOf(r) = "none"
  BY DEF Init, Called, AgentOf
<1> QED
  BY <1>1 DEF Promise!Init

(* Every step of the coding agent is one of the promise's, or not seen. *)
LEMMA PromiseStep ==
  ASSUME IInv, [Next]_vars
  PROVE  [Promise!Next]_Promise!rvars
<1>1. ASSUME NEW r \in Runs, Start(r) PROVE Promise!Next
  BY <1>1, NewRunPromised DEF Start, Promise!Next
<1>2. ASSUME NEW r \in Runs, NEW j \in Runs, Continue(r, j) PROVE Promise!Next
  BY <1>2, NewRunPromised DEF Continue, Promise!Next
<1>3. ASSUME NEW j \in Runs, Cancel(j) PROVE Promise!Next
  <2>1. job[j].current \in Runs
    BY TypeParts DEF IInv, JobRows
  <2> QED BY <1>3, <2>1, CancelPromised DEF Promise!Next
<1>4. ASSUME NEW r \in Runs, Inspect(r) \/ Forget(r) PROVE UNCHANGED Promise!rvars
  <2>1. UNCHANGED <<run, runner, process>>
    BY <1>4 DEF Inspect, Forget, tables, threads
  <2> QED BY <2>1, UnseenPromised DEF AgentOf
<1>5. ASSUME NEW r \in Runs, Spawn(r) PROVE Promise!Next
  BY <1>5, SpawnPromised DEF Promise!Next
<1>6. ASSUME NEW r \in Runs, Stops(r) PROVE Promise!Next \/ UNCHANGED Promise!rvars
  BY <1>6, StopsPromised DEF Promise!Next
<1>7. ASSUME NEW r \in Runs, Accepts(r) \/ CodexAccepts(r)
      PROVE  Promise!Next \/ UNCHANGED Promise!rvars
  BY <1>7, AcceptsPromised DEF Promise!Next
<1>8. ASSUME NEW r \in Runs, Closes(r) PROVE Promise!Next
  BY <1>8, ClosesPromised DEF Promise!Next
<1>9. ASSUME NEW r \in Runs, OrphanEnds(r) PROVE Promise!Next
  BY <1>9, OrphanPromised DEF Promise!Next
<1>10. ASSUME Die PROVE Promise!Next
  BY <1>10, DiePromised DEF Promise!Next
<1>11. ASSUME UNCHANGED vars PROVE UNCHANGED Promise!rvars
  <2>1. UNCHANGED <<run, runner, process>>
    BY <1>11 DEF vars, tables, threads
  <2> QED BY <2>1, UnseenPromised DEF AgentOf
<1> QED
  BY <1>1, <1>2, <1>3, <1>4, <1>5, <1>6, <1>7, <1>8, <1>9, <1>10, <1>11, WorkUnseen
  DEF Next, Tools, Thread

(* RunsPromised: a run of either method is what the steward takes a run to be: the threads, *)
(* processes and rows of coding/ keep RunPromise, and nothing of theirs is rolled back.     *)
THEOREM RunsPromised == Spec => KeepsPromise
<1>1. Init => Promise!Init
  BY InitPromised
<1>2. IInv /\ [Next]_vars => [Promise!Next]_Promise!rvars
  BY PromiseStep
<1> QED
  BY <1>1, <1>2, Invariance, PTL DEF Spec, KeepsPromise, Promise!Spec

-----------------------------------------------------------------------------
(* What follows from it.                                                       *)

(* An open run is never without the thread that will close it, while the application runs: *)
(* the row and the thread are left together, and reconcile leaves no open row behind.       *)
THEOREM NoneAbandoned == Spec => []Driven
<1>1. IInv => Driven
  BY DEF IInv
<1> QED
  BY <1>1, Invariance, PTL

(* A run that is over stays as it ended, and one that was asked to stop does not settle. *)
StopKept ==
  \A r \in Runs :
    /\ run[r].state \in Closed => run'[r].state = run[r].state
    /\ run[r].state = "stopping" => run'[r].state \in {"stopping", "interrupted", "outcome_unknown"}

LEMMA CalledApart ==
  ASSUME TypeOK, TypeOK', NEW r \in Runs
  PROVE  /\ run[r].state \in Closed => Called(run[r].state) = run[r].state
         /\ run'[r].state \in Closed <=> Called(run'[r].state) \in Closed
         /\ Called(run'[r].state) \in Closed \cup {"outcome_unknown"}
              => Called(run'[r].state) = run'[r].state
         /\ run[r].state = "stopping" <=> Called(run[r].state) = "cancel_requested"
         /\ run'[r].state = "stopping" <=> Called(run'[r].state) = "cancel_requested"
<1>1. run[r].state \in RunStates /\ run'[r].state \in RunStates
  BY DEF TypeOK
<1> QED
  BY <1>1 DEF Called, RunStates, Active, Closed

LEMMA StopStep ==
  ASSUME TypeOK, TypeOK', [Promise!Next]_(Promise!rvars)
  PROVE  StopKept
<1> DEFINE st == [r \in Runs |-> Called(run[r].state)]
           Kept == \A r \in Runs :
                     /\ st[r] \in Closed => st'[r] = st[r]
                     /\ st[r] = "cancel_requested"
                          => st'[r] \in {"cancel_requested", "interrupted", "outcome_unknown"}
<1>1. ASSUME NEW r \in Runs,
             Promise!Start(r) \/ Promise!Spawn(r) \/ Promise!Accept(r)
               \/ Promise!StopAsked(r) \/ Promise!End(r) \/ Promise!OrphanEnds(r)
      PROVE  Kept
  <2>1. PICK x :
          /\ st' = [st EXCEPT ![r] = x]
          /\ \/ x = st[r]
             \/ st[r] \in {"none", "queued", "running"}
             \/ st[r] = "cancel_requested" /\ x = "interrupted"
    BY <1>1 DEF Promise!Start, Promise!Spawn, Promise!Accept, Promise!StopAsked, Promise!End,
                Promise!OrphanEnds, Promise!Open, Promise!Moves
  <2>2. DOMAIN st = Runs
    OBVIOUS
  <2> HIDE DEF st
  <2> QED BY <2>1, <2>2 DEF Closed
<1>2. ASSUME Promise!Die PROVE Kept
  BY <1>2 DEF Promise!Die, Promise!Open, Closed
<1>3. ASSUME UNCHANGED Promise!rvars PROVE Kept
  BY <1>3 DEF Promise!rvars, Closed
<1>4. Kept
  BY <1>1, <1>2, <1>3 DEF Promise!Next
<1>5. SUFFICES ASSUME NEW r \in Runs
               PROVE  /\ run[r].state \in Closed => run'[r].state = run[r].state
                      /\ run[r].state = "stopping"
                           => run'[r].state \in {"stopping", "interrupted", "outcome_unknown"}
  BY DEF StopKept
<1>6. st[r] = Called(run[r].state) /\ st'[r] = Called(run'[r].state)
  OBVIOUS
<1> HIDE DEF st
<1> QED
  BY <1>4, <1>6, CalledApart DEF Closed

(* A run that its user or the model stopped never counts as settled, and nothing that comes *)
(* late, an answer, a closing transaction or a reconcile, changes an end.                   *)
THEOREM StopsStand == Spec => [][StopKept]_vars
<1>1. TypeOK /\ TypeOK' /\ [Promise!Next]_(Promise!rvars) => StopKept
  BY StopStep
<1> QED
  BY <1>1, TypeCorrect, RunsPromised, PTL DEF KeepsPromise, Promise!Spec
=============================================================================
