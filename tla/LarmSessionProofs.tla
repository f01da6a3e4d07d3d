------------------------- MODULE LarmSessionProofs -------------------------
(***************************************************************************)
(* LarmSession implements SessionPromise for any set of callers, any limit *)
(* and any number of renewals.                                             *)
(***************************************************************************)
EXTENDS LarmSession, TLAPS

CallStages ==
  {"idle", "claim", "failing", "retrying", "look", "renewing", "renewed", "refused", "guard",
   "health", "permit", "use", "failed", "clear", "closing", "done", "over"}
RenewalStages == {"none", "begin", "peek", "lock", "post", "claim", "closing", "ok", "error"}
CloseStages == {"none", "begin", "lock", "delete", "ok", "error"}

IsLock(l) == l = [readers |-> l.readers, writers |-> l.writers, queue |-> l.queue]

Shapes ==
  /\ server \in Nat /\ dues \in Nat
  /\ session \in [closed : BOOLEAN, stopped : BOOLEAN, released : BOOLEAN]
  /\ snapshot \in [generation : Nat, age : {"none", "fresh", "due", "expired"}]
  /\ lease \in [Callers -> Nat]
  /\ IsLock(lock)
  /\ call \in [Processes -> CallStages]
  /\ renewal \in [Processes -> RenewalStages]
  /\ closing \in [Processes -> CloseStages]
  /\ cached \in BOOLEAN /\ dropped \in BOOLEAN /\ asked \in BOOLEAN

(* What the session holds is what the service honours, and a generation comes close *)
(* to its expiry once.                                                              *)
Current ==
  /\ server \in {dues, dues + 1}
  /\ snapshot.age # "none" => snapshot.generation = server
  /\ snapshot.age = "fresh" => server = dues + 1
  /\ snapshot.age \in {"due", "expired"} => server = dues

(* A lease is a read lock, which excludes every writer. *)
Leased ==
  /\ \A c \in Callers : lease[c] # 0 => call[c] \in {"health", "permit", "use"} /\ c \in lock.readers
  /\ lock.writers # {} => \A c \in Callers : lease[c] = 0

(* Who talks to the service about the connection has the write lock and has thrown *)
(* the credentials away.                                                           *)
Writing ==
  \A p \in Processes :
    /\ renewal[p] \in {"post", "claim"} =>
         lock.writers = {Task("renew", p)} /\ snapshot.age = "none"
    /\ renewal[p] = "post" => server = dues
    /\ renewal[p] = "claim" => server = dues + 1
    /\ closing[p] = "delete" => lock.writers = {Task("close", p)} /\ snapshot.age = "none"

(* Nothing happens before the first claim. *)
Starting ==
  call[Starter] = "claim" =>
    /\ ~asked /\ ~cached /\ ~dropped /\ snapshot.age = "none" /\ server = dues + 1
    /\ \A p \in Processes :
         renewal[p] = "none" /\ closing[p] = "none" /\ (p # Starter => call[p] = "idle")

(* A session that is closed stays so, and after the connection was given back nobody *)
(* obtains credentials for it.                                                       *)
Ended ==
  /\ \A p \in Processes : closing[p] # "none" => session.closed
  /\ asked => dropped \/ (session.closed /\ snapshot.age = "none")
  /\ asked => \A p \in Processes : renewal[p] \notin {"post", "claim"}
  /\ dropped => Gone

IInv == Shapes /\ Current /\ Leased /\ Writing /\ Starting /\ Ended

(* A session starts in the invariant: nothing is claimed, lent or closed. *)
LEMMA InitHolds == Init => IInv
<1> SUFFICES ASSUME Init PROVE IInv
  OBVIOUS
<1>1. Shapes
  BY DEF Init, Shapes, Empty, Processes, CallStages, RenewalStages, CloseStages,
         IsLock
<1>2. Current /\ Leased /\ Writing /\ Starting /\ Ended
  BY DEF Init, Current, Leased, Writing, Starting, Ended, Empty, Processes
<1> QED
  BY <1>1, <1>2 DEF IInv

-----------------------------------------------------------------------------
(* Asking for the lock and being served changes the queue only. *)
LEMMA QueueOnly ==
  ASSUME NEW l, IsLock(l), NEW t
  PROVE  /\ IsLock(Asking(l, t)) /\ IsLock(Served(l))
         /\ Asking(l, t).readers = l.readers /\ Asking(l, t).writers = l.writers
         /\ Served(l).readers = l.readers /\ Served(l).writers = l.writers
<1> DEFINE longer == Append(l.queue, t)
           shorter == Tail(l.queue)
<1>1. Asking(l, t) = [l EXCEPT !.queue = longer] /\ Served(l) = [l EXCEPT !.queue = shorter]
  BY DEF Asking, Served
<1> HIDE DEF longer, shorter
<1>2. Asking(l, t) = [readers |-> l.readers, writers |-> l.writers, queue |-> longer]
  BY <1>1 DEF IsLock
<1>3. Served(l) = [readers |-> l.readers, writers |-> l.writers, queue |-> shorter]
  BY <1>1 DEF IsLock
<1> QED
  BY <1>2, <1>3 DEF IsLock

(* close marks the session. *)
LEMMA CloseMarks ==
  ASSUME Shapes, NEW p \in Processes, Closes(p)
  PROVE  /\ session' \in [closed : BOOLEAN, stopped : BOOLEAN, released : BOOLEAN] /\ session'.closed
         /\ closing' = [closing EXCEPT ![p] = "begin"] /\ closing' \in [Processes -> CloseStages]
  BY DEF Shapes, Closes, Closed, CloseStages

(* Most steps move a request, a renewal or a close on and leave the rest alone. *)

Working == {"health", "permit", "use"}

Quiet ==
  /\ Shapes'
  /\ UNCHANGED <<server, dues, snapshot, lease, asked, dropped>>
  /\ lock'.readers = lock.readers /\ lock'.writers = lock.writers
  /\ session.closed => session'.closed
  /\ \A p \in Processes :
       /\ renewal'[p] \in {"post", "claim"} => renewal'[p] = renewal[p]
       /\ closing'[p] = "delete" => closing[p] = "delete"
       /\ closing'[p] # "none" => closing[p] # "none" \/ session'.closed
  /\ \A c \in Callers : call[c] \in Working => call'[c] \in Working
  /\ call'[Starter] # "claim"
  /\ dropped => Gone'

(* A quiet step keeps the invariant. *)
LEMMA QuietStep == IInv /\ Quiet => IInv'
<1> SUFFICES ASSUME IInv, Quiet PROVE IInv'
  OBVIOUS
<1>1. Current'
  BY DEF IInv, Current, Quiet
<1>2. Leased'
  BY DEF IInv, Leased, Quiet, Working
<1>3. Writing'
  BY DEF IInv, Writing, Quiet, Task
<1>4. Starting'
  BY DEF Starting, Quiet
<1>5. Ended'
  BY DEF IInv, Ended, Quiet
<1> QED
  BY <1>1, <1>2, <1>3, <1>4, <1>5 DEF IInv, Quiet

(* Whoever is under way was started after the first claim and keeps the session alive. *)
LEMMA UnderWay ==
  ASSUME IInv, NEW p \in Processes,
         \/ call[p] \notin {"idle", "claim", "done", "over"}
         \/ renewal[p] \in {"begin", "peek", "lock", "post", "claim", "closing"}
         \/ closing[p] \in {"begin", "lock", "delete"}
         \/ cached
  PROVE  call[Starter] # "claim" /\ ~dropped
  BY DEF IInv, Shapes, Starting, Ended, Gone, Holders

(* A renewal or a close is begun, waits or ends. *)
LEMMA RenewalSteps ==
  ASSUME IInv, NEW p \in Processes,
         LooksDue(p) \/ RenewalReturns(p) \/ RenewalBegins(p) \/ RenewalPeeks(p) \/
         RenewalGivesUp(p) \/ CloseBegins(p)
  PROVE  Quiet
<1>1. call[Starter] # "claim" /\ ~dropped
  BY UnderWay DEF LooksDue, RenewalReturns, RenewalBegins, RenewalPeeks, RenewalGivesUp, CloseBegins
<1>2. Shapes'
  <2>1. CASE LooksDue(p)
    BY QueueOnly, <2>1 DEF IInv, Shapes, Processes, LooksDue, Stage, CallStages, RenewalStages,
                           CloseStages
  <2>2. CASE RenewalReturns(p)
    BY <2>2 DEF IInv, Shapes, Processes, RenewalReturns, Stage, CallStages, RenewalStages,
                CloseStages
  <2>3. CASE RenewalBegins(p)
    BY QueueOnly, <2>3 DEF IInv, Shapes, Processes, RenewalBegins, RenewalGoes, CallStages,
                           RenewalStages, CloseStages
  <2>4. CASE RenewalPeeks(p)
    BY QueueOnly, <2>4 DEF IInv, Shapes, Processes, RenewalPeeks, RenewalGoes, CallStages,
                           RenewalStages, CloseStages
  <2>5. CASE RenewalGivesUp(p)
    BY <2>5 DEF IInv, Shapes, Processes, RenewalGivesUp, RenewalGoes, CallStages, RenewalStages,
                CloseStages
  <2>6. CASE CloseBegins(p)
    BY QueueOnly, <2>6 DEF IInv, Shapes, Processes, CloseBegins, CallStages, RenewalStages,
                           CloseStages
  <2> QED
    BY <2>1, <2>2, <2>3, <2>4, <2>5, <2>6
<1>3. lock'.readers = lock.readers /\ lock'.writers = lock.writers
  BY QueueOnly DEF IInv, Shapes, LooksDue, RenewalReturns, RenewalBegins, RenewalPeeks,
                   RenewalGivesUp, CloseBegins, RenewalGoes, Stage
<1>4. call'[Starter] # "claim" /\ \A c \in Callers : call[c] \in Working => call'[c] \in Working
  BY <1>1 DEF IInv, Shapes, Working, Processes, LooksDue, RenewalReturns, RenewalBegins,
              RenewalPeeks, RenewalGivesUp, CloseBegins, RenewalGoes, Stage
<1>5. \A q \in Processes :
        /\ renewal'[q] \in {"post", "claim"} => renewal'[q] = renewal[q]
        /\ closing'[q] = "delete" => closing[q] = "delete"
        /\ closing'[q] # "none" => closing[q] # "none" \/ session'.closed
  BY DEF IInv, Shapes, LooksDue, RenewalReturns, RenewalBegins, RenewalPeeks, RenewalGivesUp,
         CloseBegins, RenewalGoes, Stage
<1>6. UNCHANGED <<server, dues, snapshot, lease, asked, dropped>> /\ (session.closed => session'.closed)
  BY DEF IInv, Shapes, LooksDue, RenewalReturns, RenewalBegins, RenewalPeeks, RenewalGivesUp,
         CloseBegins, RenewalGoes, Stage
<1> QED
  BY <1>1, <1>2, <1>3, <1>4, <1>5, <1>6 DEF Quiet

(* A request asks for the lock, for a permit or for a close, or returns. *)
LEMMA RequestSteps ==
  ASSUME IInv, NEW p \in Callers,
         Acquires(p) \/ Asks(p) \/ GetsPermit(p) \/ Evicts(p) \/ Checks(p) \/ TakesOut(p) \/
         CloseReturns(p)
  PROVE  Quiet
<1>1. call[Starter] # "claim" /\ ~dropped
  BY UnderWay DEF Processes, Acquires, Asks, GetsPermit, Evicts, Checks, TakesOut, CloseReturns
<1>2. Shapes'
  <2>1. CASE Acquires(p)
    BY QueueOnly, <2>1 DEF IInv, Shapes, Processes, Acquires, Stage, CallStages, RenewalStages,
                           CloseStages
  <2>2. CASE Asks(p)
    BY QueueOnly, <2>2 DEF IInv, Shapes, Processes, Asks, Stage, CallStages, RenewalStages,
                           CloseStages
  <2>3. CASE GetsPermit(p)
    BY <2>3 DEF IInv, Shapes, Processes, GetsPermit, Stage, CallStages, RenewalStages, CloseStages
  <2>4. CASE Evicts(p)
    BY <2>4 DEF IInv, Shapes, Processes, Evicts, Stage, CallStages, RenewalStages, CloseStages
  <2>5. CASE Checks(p)
    BY QueueOnly, <2>5 DEF IInv, Shapes, Processes, Checks, Stage, CallStages, RenewalStages,
                           CloseStages
  <2>6. CASE TakesOut(p)
    <3>1. /\ session' \in [closed : BOOLEAN, stopped : BOOLEAN, released : BOOLEAN]
          /\ closing' \in [Processes -> CloseStages]
      BY <2>6, CloseMarks DEF IInv, Shapes, Processes, TakesOut
    <3> QED
      BY <2>6, <3>1 DEF IInv, Shapes, Processes, TakesOut, Stage, CallStages
  <2>7. CASE CloseReturns(p)
    BY <2>7 DEF IInv, Shapes, Processes, CloseReturns, Stage, CallStages, RenewalStages, CloseStages
  <2> QED
    BY <2>1, <2>2, <2>3, <2>4, <2>5, <2>6, <2>7
<1>3. lock'.readers = lock.readers /\ lock'.writers = lock.writers
  <2>1. \A t : Asking(lock, t).readers = lock.readers /\ Asking(lock, t).writers = lock.writers
    BY QueueOnly DEF IInv, Shapes
  <2>2. CASE Acquires(p) \/ Asks(p) \/ Checks(p)
    <3>1. lock' = lock \/ lock' = Asking(lock, Task("call", p))
      BY <2>2 DEF Acquires, Asks, Checks
    <3> QED
      BY <2>1, <3>1
  <2>3. CASE GetsPermit(p) \/ Evicts(p) \/ TakesOut(p) \/ CloseReturns(p)
    BY <2>3 DEF GetsPermit, Evicts, TakesOut, CloseReturns
  <2> QED
    BY <2>2, <2>3
<1>4. call'[Starter] # "claim" /\ \A c \in Callers : call[c] \in Working => call'[c] \in Working
  BY <1>1 DEF IInv, Shapes, Working, Processes, Acquires, Asks, GetsPermit, Evicts, Checks,
              TakesOut, CloseReturns, Closed, Closes, Stage
<1>5. \A q \in Processes :
        /\ renewal'[q] \in {"post", "claim"} => renewal'[q] = renewal[q]
        /\ closing'[q] = "delete" => closing[q] = "delete"
        /\ closing'[q] # "none" => closing[q] # "none" \/ session'.closed
  BY DEF IInv, Shapes, Acquires, Asks, GetsPermit, Evicts, Checks, TakesOut, CloseReturns, Closed,
         Closes, Stage
<1>6. UNCHANGED <<server, dues, snapshot, lease, asked, dropped>> /\ (session.closed => session'.closed)
  BY DEF IInv, Shapes, Acquires, Asks, GetsPermit, Evicts, Checks, TakesOut, CloseReturns, Closed,
         Closes, Stage
<1> QED
  BY <1>1, <1>2, <1>3, <1>4, <1>5, <1>6 DEF Quiet

(* A start fails or ends, and the renewal task turns. *)
LEMMA TaskSteps ==
  ASSUME IInv, StartFails \/ StartEnds \/ TickerTurns
  PROVE  Quiet
<1> USE DEF Processes
<1> DEFINE Marks ==
             /\ session' \in [closed : BOOLEAN, stopped : BOOLEAN, released : BOOLEAN]
             /\ session.closed => session'.closed
             /\ closing' \in [Processes -> CloseStages]
             /\ \A q \in Processes :
                  /\ closing'[q] = "delete" => closing[q] = "delete"
                  /\ closing'[q] # "none" => closing[q] # "none" \/ session'.closed
           Moves(p, stage) ==
             /\ call[p] \notin Working /\ stage # "claim"
             /\ call' = [call EXCEPT ![p] = stage]
<1>1. ~dropped
  <2>1. CASE StartFails
    BY <2>1 DEF IInv, Starting, StartFails
  <2>2. CASE StartEnds \/ TickerTurns
    BY <2>2, UnderWay DEF StartEnds, TickerTurns
  <2> QED
    BY <2>1, <2>2
<1>2. Marks
  <2>1. CASE UNCHANGED <<session, closing>>
    BY <2>1 DEF IInv, Shapes
  <2>2. ASSUME NEW p \in Processes, Closes(p) PROVE Marks
    BY <2>2, CloseMarks DEF IInv, Shapes
  <2> QED
    BY <2>1, <2>2 DEF StartFails, StartEnds, TickerTurns
<1>3. call'[Starter] # "claim" /\ \E p \in Processes, stage \in CallStages : Moves(p, stage)
  <2>1. CASE StartFails
    <3>1. Moves(Starter, "failing")
      BY <2>1 DEF StartFails, Stage, Working
    <3> QED
      BY <3>1 DEF IInv, Shapes, CallStages
  <2>2. CASE StartEnds
    <3>1. Moves(Starter, "retrying") \/ Moves(Starter, "done")
      BY <2>2 DEF StartEnds, Stage, Working
    <3> QED
      BY <3>1 DEF IInv, Shapes, CallStages
  <2>3. CASE TickerTurns
    <3>1. Moves(Ticker, "idle") \/ Moves(Ticker, "closing") \/ Moves(Ticker, "over")
      BY <2>3 DEF TickerTurns, Stage, Working
    <3>2. call[Starter] # "claim"
      BY <2>3, UnderWay DEF TickerTurns
    <3> QED
      BY <3>1, <3>2 DEF IInv, Shapes, CallStages
  <2> QED
    BY <2>1, <2>2, <2>3
<1>4. /\ call' \in [Processes -> CallStages]
      /\ \A c \in Callers : call[c] \in Working => call'[c] \in Working
  BY <1>3 DEF IInv, Shapes
<1>5. UNCHANGED <<server, snapshot, lock, renewal, cached, dropped, asked, dues, lease>>
  BY DEF StartFails, StartEnds, TickerTurns
<1>6. Shapes'
  BY <1>2, <1>4, <1>5 DEF IInv, Shapes
<1> QED
  BY <1>1, <1>2, <1>3, <1>4, <1>5, <1>6 DEF Quiet

(* The renewal task wakes, asks for the lock or is over. *)
LEMMA WakeSteps ==
  ASSUME IInv, TickerWakes
  PROVE  Quiet
<1> USE DEF Processes
<1>1. PICK stage \in {"over", "look"} : call' = [call EXCEPT ![Ticker] = stage] /\ (Gone => stage = "over")
  BY DEF TickerWakes, Stage
<1>2. /\ call' \in [Processes -> CallStages] /\ call'[Starter] # "claim"
      /\ \A c \in Callers : call[c] \in Working => call'[c] \in Working
  BY <1>1 DEF IInv, Shapes, CallStages, Working, TickerWakes
<1>3. IsLock(lock') /\ lock'.readers = lock.readers /\ lock'.writers = lock.writers
  <2>1. lock' = lock \/ lock' = Asking(lock, Task("call", Ticker))
    BY DEF TickerWakes
  <2> QED
    BY <2>1, QueueOnly DEF IInv, Shapes
<1>4. UNCHANGED <<server, session, snapshot, renewal, closing, cached, dropped, asked, dues, lease>>
  BY DEF TickerWakes
<1>5. dropped => Gone'
  BY <1>1, <1>4 DEF IInv, Ended, Shapes, Gone, Holders
<1>6. Shapes'
  BY <1>2, <1>3, <1>4 DEF IInv, Shapes
<1> QED
  BY <1>2, <1>3, <1>4, <1>5, <1>6 DEF Quiet

-----------------------------------------------------------------------------
(* What taking and returning the two sides of the lock does to it. *)
LEMMA LockTaken ==
  ASSUME NEW l, IsLock(l), NEW w
  PROVE  LET n == [Served(l) EXCEPT !.writers = w]
         IN  IsLock(n) /\ n.readers = l.readers /\ n.writers = w
<1>1. IsLock(Served(l)) /\ Served(l).readers = l.readers
  BY QueueOnly
<1> QED
  BY <1>1 DEF IsLock

(* A reader is added, and no writer. *)
LEMMA LockRead ==
  ASSUME NEW l, IsLock(l), NEW c
  PROVE  LET n == [Served(l) EXCEPT !.readers = @ \cup {c}]
         IN  IsLock(n) /\ n.readers = l.readers \cup {c} /\ n.writers = l.writers
<1>1. IsLock(Served(l)) /\ Served(l).readers = l.readers /\ Served(l).writers = l.writers
  BY QueueOnly
<1> QED
  BY <1>1 DEF IsLock

(* The write lock is let go; a reader that returns, or is dropped, is gone. *)
LEMMA LockReturned ==
  ASSUME NEW l, IsLock(l), NEW c
  PROVE  /\ IsLock(Unlocked(l)) /\ Unlocked(l).readers = l.readers /\ Unlocked(l).writers = {}
         /\ IsLock(Without(l, c)) /\ Without(l, c).readers = l.readers \ {c}
         /\ Without(l, c).writers = l.writers
<1> DEFINE rest == SelectSeq(l.queue, LAMBDA t : t # Task("call", c))
<1>1. Without(l, c) = [l EXCEPT !.readers = @ \ {c}, !.queue = rest]
  BY DEF Without
<1> HIDE DEF rest
<1>2. Without(l, c) = [readers |-> l.readers \ {c}, writers |-> l.writers, queue |-> rest]
  BY <1>1 DEF IsLock
<1>3. Unlocked(l) = [readers |-> l.readers, writers |-> {}, queue |-> l.queue]
  BY DEF Unlocked, IsLock
<1> QED
  BY <1>2, <1>3 DEF IsLock

(* While nobody reads, nothing is lent, and nobody else writes. *)
LEMMA NobodyElse ==
  ASSUME IInv, NEW t, WriteGranted(t)
  PROVE  /\ \A c \in Callers : lease[c] = 0
         /\ \A p \in Processes : renewal[p] \notin {"post", "claim"} /\ closing[p] # "delete"
<1>1. lock.readers = {} /\ lock.writers = {}
  BY DEF WriteGranted, ReadGranted
<1> QED
  BY <1>1 DEF IInv, Leased, Writing

(* The renewal that finds the credentials due throws them away. *)
LEMMA RenewalLocksStep ==
  ASSUME IInv, NEW p \in Processes, RenewalLocks(p)
  PROVE  IInv' /\ UNCHANGED <<server, dues, asked, lease>>
<1>1. call[Starter] # "claim" /\ ~dropped
  BY UnderWay DEF RenewalLocks
<1>2. UNCHANGED <<server, session, call, closing, cached, dropped, asked, dues, lease>>
  BY DEF RenewalLocks
<1>3. /\ \A c \in Callers : lease[c] = 0
      /\ \A q \in Processes : renewal[q] \notin {"post", "claim"} /\ closing[q] # "delete"
  BY NobodyElse DEF RenewalLocks
<1>4. ASSUME NEW stage \in {"ok", "error"}, RenewalGoes(p, stage), lock' = Served(lock),
             snapshot' = snapshot
      PROVE  IInv'
  <2>1. Shapes' /\ lock'.readers = lock.readers /\ lock'.writers = lock.writers
    BY <1>2, <1>4, QueueOnly DEF IInv, Shapes, RenewalGoes, RenewalStages
  <2>2. Quiet
    BY <1>1, <1>2, <1>4, <2>1 DEF Quiet, IInv, Shapes, RenewalGoes
  <2> QED
    BY <2>2, QuietStep
<1>5. ASSUME ~session.closed, Due, RenewalGoes(p, "post"), snapshot' = Empty,
             lock' = [Served(lock) EXCEPT !.writers = {Task("renew", p)}]
      PROVE  IInv'
  <2>1. lock'.writers = {Task("renew", p)} /\ IsLock(lock')
    BY <1>5, LockTaken DEF IInv, Shapes
  <2>2. snapshot'.age = "none" /\ server = dues
    BY <1>5 DEF IInv, Current, Empty, Due
  <2>3. Shapes'
    BY <1>2, <1>5, <2>1 DEF IInv, Shapes, RenewalGoes, RenewalStages, Empty
  <2>4. Current'
    BY <1>2, <2>2 DEF IInv, Current
  <2>5. Leased'
    BY <1>2, <1>3 DEF Leased
  <2>6. Writing'
    BY <1>2, <1>3, <1>5, <2>1, <2>2 DEF IInv, Shapes, Writing, RenewalGoes
  <2>7. Starting'
    BY <1>1, <1>2 DEF Starting
  <2>8. Ended'
    BY <1>1, <1>2, <1>5 DEF IInv, Ended
  <2> QED
    BY <2>3, <2>4, <2>5, <2>6, <2>7, <2>8 DEF IInv
<1> QED
  BY <1>2, <1>4, <1>5 DEF RenewalLocks, StillDue

(* Who writes does so alone, and while it does, the connection was not given back. *)
LEMMA Alone ==
  ASSUME IInv, NEW p \in Processes, renewal[p] \in {"post", "claim"}
  PROVE  /\ ~asked /\ lock.writers # {} /\ \A c \in Callers : lease[c] = 0
         /\ \A q \in Processes : closing[q] # "delete"
         /\ \A q \in Processes : renewal[q] \in {"post", "claim"} => q = p
<1>1. lock.writers = {Task("renew", p)}
  BY DEF IInv, Writing
<1>2. \A q : Task("close", q) # Task("renew", p) /\ (Task("renew", q) = Task("renew", p) => q = p)
  BY DEF Task
<1>3. \A q \in Processes : closing[q] # "delete" /\ (renewal[q] \in {"post", "claim"} => q = p)
  <2> TAKE q \in Processes
  <2>1. /\ renewal[q] \in {"post", "claim"} => lock.writers = {Task("renew", q)}
        /\ closing[q] = "delete" => lock.writers = {Task("close", q)}
    BY DEF IInv, Writing
  <2> QED
    BY <1>1, <1>2, <2>1
<1>4. ~asked /\ \A c \in Callers : lease[c] = 0
  BY <1>1 DEF IInv, Ended, Leased
<1> QED
  BY <1>1, <1>3, <1>4

(* A renewal that fails lets go of the lock and closes the session. *)
LEMMA RenewalFailsStep ==
  ASSUME IInv, NEW p \in Processes, renewal[p] \in {"post", "claim"}, RenewalFails(p),
         UNCHANGED <<snapshot, call, cached, dropped, asked, dues, lease>>,
         server' \in {dues, dues + 1}
  PROVE  IInv'
<1>1. call[Starter] # "claim" /\ ~dropped
  BY UnderWay
<1>2. Closes(p)
  BY DEF RenewalFails
<1>3. lock'.writers = {} /\ IsLock(lock')
  BY LockReturned DEF RenewalFails, IInv, Shapes
<1>4. snapshot.age = "none"
  BY DEF IInv, Writing
<1>5. Shapes'
  <2>1. /\ session' \in [closed : BOOLEAN, stopped : BOOLEAN, released : BOOLEAN]
        /\ closing' \in [Processes -> CloseStages]
    BY <1>2, CloseMarks DEF IInv
  <2>2. renewal' \in [Processes -> RenewalStages] /\ server' \in Nat
    BY DEF IInv, Shapes, RenewalFails, RenewalGoes, RenewalStages
  <2> QED
    BY <1>3, <2>1, <2>2 DEF IInv, Shapes
<1>6. Current'
  BY <1>4 DEF Current
<1>7. Leased'
  BY <1>3, Alone DEF Leased
<1>8. Writing'
  BY <1>2, CloseMarks, Alone DEF IInv, Shapes, Writing, RenewalFails, RenewalGoes
<1>9. Starting'
  BY <1>1 DEF Starting
<1>10. Ended'
  BY <1>1, <1>2, CloseMarks, Alone DEF IInv, Shapes, Ended
<1> QED
  BY <1>5, <1>6, <1>7, <1>8, <1>9, <1>10 DEF IInv

(* The answer to a renewal: the service counts on, and the session holds nothing yet. *)
LEMMA RenewalPostsStep ==
  ASSUME IInv, NEW p \in Processes, RenewalPosts(p)
  PROVE  IInv'
<1>1. server = dues
  BY DEF IInv, Writing, RenewalPosts
<1>2. CASE RenewalFails(p)
  BY <1>1, <1>2, RenewalFailsStep DEF RenewalPosts
<1>3. CASE ~RenewalFails(p)
  <2>1. /\ server' = server + 1 /\ RenewalGoes(p, "claim")
        /\ UNCHANGED <<session, closing, lock, snapshot, call, cached, dropped, asked, dues, lease>>
    BY <1>3 DEF RenewalPosts
  <2>2. snapshot.age = "none"
    BY DEF IInv, Writing, RenewalPosts
  <2>3. call[Starter] # "claim" /\ ~dropped
    BY UnderWay DEF RenewalPosts
  <2>4. Shapes'
    BY <2>1 DEF IInv, Shapes, RenewalGoes, RenewalStages
  <2>5. Current' /\ Leased' /\ Starting'
    BY <1>1, <2>1, <2>2, <2>3 DEF IInv, Shapes, Current, Leased, Starting
  <2>6. Writing'
    BY <1>1, <2>1, Alone DEF IInv, Shapes, Writing, RenewalGoes, RenewalPosts
  <2>7. Ended'
    BY <2>1, <2>3, Alone DEF IInv, Ended, RenewalPosts
  <2> QED
    BY <2>4, <2>5, <2>6, <2>7 DEF IInv
<1> QED
  BY <1>2, <1>3

(* The credentials claimed after a renewal are those the service honours. *)
LEMMA RenewalClaimsStep ==
  ASSUME IInv, NEW p \in Processes, RenewalClaims(p)
  PROVE  IInv'
<1>1. server = dues + 1
  BY DEF IInv, Writing, RenewalClaims
<1>2. CASE RenewalFails(p) /\ snapshot' = snapshot
  BY <1>1, <1>2, RenewalFailsStep DEF RenewalClaims
<1>3. CASE ~(RenewalFails(p) /\ snapshot' = snapshot)
  <2>1. /\ snapshot' = [generation |-> server, age |-> "fresh"]
        /\ RenewalGoes(p, "ok") /\ lock' = Unlocked(lock)
        /\ UNCHANGED <<server, session, closing, call, cached, dropped, asked, dues, lease>>
    BY <1>3 DEF RenewalClaims
  <2>2. lock'.writers = {} /\ IsLock(lock')
    BY <2>1, LockReturned DEF IInv, Shapes
  <2>3. call[Starter] # "claim" /\ ~dropped
    BY UnderWay DEF RenewalClaims
  <2>4. Shapes'
    BY <2>1, <2>2 DEF IInv, Shapes, RenewalGoes, RenewalStages
  <2>5. Current' /\ Leased' /\ Starting'
    BY <1>1, <2>1, <2>3, Alone DEF IInv, Shapes, Current, Leased, Starting, RenewalClaims
  <2>6. Writing'
    BY <2>1, Alone DEF IInv, Shapes, Writing, RenewalGoes, RenewalClaims
  <2>7. Ended'
    BY <2>1, <2>3, Alone DEF IInv, Shapes, Ended, RenewalGoes, RenewalClaims
  <2> QED
    BY <2>4, <2>5, <2>6, <2>7 DEF IInv
<1> QED
  BY <1>2, <1>3

(* A close that has the lock throws the credentials away, and a release is asked for *)
(* with the lock held, which keeps renewals out.                                     *)
LEMMA CloseLocksStep ==
  ASSUME IInv, NEW p \in Processes, CloseLocks(p)
  PROVE  IInv'
<1>1. /\ call[Starter] # "claim" /\ ~dropped
      /\ UNCHANGED <<server, session, call, renewal, cached, dropped, asked, dues, lease>>
      /\ snapshot'.age = "none" /\ snapshot' = Empty /\ session.closed
  BY UnderWay DEF CloseLocks, Empty, IInv, Ended
<1>2. /\ IsLock(lock')
      /\ session.released => lock'.writers = lock.writers
      /\ ~session.released => lock'.writers = {Task("close", p)}
  <2>1. Served(lock).writers = lock.writers
    BY QueueOnly DEF IInv, Shapes
  <2> QED
    BY <2>1, LockTaken DEF IInv, Shapes, CloseLocks
<1>3. /\ \A c \in Callers : lease[c] = 0
      /\ \A q \in Processes : renewal[q] \notin {"post", "claim"} /\ closing[q] # "delete"
  BY NobodyElse DEF CloseLocks
<1>4. Shapes'
  BY <1>1, <1>2 DEF IInv, Shapes, CloseLocks, CloseStages, Empty
<1>5. Current' /\ Leased' /\ Starting'
  BY <1>1, <1>3 DEF IInv, Current, Leased, Starting
<1>6. Writing'
  BY <1>1, <1>2, <1>3 DEF IInv, Shapes, Writing, CloseLocks
<1>7. Ended'
  BY <1>1, <1>3 DEF IInv, Shapes, Ended
<1> QED
  BY <1>4, <1>5, <1>6, <1>7 DEF IInv

(* A release is asked for while nobody has a lease and nobody renews. *)
LEMMA CloseDeletesStep ==
  ASSUME IInv, NEW p \in Processes, CloseDeletes(p)
  PROVE  IInv' /\ \A c \in Callers : lease[c] = 0
<1>1. /\ call[Starter] # "claim" /\ ~dropped
      /\ UNCHANGED <<server, snapshot, call, renewal, cached, dropped, dues, lease>>
      /\ snapshot.age = "none" /\ session.closed /\ lock.writers = {Task("close", p)}
  BY UnderWay DEF CloseDeletes, IInv, Ended, Writing
<1>2. lock'.writers = {} /\ IsLock(lock')
  BY LockReturned DEF CloseDeletes, IInv, Shapes
<1>3. \A q \in Processes : renewal[q] \notin {"post", "claim"} /\ (closing[q] = "delete" => q = p)
  <2> TAKE q \in Processes
  <2>1. renewal[q] \notin {"post", "claim"}
    BY Alone DEF CloseDeletes
  <2>2. closing[q] = "delete" => lock.writers = {Task("close", q)}
    BY DEF IInv, Writing
  <2>3. Task("close", q) = Task("close", p) => q = p
    BY DEF Task
  <2> QED
    BY <1>1, <2>1, <2>2, <2>3
<1>4. /\ session' \in [closed : BOOLEAN, stopped : BOOLEAN, released : BOOLEAN]
      /\ session'.closed /\ asked' = TRUE
      /\ \E stage \in {"ok", "error"} : closing' = [closing EXCEPT ![p] = stage]
  BY <1>1 DEF IInv, Shapes, CloseDeletes
<1>5. Shapes'
  BY <1>1, <1>2, <1>4 DEF IInv, Shapes, CloseStages
<1>6. Current' /\ Leased' /\ Starting'
  BY <1>1, <1>2 DEF IInv, Current, Leased, Starting
<1>7. Writing'
  BY <1>1, <1>3, <1>4 DEF IInv, Shapes, Writing
<1>8. Ended'
  BY <1>1, <1>3, <1>4 DEF IInv, Shapes, Ended
<1>9. \A c \in Callers : lease[c] = 0
  BY <1>1 DEF IInv, Leased
<1> QED
  BY <1>5, <1>6, <1>7, <1>8, <1>9 DEF IInv

(* The first claim of the credentials, before which nothing happens. *)
LEMMA ClaimsStep ==
  ASSUME IInv, Claims
  PROVE  IInv'
<1>1. /\ ~asked /\ ~dropped /\ server = dues + 1
      /\ \A q \in Processes :
           renewal[q] = "none" /\ closing[q] = "none" /\ (q # Starter => call[q] = "idle")
  BY DEF IInv, Starting, Claims
<1>2. /\ snapshot' = [generation |-> server, age |-> "fresh"]
      /\ UNCHANGED <<server, lock, renewal, dropped, asked, dues, lease>>
      /\ cached' \in BOOLEAN
      /\ \E stage \in {"done", "retrying"} : call' = [call EXCEPT ![Starter] = stage]
  BY DEF Claims, Stage
<1>3. /\ session' \in [closed : BOOLEAN, stopped : BOOLEAN, released : BOOLEAN]
      /\ closing' \in [Processes -> CloseStages]
      /\ \A q \in Processes : closing'[q] # "delete" /\ (closing'[q] # "none" => session'.closed)
  <2>1. CASE UNCHANGED <<session, closing>>
    BY <1>1, <2>1 DEF IInv, Shapes
  <2>2. CASE Closes(Starter)
    BY <1>1, <2>2, CloseMarks DEF IInv, Shapes, Processes
  <2> QED
    BY <2>1, <2>2 DEF Claims
<1>4. \A c \in Callers : lease[c] = 0
  BY <1>1 DEF IInv, Leased, Processes, Claims
<1>5. Shapes'
  BY <1>2, <1>3 DEF IInv, Shapes, CallStages, Processes
<1>6. Current' /\ Leased' /\ Writing'
  BY <1>1, <1>2, <1>3, <1>4 DEF Current, Leased, Writing
<1>7. Starting' /\ Ended'
  BY <1>1, <1>2, <1>3 DEF IInv, Shapes, Starting, Ended, Processes
<1> QED
  BY <1>5, <1>6, <1>7 DEF IInv

(* A request that was lent the credentials has the read lock for as long. *)
LEMMA GetsGuardStep ==
  ASSUME IInv, NEW c \in Callers, GetsGuard(c)
  PROVE  IInv' /\ lease[c] = 0
<1> USE DEF Processes
<1>1. /\ call[Starter] # "claim" /\ ~dropped /\ lock.writers = {}
      /\ UNCHANGED <<server, session, snapshot, renewal, closing, cached, dropped, asked, dues>>
  BY UnderWay DEF GetsGuard, ReadGranted
<1>2. lease[c] = 0
  BY DEF IInv, Leased, GetsGuard
<1>3. CASE /\ Stage(c, "health") /\ lock' = [Served(lock) EXCEPT !.readers = @ \cup {c}]
           /\ lease' = [lease EXCEPT ![c] = snapshot.generation]
  <2>1. IsLock(lock') /\ lock'.readers = lock.readers \cup {c} /\ lock'.writers = {}
    BY <1>1, <1>3, LockRead DEF IInv, Shapes
  <2>2. Shapes'
    BY <1>1, <1>3, <2>1 DEF IInv, Shapes, Stage, CallStages
  <2>3. Leased'
    BY <1>1, <1>3, <2>1 DEF IInv, Shapes, Leased, Stage
  <2>4. Current' /\ Writing' /\ Ended'
    BY <1>1, <2>1 DEF IInv, Current, Writing, Ended
  <2>5. Starting'
    BY <1>1, <1>3 DEF IInv, Shapes, Starting, Stage
  <2> QED
    BY <1>2, <2>2, <2>3, <2>4, <2>5 DEF IInv
<1>4. CASE Stage(c, "failed") /\ lock' = Served(lock) /\ lease' = lease
  <2>1. IsLock(lock') /\ lock'.readers = lock.readers /\ lock'.writers = lock.writers
    BY <1>4, QueueOnly DEF IInv, Shapes
  <2>2. Shapes'
    BY <1>1, <1>4, <2>1 DEF IInv, Shapes, Stage, CallStages
  <2>3. Quiet
    BY <1>1, <1>4, <2>1, <2>2 DEF IInv, Shapes, Quiet, Stage, Working, GetsGuard
  <2> QED
    BY <1>2, <2>3, QuietStep
<1> QED
  BY <1>2, <1>3, <1>4 DEF GetsGuard

(* A request that returns what it was lent, or is dropped. *)
LEMMA ReturnsStep ==
  ASSUME IInv, NEW c \in Callers, NEW stage \in {"done", "failed"}, Stage(c, stage), Returns(c),
         call[c] \in {"look", "renewing", "guard", "health", "permit", "use", "clear", "closing"},
         UNCHANGED <<server, session, snapshot, renewal, closing, cached, dropped, asked, dues>>
  PROVE  IInv'
<1> USE DEF Processes
<1>1. call[Starter] # "claim" /\ ~dropped
  BY UnderWay
<1>2. IsLock(lock') /\ lock'.readers = lock.readers \ {c} /\ lock'.writers = lock.writers
  BY LockReturned DEF Returns, IInv, Shapes
<1>3. lease' = [lease EXCEPT ![c] = 0] /\ call' = [call EXCEPT ![c] = stage]
  BY DEF Returns, Stage
<1>4. Shapes'
  BY <1>2, <1>3 DEF IInv, Shapes, CallStages
<1>5. Leased'
  BY <1>2, <1>3 DEF IInv, Shapes, Leased
<1>6. Current' /\ Writing' /\ Ended'
  BY <1>1, <1>2 DEF IInv, Current, Writing, Ended
<1>7. Starting'
  BY <1>1, <1>3 DEF IInv, Shapes, Starting
<1> QED
  BY <1>4, <1>5, <1>6, <1>7 DEF IInv

(* A status check that found the connection changed throws the credentials away. *)
LEMMA ClearsStep ==
  ASSUME IInv, NEW c \in Callers, Clears(c)
  PROVE  IInv'
<1> USE DEF Processes
<1>1. /\ call[Starter] # "claim" /\ ~dropped
      /\ UNCHANGED <<server, session, renewal, closing, cached, dropped, asked, dues, lease>>
      /\ snapshot' = Empty /\ snapshot'.age = "none" /\ call' = [call EXCEPT ![c] = "failed"]
  BY UnderWay DEF Clears, Empty, Stage
<1>2. IsLock(lock') /\ lock'.readers = lock.readers /\ lock'.writers = lock.writers
  BY QueueOnly DEF IInv, Shapes, Clears
<1>3. \A d \in Callers : lease[d] = 0
  BY NobodyElse DEF Clears
<1>4. Shapes'
  BY <1>1, <1>2 DEF IInv, Shapes, CallStages, Empty
<1>5. Current' /\ Leased' /\ Writing' /\ Ended'
  BY <1>1, <1>2, <1>3 DEF IInv, Current, Leased, Writing, Ended
<1>6. Starting'
  BY <1>1 DEF IInv, Shapes, Starting
<1> QED
  BY <1>4, <1>5, <1>6 DEF IInv

(* The last handle is dropped, when nobody is under way. *)
LEMMA DropStep ==
  ASSUME IInv, Drop
  PROVE  IInv' /\ \A c \in Callers : lease[c] = 0
<1>1. /\ dropped' = TRUE /\ asked' \in BOOLEAN
      /\ UNCHANGED <<server, session, snapshot, lock, call, renewal, closing, cached, dues, lease>>
  BY DEF Drop, IInv, Shapes
<1>2. Gone /\ Gone' /\ \A q \in Processes : q \notin Holders
  BY <1>1 DEF Drop, Gone, Holders
<1>3. call[Starter] # "claim"
  BY <1>2 DEF Holders, Processes
<1>4. \A q \in Processes : renewal[q] \notin {"post", "claim"}
  BY <1>2 DEF Holders
<1>5. \A c \in Callers : lease[c] = 0
  BY <1>2 DEF Holders, IInv, Leased, Processes
<1>6. Shapes' /\ Current' /\ Leased' /\ Writing'
  BY <1>1 DEF IInv, Shapes, Current, Leased, Writing
<1>7. Starting' /\ Ended'
  BY <1>1, <1>2, <1>3, <1>4 DEF IInv, Starting, Ended
<1> QED
  BY <1>5, <1>6, <1>7 DEF IInv

(* Credentials come close to their expiry while the session holds them. *)
LEMMA AgesStep ==
  ASSUME IInv, Ages
  PROVE  IInv' /\ ~asked /\ dues' >= server
<1>1. /\ ~dropped /\ snapshot.age \in {"fresh", "due"}
      /\ UNCHANGED <<server, session, lock, call, renewal, closing, cached, dropped, asked, lease>>
  BY DEF Ages
<1>2. ~asked /\ call[Starter] # "claim"
  BY <1>1 DEF IInv, Ended, Starting
<1>3. /\ snapshot' \in [generation : Nat, age : {"due", "expired"}] /\ dues' = server
      /\ snapshot'.generation = snapshot.generation
  BY <1>1 DEF IInv, Shapes, Current, Ages
<1>4. Shapes'
  BY <1>1, <1>3 DEF IInv, Shapes
<1>5. Current' /\ Leased' /\ Starting' /\ Ended'
  BY <1>1, <1>2, <1>3 DEF IInv, Shapes, Current, Leased, Starting, Ended, Gone, Holders
<1>6. Writing'
  BY <1>1, <1>3 DEF IInv, Writing
<1> QED
  BY <1>2, <1>3, <1>4, <1>5, <1>6 DEF IInv, Shapes

-----------------------------------------------------------------------------
(* The steps that change the credentials, the leases or the handles. *)
Renewing == \E p \in Processes : RenewalLocks(p) \/ RenewalPosts(p) \/ RenewalClaims(p)
Releasing == \E p \in Processes : CloseLocks(p) \/ CloseDeletes(p)
Leasing == \E c \in Callers : GetsGuard(c) \/ ChecksHealth(c) \/ EndsUse(c) \/ GivesUp(c) \/ Clears(c)

(* All other steps are quiet. *)
LEMMA Steps ==
  ASSUME IInv, Next
  PROVE  Quiet \/ Claims \/ Renewing \/ Releasing \/ Leasing \/ Drop \/ Ages
<1>1. ASSUME NEW p \in Processes, Calls(p)
      PROVE  Quiet \/ Claims \/ Leasing
  BY <1>1, RenewalSteps, RequestSteps, TaskSteps, WakeSteps DEF Calls, Leasing
<1>2. ASSUME NEW p \in Processes, Renews(p)
      PROVE  Quiet \/ Renewing
  BY <1>2, RenewalSteps DEF Renews, Renewing
<1>3. ASSUME NEW p \in Processes, Closing(p)
      PROVE  Quiet \/ Releasing
  BY <1>3, RenewalSteps DEF Closing, Releasing
<1>4. ASSUME NEW c \in Callers, Acquires(c) \/ Checks(c) \/ TakesOut(c) \/ GivesUp(c)
      PROVE  Quiet \/ Leasing
  BY <1>4, RequestSteps DEF Leasing
<1> QED
  BY <1>1, <1>2, <1>3, <1>4 DEF Next

(* A request that goes on keeps its lease, and one that ends returns it. *)
LEMMA LeasingSteps ==
  ASSUME IInv, NEW c \in Callers, ChecksHealth(c) \/ EndsUse(c) \/ GivesUp(c)
  PROVE  Quiet \/ (IInv' /\ Returns(c) /\ UNCHANGED <<server, dues, asked>>)
<1>1. CASE ChecksHealth(c) /\ Stage(c, "permit")
  <2>1. call[Starter] # "claim" /\ ~dropped
    BY <1>1, UnderWay DEF ChecksHealth, Processes
  <2>2. /\ UNCHANGED <<server, session, snapshot, lock, lease, renewal, closing, cached, dropped, asked, dues>>
        /\ call' = [call EXCEPT ![c] = "permit"]
    <3>1. \/ UNCHANGED <<lock, lease>>
          \/ Stage(c, "failed")
      BY <1>1 DEF ChecksHealth
    <3>2. ~Stage(c, "failed")
      BY <1>1 DEF Stage, IInv, Shapes, Processes
    <3> QED
      BY <1>1, <3>1, <3>2 DEF ChecksHealth, Stage
  <2>3. Quiet
    BY <2>1, <2>2 DEF IInv, Shapes, Quiet, Working, CallStages, Processes
  <2> QED
    BY <2>3
<1>2. CASE ~(ChecksHealth(c) /\ Stage(c, "permit"))
  <2>1. PICK stage \in {"done", "failed"} : Stage(c, stage)
    BY <1>2 DEF ChecksHealth, EndsUse, GivesUp
  <2>2. /\ Returns(c)
        /\ call[c] \in {"look", "renewing", "guard", "health", "permit", "use", "clear", "closing"}
        /\ UNCHANGED <<server, session, snapshot, renewal, closing, cached, dropped, asked, dues>>
    BY <1>2 DEF ChecksHealth, EndsUse, GivesUp
  <2> QED
    BY <2>1, <2>2, ReturnsStep
<1> QED
  BY <1>1, <1>2

(* A step keeps the invariant. *)
LEMMA StepKeeps == IInv /\ [Next]_vars => IInv'
<1> SUFFICES ASSUME IInv, [Next]_vars PROVE IInv'
  OBVIOUS
<1>1. CASE UNCHANGED vars
  BY <1>1 DEF vars, IInv, Shapes, Current, Leased, Writing, Starting, Ended, Gone, Holders
<1>2. CASE Next
  <2>1. CASE Leasing
    BY <2>1, LeasingSteps, QuietStep, GetsGuardStep, ClearsStep DEF Leasing
  <2>2. CASE Renewing
    BY <2>2, RenewalLocksStep, RenewalPostsStep, RenewalClaimsStep DEF Renewing
  <2>3. CASE Releasing
    BY <2>3, CloseLocksStep, CloseDeletesStep DEF Releasing
  <2> QED
    BY <1>2, <2>1, <2>2, <2>3, Steps, QuietStep, ClaimsStep, DropStep, AgesStep
<1> QED
  BY <1>1, <1>2

(* In every reachable state leases exclude writers, whoever talks to the service about *)
(* the connection is alone, and a connection that was given back is never used again.  *)
THEOREM Invariance == Spec => []IInv
  BY InitHolds, StepKeeps, PTL DEF Spec

-----------------------------------------------------------------------------
(* The promise, step by step: what it does not see. *)
Same == UNCHANGED <<server, dues, asked, lease>>

(* A step that leaves these alone changes nothing that was promised. *)
LEMMA SameStutters == Same => UNCHANGED Promise!svars
  BY DEF Same, Promise!svars

(* A renewal that the service agreed to renews what was due and was lent to nobody. *)
LEMMA RenewingPromised ==
  ASSUME IInv, Renewing
  PROVE  Promise!Renew \/ Same
<1>1. PICK p \in Processes : RenewalLocks(p) \/ RenewalPosts(p) \/ RenewalClaims(p)
  BY DEF Renewing
<1>2. CASE RenewalLocks(p) \/ RenewalClaims(p)
  BY <1>2 DEF RenewalLocks, RenewalClaims, Same
<1>3. CASE RenewalPosts(p)
  <2>1. /\ server' \in {server, server + 1} /\ UNCHANGED <<dues, asked, lease>>
    BY <1>3 DEF RenewalPosts
  <2>2. /\ ~asked /\ server = dues /\ server \in Nat /\ \A c \in Callers : lease[c] = 0
    BY <1>3, Alone DEF RenewalPosts, IInv, Shapes, Writing
  <2>3. CASE server' = server + 1
    <3>1. dues >= server /\ ~(dues' >= server')
      BY <2>1, <2>2, <2>3
    <3>2. (dues' >= server') = FALSE
      BY <3>1
    <3> QED
      BY <2>1, <2>2, <2>3, <3>1, <3>2 DEF Promise!Renew, Promise!Free
  <2> QED
    BY <2>1, <2>3 DEF Same
<1> QED
  BY <1>1, <1>2, <1>3

(* The connection is given back while nobody has a lease. *)
LEMMA ReleasingPromised ==
  ASSUME IInv, Releasing \/ Drop
  PROVE  Promise!GiveBack \/ Same
<1>1. CASE \E p \in Processes : CloseDeletes(p)
  <2>1. /\ \A c \in Callers : lease[c] = 0
        /\ asked' = TRUE /\ UNCHANGED <<server, dues, lease>>
    BY <1>1, CloseDeletesStep DEF CloseDeletes
  <2>2. (~asked') = FALSE
    BY <2>1
  <2> QED
    BY <2>1, <2>2 DEF Promise!GiveBack, Promise!Free
<1>2. CASE \E p \in Processes : CloseLocks(p)
  BY <1>2 DEF CloseLocks, Same
<1>3. CASE Drop
  <2>1. /\ \A c \in Callers : lease[c] = 0
        /\ asked' = (asked \/ ~session.released) /\ UNCHANGED <<server, dues, lease>>
    BY <1>3, DropStep DEF Drop
  <2>2. CASE asked'
    <3>1. (~asked') = FALSE
      BY <2>2
    <3> QED
      BY <2>1, <3>1 DEF Promise!GiveBack, Promise!Free
  <2>3. CASE ~asked'
    BY <2>1, <2>3 DEF IInv, Shapes, Same
  <2> QED
    BY <2>2, <2>3
<1> QED
  BY <1>1, <1>2, <1>3 DEF Releasing

(* Credentials are lent as the service honours them, before the connection is given back. *)
LEMMA LeasingPromised ==
  ASSUME IInv, Leasing
  PROVE  Same \/ \E c \in Callers : Promise!Lend(c) \/ Promise!Return(c)
<1>1. PICK c \in Callers :
        GetsGuard(c) \/ ChecksHealth(c) \/ EndsUse(c) \/ GivesUp(c) \/ Clears(c)
  BY DEF Leasing
<1>2. CASE GetsGuard(c)
  <2>1. UNCHANGED <<server, dues, asked>> /\ lease[c] = 0
    BY <1>2, GetsGuardStep DEF GetsGuard
  <2>2. CASE lease' = lease
    BY <2>1, <2>2 DEF Same
  <2>3. CASE lease' # lease
    <3>1. snapshot.age \in {"fresh", "due"} /\ lease' = [lease EXCEPT ![c] = snapshot.generation]
      BY <1>2, <2>3 DEF GetsGuard
    <3>2. ~asked /\ snapshot.generation = server
      BY <1>2, <3>1, UnderWay DEF GetsGuard, IInv, Current, Ended, Processes
    <3>3. UNCHANGED <<~asked, server, dues >= server>>
      BY <2>1
    <3> QED
      BY <2>1, <3>1, <3>2, <3>3 DEF Promise!Lend
  <2> QED
    BY <2>2, <2>3
<1>3. CASE Clears(c)
  BY <1>3 DEF Clears, Same
<1>4. CASE ChecksHealth(c) \/ EndsUse(c) \/ GivesUp(c)
  <2>1. CASE Quiet
    BY <2>1 DEF Quiet, Same
  <2>2. CASE Returns(c) /\ UNCHANGED <<server, dues, asked>>
    <3>1. CASE lease[c] = 0
      BY <2>2, <3>1 DEF Returns, Same, IInv, Shapes
    <3>2. CASE lease[c] # 0
      BY <2>2, <3>2 DEF Returns, Promise!Return
    <3> QED
      BY <3>1, <3>2
  <2> QED
    BY <1>4, <2>1, <2>2, LeasingSteps
<1> QED
  BY <1>1, <1>2, <1>3, <1>4

(* Only what was not given back comes close to its expiry. *)
LEMMA AgesPromised ==
  ASSUME IInv, Ages
  PROVE  Promise!Age
<1>1. ~asked /\ dues' >= server' /\ UNCHANGED <<server, asked, lease>>
  BY AgesStep DEF Ages
<1>2. (dues' >= server') = TRUE
  BY <1>1
<1> QED
  BY <1>1, <1>2 DEF Promise!Age

(* Every step of the session is one of the promise, or none. *)
LEMMA StepPromised == IInv /\ [Next]_vars => [Promise!Next]_(Promise!svars)
<1> SUFFICES ASSUME IInv, [Next]_vars PROVE Promise!Next \/ Same
  BY SameStutters
<1>1. CASE UNCHANGED vars \/ Quiet \/ Claims
  BY <1>1 DEF vars, Quiet, Claims, Same
<1>2. CASE Renewing
  BY <1>2, RenewingPromised DEF Promise!Next
<1>3. CASE Releasing \/ Drop
  BY <1>3, ReleasingPromised DEF Promise!Next
<1>4. CASE Leasing
  BY <1>4, LeasingPromised DEF Promise!Next
<1>5. CASE Ages
  BY <1>5, AgesPromised DEF Promise!Next
<1> QED
  BY <1>1, <1>2, <1>3, <1>4, <1>5, Steps

(* A session starts as promised. *)
LEMMA InitPromised == Init => Promise!Init
  BY DEF Init, Promise!Init

(* A LARM session keeps its promise for any set of requests, any limit of the provider *)
(* and any number of renewals: requests in flight keep what they were lent, a          *)
(* generation is renewed once, and nothing is lent after the connection was given back. *)
THEOREM SessionPromised == Spec => SessionKeepsPromise
<1>1. Init => Promise!Init
  BY InitPromised
<1>2. IInv /\ [Next]_vars => [Promise!Next]_(Promise!svars)
  BY StepPromised
<1> QED
  BY <1>1, <1>2, Invariance, PTL DEF Spec, SessionKeepsPromise, Promise!Spec
=============================================================================
