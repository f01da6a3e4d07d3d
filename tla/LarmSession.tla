---------------------------- MODULE LarmSession ----------------------------
(***************************************************************************)
(* A session with the LARM service (crates/larm-session/src/lib.rs): one   *)
(* connection whose short-lived credentials are lent under the read side   *)
(* of a fair lock and renewed, thrown away and given back under its write  *)
(* side. Requests share it through a cache, a task renews it every second, *)
(* waiters may be dropped at any await, and the service may fail or lose   *)
(* an answer.                                                              *)
(* A call of the model is one request; the model begins when the           *)
(* connection's id is known, and providers share one limit.                *)
(***************************************************************************)
EXTENDS Naturals, FiniteSets, Sequences

CONSTANTS
  Callers,   \* requests of the application
  Capacity,  \* max_concurrent_requests of the provider
  Ticker, Starter,
  MaxDue     \* bound of the model: how often credentials come close to their expiry

VARIABLES
  server,   \* the generation of the credentials the service honours
  session,  \* closed, stopped (the stop channel) and released
  snapshot, \* the generation of the credentials and their age
  lease,    \* the generation each request works with, or 0
  lock,     \* the lock on snapshot: who reads, who writes, who waits in which order
  call,     \* the stage of each request, of the renewal task and of connect
  renewal,  \* the stage of the renewal each of them spawned
  closing,  \* the stage of the close each of them spawned
  cached,   \* the application's cache holds the session
  dropped,  \* the last handle is gone
  asked,    \* history: a DELETE was sent
  dues

vars == <<server, session, snapshot, lease, lock, call, renewal, closing, cached, dropped, asked, dues>>

Processes == Callers \cup {Ticker, Starter}
Task(kind, p) == <<kind, p>>
Empty == [generation |-> 0, age |-> "none"]

Init ==
  /\ server = 1
  /\ session = [closed |-> FALSE, stopped |-> FALSE, released |-> FALSE]
  /\ snapshot = Empty /\ lease = [c \in Callers |-> 0]
  /\ lock = [readers |-> {}, writers |-> {}, queue |-> <<>>]
  /\ call = [p \in Processes |-> IF p = Starter THEN "claim" ELSE "idle"]
  /\ renewal = [p \in Processes |-> "none"] /\ closing = [p \in Processes |-> "none"]
  /\ cached = FALSE /\ dropped = FALSE /\ asked = FALSE /\ dues = 0

-----------------------------------------------------------------------------
(* The lock, which is granted in the order of asking, to one writer or any *)
(* number of readers; and the handles.                                     *)

Due == snapshot.age \in {"due", "expired"}

Asking(l, t) == [l EXCEPT !.queue = Append(@, t)]
Unlocked(l) == [l EXCEPT !.writers = {}]
Served(l) == [l EXCEPT !.queue = Tail(@)]
Without(l, p) ==
  [l EXCEPT !.readers = @ \ {p}, !.queue = SelectSeq(@, LAMBDA t : t # Task("call", p))]

ReadGranted(t) == lock.queue # <<>> /\ Head(lock.queue) = t /\ lock.writers = {}
WriteGranted(t) == ReadGranted(t) /\ lock.readers = {}

(* Who keeps the session alive, the cache aside. *)
Holders ==
  {p \in Processes : \/ call[p] \notin {"idle", "done", "over"}
                     \/ renewal[p] \in {"begin", "peek", "lock", "post", "claim", "closing"}
                     \/ closing[p] \in {"begin", "lock", "delete"}}

Stage(p, stage) == call' = [call EXCEPT ![p] = stage]
Closed == [session EXCEPT !.closed = TRUE, !.stopped = TRUE]

(* close: it marks the session and spawns close_inner. *)
Closes(p) == session' = Closed /\ closing' = [closing EXCEPT ![p] = "begin"]

-----------------------------------------------------------------------------
(* connect, from the id on: a startup that fails, or whose caller is gone, *)
(* gives the connection back.                                              *)

Claims ==
  /\ call[Starter] = "claim"
  /\ snapshot' = [generation |-> server, age |-> "fresh"]
  /\ \/ cached' = TRUE /\ Stage(Starter, "done") /\ UNCHANGED <<session, closing>>
     \/ cached' = FALSE /\ Stage(Starter, "retrying") /\ Closes(Starter)
  /\ UNCHANGED <<server, lock, renewal, dropped, asked, dues, lease>>

(* An error, a deadline or a cancellation. *)
StartFails ==
  /\ call[Starter] = "claim" /\ Stage(Starter, "failing") /\ Closes(Starter)
  /\ UNCHANGED <<server, snapshot, lock, renewal, cached, dropped, asked, dues, lease>>

(* A caller may use the handle of a release that failed once more. *)
StartEnds ==
  /\ call[Starter] \in {"failing", "retrying"} /\ closing[Starter] \in {"ok", "error"}
  /\ \/ /\ call[Starter] = "failing" /\ closing[Starter] = "error"
        /\ Stage(Starter, "retrying") /\ Closes(Starter)
     \/ Stage(Starter, "done") /\ UNCHANGED <<session, closing>>
  /\ UNCHANGED <<server, snapshot, lock, renewal, cached, dropped, asked, dues, lease>>

-----------------------------------------------------------------------------
(* renew_if_due, for a request and for the renewal task.                   *)

(* The first look at the credentials, under a read lock that is let go at once. *)
LooksDue(p) ==
  /\ call[p] = "look" /\ ReadGranted(Task("call", p))
  /\ lock' = Served(lock)
  /\ \/ /\ Due /\ Stage(p, "renewing")
        /\ renewal' = [renewal EXCEPT ![p] = "begin"]
     \/ /\ ~Due /\ Stage(p, IF session.closed THEN "refused" ELSE "renewed")
        /\ renewal' = renewal
  /\ UNCHANGED <<server, session, snapshot, closing, cached, dropped, asked, dues, lease>>

RenewalReturns(p) ==
  /\ call[p] = "renewing" /\ renewal[p] \in {"ok", "error"}
  /\ Stage(p, IF renewal[p] = "ok" THEN "renewed" ELSE "refused")
  /\ renewal' = [renewal EXCEPT ![p] = "none"]
  /\ UNCHANGED <<server, session, snapshot, lock, closing, cached, dropped, asked, dues, lease>>

RenewalGoes(p, stage) == renewal' = [renewal EXCEPT ![p] = stage]

(* renew_inner, in a task of its own: it goes on when its waiter is dropped. *)
RenewalBegins(p) ==
  /\ renewal[p] = "begin"
  /\ \/ session.closed /\ RenewalGoes(p, "error") /\ lock' = lock
     \/ ~session.closed /\ RenewalGoes(p, "peek") /\ lock' = Asking(lock, Task("renew", p))
  /\ UNCHANGED <<server, session, snapshot, call, closing, cached, dropped, asked, dues, lease>>

RenewalPeeks(p) ==
  /\ renewal[p] = "peek" /\ ReadGranted(Task("renew", p))
  /\ \/ ~Due /\ RenewalGoes(p, "ok") /\ lock' = Served(lock)
     \/ Due /\ RenewalGoes(p, "lock") /\ lock' = Asking(Served(lock), Task("renew", p))
  /\ UNCHANGED <<server, session, snapshot, call, closing, cached, dropped, asked, dues, lease>>

(* Slip: what was due before the wait for the lock is taken to be due still. *)
StillDue_Trusting == TRUE

StillDue == Due

(* Under the write lock all is looked at again; the credentials are thrown away first. *)
RenewalLocks(p) ==
  /\ renewal[p] = "lock" /\ WriteGranted(Task("renew", p))
  /\ \/ session.closed /\ RenewalGoes(p, "error") /\ lock' = Served(lock) /\ snapshot' = snapshot
     \/ /\ ~session.closed /\ ~StillDue /\ RenewalGoes(p, "ok")
        /\ lock' = Served(lock) /\ snapshot' = snapshot
     \/ /\ ~session.closed /\ StillDue /\ RenewalGoes(p, "post")
        /\ lock' = [Served(lock) EXCEPT !.writers = {Task("renew", p)}]
        /\ snapshot' = Empty
  /\ UNCHANGED <<server, session, call, closing, cached, dropped, asked, dues, lease>>

RenewalFails(p) == RenewalGoes(p, "closing") /\ Closes(p) /\ lock' = Unlocked(lock)

(* The service renews, or refuses, and the answer may be lost. *)
RenewalPosts(p) ==
  /\ renewal[p] = "post"
  /\ \/ server' = server + 1 /\ RenewalGoes(p, "claim") /\ UNCHANGED <<session, closing, lock>>
     \/ server' \in {server, server + 1} /\ RenewalFails(p)
  /\ UNCHANGED <<snapshot, call, cached, dropped, asked, dues, lease>>

(* The new credentials are claimed, whether or not the session was closed meanwhile. *)
RenewalClaims(p) ==
  /\ renewal[p] = "claim"
  /\ \/ /\ snapshot' = [generation |-> server, age |-> "fresh"]
        /\ RenewalGoes(p, "ok") /\ lock' = Unlocked(lock)
        /\ UNCHANGED <<session, closing>>
     \/ RenewalFails(p) /\ snapshot' = snapshot
  /\ UNCHANGED <<server, call, cached, dropped, asked, dues, lease>>

RenewalGivesUp(p) ==
  /\ renewal[p] = "closing" /\ closing[p] \in {"ok", "error"}
  /\ RenewalGoes(p, "error") /\ closing' = [closing EXCEPT ![p] = "none"]
  /\ UNCHANGED <<server, session, snapshot, lock, call, cached, dropped, asked, dues, lease>>

-----------------------------------------------------------------------------
(* close_inner, in a task of its own.                                      *)

CloseBegins(p) ==
  /\ closing[p] = "begin" /\ closing' = [closing EXCEPT ![p] = "lock"]
  /\ lock' = Asking(lock, Task("close", p))
  /\ UNCHANGED <<server, session, snapshot, call, renewal, cached, dropped, asked, dues, lease>>

CloseLocks(p) ==
  /\ closing[p] = "lock" /\ WriteGranted(Task("close", p))
  /\ snapshot' = Empty
  /\ closing' = [closing EXCEPT ![p] = IF session.released THEN "ok" ELSE "delete"]
  /\ lock' = [Served(lock) EXCEPT !.writers = IF session.released THEN @ ELSE {Task("close", p)}]
  /\ UNCHANGED <<server, session, call, renewal, cached, dropped, asked, dues, lease>>

(* The release is confirmed, fails, or its answer is lost. *)
CloseDeletes(p) ==
  /\ closing[p] = "delete"
  /\ \/ session' = [session EXCEPT !.released = TRUE] /\ closing' = [closing EXCEPT ![p] = "ok"]
     \/ session' = session /\ closing' = [closing EXCEPT ![p] = "error"]
  /\ asked' = TRUE
  /\ lock' = Unlocked(lock)
  /\ UNCHANGED <<server, snapshot, call, renewal, cached, dropped, dues, lease>>

-----------------------------------------------------------------------------
(* A request: acquire, the use of the lease, and what follows a failure.   *)

Acquires(c) ==
  /\ call[c] = "idle" /\ cached
  /\ \/ session.closed /\ Stage(c, "failed") /\ lock' = lock
     \/ ~session.closed /\ Stage(c, "look") /\ lock' = Asking(lock, Task("call", c))
  /\ UNCHANGED <<server, session, snapshot, renewal, closing, cached, dropped, asked, dues, lease>>

Asks(c) ==
  /\ \/ call[c] = "renewed" /\ Stage(c, "guard") /\ lock' = Asking(lock, Task("call", c))
     \/ call[c] = "refused" /\ Stage(c, "failed") /\ lock' = lock
  /\ UNCHANGED <<server, session, snapshot, renewal, closing, cached, dropped, asked, dues, lease>>

(* The read lock is kept as long as the lease. *)
GetsGuard(c) ==
  /\ call[c] = "guard" /\ ReadGranted(Task("call", c))
  /\ \/ /\ ~session.closed /\ snapshot.age \in {"fresh", "due"}
        /\ Stage(c, "health") /\ lock' = [Served(lock) EXCEPT !.readers = @ \cup {c}]
        /\ lease' = [lease EXCEPT ![c] = snapshot.generation]
     \/ /\ session.closed \/ snapshot.age \in {"none", "expired"}
        /\ Stage(c, "failed") /\ lock' = Served(lock) /\ lease' = lease
  /\ UNCHANGED <<server, session, snapshot, renewal, closing, cached, dropped, asked, dues>>

Returns(c) == lease' = [lease EXCEPT ![c] = 0] /\ lock' = Without(lock, c)

(* The provider's health is asked for, or known from an earlier request. *)
ChecksHealth(c) ==
  /\ call[c] = "health"
  /\ \/ Stage(c, "permit") /\ UNCHANGED <<lock, lease>>
     \/ Stage(c, "failed") /\ Returns(c)
  /\ UNCHANGED <<server, session, snapshot, renewal, closing, cached, dropped, asked, dues>>

Using == {c \in Callers : call[c] = "use"}

GetsPermit(c) ==
  /\ call[c] = "permit" /\ Cardinality(Using) < Capacity
  /\ Stage(c, "use")
  /\ UNCHANGED <<server, session, snapshot, lock, renewal, closing, cached, dropped, asked, dues, lease>>

EndsUse(c) ==
  /\ call[c] = "use"
  /\ \E stage \in {"done", "failed"} : Stage(c, stage)
  /\ Returns(c)
  /\ UNCHANGED <<server, session, snapshot, renewal, closing, cached, dropped, asked, dues>>

(* A deadline or a cancellation drops the waiter, not what it spawned. *)
GivesUp(c) ==
  /\ call[c] \in {"look", "renewing", "guard", "health", "permit", "use", "clear", "closing"}
  /\ Stage(c, "failed") /\ Returns(c)
  /\ UNCHANGED <<server, session, snapshot, renewal, closing, cached, dropped, asked, dues>>

(* The cache lets go of a session that was rejected; other errors keep it. *)
Evicts(c) ==
  /\ call[c] = "failed" /\ Stage(c, "done")
  /\ cached' \in {cached, FALSE}
  /\ UNCHANGED <<server, session, snapshot, lock, renewal, closing, dropped, asked, dues, lease>>

(* check_status: the service has released the connection by itself, or changed it. *)
Checks(c) ==
  /\ call[c] = "idle" /\ cached /\ ~session.closed
  /\ session' = [session EXCEPT !.closed = TRUE]
  /\ Stage(c, "clear") /\ lock' = Asking(lock, Task("call", c))
  /\ UNCHANGED <<server, snapshot, renewal, closing, cached, dropped, asked, dues, lease>>

Clears(c) ==
  /\ call[c] = "clear" /\ WriteGranted(Task("call", c))
  /\ snapshot' = Empty /\ lock' = Served(lock) /\ Stage(c, "failed")
  /\ UNCHANGED <<server, session, renewal, closing, cached, dropped, asked, dues, lease>>

(* Shutdown and a change of route take the session out of the cache and close it, *)
(* the latter only when nobody else has a handle.                                 *)
TakesOut(c) ==
  /\ call[c] = "idle" /\ cached /\ cached' = FALSE
  /\ \/ Stage(c, "closing") /\ Closes(c)
     \/ Holders # {} /\ Stage(c, "done") /\ UNCHANGED <<session, closing>>
  /\ UNCHANGED <<server, snapshot, lock, renewal, dropped, asked, dues, lease>>

CloseReturns(c) ==
  /\ call[c] = "closing" /\ closing[c] \in {"ok", "error"} /\ Stage(c, "done")
  /\ UNCHANGED <<server, session, snapshot, lock, renewal, closing, cached, dropped, asked, dues, lease>>

-----------------------------------------------------------------------------
(* The renewal task, which has no handle while it sleeps; Drop; time.      *)

(* No strong handle is left: what the renewal task sees as well. *)
Gone == ~cached /\ Holders = {}

TickerWakes ==
  /\ call[Ticker] = "idle" /\ call[Starter] = "done"
  /\ \/ (session.stopped \/ Gone) /\ Stage(Ticker, "over") /\ lock' = lock
     \/ /\ ~session.stopped /\ ~Gone
        /\ Stage(Ticker, "look") /\ lock' = Asking(lock, Task("call", Ticker))
  /\ UNCHANGED <<server, session, snapshot, renewal, closing, cached, dropped, asked, dues, lease>>

TickerTurns ==
  /\ \/ call[Ticker] = "renewed" /\ Stage(Ticker, "idle") /\ UNCHANGED <<session, closing>>
     \/ call[Ticker] = "refused" /\ Stage(Ticker, "closing") /\ Closes(Ticker)
     \/ /\ call[Ticker] = "closing" /\ closing[Ticker] \in {"ok", "error"}
        /\ Stage(Ticker, "over") /\ UNCHANGED <<session, closing>>
  /\ UNCHANGED <<server, snapshot, lock, renewal, cached, dropped, asked, dues, lease>>

(* The DELETE that Drop spawns. *)
Drop ==
  /\ Gone /\ ~dropped /\ dropped' = TRUE
  /\ asked' = (asked \/ ~session.released)
  /\ UNCHANGED <<server, session, snapshot, lock, call, renewal, closing, cached, dues, lease>>

(* The credentials come close to their expiry, at most MaxDue times, and expire. *)
Ages ==
  /\ ~dropped
  /\ \/ /\ snapshot.age = "fresh" /\ dues < MaxDue
        /\ snapshot' = [snapshot EXCEPT !.age = "due"] /\ dues' = dues + 1
     \/ snapshot.age = "due" /\ snapshot' = [snapshot EXCEPT !.age = "expired"] /\ dues' = dues
  /\ UNCHANGED <<server, session, lock, call, renewal, closing, cached, dropped, asked, lease>>

-----------------------------------------------------------------------------
Calls(p) ==
  \/ LooksDue(p) \/ RenewalReturns(p)
  \/ /\ p \in Callers
     /\ Asks(p) \/ GetsGuard(p) \/ ChecksHealth(p) \/ GetsPermit(p) \/ EndsUse(p)
          \/ Evicts(p) \/ Clears(p) \/ CloseReturns(p)
  \/ p = Ticker /\ (TickerWakes \/ TickerTurns)
  \/ p = Starter /\ (Claims \/ StartFails \/ StartEnds)

Renews(p) ==
  \/ RenewalBegins(p) \/ RenewalPeeks(p) \/ RenewalLocks(p)
  \/ RenewalPosts(p) \/ RenewalClaims(p) \/ RenewalGivesUp(p)

Closing(p) == CloseBegins(p) \/ CloseLocks(p) \/ CloseDeletes(p)

Next ==
  \/ \E p \in Processes : Calls(p) \/ Renews(p) \/ Closing(p)
  \/ \E c \in Callers : Acquires(c) \/ Checks(c) \/ TakesOut(c) \/ GivesUp(c)
  \/ Drop \/ Ages

(* Tasks are scheduled and every HTTP call has a deadline. Nobody has to connect, to    *)
(* call or to give up, and credentials need not age. One condition for all requests and *)
(* one for all renewals and closes are enough, as there are finitely many of them.      *)
Fairness ==
  /\ WF_vars(\E c \in Callers : Calls(c)) /\ WF_vars(Calls(Ticker)) /\ WF_vars(StartEnds)
  /\ WF_vars(\E p \in Processes : Renews(p)) /\ WF_vars(\E p \in Processes : Closing(p))
  /\ WF_vars(Drop)

Spec == Init /\ [][Next]_vars /\ Fairness

-----------------------------------------------------------------------------
(* TypeOK: generations that exist, readers that are requests, and stages of the code. *)
TypeOK ==
  /\ server \in Nat \ {0} /\ dues \in Nat
  /\ session \in [closed : BOOLEAN, stopped : BOOLEAN, released : BOOLEAN]
  /\ snapshot \in [generation : 0..server, age : {"none", "fresh", "due", "expired"}]
  /\ lock.readers \subseteq Callers /\ lease \in [Callers -> 0..server]
  /\ lock.writers \subseteq {"renew", "close"} \X Processes
  /\ lock.queue \in Seq({"call", "renew", "close"} \X Processes)
  /\ renewal \in [Processes -> {"none", "begin", "peek", "lock", "post", "claim", "closing",
                                 "ok", "error"}]
  /\ closing \in [Processes -> {"none", "begin", "lock", "delete", "ok", "error"}]
  /\ \A b \in {cached, dropped, asked} : b \in BOOLEAN

Promise ==
  INSTANCE SessionPromise
    WITH open <- ~asked, generation <- server, due <- dues >= server, lent <- lease

(* SessionPromise: requests in flight keep the credentials they were lent, those that *)
(* several processes find due at once are renewed once, and nothing is lent after the *)
(* connection was given back.                                                         *)
SessionKeepsPromise == Promise!Spec

(* No request hangs, neither behind the renewal that failed and closes nor behind a *)
(* waiter that is gone: those under way have all returned some time.                *)
CallsReturn ==
  LET busy == \E c \in Callers : call[c] \notin {"idle", "done"} IN busy ~> ~busy

(* The service is told to release every connection that failed to start, that the   *)
(* session closed by itself or that nobody holds any more.                          *)
ReleaseSent == session.closed \/ Gone ~> asked
=============================================================================
