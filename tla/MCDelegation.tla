---------------------------- MODULE MCDelegation ----------------------------
(* Two sizes of WorkerTask: one delegation that climbs its ladder on two     *)
(* worker lanes, and two delegations of one input on one lane and one rung.  *)
EXTENDS MCWorkerTask

VARIABLE size

(* One delegation has a second restart, or two lanes and a worker row that *)
(* is tried again.                                                         *)
One ==
  /\ tasks'[t2] = NoRow
  /\ restarts' < 2 \/ \A j \in WorkOf(t1) : jobs'[j].attempts <= 1
  /\ restarts' < 2 \/ work'[w2] = IdleWorker

(* Two delegations have one restart, one attempt each and no row that waits *)
(* for a backoff; the restart has the conversation ask again.               *)
Pair ==
  /\ restarts' < 2
  /\ work'[w2] = IdleWorker /\ work'[w1].tries = 0
  /\ \A j \in Present(jobs') : jobs'[j].ready

SizedInit == Init /\ size \in {"one", "pair"}
SizedNext ==
  /\ Next /\ UNCHANGED size
  /\ size = "one" => One
  /\ size = "pair" => Pair
SizedSpec == SizedInit /\ [][SizedNext]_<<size, vars>>
=============================================================================
