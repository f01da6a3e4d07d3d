---------------------------- MODULE MCWorkerTask ----------------------------
(* Small instances of WorkerTask for TLC. *)
EXTENDS WorkerTask

CONSTANTS k1, k2, t1, t2, c1, c2, w1, w2

MCOneOrigin == [t \in {t1} |-> k1]
(* Two delegations of one input. *)
MCSameOrigin == [t \in {t1, t2} |-> k1]
=============================================================================
