---------------------------- MODULE TaskPromise ----------------------------
(***************************************************************************)
(* What a delegation to a worker agent promises: its result goes to the    *)
(* conversation that waits for it or, once nobody waits any more, into one *)
(* report, never both, and a cancelled one goes nowhere (docs/plans/       *)
(* worker-agents.md 5.3 and 5.5).                                          *)
(***************************************************************************)
CONSTANT Tasks

VARIABLE fate  \* how far the result of each delegation has come

Fates == {"none", "awaited", "deferred", "ready", "handed", "reported", "cancelled"}

Init == fate = [t \in Tasks |-> "none"]

Becomes(t, from, to) == fate[t] \in from /\ fate' = [fate EXCEPT ![t] = to]

Delegate(t) == Becomes(t, {"none"}, "awaited")
(* Nobody waits any more. *)
Defer(t)    == Becomes(t, {"awaited"}, "deferred")
(* It ends while somebody waits. *)
End(t)      == Becomes(t, {"awaited"}, "ready")
Hand(t)     == Becomes(t, {"ready"}, "handed")
Report(t)   == Becomes(t, {"deferred"}, "reported")
Cancel(t)   == Becomes(t, {"awaited", "deferred"}, "cancelled")

(* A restart defers every delegation it finds and may report it at once. *)
DeferAll ==
  fate' \in {g \in [Tasks -> Fates] :
    \A t \in Tasks : IF fate[t] \in {"awaited", "deferred"}
                     THEN g[t] \in {"deferred", "reported"} ELSE g[t] = fate[t]}

(* Cancelling an input cancels all delegations it made. *)
CancelMany ==
  fate' \in {g \in [Tasks -> Fates] :
    \A t \in Tasks : \/ g[t] = fate[t]
                     \/ fate[t] \in {"awaited", "deferred"} /\ g[t] = "cancelled"}

Next ==
  \/ \E t \in Tasks : Delegate(t) \/ Defer(t) \/ End(t) \/ Hand(t) \/ Report(t) \/ Cancel(t)
  \/ CancelMany \/ DeferAll

Spec == Init /\ [][Next]_fate
=============================================================================
