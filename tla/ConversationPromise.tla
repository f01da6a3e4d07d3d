------------------------ MODULE ConversationPromise ------------------------
(***************************************************************************)
(* What the conversation promises to the person who types: every accepted  *)
(* request is answered, fails or is cancelled, exactly one of these and    *)
(* once.  A reply that stops an earlier request is given in the very step  *)
(* that cancels it; any other cancellation is asked for by the user or by  *)
(* a later request that replaces it.                                       *)
(***************************************************************************)
CONSTANT Keys

VARIABLES outcome, stops

vars == <<outcome, stops>>

Outcomes == {"none", "waiting", "answered", "failed", "cancelled"}

Init ==
  /\ outcome = [k \in Keys |-> "none"]
  /\ stops = [k \in Keys |-> {}]

Accept(k) ==
  /\ outcome[k] = "none"
  /\ outcome' = [outcome EXCEPT ![k] = "waiting"]
  /\ UNCHANGED stops

(* The reply to k; with it ends whatever still waited of the requests that *)
(* the reply says it stops.                                                *)
Answer(k, stopped) ==
  /\ outcome[k] = "waiting" /\ k \notin stopped
  /\ outcome' = [j \in Keys |->
       CASE j = k -> "answered"
         [] j \in stopped /\ outcome[j] = "waiting" -> "cancelled"
         [] OTHER -> outcome[j]]
  /\ stops' = [stops EXCEPT ![k] = stopped]

Fail(k) ==
  /\ outcome[k] = "waiting"
  /\ outcome' = [outcome EXCEPT ![k] = "failed"]
  /\ UNCHANGED stops

Withdraw(k) ==
  /\ outcome[k] = "waiting"
  /\ outcome' = [outcome EXCEPT ![k] = "cancelled"]
  /\ UNCHANGED stops

Next ==
  \E k \in Keys :
    \/ Accept(k) \/ Fail(k) \/ Withdraw(k)
    \/ \E stopped \in SUBSET Keys : Answer(k, stopped)

Spec == Init /\ [][Next]_vars
=============================================================================
