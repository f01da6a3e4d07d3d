--------------------------- MODULE SessionPromise ---------------------------
(***************************************************************************)
(* What a session over a metered connection promises: credentials are lent *)
(* only as the service honours them, they are renewed only when that is    *)
(* due and while nobody uses them, and the connection is given back only   *)
(* when nobody does, for good.                                             *)
(***************************************************************************)
EXTENDS Naturals

CONSTANT Callers

VARIABLES
  open,       \* the connection was not given back
  generation, \* the credentials the service honours
  due,        \* these were seen close to their expiry
  lent        \* the generation each caller works with, or 0

svars == <<open, generation, due, lent>>

Free == \A c \in Callers : lent[c] = 0

Init == open = TRUE /\ generation = 1 /\ due = FALSE /\ lent = [c \in Callers |-> 0]

Lend(c) ==
  /\ open /\ lent[c] = 0 /\ lent' = [lent EXCEPT ![c] = generation]
  /\ UNCHANGED <<open, generation, due>>

Return(c) ==
  /\ lent[c] # 0 /\ lent' = [lent EXCEPT ![c] = 0]
  /\ UNCHANGED <<open, generation, due>>

Age == open /\ due' = TRUE /\ UNCHANGED <<open, generation, lent>>

Renew ==
  /\ open /\ due /\ Free
  /\ due' = FALSE /\ generation' = generation + 1
  /\ UNCHANGED <<open, lent>>

GiveBack == Free /\ open' = FALSE /\ UNCHANGED <<generation, due, lent>>

Next == Age \/ Renew \/ GiveBack \/ \E c \in Callers : Lend(c) \/ Return(c)

Spec == Init /\ [][Next]_svars
=============================================================================
