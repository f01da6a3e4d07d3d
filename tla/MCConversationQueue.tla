------------------------ MODULE MCConversationQueue ------------------------
(* Small instances of ConversationQueue for TLC. *)
EXTENDS ConversationQueue, TLC

CONSTANTS k1, k2, c1, c2

(* The lanes are interchangeable; the inputs are not, for queue order and *)
(* the earlier input matter only through row numbers, which any input may *)
(* get: both sets are symmetric.                                          *)
Symmetry == Permutations({k1, k2}) \cup Permutations({c1, c2})
=============================================================================
