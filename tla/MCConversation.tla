--------------------------- MODULE MCConversation ---------------------------
(* Two sizes of ConversationQueue: two inputs that stop or replace each     *)
(* other, and one question that is answered aloud.                          *)
EXTENDS MCConversationQueue

VARIABLE size

Asked(text) == {k \in Keys : said'[k] = text}

(* Requests that stop or replace are answered in silence: no progress line, *)
(* no audio stream, one restart and no row that waits for a backoff.        *)
Stopping ==
  /\ Asked("ask") = {} /\ restarts' < 2
  /\ \A w \in AllLanes : ~lane'[w].hushed
  /\ \A j \in Present(jobs') : jobs'[j].ready /\ j.kind # "progress_speech"

(* One question is streamed or queued for speech beside its progress line, *)
(* with retries and two restarts.                                          *)
Aloud == Asked("stop") \cup Asked("replace") = {} /\ Cardinality(Asked("ask")) < 2

SizedInit == Init /\ size \in {"stopping", "aloud"}
SizedNext ==
  /\ Next /\ UNCHANGED size
  /\ size = "stopping" => Stopping
  /\ size = "aloud" => Aloud
SizedSpec == SizedInit /\ [][SizedNext]_<<size, vars>>
=============================================================================
