---------------------------- MODULE MCTaskQueue ----------------------------
(* Three sizes of TaskQueue: one input with its speech and its progress     *)
(* line, with a restart and unwritten failures or with a replay; two        *)
(* inputs that compete for one place and two conversation lanes; and a      *)
(* worker row, which shares no lane and no kind with the others.            *)
EXTENDS TaskQueue

CONSTANTS k1, k2, c1, c2, s1, u1, w1

VARIABLE size

J(kind, key) == [kind |-> kind, key |-> key]

MCJobs ==
  {J("user_input", k1), J("user_input", k2), J("speech", k1), J("progress_speech", k1),
   J("worker", k2)}

MCLanes == [w \in {c1, c2, s1, u1, w1} |->
              CASE w \in {c1, c2} -> "conversation"
                [] w = s1 -> "speech"
                [] w = u1 -> "replay"
                [] w = w1 -> "worker"]

(* 16 user inputs and 8 background questions in the code. *)
MCPending == [k \in CappedKinds |-> 1]

(* Only these rows and these workers are busy. *)
Only(js, ws) ==
  /\ \A j \in Jobs \ js : jobs'[j] = AbsentRow
  /\ \A w \in Workers \ ws : pc'[w] = "idle"

Voice ==
  /\ Only({J("user_input", k1), J("speech", k1), J("progress_speech", k1)}, {c1, s1, u1})
  /\ \/ restarts' < 2 /\ replays' = 0
     \/ restarts' = 0 /\ lost' = {}

Inputs == Only({J("user_input", k1), J("user_input", k2)}, {c1, c2}) /\ lost' = {}

Worker == Only({J("worker", k2)}, {w1})

SizedInit == Init /\ size \in {"voice", "inputs", "worker"}
SizedNext ==
  /\ Next /\ UNCHANGED size
  /\ size = "voice" => Voice
  /\ size = "inputs" => Inputs
  /\ size = "worker" => Worker
SizedSpec == SizedInit /\ [][SizedNext]_<<size, vars>>
=============================================================================
