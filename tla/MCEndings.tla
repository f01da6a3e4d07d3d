----------------------------- MODULE MCEndings -----------------------------
(* Small instances of the queue, the conversation, a delegation and the     *)
(* schedule side by side, for the properties that say what comes to an end  *)
(* and for those of the schedule. A behaviour is one of them; the others    *)
(* rest in their initial states, where nothing they owe is enabled. The     *)
(* schedule has two sizes: one entry of any kind, while it is switched, the *)
(* clock goes on and the process dies; and two pieces of delegated work     *)
(* where a tick looks at one row only.                                      *)
EXTENDS Schedule, TLC

CONSTANTS k1, c1, c2, s1, u1, w1, t1, NoKey, NoJob, NoTask

VARIABLES
  which,
  qjobs, qpc, qheld, qtoken, qstop, qunsignalled, qlost, qcommits, qrestarts, qreplays,
  ajobs, asaid, arun, areply, astopped, aannounced, alane, aunsignalled, ashown, aheard,
  arestarts,
  djobs, dtasks, dreports, dask, dwork, dunsignalled, dwithdrawn, dpresented, drestarts

(* One input and one speech, which the user may replay. *)
QueueJobs == {[kind |-> "user_input", key |-> k1], [kind |-> "speech", key |-> k1]}
Queue ==
  INSTANCE TaskQueue WITH
    Keys <- {k1},
    Jobs <- QueueJobs,
    Payloads <- {"p"}, Workers <- {c1, s1, u1},
    LaneOfWorker <- (c1 :> "conversation" @@ s1 :> "speech" @@ u1 :> "replay"),
    MaxAttempts <- 2, MaxPending <- [k \in {"user_input", "terminal_question"} |-> 2],
    StoreMayFail <- FALSE, MaxRestarts <- 1, MaxReplays <- 1,
    jobs <- qjobs, pc <- qpc, held <- qheld, token <- qtoken, stop <- qstop,
    unsignalled <- qunsignalled, lost <- qlost, commits <- qcommits, restarts <- qrestarts,
    replays <- qreplays

(* One question that is answered aloud when it is saved, with two lanes. *)
Conversation ==
  INSTANCE ConversationQueue WITH
    Keys <- {k1}, Texts <- {"ask"}, Lanes <- {c1, c2}, Speaker <- s1,
    Streaming <- FALSE, Tools <- TRUE, MaxAttempts <- 2, MaxLive <- 2, MaxRestarts <- 1,
    jobs <- ajobs, said <- asaid, run <- arun, reply <- areply, stopped <- astopped,
    announced <- aannounced, lane <- alane, unsignalled <- aunsignalled, shown <- ashown,
    heard <- aheard, restarts <- arestarts

(* One delegation whose first rung is local and whose second is the cloud. *)
Delegation ==
  INSTANCE WorkerTask WITH
    Inputs <- {k1}, Tasks <- {t1}, OriginOf <- (t1 :> k1), Lanes <- {c1}, Workers <- {w1},
    MaxLive <- 4, MaxAttempts <- 1, TopTier <- 1, CloudTier <- 1, MaxSameTierRetries <- 0,
    MaxTaskRestarts <- 1, MaxRestarts <- 1,
    jobs <- djobs, tasks <- dtasks, reports <- dreports, ask <- dask, work <- dwork,
    unsignalled <- dunsignalled, withdrawn <- dwithdrawn, presented <- dpresented,
    restarts <- drestarts

Wish(kind, due, end, delegated) ==
  [kind |-> kind, due |-> due, end |-> end, delegated |-> delegated]
Work == Wish("task_run", 0, 3, TRUE)
(* The clock stops at 1, so that 3 is no end. *)
MCWishes == {Work, Wish("task_run", 0, 0, TRUE), Wish("task_run", 0, 0, FALSE),
             Wish("reminder", 1, 3, TRUE)}

Entry == counters'.made <= 1
Entries ==
  /\ now' = 0 /\ counters'.switches = 0 /\ counters'.restarts = 0
  /\ \A i \in DOMAIN entries' :
       LET e == entries'[i] IN e.from = i => Wish(e.kind, e.due, e.end, e.delegated) = Work

qvars == <<qjobs, qpc, qheld, qtoken, qstop, qunsignalled, qlost, qcommits, qrestarts, qreplays>>
avars == <<ajobs, asaid, arun, areply, astopped, aannounced, alane, aunsignalled, ashown,
           aheard, arestarts>>
dvars == <<djobs, dtasks, dreports, dask, dwork, dunsignalled, dwithdrawn, dpresented, drestarts>>
Scheduled == which \in {"entry", "entries"}

AllInit ==
  /\ which \in {"queue", "conversation", "delegation", "entry", "entries"}
  /\ Queue!Init /\ Conversation!Init /\ Delegation!Init /\ Init
  /\ (enabled => Scheduled)
AllNext ==
  \/ which = "queue" /\ Queue!Next /\ UNCHANGED <<which, avars, dvars, vars>>
  \/ which = "conversation" /\ Conversation!Next /\ UNCHANGED <<which, qvars, dvars, vars>>
  \/ which = "delegation" /\ Delegation!Next /\ UNCHANGED <<which, qvars, avars, vars>>
  \/ /\ Scheduled /\ Next /\ UNCHANGED <<which, qvars, avars, dvars>>
     /\ IF which = "entry" THEN Entry ELSE Entries

(* The fairness of each instance, in its own behaviours. *)
QueueIsFair ==
  /\ \A w \in {c1, s1, u1} : WF_qvars(which = "queue" /\ Queue!Step(w))
  /\ \A j \in QueueJobs : WF_qvars(which = "queue" /\ Queue!BackoffEnds(j))
  /\ WF_qvars(which = "queue" /\ Queue!Signal(k1))
ConversationIsFair ==
  /\ \A w \in {c1, c2} : WF_avars(which = "conversation" /\ Conversation!Converse(w))
  /\ WF_avars(which = "conversation" /\ Conversation!Speak)
  /\ WF_avars(which = "conversation" /\ Conversation!Signal(k1))
  /\ WF_avars(which = "conversation" /\ Conversation!BackoffEnds(k1))
DelegationIsFair ==
  /\ WF_dvars(which = "delegation" /\ Delegation!Converse(c1))
  /\ WF_dvars(which = "delegation" /\ Delegation!Labour(w1))
  /\ \A j \in Delegation!Jobs : WF_dvars(which = "delegation" /\ Delegation!BackoffEnds(j))
  /\ WF_dvars(which = "delegation" /\ Delegation!Signal(k1))
ScheduleIsFair ==
  /\ \A c \in Callers :
       /\ WF_vars(Scheduled /\ Step(c))
       /\ WF_vars(Scheduled /\ \E hold, busy \in BOOLEAN : Reads(c, hold, busy))
  /\ SF_vars(Scheduled /\ \E busy \in BOOLEAN : Reads("loop", FALSE, busy))

AllSpec ==
  /\ AllInit /\ [][AllNext]_<<which, qvars, avars, dvars, vars>>
  /\ QueueIsFair /\ ConversationIsFair /\ DelegationIsFair /\ ScheduleIsFair

(* Every accepted job is settled, every accepted input closed and every delegation *)
(* settled, in the end.                                                             *)
EverySettles ==
  Queue!EverySettles /\ Conversation!EveryInputCloses /\ Delegation!EveryTaskEnds
=============================================================================
