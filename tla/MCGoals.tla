------------------------------ MODULE MCGoals ------------------------------
(* Two instances of Steward side by side: a goal of two steps beside the    *)
(* user's own coding runs, and a goal of one step that may start from a     *)
(* screen and that only the user can call reached. A behaviour is one of    *)
(* the two; the other rests in its initial state.                           *)
EXTENDS MCSteward

VARIABLES
  which, ddb, dagent, down, dhost, dplaying, dtold, dheard, dproved, dturns, dresolves, drestarts

Decided ==
  INSTANCE Steward WITH
    Goals <- {g1}, Confirm <- {g1}, Screen <- TRUE, Own <- TRUE, Steps <- 1, Budget <- 1,
    MaxReplans <- 1, MaxTurns <- 1, MaxResolves <- 1, MaxRestarts <- 1,
    db <- ddb, agent <- dagent, own <- down, host <- dhost, playing <- dplaying,
    told <- dtold, heard <- dheard, proved <- dproved, turns <- dturns,
    resolves <- dresolves, restarts <- drestarts

dvars ==
  <<ddb, dagent, down, dhost, dplaying, dtold, dheard, dproved, dturns, dresolves, drestarts>>

(* A behaviour of the first has a second turn, or a plan that begins anew. *)
TurnsOrPlans == turns' < 2 \/ \A g \in Goals : db'.plan[g] = 1

GoalsInit == which \in {"steps", "decided"} /\ Init /\ Decided!Init
GoalsNext ==
  \/ which = "steps" /\ Next /\ TurnsOrPlans /\ UNCHANGED <<which, dvars>>
  \/ which = "decided" /\ Decided!Next /\ UNCHANGED <<which, vars>>
GoalsSpec == GoalsInit /\ [][GoalsNext]_<<which, vars, dvars>>

(* The same of the second goal: its tables implement the promise, one agent works at a *)
(* time beside the user's own runs, and nothing is done unproved or reported twice.    *)
DecidedSound ==
  /\ Decided!KeepsPromise
  /\ [](Decided!TypeOK /\ Decided!OneAgent /\ Decided!ProvenInOrder /\ Decided!ReportedOnce)
=============================================================================
