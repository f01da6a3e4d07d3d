------------------------------- MODULE MCDesk -------------------------------
(* Small instances of the coding agent, of a delegated goal and of a session  *)
(* with the LARM service, side by side. A behaviour is one of them; the others *)
(* rest in their initial states.                                               *)
EXTENDS CodingRun

CONSTANTS g1, NoTask, c1, c2, ticker, starter

VARIABLES
  which,
  server, session, snapshot, lease, lock, call, renewal, closing, cached, dropped, asked, dues,
  db, agent, own, host, playing, told, heard, proved, turns, resolves, grestarts

(* One goal that reports at once or later. *)
Steward ==
  INSTANCE Steward WITH
    Goals <- {g1}, Confirm <- {g1}, Screen <- TRUE, Own <- FALSE, Steps <- 1, Budget <- 1,
    MaxReplans <- 0, MaxTurns <- 1, MaxResolves <- 0, MaxRestarts <- 1,
    restarts <- grestarts

(* Two requests for a provider that serves one at a time, the second of which comes    *)
(* only as long as the credentials do not age.                                         *)
Session ==
  INSTANCE LarmSession WITH
    Callers <- {c1, c2}, Capacity <- 1, Ticker <- ticker, Starter <- starter, MaxDue <- 1

lvars ==
  <<server, session, snapshot, lease, lock, call, renewal, closing, cached, dropped, asked, dues>>

gvars == <<db, agent, own, host, playing, told, heard, proved, turns, resolves, grestarts>>

DeskInit == which \in {"coding", "session", "steward"} /\ Init /\ Session!Init /\ Steward!Init
DeskNext ==
  \/ which = "coding" /\ Next /\ UNCHANGED <<which, lvars, gvars>>
  \/ /\ which = "session" /\ Session!Next /\ UNCHANGED <<which, vars, gvars>>
     /\ dues' > 0 => call'[c2] = "idle"
  \/ which = "steward" /\ Steward!Next /\ UNCHANGED <<which, vars, lvars>>

(* The fairness of each instance, in its own behaviours. *)
CodingIsFair == \A r \in Runs : WF_vars(which = "coding" /\ Thread(r))
StewardIsFair ==
  /\ WF_gvars(which = "steward" /\ Steward!Pump)
  /\ WF_gvars(which = "steward" /\ Steward!PumpStopsStarting)
  /\ SF_gvars(which = "steward" /\ Steward!PumpFlushes)
  /\ \A h \in Steward!Hosts : WF_gvars(which = "steward" /\ Steward!Launch(h))
  /\ \A t \in Steward!Tasks :
       /\ WF_gvars(which = "steward" /\ (Steward!StopNoticed(t) \/ Steward!RunEnds(t)))
       /\ WF_gvars(which = "steward" /\ Steward!ReportDue(t))
  /\ WF_gvars(which = "steward" /\ Steward!TurnQueues)
  /\ WF_gvars(which = "steward" /\ Steward!TurnStarts)
SessionIsFair ==
  /\ WF_lvars(which = "session" /\ \E c \in {c1, c2} : Session!Calls(c))
  /\ WF_lvars(which = "session" /\ Session!Calls(ticker))
  /\ WF_lvars(which = "session" /\ Session!StartEnds)
  /\ WF_lvars(which = "session" /\ \E p \in Session!Processes : Session!Renews(p))
  /\ WF_lvars(which = "session" /\ \E p \in Session!Processes : Session!Closing(p))
  /\ WF_lvars(which = "session" /\ Session!Drop)
DeskSpec ==
  /\ DeskInit /\ [][DeskNext]_<<which, vars, lvars, gvars>>
  /\ CodingIsFair /\ StewardIsFair /\ SessionIsFair

(* Credentials are renewed once and under nobody's hands, and lent as they are honoured. *)
SessionKeepsPromise == Session!SessionKeepsPromise /\ []Session!TypeOK
(* The thread of a coding run ends, and a claimed report becomes a message; no request hangs *)
(* on the session, and no connection that is over is left unreleased.                         *)
RunsEnd ==
  CodingEnds /\ Steward!ReportsArrive /\ Session!CallsReturn /\ Session!ReleaseSent
=============================================================================
