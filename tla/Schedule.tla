------------------------------ MODULE Schedule ------------------------------
(***************************************************************************)
(* The ledger of what is due (schedule/ledger.rs) and the tick that fires  *)
(* it (schedule/tick.rs): of the application's loop, and of the command    *)
(* that switches the schedule on. A tick fires in one transaction and      *)
(* starts the delegated work of the fired entries afterwards, one by one.  *)
(*                                                                         *)
(* Time is counted in ticks of the loop. The revision of a row never       *)
(* changes: a row is written again only by its status. Calendars are not   *)
(* modelled.                                                               *)
(***************************************************************************)
EXTENDS Naturals, FiniteSets, SequencesExt

CONSTANTS
  DueLimit,    \* DUE_LIMIT: rows a tick looks at
  Wishes,      \* the entries the user may make; end = NoEnd is one without a window
  MaxEntries,  \* bounds of the model: how many of them,
  MaxNow,      \* the last tick of the clock,
  MaxSwitches, \* how often the user switches the schedule on or off
  MaxRestarts  \* and how often the process may die

Kinds == {"task_run", "reminder", "hold_until"}

(* parse_add_kind: a held row is not the user's to make. *)
ASSUME ScheduleAssumption ==
  /\ Wishes \subseteq [kind : Kinds \ {"hold_until"}, due : Nat, end : Nat, delegated : BOOLEAN]
  /\ MaxEntries \in Nat /\ MaxNow \in Nat /\ MaxSwitches \in Nat /\ MaxRestarts \in Nat

VARIABLES
  now,
  enabled,   \* schedule_runtime.enabled
  entries,   \* schedule_entries, in the order of their making
  tick,      \* what each caller of tick is doing
  told,      \* the messages the user got about each entry
  tries,     \* history: how often the work of each of the user's entries was asked for
  counters   \* how far the bounds are used up

vars == <<now, enabled, entries, tick, told, tries, counters>>

Callers == {"loop", "command"}
Rows == DOMAIN entries
NoEnd == MaxNow + 2  \* no tick comes so late
Statuses == {"scheduled", "firing", "fired", "missed", "withdrawn"}
Messages == {"started", "candidate", "inspect", "digest"}
Results == {"none", "started", "deferred", "no_delegation", "error"}

Idle == [pc |-> "idle", hold |-> FALSE, busy |-> FALSE, pending |-> <<>>, ok |-> FALSE]

Init ==
  /\ now = 0 /\ enabled \in BOOLEAN /\ entries = <<>>
  /\ tick = [c \in Callers |-> Idle]
  /\ told = <<>> /\ tries = <<>>
  /\ counters = [made |-> 0, switches |-> 0, restarts |-> 0]

(* cas_status: the row is written only while it has the status it was read with. *)
Cas(i, from, to, result) ==
  entries' = [entries EXCEPT ![i] = IF @.status = from
                                    THEN [@ EXCEPT !.status = to, !.result = result] ELSE @]

(* The row a deferred or a held entry goes on as. *)
RetryRow(e) ==
  [e EXCEPT !.due = now + 1, !.end = IF @ < now + 1 THEN now + 1 ELSE @]
HoldRow(e) == [e EXCEPT !.kind = "hold_until", !.due = now, !.end = NoEnd]

(* Slip: the parameters of the statement are swapped. *)
Closing_Swapped(e, result) ==
  IF e.status = "firing" THEN [e EXCEPT !.status = result, !.result = "fired"] ELSE e

(* close_firing *)
Closing(e, result) ==
  IF e.status = "firing" THEN [e EXCEPT !.status = "fired", !.result = result] ELSE e

-----------------------------------------------------------------------------
(* The user.                                                               *)

(* schedule_add *)
Add ==
  /\ counters.made < MaxEntries /\ counters' = [counters EXCEPT !.made = @ + 1]
  /\ \E wish \in Wishes :
       /\ wish.due <= wish.end
       /\ entries' = Append(entries,
            [kind |-> wish.kind, from |-> Len(entries) + 1, due |-> wish.due, end |-> wish.end,
             delegated |-> wish.delegated, status |-> "scheduled", result |-> "none"])
  /\ told' = Append(told, {}) /\ tries' = Append(tries, 0)
  /\ UNCHANGED <<now, enabled, tick>>

(* schedule_withdraw, also of what has been fired. *)
Withdraw(i) ==
  /\ entries[i].status # "withdrawn"
  /\ entries' = [entries EXCEPT ![i].status = "withdrawn"]
  /\ UNCHANGED <<now, enabled, tick, told, tries, counters>>

(* disable: firing entries are closed, whoever is working on them; the schedule may have *)
(* been off, while a tick that began before goes on.                                     *)
Disable ==
  /\ enabled' = FALSE
  /\ counters.switches < MaxSwitches /\ counters' = [counters EXCEPT !.switches = @ + 1]
  /\ entries' = [i \in Rows |-> Closing(entries[i], "error")]
  /\ UNCHANGED <<now, tick, told, tries>>

(* Slip: only the dispatch itself closes what is firing. *)
Found_None == {}

(* recover_if_needed: what it finds firing is closed. The work of a task may or may not *)
(* have begun, and the user is asked to look.                                           *)
Found == {i \in Rows : entries[i].status = "firing"}
Inspected == {i \in Found : entries[i].kind = "task_run"}

Recovered ==
  /\ entries' = [i \in Rows |-> IF i \in Found THEN Closing(entries[i], "error") ELSE entries[i]]
  /\ told' = [i \in Rows |-> IF i \in Inspected THEN told[i] \cup {"inspect"} ELSE told[i]]

(* enable, whose tick is that of the command; the schedule may have been on. *)
Enable ==
  /\ tick["command"].pc = "idle" /\ enabled' = TRUE
  /\ counters.switches < MaxSwitches /\ counters' = [counters EXCEPT !.switches = @ + 1]
  /\ Recovered
  /\ tick' = [tick EXCEPT !["command"].pc = "begun"]
  /\ UNCHANGED <<now, tries>>

-----------------------------------------------------------------------------
(* A tick.                                                                 *)

Passes ==
  /\ now < MaxNow /\ now' = now + 1
  /\ UNCHANGED <<enabled, entries, tick, told, tries, counters>>

(* The loop's interval, or the command after its enable. *)
Begins(c) == tick[c].pc = "begun" \/ (c = "loop" /\ tick[c].pc = "idle")

(* settings, situation_hold and generation_slot_busy are read before the transaction. *)
Reads(c, hold, busy) ==
  /\ Begins(c)
  /\ tick' = [tick EXCEPT ![c] =
       IF enabled THEN [Idle EXCEPT !.pc = "read", !.hold = hold, !.busy = busy] ELSE Idle]
  /\ UNCHANGED <<now, enabled, entries, told, tries, counters>>

IsDue(e) == e.status = "scheduled" /\ e.due <= now /\ now <= e.end
Before(i, j) == entries[i].due < entries[j].due \/ (entries[i].due = entries[j].due /\ i < j)

(* due: ORDER BY due_at LIMIT, in which held entries count. *)
Due ==
  LET due == {i \in Rows : IsDue(entries[i])} IN
  {i \in due : Cardinality({j \in due : Before(j, i)}) < DueLimit}

(* Slip: the entry of a task is its own permission. *)
Decision_Unasked(e, hold, busy) ==
  CASE hold -> "hold" [] ~hold /\ busy -> "defer" [] OTHER -> "act"

(* decide *)
Decision(e, hold, busy) ==
  CASE ~e.delegated -> "ask"
    [] e.delegated /\ hold -> "hold"
    [] e.delegated /\ ~hold /\ busy -> "defer"
    [] OTHER -> "act"

(* Slip: a deferred entry waits in its own row as well. *)
Fires_Deferred(e, decision) ==
  IF decision = "act" THEN [e EXCEPT !.status = "firing"]
  ELSE IF decision = "defer" THEN [e EXCEPT !.result = "deferred"]
  ELSE [e EXCEPT !.status = "fired", !.result = IF decision = "ask" THEN "no_delegation" ELSE "deferred"]

(* fire_one; the work of a task stays firing until it is dispatched. *)
Fires(e, decision) ==
  CASE decision = "act" /\ e.kind = "task_run" -> [e EXCEPT !.status = "firing"]
    [] decision = "act" /\ e.kind # "task_run" -> [e EXCEPT !.status = "fired", !.result = "started"]
    [] decision = "ask" -> [e EXCEPT !.status = "fired", !.result = "no_delegation"]
    [] OTHER -> [e EXCEPT !.status = "fired", !.result = "deferred"]

Message(decision, kind) ==
  CASE decision = "act" /\ kind # "task_run" -> {"started"}
    [] decision = "ask" -> {"candidate"}
    [] OTHER -> {}

(* The work that is still to be dispatched. *)
GoesOn(pending) ==
  IF pending = <<>> THEN Idle ELSE [Idle EXCEPT !.pc = "dispatching", !.pending = pending]

(* What a tick decides of a row, what it fires and which held rows it tells of. *)
Decided(c, i) == Decision(entries[i], tick[c].hold, tick[c].busy)
Fired == {i \in Due : entries[i].kind # "hold_until"}
Digested(c) ==
  {i \in Rows : ~tick[c].hold /\ entries[i].kind = "hold_until"
                /\ entries[i].status = "scheduled" /\ entries[i].due <= now}

(* What goes on in another row, and what is left to be dispatched. *)
Waits(c) == {i \in Fired : Decided(c, i) \in {"hold", "defer"}}
Works(c) == {i \in Fired : Decided(c, i) = "act" /\ entries[i].kind = "task_run"}

RowAfter(c, i) ==
  IF i \in Fired THEN Fires(entries[i], Decided(c, i))
  ELSE IF i \in Digested(c) THEN [entries[i] EXCEPT !.status = "fired", !.result = "started"]
  ELSE IF i \in Found THEN Closing(entries[i], "error")
  ELSE IF entries[i].status = "scheduled" /\ entries[i].end < now
       THEN [entries[i] EXCEPT !.status = "missed", !.result = "error"]
  ELSE entries[i]

MessagesAfter(c, i) ==
  IF i \in Fired THEN Message(Decided(c, i), entries[i].kind)
  ELSE IF i \in Digested(c) THEN {"digest"}
  ELSE IF i \in Inspected THEN {"inspect"} ELSE {}

(* The sequence of a set of rows in which they are due. *)
InOrder(S) == {s \in SetToSeqs(S) : \A m, n \in DOMAIN s : m < n => Before(s[m], s[n])}

(* The transaction of tick: recover_if_needed, mark_missed, fire_one of what is due and, *)
(* unless the situation holds, flush_digest.                                             *)
Transacts(c) ==
  /\ tick[c].pc = "read"
  /\ \E goOn \in InOrder(Waits(c)), pending \in InOrder(Works(c)) :
       /\ entries' = [i \in Rows |-> RowAfter(c, i)] \o
            [n \in DOMAIN goOn |-> IF tick[c].hold THEN HoldRow(entries[goOn[n]])
                                                   ELSE RetryRow(entries[goOn[n]])]
       /\ told' = [i \in Rows |-> told[i] \cup MessagesAfter(c, i)] \o [n \in DOMAIN goOn |-> {}]
       /\ tries' = tries \o [n \in DOMAIN goOn |-> 0]
       /\ tick' = [tick EXCEPT ![c] = GoesOn(pending)]
  /\ UNCHANGED <<now, enabled, counters>>

(* dispatch_scheduled: the steward's gates may refuse. *)
Dispatches(c) ==
  /\ tick[c].pc = "dispatching"
  /\ tries' = [tries EXCEPT ![entries[Head(tick[c].pending)].from] = @ + 1]
  /\ \E ok \in BOOLEAN : tick' = [tick EXCEPT ![c].pc = "dispatched", ![c].ok = ok]
  /\ UNCHANGED <<now, enabled, entries, told, counters>>

(* The early return of finish_task_dispatch: schedule_add takes also a subject that names *)
(* no task, and then the rest of the tick is given up.                                    *)
Rejects(c) ==
  /\ tick[c].pc = "dispatching"
  /\ tick' = [tick EXCEPT ![c] = Idle]
  /\ UNCHANGED <<now, enabled, entries, told, tries, counters>>

Answer(i, result) == Cas(i, "firing", "fired", result)

(* The write of finish_task_dispatch: the message stays also when the row has changed, *)
(* and then the rest of the tick is given up.                                          *)
Finishes(c) ==
  /\ tick[c].pc = "dispatched"
  /\ LET i == Head(tick[c].pending) IN
     /\ told' = [told EXCEPT ![i] = @ \cup {IF tick[c].ok THEN "started" ELSE "candidate"}]
     /\ Answer(i, IF tick[c].ok THEN "started" ELSE "no_delegation")
     /\ tick' = [tick EXCEPT ![c] =
          IF entries[i].status = "firing" THEN GoesOn(Tail(@.pending)) ELSE Idle]
  /\ UNCHANGED <<now, enabled, tries, counters>>

(* The process dies; the next one finds what was firing in its first tick. *)
Die ==
  /\ counters.restarts < MaxRestarts /\ counters' = [counters EXCEPT !.restarts = @ + 1]
  /\ tick' = [c \in Callers |-> Idle]
  /\ UNCHANGED <<now, enabled, entries, told, tries>>

-----------------------------------------------------------------------------
Step(c) == Transacts(c) \/ Dispatches(c) \/ Rejects(c) \/ Finishes(c)

User == Add \/ Disable \/ Enable \/ \E i \in Rows : Withdraw(i)

Next ==
  \/ User \/ Passes \/ Die
  \/ \E c \in Callers : Step(c) \/ \E hold, busy \in BOOLEAN : Reads(c, hold, busy)

Spec == Init /\ [][Next]_vars

(* The loop goes on and a call runs to its end; no situation holds for ever. *)
Fairness ==
  /\ \A c \in Callers : WF_vars(Step(c)) /\ WF_vars(\E hold, busy \in BOOLEAN : Reads(c, hold, busy))
  /\ SF_vars(\E busy \in BOOLEAN : Reads("loop", FALSE, busy))
FairSpec == Spec /\ Fairness

-----------------------------------------------------------------------------
(* TypeOK: the rows keep to the values the schema allows. *)
TypeOK ==
  /\ now \in 0..MaxNow /\ enabled \in BOOLEAN
  /\ entries \in Seq([kind : Kinds, from : Nat, due : Nat, end : Nat, delegated : BOOLEAN,
                      status : Statuses, result : Results])
  /\ tick \in [Callers -> [pc : {"idle", "begun", "read", "dispatching", "dispatched"},
                           hold : BOOLEAN, busy : BOOLEAN, pending : Seq(Nat), ok : BOOLEAN]]
  /\ told \in Seq(SUBSET Messages) /\ tries \in Seq(Nat)
  /\ DOMAIN told = Rows /\ DOMAIN tries = Rows

(* NoReplay: "Due does not mean authorized" and "Do not replay a terminal entry as new      *)
(* work" (schedule/README.md): the work of an entry is asked for at most once through all   *)
(* its retries, crashes and switches of the schedule, and never without a delegation.       *)
NoReplay == \A i \in Rows : tries[i] <= IF entries[i].delegated THEN 1 ELSE 0

Line(i) == {j \in Rows : entries[j].from = i}

(* NothingVanishes: an entry that was held or deferred goes on in exactly one later row,  *)
(* "Situation holds and busy generation slots are not task failures", and what a row says *)
(* of its end is what the user was told.                                                  *)
NothingVanishes ==
  \A i \in Rows :
    /\ entries[i].from # i \/ \A j \in Line(i) :
         (entries[j].result = "deferred") <=> \E k \in Line(i) : k > j
    /\ entries[i].result = "started" => told[i] \cap {"started", "digest"} # {}
    /\ entries[i].result = "no_delegation" => "candidate" \in told[i]

(* DueIsSettled: a due entry is settled, and one that is firing closed, however often the *)
(* process dies, unless the schedule is off.                                              *)
DueIsSettled ==
  \A i \in 1..(MaxEntries + 1) :
    LET waits == i \in Rows /\ entries[i].due <= now /\ entries[i].status \in {"scheduled", "firing"}
    IN waits ~> (~enabled \/ ~waits)
=============================================================================
