--------------------------- MODULE ScheduleProofs ---------------------------
(***************************************************************************)
(* Proofs about Schedule for every set of wishes and every bound: types,   *)
(* an inductive invariant, and from it that the work of an entry is asked  *)
(* for at most once and only with a delegation, and that what was held or  *)
(* deferred goes on in exactly one later row.                              *)
(***************************************************************************)
EXTENDS Schedule, FiniteSetTheorems, SequenceTheorems, TLAPS

Entry == [kind : Kinds, from : Nat, due : Nat, end : Nat, delegated : BOOLEAN,
          status : Statuses, result : Results]

(* A row belongs to the entry the user made, and inherits its delegation. *)
Rooted ==
  \A i \in Rows :
    /\ entries[i].from \in 1 .. i
    /\ entries[entries[i].from].from = entries[i].from
    /\ entries[entries[i].from].delegated = entries[i].delegated

(* A row that is not at its end has no result yet. *)
Unsettled ==
  \A i \in Rows : entries[i].status \in {"scheduled", "firing"} => entries[i].result = "none"

(* Only the last row of an entry waits, and exactly the others were put off. *)
LastWaits ==
  \A i \in Rows :
    /\ entries[i].status = "scheduled" =>
         \A k \in Rows : entries[k].from = entries[i].from => k <= i
    /\ (entries[i].result = "deferred") <=>
         \E k \in Rows : entries[k].from = entries[i].from /\ k > i

(* A tick under way dispatches rows that were fired with a delegation, and no two *)
(* places of the ticks are for one row.                                           *)
Pending(c) == DOMAIN tick[c].pending
DispatchesFired ==
  /\ \A c \in Callers :
       /\ tick[c].pc \in {"dispatching", "dispatched"} <=> tick[c].pending # <<>>
       /\ \A n \in Pending(c) :
            LET i == tick[c].pending[n] IN
            i \in Rows /\ entries[i].delegated /\ entries[i].status # "scheduled"
  /\ \A c, d \in Callers : \A m \in Pending(c), n \in Pending(d) :
       tick[c].pending[m] = tick[d].pending[n] => c = d /\ m = n

(* The rows whose work may still be asked for: those that wait, and those a tick has *)
(* fired and not dispatched yet.                                                     *)
Ahead(i) ==
  \/ entries[i].status = "scheduled"
  \/ \E c \in Callers : \E n \in Pending(c) :
       tick[c].pending[n] = i /\ (n > 1 \/ tick[c].pc = "dispatching")

(* An entry has one such row at most, and then its work was not asked for before. *)
OneAhead ==
  \A i \in Rows : Ahead(i) =>
    /\ tries[entries[i].from] = 0
    /\ \A k \in Rows : Ahead(k) /\ entries[k].from = entries[i].from => k = i

(* What a row says of its end was told. *)
EndsTold ==
  \A i \in Rows :
    /\ entries[i].result = "started" => told[i] \cap {"started", "digest"} # {}
    /\ entries[i].result = "no_delegation" => "candidate" \in told[i]

IInv ==
  TypeOK /\ Rooted /\ Unsettled /\ LastWaits /\ DispatchesFired /\ OneAhead /\ EndsTold /\ NoReplay


-----------------------------------------------------------------------------
(* Types. *)

LEMMA Types ==
  ASSUME IInv
  PROVE  /\ Len(entries) \in Nat /\ Rows = 1 .. Len(entries)
         /\ \A i \in Rows : entries[i] \in Entry /\ told[i] \in SUBSET Messages /\ tries[i] \in Nat
         /\ entries \in Seq(Entry) /\ told \in Seq(SUBSET Messages) /\ tries \in Seq(Nat)
         /\ DOMAIN told = Rows /\ DOMAIN tries = Rows
         /\ Len(told) = Len(entries) /\ Len(tries) = Len(entries)
         /\ now \in Nat
<1>1. entries \in Seq(Entry) /\ told \in Seq(SUBSET Messages) /\ tries \in Seq(Nat)
      /\ DOMAIN told = Rows /\ DOMAIN tries = Rows
  BY DEF IInv, TypeOK, Entry
<1>2. /\ Len(entries) \in Nat /\ Rows = 1 .. Len(entries)
      /\ Len(told) \in Nat /\ DOMAIN told = 1 .. Len(told)
      /\ Len(tries) \in Nat /\ DOMAIN tries = 1 .. Len(tries)
  BY <1>1, LenProperties DEF Rows
<1>3. Len(told) = Len(entries) /\ Len(tries) = Len(entries)
  BY <1>1, <1>2
<1>4. \A i \in Rows : entries[i] \in Entry /\ told[i] \in SUBSET Messages /\ tries[i] \in Nat
  BY <1>1, <1>2, <1>3, ElementOfSeq
<1>5. now \in Nat
  BY ScheduleAssumption DEF IInv, TypeOK
<1> QED
  BY <1>1, <1>2, <1>3, <1>4, <1>5

(* What the places of a tick hold. *)
LEMMA TickTypes ==
  ASSUME IInv, NEW c \in Callers
  PROVE  /\ tick[c] \in [pc : {"idle", "begun", "read", "dispatching", "dispatched"},
                         hold : BOOLEAN, busy : BOOLEAN, pending : Seq(Nat), ok : BOOLEAN]
         /\ tick[c].pending \in Seq(Nat)
         /\ Len(tick[c].pending) \in Nat /\ Pending(c) = 1 .. Len(tick[c].pending)
         /\ (tick[c].pending = <<>> <=> Pending(c) = {})
<1>1. tick[c] \in [pc : {"idle", "begun", "read", "dispatching", "dispatched"},
                   hold : BOOLEAN, busy : BOOLEAN, pending : Seq(Nat), ok : BOOLEAN]
  BY DEF IInv, TypeOK
<1>2. tick[c].pending \in Seq(Nat)
  BY <1>1
<1>3. Len(tick[c].pending) \in Nat /\ Pending(c) = 1 .. Len(tick[c].pending)
  BY <1>2, LenProperties DEF Pending
<1>4. tick[c].pending = <<>> <=> Len(tick[c].pending) = 0
  BY <1>2, EmptySeq
<1>5. Len(tick[c].pending) = 0 <=> 1 .. Len(tick[c].pending) = {}
  BY <1>3
<1> QED
  BY <1>1, <1>2, <1>3, <1>4, <1>5

-----------------------------------------------------------------------------
(* How rows move in a step: the rows there are come nearer to their end, those of W *)
(* are put off, and new rows are made by the user or follow a row of W, one each.   *)

Fixed(i) ==
  /\ entries'[i].from = entries[i].from /\ entries'[i].delegated = entries[i].delegated
  /\ told[i] \subseteq told'[i] /\ tries'[i] = tries[i]

Ages(i) ==
  \/ entries'[i].status = entries[i].status /\ entries'[i].result = entries[i].result
  \/ entries'[i].status = "withdrawn" /\ entries'[i].result = entries[i].result
  \/ /\ entries[i].status = "scheduled" /\ entries'[i].status = "firing"
     /\ entries'[i].result = entries[i].result
  \/ /\ entries[i].status \in {"scheduled", "firing"} /\ entries'[i].status \in {"fired", "missed"}
     /\ entries'[i].result \in {"started", "no_delegation", "error"}
     /\ entries'[i].result = "started" => told'[i] \cap {"started", "digest"} # {}
     /\ entries'[i].result = "no_delegation" => "candidate" \in told'[i]

PutOff(i) ==
  /\ entries[i].status = "scheduled"
  /\ entries'[i].status = "fired" /\ entries'[i].result = "deferred"

Follows(k, i) ==
  entries'[k].from = entries[i].from /\ entries'[k].delegated = entries[i].delegated

Moves(W) ==
  /\ W \subseteq Rows /\ Rows \subseteq Rows'
  /\ \A i \in Rows : Fixed(i) /\ IF i \in W THEN PutOff(i) ELSE Ages(i)
  /\ \A k \in Rows' \ Rows :
       /\ k \in Nat \ {0} /\ \A i \in Rows : i < k
       /\ entries'[k].status = "scheduled" /\ entries'[k].result = "none" /\ tries'[k] = 0
       /\ entries'[k].from = k \/ \E i \in W : Follows(k, i)
  /\ \A i \in W : \E k \in Rows' \ Rows : Follows(k, i)
  /\ \A i \in W : \A k, l \in Rows' \ Rows : Follows(k, i) /\ Follows(l, i) => k = l

(* Entries that follow no row of W begin a line of their own. *)
LEMMA NewLines ==
  ASSUME IInv, NEW W, Moves(W)
  PROVE  /\ \A i \in Rows : i \in Nat /\ entries[i].from \in Rows /\ entries[i].from <= i
         /\ \A k \in Rows' \ Rows : \A i \in Rows : entries'[k].from = entries[i].from =>
              \E j \in W : Follows(k, j)
         /\ \A k, l \in Rows' \ Rows : entries'[k].from = entries'[l].from => k = l
         /\ \A j \in W : entries[j].status = "scheduled" /\ j \in Rows
         /\ \A j \in W : \A i \in Rows : entries[i].from = entries[j].from => i <= j
<1>1. \A i \in Rows : i \in Nat /\ entries[i].from \in Rows /\ entries[i].from <= i
  BY Types DEF IInv, Rooted
<1>2. \A k \in Rows' \ Rows : \A i \in Rows : entries'[k].from = entries[i].from =>
        \E j \in W : Follows(k, j)
  <2> SUFFICES ASSUME NEW k \in Rows' \ Rows, NEW i \in Rows,
                      entries'[k].from = entries[i].from
               PROVE  \E j \in W : Follows(k, j)
    OBVIOUS
  <2>1. entries'[k].from # k
    BY <1>1
  <2> QED
    BY <2>1 DEF Moves
<1>3. \A j \in W : entries[j].status = "scheduled" /\ j \in Rows
  BY DEF Moves, PutOff
<1>4. \A j \in W : \A i \in Rows : entries[i].from = entries[j].from => i <= j
  BY <1>3 DEF IInv, LastWaits
<1>5. \A k, l \in Rows' \ Rows : entries'[k].from = entries'[l].from => k = l
  <2> SUFFICES ASSUME NEW k \in Rows' \ Rows, NEW l \in Rows' \ Rows,
                      entries'[k].from = entries'[l].from
               PROVE  k = l
    OBVIOUS
  <2>1. CASE entries'[k].from = k /\ entries'[l].from = l
    BY <2>1
  <2>2. CASE \E i \in W : Follows(k, i)
    <3>1. PICK i \in W : Follows(k, i)
      BY <2>2
    <3>2. i \in Rows /\ entries'[l].from = entries[i].from
      BY <1>3, <3>1 DEF Follows
    <3>3. PICK j \in W : Follows(l, j)
      BY <1>2, <3>2
    <3>4. entries[i].from = entries[j].from
      BY <3>2, <3>3 DEF Follows
    <3>5. i = j
      BY <1>1, <1>3, <1>4, <3>4
    <3> QED
      BY <3>1, <3>3, <3>5 DEF Moves
  <2>3. CASE \E i \in W : Follows(l, i)
    <3>1. PICK i \in W : Follows(l, i)
      BY <2>3
    <3>2. i \in Rows /\ entries'[k].from = entries[i].from
      BY <1>3, <3>1 DEF Follows
    <3>3. PICK j \in W : Follows(k, j)
      BY <1>2, <3>2
    <3>4. entries[i].from = entries[j].from
      BY <3>2, <3>3 DEF Follows
    <3>5. i = j
      BY <1>1, <1>3, <1>4, <3>4
    <3> QED
      BY <3>1, <3>3, <3>5 DEF Moves
  <2> QED
    BY <2>1, <2>2, <2>3 DEF Moves
<1> QED
  BY <1>1, <1>2, <1>3, <1>4, <1>5

LEMMA RootedKept ==
  ASSUME IInv, NEW W, Moves(W)
  PROVE  Rooted'
<1> SUFFICES ASSUME NEW i \in Rows'
             PROVE  /\ entries'[i].from \in 1 .. i
                    /\ entries'[entries'[i].from].from = entries'[i].from
                    /\ entries'[entries'[i].from].delegated = entries'[i].delegated
  BY DEF Rooted
<1>1. CASE i \in Rows
  <2>1. /\ entries[i].from \in 1 .. i /\ entries[i].from \in Rows
        /\ entries[entries[i].from].from = entries[i].from
        /\ entries[entries[i].from].delegated = entries[i].delegated
    BY <1>1, NewLines DEF IInv, Rooted
  <2>2. /\ entries'[i].from = entries[i].from /\ entries'[i].delegated = entries[i].delegated
        /\ entries'[entries[i].from].from = entries[entries[i].from].from
        /\ entries'[entries[i].from].delegated = entries[entries[i].from].delegated
    BY <1>1, <2>1 DEF Moves, Fixed
  <2> QED
    BY <2>1, <2>2
<1>2. CASE i \notin Rows /\ entries'[i].from = i
  <2>1. i \in Nat \ {0}
    BY <1>2 DEF Moves
  <2> QED
    BY <1>2, <2>1
<1>3. CASE i \notin Rows /\ \E j \in W : Follows(i, j)
  <2>1. PICK j \in W : Follows(i, j)
    BY <1>3
  <2>2. j \in Rows /\ entries[j].from \in 1 .. j /\ j \in Nat /\ i \in Nat /\ j < i
    BY <1>3, NewLines DEF IInv, Rooted, Moves
  <2>3. entries[j].from \in Rows /\ entries[entries[j].from].from = entries[j].from
        /\ entries[entries[j].from].delegated = entries[j].delegated
    BY <2>2, NewLines DEF IInv, Rooted
  <2>4. entries'[entries[j].from].from = entries[j].from
        /\ entries'[entries[j].from].delegated = entries[j].delegated
    BY <2>3 DEF Moves, Fixed
  <2> QED
    BY <2>1, <2>2, <2>4 DEF Follows
<1> QED
  BY <1>1, <1>2, <1>3 DEF Moves

LEMMA UnsettledKept ==
  ASSUME IInv, NEW W, Moves(W)
  PROVE  Unsettled'
<1> SUFFICES ASSUME NEW i \in Rows', entries'[i].status \in {"scheduled", "firing"}
             PROVE  entries'[i].result = "none"
  BY DEF Unsettled
<1>1. CASE i \in Rows
  BY <1>1 DEF IInv, Unsettled, Moves, Ages, PutOff
<1>2. CASE i \notin Rows
  BY <1>2 DEF Moves
<1> QED
  BY <1>1, <1>2

LEMMA EndsToldKept ==
  ASSUME IInv, NEW W, Moves(W)
  PROVE  EndsTold'
<1> SUFFICES ASSUME NEW i \in Rows'
             PROVE  /\ entries'[i].result = "started" => told'[i] \cap {"started", "digest"} # {}
                    /\ entries'[i].result = "no_delegation" => "candidate" \in told'[i]
  BY DEF EndsTold
<1>1. CASE i \in Rows
  <2>1. /\ entries[i].result = "started" => told[i] \cap {"started", "digest"} # {}
        /\ entries[i].result = "no_delegation" => "candidate" \in told[i]
    BY <1>1 DEF IInv, EndsTold
  <2>2. told[i] \subseteq told'[i]
    BY <1>1 DEF Moves, Fixed
  <2>3. PutOff(i) \/ Ages(i)
    BY <1>1 DEF Moves
  <2> QED
    BY <2>1, <2>2, <2>3 DEF Ages, PutOff
<1>2. CASE i \notin Rows
  BY <1>2 DEF Moves
<1> QED
  BY <1>1, <1>2

LEMMA LastWaitsKept ==
  ASSUME IInv, NEW W, Moves(W)
  PROVE  LastWaits'
<1> USE DEF Follows
<1>0. /\ \A i \in Rows : i \in Nat
      /\ \A k \in Rows' \ Rows : k \in Nat /\ \A i \in Rows : i < k
      /\ Rows \subseteq Rows'
      /\ \A i \in Rows : entries'[i].from = entries[i].from
  BY NewLines DEF Moves, Fixed
<1> SUFFICES ASSUME NEW i \in Rows'
             PROVE  /\ entries'[i].status = "scheduled" =>
                         \A k \in Rows' : entries'[k].from = entries'[i].from => k <= i
                    /\ (entries'[i].result = "deferred") <=>
                         \E k \in Rows' : entries'[k].from = entries'[i].from /\ k > i
  BY DEF LastWaits
<1>1. CASE i \in Rows
  <2>1. /\ entries[i].status = "scheduled" =>
             \A k \in Rows : entries[k].from = entries[i].from => k <= i
        /\ (entries[i].result = "deferred") <=>
             \E k \in Rows : entries[k].from = entries[i].from /\ k > i
        /\ entries[i].status \in {"scheduled", "firing"} => entries[i].result = "none"
    BY <1>1 DEF IInv, LastWaits, Unsettled
  <2>2. (\E k \in Rows' \ Rows : entries'[k].from = entries[i].from) =>
          \E j \in W : entries[j].from = entries[i].from
    BY <1>1, NewLines
  <2>3. \A j \in W : j \in Rows /\ entries[j].status = "scheduled" /\
          (entries[j].from = entries[i].from => i <= j)
    BY <1>1, NewLines
  <2>4. CASE i \in W
    <3>1. entries'[i].status = "fired" /\ entries'[i].result = "deferred"
      BY <1>1, <2>4 DEF Moves, PutOff
    <3>2. \E k \in Rows' \ Rows : entries'[k].from = entries[i].from
      BY <2>4 DEF Moves
    <3> QED
      BY <1>0, <1>1, <3>1, <3>2
  <2>5. CASE i \notin W
    <3>1. Ages(i)
      BY <1>1, <2>5 DEF Moves
    <3>2. /\ entries'[i].status = "scheduled" => entries[i].status = "scheduled"
          /\ entries'[i].result = "deferred" <=> entries[i].result = "deferred"
      BY <2>1, <3>1 DEF Ages
    <3>3. ASSUME NEW k \in Rows', entries'[k].from = entries'[i].from, k > i
          PROVE  entries[i].result = "deferred" /\ entries[i].status # "scheduled"
      <4>1. CASE k \in Rows
        <5>1. entries[k].from = entries[i].from
          BY <1>0, <1>1, <3>3, <4>1
        <5>2. entries[i].result = "deferred"
          BY <2>1, <3>3, <4>1, <5>1
        <5> QED
          BY <2>1, <5>2
      <4>2. CASE k \notin Rows
        <5>1. PICK j \in W : entries[j].from = entries[i].from
          BY <1>0, <1>1, <2>2, <3>3, <4>2
        <5>2. j \in Rows /\ i <= j /\ i # j
          BY <2>3, <2>5, <5>1
        <5>3. j > i
          BY <1>0, <1>1, <5>2
        <5>4. entries[i].result = "deferred"
          BY <2>1, <5>1, <5>2, <5>3
        <5> QED
          BY <2>1, <5>4
      <4> QED
        BY <4>1, <4>2
    <3>4. ASSUME NEW k \in Rows, entries[k].from = entries[i].from, k > i
          PROVE  k \in Rows' /\ entries'[k].from = entries'[i].from
      BY <1>0, <1>1, <3>4
    <3>5. \A k \in Rows' : k \in Nat
      BY <1>0
    <3>6. entries'[i].status = "scheduled" =>
            \A k \in Rows' : entries'[k].from = entries'[i].from => k <= i
      BY <1>0, <1>1, <3>2, <3>3, <3>5
    <3>7. (entries'[i].result = "deferred") <=>
            \E k \in Rows' : entries'[k].from = entries'[i].from /\ k > i
      BY <2>1, <3>2, <3>3, <3>4
    <3> QED
      BY <3>6, <3>7
  <2> QED
    BY <2>4, <2>5
<1>2. CASE i \notin Rows
  <2>1. entries'[i].result = "none"
    BY <1>2 DEF Moves
  <2>2. ASSUME NEW k \in Rows', entries'[k].from = entries'[i].from
        PROVE  k <= i
    <3>1. CASE k \in Rows
      BY <1>0, <1>2, <3>1
    <3>2. CASE k \notin Rows
      BY <1>0, <1>2, <2>2, <3>2, NewLines
    <3> QED
      BY <3>1, <3>2
  <2>3. \A k \in Rows' : k \in Nat
    BY <1>0
  <2> QED
    BY <2>1, <2>2, <2>3
<1> QED
  BY <1>1, <1>2

(* What may still be dispatched was so before, is not put off, and its work was not *)
(* asked for: then an entry still has one such row at most.                         *)
LEMMA OneAheadKept ==
  ASSUME IInv, NEW W, Moves(W),
         \A i \in Rows : Ahead(i)' => Ahead(i) /\ i \notin W
  PROVE  OneAhead'
<1>0. /\ Rows \subseteq Rows'
      /\ \A i \in Rows : entries'[i].from = entries[i].from /\ tries'[i] = tries[i]
      /\ \A k \in Rows' \ Rows : tries'[k] = 0
      /\ \A k \in Rows' \ Rows : entries'[k].from = k \/ \E i \in W : Follows(k, i)
      /\ \A i \in Rows : entries[i].from \in Rows
      /\ \A j \in W : j \in Rows /\ Ahead(j)
  <2>1. \A j \in W : j \in Rows /\ Ahead(j)
    BY NewLines DEF Ahead
  <2>2. \A i \in Rows : entries[i].from \in Rows
    BY NewLines
  <2>3. \A i \in Rows : entries'[i].from = entries[i].from /\ tries'[i] = tries[i]
    BY DEF Moves, Fixed
  <2>4. /\ Rows \subseteq Rows'
        /\ \A k \in Rows' \ Rows : tries'[k] = 0
        /\ \A k \in Rows' \ Rows : entries'[k].from = k \/ \E i \in W : Follows(k, i)
    BY DEF Moves
  <2> QED
    BY <2>1, <2>2, <2>3, <2>4
<1>1. \A i \in Rows : Ahead(i) =>
        /\ tries[entries[i].from] = 0
        /\ \A k \in Rows : Ahead(k) /\ entries[k].from = entries[i].from => k = i
  BY DEF IInv, OneAhead
<1>2. ASSUME NEW i \in Rows, Ahead(i)', NEW k \in Rows' \ Rows, entries'[k].from = entries[i].from
      PROVE  FALSE
  <2>1. PICK j \in W : Follows(k, j)
    BY <1>2, NewLines
  <2>2. j = i
    BY <1>0, <1>1, <1>2, <2>1 DEF Follows
  <2> QED
    BY <1>2, <2>2
<1> SUFFICES ASSUME NEW i \in Rows', Ahead(i)'
             PROVE  /\ tries'[entries'[i].from] = 0
                    /\ \A k \in Rows' : Ahead(k)' /\ entries'[k].from = entries'[i].from => k = i
  BY DEF OneAhead
<1>3. CASE i \in Rows
  <2>1. Ahead(i) /\ i \notin W
    BY <1>3
  <2>2. tries'[entries'[i].from] = 0
    BY <1>0, <1>1, <1>3, <2>1
  <2>3. ASSUME NEW k \in Rows', Ahead(k)', entries'[k].from = entries'[i].from PROVE k = i
    <3>1. k \in Rows
      BY <1>0, <1>2, <1>3, <2>3
    <3> QED
      BY <1>0, <1>1, <1>3, <2>1, <2>3, <3>1
  <2> QED
    BY <2>2, <2>3
<1>4. CASE i \notin Rows
  <2>1. tries'[entries'[i].from] = 0
    <3>1. CASE entries'[i].from = i
      BY <1>0, <1>4, <3>1
    <3>2. CASE \E j \in W : Follows(i, j)
      BY <1>0, <1>1, <3>2 DEF Follows
    <3> QED
      BY <1>0, <1>4, <3>1, <3>2
  <2>2. ASSUME NEW k \in Rows', Ahead(k)', entries'[k].from = entries'[i].from PROVE k = i
    <3>1. k \notin Rows
      BY <1>0, <1>2, <1>4, <2>2
    <3> QED
      BY <1>4, <2>2, <3>1, NewLines
  <2> QED
    BY <2>1, <2>2
<1> QED
  BY <1>3, <1>4

LEMMA NoReplayKept ==
  ASSUME IInv, NEW W, Moves(W)
  PROVE  NoReplay'
<1> SUFFICES ASSUME NEW i \in Rows'
             PROVE  tries'[i] <= IF entries'[i].delegated THEN 1 ELSE 0
  BY DEF NoReplay
<1>1. CASE i \in Rows
  BY <1>1 DEF IInv, NoReplay, Moves, Fixed
<1>2. CASE i \notin Rows
  BY <1>2 DEF Moves
<1> QED
  BY <1>1, <1>2

(* All that is about rows is kept when rows move so. *)
LEMMA RowsKept ==
  ASSUME IInv, NEW W, Moves(W), TypeOK', DispatchesFired',
         \A i \in Rows : Ahead(i)' => Ahead(i) /\ i \notin W
  PROVE  IInv'
  BY RootedKept, UnsettledKept, LastWaitsKept, OneAheadKept, EndsToldKept, NoReplayKept DEF IInv

-----------------------------------------------------------------------------
(* Steps that move rows on and make none. *)

(* What a tick keeps or gives up of what it had to dispatch. *)
Dwindles ==
  \A c \in Callers :
    \/ tick'[c] = tick[c]
    \/ tick'[c].pc \notin {"dispatching", "dispatched"} /\ tick'[c].pending = <<>>
LEMMA NoNewWork ==
  ASSUME IInv, NEW W, Moves(W), Dwindles
  PROVE  /\ DispatchesFired'
         /\ W = {} => \A i \in Rows : Ahead(i)' => Ahead(i) /\ i \notin W
<1>1. \A c \in Callers : tick'[c] = tick[c] \/ Pending(c)' = {}
  BY EmptySeq DEF Dwindles, Pending
<1>2. \A c \in Callers : \A n \in Pending(c)' : n \in Pending(c) /\ tick'[c] = tick[c]
  BY <1>1 DEF Pending
<1>3. \A i \in Rows : /\ i \in Rows' /\ entries'[i].delegated = entries[i].delegated
                      /\ entries'[i].status = "scheduled" => entries[i].status = "scheduled"
  BY DEF Moves, Fixed, Ages, PutOff
<1>4. DispatchesFired'
  <2>1. ASSUME NEW c \in Callers
        PROVE  /\ tick'[c].pc \in {"dispatching", "dispatched"} <=> tick'[c].pending # <<>>
               /\ \A n \in Pending(c)' :
                    /\ tick'[c].pending[n] \in Rows' /\ entries'[tick'[c].pending[n]].delegated
                    /\ entries'[tick'[c].pending[n]].status # "scheduled"
    <3>1. tick'[c].pc \in {"dispatching", "dispatched"} <=> tick'[c].pending # <<>>
      BY <2>1 DEF IInv, DispatchesFired, Dwindles
    <3>2. ASSUME NEW n \in Pending(c)'
          PROVE  /\ tick'[c].pending[n] \in Rows' /\ entries'[tick'[c].pending[n]].delegated
                 /\ entries'[tick'[c].pending[n]].status # "scheduled"
      <4>1. n \in Pending(c) /\ tick'[c] = tick[c]
        BY <1>2, <2>1, <3>2
      <4>2. /\ tick[c].pending[n] \in Rows /\ entries[tick[c].pending[n]].delegated
            /\ entries[tick[c].pending[n]].status # "scheduled"
        BY <2>1, <4>1 DEF IInv, DispatchesFired
      <4> QED
        BY <1>3, <4>1, <4>2
    <3> QED
      BY <3>1, <3>2
  <2>2. ASSUME NEW c \in Callers, NEW d \in Callers, NEW m \in Pending(c)', NEW n \in Pending(d)',
               tick'[c].pending[m] = tick'[d].pending[n]
        PROVE  c = d /\ m = n
    BY <1>2, <2>2 DEF IInv, DispatchesFired
  <2> QED
    BY <2>1, <2>2 DEF DispatchesFired
<1>5. \A i \in Rows : Ahead(i)' => Ahead(i)
  BY <1>2, <1>3 DEF Ahead
<1> QED
  BY <1>4, <1>5

LEMMA AddKeeps ==
  ASSUME IInv, Add
  PROVE  IInv'
<1> DEFINE n == Len(entries) + 1
<1>1. PICK wish \in Wishes :
        entries' = Append(entries,
          [kind |-> wish.kind, from |-> n, due |-> wish.due, end |-> wish.end,
           delegated |-> wish.delegated, status |-> "scheduled", result |-> "none"])
  BY DEF Add
<1> DEFINE row == [kind |-> wish.kind, from |-> n, due |-> wish.due, end |-> wish.end,
                   delegated |-> wish.delegated, status |-> "scheduled", result |-> "none"]
<1>2. row \in Entry
  BY Types, ScheduleAssumption DEF Entry, Statuses, Results
<1>3. /\ entries' \in Seq(Entry) /\ told' \in Seq(SUBSET Messages) /\ tries' \in Seq(Nat)
      /\ Len(entries') = n /\ Len(told') = n /\ Len(tries') = n
      /\ entries'[n] = row /\ tries'[n] = 0 /\ told'[n] = {}
      /\ \A i \in 1 .. Len(entries) : /\ entries'[i] = entries[i] /\ told'[i] = told[i]
                                      /\ tries'[i] = tries[i]
  <2>1. told' = Append(told, {}) /\ tries' = Append(tries, 0) /\ {} \in SUBSET Messages
    BY DEF Add
  <2>2. entries' = Append(entries, row)
    BY <1>1
  <2> HIDE DEF row
  <2> QED
    BY <1>2, <2>1, <2>2, Types, AppendProperties
<1>4. Rows' = Rows \cup {n} /\ n \notin Rows /\ Rows' = 1 .. n /\ n \in Nat \ {0}
      /\ DOMAIN told' = 1 .. n /\ DOMAIN tries' = 1 .. n
  <2>1. Rows' = 1 .. n /\ DOMAIN told' = 1 .. n /\ DOMAIN tries' = 1 .. n
    BY <1>3, LenProperties DEF Rows
  <2> QED
    BY <2>1, Types
<1>5. UNCHANGED <<now, enabled, tick>>
  BY DEF Add
<1>6. TypeOK'
  BY <1>3, <1>4, <1>5 DEF TypeOK, IInv, Entry
<1>7. Moves({})
  <2>1. \A i \in Rows : Fixed(i) /\ Ages(i)
    BY <1>3, Types DEF Fixed, Ages
  <2>2. \A k \in Rows' \ Rows :
          /\ k \in Nat \ {0} /\ \A i \in Rows : i < k
          /\ entries'[k].status = "scheduled" /\ entries'[k].result = "none" /\ tries'[k] = 0
          /\ entries'[k].from = k
    BY <1>3, <1>4, Types
  <2> QED
    BY <1>4, <2>1, <2>2 DEF Moves
<1>8. Dwindles
  BY <1>5 DEF Dwindles
<1> QED
  BY <1>6, <1>7, <1>8, NoNewWork, RowsKept

(* A step that touches nothing but rows there are, and keeps to their types. *)
LEMMA AgingKeeps ==
  ASSUME IInv, TypeOK', Dwindles, Rows' = Rows, \A i \in Rows : Fixed(i) /\ Ages(i)
  PROVE  IInv'
<1>1. Moves({})
  BY DEF Moves
<1> QED
  BY <1>1, NoNewWork, RowsKept

(* A table written row by row is a table. *)
LEMMA Rewritten ==
  ASSUME IInv, NEW f, f = [i \in Rows |-> f[i]]
  PROVE  /\ DOMAIN f = Rows
         /\ (\A i \in Rows : f[i] \in Entry) => f \in Seq(Entry)
         /\ (\A i \in Rows : f[i] \in SUBSET Messages) => f \in Seq(SUBSET Messages)
<1>1. DOMAIN f = Rows /\ Rows = 1 .. Len(entries) /\ Len(entries) \in Nat
  BY Types
<1>2. (\A i \in Rows : f[i] \in Entry) => f \in [1 .. Len(entries) -> Entry]
  BY <1>1
<1>3. (\A i \in Rows : f[i] \in SUBSET Messages) => f \in [1 .. Len(entries) -> SUBSET Messages]
  BY <1>1
<1> QED
  BY <1>1, <1>2, <1>3, SeqDef

LEMMA WithdrawKeeps ==
  ASSUME IInv, NEW i \in Rows, Withdraw(i)
  PROVE  IInv'
<1> DEFINE row == [entries[i] EXCEPT !.status = "withdrawn"]
<1>1. row \in Entry /\ row.from = entries[i].from /\ row.delegated = entries[i].delegated
      /\ row.status = "withdrawn" /\ row.result = entries[i].result
  <2>1. entries[i] \in Entry
    BY Types
  <2> QED
    BY <2>1 DEF Entry, Statuses
<1>2. entries' = [entries EXCEPT ![i] = row]
  BY DEF Withdraw
<1> HIDE DEF row
<1>3. entries' \in Seq(Entry) /\ Rows' = Rows /\ entries'[i] = row
      /\ \A k \in Rows \ {i} : entries'[k] = entries[k]
  <2>1. Rows' = Rows /\ entries'[i] = row /\ \A k \in Rows \ {i} : entries'[k] = entries[k]
    BY <1>2, Types DEF Rows
  <2>2. entries' = [k \in Rows |-> entries'[k]]
    BY <1>2, Types DEF Rows
  <2> QED
    BY <1>1, <2>1, <2>2, Rewritten, Types
<1>4. UNCHANGED <<now, enabled, tick, told, tries>>
  BY DEF Withdraw
<1>5. TypeOK'
  BY <1>3, <1>4 DEF TypeOK, IInv, Entry
<1>6. \A k \in Rows : Fixed(k) /\ Ages(k)
  BY <1>1, <1>3, <1>4 DEF Fixed, Ages
<1>7. Dwindles
  BY <1>4 DEF Dwindles
<1> QED
  BY <1>3, <1>5, <1>6, <1>7, AgingKeeps

(* close_firing settles a firing row and no other. *)
LEMMA ClosedRow ==
  ASSUME NEW e \in Entry
  PROVE  LET f == Closing(e, "error") IN
         /\ f \in Entry /\ f.from = e.from /\ f.delegated = e.delegated
         /\ IF e.status = "firing" THEN f.status = "fired" /\ f.result = "error" ELSE f = e
BY DEF Closing, Entry, Statuses, Results

LEMMA DisableKeeps ==
  ASSUME IInv, Disable
  PROVE  IInv'
<1>1. entries' = [i \in Rows |-> Closing(entries[i], "error")]
  BY DEF Disable
<1>2. \A i \in Rows :
        /\ entries'[i] \in Entry /\ entries'[i].from = entries[i].from
        /\ entries'[i].delegated = entries[i].delegated
        /\ IF entries[i].status = "firing"
           THEN entries'[i].status = "fired" /\ entries'[i].result = "error"
           ELSE entries'[i] = entries[i]
  BY <1>1, ClosedRow, Types
<1>3. UNCHANGED <<now, tick, told, tries>> /\ enabled' \in BOOLEAN
  BY DEF Disable
<1>4. entries' \in Seq(Entry) /\ Rows' = Rows
  <2>1. entries' = [i \in Rows |-> entries'[i]]
    BY <1>1
  <2> QED
    BY <1>2, <2>1, Rewritten DEF Rows
<1>5. TypeOK'
  BY <1>3, <1>4 DEF TypeOK, IInv, Entry
<1>6. \A k \in Rows : Fixed(k) /\ Ages(k)
  BY <1>2, <1>3 DEF Fixed, Ages
<1>7. Dwindles
  BY <1>3 DEF Dwindles
<1> QED
  BY <1>4, <1>5, <1>6, <1>7, AgingKeeps

LEMMA EnableKeeps ==
  ASSUME IInv, Enable
  PROVE  IInv'
<1>1. /\ entries' = [i \in Rows |-> IF i \in Found THEN Closing(entries[i], "error") ELSE entries[i]]
      /\ told' = [i \in Rows |-> IF i \in Inspected THEN told[i] \cup {"inspect"} ELSE told[i]]
  BY DEF Enable, Recovered
<1>2. \A i \in Rows :
        /\ entries'[i] \in Entry /\ entries'[i].from = entries[i].from
        /\ entries'[i].delegated = entries[i].delegated
        /\ IF entries[i].status = "firing"
           THEN entries'[i].status = "fired" /\ entries'[i].result = "error"
           ELSE entries'[i] = entries[i]
        /\ told[i] \subseteq told'[i] /\ told'[i] \in SUBSET Messages
  BY <1>1, ClosedRow, Types DEF Found, Messages
<1>3. UNCHANGED <<now, tries>> /\ enabled' \in BOOLEAN
  BY DEF Enable
<1>4. tick["command"].pc = "idle" /\ tick' = [tick EXCEPT !["command"].pc = "begun"]
  BY DEF Enable
<1>5. entries' \in Seq(Entry) /\ Rows' = Rows /\ told' \in Seq(SUBSET Messages) /\ DOMAIN told' = Rows
  <2>1. entries' = [i \in Rows |-> entries'[i]] /\ told' = [i \in Rows |-> told'[i]]
    BY <1>1
  <2> QED
    BY <1>2, <2>1, Rewritten DEF Rows
<1>6. TypeOK'
  BY <1>3, <1>4, <1>5, Types DEF TypeOK, IInv, Entry, Callers
<1>7. \A k \in Rows : Fixed(k) /\ Ages(k)
  BY <1>2, <1>3 DEF Fixed, Ages
<1>8. Dwindles
  <2>1. "command" \in Callers /\ tick["command"].pending = <<>>
    BY <1>4 DEF IInv, DispatchesFired, Callers
  <2>2. \A c \in Callers : tick[c] \in [pc : {"idle", "begun", "read", "dispatching", "dispatched"},
                         hold : BOOLEAN, busy : BOOLEAN, pending : Seq(Nat), ok : BOOLEAN]
    BY TickTypes
  <2>3. \A c \in Callers \ {"command"} : tick'[c] = tick[c]
    BY <1>4 DEF IInv, TypeOK
  <2>4. tick'["command"].pc = "begun" /\ tick'["command"].pending = <<>>
    BY <1>4, <2>1, <2>2 DEF IInv, TypeOK
  <2> QED
    BY <2>3, <2>4 DEF Dwindles
<1> QED
  BY <1>5, <1>6, <1>7, <1>8, AgingKeeps

LEMMA PassesKeeps ==
  ASSUME IInv, Passes
  PROVE  IInv'
<1>1. UNCHANGED <<enabled, entries, tick, told, tries>> /\ now' \in 0 .. MaxNow
  BY ScheduleAssumption DEF Passes, IInv, TypeOK
<1>2. TypeOK' /\ Rows' = Rows
  BY <1>1 DEF TypeOK, IInv, Rows
<1>3. \A k \in Rows : Fixed(k) /\ Ages(k)
  BY <1>1 DEF Fixed, Ages
<1>4. Dwindles
  BY <1>1 DEF Dwindles
<1> QED
  BY <1>2, <1>3, <1>4, AgingKeeps

LEMMA ReadsKeeps ==
  ASSUME IInv, NEW c \in Callers, NEW hold \in BOOLEAN, NEW busy \in BOOLEAN, Reads(c, hold, busy)
  PROVE  IInv'
<1>1. UNCHANGED <<now, enabled, entries, told, tries>>
  BY DEF Reads
<1>2. tick' = [tick EXCEPT ![c] =
        IF enabled THEN [Idle EXCEPT !.pc = "read", !.hold = hold, !.busy = busy] ELSE Idle]
  BY DEF Reads
<1>3. <<>> \in Seq(Nat)
  BY EmptySeq
<1>4. TypeOK' /\ Rows' = Rows
  BY <1>1, <1>2, <1>3 DEF TypeOK, IInv, Rows, Idle
<1>5. \A k \in Rows : Fixed(k) /\ Ages(k)
  BY <1>1 DEF Fixed, Ages
<1>6. Dwindles
  BY <1>2 DEF Dwindles, IInv, TypeOK, Idle
<1> QED
  BY <1>4, <1>5, <1>6, AgingKeeps

LEMMA DieKeeps ==
  ASSUME IInv, Die
  PROVE  IInv'
<1>1. UNCHANGED <<now, enabled, entries, told, tries>> /\ tick' = [c \in Callers |-> Idle]
  BY DEF Die
<1>2. <<>> \in Seq(Nat)
  BY EmptySeq
<1>3. TypeOK' /\ Rows' = Rows
  BY <1>1, <1>2 DEF TypeOK, IInv, Rows, Idle
<1>4. \A k \in Rows : Fixed(k) /\ Ages(k)
  BY <1>1 DEF Fixed, Ages
<1>5. Dwindles
  BY <1>1 DEF Dwindles, Idle
<1> QED
  BY <1>3, <1>4, <1>5, AgingKeeps

-----------------------------------------------------------------------------
(* The dispatch of what a tick has fired. *)

LEMMA DispatchesKeeps ==
  ASSUME IInv, NEW c \in Callers, Dispatches(c)
  PROVE  IInv'
<1>1. UNCHANGED <<now, enabled, entries, told>>
  BY DEF Dispatches
<1>2. PICK ok \in BOOLEAN : tick' = [tick EXCEPT ![c].pc = "dispatched", ![c].ok = ok]
  BY DEF Dispatches
<1>3. /\ tick[c].pc = "dispatching" /\ tick[c].pending # <<>> /\ 1 \in Pending(c)
      /\ Head(tick[c].pending) = tick[c].pending[1]
  <2>1. tick[c].pc = "dispatching"
    BY DEF Dispatches
  <2>2. tick[c].pending # <<>>
    BY <2>1 DEF IInv, DispatchesFired
  <2>3. Pending(c) # {} /\ Pending(c) = 1 .. Len(tick[c].pending) /\ Len(tick[c].pending) \in Nat
    BY <2>2, TickTypes
  <2>4. Head(tick[c].pending) = tick[c].pending[1]
    BY <2>2, TickTypes, HeadTailProperties
  <2> QED
    BY <2>1, <2>2, <2>3, <2>4
<1>4. PICK h \in Rows : h = tick[c].pending[1] /\ entries[h].delegated /\ Ahead(h)
  BY <1>3 DEF IInv, DispatchesFired, Ahead
<1>5. PICK o \in Rows : /\ o = entries[h].from /\ entries[o].delegated
                        /\ tries[o] = 0 /\ tries' = [tries EXCEPT ![o] = @ + 1]
  <2>1. entries[h].from \in Rows /\ entries[entries[h].from].delegated
    BY <1>4, Types DEF IInv, Rooted
  <2>2. tries[entries[h].from] = 0
    BY <1>4 DEF IInv, OneAhead
  <2> QED
    BY <1>3, <1>4, <2>1, <2>2 DEF Dispatches
<1>6. /\ \A i \in Rows \ {o} : tries'[i] = tries[i]
      /\ tries'[o] = 1 /\ DOMAIN tries' = Rows
  BY <1>5, Types
<1>7. \A d \in Callers :
        /\ tick'[d].pending = tick[d].pending
        /\ d # c => tick'[d] = tick[d]
        /\ d = c => tick'[d].pc = "dispatched"
        /\ tick'[d] \in [pc : {"idle", "begun", "read", "dispatching", "dispatched"},
                         hold : BOOLEAN, busy : BOOLEAN, pending : Seq(Nat), ok : BOOLEAN]
  <2>1. \A d \in Callers : tick[d] \in [pc : {"idle", "begun", "read", "dispatching", "dispatched"},
                         hold : BOOLEAN, busy : BOOLEAN, pending : Seq(Nat), ok : BOOLEAN]
    BY TickTypes
  <2>2. DOMAIN tick = Callers
    BY DEF IInv, TypeOK
  <2> QED
    BY <1>2, <2>1, <2>2
<1>8. TypeOK'
  <2>1. tries' \in Seq(Nat)
    <3>1. tries' = [i \in Rows |-> tries'[i]]
      BY <1>5, Types
    <3>2. \A i \in Rows : tries'[i] \in Nat
      BY <1>6, Types
    <3>3. tries' \in [1 .. Len(entries) -> Nat]
      BY <3>1, <3>2, Types
    <3>4. Len(entries) \in Nat
      BY Types
    <3> QED
      BY ONLY <3>3, <3>4, SeqDef
  <2>2. tick' = [d \in Callers |-> tick'[d]]
    BY <1>2 DEF IInv, TypeOK
  <2>3. now' \in 0 .. MaxNow /\ enabled' \in BOOLEAN /\ entries' \in Seq(Entry)
        /\ told' \in Seq(SUBSET Messages) /\ (DOMAIN told = Rows)'
    BY <1>1 DEF IInv, TypeOK, Entry, Rows
  <2>4. (DOMAIN tries = Rows)'
    BY <1>1, <1>6 DEF Rows
  <2> QED
    BY <1>7, <2>1, <2>2, <2>3, <2>4 DEF TypeOK, Entry
<1>9. Rooted' /\ Unsettled' /\ LastWaits' /\ EndsTold'
  BY <1>1 DEF IInv, Rooted, Unsettled, LastWaits, EndsTold, Rows
<1>10. DispatchesFired'
  <2>1. \A d \in Callers : Pending(d)' = Pending(d)
    BY <1>7 DEF Pending
  <2>2. \A d \in Callers : tick'[d].pc \in {"dispatching", "dispatched"} <=> tick'[d].pending # <<>>
    BY <1>3, <1>7 DEF IInv, DispatchesFired
  <2>3. \A d \in Callers : \A n \in Pending(d)' :
          /\ tick'[d].pending[n] \in Rows' /\ entries'[tick'[d].pending[n]].delegated
          /\ entries'[tick'[d].pending[n]].status # "scheduled"
    BY <1>1, <1>7, <2>1 DEF IInv, DispatchesFired, Rows
  <2>4. \A d, e \in Callers : \A m \in Pending(d)', n \in Pending(e)' :
          tick'[d].pending[m] = tick'[e].pending[n] => d = e /\ m = n
    BY <1>7, <2>1 DEF IInv, DispatchesFired
  <2> QED
    BY <2>2, <2>3, <2>4 DEF DispatchesFired
<1>11. \A i \in Rows : Ahead(i)' => Ahead(i) /\ i # h
  <2> SUFFICES ASSUME NEW i \in Rows, Ahead(i)' PROVE Ahead(i) /\ i # h
    OBVIOUS
  <2>1. CASE entries[i].status = "scheduled"
    BY <1>3, <1>4, <2>1 DEF Ahead, IInv, DispatchesFired
  <2>2. CASE \E d \in Callers : \E n \in Pending(d)' :
               tick'[d].pending[n] = i /\ (n > 1 \/ tick'[d].pc = "dispatching")
    <3>0. PICK d \in Callers : \E n \in Pending(d) :
            tick[d].pending[n] = i /\ (n > 1 \/ tick'[d].pc = "dispatching")
      BY <1>7, <2>2 DEF Pending
    <3>1. PICK n \in Pending(d) : tick[d].pending[n] = i /\ (n > 1 \/ tick'[d].pc = "dispatching")
      BY <3>0
    <3>2. n > 1 \/ (d # c /\ tick[d].pc = "dispatching")
      BY <1>7, <3>1
    <3>3. Ahead(i)
      BY <3>1, <3>2 DEF Ahead
    <3>4. ~(d = c /\ n = 1)
      BY <3>2
    <3>5. i # h
      BY <1>3, <1>4, <3>1, <3>4 DEF IInv, DispatchesFired
    <3> QED
      BY <3>3, <3>5
  <2> QED
    BY <1>1, <2>1, <2>2 DEF Ahead
<1>12. OneAhead'
  <2> SUFFICES ASSUME NEW i \in Rows, Ahead(i)'
               PROVE  /\ tries'[entries[i].from] = 0
                      /\ \A k \in Rows : Ahead(k)' /\ entries[k].from = entries[i].from => k = i
    BY <1>1 DEF OneAhead, Rows
  <2>1. /\ Ahead(i) /\ i # h /\ tries[entries[i].from] = 0 /\ entries[i].from \in Rows
        /\ \A k \in Rows : Ahead(k) /\ entries[k].from = entries[i].from => k = i
    BY <1>11, Types DEF IInv, OneAhead, Rooted
  <2>2. entries[i].from # o
    BY <1>4, <1>5, <2>1
  <2> QED
    BY <1>6, <1>11, <2>1, <2>2
<1>13. NoReplay'
  BY <1>1, <1>5, <1>6 DEF IInv, NoReplay, Rows
<1> QED
  BY <1>8, <1>9, <1>10, <1>12, <1>13 DEF IInv

(* The tick gives up what it had to dispatch. *)
LEMMA RejectsKeeps ==
  ASSUME IInv, NEW c \in Callers, Rejects(c)
  PROVE  IInv'
<1>1. UNCHANGED <<now, enabled, entries, told, tries>> /\ tick' = [tick EXCEPT ![c] = Idle]
  BY DEF Rejects
<1>2. <<>> \in Seq(Nat)
  BY EmptySeq
<1>3. TypeOK' /\ Rows' = Rows
  BY <1>1, <1>2 DEF TypeOK, IInv, Rows, Idle
<1>4. \A k \in Rows : Fixed(k) /\ Ages(k)
  BY <1>1 DEF Fixed, Ages
<1>5. Dwindles
  BY <1>1 DEF Dwindles, IInv, TypeOK, Idle
<1> QED
  BY <1>3, <1>4, <1>5, AgingKeeps

LEMMA FinishesKeeps ==
  ASSUME IInv, NEW c \in Callers, Finishes(c)
  PROVE  IInv'
<1>0. UNCHANGED <<now, enabled, tries>> /\ tick[c].pc = "dispatched"
  BY DEF Finishes
<1>1. /\ tick[c].pending \in Seq(Nat) /\ tick[c].pending # <<>> /\ 1 \in Pending(c)
      /\ Head(tick[c].pending) = tick[c].pending[1]
  <2>1. tick[c].pending # <<>>
    BY <1>0 DEF IInv, DispatchesFired
  <2>2. Pending(c) # {} /\ Pending(c) = 1 .. Len(tick[c].pending) /\ Len(tick[c].pending) \in Nat
    BY <2>1, TickTypes
  <2>3. Head(tick[c].pending) = tick[c].pending[1]
    BY <2>1, TickTypes, HeadTailProperties
  <2> QED
    BY <2>1, <2>2, <2>3, TickTypes
<1>2. PICK h \in Rows : h = Head(tick[c].pending)
  BY <1>1 DEF IInv, DispatchesFired
<1> DEFINE message == IF tick[c].ok THEN "started" ELSE "candidate"
           result == IF tick[c].ok THEN "started" ELSE "no_delegation"
           row == IF entries[h].status = "firing"
                  THEN [entries[h] EXCEPT !.status = "fired", !.result = result] ELSE entries[h]
<1>3. /\ told' = [told EXCEPT ![h] = @ \cup {message}]
      /\ entries' = [entries EXCEPT ![h] = row]
  BY <1>2 DEF Finishes, Answer, Cas
<1>4. /\ tick' = [tick EXCEPT ![c] =
             IF entries[h].status = "firing" THEN GoesOn(Tail(tick[c].pending)) ELSE Idle]
  BY <1>2 DEF Finishes
<1>5. /\ row \in Entry /\ row.from = entries[h].from /\ row.delegated = entries[h].delegated
      /\ \/ row = entries[h]
         \/ /\ entries[h].status = "firing" /\ row.status = "fired"
            /\ \/ row.result = "started" /\ message = "started"
               \/ row.result = "no_delegation" /\ message = "candidate"
      /\ message \in Messages
  <2>1. entries[h] \in Entry
    BY Types
  <2> QED
    BY <2>1 DEF Entry, Statuses, Results, Messages
<1> HIDE DEF row, message, result
<1>6. /\ Rows' = Rows /\ entries'[h] = row /\ \A i \in Rows \ {h} : entries'[i] = entries[i]
      /\ DOMAIN told' = Rows /\ told'[h] = told[h] \cup {message}
      /\ \A i \in Rows \ {h} : told'[i] = told[i]
  BY <1>3, Types DEF Rows
<1>7. entries' \in Seq(Entry) /\ told' \in Seq(SUBSET Messages)
  <2>1. entries' = [i \in Rows |-> entries'[i]] /\ told' = [i \in Rows |-> told'[i]]
    BY <1>3, <1>6, Types DEF Rows
  <2>2. \A i \in Rows : entries'[i] \in Entry /\ told'[i] \in SUBSET Messages
    BY <1>5, <1>6, Types
  <2> QED
    BY <2>1, <2>2, Rewritten
<1>8. \A i \in Rows : Fixed(i) /\ Ages(i)
  <2> SUFFICES ASSUME NEW i \in Rows PROVE Fixed(i) /\ Ages(i)
    OBVIOUS
  <2>1. CASE i = h
    <3>1. Fixed(i)
      BY <1>0, <1>5, <1>6, <2>1 DEF Fixed
    <3>2. Ages(i)
      BY <1>5, <1>6, <2>1 DEF Ages
    <3> QED
      BY <3>1, <3>2
  <2>2. CASE i # h
    BY <1>0, <1>6, <2>2 DEF Fixed, Ages
  <2> QED
    BY <2>1, <2>2
<1>9. Moves({})
  BY <1>6, <1>8 DEF Moves
<1>10. \A d \in Callers \ {c} : tick'[d] = tick[d]
  BY <1>4 DEF IInv, TypeOK
<1>11. \/ tick'[c] = Idle
       \/ /\ tick'[c].pc = "dispatching" /\ tick'[c].pending # <<>>
          /\ tick'[c].pending = Tail(tick[c].pending)
          /\ tick'[c] = [Idle EXCEPT !.pc = "dispatching", !.pending = Tail(tick[c].pending)]
  <2>1. c \in DOMAIN tick
    BY DEF IInv, TypeOK
  <2> QED
    BY <1>4, <2>1 DEF GoesOn, Idle
<1>12. \A n \in Pending(c)' : n \in Nat \ {0} /\ n + 1 \in Pending(c)
                              /\ tick'[c].pending[n] = tick[c].pending[n + 1]
  <2>1. Pending(c) = 1 .. Len(tick[c].pending) /\ Len(tick[c].pending) \in Nat
    BY TickTypes
  <2>2. CASE tick'[c] = Idle
    BY <2>2, EmptySeq DEF Pending, Idle
  <2>3. CASE tick'[c].pending = Tail(tick[c].pending)
    <3>1. /\ Tail(tick[c].pending) \in Seq(Nat)
          /\ Len(Tail(tick[c].pending)) = Len(tick[c].pending) - 1
          /\ \A i \in 1 .. Len(Tail(tick[c].pending)) :
               Tail(tick[c].pending)[i] = tick[c].pending[i + 1]
      BY <1>1, HeadTailProperties
    <3>2. Pending(c)' = 1 .. Len(Tail(tick[c].pending))
      BY <2>3, <3>1, LenProperties DEF Pending
    <3> QED
      BY <2>1, <2>3, <3>1, <3>2
  <2> QED
    BY <1>11, <2>2, <2>3
<1>13. TypeOK'
  <2>1. <<>> \in Seq(Nat) /\ Tail(tick[c].pending) \in Seq(Nat)
    BY <1>1, EmptySeq, HeadTailProperties
  <2>2. tick'[c] \in [pc : {"idle", "begun", "read", "dispatching", "dispatched"},
                      hold : BOOLEAN, busy : BOOLEAN, pending : Seq(Nat), ok : BOOLEAN]
    <3>1. Idle \in [pc : {"idle", "begun", "read", "dispatching", "dispatched"},
                    hold : BOOLEAN, busy : BOOLEAN, pending : Seq(Nat), ok : BOOLEAN]
      BY <2>1 DEF Idle
    <3>2. [Idle EXCEPT !.pc = "dispatching", !.pending = Tail(tick[c].pending)] \in
            [pc : {"idle", "begun", "read", "dispatching", "dispatched"},
             hold : BOOLEAN, busy : BOOLEAN, pending : Seq(Nat), ok : BOOLEAN]
      BY <2>1, <3>1
    <3> QED
      BY <1>11, <3>1, <3>2
  <2>3. tick' \in [Callers -> [pc : {"idle", "begun", "read", "dispatching", "dispatched"},
                      hold : BOOLEAN, busy : BOOLEAN, pending : Seq(Nat), ok : BOOLEAN]]
    <3>1. tick' = [d \in Callers |-> tick'[d]]
      BY <1>4 DEF IInv, TypeOK
    <3> QED
      BY <1>10, <2>2, <3>1, TickTypes
  <2> QED
    BY <1>0, <1>6, <1>7, <2>3, Types DEF TypeOK, IInv, Entry
<1>14. DispatchesFired'
  <2>1. ASSUME NEW d \in Callers, NEW n \in Pending(d)'
        PROVE  \E m \in Pending(d) : /\ tick'[d].pending[n] = tick[d].pending[m]
                                     /\ m = IF d = c THEN n + 1 ELSE n
    BY <1>10, <1>12, <2>1 DEF Pending
  <2>2. \A d \in Callers : tick'[d].pc \in {"dispatching", "dispatched"} <=> tick'[d].pending # <<>>
    BY <1>10, <1>11 DEF IInv, DispatchesFired, Idle
  <2>3. \A i \in Rows : /\ entries'[i].delegated = entries[i].delegated
                        /\ entries'[i].status = "scheduled" => entries[i].status = "scheduled"
    BY <1>8 DEF Fixed, Ages
  <2>4. ASSUME NEW d \in Callers, NEW n \in Pending(d)'
        PROVE  /\ tick'[d].pending[n] \in Rows' /\ entries'[tick'[d].pending[n]].delegated
               /\ entries'[tick'[d].pending[n]].status # "scheduled"
    <3>1. PICK m \in Pending(d) : tick'[d].pending[n] = tick[d].pending[m]
      BY <2>1, <2>4
    <3>2. /\ tick[d].pending[m] \in Rows /\ entries[tick[d].pending[m]].delegated
          /\ entries[tick[d].pending[m]].status # "scheduled"
      BY <2>4, <3>1 DEF IInv, DispatchesFired
    <3> QED
      BY <1>6, <2>3, <3>1, <3>2
  <2>5. ASSUME NEW d \in Callers, NEW e \in Callers, NEW m \in Pending(d)', NEW n \in Pending(e)',
               tick'[d].pending[m] = tick'[e].pending[n]
        PROVE  d = e /\ m = n
    <3>1. PICK k \in Pending(d) : /\ tick'[d].pending[m] = tick[d].pending[k]
                                  /\ k = IF d = c THEN m + 1 ELSE m
      BY <2>1, <2>5
    <3>2. PICK l \in Pending(e) : /\ tick'[e].pending[n] = tick[e].pending[l]
                                  /\ l = IF e = c THEN n + 1 ELSE n
      BY <2>1, <2>5
    <3>3. d = e /\ k = l
      <4>1. tick[d].pending[k] = tick[e].pending[l]
        BY <2>5, <3>1, <3>2
      <4> QED
        BY <2>5, <4>1 DEF IInv, DispatchesFired
    <3>4. d = c => m \in Nat /\ n \in Nat
      BY <1>12, <2>5, <3>3
    <3> QED
      BY <3>1, <3>2, <3>3, <3>4
  <2> QED
    BY <2>2, <2>4, <2>5 DEF DispatchesFired
<1>15. \A i \in Rows : Ahead(i)' => Ahead(i)
  <2> SUFFICES ASSUME NEW i \in Rows, Ahead(i)' PROVE Ahead(i)
    OBVIOUS
  <2>1. CASE entries'[i].status = "scheduled"
    BY <1>8, <2>1 DEF Ahead, Ages
  <2>2. CASE \E d \in Callers : \E n \in Pending(d)' :
               tick'[d].pending[n] = i /\ (n > 1 \/ tick'[d].pc = "dispatching")
    <3>0. PICK d \in Callers : \E n \in Pending(d)' :
            tick'[d].pending[n] = i /\ (n > 1 \/ tick'[d].pc = "dispatching")
      BY <2>2
    <3>1. PICK n \in Pending(d)' : tick'[d].pending[n] = i /\ (n > 1 \/ tick'[d].pc = "dispatching")
      BY <3>0
    <3>2. CASE d = c
      <4>1. n + 1 \in Pending(c) /\ tick[c].pending[n + 1] = i /\ n + 1 > 1
        BY <1>12, <3>1, <3>2
      <4> QED
        BY <4>1 DEF Ahead
    <3>3. CASE d # c
      <4>1. n \in Pending(d) /\ tick[d].pending[n] = i /\ (n > 1 \/ tick[d].pc = "dispatching")
        BY <1>10, <3>1, <3>3 DEF Pending
      <4> QED
        BY <4>1 DEF Ahead
    <3> QED
      BY <3>2, <3>3
  <2> QED
    BY <2>1, <2>2 DEF Ahead
<1> QED
  BY <1>9, <1>13, <1>14, <1>15, RowsKept

-----------------------------------------------------------------------------
(* The transaction of a tick. *)

(* A set of rows in order: each row once. *)
LEMMA Sequenced ==
  ASSUME IInv, NEW S, S \subseteq Rows, NEW s \in InOrder(S)
  PROVE  /\ Len(s) \in Nat /\ DOMAIN s = 1 .. Len(s) /\ s \in Seq(S)
         /\ \A n \in DOMAIN s : s[n] \in S
         /\ \A m, n \in DOMAIN s : s[m] = s[n] => m = n
         /\ \A i \in S : \E n \in DOMAIN s : s[n] = i
<1>1. IsFiniteSet(S) /\ Cardinality(S) \in Nat
  <2>1. IsFiniteSet(Rows)
    BY Types, FS_Interval
  <2> QED
    BY <2>1, FS_Subset, FS_CardinalityType
<1>2. s \in [1 .. Cardinality(S) -> S] /\ \A m, n \in 1 .. Cardinality(S) : m # n => s[m] # s[n]
  BY DEF InOrder, SetToSeqs
<1>3. s \in Seq(S) /\ DOMAIN s = 1 .. Cardinality(S)
  BY <1>1, <1>2, SeqDef
<1>4. Len(s) \in Nat /\ DOMAIN s = 1 .. Len(s)
  BY <1>3, LenProperties
<1>5. ASSUME NEW i \in S PROVE \E n \in DOMAIN s : s[n] = i
  <2> SUFFICES ASSUME \A n \in DOMAIN s : s[n] # i PROVE FALSE
    OBVIOUS
  <2>1. IsFiniteSet(S \ {i}) /\ Cardinality(S \ {i}) = Cardinality(S) - 1
    BY <1>1, <1>5, FS_RemoveElement
  <2>2. IsFiniteSet(1 .. Cardinality(S)) /\ Cardinality(1 .. Cardinality(S)) = Cardinality(S)
    BY <1>1, FS_Interval
  <2>3. s \in [1 .. Cardinality(S) -> S \ {i}]
    BY <1>2, <1>3
  <2>4. Cardinality(S \ {i}) < Cardinality(1 .. Cardinality(S))
    BY <1>1, <2>1, <2>2
  <2> DEFINE places == 1 .. Cardinality(S)
             others == S \ {i}
  <2>5. /\ IsFiniteSet(places) /\ IsFiniteSet(others) /\ Cardinality(others) < Cardinality(places)
        /\ s \in [places -> others]
    BY <2>1, <2>2, <2>3, <2>4
  <2> HIDE DEF places, others
  <2>6. \E x, y \in places : x # y /\ s[x] = s[y]
    BY <2>5, FS_PigeonHole
  <2> QED
    BY <1>2, <2>6 DEF places
<1> QED
  BY <1>2, <1>3, <1>4, <1>5

(* What a tick may fire, put off or dispatch. *)
LEMMA FiredRows ==
  ASSUME IInv, NEW c \in Callers
  PROVE  /\ Waits(c) \subseteq Rows /\ Works(c) \subseteq Rows
         /\ \A i \in Fired : i \in Rows /\ entries[i].status = "scheduled"
         /\ \A i \in Works(c) : i \in Fired /\ i \notin Waits(c) /\ entries[i].delegated
                                /\ Decided(c, i) = "act" /\ entries[i].kind = "task_run"
         /\ \A i \in Waits(c) : i \in Fired /\ Decided(c, i) \in {"hold", "defer"}
         /\ \A i \in Fired : Decided(c, i) \in {"ask", "hold", "defer", "act"}
<1>1. \A i \in Fired : i \in Rows /\ entries[i].status = "scheduled"
  BY DEF Fired, Due, IsDue
<1>2. \A i \in Rows : entries[i].delegated \in BOOLEAN
  BY Types DEF Entry
<1>3. tick[c].hold \in BOOLEAN /\ tick[c].busy \in BOOLEAN
  BY TickTypes
<1>4. \A i \in Rows : /\ Decided(c, i) \in {"ask", "hold", "defer", "act"}
                      /\ Decided(c, i) = "act" => entries[i].delegated
  BY <1>2, <1>3 DEF Decided, Decision
<1> QED
  BY <1>1, <1>4 DEF Waits, Works

(* The fate of a row in the transaction. *)
LEMMA RowFate ==
  ASSUME IInv, NEW c \in Callers, NEW i \in Rows
  PROVE  LET e == entries[i]  f == RowAfter(c, i) IN
         /\ f \in Entry /\ f.from = e.from /\ f.delegated = e.delegated
         /\ MessagesAfter(c, i) \in SUBSET Messages
         /\ IF i \in Waits(c)
            THEN e.status = "scheduled" /\ f.status = "fired" /\ f.result = "deferred"
            ELSE \/ f = e
                 \/ e.status = "scheduled" /\ f.status = "firing" /\ f.result = e.result
                 \/ /\ e.status \in {"scheduled", "firing"} /\ f.status \in {"fired", "missed"}
                    /\ \/ f.result = "started"
                          /\ MessagesAfter(c, i) \cap {"started", "digest"} # {}
                       \/ f.result = "no_delegation" /\ "candidate" \in MessagesAfter(c, i)
                       \/ f.result = "error"
         /\ i \in Works(c) => f.status # "scheduled"
<1> DEFINE e == entries[i]
           f == RowAfter(c, i)
<1>1. e \in Entry
  BY Types
<1>2. i \in Waits(c) => i \in Fired
  BY FiredRows
<1>3. CASE i \in Fired
  <2>1. f = Fires(e, Decided(c, i)) /\ MessagesAfter(c, i) = Message(Decided(c, i), e.kind)
    BY <1>3 DEF RowAfter, MessagesAfter
  <2>2. e.status = "scheduled"
    BY <1>3, FiredRows
  <2>3. CASE Decided(c, i) \in {"hold", "defer"}
    <3>1. i \in Waits(c) /\ i \notin Works(c)
      BY <1>3, <2>3, FiredRows DEF Waits
    <3>2. f = [e EXCEPT !.status = "fired", !.result = "deferred"] /\ MessagesAfter(c, i) = {}
      BY <2>1, <2>3 DEF Fires, Message
    <3> QED
      BY <1>1, <2>2, <3>1, <3>2 DEF Entry, Statuses, Results
  <2>4. CASE Decided(c, i) = "ask"
    <3>1. i \notin Waits(c) /\ i \notin Works(c)
      BY <2>4 DEF Waits, Works
    <3>2. f = [e EXCEPT !.status = "fired", !.result = "no_delegation"]
          /\ MessagesAfter(c, i) = {"candidate"}
      BY <2>1, <2>4 DEF Fires, Message
    <3> QED
      BY <1>1, <2>2, <3>1, <3>2 DEF Entry, Statuses, Results, Messages
  <2>5. CASE Decided(c, i) = "act" /\ e.kind = "task_run"
    <3>1. i \notin Waits(c)
      BY <2>5 DEF Waits
    <3>2. f = [e EXCEPT !.status = "firing"] /\ MessagesAfter(c, i) = {}
      BY <2>1, <2>5 DEF Fires, Message
    <3> QED
      BY <1>1, <2>2, <3>1, <3>2 DEF Entry, Statuses
  <2>6. CASE Decided(c, i) = "act" /\ e.kind # "task_run"
    <3>1. i \notin Waits(c) /\ i \notin Works(c)
      BY <2>6 DEF Waits, Works
    <3>2. f = [e EXCEPT !.status = "fired", !.result = "started"]
          /\ MessagesAfter(c, i) = {"started"}
      BY <2>1, <2>6 DEF Fires, Message
    <3> QED
      BY <1>1, <2>2, <3>1, <3>2 DEF Entry, Statuses, Results, Messages
  <2> QED
    BY <1>3, <2>3, <2>4, <2>5, <2>6, FiredRows
<1>4. CASE i \notin Fired
  <2>1. i \notin Waits(c) /\ i \notin Works(c)
    BY <1>4, FiredRows
  <2>2. MessagesAfter(c, i) \in SUBSET Messages
    BY <1>4 DEF MessagesAfter, Messages
  <2>3. CASE i \in Digested(c)
    <3>1. f = [e EXCEPT !.status = "fired", !.result = "started"]
          /\ MessagesAfter(c, i) = {"digest"} /\ e.status = "scheduled"
      BY <1>4, <2>3 DEF RowAfter, MessagesAfter, Digested
    <3> QED
      BY <1>1, <2>1, <2>2, <3>1 DEF Entry, Statuses, Results
  <2>4. CASE i \notin Digested(c) /\ i \in Found
    <3>1. f = Closing(e, "error") /\ e.status = "firing"
      BY <1>4, <2>4 DEF RowAfter, Found
    <3>2. /\ f \in Entry /\ f.from = e.from /\ f.delegated = e.delegated
          /\ f.status = "fired" /\ f.result = "error"
      BY <1>1, <3>1, ClosedRow
    <3> QED
      BY <2>1, <2>2, <3>1, <3>2
  <2>5. CASE i \notin Digested(c) /\ i \notin Found
    <3>1. \/ f = e
          \/ e.status = "scheduled" /\ f = [e EXCEPT !.status = "missed", !.result = "error"]
      BY <1>4, <2>5 DEF RowAfter
    <3> QED
      BY <1>1, <2>1, <2>2, <3>1 DEF Entry, Statuses, Results
  <2> QED
    BY <2>3, <2>4, <2>5
<1> QED
  BY <1>3, <1>4

(* The row that a held or a deferred one goes on as. *)
LEMMA NextRow ==
  ASSUME IInv, NEW i \in Rows, entries[i].status = "scheduled", NEW hold \in BOOLEAN
  PROVE  LET f == IF hold THEN HoldRow(entries[i]) ELSE RetryRow(entries[i]) IN
         /\ f \in Entry /\ f.from = entries[i].from /\ f.delegated = entries[i].delegated
         /\ f.status = "scheduled" /\ f.result = "none"
<1>1. entries[i] \in Entry /\ entries[i].result = "none" /\ now \in Nat
  BY Types DEF IInv, Unsettled
<1>2. NoEnd \in Nat
  BY ScheduleAssumption DEF NoEnd
<1> DEFINE e == entries[i]
<1>3. /\ HoldRow(e) \in Entry /\ HoldRow(e).from = e.from /\ HoldRow(e).delegated = e.delegated
      /\ HoldRow(e).status = "scheduled" /\ HoldRow(e).result = "none"
  BY <1>1, <1>2 DEF Entry, HoldRow, Kinds
<1>4. /\ RetryRow(e) \in Entry /\ RetryRow(e).from = e.from /\ RetryRow(e).delegated = e.delegated
      /\ RetryRow(e).status = "scheduled" /\ RetryRow(e).result = "none"
  <2> DEFINE end == IF e.end < now + 1 THEN now + 1 ELSE e.end
  <2>1. RetryRow(e) = [e EXCEPT !.due = now + 1, !.end = end]
    BY DEF RetryRow
  <2>2. now + 1 \in Nat /\ e.end \in Nat
    BY <1>1 DEF Entry
  <2>3. end \in Nat
    BY <2>2
  <2> HIDE DEF end
  <2> QED
    BY <1>1, <2>1, <2>2, <2>3 DEF Entry
<1> QED
  BY <1>3, <1>4

LEMMA TransactsKeeps ==
  ASSUME IInv, NEW c \in Callers, Transacts(c)
  PROVE  IInv'
<1> DEFINE len == Len(entries)
<1>1. PICK W \in SUBSET Rows : W = Waits(c)
  BY FiredRows
<1>2. PICK goOn \in InOrder(W), pending \in InOrder(Works(c)) :
        /\ entries' = [i \in Rows |-> RowAfter(c, i)] \o
             [n \in DOMAIN goOn |-> IF tick[c].hold THEN HoldRow(entries[goOn[n]])
                                                    ELSE RetryRow(entries[goOn[n]])]
        /\ told' = [i \in Rows |-> told[i] \cup MessagesAfter(c, i)] \o [n \in DOMAIN goOn |-> {}]
        /\ tries' = tries \o [n \in DOMAIN goOn |-> 0]
        /\ tick' = [tick EXCEPT ![c] = GoesOn(pending)]
  BY <1>1 DEF Transacts
<1>3. UNCHANGED <<now, enabled, counters>> /\ tick[c].pc = "read"
  BY DEF Transacts
<1>4. /\ Len(goOn) \in Nat /\ DOMAIN goOn = 1 .. Len(goOn)
      /\ \A n \in DOMAIN goOn : goOn[n] \in W
      /\ \A m, n \in DOMAIN goOn : goOn[m] = goOn[n] => m = n
      /\ \A i \in W : \E n \in DOMAIN goOn : goOn[n] = i
  BY Sequenced
<1>5. /\ Len(pending) \in Nat /\ DOMAIN pending = 1 .. Len(pending) /\ pending \in Seq(Works(c))
      /\ \A n \in DOMAIN pending : pending[n] \in Works(c)
      /\ \A m, n \in DOMAIN pending : pending[m] = pending[n] => m = n
  BY Sequenced, FiredRows
<1>6. len \in Nat /\ Rows = 1 .. len
  BY Types
<1> DEFINE olds == [i \in Rows |-> RowAfter(c, i)]
           news == [n \in DOMAIN goOn |-> IF tick[c].hold THEN HoldRow(entries[goOn[n]])
                                                          ELSE RetryRow(entries[goOn[n]])]
           oldTold == [i \in Rows |-> told[i] \cup MessagesAfter(c, i)]
           newTold == [n \in DOMAIN goOn |-> {}]
           newTries == [n \in DOMAIN goOn |-> 0]
<1>7. \A i \in W : i \in Rows /\ entries[i].status = "scheduled"
  BY <1>1, FiredRows
<1>8. \A n \in DOMAIN goOn :
        /\ news[n] \in Entry /\ news[n].from = entries[goOn[n]].from
        /\ news[n].delegated = entries[goOn[n]].delegated
        /\ news[n].status = "scheduled" /\ news[n].result = "none"
  <2>1. tick[c].hold \in BOOLEAN
    BY TickTypes
  <2> QED
    BY <1>4, <1>7, <2>1, NextRow
<1>9. /\ olds \in Seq(Entry) /\ news \in Seq(Entry) /\ Len(olds) = len /\ Len(news) = Len(goOn)
      /\ oldTold \in Seq(SUBSET Messages) /\ newTold \in Seq(SUBSET Messages)
      /\ Len(oldTold) = len /\ Len(newTold) = Len(goOn)
      /\ newTries \in Seq(Nat) /\ Len(newTries) = Len(goOn)
  <2>1. \A i \in Rows : RowAfter(c, i) \in Entry /\ told[i] \cup MessagesAfter(c, i) \in SUBSET Messages
    BY RowFate, Types
  <2>2. olds \in [1 .. len -> Entry] /\ oldTold \in [1 .. len -> SUBSET Messages]
    BY <1>6, <2>1
  <2>3. news \in [1 .. Len(goOn) -> Entry]
    <3>1. DOMAIN news = 1 .. Len(goOn) /\ news = [n \in 1 .. Len(goOn) |-> news[n]]
      BY <1>4
    <3>2. \A n \in 1 .. Len(goOn) : news[n] \in Entry
      BY <1>4, <1>8
    <3> HIDE DEF news
    <3> QED
      BY <3>1, <3>2
  <2>4. newTold \in [1 .. Len(goOn) -> SUBSET Messages] /\ newTries \in [1 .. Len(goOn) -> Nat]
    BY <1>4
  <2> HIDE DEF olds, oldTold, news, newTold, newTries
  <2>5. /\ olds \in Seq(Entry) /\ news \in Seq(Entry) /\ newTries \in Seq(Nat)
        /\ oldTold \in Seq(SUBSET Messages) /\ newTold \in Seq(SUBSET Messages)
    <3>1. olds \in Seq(Entry) /\ oldTold \in Seq(SUBSET Messages)
      BY <1>6, <2>2, SeqDef
    <3>2. news \in Seq(Entry) /\ newTries \in Seq(Nat)
      BY <1>4, <2>3, <2>4, SeqDef
    <3>3. newTold \in Seq(SUBSET Messages)
      BY <1>4, <2>4, SeqDef
    <3> QED
      BY <3>1, <3>2, <3>3
  <2>6. /\ DOMAIN olds = 1 .. len /\ DOMAIN news = 1 .. Len(goOn) /\ DOMAIN newTries = 1 .. Len(goOn)
        /\ DOMAIN oldTold = 1 .. len /\ DOMAIN newTold = 1 .. Len(goOn)
    BY <2>2, <2>3, <2>4
  <2> QED
    BY <1>4, <1>6, <2>5, <2>6, LenProperties
<1>10. entries' = olds \o news /\ told' = oldTold \o newTold /\ tries' = tries \o newTries
  BY <1>2
<1>11. /\ \A i \in Rows : olds[i] = RowAfter(c, i) /\ oldTold[i] = told[i] \cup MessagesAfter(c, i)
       /\ \A n \in DOMAIN goOn : newTold[n] = {} /\ newTries[n] = 0
  OBVIOUS
<1> HIDE DEF olds, oldTold, news, newTold, newTries
<1> DEFINE all == len + Len(goOn)
<1>12. /\ entries' \in Seq(Entry) /\ told' \in Seq(SUBSET Messages) /\ tries' \in Seq(Nat)
       /\ Len(entries') = all /\ Len(told') = all /\ Len(tries') = all
       /\ \A i \in 1 .. all : /\ entries'[i] = IF i <= len THEN olds[i] ELSE news[i - len]
                              /\ told'[i] = IF i <= len THEN oldTold[i] ELSE newTold[i - len]
                              /\ tries'[i] = IF i <= len THEN tries[i] ELSE newTries[i - len]
  <2>1. /\ entries' \in Seq(Entry) /\ Len(entries') = all
        /\ \A i \in 1 .. all : entries'[i] = IF i <= len THEN olds[i] ELSE news[i - len]
    <3>1. /\ olds \in Seq(Entry) /\ Len(olds) = len /\ len \in Nat
          /\ news \in Seq(Entry) /\ Len(news) = Len(goOn) /\ Len(goOn) \in Nat
      BY <1>4, <1>6, <1>9
    <3>2. /\ olds \o news \in Seq(Entry) /\ Len(olds \o news) = len + Len(goOn)
          /\ \A i \in 1 .. len + Len(goOn) :
               (olds \o news)[i] = IF i <= len THEN olds[i] ELSE news[i - len]
      <4> HIDE DEF len
      <4>1. olds \in Seq(Entry) /\ news \in Seq(Entry)
        BY ONLY <3>1
      <4>2. olds \o news \in Seq(Entry) /\ Len(olds \o news) = Len(olds) + Len(news)
        BY ONLY <4>1, ConcatProperties
      <4>3. \A i \in 1 .. Len(olds) + Len(news) :
              (olds \o news)[i] = IF i <= Len(olds) THEN olds[i] ELSE news[i - Len(olds)]
        BY ONLY <4>1, ConcatProperties
      <4> QED
        BY ONLY <3>1, <4>2, <4>3
    <3> QED
      BY <1>10, <3>2
  <2>2. /\ told' \in Seq(SUBSET Messages) /\ Len(told') = all
        /\ \A i \in 1 .. all : told'[i] = IF i <= len THEN oldTold[i] ELSE newTold[i - len]
    <3>1. /\ oldTold \in Seq(SUBSET Messages) /\ Len(oldTold) = len /\ len \in Nat
          /\ newTold \in Seq(SUBSET Messages) /\ Len(newTold) = Len(goOn) /\ Len(goOn) \in Nat
      BY <1>4, <1>6, <1>9
    <3>2. /\ oldTold \o newTold \in Seq(SUBSET Messages) /\ Len(oldTold \o newTold) = len + Len(goOn)
          /\ \A i \in 1 .. len + Len(goOn) :
               (oldTold \o newTold)[i] = IF i <= len THEN oldTold[i] ELSE newTold[i - len]
      <4> HIDE DEF len
      <4>1. oldTold \in Seq(SUBSET Messages) /\ newTold \in Seq(SUBSET Messages)
        BY ONLY <3>1
      <4>2. oldTold \o newTold \in Seq(SUBSET Messages) /\ Len(oldTold \o newTold) = Len(oldTold) + Len(newTold)
        BY ONLY <4>1, ConcatProperties
      <4>3. \A i \in 1 .. Len(oldTold) + Len(newTold) :
              (oldTold \o newTold)[i] = IF i <= Len(oldTold) THEN oldTold[i] ELSE newTold[i - Len(oldTold)]
        BY ONLY <4>1, ConcatProperties
      <4> QED
        BY ONLY <3>1, <4>2, <4>3
    <3> QED
      BY <1>10, <3>2
  <2>3. /\ tries' \in Seq(Nat) /\ Len(tries') = all
        /\ \A i \in 1 .. all : tries'[i] = IF i <= len THEN tries[i] ELSE newTries[i - len]
    <3>1. /\ tries \in Seq(Nat) /\ Len(tries) = len /\ len \in Nat
          /\ newTries \in Seq(Nat) /\ Len(newTries) = Len(goOn) /\ Len(goOn) \in Nat
      BY <1>4, <1>6, <1>9, Types
    <3>2. /\ tries \o newTries \in Seq(Nat) /\ Len(tries \o newTries) = len + Len(goOn)
          /\ \A i \in 1 .. len + Len(goOn) :
               (tries \o newTries)[i] = IF i <= len THEN tries[i] ELSE newTries[i - len]
      <4> HIDE DEF len
      <4>1. tries \in Seq(Nat) /\ newTries \in Seq(Nat)
        BY ONLY <3>1
      <4>2. tries \o newTries \in Seq(Nat) /\ Len(tries \o newTries) = Len(tries) + Len(newTries)
        BY ONLY <4>1, ConcatProperties
      <4>3. \A i \in 1 .. Len(tries) + Len(newTries) :
              (tries \o newTries)[i] = IF i <= Len(tries) THEN tries[i] ELSE newTries[i - Len(tries)]
        BY ONLY <4>1, ConcatProperties
      <4> QED
        BY ONLY <3>1, <4>2, <4>3
    <3> QED
      BY <1>10, <3>2
  <2> QED
    BY <2>1, <2>2, <2>3
<1>13. Rows' = 1 .. all /\ DOMAIN told' = 1 .. all /\ DOMAIN tries' = 1 .. all /\ all \in Nat
  BY <1>4, <1>6, <1>12, LenProperties DEF Rows
<1>14. \A i \in Rows : /\ entries'[i] = RowAfter(c, i) /\ tries'[i] = tries[i]
                       /\ told'[i] = told[i] \cup MessagesAfter(c, i)
  BY <1>4, <1>6, <1>11, <1>12
<1>15. \A k \in Rows' \ Rows :
         /\ k \in Nat \ {0} /\ k > len /\ k - len \in DOMAIN goOn
         /\ entries'[k] = news[k - len] /\ told'[k] = {} /\ tries'[k] = 0
  <2> SUFFICES ASSUME NEW k \in Rows' \ Rows
               PROVE  /\ k \in Nat \ {0} /\ k > len /\ k - len \in DOMAIN goOn
                      /\ entries'[k] = news[k - len] /\ told'[k] = {} /\ tries'[k] = 0
    OBVIOUS
  <2>1. k \in 1 .. all /\ k \notin 1 .. len
    BY <1>6, <1>13
  <2>2. k \in Nat \ {0} /\ k > len /\ ~(k <= len) /\ k - len \in 1 .. Len(goOn)
    BY <1>4, <1>6, <2>1
  <2>3. k - len \in DOMAIN goOn
    BY <1>4, <2>2
  <2>4. entries'[k] = news[k - len] /\ told'[k] = newTold[k - len] /\ tries'[k] = newTries[k - len]
    BY <1>12, <2>1, <2>2
  <2> QED
    BY <1>11, <2>2, <2>3, <2>4
<1>16. \A n \in DOMAIN goOn : n + len \in Rows' \ Rows /\ (n + len) - len = n
  BY <1>4, <1>6, <1>13
<1> HIDE DEF len, all
<1>17. \A k \in Rows' \ Rows : \A i \in W : Follows(k, i) => goOn[k - len] = i
  <2> SUFFICES ASSUME NEW k \in Rows' \ Rows, NEW i \in W, Follows(k, i)
               PROVE  goOn[k - len] = i
    OBVIOUS
  <2>1. /\ goOn[k - len] \in W /\ entries[goOn[k - len]].from = entries[i].from
    BY <1>4, <1>8, <1>15 DEF Follows
  <2>2. \A x, y \in W : entries[x].from = entries[y].from => x = y
    <3>1. \A x, y \in W : entries[x].from = entries[y].from => x <= y
      BY <1>7 DEF IInv, LastWaits
    <3>2. \A x \in W : x \in Nat
      BY <1>7, Types
    <3> QED
      BY <3>1, <3>2
  <2> QED
    BY <2>1, <2>2
<1>18. Moves(W)
  <2>1. Rows \subseteq Rows'
    BY <1>4, <1>6, <1>13 DEF all
  <2>2. \A i \in Rows : Fixed(i) /\ IF i \in W THEN PutOff(i) ELSE Ages(i)
    <3> SUFFICES ASSUME NEW i \in Rows PROVE Fixed(i) /\ IF i \in W THEN PutOff(i) ELSE Ages(i)
      OBVIOUS
    <3>1. Fixed(i)
      BY <1>14, RowFate DEF Fixed
    <3>2. i \in W => PutOff(i)
      BY <1>1, <1>14, RowFate DEF PutOff
    <3>3. i \notin W => Ages(i)
      BY <1>1, <1>14, RowFate DEF Ages
    <3> QED
      BY <3>1, <3>2, <3>3
  <2>3. \A k \in Rows' \ Rows :
          /\ k \in Nat \ {0} /\ \A i \in Rows : i < k
          /\ entries'[k].status = "scheduled" /\ entries'[k].result = "none" /\ tries'[k] = 0
          /\ \E i \in W : Follows(k, i)
    <3> SUFFICES ASSUME NEW k \in Rows' \ Rows
                 PROVE  /\ k \in Nat \ {0} /\ \A i \in Rows : i < k
                        /\ entries'[k].status = "scheduled" /\ entries'[k].result = "none"
                        /\ tries'[k] = 0 /\ \E i \in W : Follows(k, i)
      OBVIOUS
    <3>1. \A i \in Rows : i < k
      BY <1>6, <1>15
    <3>2. Follows(k, goOn[k - len]) /\ goOn[k - len] \in W
      BY <1>4, <1>8, <1>15 DEF Follows
    <3> QED
      BY <1>8, <1>15, <3>1, <3>2
  <2>4. \A i \in W : \E k \in Rows' \ Rows : Follows(k, i)
    <3> SUFFICES ASSUME NEW i \in W PROVE \E k \in Rows' \ Rows : Follows(k, i)
      OBVIOUS
    <3>1. PICK n \in DOMAIN goOn : goOn[n] = i
      BY <1>4
    <3>2. n + len \in Rows' \ Rows /\ entries'[n + len] = news[n]
      BY <1>15, <1>16
    <3> QED
      BY <1>8, <3>1, <3>2 DEF Follows
  <2>5. \A i \in W : \A k, l \in Rows' \ Rows : Follows(k, i) /\ Follows(l, i) => k = l
    <3> SUFFICES ASSUME NEW i \in W, NEW k \in Rows' \ Rows, NEW l \in Rows' \ Rows,
                        Follows(k, i), Follows(l, i)
                 PROVE  k = l
      OBVIOUS
    <3>1. k - len = l - len
      BY <1>4, <1>15, <1>17
    <3> QED
      BY <1>6, <1>15, <3>1
  <2> QED
    BY <2>1, <2>2, <2>3, <2>4, <2>5 DEF Moves
<1>19. \A d \in Callers \ {c} : tick'[d] = tick[d]
  BY <1>2 DEF IInv, TypeOK
<1>20. /\ tick'[c] = GoesOn(pending)
       /\ tick'[c].pc \in {"dispatching", "dispatched"} <=> tick'[c].pending # <<>>
       /\ tick'[c].pending = pending
  <2>1. tick'[c] = GoesOn(pending)
    BY <1>2 DEF IInv, TypeOK
  <2> QED
    BY <2>1 DEF GoesOn, Idle
<1>21. TypeOK'
  <2>1. pending \in Seq(Nat) /\ <<>> \in Seq(Nat)
    <3>1. Works(c) \subseteq Nat
      BY FiredRows, Types
    <3> QED
      BY <1>5, <3>1, SeqMonotonic, EmptySeq
  <2>2. GoesOn(pending) \in [pc : {"idle", "begun", "read", "dispatching", "dispatched"},
                             hold : BOOLEAN, busy : BOOLEAN, pending : Seq(Nat), ok : BOOLEAN]
    BY <2>1 DEF GoesOn, Idle
  <2>3. tick' \in [Callers -> [pc : {"idle", "begun", "read", "dispatching", "dispatched"},
                             hold : BOOLEAN, busy : BOOLEAN, pending : Seq(Nat), ok : BOOLEAN]]
    <3>1. tick' = [d \in Callers |-> tick'[d]]
      BY <1>2 DEF IInv, TypeOK
    <3>2. \A d \in Callers : tick'[d] \in
            [pc : {"idle", "begun", "read", "dispatching", "dispatched"},
             hold : BOOLEAN, busy : BOOLEAN, pending : Seq(Nat), ok : BOOLEAN]
      BY <1>19, <1>20, <2>2, TickTypes
    <3> QED
      BY <3>1, <3>2
  <2>4. now' \in 0 .. MaxNow /\ enabled' \in BOOLEAN
    BY <1>3 DEF IInv, TypeOK
  <2>5. (DOMAIN told = Rows)' /\ (DOMAIN tries = Rows)'
    BY <1>13
  <2> QED
    BY <1>12, <2>3, <2>4, <2>5 DEF TypeOK, Entry
<1>22. /\ Pending(c)' = DOMAIN pending
       /\ \A d \in Callers \ {c} : Pending(d)' = Pending(d)
  BY <1>19, <1>20 DEF Pending
<1>23. \A n \in DOMAIN pending :
         /\ pending[n] \in Rows /\ entries[pending[n]].delegated /\ pending[n] \notin W
         /\ entries[pending[n]].status = "scheduled"
         /\ entries'[pending[n]].status # "scheduled"
  <2> SUFFICES ASSUME NEW n \in DOMAIN pending
               PROVE  /\ pending[n] \in Rows /\ entries[pending[n]].delegated /\ pending[n] \notin W
                      /\ entries[pending[n]].status = "scheduled"
                      /\ entries'[pending[n]].status # "scheduled"
    OBVIOUS
  <2>1. pending[n] \in Works(c)
    BY <1>5
  <2>2. /\ pending[n] \in Rows /\ entries[pending[n]].delegated /\ pending[n] \notin W
        /\ entries[pending[n]].status = "scheduled"
    BY <1>1, <2>1, FiredRows
  <2>3. RowAfter(c, pending[n]).status # "scheduled"
    BY <2>1, <2>2, RowFate
  <2> QED
    BY <1>14, <2>2, <2>3
<1>24. \A i \in Rows : /\ i \in Rows' /\ entries'[i].delegated = entries[i].delegated
                       /\ entries'[i].status = "scheduled" =>
                            entries[i].status = "scheduled" /\ i \notin W
  BY <1>18 DEF Moves, Fixed, Ages, PutOff
<1>25. DispatchesFired'
  <2>1. \A d \in Callers : tick'[d].pc \in {"dispatching", "dispatched"} <=> tick'[d].pending # <<>>
    BY <1>19, <1>20 DEF IInv, DispatchesFired
  <2>2. ASSUME NEW d \in Callers, NEW n \in Pending(d)'
        PROVE  /\ tick'[d].pending[n] \in Rows' /\ entries'[tick'[d].pending[n]].delegated
               /\ entries'[tick'[d].pending[n]].status # "scheduled"
    <3>1. CASE d = c
      <4>1. n \in DOMAIN pending /\ tick'[d].pending[n] = pending[n]
        BY <1>20, <1>22, <2>2, <3>1
      <4> QED
        BY <1>23, <1>24, <4>1
    <3>2. CASE d # c
      <4>1. n \in Pending(d) /\ tick'[d].pending[n] = tick[d].pending[n]
        BY <1>19, <1>22, <2>2, <3>2
      <4>2. /\ tick[d].pending[n] \in Rows /\ entries[tick[d].pending[n]].delegated
            /\ entries[tick[d].pending[n]].status # "scheduled"
        BY <2>2, <4>1 DEF IInv, DispatchesFired
      <4> QED
        BY <1>24, <4>1, <4>2
    <3> QED
      BY <3>1, <3>2
  <2>3. \A d \in Callers \ {c} : \A n \in Pending(d) : entries[tick[d].pending[n]].status # "scheduled"
    BY DEF IInv, DispatchesFired
  <2>4. ASSUME NEW d \in Callers, NEW e \in Callers, NEW m \in Pending(d)', NEW n \in Pending(e)',
               tick'[d].pending[m] = tick'[e].pending[n]
        PROVE  d = e /\ m = n
    <3>1. CASE d = c /\ e = c
      BY <1>5, <1>20, <1>22, <2>4, <3>1
    <3>2. CASE d = c /\ e # c
      BY <1>19, <1>20, <1>22, <1>23, <2>3, <2>4, <3>2
    <3>3. CASE d # c /\ e = c
      BY <1>19, <1>20, <1>22, <1>23, <2>3, <2>4, <3>3
    <3>4. CASE d # c /\ e # c
      <4>1. m \in Pending(d) /\ n \in Pending(e) /\ tick[d].pending[m] = tick[e].pending[n]
        BY <1>19, <1>22, <2>4, <3>4
      <4> QED
        BY <2>4, <4>1 DEF IInv, DispatchesFired
    <3> QED
      BY <3>1, <3>2, <3>3, <3>4
  <2> QED
    BY <2>1, <2>2, <2>4 DEF DispatchesFired
<1>26. \A i \in Rows : Ahead(i)' => Ahead(i) /\ i \notin W
  <2> SUFFICES ASSUME NEW i \in Rows, Ahead(i)' PROVE Ahead(i) /\ i \notin W
    OBVIOUS
  <2>1. CASE entries'[i].status = "scheduled"
    BY <1>24, <2>1 DEF Ahead
  <2>2. CASE \E d \in Callers : \E n \in Pending(d)' :
               tick'[d].pending[n] = i /\ (n > 1 \/ tick'[d].pc = "dispatching")
    <3>0. PICK d \in Callers : \E n \in Pending(d)' :
            tick'[d].pending[n] = i /\ (n > 1 \/ tick'[d].pc = "dispatching")
      BY <2>2
    <3>1. PICK n \in Pending(d)' : tick'[d].pending[n] = i /\ (n > 1 \/ tick'[d].pc = "dispatching")
      BY <3>0
    <3>2. CASE d = c
      <4>1. n \in DOMAIN pending /\ pending[n] = i
        BY <1>20, <1>22, <3>1, <3>2
      <4> QED
        BY <1>23, <4>1 DEF Ahead
    <3>3. CASE d # c
      <4>1. n \in Pending(d) /\ tick[d].pending[n] = i /\ (n > 1 \/ tick[d].pc = "dispatching")
        BY <1>19, <1>22, <3>1, <3>3
      <4>2. entries[i].status # "scheduled"
        BY <4>1 DEF IInv, DispatchesFired
      <4> QED
        BY <1>7, <4>1, <4>2 DEF Ahead
    <3> QED
      BY <3>2, <3>3
  <2> QED
    BY <2>1, <2>2 DEF Ahead
<1> QED
  BY <1>18, <1>21, <1>25, <1>26, RowsKept

-----------------------------------------------------------------------------
(* The invariant. *)

LEMMA InitHolds ==
  ASSUME Init
  PROVE  IInv
<1>1. /\ now = 0 /\ enabled \in BOOLEAN /\ entries = <<>> /\ told = <<>> /\ tries = <<>>
      /\ tick = [c \in Callers |-> Idle]
  BY DEF Init
<1>2. Rows = {} /\ DOMAIN told = {} /\ DOMAIN tries = {}
  BY <1>1, EmptySeq DEF Rows
<1>3. /\ entries \in Seq(Entry) /\ told \in Seq(SUBSET Messages) /\ tries \in Seq(Nat)
      /\ <<>> \in Seq(Nat)
  BY <1>1, EmptySeq
<1>4. TypeOK
  <2>1. Idle \in [pc : {"idle", "begun", "read", "dispatching", "dispatched"},
                  hold : BOOLEAN, busy : BOOLEAN, pending : Seq(Nat), ok : BOOLEAN]
    BY <1>3 DEF Idle
  <2>2. now \in 0 .. MaxNow
    BY <1>1, ScheduleAssumption
  <2> QED
    BY <1>1, <1>2, <1>3, <2>1, <2>2 DEF TypeOK, Entry
<1>5. \A c \in Callers : tick[c].pc = "idle" /\ tick[c].pending = <<>> /\ Pending(c) = {}
  BY <1>1, EmptySeq DEF Idle, Pending
<1>6. DispatchesFired
  BY <1>5 DEF DispatchesFired
<1> QED
  BY <1>2, <1>4, <1>6
  DEF IInv, Rooted, Unsettled, LastWaits, OneAhead, EndsTold, NoReplay

LEMMA StepKeeps ==
  ASSUME IInv, [Next]_vars
  PROVE  IInv'
<1>1. CASE Add
  BY <1>1, AddKeeps
<1>2. CASE Disable
  BY <1>2, DisableKeeps
<1>3. CASE Enable
  BY <1>3, EnableKeeps
<1>4. CASE \E i \in Rows : Withdraw(i)
  BY <1>4, WithdrawKeeps
<1>5. CASE Passes
  BY <1>5, PassesKeeps
<1>6. CASE Die
  BY <1>6, DieKeeps
<1>7. CASE \E c \in Callers : Transacts(c)
  BY <1>7, TransactsKeeps
<1>8. CASE \E c \in Callers : Dispatches(c)
  BY <1>8, DispatchesKeeps
<1>9. CASE \E c \in Callers : Finishes(c)
  BY <1>9, FinishesKeeps
<1>10. CASE \E c \in Callers : \E hold, busy \in BOOLEAN : Reads(c, hold, busy)
  BY <1>10, ReadsKeeps
<1>11. CASE \E c \in Callers : Rejects(c)
  BY <1>11, RejectsKeeps
<1>12. CASE UNCHANGED vars
  <2>1. UNCHANGED <<now, enabled, entries, tick, told, tries>>
    BY <1>12 DEF vars
  <2>2. TypeOK' /\ Rows' = Rows
    BY <2>1 DEF TypeOK, IInv, Rows
  <2>3. \A i \in Rows : Fixed(i) /\ Ages(i)
    BY <2>1 DEF Fixed, Ages
  <2>4. Dwindles
    BY <2>1 DEF Dwindles
  <2> QED
    BY <2>2, <2>3, <2>4, AgingKeeps
<1> QED
  BY <1>1, <1>2, <1>3, <1>4, <1>5, <1>6, <1>7, <1>8, <1>9, <1>10, <1>11, <1>12 DEF Next, User, Step

(* Invariance: what the tables of the schedule and the ticks under way promise each other *)
(* between any two steps of schedule/tick.rs and schedule/ledger.rs.                      *)
THEOREM Invariance == Spec => []IInv
<1>1. Init => IInv
  BY InitHolds
<1>2. IInv /\ [Next]_vars => IInv'
  BY StepKeeps
<1> QED
  BY <1>1, <1>2, PTL DEF Spec

(* TypeCorrect: the rows keep to the values the schema of schedule_entries allows. *)
THEOREM TypeCorrect == Spec => []TypeOK
<1>1. IInv => TypeOK
  BY DEF IInv
<1> QED
  BY <1>1, Invariance, PTL

(* AskedOnce: the work of an entry is asked of the steward at most once, through all its *)
(* retries, two ticks at a time, crashes and switches of the schedule, and never without *)
(* a delegation (dispatch_scheduled in schedule/tick.rs).                                *)
THEOREM AskedOnce == Spec => []NoReplay
<1>1. IInv => NoReplay
  BY DEF IInv
<1> QED
  BY <1>1, Invariance, PTL

(* NothingLost: what the situation held or a busy slot deferred goes on in exactly one *)
(* later row (fire_one in schedule/tick.rs), and no row says it was begun or offered   *)
(* to the user without the message.                                                    *)
THEOREM NothingLost == Spec => []NothingVanishes
<1>1. IInv => NothingVanishes
  <2> SUFFICES ASSUME IInv, NEW i \in Rows
               PROVE  /\ \A j \in Line(i) :
                           (entries[j].result = "deferred") <=> \E k \in Line(i) : k > j
                      /\ entries[i].result = "started" => told[i] \cap {"started", "digest"} # {}
                      /\ entries[i].result = "no_delegation" => "candidate" \in told[i]
    BY DEF NothingVanishes
  <2>1. \A j \in Line(i) : (entries[j].result = "deferred") <=> \E k \in Line(i) : k > j
    BY DEF IInv, LastWaits, Line
  <2> QED
    BY <2>1 DEF IInv, EndsTold
<1> QED
  BY <1>1, Invariance, PTL
=============================================================================
