-------------------------------- MODULE Slots --------------------------------
(***************************************************************************)
(* Which single-event slot an operation means: the free slot of a          *)
(* set_single_event and the vacations of a clear_vacation, chosen from the *)
(* cached events and the node's clock (schedule_service.cpp).  The cache   *)
(* holds enabled events only, in the order they were stored.               *)
(***************************************************************************)
EXTENDS Integers, Sequences, FiniteSets

\* now_unix() of a node whose clock was never set.
NoClock == 0
NoSlot  == -1

Event == [index : Nat, on : BOOLEAN, action : {"run", "stop"}, begin : Nat, end : Nat]

\* The lesser of two numbers, and the elements of s at the indices in I, in
\* their order.
Lesser(a, b) == IF a <= b THEN a ELSE b
Nth(I, k) == CHOOSE i \in I : Cardinality({j \in I : j < i}) = k - 1
Kept(s, I) == [k \in 1..Cardinality(I) |-> s[Nth(I, k)]]

Indices(held) == {held[i].index : i \in DOMAIN held}

\* Over strictly before now, and never so without a clock (issue #262).
Expired(ev, now) == now > NoClock /\ ev.end < now

\* find_free_single_event_slot() on a warm cache: an empty slot if there is
\* one, else that of the event that has been over the longest, the first stored
\* among equals.
EndsFirst(held, i, j) ==
  held[i].end < held[j].end \/ (held[i].end = held[j].end /\ i <= j)
FreeSlot(held, max, now) ==
  LET empty == 0..(max - 1) \ Indices(held)
      over  == {i \in DOMAIN held : Expired(held[i], now)}
  IN  IF empty # {} THEN CHOOSE s \in empty : \A t \in empty : s <= t
      ELSE IF over = {} THEN NoSlot
      ELSE held[CHOOSE i \in over : \A j \in over : EndsFirst(held, i, j)].index

IsVacation(ev) == ev.action = "stop"
Covers(ev, now) == ev.begin <= now /\ now < ev.end

\* pick_vacation_(), when none of the vacations covers now: the next one due,
\* else the one that ended last; without a clock, the first stored.
BeginsFirst(held, i, j) ==
  held[i].begin < held[j].begin \/ (held[i].begin = held[j].begin /\ i <= j)
EndsLast(held, i, j) ==
  held[i].end > held[j].end \/ (held[i].end = held[j].end /\ i <= j)
PickVacation(held, stops, now) ==
  LET upcoming == {i \in stops : held[i].begin > now}
  IN  IF now = NoClock THEN CHOOSE i \in stops : \A j \in stops : i <= j
      ELSE IF upcoming # {}
        THEN CHOOSE i \in upcoming : \A j \in upcoming : BeginsFirst(held, i, j)
      ELSE CHOOSE i \in stops : \A j \in stops : EndsLast(held, i, j)

\* find_vacation_slots(): every vacation that covers now (issue #290), else
\* the one that is meant.
VacationSlots(held, now) ==
  LET stops == {i \in DOMAIN held : IsVacation(held[i])}
      live  == {i \in stops : now # NoClock /\ Covers(held[i], now)}
      meant == IF live # {} THEN live
               ELSE IF stops = {} THEN {} ELSE {PickVacation(held, stops, now)}
  IN  Kept([i \in DOMAIN held |-> held[i].index], meant)
=============================================================================
