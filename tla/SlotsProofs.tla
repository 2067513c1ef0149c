----------------------------- MODULE SlotsProofs -----------------------------
(***************************************************************************)
(* What find_free_single_event_slot() promises of the slot it chooses, and *)
(* find_vacation_slots() of those it names.                                *)
(***************************************************************************)
EXTENDS Slots, FiniteSets, FiniteSetTheorems, WellFoundedInduction, TLAPS

\* A set of numbers that is not empty has a least one: the initial segments
\* below its members are well-founded by inclusion.
LEMMA Least ==
  ASSUME NEW S \in SUBSET Nat, S # {}
  PROVE  \E s \in S : \A t \in S : s <= t
<1>1. PICK n \in S : TRUE
  OBVIOUS
<1> DEFINE T == {0..(s - 1) : s \in {r \in S : r <= n}}
<1>2. 0..(n - 1) \in T
  BY <1>1
<1>3. T # {} /\ T \subseteq SUBSET (0..n)
  <2>1. \A s \in S : s \in Nat
    OBVIOUS
  <2> QED BY <1>2, <2>1
<1> HIDE DEF T
<1>4. IsFiniteSet(0..n)
  <2>1. n \in Int /\ 0 \in Int
    BY <1>1
  <2> QED BY <2>1, FS_Interval
<1>5. IsWellFoundedOn(StrictSubsetOrdering(0..n), SUBSET (0..n))
  BY <1>4, FS_StrictSubsetOrderingWellFounded, FS_FiniteSubsetsOfFinite
<1>6. PICK x \in T : \A y \in T : ~ (<<y, x>> \in StrictSubsetOrdering(0..n))
  BY <1>3, <1>5, WFMin
<1>7. PICK s \in S : s <= n /\ x = 0..(s - 1)
  BY <1>6 DEF T
<1>8. ASSUME NEW t \in S PROVE s <= t
  <2>1. SUFFICES ASSUME t < s PROVE FALSE
    BY <1>7
  <2> DEFINE y == 0..(t - 1)
  <2>2. y \in T
    BY <1>7, <2>1, <1>1 DEF T
  <2>3. y \subseteq x /\ t \in x /\ t \notin y
    BY <1>7, <2>1
  <2>4. <<y, x>> \in StrictSubsetOrdering(0..n)
    BY <2>2, <2>3, <1>3, <1>6 DEF StrictSubsetOrdering
  <2> QED BY <1>6, <2>2, <2>4
<1> QED BY <1>7, <1>8

\* What a cache holds.
Held == Seq(Event)

LEMMA HeldTypes ==
  ASSUME NEW held \in Held, NEW i \in DOMAIN held
  PROVE  i \in Nat /\ held[i].index \in Nat /\ held[i].end \in Nat
<1>1. i \in Nat /\ held[i] \in Event
  BY DEF Held
<1> QED BY <1>1 DEF Event

\* Of events that are over one ends no later than any other, and is stored
\* before those that end with it.
LEMMA LongestOver ==
  ASSUME NEW held \in Held, NEW O \in SUBSET (DOMAIN held), O # {}
  PROVE  \E i \in O : \A j \in O : EndsFirst(held, i, j)
<1> DEFINE E == {held[i].end : i \in O}
<1>1. \A i \in O : i \in Nat /\ held[i].end \in Nat
  BY HeldTypes
<1>2. E \in SUBSET Nat /\ E # {}
  BY <1>1
<1>3. PICK e \in E : \A f \in E : e <= f
  <2> HIDE DEF E
  <2> QED BY <1>2, Least
<1> DEFINE F == {i \in O : held[i].end = e}
<1>4. F \in SUBSET Nat /\ F # {}
  BY <1>1, <1>3
<1>5. PICK i \in F : \A j \in F : i <= j
  <2> HIDE DEF F
  <2> QED BY <1>4, Least
<1>6. ASSUME NEW j \in O PROVE EndsFirst(held, i, j)
  <2>1. held[i].end = e /\ e <= held[j].end /\ e \in Nat /\ held[j].end \in Nat
    BY <1>1, <1>3, <1>5
  <2>2. CASE held[j].end = e
    BY <2>1, <2>2, <1>5 DEF EndsFirst
  <2>3. CASE held[j].end # e
    BY <2>1, <2>3 DEF EndsFirst
  <2> QED BY <2>2, <2>3
<1> QED BY <1>5, <1>6

\* The three answers of find_free_single_event_slot(): the lowest slot that
\* holds nothing; without one, the slot of an event that is over, and no event
\* that is over ended before it; NoSlot only if every slot is taken and
\* nothing is known to be over.
THEOREM FreeSlotAnswers ==
  ASSUME NEW held \in Held, NEW max \in Nat, NEW now \in Nat
  PROVE  LET s == FreeSlot(held, max, now)
             empty == 0..(max - 1) \ Indices(held)
         IN  \/ s \in empty /\ \A t \in empty : s <= t
             \/ /\ empty = {}
                /\ \E i \in DOMAIN held :
                     /\ held[i].index = s /\ Expired(held[i], now)
                     /\ \A j \in DOMAIN held :
                          Expired(held[j], now) => held[i].end <= held[j].end
             \/ /\ empty = {} /\ s = NoSlot
                /\ \A i \in DOMAIN held : ~Expired(held[i], now)
<1> DEFINE empty == 0..(max - 1) \ Indices(held)
           over  == {i \in DOMAIN held : Expired(held[i], now)}
           i == CHOOSE k \in over : \A j \in over : EndsFirst(held, k, j)
           s == FreeSlot(held, max, now)
<1>1. CASE empty # {}
  <2>1. empty \in SUBSET Nat
    OBVIOUS
  <2>2. \E r \in empty : \A t \in empty : r <= t
    <3> HIDE DEF empty
    <3> QED BY <1>1, <2>1, Least
  <2>3. s = CHOOSE r \in empty : \A t \in empty : r <= t
    BY <1>1 DEF FreeSlot
  <2>4. s \in empty /\ \A t \in empty : s <= t
    <3> HIDE DEF empty, s
    <3> QED BY <2>2, <2>3
  <2> QED BY <2>4
<1>2. CASE empty = {} /\ over # {}
  <2>1. over \in SUBSET DOMAIN held
    OBVIOUS
  <2>2. i \in over /\ \A j \in over : EndsFirst(held, i, j)
    <3> HIDE DEF over
    <3> QED BY <1>2, <2>1, LongestOver
  <2>3. s = held[i].index
    BY <1>2 DEF FreeSlot
  <2>4. \A j \in over : held[i].end <= held[j].end
    <3>1. \A j \in over : held[j].end \in Nat
      BY HeldTypes
    <3> HIDE DEF over, i
    <3> QED BY <2>2, <3>1 DEF EndsFirst
  <2>5. i \in DOMAIN held /\ Expired(held[i], now)
    <3> HIDE DEF i
    <3> QED BY <2>2
  <2>6. \E k \in DOMAIN held :
          /\ held[k].index = FreeSlot(held, max, now) /\ Expired(held[k], now)
          /\ \A j \in DOMAIN held :
               Expired(held[j], now) => held[k].end <= held[j].end
    <3> HIDE DEF i
    <3> QED BY <2>3, <2>4, <2>5
  <2> QED BY <1>2, <2>6
<1>3. CASE empty = {} /\ over = {}
  BY <1>3 DEF FreeSlot
<1> QED BY <1>1, <1>2, <1>3

\* A live event is never written over: where a slot holds one event, the slot
\* chosen holds none, or one that ended strictly before now; and without a
\* clock nothing that is held is ever given up (issue #262).
THEOREM LiveEventSpared ==
  ASSUME NEW held \in Held, NEW max \in Nat, NEW now \in Nat,
         \A i, j \in DOMAIN held : held[i].index = held[j].index => i = j,
         NEW k \in DOMAIN held, held[k].index = FreeSlot(held, max, now)
  PROVE  now # NoClock /\ held[k].end < now
<1> DEFINE s == FreeSlot(held, max, now)
<1>1. held[k].index \in Indices(held) /\ held[k].index # NoSlot
  BY HeldTypes DEF Indices, NoSlot
<1>2. PICK i \in DOMAIN held : held[i].index = s /\ Expired(held[i], now)
  BY <1>1, FreeSlotAnswers
<1>3. i = k
  BY <1>2
<1> QED BY <1>2, <1>3 DEF Expired
-----------------------------------------------------------------------------
(* What find_vacation_slots() answers. *)

\* How many of a finite set of numbers lie below one of its own tells its
\* place, and every place is taken.
LEMMA NthIs ==
  ASSUME NEW I \in SUBSET Nat, IsFiniteSet(I), NEW k \in 1..Cardinality(I)
  PROVE  Nth(I, k) \in I /\ Cardinality({j \in I : j < Nth(I, k)}) = k - 1
<1> DEFINE n == Cardinality(I)
           Below(i) == {j \in I : j < i}
           f == [i \in I |-> Cardinality(Below(i))]
<1>0. n \in Nat
  BY FS_CardinalityType
<1>1. \A i \in I : IsFiniteSet(Below(i)) /\ Cardinality(Below(i)) \in Nat
  BY FS_Subset, FS_CardinalityType
<1>2. ASSUME NEW i \in I PROVE f[i] \in 0..(n - 1)
  <2>1. Below(i) \in SUBSET I /\ i \notin Below(i)
    OBVIOUS
  <2>2. Cardinality(Below(i)) <= n /\ Cardinality(Below(i)) # n
    <3> HIDE DEF Below
    <3> QED BY <2>1, FS_Subset
  <2> QED BY <1>0, <1>1, <2>2
<1>3. ASSUME NEW i \in I, NEW l \in I, i < l PROVE f[i] < f[l]
  <2>1. Below(i) \in SUBSET Below(l) /\ i \in Below(l) /\ i \notin Below(i)
    <3>1. i \in Nat /\ l \in Nat /\ \A j \in I : j \in Nat
      OBVIOUS
    <3>2. \A j \in I : j < i => j < l
      BY <1>3, <3>1
    <3>3. Below(i) \subseteq Below(l)
      BY <3>2
    <3>4. i \in Below(l)
      BY <1>3
    <3>5. i \notin Below(i)
      BY <3>1
    <3> QED BY <3>3, <3>4, <3>5
  <2>2. Cardinality(Below(i)) <= Cardinality(Below(l)) /\ Cardinality(Below(i)) # Cardinality(Below(l))
    <3>1. IsFiniteSet(Below(l))
      BY <1>1
    <3> HIDE DEF Below
    <3> QED BY <2>1, <3>1, FS_Subset
  <2> QED BY <1>1, <2>2
<1>4. f \in Injection(I, 0..(n - 1))
  <2>1. f \in [I -> 0..(n - 1)]
    BY <1>2
  <2>2. ASSUME NEW a \in I, NEW b \in I, f[a] = f[b] PROVE a = b
    <3>1. a \in Nat /\ b \in Nat /\ f[a] \in Nat
      BY <1>1
    <3>2. ~(a < b) /\ ~(b < a)
      <4> HIDE DEF f
      <4> QED BY <1>3, <2>2, <3>1
    <3> QED BY <3>1, <3>2
  <2>3. \A a, b \in DOMAIN f : f[a] = f[b] => a = b
    BY <2>1, <2>2
  <2> HIDE DEF f
  <2> QED BY <2>1, <2>3 DEF Injection, IsInjective
<1>5. IsFiniteSet(0..(n - 1)) /\ Cardinality(0..(n - 1)) = n
  <2>1. n - 1 \in Int /\ 0 \in Int
    BY <1>0
  <2>2. IsFiniteSet(0..(n - 1)) /\ Cardinality(0..(n - 1)) = IF 0 > n - 1 THEN 0 ELSE n - 1 - 0 + 1
    BY <2>1, FS_Interval
  <2> QED BY <1>0, <2>2
<1>6. f \in Surjection(I, 0..(n - 1))
  <2> HIDE DEF f
  <2> QED BY <1>4, <1>5, FS_Injection
<1>7. k - 1 \in 0..(n - 1)
  BY <1>0
<1>8. \E i \in I : f[i] = k - 1
  <2> HIDE DEF f
  <2> QED BY <1>6, <1>7 DEF Surjection
<1>9. \E i \in I : Cardinality({j \in I : j < i}) = k - 1
  BY <1>8
<1> QED BY <1>9 DEF Nth

\* Every one of the set has its place.
LEMMA NthOf ==
  ASSUME NEW I \in SUBSET Nat, IsFiniteSet(I), NEW i \in I
  PROVE  \E k \in 1..Cardinality(I) : Nth(I, k) = i
<1> DEFINE n == Cardinality(I)
           g == [k \in 1..n |-> Nth(I, k)]
<1>0. n \in Nat
  BY FS_CardinalityType
<1>1. \A k \in 1..n : Nth(I, k) \in I /\ Cardinality({j \in I : j < Nth(I, k)}) = k - 1
  BY NthIs
<1>2. g \in Injection(1..n, I)
  <2>1. g \in [1..n -> I]
    BY <1>1
  <2>2. ASSUME NEW a \in 1..n, NEW b \in 1..n, Nth(I, a) = Nth(I, b) PROVE a = b
    <3>1. a - 1 = b - 1
      BY <1>1, <2>2
    <3> QED BY <1>0, <3>1
  <2>3. \A a, b \in DOMAIN g : g[a] = g[b] => a = b
    BY <2>1, <2>2
  <2> HIDE DEF g
  <2> QED BY <2>1, <2>3 DEF Injection, IsInjective
<1>3. Cardinality(1..n) = n
  <2>1. 1 \in Int /\ n \in Int
    BY <1>0
  <2>2. Cardinality(1..n) = IF 1 > n THEN 0 ELSE n - 1 + 1
    BY <2>1, FS_Interval
  <2> QED BY <1>0, <2>2
<1>4. g \in Surjection(1..n, I)
  <2> HIDE DEF g
  <2> QED BY <1>2, <1>3, FS_Injection
<1>5. PICK k \in 1..n : g[k] = i
  <2> HIDE DEF g
  <2> QED BY <1>4 DEF Surjection
<1> QED BY <1>5

\* What is kept of a sequence is what it holds at the indices asked for.
LEMMA KeptIs ==
  ASSUME NEW S, NEW s \in Seq(S), NEW I \in SUBSET DOMAIN s
  PROVE  /\ IsFiniteSet(I) /\ Cardinality(I) \in Nat /\ I \in SUBSET Nat
         /\ Kept(s, I) \in Seq(S) /\ Len(Kept(s, I)) = Cardinality(I)
         /\ \A k \in DOMAIN Kept(s, I) : \E i \in I : Kept(s, I)[k] = s[i]
         /\ \A i \in I : \E k \in DOMAIN Kept(s, I) : Kept(s, I)[k] = s[i]
<1>1. DOMAIN s = 1..Len(s) /\ Len(s) \in Nat
  OBVIOUS
<1>2. I \in SUBSET Nat /\ IsFiniteSet(I)
  <2>1. IsFiniteSet(1..Len(s))
    BY <1>1, FS_Interval
  <2> QED BY <1>1, <2>1, FS_Subset
<1>3. Cardinality(I) \in Nat
  BY <1>2, FS_CardinalityType
<1> DEFINE n == Cardinality(I)
<1>4. \A k \in 1..n : Nth(I, k) \in I
  BY <1>2, NthIs
<1>5. \A i \in I : \E k \in 1..n : Nth(I, k) = i
  BY <1>2, NthOf
<1>6. Kept(s, I) = [k \in 1..n |-> s[Nth(I, k)]]
  BY DEF Kept
<1> DEFINE t == Kept(s, I)
<1> HIDE DEF t, n
<1>7. \A k \in 1..n : s[Nth(I, k)] \in S
  BY <1>1, <1>4
<1>8. t \in [1..n -> S] /\ n \in Nat
  BY <1>3, <1>6, <1>7 DEF t, n
<1>9. t \in Seq(S) /\ Len(t) = n /\ DOMAIN t = 1..n
  BY <1>8
<1>10. \A k \in 1..n : t[k] = s[Nth(I, k)]
  BY <1>6 DEF t
<1> QED BY <1>2, <1>3, <1>4, <1>5, <1>9, <1>10 DEF t, n

\* A finite set of numbers has a greatest one: the one with all others below.
LEMMA Greatest ==
  ASSUME NEW E \in SUBSET Nat, IsFiniteSet(E), E # {}
  PROVE  \E g \in E : \A e \in E : e <= g
<1> DEFINE n == Cardinality(E)
           g == Nth(E, n)
           Below == {j \in E : j < g}
<1>1. n \in Nat /\ n # 0
  BY FS_CardinalityType, FS_EmptySet
<1>2. g \in E /\ Cardinality(Below) = n - 1
  <2>1. n \in 1..n
    BY <1>1
  <2> QED BY <2>1, NthIs
<1>3. IsFiniteSet(E \ {g}) /\ Cardinality(E \ {g}) = n - 1
  <2> HIDE DEF g
  <2> QED BY <1>2, FS_RemoveElement
<1>4. g \in Nat /\ Below \in SUBSET (E \ {g})
  <2> HIDE DEF g
  <2> QED BY <1>2
<1>5. Below = E \ {g}
  <2> HIDE DEF Below, g
  <2> QED BY <1>2, <1>3, <1>4, FS_Subset
<1>6. \A e \in E : e = g \/ e < g
  <2> HIDE DEF g
  <2> QED BY <1>5
<1> HIDE DEF g
<1> QED BY <1>2, <1>4, <1>6

\* One vacation is meant if there is one at all.
LEMMA VacationPicked ==
  ASSUME NEW held \in Held, NEW stops \in SUBSET DOMAIN held, stops # {}, NEW now \in Nat
  PROVE  PickVacation(held, stops, now) \in stops
<1>1. \A i \in stops : i \in Nat /\ held[i].begin \in Nat /\ held[i].end \in Nat
  <2>1. \A i \in DOMAIN held : i \in Nat /\ held[i] \in Event
    BY DEF Held
  <2> QED BY <2>1 DEF Event
<1>2. \E i \in stops : \A j \in stops : i <= j
  <2>1. stops \in SUBSET Nat
    BY <1>1
  <2> QED BY <2>1, Least
<1> DEFINE upcoming == {i \in stops : held[i].begin > now}
<1>3. ASSUME upcoming # {}
      PROVE  \E i \in upcoming : \A j \in upcoming : BeginsFirst(held, i, j)
  <2> DEFINE B == {held[i].begin : i \in upcoming}
  <2>1. B \in SUBSET Nat /\ B # {}
    BY <1>1, <1>3
  <2>2. PICK b \in B : \A c \in B : b <= c
    <3> HIDE DEF B
    <3> QED BY <2>1, Least
  <2> DEFINE F == {i \in upcoming : held[i].begin = b}
  <2>3. F \in SUBSET Nat /\ F # {}
    BY <1>1, <2>2
  <2>4. PICK i \in F : \A j \in F : i <= j
    <3> HIDE DEF F
    <3> QED BY <2>3, Least
  <2>5. ASSUME NEW j \in upcoming PROVE BeginsFirst(held, i, j)
    <3>1. held[i].begin = b /\ b <= held[j].begin /\ b \in Nat /\ held[j].begin \in Nat
      BY <1>1, <2>2, <2>4
    <3>2. CASE held[j].begin = b
      BY <3>1, <3>2, <2>4 DEF BeginsFirst
    <3>3. CASE held[j].begin # b
      BY <3>1, <3>3 DEF BeginsFirst
    <3> QED BY <3>2, <3>3
  <2> QED BY <2>4, <2>5
<1>4. \E i \in stops : \A j \in stops : EndsLast(held, i, j)
  <2> DEFINE E == {held[i].end : i \in stops}
  <2>1. E \in SUBSET Nat /\ E # {} /\ IsFiniteSet(E)
    <3>1. DOMAIN held = 1..Len(held) /\ Len(held) \in Nat
      BY DEF Held
    <3>2. IsFiniteSet(stops)
      <4>1. IsFiniteSet(1..Len(held))
        BY <3>1, FS_Interval
      <4> QED BY <3>1, <4>1, FS_Subset
    <3> DEFINE g == [i \in stops |-> held[i].end]
    <3>3. g \in Surjection(stops, E)
      BY DEF Surjection
    <3>4. IsFiniteSet(E)
      <4> HIDE DEF g, E
      <4> QED BY <3>2, <3>3, FS_Surjection
    <3> QED BY <1>1, <3>4
  <2>2. PICK e \in E : \A d \in E : d <= e
    <3> HIDE DEF E
    <3> QED BY <2>1, Greatest
  <2> DEFINE F == {i \in stops : held[i].end = e}
  <2>3. F \in SUBSET Nat /\ F # {}
    BY <1>1, <2>2
  <2>4. PICK i \in F : \A j \in F : i <= j
    <3> HIDE DEF F
    <3> QED BY <2>3, Least
  <2>5. ASSUME NEW j \in stops PROVE EndsLast(held, i, j)
    <3>1. held[i].end = e /\ held[j].end <= e /\ e \in Nat /\ held[j].end \in Nat
      BY <1>1, <2>2, <2>4
    <3>2. CASE held[j].end = e
      BY <3>1, <3>2, <2>4 DEF EndsLast
    <3>3. CASE held[j].end # e
      BY <3>1, <3>3 DEF EndsLast
    <3> QED BY <3>2, <3>3
  <2> QED BY <2>4, <2>5
<1> QED BY <1>2, <1>3, <1>4 DEF PickVacation

\* What find_vacation_slots() answers: the slots of all the vacations that cover
\* now and no others (issue #290); if none does, or the clock was never set,
\* one vacation's (issue #267), or nothing where nothing is a vacation.
THEOREM VacationsMeant ==
  ASSUME NEW held \in Held, NEW now \in Nat
  PROVE  LET v == VacationSlots(held, now)
             stops == {i \in DOMAIN held : IsVacation(held[i])}
             live == {i \in stops : now # NoClock /\ Covers(held[i], now)}
         IN  /\ v \in Seq(Indices(held))
             /\ live # {} => {v[k] : k \in DOMAIN v} = {held[i].index : i \in live}
             /\ live = {} /\ stops # {} =>
                  Len(v) = 1 /\ \E i \in stops : v[1] = held[i].index
             /\ stops = {} => v = <<>>
<1> DEFINE v == VacationSlots(held, now)
           stops == {i \in DOMAIN held : IsVacation(held[i])}
           live == {i \in stops : now # NoClock /\ Covers(held[i], now)}
           slots == [i \in DOMAIN held |-> held[i].index]
           meant == IF live # {} THEN live
                    ELSE IF stops = {} THEN {} ELSE {PickVacation(held, stops, now)}
<1>1. v = Kept(slots, meant)
  BY DEF VacationSlots
<1>2. slots \in Seq(Indices(held)) /\ DOMAIN slots = DOMAIN held
  <2>1. \A i \in DOMAIN held : held[i].index \in Indices(held)
    BY DEF Indices
  <2>2. DOMAIN held = 1..Len(held) /\ Len(held) \in Nat
    BY DEF Held
  <2> QED BY <2>1, <2>2
<1>3. stops \in SUBSET DOMAIN held /\ live \in SUBSET stops
  OBVIOUS
<1>4. stops # {} => PickVacation(held, stops, now) \in stops
  <2> HIDE DEF stops
  <2> QED BY <1>3, VacationPicked
<1> HIDE DEF v, stops, live
<1>5. meant \in SUBSET DOMAIN held
  BY <1>3, <1>4
<1>5s. \A i \in DOMAIN held : slots[i] = held[i].index
  OBVIOUS
<1> HIDE DEF meant, slots
<1>6. /\ v \in Seq(Indices(held)) /\ Len(v) = Cardinality(meant)
      /\ \A k \in DOMAIN v : \E i \in meant : v[k] = slots[i]
      /\ \A i \in meant : \E k \in DOMAIN v : v[k] = slots[i]
  BY <1>1, <1>2, <1>5, KeptIs
<1>7. ASSUME live # {} PROVE {v[k] : k \in DOMAIN v} = {held[i].index : i \in live}
  <2>1. meant = live
    BY <1>7 DEF meant
  <2>2. \A i \in live : i \in DOMAIN held /\ slots[i] = held[i].index
    BY <1>3, <1>5s
  <2>3. \A k \in DOMAIN v : \E i \in live : v[k] = held[i].index
    BY <1>6, <2>1, <2>2
  <2>4. \A i \in live : \E k \in DOMAIN v : v[k] = held[i].index
    BY <1>6, <2>1, <2>2
  <2> QED BY <2>3, <2>4
<1>8. ASSUME live = {}, stops # {}
      PROVE  Len(v) = 1 /\ \E i \in stops : v[1] = held[i].index
  <2>1. PICK i \in stops : meant = {i}
    BY <1>4, <1>8 DEF meant
  <2>2. Len(v) = 1
    BY <1>6, <2>1, FS_Singleton
  <2>3. 1 \in DOMAIN v
    BY <1>6, <2>2
  <2>4. v[1] = slots[i]
    BY <1>6, <2>1, <2>3
  <2> QED BY <1>3, <1>5s, <2>1, <2>2, <2>4
<1>9. ASSUME stops = {} PROVE v = <<>>
  <2>1. meant = {}
    BY <1>3, <1>9 DEF meant
  <2>2. Len(v) = 0
    BY <1>6, <2>1, FS_EmptySet
  <2> QED BY <1>6, <2>2
<1> QED BY <1>6, <1>7, <1>8, <1>9 DEF v, stops, live
=============================================================================
