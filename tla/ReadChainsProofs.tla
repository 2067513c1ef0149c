-------------------------- MODULE ReadChainsProofs --------------------------
(***************************************************************************)
(* Theorems about the reads of a connection, for every number of strings,   *)
(* channels and entries and any number of drops.                            *)
(***************************************************************************)
EXTENDS ReadChains, TLAPS

\* The constants are numbers.
LEMMA Bounds ==
  /\ MaxGen \in Nat /\ Strings \in Nat \ {0} /\ NUM_TRENDS \in Nat \ {0}
  /\ EVENT_LOG_MAX_CHAIN_ENTRIES \in Nat /\ MAX_ABANDON_STEPS \in Nat
  /\ Reported \subseteq Nat
  BY ChainAssumption

\* What the log and the device information may become.
LEMMA LogTypes ==
  ASSUME NEW S, NEW l \in [reading : BOOLEAN, cached : S], NEW g \in S
  PROVE  /\ [l EXCEPT !.reading = FALSE] \in [reading : BOOLEAN, cached : S]
         /\ [l EXCEPT !.reading = TRUE] \in [reading : BOOLEAN, cached : S]
         /\ [reading |-> FALSE, cached |-> g] \in [reading : BOOLEAN, cached : S]
         /\ l.cached \in S
  OBVIOUS

LEMMA InfoTypes ==
  ASSUME NEW i \in [pending : Int, failed : Nat, armed : BOOLEAN, ok : BOOLEAN]
  PROVE  /\ [i EXCEPT !.pending = Strings, !.failed = 0, !.armed = TRUE]
              \in [pending : Int, failed : Nat, armed : BOOLEAN, ok : BOOLEAN]
         /\ [i EXCEPT !.ok = FALSE]
              \in [pending : Int, failed : Nat, armed : BOOLEAN, ok : BOOLEAN]
<1>1. Strings \in Int /\ 0 \in Nat
  BY Bounds
<1>2. [i EXCEPT !.ok = FALSE] \in [pending : Int, failed : Nat, armed : BOOLEAN, ok : BOOLEAN]
  OBVIOUS
<1>3. [i EXCEPT !.pending = Strings, !.failed = 0, !.armed = TRUE]
        \in [pending : Int, failed : Nat, armed : BOOLEAN, ok : BOOLEAN]
  BY <1>1
<1> QED BY <1>2, <1>3

\* The clamped count of a chain is a number.
LEMMA ClampType == \A m \in Reported : Clamp(m) \in Nat
  BY Bounds DEF Clamp

\* What a callback appends is a command again.
LEMMA CommandTypes ==
  /\ \A c \in Commands : [c EXCEPT !.n = @ + 1] \in Commands /\ [c EXCEPT !.kind = "dst"] \in Commands
  /\ \A k \in Kinds, i, j \in Nat, g \in 0..MaxGen : Cmd(k, i, j, g) \in Commands
  /\ \A k \in Kinds : Plain(k) \in Commands
  BY Bounds DEF Commands, Cmd, Plain, Kinds

-----------------------------------------------------------------------------
(* Types. *)

\* What a callback may change keeps its type, whatever its command reads.
ChainTypes ==
  /\ queue \in Seq(Commands) /\ timers \subseteq [leg : Legs, gen : 0..MaxGen]
  /\ info \in [pending : Int, failed : Nat, armed : BOOLEAN, ok : BOOLEAN]
  /\ statsOk \in BOOLEAN
  /\ clock \in [started : BOOLEAN, drift : Figures, dst : Figures]
  /\ log \in [reading : BOOLEAN, cached : Nothing..MaxGen] /\ trends \in Nothing..MaxGen
  /\ read \subseteq Nat

\* Every callback keeps them.
LEMMA EndsType ==
  ASSUME ChainTypes, queue # <<>>, NEW ok \in BOOLEAN, Ends(Head(queue), ok)
  PROVE  ChainTypes'
<1> DEFINE c == Head(queue)
<1>1. c \in Commands /\ Rest \in Seq(Commands)
  BY DEF ChainTypes, Rest
<1>2. c.kind \in Kinds /\ c.n \in Nat /\ c.count \in Nat /\ c.gen \in 0..MaxGen
  BY <1>1 DEF Commands
<1>g. c.gen \in Nothing..MaxGen
  BY <1>2, Bounds DEF Nothing
<1>l. log \in [reading : BOOLEAN, cached : Nothing..MaxGen]
  BY DEF ChainTypes
<1>3. /\ [c EXCEPT !.n = @ + 1] \in Commands /\ [c EXCEPT !.kind = "dst"] \in Commands
      /\ \A m \in Reported : Cmd("entry", 1, Clamp(m), c.gen) \in Commands
      /\ Plain("stamps") \in Commands
  BY <1>1, <1>2, CommandTypes, ClampType DEF Kinds
<1>4. \A leg \in Legs : Follow(leg, c.gen) \subseteq [leg : Legs, gen : 0..MaxGen]
  BY <1>2 DEF Follow
<1> HIDE DEF c
<1>5. CASE StringEnd(c, ok)
  <2>1. queue' = Rest /\ UNCHANGED <<timers, statsOk, clock, log, trends>>
    BY <1>5 DEF StringEnd
  <2>2. read' \subseteq Nat
    BY <1>2, <1>5 DEF StringEnd, ChainTypes
  <2>3. info' \in [pending : Int, failed : Nat, armed : BOOLEAN, ok : BOOLEAN]
    <3>1. PICK i \in {[info EXCEPT !.pending = @ - 1, !.failed = IF ok THEN @ ELSE @ + 1]} :
            info' = IF i.pending = 0 /\ i.armed
                      THEN [i EXCEPT !.armed = FALSE, !.ok = i.ok \/ AllOk(i)] ELSE i
      BY <1>5 DEF StringEnd
    <3>2. info.pending - 1 \in Int /\ (IF ok THEN info.failed ELSE info.failed + 1) \in Nat
      BY DEF ChainTypes
    <3>3. i = [info EXCEPT !.pending = @ - 1, !.failed = IF ok THEN @ ELSE @ + 1]
      BY <3>1
    <3>4. i \in [pending : Int, failed : Nat, armed : BOOLEAN, ok : BOOLEAN]
      BY <3>2, <3>3 DEF ChainTypes
    <3>5. AllOk(i) \in BOOLEAN
      BY DEF AllOk
    <3> QED BY <3>1, <3>4, <3>5
  <2> QED BY <1>1, <2>1, <2>2, <2>3 DEF ChainTypes
<1>6. CASE StatsEnd(c, ok)
  BY <1>1, <1>6 DEF StatsEnd, ChainTypes
<1>7. CASE ClockEnd(c, ok)
  <2>1. queue' \in Seq(Commands)
    BY <1>1, <1>3, <1>7 DEF ClockEnd
  <2>2. clock' \in [started : BOOLEAN, drift : Figures, dst : Figures]
    BY <1>7 DEF ClockEnd, ChainTypes, Figures
  <2> QED BY <1>7, <2>1, <2>2 DEF ClockEnd, ChainTypes
<1>8. CASE DstEnd(c, ok)
  <2>1. clock' \in [started : BOOLEAN, drift : Figures, dst : Figures]
    BY <1>8 DEF DstEnd, ChainTypes, Figures
  <2> QED BY <1>1, <1>8, <2>1 DEF DstEnd, ChainTypes
<1>9. CASE MetaEnd(c, ok)
  <2>1. \/ queue' = Rest
        \/ \E m \in Reported : queue' = Append(Rest, Cmd("entry", 1, Clamp(m), c.gen))
    BY <1>9 DEF MetaEnd
  <2>q. queue' \in Seq(Commands)
    BY <1>1, <1>3, <2>1
  <2>2. timers' \subseteq [leg : Legs, gen : 0..MaxGen]
    BY <1>4, <1>9 DEF MetaEnd, ChainTypes, Legs
  <2>3. log' \in [reading : BOOLEAN, cached : Nothing..MaxGen]
    <3>1. \/ log' = [log EXCEPT !.reading = FALSE] \/ log' = log
          \/ log' = [reading |-> FALSE, cached |-> c.gen]
      BY <1>9 DEF MetaEnd
    <3>2. /\ [log EXCEPT !.reading = FALSE] \in [reading : BOOLEAN, cached : Nothing..MaxGen]
          /\ [reading |-> FALSE, cached |-> c.gen] \in [reading : BOOLEAN, cached : Nothing..MaxGen]
          /\ [reading |-> FALSE, cached |-> log.cached] \in [reading : BOOLEAN, cached : Nothing..MaxGen]
      BY <1>g, <1>l, LogTypes, Zenon
    <3> QED BY <1>l, <3>1, <3>2, Zenon
  <2> QED BY <1>9, <2>q, <2>2, <2>3 DEF MetaEnd, ChainTypes
<1>10. CASE EntryEnd(c, ok)
  <2>1. \/ queue' = Rest
        \/ queue' = Append(Rest, [c EXCEPT !.n = @ + 1])
    BY <1>10 DEF EntryEnd, NextRead
  <2>q. queue' \in Seq(Commands)
    BY <1>1, <1>3, <2>1
  <2>2. timers' \subseteq [leg : Legs, gen : 0..MaxGen]
    BY <1>4, <1>10 DEF EntryEnd, ChainTypes, Legs
  <2>3. log' \in [reading : BOOLEAN, cached : Nothing..MaxGen]
    <3>1. \/ log' = log \/ log' = [reading |-> FALSE, cached |-> log.cached]
          \/ log' = [reading |-> FALSE, cached |-> c.gen]
      BY <1>10 DEF EntryEnd
    <3>2. /\ [log EXCEPT !.reading = FALSE] \in [reading : BOOLEAN, cached : Nothing..MaxGen]
          /\ [reading |-> FALSE, cached |-> c.gen] \in [reading : BOOLEAN, cached : Nothing..MaxGen]
          /\ [reading |-> FALSE, cached |-> log.cached] \in [reading : BOOLEAN, cached : Nothing..MaxGen]
      BY <1>g, <1>l, LogTypes, Zenon
    <3> QED BY <1>l, <3>1, <3>2, Zenon
  <2> QED BY <1>10, <2>q, <2>2, <2>3 DEF EntryEnd, ChainTypes
<1>11. CASE TrendEnd(c, ok)
  <2>1. \/ queue' = Rest
        \/ queue' = Append(Rest, [c EXCEPT !.n = @ + 1])
        \/ queue' = Append(Rest, Plain("stamps"))
    BY <1>11 DEF TrendEnd, NextRead
  <2>q. queue' \in Seq(Commands)
    BY <1>1, <1>3, <2>1
  <2>2. timers' \subseteq [leg : Legs, gen : 0..MaxGen]
    BY <1>4, <1>11 DEF TrendEnd, ChainTypes, Legs
  <2>3. trends' \in Nothing..MaxGen
    BY <1>g, <1>11 DEF TrendEnd, ChainTypes
  <2> QED BY <1>11, <2>q, <2>2, <2>3 DEF TrendEnd, ChainTypes
<1>12. CASE OtherEnd(c, ok)
  BY <1>1, <1>12 DEF OtherEnd, ChainTypes, chains
<1> QED BY <1>5, <1>6, <1>7, <1>8, <1>9, <1>10, <1>11, <1>12 DEF Ends, c

\* What no callback changes.
RestTypes ==
  /\ link \in BOOLEAN /\ done \in BOOLEAN
  /\ steps \in Idle..MAX_ABANDON_STEPS /\ gen \in 0..MaxGen
  /\ began \in [Legs -> Nat]

\* The type of the state is both, before and after a step.
LEMMA TypeParts == (TypeOK <=> ChainTypes /\ RestTypes) /\ (TypeOK' <=> ChainTypes' /\ RestTypes')
  BY DEF TypeOK, ChainTypes, RestTypes

\* The commands and timers a leg adds.
LEMMA LegType ==
  ASSUME TypeOK, NEW t \in timers,
         \/ InfoLeg(t) \/ StatsLeg(t) \/ ClockLeg(t)
         \/ LogLeg(t) \/ HistoryLeg(t) \/ EventsLeg(t)
  PROVE  TypeOK'
<1>1. /\ \A k \in Kinds : Cmd(k, 0, 0, gen) \in Commands /\ Plain(k) \in Commands
      /\ Cmd("trend", 1, NUM_TRENDS, gen) \in Commands
      /\ [s \in 1..Strings |-> Cmd("string", s, Strings, 0)] \in Seq(Commands)
  <2>1. gen \in 0..MaxGen /\ 0 \in 0..MaxGen
    BY Bounds DEF TypeOK
  <2>2. \A k \in Kinds : Cmd(k, 0, 0, gen) \in Commands /\ Plain(k) \in Commands
    BY <2>1, CommandTypes
  <2>3. Cmd("trend", 1, NUM_TRENDS, gen) \in Commands
    BY <2>1, CommandTypes, Bounds DEF Kinds
  <2>4. \A s \in 1..Strings : Cmd("string", s, Strings, 0) \in Commands
    BY <2>1, CommandTypes, Bounds DEF Kinds
  <2> QED BY <2>2, <2>3, <2>4, Bounds
<1>2. \A leg \in Legs : Follow(leg, gen) \subseteq [leg : Legs, gen : 0..MaxGen]
  BY DEF Follow, TypeOK
<1>3. ASSUME NEW leg, Due(t, leg) PROVE RestTypes'
  BY <1>3 DEF Due, TypeOK, RestTypes
<1>4. timers \ {t} \subseteq [leg : Legs, gen : 0..MaxGen]
  BY DEF TypeOK
<1>5. CASE InfoLeg(t)
  <2>1. queue' \in Seq(Commands)
    BY <1>1, <1>5 DEF InfoLeg, TypeOK
  <2>2. timers' \subseteq [leg : Legs, gen : 0..MaxGen]
    <3>1. [leg |-> "stats", gen |-> gen] \in [leg : Legs, gen : 0..MaxGen]
      BY DEF TypeOK, Legs
    <3> QED BY <1>4, <1>5, <3>1 DEF InfoLeg
  <2>3. info' \in [pending : Int, failed : Nat, armed : BOOLEAN, ok : BOOLEAN]
    <3>1. info' = [info EXCEPT !.pending = Strings, !.failed = 0, !.armed = TRUE]
      BY <1>5 DEF InfoLeg
    <3>2. info \in [pending : Int, failed : Nat, armed : BOOLEAN, ok : BOOLEAN]
      BY DEF TypeOK
    <3> QED BY <3>1, <3>2, InfoTypes, Zenon
  <2>4. RestTypes'
    BY <1>3, <1>5 DEF InfoLeg
  <2>5. ChainTypes'
    BY <1>5, <2>1, <2>2, <2>3 DEF InfoLeg, TypeOK, ChainTypes
  <2> QED BY <2>4, <2>5, TypeParts
<1>6. CASE StatsLeg(t)
  <2>1. RestTypes'
    BY <1>3, <1>6 DEF StatsLeg
  <2>2. ChainTypes'
    BY <1>1, <1>4, <1>6 DEF StatsLeg, TypeOK, ChainTypes, chains, Kinds
  <2> QED BY <2>1, <2>2, TypeParts
<1>7. CASE ClockLeg(t)
  <2>1. RestTypes'
    BY <1>3, <1>7 DEF ClockLeg
  <2>2. queue' \in Seq(Commands)
    BY <1>1, <1>7 DEF ClockLeg, TypeOK, Kinds
  <2>3. clock' \in [started : BOOLEAN, drift : Figures, dst : Figures]
    BY <1>7 DEF ClockLeg, TypeOK, Figures
  <2>4. ChainTypes'
    BY <1>4, <1>7, <2>2, <2>3 DEF ClockLeg, TypeOK, ChainTypes
  <2> QED BY <2>1, <2>4, TypeParts
<1>8. CASE LogLeg(t)
  <2>1. RestTypes'
    BY <1>3, <1>8 DEF LogLeg
  <2>2. queue' \in Seq(Commands)
    <3>1. queue' = queue \/ queue' = Append(queue, Cmd("meta", 0, 0, gen))
      BY <1>8 DEF LogLeg
    <3>2. Cmd("meta", 0, 0, gen) \in Commands
      BY <1>1 DEF Kinds
    <3>3. queue \in Seq(Commands)
      BY DEF TypeOK
    <3> QED BY <3>1, <3>2, <3>3
  <2>3. timers' \subseteq [leg : Legs, gen : 0..MaxGen]
    BY <1>2, <1>4, <1>8 DEF LogLeg, Legs
  <2>4. log' \in [reading : BOOLEAN, cached : Nothing..MaxGen]
    BY <1>8 DEF LogLeg, TypeOK
  <2>5. ChainTypes'
    BY <1>8, <2>2, <2>3, <2>4 DEF LogLeg, TypeOK, ChainTypes
  <2> QED BY <2>1, <2>5, TypeParts
<1>9. CASE HistoryLeg(t)
  <2>1. RestTypes'
    BY <1>3, <1>9 DEF HistoryLeg
  <2>2. ChainTypes'
    BY <1>1, <1>4, <1>9 DEF HistoryLeg, TypeOK, ChainTypes, chains
  <2> QED BY <2>1, <2>2, TypeParts
<1>10. CASE EventsLeg(t)
  <2>1. RestTypes'
    BY <1>3, <1>10 DEF EventsLeg
  <2>2. ChainTypes'
    BY <1>1, <1>4, <1>10 DEF EventsLeg, TypeOK, ChainTypes, chains, Kinds
  <2> QED BY <2>1, <2>2, TypeParts
<1> QED BY <1>5, <1>6, <1>7, <1>8, <1>9, <1>10
-----------------------------------------------------------------------------
\* Every variable keeps its type.
THEOREM TypeCorrect == Spec => []TypeOK
<1>1. Init => TypeOK
  <2>1. SUFFICES ASSUME Init PROVE TypeOK
    OBVIOUS
  <2>2. queue \in Seq(Commands) /\ timers \subseteq [leg : Legs, gen : 0..MaxGen]
    BY <2>1 DEF Init
  <2>3. info \in [pending : Int, failed : Nat, armed : BOOLEAN, ok : BOOLEAN]
    BY <2>1 DEF Init
  <2>4. clock \in [started : BOOLEAN, drift : Figures, dst : Figures]
    BY <2>1 DEF Init, Figures
  <2>5. Nothing \in Nothing..MaxGen /\ 0 \in 0..MaxGen /\ Idle \in Idle..MAX_ABANDON_STEPS
    BY Bounds DEF Nothing, Idle
  <2>6. log \in [reading : BOOLEAN, cached : Nothing..MaxGen] /\ trends \in Nothing..MaxGen
    BY <2>1, <2>5 DEF Init
  <2>7. began \in [Legs -> Nat]
    BY <2>1 DEF Init
  <2> QED BY <2>1, <2>2, <2>3, <2>4, <2>5, <2>6, <2>7 DEF Init, TypeOK
<1>2. TypeOK /\ [Next]_vars => TypeOK'
  <2> SUFFICES ASSUME TypeOK, [Next]_vars PROVE TypeOK'
    OBVIOUS
  <2>1. CASE Trigger
    <3>1. \A l \in {"info", "clock", "log"} : [leg |-> l, gen |-> gen] \in [leg : Legs, gen : 0..MaxGen]
      BY DEF TypeOK, Legs
    <3>2. timers' \subseteq [leg : Legs, gen : 0..MaxGen]
      BY <2>1, <3>1 DEF Trigger, TypeOK
    <3>3. began' \in [Legs -> Nat]
      BY <2>1 DEF Trigger
    <3> QED BY <2>1, <3>2, <3>3 DEF Trigger, TypeOK, chains
  <2>2. CASE Leg
    BY <2>2, LegType DEF Leg
  <2>3. CASE StaleLeg
    BY <2>3 DEF StaleLeg, TypeOK, chains
  <2>4. CASE Rearm
    <3>1. gen' \in 0..MaxGen
      BY <2>4, Bounds DEF Rearm, TypeOK
    <3>2. info' \in [pending : Int, failed : Nat, armed : BOOLEAN, ok : BOOLEAN]
      BY <2>4, InfoTypes DEF Rearm, TypeOK
    <3> QED BY <2>4, <3>1, <3>2 DEF Rearm, TypeOK
  <2>5. CASE Complete
    <3>1. PICK ok \in BOOLEAN : Ends(Head(queue), ok)
      BY <2>5 DEF Complete
    <3>2. ChainTypes'
      BY <2>5, <3>1, EndsType, TypeParts DEF Complete
    <3>3. RestTypes'
      BY <2>5, TypeParts DEF Complete, RestTypes
    <3> QED BY <3>2, <3>3, TypeParts
  <2>6. CASE Ready
    BY <2>6 DEF Ready, TypeOK, chains
  <2>7. CASE Disconnect
    <3>1. gen' \in 0..MaxGen /\ steps' \in Idle..MAX_ABANDON_STEPS
      BY <2>7, Bounds DEF Disconnect, TypeOK, Idle
    <3>2. info' \in [pending : Int, failed : Nat, armed : BOOLEAN, ok : BOOLEAN]
      BY <2>7, InfoTypes DEF Disconnect, TypeOK
    <3>3. log' \in [reading : BOOLEAN, cached : Nothing..MaxGen]
      <4>1. log' = [log EXCEPT !.reading = FALSE]
        BY <2>7 DEF Disconnect
      <4>2. log \in [reading : BOOLEAN, cached : Nothing..MaxGen]
        BY DEF TypeOK
      <4> QED BY <4>1, <4>2
    <3>4. clock' \in [started : BOOLEAN, drift : Figures, dst : Figures]
      <4>1. clock' = [clock EXCEPT !.started = FALSE]
        BY <2>7 DEF Disconnect
      <4> QED BY <4>1 DEF TypeOK
    <3> QED BY <2>7, <3>1, <3>2, <3>3, <3>4 DEF Disconnect, TypeOK
  <2>8. CASE DrainStep
    <3>1. Ends(Head(queue), FALSE) /\ queue # <<>>
      BY <2>8 DEF DrainStep
    <3>2. ChainTypes'
      BY <3>1, EndsType, TypeParts
    <3>3. RestTypes'
      BY <2>8, TypeParts, Bounds DEF DrainStep, RestTypes, Idle
    <3> QED BY <3>2, <3>3, TypeParts
  <2>9. CASE DrainEnd
    <3>1. queue' \in Seq(Commands) /\ steps' \in Idle..MAX_ABANDON_STEPS
      BY <2>9, Bounds DEF DrainEnd, Idle
    <3> QED BY <2>9, <3>1 DEF DrainEnd, TypeOK, chains
  <2>10. CASE UNCHANGED vars
    BY <2>10 DEF vars, TypeOK
  <2> QED BY <2>1, <2>2, <2>3, <2>4, <2>5, <2>6, <2>7, <2>8, <2>9, <2>10 DEF Next
<1> QED BY <1>1, <1>2, PTL DEF Spec
-----------------------------------------------------------------------------
(* Commands of one kind in the queue. *)

\* None of q is in K; at most one of q is.
Without(q, K)   == \A i \in 1..Len(q) : q[i] \notin K
AtMostOne(q, K) == \A i, j \in 1..Len(q) : q[i] \in K /\ q[j] \in K => i = j

\* A command is appended.
LEMMA AppendKind ==
  ASSUME NEW K, NEW q \in Seq(Commands), NEW c \in Commands
  PROVE  /\ Without(Append(q, c), K) <=> Without(q, K) /\ c \notin K
         /\ AtMostOne(q, K) /\ c \notin K => AtMostOne(Append(q, c), K)
         /\ Without(q, K) => AtMostOne(Append(q, c), K)
<1> DEFINE r == Append(q, c)
<1>1. Len(r) = Len(q) + 1 /\ r[Len(q) + 1] = c /\ Len(q) \in Nat
  OBVIOUS
<1>2. \A i \in 1..Len(q) : r[i] = q[i]
  OBVIOUS
<1>3. \A i \in 1..Len(r) : i \in 1..Len(q) \/ i = Len(q) + 1
  BY <1>1
<1>4. \A i \in 1..Len(q) : i \in 1..Len(r)
  BY <1>1
<1>5. Len(q) + 1 \in 1..Len(r)
  BY <1>1
<1> HIDE DEF r
<1>6. Without(r, K) <=> Without(q, K) /\ c \notin K
  BY <1>1, <1>2, <1>3, <1>4, <1>5 DEF Without
<1>7. AtMostOne(q, K) /\ c \notin K => AtMostOne(r, K)
  BY <1>1, <1>2, <1>3 DEF AtMostOne
<1>8. Without(q, K) => AtMostOne(r, K)
  BY <1>1, <1>2, <1>3 DEF Without, AtMostOne
<1> QED BY <1>6, <1>7, <1>8 DEF r

\* The oldest command leaves.
LEMMA TailKind ==
  ASSUME NEW K, NEW q \in Seq(Commands), q # <<>>
  PROVE  /\ Without(q, K) => Without(Tail(q), K) /\ Head(q) \notin K
         /\ Without(Tail(q), K) /\ Head(q) \notin K => Without(q, K)
         /\ AtMostOne(q, K) => AtMostOne(Tail(q), K)
         /\ AtMostOne(q, K) /\ Head(q) \in K => Without(Tail(q), K)
<1> DEFINE r == Tail(q)
<1>1. Len(q) \in Nat /\ Len(q) >= 1 /\ Len(r) = Len(q) - 1 /\ Head(q) = q[1]
  OBVIOUS
<1>2. \A i \in 1..Len(r) : r[i] = q[i + 1] /\ i + 1 \in 1..Len(q) /\ i \in Nat
  BY <1>1
<1>3. \A i \in 1..Len(q) : i = 1 \/ (i - 1 \in 1..Len(r) /\ r[i - 1] = q[i])
  BY <1>1
<1>4. 1 \in 1..Len(q)
  BY <1>1
<1> HIDE DEF r
<1>5. Without(q, K) => Without(r, K) /\ Head(q) \notin K
  BY <1>1, <1>2, <1>4 DEF Without
<1>6. Without(r, K) /\ Head(q) \notin K => Without(q, K)
  BY <1>1, <1>3 DEF Without
<1>7. AtMostOne(q, K) => AtMostOne(r, K)
  BY <1>2 DEF AtMostOne
<1>8. AtMostOne(q, K) /\ Head(q) \in K => Without(r, K)
  BY <1>1, <1>2, <1>4 DEF AtMostOne, Without
<1> QED BY <1>5, <1>6, <1>7, <1>8 DEF r

\* The strings are queued at once.
LEMMA StringsKind ==
  ASSUME NEW K, NEW q \in Seq(Commands), NEW s \in Seq(Commands), Without(s, K)
  PROVE  /\ Without(q \o s, K) <=> Without(q, K)
         /\ AtMostOne(q, K) => AtMostOne(q \o s, K)
<1> DEFINE r == q \o s
<1>1. Len(r) = Len(q) + Len(s) /\ Len(q) \in Nat /\ Len(s) \in Nat
  OBVIOUS
<1>2. \A i \in 1..Len(q) : r[i] = q[i] /\ i \in 1..Len(r)
  BY <1>1
<1>3. \A i \in 1..Len(r) : i \in 1..Len(q) \/ (i - Len(q) \in 1..Len(s) /\ r[i] = s[i - Len(q)])
  BY <1>1
<1> HIDE DEF r
<1>4. \A i \in 1..Len(r) : r[i] \in K => i \in 1..Len(q)
  BY <1>3 DEF Without
<1> QED BY <1>2, <1>4 DEF Without, AtMostOne, r
-----------------------------------------------------------------------------
(* The flag of the event log. *)

\* The log's reads, and the flag that tells of them.
LogKind == {c \in Commands : c.kind \in {"meta", "entry"}}
Honest(q, l) == (l.reading <=> ~Without(q, LogKind)) /\ AtMostOne(q, LogKind)

\* A drain lowers the flag first and raises it nowhere.
FlagInv ==
  /\ Draining => ~link /\ ~log.reading
  /\ ~Draining => Honest(queue, log)

\* The flag's invariant, in terms of the queue's positions.
LEMMA FlagForm == TypeOK /\ FlagInv => FlagHonest
<1> SUFFICES ASSUME TypeOK, FlagInv PROVE FlagHonest
  OBVIOUS
<1>1. \A i \in 1..Len(queue) : queue[i] \in Commands
  BY DEF TypeOK
<1>2. \A i : i \in LogReads <=> i \in 1..Len(queue) /\ queue[i] \in LogKind
  BY <1>1 DEF LogReads, Queued, LogKind
<1>3. LogReads # {} <=> ~Without(queue, LogKind)
  BY <1>2 DEF Without
<1>4. (\A i, j \in LogReads : i = j) <=> AtMostOne(queue, LogKind)
  BY <1>2 DEF AtMostOne
<1> QED BY <1>3, <1>4 DEF FlagInv, FlagHonest, Honest

\* The commands of the other chains are none of the log's.
LEMMA Others ==
  /\ \A k \in Kinds \ {"meta", "entry"}, n, m \in Nat, g \in 0..MaxGen : Cmd(k, n, m, g) \notin LogKind
  /\ \A k \in Kinds \ {"meta", "entry"} : Plain(k) \notin LogKind
  /\ \A n, m \in Nat, g \in 0..MaxGen :
       Cmd("meta", n, m, g) \in LogKind /\ Cmd("entry", n, m, g) \in LogKind
  /\ \A c \in Commands : c \in LogKind <=> c.kind \in {"meta", "entry"}
  BY Bounds DEF LogKind, Commands, Cmd, Plain, Kinds

\* A callback keeps the flag honest, and never raises it.
LEMMA EndsFlag ==
  ASSUME TypeOK, queue # <<>>, NEW ok \in BOOLEAN, Ends(Head(queue), ok)
  PROVE  /\ ~log.reading => ~log'.reading
         /\ Honest(queue, log) => Honest(queue', log')
<1> DEFINE c == Head(queue)
<1>1. c \in Commands /\ Rest \in Seq(Commands) /\ queue \in Seq(Commands)
  BY DEF TypeOK, Rest
<1>2. c.kind \in Kinds /\ c.n \in Nat /\ c.count \in Nat /\ c.gen \in 0..MaxGen
  BY <1>1 DEF Commands
<1>3. c \in LogKind <=> c.kind \in {"meta", "entry"}
  BY <1>1, Others
<1>4. /\ c \notin LogKind => (Without(Rest, LogKind) <=> Without(queue, LogKind))
      /\ AtMostOne(queue, LogKind) => AtMostOne(Rest, LogKind)
      /\ AtMostOne(queue, LogKind) /\ c \in LogKind => Without(Rest, LogKind)
      /\ c \in LogKind => ~Without(queue, LogKind)
  BY <1>1, TailKind DEF Rest
\* A callback of another chain appends nothing, or nothing of the log's.
<1>5. ASSUME c \notin LogKind, log' = log,
             queue' = Rest \/ \E x \in Commands \ LogKind : queue' = Append(Rest, x)
      PROVE  Honest(queue, log) => Honest(queue', log')
  <2>1. CASE queue' = Rest
    BY <1>4, <1>5, <2>1 DEF Honest
  <2>2. CASE \E x \in Commands \ LogKind : queue' = Append(Rest, x)
    <3>1. PICK x \in Commands \ LogKind : queue' = Append(Rest, x)
      BY <2>2
    <3>2. /\ Without(queue', LogKind) <=> Without(Rest, LogKind)
          /\ AtMostOne(Rest, LogKind) => AtMostOne(queue', LogKind)
      BY <1>1, <3>1, AppendKind
    <3> QED BY <1>4, <1>5, <3>2 DEF Honest
  <2> QED BY <1>5, <2>1, <2>2
\* The chain ends, and lowers the flag, or goes on.
<1>6. ASSUME c \in LogKind, queue' = Rest, ~log'.reading
      PROVE  Honest(queue, log) => Honest(queue', log')
  <2>1. AtMostOne(Rest, LogKind) \/ ~AtMostOne(queue, LogKind)
    BY <1>4
  <2> QED BY <1>4, <1>6, <2>1 DEF Honest
<1>7. ASSUME c \in LogKind, log' = log, NEW x \in LogKind, queue' = Append(Rest, x)
      PROVE  Honest(queue, log) => Honest(queue', log')
  <2>1. x \in Commands
    BY DEF LogKind
  <2>2. /\ ~Without(queue', LogKind)
        /\ Without(Rest, LogKind) => AtMostOne(queue', LogKind)
    BY <1>1, <1>7, <2>1, AppendKind
  <2> QED BY <1>4, <1>7, <2>2 DEF Honest
<1> HIDE DEF c
<1>8. CASE StringEnd(c, ok) \/ StatsEnd(c, ok) \/ DstEnd(c, ok) \/ OtherEnd(c, ok)
  <2>1. c.kind \notin {"meta", "entry"} /\ log' = log /\ queue' = Rest
    BY <1>8 DEF StringEnd, StatsEnd, DstEnd, OtherEnd, chains
  <2> QED BY <1>3, <1>5, <2>1
<1>9. CASE ClockEnd(c, ok)
  <2>1. c.kind = "clock" /\ log' = log
        /\ (queue' = Rest \/ queue' = Append(Rest, [c EXCEPT !.kind = "dst"]))
    BY <1>9 DEF ClockEnd
  <2>2. [c EXCEPT !.kind = "dst"] \in Commands \ LogKind
    BY <1>1, CommandTypes DEF LogKind, Commands
  <2> QED BY <1>3, <1>5, <2>1, <2>2
<1>10. CASE TrendEnd(c, ok)
  <2>1. c.kind = "trend" /\ log' = log
        /\ (queue' = Rest \/ queue' = Append(Rest, Plain("stamps"))
              \/ queue' = Append(Rest, [c EXCEPT !.n = @ + 1]))
    BY <1>10 DEF TrendEnd, NextRead
  <2>2. Plain("stamps") \in Commands \ LogKind
    BY CommandTypes, Others DEF Kinds
  <2>3. [c EXCEPT !.n = @ + 1] \in Commands \ LogKind
    BY <1>1, <2>1, CommandTypes DEF LogKind, Commands
  <2> QED BY <1>3, <1>5, <2>1, <2>2, <2>3
<1>11. CASE MetaEnd(c, ok)
  <2>1. c \in LogKind
    BY <1>3, <1>11 DEF MetaEnd
  <2>2. \/ queue' = Rest /\ log' = [log EXCEPT !.reading = FALSE]
        \/ queue' = Rest /\ log' = [reading |-> FALSE, cached |-> c.gen]
        \/ log' = log /\ \E m \in Reported : queue' = Append(Rest, Cmd("entry", 1, Clamp(m), c.gen))
    BY <1>11 DEF MetaEnd
  <2>3. CASE queue' = Rest /\ (log' = [log EXCEPT !.reading = FALSE]
                              \/ log' = [reading |-> FALSE, cached |-> c.gen])
    <3>1. log \in [reading : BOOLEAN, cached : Nothing..MaxGen]
      BY DEF TypeOK
    <3>2. ~log'.reading
      BY <2>3, <3>1
    <3> QED BY <1>6, <2>1, <2>3, <3>2
  <2>4. CASE log' = log /\ \E m \in Reported : queue' = Append(Rest, Cmd("entry", 1, Clamp(m), c.gen))
    <3>1. PICK m \in Reported : queue' = Append(Rest, Cmd("entry", 1, Clamp(m), c.gen))
      BY <2>4
    <3>2. Cmd("entry", 1, Clamp(m), c.gen) \in LogKind
      BY <1>2, ClampType, Others
    <3> QED BY <1>7, <2>1, <2>4, <3>1, <3>2
  <2> QED BY <2>2, <2>3, <2>4
<1>12. CASE EntryEnd(c, ok)
  <2>1. c \in LogKind
    BY <1>3, <1>12 DEF EntryEnd
  <2>2. \/ log' = log /\ queue' = Append(Rest, [c EXCEPT !.n = @ + 1])
        \/ queue' = Rest /\ log' = [reading |-> FALSE, cached |-> c.gen]
        \/ queue' = Rest /\ log' = [reading |-> FALSE, cached |-> log.cached]
    BY <1>12 DEF EntryEnd, NextRead
  <2>3. CASE log' = log /\ queue' = Append(Rest, [c EXCEPT !.n = @ + 1])
    <3>1. [c EXCEPT !.n = @ + 1] \in LogKind
      BY <1>1, <2>1, CommandTypes DEF LogKind, Commands
    <3> QED BY <1>7, <2>1, <2>3, <3>1
  <2>4. CASE queue' = Rest /\ (log' = [reading |-> FALSE, cached |-> c.gen]
                              \/ log' = [reading |-> FALSE, cached |-> log.cached])
    <3>1. ~log'.reading
      BY <2>4
    <3> QED BY <1>6, <2>1, <2>4, <3>1
  <2> QED BY <2>2, <2>3, <2>4
<1> QED BY <1>8, <1>9, <1>10, <1>11, <1>12 DEF Ends, c

\* The flag across a leg: only the log's own leg touches it.
LEMMA LegFlag ==
  ASSUME TypeOK, FlagInv, NEW t \in timers,
         \/ InfoLeg(t) \/ StatsLeg(t) \/ ClockLeg(t)
         \/ LogLeg(t) \/ HistoryLeg(t) \/ EventsLeg(t)
  PROVE  FlagInv'
<1>1. ~Draining /\ steps' = steps /\ link' = link
  BY DEF InfoLeg, StatsLeg, ClockLeg, LogLeg, HistoryLeg, EventsLeg, Due
<1>2. ~Draining'
  BY <1>1 DEF Draining
<1>3. Honest(queue, log) /\ queue \in Seq(Commands)
  BY <1>1 DEF FlagInv, TypeOK
<1>4. gen \in 0..MaxGen /\ 0 \in Nat
  BY DEF TypeOK
\* Another chain's command is appended.
<1>5. ASSUME log' = log,
             queue' = queue \/ \E x \in Commands \ LogKind : queue' = Append(queue, x)
      PROVE  Honest(queue', log')
  <2>1. CASE queue' = queue
    BY <1>3, <1>5, <2>1
  <2>2. CASE \E x \in Commands \ LogKind : queue' = Append(queue, x)
    <3>1. PICK x \in Commands \ LogKind : queue' = Append(queue, x)
      BY <2>2
    <3>2. /\ Without(queue', LogKind) <=> Without(queue, LogKind)
          /\ AtMostOne(queue, LogKind) => AtMostOne(queue', LogKind)
      BY <1>3, <3>1, AppendKind
    <3> QED BY <1>3, <1>5, <3>2 DEF Honest
  <2> QED BY <1>5, <2>1, <2>2
<1>6. CASE InfoLeg(t)
  <2> DEFINE s == [i \in 1..Strings |-> Cmd("string", i, Strings, 0)]
  <2>1. 0 \in 0..MaxGen
    BY Bounds
  <2>2. \A i \in 1..Strings : /\ Cmd("string", i, Strings, 0) \in Commands
                              /\ Cmd("string", i, Strings, 0) \notin LogKind
    <3>1. "string" \in Kinds \ {"meta", "entry"} /\ "string" \in Kinds
      BY DEF Kinds
    <3>2. \A i \in 1..Strings : i \in Nat /\ Strings \in Nat
      BY Bounds
    <3>3. \A i \in 1..Strings : Cmd("string", i, Strings, 0) \in Commands
      BY <2>1, <3>1, <3>2, CommandTypes, Zenon
    <3>4. \A i \in 1..Strings : Cmd("string", i, Strings, 0) \notin LogKind
      BY <2>1, <3>1, <3>2, Others, Zenon
    <3> QED BY <3>3, <3>4
  <2>3. s \in Seq(Commands) /\ Len(s) = Strings
    BY <2>2, Bounds
  <2>4. Without(s, LogKind)
    BY <2>2, <2>3 DEF Without
  <2>5. queue' = queue \o s /\ log' = log
    BY <1>6 DEF InfoLeg
  <2> HIDE DEF s
  <2>6. /\ Without(queue', LogKind) <=> Without(queue, LogKind)
        /\ AtMostOne(queue, LogKind) => AtMostOne(queue', LogKind)
    BY <1>3, <2>3, <2>4, <2>5, StringsKind
  <2> QED BY <1>2, <1>3, <2>5, <2>6 DEF FlagInv, Honest
<1>7. CASE StatsLeg(t) \/ EventsLeg(t)
  <2>1. \E k \in {"stats", "other"} : queue' = Append(queue, Plain(k))
    BY <1>7 DEF StatsLeg, EventsLeg
  <2>2. Plain("stats") \in Commands \ LogKind /\ Plain("other") \in Commands \ LogKind
    BY CommandTypes, Others DEF Kinds
  <2>3. log' = log
    BY <1>7 DEF StatsLeg, EventsLeg, chains
  <2> QED BY <1>2, <1>5, <2>1, <2>2, <2>3 DEF FlagInv
<1>8. CASE ClockLeg(t)
  <2>1. queue' = queue \/ queue' = Append(queue, Cmd("clock", 0, 0, gen))
    BY <1>8 DEF ClockLeg
  <2>2. Cmd("clock", 0, 0, gen) \in Commands \ LogKind
    BY <1>4, CommandTypes, Others DEF Kinds
  <2>3. log' = log
    BY <1>8 DEF ClockLeg
  <2> QED BY <1>2, <1>5, <2>1, <2>2, <2>3 DEF FlagInv
<1>9. CASE HistoryLeg(t)
  <2>1. queue' = Append(queue, Cmd("trend", 1, NUM_TRENDS, gen)) /\ log' = log
    BY <1>9 DEF HistoryLeg, chains
  <2>2. Cmd("trend", 1, NUM_TRENDS, gen) \in Commands \ LogKind
    BY <1>4, Bounds, CommandTypes, Others DEF Kinds
  <2> QED BY <1>2, <1>5, <2>1, <2>2 DEF FlagInv
<1>10. CASE LogLeg(t)
  <2>1. log'.reading
    BY <1>10 DEF LogLeg, TypeOK
  <2>2. CASE log.reading
    <3>1. queue' = queue
      BY <1>10, <2>2 DEF LogLeg, LogBusy
    <3> QED BY <1>2, <1>3, <2>1, <2>2, <3>1 DEF FlagInv, Honest
  <2>3. CASE ~log.reading
    <3>1. queue' = Append(queue, Cmd("meta", 0, 0, gen))
      BY <1>10, <2>3 DEF LogLeg, LogBusy
    <3>2. Cmd("meta", 0, 0, gen) \in Commands /\ Cmd("meta", 0, 0, gen) \in LogKind
      BY <1>4, CommandTypes, Others DEF Kinds
    <3>3. Without(queue, LogKind)
      BY <1>3, <2>3 DEF Honest
    <3>4. ~Without(queue', LogKind) /\ AtMostOne(queue', LogKind)
      BY <1>3, <3>1, <3>2, <3>3, AppendKind
    <3> QED BY <1>2, <2>1, <3>4 DEF FlagInv, Honest
  <2> QED BY <2>2, <2>3
<1> QED BY <1>6, <1>7, <1>8, <1>9, <1>10

\* The event log's flag is up exactly while one of its reads is queued, and
\* never two are, through drops, drains and the reads of earlier attempts.
THEOREM FlagIsHonest == Spec => []FlagHonest
<1>1. Init => FlagInv
  BY DEF Init, FlagInv, Draining, Honest, Without, AtMostOne
<1>2. TypeOK /\ FlagInv /\ [Next]_vars => FlagInv'
  <2> SUFFICES ASSUME TypeOK, FlagInv, [Next]_vars PROVE FlagInv'
    OBVIOUS
  <2>1. CASE Trigger \/ StaleLeg \/ Rearm \/ Ready
    <3>1. UNCHANGED <<queue, log, steps>> /\ ~Draining
      BY <2>1 DEF Trigger, StaleLeg, Rearm, Ready, chains
    <3> QED BY <3>1 DEF FlagInv, Draining
  <2>2. CASE Leg
    BY <2>2, LegFlag DEF Leg
  <2>3. CASE Complete
    <3>1. PICK ok \in BOOLEAN : Ends(Head(queue), ok)
      BY <2>3 DEF Complete
    <3>2. ~Draining /\ steps' = steps /\ queue # <<>>
      BY <2>3 DEF Complete
    <3>3. Honest(queue, log) => Honest(queue', log')
      BY <3>1, <3>2, EndsFlag
    <3> QED BY <3>2, <3>3 DEF FlagInv, Draining
  <2>4. CASE Disconnect
    <3>1. link' = FALSE /\ log' = [log EXCEPT !.reading = FALSE] /\ steps' = 0
      BY <2>4 DEF Disconnect
    <3>2. ~log'.reading
      BY <3>1 DEF TypeOK
    <3>3. Draining'
      BY <3>1 DEF Draining, Idle
    <3> QED BY <3>1, <3>2, <3>3 DEF FlagInv
  <2>5. CASE DrainStep
    <3>1. Ends(Head(queue), FALSE) /\ queue # <<>> /\ Draining /\ steps' = steps + 1 /\ link' = link
      BY <2>5 DEF DrainStep
    <3>2. ~log'.reading
      BY <3>1, EndsFlag DEF FlagInv
    <3>3. steps \in Idle..MAX_ABANDON_STEPS /\ steps # Idle
      BY <3>1 DEF TypeOK, Draining
    <3>4. steps' # Idle
      BY <3>1, <3>3 DEF Idle
    <3> QED BY <3>1, <3>2, <3>4 DEF FlagInv, Draining
  <2>6. CASE DrainEnd
    <3>1. queue' = <<>> /\ steps' = Idle /\ log' = log /\ Draining
      BY <2>6 DEF DrainEnd, chains
    <3>2. Without(queue', LogKind) /\ AtMostOne(queue', LogKind)
      BY <3>1 DEF Without, AtMostOne
    <3> QED BY <3>1, <3>2 DEF FlagInv, Draining, Honest
  <2>7. CASE UNCHANGED vars
    BY <2>7 DEF vars, FlagInv, Draining, Honest
  <2> QED BY <2>1, <2>2, <2>3, <2>4, <2>5, <2>6, <2>7 DEF Next
<1> QED BY <1>1, <1>2, TypeCorrect, FlagForm, PTL DEF Spec
-----------------------------------------------------------------------------
(* What a drop runs. *)

\* Commands whose reading would be published by a component of generation g.
Ahead(g) == {c \in Commands : c.kind \in {"clock", "dst"} /\ c.gen >= g}

\* The drop starts a generation, so every queued reading is of an earlier one.
Era == IF Draining THEN gen ELSE gen + 1
DropInv == (Draining => ~link) /\ Without(queue, Ahead(Era))

\* A callback queues a reading only in the generation of its own.
LEMMA EndsAhead ==
  ASSUME TypeOK, queue # <<>>, NEW ok \in BOOLEAN, Ends(Head(queue), ok),
         NEW g \in Nat, Without(queue, Ahead(g))
  PROVE  Without(queue', Ahead(g))
<1> DEFINE c == Head(queue)
<1>1. c \in Commands /\ Rest \in Seq(Commands) /\ queue \in Seq(Commands)
  BY DEF TypeOK, Rest
<1>2. c.kind \in Kinds /\ c.n \in Nat /\ c.count \in Nat /\ c.gen \in 0..MaxGen
  BY <1>1 DEF Commands
<1>3. Without(Rest, Ahead(g)) /\ c \notin Ahead(g)
  BY <1>1, TailKind DEF Rest
<1>4. ASSUME queue' = Rest \/ \E x \in Commands \ Ahead(g) : queue' = Append(Rest, x)
      PROVE  Without(queue', Ahead(g))
  <2>1. CASE queue' = Rest
    BY <1>3, <2>1
  <2>2. CASE \E x \in Commands \ Ahead(g) : queue' = Append(Rest, x)
    BY <1>1, <1>3, <2>2, AppendKind
  <2> QED BY <1>4, <2>1, <2>2
<1> HIDE DEF c
<1>5. CASE StringEnd(c, ok) \/ StatsEnd(c, ok) \/ DstEnd(c, ok) \/ OtherEnd(c, ok)
  BY <1>4, <1>5 DEF StringEnd, StatsEnd, DstEnd, OtherEnd
<1>6. CASE ClockEnd(c, ok)
  <2>1. queue' = Rest \/ queue' = Append(Rest, [c EXCEPT !.kind = "dst"])
    BY <1>6 DEF ClockEnd
  <2>2. c.gen < g
    BY <1>1, <1>2, <1>3, <1>6 DEF ClockEnd, Ahead
  <2>3. [c EXCEPT !.kind = "dst"] \in Commands
    BY <1>1, CommandTypes
  <2>4. [c EXCEPT !.kind = "dst"].gen = c.gen
    BY <1>1 DEF Commands
  <2>5. [c EXCEPT !.kind = "dst"] \notin Ahead(g)
    <3>1. \A x : x.gen = c.gen => ~(x.gen >= g)
      BY <1>2, <2>2
    <3> QED BY <2>4, <3>1, Zenon DEF Ahead
  <2> QED BY <1>4, <2>1, <2>3, <2>5
<1>7. CASE TrendEnd(c, ok) \/ EntryEnd(c, ok)
  <2>1. c.kind \in {"trend", "entry"} /\ (queue' = Rest \/ queue' = Append(Rest, Plain("stamps"))
          \/ queue' = Append(Rest, [c EXCEPT !.n = @ + 1]))
    BY <1>7 DEF TrendEnd, EntryEnd, NextRead
  <2>2. Plain("stamps") \in Commands \ Ahead(g)
    BY CommandTypes DEF Kinds, Ahead, Plain, Cmd
  <2>3. [c EXCEPT !.n = @ + 1] \in Commands
    BY <1>1, CommandTypes
  <2>4. [c EXCEPT !.n = @ + 1].kind = c.kind
    BY <1>1 DEF Commands
  <2>5. [c EXCEPT !.n = @ + 1] \notin Ahead(g)
    BY <2>1, <2>4 DEF Ahead
  <2> QED BY <1>4, <2>1, <2>2, <2>3, <2>5
<1>8. CASE MetaEnd(c, ok)
  <2>1. queue' = Rest \/ \E m \in Reported : queue' = Append(Rest, Cmd("entry", 1, Clamp(m), c.gen))
    BY <1>8 DEF MetaEnd
  <2>2. \A m \in Reported : Cmd("entry", 1, Clamp(m), c.gen) \in Commands
    BY <1>2, ClampType, CommandTypes DEF Kinds
  <2>3. \A m \in Reported : Cmd("entry", 1, Clamp(m), c.gen) \notin Ahead(g)
    BY DEF Ahead, Cmd
  <2> QED BY <1>4, <2>1, <2>2, <2>3
<1> QED BY <1>5, <1>6, <1>7, <1>8 DEF Ends, c

\* A leg queues readings of the generation it runs in.
LEMMA LegAhead ==
  ASSUME TypeOK, Without(queue, Ahead(gen + 1)), NEW t \in timers,
         \/ InfoLeg(t) \/ StatsLeg(t) \/ ClockLeg(t)
         \/ LogLeg(t) \/ HistoryLeg(t) \/ EventsLeg(t)
  PROVE  Without(queue', Ahead(gen + 1))
<1>1. queue \in Seq(Commands) /\ gen \in 0..MaxGen /\ 0 \in 0..MaxGen /\ gen \in Nat
  BY Bounds DEF TypeOK
<1>2. ASSUME queue' = queue \/ \E x \in Commands \ Ahead(gen + 1) : queue' = Append(queue, x)
      PROVE  Without(queue', Ahead(gen + 1))
  <2>1. CASE queue' = queue
    BY <2>1
  <2>2. CASE \E x \in Commands \ Ahead(gen + 1) : queue' = Append(queue, x)
    BY <1>1, <2>2, AppendKind
  <2> QED BY <1>2, <2>1, <2>2
<1>3. CASE InfoLeg(t)
  <2> DEFINE s == [i \in 1..Strings |-> Cmd("string", i, Strings, 0)]
  <2>1. "string" \in Kinds /\ \A i \in 1..Strings : i \in Nat /\ Strings \in Nat
    BY Bounds DEF Kinds
  <2>2. \A i \in 1..Strings : Cmd("string", i, Strings, 0) \in Commands
    BY <1>1, <2>1, CommandTypes, Zenon
  <2>3. \A i \in 1..Strings : Cmd("string", i, Strings, 0) \notin Ahead(gen + 1)
    BY DEF Cmd, Ahead
  <2>4. s \in Seq(Commands) /\ Len(s) = Strings
    BY <2>2, Bounds
  <2>5. Without(s, Ahead(gen + 1))
    BY <2>3, <2>4 DEF Without
  <2>6. queue' = queue \o s
    BY <1>3 DEF InfoLeg
  <2> HIDE DEF s
  <2> QED BY <1>1, <2>4, <2>5, <2>6, StringsKind
<1>4. CASE ClockLeg(t)
  <2>1. queue' = queue \/ queue' = Append(queue, Cmd("clock", 0, 0, gen))
    BY <1>4 DEF ClockLeg
  <2>2. Cmd("clock", 0, 0, gen) \in Commands
    BY <1>1, CommandTypes DEF Kinds
  <2>3. Cmd("clock", 0, 0, gen) \notin Ahead(gen + 1)
    BY <1>1 DEF Ahead, Cmd
  <2> QED BY <1>2, <2>1, <2>2, <2>3
<1>5. CASE StatsLeg(t) \/ EventsLeg(t) \/ LogLeg(t) \/ HistoryLeg(t)
  <2>1. \/ queue' = queue \/ queue' = Append(queue, Plain("stats"))
        \/ queue' = Append(queue, Plain("other")) \/ queue' = Append(queue, Cmd("meta", 0, 0, gen))
        \/ queue' = Append(queue, Cmd("trend", 1, NUM_TRENDS, gen))
    BY <1>5 DEF StatsLeg, EventsLeg, LogLeg, HistoryLeg
  <2>2. /\ Plain("stats") \in Commands /\ Plain("other") \in Commands
        /\ Cmd("meta", 0, 0, gen) \in Commands /\ Cmd("trend", 1, NUM_TRENDS, gen) \in Commands
    BY <1>1, Bounds, CommandTypes DEF Kinds
  <2>3. /\ Plain("stats") \notin Ahead(gen + 1) /\ Plain("other") \notin Ahead(gen + 1)
        /\ Cmd("meta", 0, 0, gen) \notin Ahead(gen + 1)
        /\ Cmd("trend", 1, NUM_TRENDS, gen) \notin Ahead(gen + 1)
    BY DEF Ahead, Plain, Cmd
  <2> QED BY <1>2, <2>1, <2>2, <2>3
<1> QED BY <1>3, <1>4, <1>5

\* What is published, stored and proved.
Products == <<info.ok, statsOk, clock.drift, clock.dst, log.cached, trends>>

\* A failed callback of a component that is down changes no product.
LEMMA FailedEnd ==
  ASSUME TypeOK, ~link, queue # <<>>, Without(queue, Ahead(gen)), Ends(Head(queue), FALSE)
  PROVE  UNCHANGED Products
<1> DEFINE c == Head(queue)
<1>1. c \in Commands /\ queue \in Seq(Commands)
  BY DEF TypeOK
<1>2. c \notin Ahead(gen)
  BY <1>1, TailKind
<1>3. ~MayStore
  BY DEF MayStore
<1>4. log.cached = [log EXCEPT !.reading = FALSE].cached
  BY DEF TypeOK
<1> HIDE DEF c
<1>5. CASE StringEnd(c, FALSE)
  <2>1. UNCHANGED <<statsOk, clock, log, trends>>
    BY <1>5 DEF StringEnd
  <2>2. PICK i \in {[info EXCEPT !.pending = @ - 1, !.failed = @ + 1]} :
          info' = IF i.pending = 0 /\ i.armed
                    THEN [i EXCEPT !.armed = FALSE, !.ok = i.ok \/ AllOk(i)] ELSE i
    BY <1>5 DEF StringEnd
  <2>3. /\ info \in [pending : Int, failed : Nat, armed : BOOLEAN, ok : BOOLEAN]
        /\ i = [info EXCEPT !.pending = @ - 1, !.failed = @ + 1]
    BY <2>2 DEF TypeOK
  <2>t. info.pending - 1 \in Int /\ info.failed + 1 \in Nat
    BY <2>3
  <2>4. /\ i \in [pending : Int, failed : Nat, armed : BOOLEAN, ok : BOOLEAN]
        /\ i.ok = info.ok /\ i.failed = info.failed + 1
    <3> QED BY <2>t, <2>3, Zenon
  <2>5. ~AllOk(i)
    BY <2>3, <2>4 DEF AllOk
  <2>6. info'.ok = i.ok \/ info'.ok = (i.ok \/ AllOk(i))
    BY <2>2, <2>4
  <2>7. i.ok \in BOOLEAN
    BY <2>4
  <2>8. info'.ok = info.ok
    BY <2>4, <2>5, <2>6, <2>7, Zenon
  <2> QED BY <2>1, <2>8 DEF Products
<1>6. CASE StatsEnd(c, FALSE)
  <2>1. statsOk' = statsOk
    BY <1>6, Zenon DEF StatsEnd, TypeOK
  <2> QED BY <1>6, <2>1 DEF StatsEnd, Products
<1>7. CASE ClockEnd(c, FALSE) \/ DstEnd(c, FALSE)
  <2>1. c.kind \in {"clock", "dst"}
    BY <1>7 DEF ClockEnd, DstEnd
  <2>2. ~Fresh(c)
    BY <1>1, <1>2, <2>1 DEF Fresh, Ahead, TypeOK
  <2>3. clock' = clock /\ UNCHANGED <<info, statsOk, log, trends>>
    BY <1>7, <2>2 DEF ClockEnd, DstEnd
  <2> QED BY <2>3 DEF Products
<1>8. CASE MetaEnd(c, FALSE)
  <2>1. log' = [log EXCEPT !.reading = FALSE] /\ UNCHANGED <<info, statsOk, clock, trends>>
    BY <1>8 DEF MetaEnd
  <2> QED BY <1>4, <2>1 DEF Products
<1>9. CASE EntryEnd(c, FALSE)
  <2>1. /\ log' = log \/ log' = [reading |-> FALSE, cached |-> log.cached]
        /\ UNCHANGED <<info, statsOk, clock, trends>>
    BY <1>3, <1>9 DEF EntryEnd
  <2> QED BY <2>1 DEF Products
<1>10. CASE TrendEnd(c, FALSE) \/ OtherEnd(c, FALSE)
  <2>1. UNCHANGED <<info, statsOk, clock, log, trends>>
    BY <1>3, <1>10 DEF TrendEnd, OtherEnd, chains
  <2> QED BY <2>1 DEF Products
<1> QED BY <1>5, <1>6, <1>7, <1>8, <1>9, <1>10 DEF Ends, c

\* The callbacks a dropped link runs publish, store and prove nothing, those
\* of chains that go on through the drain included.
THEOREM DropsInert == Spec => DropsAreInert
<1>1. Init => DropInv
  BY DEF Init, DropInv, Draining, Without
<1>2. TypeOK /\ DropInv /\ [Next]_vars => DropInv'
  <2> SUFFICES ASSUME TypeOK, DropInv, [Next]_vars PROVE DropInv'
    OBVIOUS
  <2>0. gen \in Nat /\ gen + 1 \in Nat /\ Era \in Nat
    BY DEF TypeOK, Era
  <2>1. CASE Trigger \/ StaleLeg \/ Ready
    <3>1. UNCHANGED <<queue, gen, steps>> /\ ~Draining
      BY <2>1 DEF Trigger, StaleLeg, Ready, chains
    <3> QED BY <3>1 DEF DropInv, Era, Draining
  <2>2. CASE Leg
    <3>1. PICK t \in timers : \/ InfoLeg(t) \/ StatsLeg(t) \/ ClockLeg(t)
                              \/ LogLeg(t) \/ HistoryLeg(t) \/ EventsLeg(t)
      BY <2>2 DEF Leg
    <3>2. UNCHANGED <<gen, steps>> /\ ~Draining
      BY <3>1 DEF InfoLeg, StatsLeg, ClockLeg, LogLeg, HistoryLeg, EventsLeg, Due
    <3>3. Without(queue', Ahead(gen + 1))
      BY <3>1, <3>2, LegAhead DEF DropInv, Era
    <3> QED BY <3>2, <3>3 DEF DropInv, Era, Draining
  <2>3. CASE Rearm
    <3>1. queue' = queue /\ steps' = steps /\ gen' = gen + 1 /\ ~Draining
      BY <2>3 DEF Rearm
    <3>2. Ahead(gen + 1 + 1) \subseteq Ahead(gen + 1)
      BY <2>0 DEF Ahead, Commands
    <3>3. Without(queue, Ahead(gen + 1))
      BY <3>1 DEF DropInv, Era
    <3>4. Without(queue, Ahead(gen + 1 + 1))
      BY <3>2, <3>3 DEF Without
    <3> QED BY <3>1, <3>4 DEF DropInv, Era, Draining
  <2>4. CASE Complete \/ DrainStep
    <3>1. PICK ok \in BOOLEAN : Ends(Head(queue), ok)
      BY <2>4 DEF Complete, DrainStep
    <3>2. queue # <<>> /\ gen' = gen /\ link' = link
      BY <2>4 DEF Complete, DrainStep
    <3>3. Draining' <=> Draining
      <4>1. CASE Complete
        BY <4>1 DEF Complete, Draining
      <4>2. CASE DrainStep
        <5>1. steps \in Idle..MAX_ABANDON_STEPS /\ steps # Idle /\ steps' = steps + 1
          BY <4>2 DEF DrainStep, Draining, TypeOK
        <5> QED BY <5>1 DEF Draining, Idle
      <4> QED BY <2>4, <4>1, <4>2
    <3>4. Without(queue', Ahead(Era))
      BY <2>0, <3>1, <3>2, EndsAhead DEF DropInv
    <3> QED BY <3>2, <3>3, <3>4 DEF DropInv, Era
  <2>5. CASE Disconnect
    <3>1. queue' = queue /\ link' = FALSE /\ steps' = 0 /\ gen' = gen + 1 /\ ~Draining
      BY <2>5 DEF Disconnect
    <3> QED BY <3>1 DEF DropInv, Era, Draining, Idle
  <2>6. CASE DrainEnd
    <3>1. queue' = <<>> /\ steps' = Idle
      BY <2>6 DEF DrainEnd
    <3> QED BY <3>1 DEF DropInv, Draining, Without
  <2>7. CASE UNCHANGED vars
    BY <2>7 DEF vars, DropInv, Era, Draining
  <2> QED BY <2>1, <2>2, <2>3, <2>4, <2>5, <2>6, <2>7 DEF Next
<1>3. TypeOK /\ DropInv /\ [Next]_vars => [Draining => UNCHANGED Products]_vars
  <2> SUFFICES ASSUME TypeOK, DropInv, Next, Draining PROVE UNCHANGED Products
    BY DEF vars, Products
  <2>1. CASE DrainStep
    <3>1. Ends(Head(queue), FALSE) /\ queue # <<>>
      BY <2>1 DEF DrainStep
    <3>2. ~link /\ Without(queue, Ahead(gen))
      BY DEF DropInv, Era
    <3> QED BY <3>1, <3>2, FailedEnd
  <2>2. CASE DrainEnd
    BY <2>2 DEF DrainEnd, chains, Products
  <2> QED BY <2>1, <2>2 DEF Next, Trigger, Leg, StaleLeg, Rearm, Complete, Ready, Disconnect,
             InfoLeg, StatsLeg, ClockLeg, LogLeg, HistoryLeg, EventsLeg, Due
<1> QED BY <1>1, <1>2, <1>3, TypeCorrect, PTL DEF Spec, DropsAreInert, Products
-----------------------------------------------------------------------------
(* One run of a leg per attempt. *)

\* What an attempt has outstanding: legs whose timer is set, and the reads of
\* its log and of its trends that are queued.  Earlier attempts' do not count.
Armed == {leg \in Legs : [leg |-> leg, gen |-> gen] \in timers}
LogTok(g)   == {c \in Commands : c.kind \in {"meta", "entry"} /\ c.gen = g}
TrendTok(g) == {c \in Commands : c.kind = "trend" /\ c.gen = g}
Later(g)    == {c \in Commands : c.kind \in {"meta", "entry", "trend"} /\ c.gen > g}

\* The legs form two chains, and the second has one token.
Order(armed, l, r, b) ==
  /\ "info" \in armed => b["info"] = 0 /\ b["stats"] = 0 /\ "stats" \notin armed
  /\ "stats" \in armed => b["stats"] = 0
  /\ "clock" \in armed => b["clock"] = 0
  /\ "log" \in armed => /\ b["log"] = 0 /\ b["history"] = 0 /\ b["events"] = 0
                        /\ "history" \notin armed /\ "events" \notin armed /\ ~l /\ ~r
  /\ "history" \in armed => /\ b["history"] = 0 /\ b["events"] = 0
                            /\ "events" \notin armed /\ ~l /\ ~r
  /\ "events" \in armed => b["events"] = 0 /\ ~l /\ ~r
  /\ l => b["history"] = 0 /\ b["events"] = 0 /\ ~r
  /\ r => b["events"] = 0
  /\ \A leg \in Legs : b[leg] <= 1

LogQueued   == ~Without(queue, LogTok(gen))
TrendQueued == ~Without(queue, TrendTok(gen))

OnceInv ==
  /\ Order(Armed, LogQueued, TrendQueued, began)
  /\ AtMostOne(queue, LogTok(gen)) /\ AtMostOne(queue, TrendTok(gen))
  /\ ~done => Armed = {} /\ ~LogQueued /\ ~TrendQueued
  /\ Without(queue, Later(gen)) /\ \A t \in timers : t.gen <= gen

\* A command makes way for the next of its chain.
LEMMA PassesOn ==
  ASSUME NEW K, NEW q \in Seq(Commands), q # <<>>, NEW x \in Commands, Head(q) \in K <=> x \in K
  PROVE  /\ Without(Append(Tail(q), x), K) <=> Without(q, K)
         /\ AtMostOne(q, K) => AtMostOne(Append(Tail(q), x), K)
<1> DEFINE r == Tail(q)
<1>1. r \in Seq(Commands)
  OBVIOUS
<1>2. /\ Without(q, K) => Without(r, K) /\ Head(q) \notin K
      /\ Without(r, K) /\ Head(q) \notin K => Without(q, K)
      /\ AtMostOne(q, K) => AtMostOne(r, K)
      /\ AtMostOne(q, K) /\ Head(q) \in K => Without(r, K)
  BY TailKind
<1>3. /\ Without(Append(r, x), K) <=> Without(r, K) /\ x \notin K
      /\ AtMostOne(r, K) /\ x \notin K => AtMostOne(Append(r, x), K)
      /\ Without(r, K) => AtMostOne(Append(r, x), K)
  BY <1>1, AppendKind
<1> HIDE DEF r
<1> QED BY <1>2, <1>3 DEF r

\* A callback moves the token of its own attempt, or nothing of this one.
LEMMA EndsOnce ==
  ASSUME TypeOK, OnceInv, queue # <<>>, NEW ok \in BOOLEAN, Ends(Head(queue), ok),
         gen' = gen, done' = done, began' = began
  PROVE  OnceInv'
<1> DEFINE c == Head(queue)
           Same(K) == /\ Without(queue', K) <=> Without(queue, K)
                      /\ AtMostOne(queue, K) => AtMostOne(queue', K)
<1>1. c \in Commands /\ Rest \in Seq(Commands) /\ queue \in Seq(Commands) /\ gen \in 0..MaxGen
  BY DEF TypeOK, Rest
<1>2. c.kind \in Kinds /\ c.n \in Nat /\ c.count \in Nat /\ c.gen \in 0..MaxGen
  BY <1>1 DEF Commands
<1>3. ~(c \in Later(gen))
  BY <1>1, TailKind DEF OnceInv
<1>4. ASSUME NEW K, c \notin K, queue' = Rest PROVE Same(K)
  <2>1. /\ Without(queue, K) => Without(Rest, K) /\ c \notin K
        /\ Without(Rest, K) /\ c \notin K => Without(queue, K)
        /\ AtMostOne(queue, K) => AtMostOne(Rest, K)
    BY <1>1, TailKind DEF Rest
  <2> QED BY <1>4, <2>1
<1>5. ASSUME NEW K, NEW x \in Commands, c \in K <=> x \in K, queue' = Append(Rest, x) PROVE Same(K)
  BY <1>1, <1>5, PassesOn DEF Rest
<1>6. ASSUME Same(LogTok(gen)), Same(TrendTok(gen)), Same(Later(gen)), Armed' = Armed,
             \A t \in timers' : t.gen <= gen
      PROVE  OnceInv'
  <2>1. (LogQueued' <=> LogQueued) /\ (TrendQueued' <=> TrendQueued)
    BY <1>6 DEF LogQueued, TrendQueued
  <2>2. Order(Armed, LogQueued, TrendQueued, began)
    BY DEF OnceInv
  <2>3. Order(Armed', LogQueued', TrendQueued', began')
    BY <1>6, <2>1, <2>2 DEF Order
  <2> QED BY <1>6, <2>1, <2>3 DEF OnceInv
<1>7. \A t \in timers : t.gen <= gen
  BY DEF OnceInv
<1> HIDE DEF c, Same
\* The callbacks of the other reads.
<1>8. CASE c.kind \notin {"meta", "entry", "trend"}
  <2>1. c \notin LogTok(gen) /\ c \notin TrendTok(gen)
    BY <1>8 DEF LogTok, TrendTok
  <2>2. timers' = timers /\ (queue' = Rest \/ queue' = Append(Rest, [c EXCEPT !.kind = "dst"]))
    BY <1>8 DEF Ends, StringEnd, StatsEnd, ClockEnd, DstEnd, MetaEnd, EntryEnd, TrendEnd, OtherEnd, c
  <2>3. [c EXCEPT !.kind = "dst"] \in Commands
    BY <1>1, CommandTypes
  <2>4. [c EXCEPT !.kind = "dst"].kind = "dst"
    BY <1>1 DEF Commands
  <2>5. /\ [c EXCEPT !.kind = "dst"] \notin LogTok(gen) /\ [c EXCEPT !.kind = "dst"] \notin TrendTok(gen)
        /\ [c EXCEPT !.kind = "dst"] \notin Later(gen)
    BY <2>4 DEF LogTok, TrendTok, Later
  <2>6. Same(LogTok(gen)) /\ Same(TrendTok(gen)) /\ Same(Later(gen))
    BY <1>3, <1>4, <1>5, <2>1, <2>2, <2>3, <2>5
  <2>7. Armed' = Armed
    BY <2>2 DEF Armed
  <2> QED BY <1>6, <1>7, <2>2, <2>6, <2>7
\* A chain that goes on.
<1>9. ASSUME NEW x \in Commands, timers' = timers, queue' = Append(Rest, x), x.gen = c.gen,
             \/ c.kind \in {"meta", "entry"} /\ x.kind = "entry"
             \/ c.kind = "trend" /\ x.kind = "trend"
      PROVE  OnceInv'
  <2>1. /\ c \in LogTok(gen) <=> x \in LogTok(gen)
        /\ c \in TrendTok(gen) <=> x \in TrendTok(gen)
        /\ c \in Later(gen) <=> x \in Later(gen)
    BY <1>1, <1>9 DEF LogTok, TrendTok, Later
  <2>2. Same(LogTok(gen)) /\ Same(TrendTok(gen)) /\ Same(Later(gen))
    BY <1>5, <1>9, <2>1
  <2>3. Armed' = Armed
    BY <1>9 DEF Armed
  <2> QED BY <1>6, <1>7, <1>9, <2>2, <2>3
\* A chain that ends sets the timer of the next leg, in its own generation.
<1>10. ASSUME NEW leg \in Legs, timers' = timers \cup Follow(leg, c.gen),
              \/ queue' = Rest
              \/ queue' = Append(Rest, Plain("stamps")),
              \/ c.kind \in {"meta", "entry"} /\ leg = "history"
              \/ c.kind = "trend" /\ leg = "events"
       PROVE  OnceInv'
  <2> DEFINE x == Plain("stamps")
  <2>1. x \in Commands /\ x \notin LogTok(gen) /\ x \notin TrendTok(gen) /\ x \notin Later(gen)
    BY CommandTypes DEF LogTok, TrendTok, Later, Plain, Cmd, Kinds
  <2> HIDE DEF x
  <2>2. c.gen <= gen
    BY <1>1, <1>2, <1>3, <1>10 DEF Later
  <2>3. \A t \in timers' : t.gen <= gen
    BY <1>7, <1>10, <2>2 DEF Follow
  <2>4. ASSUME NEW K, c \notin K, x \notin K PROVE Same(K)
    BY <1>4, <1>5, <1>10, <2>1, <2>4 DEF x
  <2>5. CASE c.gen # gen
    <3>1. c \notin LogTok(gen) /\ c \notin TrendTok(gen)
      BY <2>5 DEF LogTok, TrendTok
    <3>2. Armed' = Armed
      BY <1>10, <2>5 DEF Armed, Follow
    <3> QED BY <1>3, <1>6, <2>1, <2>3, <2>4, <3>1, <3>2
  <2>6. CASE c.gen = gen
    <3>1. Armed' = Armed \cup {leg}
      BY <1>10, <2>6 DEF Armed, Follow
    <3>2. ASSUME NEW K, c \in K, x \notin K, AtMostOne(queue, K)
          PROVE  Without(queue', K) /\ AtMostOne(queue', K) /\ ~Without(queue, K)
      <4>1. Without(Rest, K) /\ ~Without(queue, K) /\ AtMostOne(Rest, K)
        BY <1>1, <3>2, TailKind DEF Rest, c
      <4>2. CASE queue' = Rest
        BY <4>1, <4>2
      <4>3. CASE queue' = Append(Rest, x)
        BY <1>1, <2>1, <3>2, <4>1, <4>3, AppendKind
      <4> QED BY <1>10, <4>1, <4>2, <4>3 DEF x
    <3>3. Without(queue', Later(gen))
      BY <1>3, <2>1, <2>4 DEF OnceInv, Same
    <3>4. Order(Armed, LogQueued, TrendQueued, began)
      BY DEF OnceInv
    <3>5. CASE c.kind \in {"meta", "entry"} /\ leg = "history"
      <4>1. c \in LogTok(gen) /\ c \notin TrendTok(gen)
        BY <1>1, <2>6, <3>5 DEF LogTok, TrendTok
      <4>2. LogQueued /\ ~LogQueued' /\ AtMostOne(queue', LogTok(gen))
        BY <2>1, <3>2, <4>1 DEF OnceInv, LogQueued
      <4>3. (TrendQueued' <=> TrendQueued) /\ AtMostOne(queue', TrendTok(gen))
        BY <2>1, <2>4, <4>1 DEF OnceInv, Same, TrendQueued
      <4>4. Order(Armed', LogQueued', TrendQueued', began')
        BY <3>1, <3>4, <3>5, <4>2, <4>3 DEF Order
      <4>5. done
        BY <4>2 DEF OnceInv
      <4> QED BY <2>3, <3>3, <4>2, <4>3, <4>4, <4>5 DEF OnceInv
    <3>6. CASE c.kind = "trend" /\ leg = "events"
      <4>1. c \notin LogTok(gen) /\ c \in TrendTok(gen)
        BY <1>1, <2>6, <3>6 DEF LogTok, TrendTok
      <4>2. TrendQueued /\ ~TrendQueued' /\ AtMostOne(queue', TrendTok(gen))
        BY <2>1, <3>2, <4>1 DEF OnceInv, TrendQueued
      <4>3. (LogQueued' <=> LogQueued) /\ AtMostOne(queue', LogTok(gen))
        BY <2>1, <2>4, <4>1 DEF OnceInv, Same, LogQueued
      <4>4. Order(Armed', LogQueued', TrendQueued', began')
        BY <3>1, <3>4, <3>6, <4>2, <4>3 DEF Order
      <4>5. done
        BY <4>2 DEF OnceInv
      <4> QED BY <2>3, <3>3, <4>2, <4>3, <4>4, <4>5 DEF OnceInv
    <3> QED BY <1>10, <3>5, <3>6
  <2> QED BY <2>5, <2>6
<1>11. CASE MetaEnd(c, ok)
  <2>1. c.kind = "meta"
    BY <1>11 DEF MetaEnd
  <2>2. \/ queue' = Rest /\ timers' = timers \cup Follow("history", c.gen)
        \/ timers' = timers /\ \E m \in Reported : queue' = Append(Rest, Cmd("entry", 1, Clamp(m), c.gen))
    BY <1>11 DEF MetaEnd
  <2>3. \A m \in Reported : Cmd("entry", 1, Clamp(m), c.gen) \in Commands
    BY <1>2, ClampType, CommandTypes DEF Kinds
  <2>4. \A m \in Reported : /\ Cmd("entry", 1, Clamp(m), c.gen).kind = "entry"
                            /\ Cmd("entry", 1, Clamp(m), c.gen).gen = c.gen
    BY DEF Cmd
  <2> QED BY <1>9, <1>10, <2>1, <2>2, <2>3, <2>4 DEF Legs
<1>12. CASE EntryEnd(c, ok) \/ TrendEnd(c, ok)
  <2>1. [c EXCEPT !.n = @ + 1] \in Commands
    BY <1>1, CommandTypes
  <2>2. [c EXCEPT !.n = @ + 1].kind = c.kind /\ [c EXCEPT !.n = @ + 1].gen = c.gen
    BY <1>1 DEF Commands
  <2>3. \/ c.kind = "entry" /\ queue' = Rest /\ timers' = timers \cup Follow("history", c.gen)
        \/ c.kind = "trend" /\ timers' = timers \cup Follow("events", c.gen)
             /\ (queue' = Rest \/ queue' = Append(Rest, Plain("stamps")))
        \/ /\ c.kind \in {"entry", "trend"} /\ timers' = timers
           /\ queue' = Append(Rest, [c EXCEPT !.n = @ + 1])
    BY <1>12 DEF EntryEnd, TrendEnd, NextRead
  <2> QED BY <1>9, <1>10, <2>1, <2>2, <2>3 DEF Legs
<1>13. \/ c.kind \notin {"meta", "entry", "trend"}
       \/ MetaEnd(c, ok) \/ EntryEnd(c, ok) \/ TrendEnd(c, ok)
  BY DEF Ends, StringEnd, StatsEnd, ClockEnd, DstEnd, OtherEnd, c
<1> QED BY <1>8, <1>11, <1>12, <1>13

\* A leg runs in the attempt that armed it, and takes its timer with it.
LEMMA LegOnce ==
  ASSUME TypeOK, OnceInv, NEW t \in timers,
         \/ InfoLeg(t) \/ StatsLeg(t) \/ ClockLeg(t)
         \/ LogLeg(t) \/ HistoryLeg(t) \/ EventsLeg(t)
  PROVE  OnceInv'
<1>1. /\ queue \in Seq(Commands) /\ gen \in 0..MaxGen /\ 0 \in 0..MaxGen /\ gen \in Nat
      /\ t \in [leg : Legs, gen : 0..MaxGen] /\ began \in [Legs -> Nat]
  BY Bounds DEF TypeOK
<1>2. /\ t.gen = gen /\ gen' = gen /\ done' = done
      /\ t.leg \in Legs /\ began' = [began EXCEPT ![t.leg] = @ + 1]
  BY <1>1 DEF InfoLeg, StatsLeg, ClockLeg, LogLeg, HistoryLeg, EventsLeg, Due, Stale
<1>3. t = [leg |-> t.leg, gen |-> gen]
  BY <1>1, <1>2
<1>4. t.leg \in Armed /\ done
  BY <1>2, <1>3 DEF Armed, OnceInv
<1>5. /\ \A u \in timers : u.gen <= gen
      /\ AtMostOne(queue, LogTok(gen)) /\ AtMostOne(queue, TrendTok(gen))
      /\ Without(queue, Later(gen)) /\ Order(Armed, LogQueued, TrendQueued, began)
  BY DEF OnceInv
\* The timer goes, perhaps for another; a command is queued, or none is.
<1>6. ASSUME timers' = timers \ {t} PROVE Armed' = Armed \ {t.leg}
  BY <1>2, <1>3, <1>6 DEF Armed
<1>7. ASSUME NEW leg \in Legs, timers' = (timers \ {t}) \cup {[leg |-> leg, gen |-> gen]}
      PROVE  Armed' = (Armed \ {t.leg}) \cup {leg}
  BY <1>2, <1>3, <1>7 DEF Armed
<1>8. \/ timers' = timers \ {t}
      \/ \E leg \in Legs : timers' = (timers \ {t}) \cup {[leg |-> leg, gen |-> gen]}
  BY DEF InfoLeg, StatsLeg, ClockLeg, LogLeg, HistoryLeg, EventsLeg, Follow, Legs
<1>9. \A u \in timers' : u.gen <= gen
  BY <1>1, <1>5, <1>8
<1>10. ASSUME NEW K, queue' = queue \/ \E x \in Commands \ K : queue' = Append(queue, x)
       PROVE  /\ Without(queue', K) <=> Without(queue, K)
              /\ AtMostOne(queue, K) => AtMostOne(queue', K)
  <2>1. CASE queue' = queue
    BY <2>1
  <2>2. CASE \E x \in Commands \ K : queue' = Append(queue, x)
    BY <1>1, <2>2, AppendKind
  <2> QED BY <1>10, <2>1, <2>2
<1>11. ASSUME NEW K, NEW x \in Commands, Without(queue, K), queue' = Append(queue, x)
       PROVE  AtMostOne(queue', K)
  BY <1>1, <1>11, AppendKind
\* Where the log and the history are not concerned.
<1>12. ASSUME \/ queue' = queue
              \/ \E x \in Commands : /\ queue' = Append(queue, x)
                                     /\ x.kind \notin {"meta", "entry", "trend"}
       PROVE  /\ (LogQueued' <=> LogQueued) /\ (TrendQueued' <=> TrendQueued)
              /\ AtMostOne(queue', LogTok(gen)) /\ AtMostOne(queue', TrendTok(gen))
              /\ Without(queue', Later(gen))
  <2>1. ASSUME NEW K, \A x \in K : x.kind \in {"meta", "entry", "trend"}
        PROVE  /\ Without(queue', K) <=> Without(queue, K)
               /\ AtMostOne(queue, K) => AtMostOne(queue', K)
    <3>1. queue' = queue \/ \E x \in Commands \ K : queue' = Append(queue, x)
      BY <1>12, <2>1
    <3> QED BY <1>10, <3>1
  <2>2. /\ \A x \in LogTok(gen) : x.kind \in {"meta", "entry", "trend"}
        /\ \A x \in TrendTok(gen) : x.kind \in {"meta", "entry", "trend"}
        /\ \A x \in Later(gen) : x.kind \in {"meta", "entry", "trend"}
    BY DEF LogTok, TrendTok, Later
  <2> QED BY <1>2, <1>5, <2>1, <2>2 DEF LogQueued, TrendQueued
<1>13. CASE InfoLeg(t)
  <2> DEFINE s == [i \in 1..Strings |-> Cmd("string", i, Strings, 0)]
  <2>1. "string" \in Kinds /\ \A i \in 1..Strings : i \in Nat /\ Strings \in Nat
    BY Bounds DEF Kinds
  <2>2. \A i \in 1..Strings : Cmd("string", i, Strings, 0) \in Commands
    BY <1>1, <2>1, CommandTypes, Zenon
  <2>3. \A i \in 1..Strings : /\ Cmd("string", i, Strings, 0) \notin LogTok(gen)
                              /\ Cmd("string", i, Strings, 0) \notin TrendTok(gen)
                              /\ Cmd("string", i, Strings, 0) \notin Later(gen)
    BY DEF Cmd, LogTok, TrendTok, Later
  <2>4. s \in Seq(Commands) /\ Len(s) = Strings
    BY <2>2, Bounds
  <2>5. Without(s, LogTok(gen)) /\ Without(s, TrendTok(gen)) /\ Without(s, Later(gen))
    BY <2>3, <2>4 DEF Without
  <2>6. queue' = queue \o s
    BY <1>13 DEF InfoLeg
  <2> HIDE DEF s
  <2>7. /\ (LogQueued' <=> LogQueued) /\ (TrendQueued' <=> TrendQueued)
        /\ AtMostOne(queue', LogTok(gen)) /\ AtMostOne(queue', TrendTok(gen))
        /\ Without(queue', Later(gen))
    BY <1>1, <1>2, <1>5, <2>4, <2>5, <2>6, StringsKind DEF LogQueued, TrendQueued
  <2>8. t.leg = "info" /\ Armed' = (Armed \ {t.leg}) \cup {"stats"}
    BY <1>7, <1>13 DEF InfoLeg, Due, Legs
  <2>9. Order(Armed', LogQueued', TrendQueued', began')
    BY <1>1, <1>2, <1>4, <1>5, <2>7, <2>8 DEF Order, Legs
  <2> QED BY <1>2, <1>4, <1>9, <2>7, <2>9 DEF OnceInv
<1>14. CASE StatsLeg(t) \/ ClockLeg(t) \/ EventsLeg(t)
  <2>1. t.leg \in {"stats", "clock", "events"} /\ Armed' = Armed \ {t.leg}
    BY <1>6, <1>14 DEF StatsLeg, ClockLeg, EventsLeg, Due
  <2>2. \/ queue' = queue
        \/ \E x \in {Plain("stats"), Plain("other"), Cmd("clock", 0, 0, gen)} : queue' = Append(queue, x)
    BY <1>14 DEF StatsLeg, ClockLeg, EventsLeg
  <2>3. Plain("stats") \in Commands /\ Plain("other") \in Commands /\ Cmd("clock", 0, 0, gen) \in Commands
    BY <1>1, CommandTypes DEF Kinds
  <2>4. \A x \in {Plain("stats"), Plain("other"), Cmd("clock", 0, 0, gen)} :
           x \in Commands /\ x.kind \notin {"meta", "entry", "trend"}
    BY <2>3 DEF Plain, Cmd
  <2>5. /\ (LogQueued' <=> LogQueued) /\ (TrendQueued' <=> TrendQueued)
        /\ AtMostOne(queue', LogTok(gen)) /\ AtMostOne(queue', TrendTok(gen))
        /\ Without(queue', Later(gen))
    BY <1>12, <2>2, <2>4
  <2>6. Order(Armed', LogQueued', TrendQueued', began')
    BY <1>1, <1>2, <1>4, <1>5, <2>1, <2>5 DEF Order, Legs
  <2> QED BY <1>2, <1>4, <1>9, <2>5, <2>6 DEF OnceInv
<1>15. CASE LogLeg(t)
  <2>1. t.leg = "log"
    BY <1>15 DEF LogLeg, Due
  <2>2. CASE LogBusy
    <3>1. queue' = queue /\ Armed' = (Armed \ {t.leg}) \cup {"history"}
      BY <1>7, <1>15, <2>2 DEF LogLeg, Follow, Legs
    <3>2. /\ (LogQueued' <=> LogQueued) /\ (TrendQueued' <=> TrendQueued)
          /\ AtMostOne(queue', LogTok(gen)) /\ AtMostOne(queue', TrendTok(gen))
          /\ Without(queue', Later(gen))
      BY <1>12, <3>1
    <3>3. Order(Armed', LogQueued', TrendQueued', began')
      BY <1>1, <1>2, <1>4, <1>5, <2>1, <3>1, <3>2 DEF Order, Legs
    <3> QED BY <1>2, <1>4, <1>9, <3>2, <3>3 DEF OnceInv
  <2>3. CASE ~LogBusy
    <3> DEFINE x == Cmd("meta", 0, 0, gen)
    <3>1. queue' = Append(queue, x) /\ Armed' = Armed \ {t.leg}
      BY <1>6, <1>15, <2>3 DEF LogLeg
    <3>2. x \in Commands /\ x \notin TrendTok(gen) /\ x \notin Later(gen)
      <4>1. x \in Commands
        BY <1>1, CommandTypes DEF Kinds
      <4>2. x.kind = "meta" /\ x.gen = gen
        BY DEF Cmd
      <4> HIDE DEF x
      <4> QED BY <1>1, <4>1, <4>2 DEF TrendTok, Later
    <3> HIDE DEF x
    <3>3. ~LogQueued /\ ~TrendQueued
      BY <1>4, <1>5, <2>1 DEF Order
    <3>4. AtMostOne(queue', LogTok(gen))
      BY <1>11, <3>1, <3>2, <3>3 DEF LogQueued
    <3>5. /\ TrendQueued' <=> TrendQueued
          /\ AtMostOne(queue', TrendTok(gen)) /\ Without(queue', Later(gen))
      BY <1>2, <1>5, <1>10, <3>1, <3>2 DEF TrendQueued
    <3>6. Order(Armed', LogQueued', TrendQueued', began')
      BY <1>1, <1>2, <1>4, <1>5, <2>1, <3>1, <3>3, <3>5 DEF Order, Legs
    <3> QED BY <1>2, <1>4, <1>9, <3>4, <3>5, <3>6 DEF OnceInv
  <2> QED BY <2>2, <2>3
<1>16. CASE HistoryLeg(t)
  <2> DEFINE x == Cmd("trend", 1, NUM_TRENDS, gen)
  <2>1. t.leg = "history" /\ queue' = Append(queue, x) /\ Armed' = Armed \ {t.leg}
    BY <1>6, <1>16 DEF HistoryLeg, Due
  <2>2. x \in Commands /\ x \notin LogTok(gen) /\ x \notin Later(gen)
    <3>1. x \in Commands
      BY <1>1, Bounds, CommandTypes DEF Kinds
    <3>2. x.kind = "trend" /\ x.gen = gen
      BY DEF Cmd
    <3> HIDE DEF x
    <3> QED BY <1>1, <3>1, <3>2 DEF LogTok, Later
  <2> HIDE DEF x
  <2>3. ~LogQueued /\ ~TrendQueued
    BY <1>4, <1>5, <2>1 DEF Order
  <2>4. AtMostOne(queue', TrendTok(gen))
    BY <1>11, <2>1, <2>2, <2>3 DEF TrendQueued
  <2>5. /\ LogQueued' <=> LogQueued
        /\ AtMostOne(queue', LogTok(gen)) /\ Without(queue', Later(gen))
    BY <1>2, <1>5, <1>10, <2>1, <2>2 DEF LogQueued
  <2>6. Order(Armed', LogQueued', TrendQueued', began')
    BY <1>1, <1>2, <1>4, <1>5, <2>1, <2>3, <2>5 DEF Order, Legs
  <2> QED BY <1>2, <1>4, <1>9, <2>4, <2>5, <2>6 DEF OnceInv
<1> QED BY <1>13, <1>14, <1>15, <1>16

\* No leg of an attempt runs twice, although earlier attempts' reads complete
\* during it and a chain already in flight sends its leg on to the next.
THEOREM OncePerAttempt == Spec => []LegsOnce
<1>1. Init => OnceInv
  <2> SUFFICES ASSUME Init PROVE OnceInv
    OBVIOUS
  <2>1. queue = <<>> /\ timers = {} /\ began = [leg \in Legs |-> 0]
    BY DEF Init
  <2>2. \A K : Without(queue, K) /\ AtMostOne(queue, K)
    BY <2>1 DEF Without, AtMostOne
  <2>3. Armed = {} /\ ~LogQueued /\ ~TrendQueued
    BY <2>1, <2>2 DEF Armed, LogQueued, TrendQueued
  <2> QED BY <2>1, <2>2, <2>3 DEF OnceInv, Order, Legs
<1>2. TypeOK /\ OnceInv /\ [Next]_vars => OnceInv'
  <2> SUFFICES ASSUME TypeOK, OnceInv, [Next]_vars PROVE OnceInv'
    OBVIOUS
  <2>0. queue \in Seq(Commands) /\ gen \in Nat /\ \A u \in timers : u.gen \in Nat /\ u.gen <= gen
    BY DEF TypeOK, OnceInv
  <2>1. CASE Trigger
    <3>1. Armed = {} /\ ~LogQueued /\ ~TrendQueued
      BY <2>1 DEF Trigger, OnceInv
    <3>2. /\ timers' = timers \cup {[leg |-> l, gen |-> gen] : l \in {"info", "clock", "log"}}
          /\ gen' = gen /\ queue' = queue /\ done' = TRUE /\ began' = [leg \in Legs |-> 0]
      BY <2>1 DEF Trigger
    <3>3. Armed' = Armed \cup {"info", "clock", "log"}
      BY <3>2 DEF Armed, Legs
    <3>4. ~LogQueued' /\ ~TrendQueued'
      BY <3>1, <3>2 DEF LogQueued, TrendQueued
    <3>5. Order(Armed', LogQueued', TrendQueued', began')
      BY <3>1, <3>2, <3>3, <3>4 DEF Order, Legs
    <3>6. \A u \in timers' : u.gen <= gen
      BY <2>0, <3>2
    <3> QED BY <3>2, <3>5, <3>6 DEF OnceInv
  <2>2. CASE Leg
    BY <2>2, LegOnce DEF Leg
  <2>3. CASE StaleLeg
    <3>1. PICK t \in timers : Stale(t) /\ timers' = timers \ {t}
      BY <2>3 DEF StaleLeg
    <3>2. Armed' = Armed /\ UNCHANGED <<queue, gen, done, began>>
      BY <2>3, <3>1 DEF StaleLeg, Stale, Armed
    <3>3. (LogQueued' <=> LogQueued) /\ (TrendQueued' <=> TrendQueued)
      BY <3>2 DEF LogQueued, TrendQueued
    <3> QED BY <3>1, <3>2, <3>3 DEF OnceInv, Order
  <2>4. CASE Rearm \/ Disconnect
    <3>1. gen' = gen + 1 /\ UNCHANGED <<queue, timers, began>> /\ done' = FALSE
      BY <2>4 DEF Rearm, Disconnect
    <3>2. Armed' = {}
      BY <2>0, <3>1 DEF Armed
    <3>3. /\ LogTok(gen + 1) \subseteq Later(gen) /\ TrendTok(gen + 1) \subseteq Later(gen)
          /\ Later(gen + 1) \subseteq Later(gen)
      BY <2>0 DEF LogTok, TrendTok, Later, Commands
    <3>4. /\ Without(queue, LogTok(gen + 1)) /\ Without(queue, TrendTok(gen + 1))
          /\ Without(queue, Later(gen + 1))
      BY <3>3 DEF OnceInv, Without
    <3>5. ~LogQueued' /\ ~TrendQueued' /\ AtMostOne(queue, LogTok(gen + 1))
          /\ AtMostOne(queue, TrendTok(gen + 1))
      BY <3>1, <3>4 DEF LogQueued, TrendQueued, Without, AtMostOne
    <3>6. Order(Armed', LogQueued', TrendQueued', began')
      BY <3>1, <3>2, <3>5 DEF Order, OnceInv
    <3>7. \A u \in timers : u.gen <= gen + 1
      BY <2>0
    <3> QED BY <3>1, <3>2, <3>4, <3>5, <3>6, <3>7 DEF OnceInv
  <2>5. CASE Complete \/ DrainStep
    <3>1. PICK ok \in BOOLEAN : Ends(Head(queue), ok)
      BY <2>5 DEF Complete, DrainStep
    <3> QED BY <2>5, <3>1, EndsOnce DEF Complete, DrainStep
  <2>6. CASE Ready
    <3>1. UNCHANGED <<queue, timers, gen, done, began>>
      BY <2>6 DEF Ready
    <3> QED BY <3>1 DEF OnceInv, Order, Armed, LogQueued, TrendQueued
  <2>7. CASE DrainEnd
    <3>1. queue' = <<>> /\ UNCHANGED <<timers, gen, done, began>>
      BY <2>7 DEF DrainEnd
    <3>2. \A K : Without(queue', K) /\ AtMostOne(queue', K)
      BY <3>1 DEF Without, AtMostOne
    <3>3. ~LogQueued' /\ ~TrendQueued' /\ Armed' = Armed
      BY <3>1, <3>2 DEF LogQueued, TrendQueued, Armed
    <3> QED BY <3>1, <3>2, <3>3 DEF OnceInv, Order
  <2>8. CASE UNCHANGED vars
    BY <2>8 DEF vars, OnceInv, Order, Armed, LogQueued, TrendQueued
  <2> QED BY <2>1, <2>2, <2>3, <2>4, <2>5, <2>6, <2>7, <2>8 DEF Next
<1>3. OnceInv => LegsOnce
  BY DEF OnceInv, Order, LegsOnce
<1> QED BY <1>1, <1>2, <1>3, TypeCorrect, PTL DEF Spec
-----------------------------------------------------------------------------
(* The device information.                                                  *)

IsString(q, i) == q[i].kind = "string"
NoStrings(q)   == \A i \in 1..Len(q) : ~IsString(q, i)

\* The oldest string in q.
First(q, h) == IsString(q, h) /\ \A k \in 1..Len(q) : k < h => ~IsString(q, k)

\* The strings are asked for in turn, and a restarted read begins over where
\* the last one ends.
Succ(n) == IF n = Strings THEN 1 ELSE n + 1
Cycle(q) ==
  \A i \in 1..Len(q) : IsString(q, i) =>
    /\ q[i].n \in 1..Strings
    /\ \A j \in 1..Len(q) :
         IsString(q, j) /\ i < j /\ (\A k \in 1..Len(q) : i < k /\ k < j => ~IsString(q, k))
           => q[j].n = Succ(q[i].n)
    /\ (\A k \in 1..Len(q) : i < k => ~IsString(q, k)) => q[i].n = Strings

\* How many strings end before m does, when h is next.
Dist(h, m) == IF m >= h THEN m - h ELSE m - h + Strings

\* A count i that is running and has seen no failure lacks of the strings read, r,
\* only those among the next i.pending, whichever read they were queued by.
Counted(q, i, r) ==
  i.armed /\ i.failed = 0 =>
    \A h \in 1..Len(q) : First(q, h) =>
      \A m \in 1..Strings : Dist(q[h].n, m) >= i.pending => m \in r

\* The count is of this link: no leg that asks for strings outlives a drop, and
\* nothing that was asked for does.
InfoInv ==
  /\ Cycle(queue) /\ read \subseteq 1..Strings
  /\ Draining => ~link
  /\ \A t \in timers : t.leg = "info" => t.gen <= gen /\ (t.gen = gen => link)
  /\ ~link /\ ~Draining => NoStrings(queue)
  /\ link => Counted(queue, info, read)
  /\ ~link => ~info.ok
  /\ InfoReadHere

\* The oldest string of r is the oldest of q.
SameFirst(r, q) ==
  \A h \in 1..Len(r) : First(r, h) => \E g \in 1..Len(q) : First(q, g) /\ q[g].n = r[h].n

LEMMA TailStrings ==
  ASSUME NEW q \in Seq(Commands), q # <<>>, Cycle(q)
  PROVE  /\ Cycle(Tail(q)) /\ (NoStrings(q) => NoStrings(Tail(q)))
         /\ ~IsString(q, 1) => SameFirst(Tail(q), q)
         /\ IsString(q, 1) => \A h \in 1..Len(Tail(q)) :
              First(Tail(q), h) => Tail(q)[h].n = Succ(q[1].n)
         /\ Head(q) = q[1] /\ 1 \in 1..Len(q)
<1> DEFINE r == Tail(q)
<1>1. Len(q) \in Nat /\ Len(q) >= 1 /\ Len(r) = Len(q) - 1 /\ Head(q) = q[1] /\ 1 \in 1..Len(q)
  OBVIOUS
<1>2. \A i \in 1..Len(r) : r[i] = q[i + 1] /\ i + 1 \in 1..Len(q) /\ i \in Nat
  BY <1>1
<1>3. \A i \in 1..Len(q) : i = 1 \/ (i - 1 \in 1..Len(r) /\ r[i - 1] = q[i])
  BY <1>1
<1> HIDE DEF r
<1>4. \A i \in 1..Len(r) : IsString(r, i) <=> IsString(q, i + 1)
  BY <1>2 DEF IsString
<1>5. \A k \in 1..Len(q) : k > 1 => k - 1 \in 1..Len(r) /\ (IsString(r, k - 1) <=> IsString(q, k))
  BY <1>3 DEF IsString
<1>6. Cycle(r)
  <2> SUFFICES ASSUME NEW i \in 1..Len(r), IsString(r, i)
               PROVE  /\ r[i].n \in 1..Strings
                      /\ \A j \in 1..Len(r) :
                           IsString(r, j) /\ i < j
                             /\ (\A k \in 1..Len(r) : i < k /\ k < j => ~IsString(r, k))
                           => r[j].n = Succ(r[i].n)
                      /\ (\A k \in 1..Len(r) : i < k => ~IsString(r, k)) => r[i].n = Strings
    BY DEF Cycle
  <2>1. i + 1 \in 1..Len(q) /\ IsString(q, i + 1) /\ r[i] = q[i + 1] /\ i \in Nat
    BY <1>2, <1>4
  <2>2. q[i + 1].n \in 1..Strings
    BY <2>1 DEF Cycle
  <2>3. ASSUME NEW j \in 1..Len(r), IsString(r, j), i < j,
               \A k \in 1..Len(r) : i < k /\ k < j => ~IsString(r, k)
        PROVE  r[j].n = Succ(r[i].n)
    <3>1. j + 1 \in 1..Len(q) /\ IsString(q, j + 1) /\ r[j] = q[j + 1] /\ j \in Nat
      BY <1>2, <1>4, <2>3
    <3>2. ASSUME NEW k \in 1..Len(q), i + 1 < k, k < j + 1 PROVE ~IsString(q, k)
      <4>1. k - 1 \in 1..Len(r) /\ i < k - 1 /\ k - 1 < j /\ k > 1
        BY <1>5, <2>1, <3>1, <3>2
      <4> QED BY <1>5, <2>3, <4>1
    <3>3. i + 1 < j + 1
      BY <2>1, <2>3, <3>1
    <3>4. q[j + 1].n = Succ(q[i + 1].n)
      BY <2>1, <3>1, <3>2, <3>3 DEF Cycle
    <3> QED BY <2>1, <3>1, <3>4
  <2>4. ASSUME \A k \in 1..Len(r) : i < k => ~IsString(r, k)
        PROVE  r[i].n = Strings
    <3>1. ASSUME NEW k \in 1..Len(q), i + 1 < k PROVE ~IsString(q, k)
      <4>1. k - 1 \in 1..Len(r) /\ i < k - 1 /\ k > 1
        BY <1>5, <2>1, <3>1
      <4> QED BY <1>5, <2>4, <4>1
    <3> QED BY <2>1, <3>1 DEF Cycle
  <2> QED BY <2>1, <2>2, <2>3, <2>4
<1>7. NoStrings(q) => NoStrings(r)
  BY <1>2, <1>4 DEF NoStrings
<1>8. ASSUME ~IsString(q, 1) PROVE SameFirst(r, q)
  <2> SUFFICES ASSUME NEW h \in 1..Len(r), First(r, h)
               PROVE  \E g \in 1..Len(q) : First(q, g) /\ q[g].n = r[h].n
    BY DEF SameFirst
  <2>1. h + 1 \in 1..Len(q) /\ r[h] = q[h + 1] /\ IsString(q, h + 1) /\ h \in Nat
    BY <1>2, <1>4 DEF First
  <2>2. ASSUME NEW k \in 1..Len(q), k < h + 1 PROVE ~IsString(q, k)
    <3>1. CASE k = 1
      BY <1>8, <3>1
    <3>2. CASE k # 1
      <4>1. k > 1 /\ k - 1 < h
        BY <2>1, <2>2, <3>2
      <4> QED BY <1>5, <4>1 DEF First
    <3> QED BY <3>1, <3>2
  <2> QED BY <2>1, <2>2 DEF First
<1>9. ASSUME IsString(q, 1), NEW h \in 1..Len(r), First(r, h)
      PROVE  r[h].n = Succ(q[1].n)
  <2>1. h + 1 \in 1..Len(q) /\ r[h] = q[h + 1] /\ IsString(q, h + 1) /\ h \in Nat /\ 1 < h + 1
    BY <1>2, <1>4, <1>9 DEF First
  <2>2. ASSUME NEW k \in 1..Len(q), 1 < k, k < h + 1 PROVE ~IsString(q, k)
    <3>1. k - 1 < h
      BY <2>1, <2>2
    <3> QED BY <1>5, <1>9, <2>2, <3>1 DEF First
  <2> QED BY <1>1, <1>9, <2>1, <2>2 DEF Cycle
<1> QED BY <1>1, <1>6, <1>7, <1>8, <1>9 DEF r

\* A command that is no string joins.
LEMMA AppendStrings ==
  ASSUME NEW q \in Seq(Commands), NEW c \in Commands, c.kind # "string", Cycle(q)
  PROVE  /\ Cycle(Append(q, c)) /\ SameFirst(Append(q, c), q)
         /\ NoStrings(q) => NoStrings(Append(q, c))
<1> DEFINE r == Append(q, c)
<1>1. /\ Len(r) = Len(q) + 1 /\ r[Len(q) + 1] = c /\ Len(q) \in Nat
      /\ \A i \in 1..Len(q) : r[i] = q[i] /\ i \in 1..Len(r)
  OBVIOUS
<1> HIDE DEF r
<1>2. \A i \in 1..Len(r) : i \in 1..Len(q) \/ i = Len(q) + 1
  BY <1>1
<1>3. \A i \in 1..Len(r) : IsString(r, i) => i \in 1..Len(q) /\ r[i] = q[i] /\ IsString(q, i)
  BY <1>1, <1>2 DEF IsString
<1>4. \A i \in 1..Len(q) : IsString(q, i) => IsString(r, i) /\ i \in 1..Len(r)
  BY <1>1 DEF IsString
<1>5. Cycle(r)
  <2> SUFFICES ASSUME NEW i \in 1..Len(r), IsString(r, i)
               PROVE  /\ r[i].n \in 1..Strings
                      /\ \A j \in 1..Len(r) :
                           IsString(r, j) /\ i < j
                             /\ (\A k \in 1..Len(r) : i < k /\ k < j => ~IsString(r, k))
                           => r[j].n = Succ(r[i].n)
                      /\ (\A k \in 1..Len(r) : i < k => ~IsString(r, k)) => r[i].n = Strings
    BY DEF Cycle
  <2>1. i \in 1..Len(q) /\ r[i] = q[i] /\ IsString(q, i)
    BY <1>3
  <2> QED BY <1>3, <1>4, <2>1 DEF Cycle
<1>6. SameFirst(r, q)
  BY <1>3, <1>4 DEF SameFirst, First
<1>7. NoStrings(q) => NoStrings(r)
  BY <1>3 DEF NoStrings
<1> QED BY <1>5, <1>6, <1>7 DEF r

\* All the strings join.
Asked == [s \in 1..Strings |-> Cmd("string", s, Strings, 0)]

LEMMA ConcatStrings ==
  ASSUME NEW q \in Seq(Commands), Cycle(q)
  PROVE  Cycle(q \o Asked)
<1> DEFINE r == q \o Asked
           n == Len(q)
<1>1. Strings \in Nat /\ Strings >= 1 /\ n \in Nat
  BY Bounds
<1>2. Asked \in Seq(Commands) /\ Len(Asked) = Strings
  <2>1. "string" \in Kinds /\ 0 \in 0..MaxGen /\ \A s \in 1..Strings : s \in Nat
    BY Bounds DEF Kinds
  <2>2. \A s \in 1..Strings : Cmd("string", s, Strings, 0) \in Commands
    BY <1>1, <2>1, CommandTypes, Zenon
  <2> QED BY <1>1, <2>2 DEF Asked
<1>3. /\ Len(r) = n + Strings
      /\ \A i \in 1..n : r[i] = q[i] /\ i \in 1..Len(r)
      /\ \A i \in 1..Len(r) : i \notin 1..n => i - n \in 1..Strings /\ r[i] = Asked[i - n]
  BY <1>1, <1>2
<1> HIDE DEF r, n
<1>4. \A i \in 1..Strings : Asked[i].kind = "string" /\ Asked[i].n = i
  BY DEF Asked, Cmd
<1>5. \A i \in 1..Len(r) : i \notin 1..n => IsString(r, i) /\ r[i].n = i - n /\ i > n
  BY <1>1, <1>3, <1>4 DEF IsString
<1>6. \A i \in 1..n : IsString(r, i) <=> IsString(q, i)
  BY <1>3 DEF IsString
<1>7. ASSUME NEW i \in 1..Len(r), IsString(r, i)
      PROVE  /\ r[i].n \in 1..Strings
             /\ \A j \in 1..Len(r) :
                  IsString(r, j) /\ i < j
                    /\ (\A k \in 1..Len(r) : i < k /\ k < j => ~IsString(r, k))
                  => r[j].n = Succ(r[i].n)
             /\ (\A k \in 1..Len(r) : i < k => ~IsString(r, k)) => r[i].n = Strings
  <2>1. CASE i \in 1..n
    <3>1. IsString(q, i) /\ r[i] = q[i] /\ i \in Nat
      BY <1>3, <1>6, <1>7, <2>1
    <3>2. r[i].n \in 1..Strings
      BY <2>1, <3>1 DEF Cycle, n
    <3>3. ASSUME NEW j \in 1..Len(r), IsString(r, j), i < j,
                 \A k \in 1..Len(r) : i < k /\ k < j => ~IsString(r, k)
          PROVE  r[j].n = Succ(r[i].n)
      <4>1. CASE j \in 1..n
        <5>1. \A k \in 1..n : i < k /\ k < j => ~IsString(q, k)
          BY <1>3, <1>6, <3>3
        <5>2. IsString(q, j) /\ r[j] = q[j]
          BY <1>3, <1>6, <3>3, <4>1
        <5> QED BY <2>1, <3>1, <3>3, <4>1, <5>1, <5>2 DEF Cycle, n
      <4>2. CASE j \notin 1..n
        <5>1. r[j].n = j - n /\ j > n /\ j \in Nat
          BY <1>5, <4>2
        <5>2. n + 1 \in 1..Len(r) /\ n + 1 \notin 1..n /\ i < n + 1
          BY <1>1, <1>3, <2>1
        <5>3. j = n + 1
          BY <1>1, <1>5, <3>3, <5>1, <5>2
        <5>4. \A k \in 1..n : i < k => ~IsString(q, k)
          BY <1>1, <1>3, <1>6, <3>3, <5>3
        <5>5. q[i].n = Strings
          BY <2>1, <3>1, <5>4 DEF Cycle, n
        <5> QED BY <1>1, <3>1, <5>1, <5>3, <5>5 DEF Succ
      <4> QED BY <4>1, <4>2
    <3>4. ~(\A k \in 1..Len(r) : i < k => ~IsString(r, k))
      <4>1. n + 1 \in 1..Len(r) /\ n + 1 \notin 1..n /\ i < n + 1
        BY <1>1, <1>3, <2>1
      <4> QED BY <1>5, <4>1
    <3> QED BY <3>2, <3>3, <3>4
  <2>2. CASE i \notin 1..n
    <3>1. r[i].n = i - n /\ i > n /\ i \in Nat /\ i <= n + Strings
      BY <1>3, <1>5, <2>2
    <3>2. r[i].n \in 1..Strings
      BY <1>1, <3>1
    <3>3. ASSUME NEW j \in 1..Len(r), IsString(r, j), i < j,
                 \A k \in 1..Len(r) : i < k /\ k < j => ~IsString(r, k)
          PROVE  r[j].n = Succ(r[i].n)
      <4>1. j > n /\ r[j].n = j - n /\ j \in Nat /\ j <= n + Strings
        BY <1>1, <1>3, <1>5, <3>1, <3>3
      <4>2. i + 1 \in 1..Len(r) /\ i + 1 \notin 1..n /\ i < i + 1
        BY <1>1, <1>3, <3>1, <3>3, <4>1
      <4>3. j = i + 1
        BY <1>5, <3>1, <3>3, <4>1, <4>2
      <4> QED BY <1>1, <3>1, <4>1, <4>3 DEF Succ
    <3>4. ASSUME \A k \in 1..Len(r) : i < k => ~IsString(r, k)
          PROVE  r[i].n = Strings
      <4>1. n + Strings \in 1..Len(r) /\ n + Strings \notin 1..n
        BY <1>1, <1>3
      <4>2. ~(i < n + Strings)
        BY <1>5, <3>4, <4>1
      <4> QED BY <1>1, <3>1, <4>2
    <3> QED BY <3>2, <3>3, <3>4
  <2> QED BY <2>1, <2>2
<1> QED BY <1>7 DEF Cycle, r

\* The strings are dealt in turn.
LEMMA DistTurn ==
  ASSUME NEW n \in 1..Strings, NEW m \in 1..Strings
  PROVE  /\ Dist(n, m) \in 0..(Strings - 1) /\ (Dist(n, m) = 0 <=> m = n)
         /\ m # n => Dist(Succ(n), m) = Dist(n, m) - 1
  BY Bounds DEF Dist, Succ

\* What leaves no new string first leaves the count right.
LEMMA SameCount ==
  ASSUME NEW q, NEW p, NEW i, NEW r, SameFirst(p, q), Counted(q, i, r)
  PROVE  Counted(p, i, r)
<1> SUFFICES ASSUME i.armed, i.failed = 0, NEW h \in 1..Len(p), First(p, h),
                    NEW m \in 1..Strings, Dist(p[h].n, m) >= i.pending
             PROVE  m \in r
  BY DEF Counted
<1>1. PICK g \in 1..Len(q) : First(q, g) /\ q[g].n = p[h].n
  BY DEF SameFirst
<1> QED BY <1>1 DEF Counted

\* A string's end: the turn passes, and the count with it.
LEMMA StringCounts ==
  ASSUME TypeOK, InfoInv, queue # <<>>, NEW ok \in BOOLEAN, StringEnd(Head(queue), ok),
         ~link => ~ok
  PROVE  /\ Cycle(queue') /\ read' \subseteq 1..Strings
         /\ link => Counted(queue', info', read') /\ (info'.ok => read' = 1..Strings)
         /\ ~link => ~info'.ok
         /\ timers' = timers /\ ~NoStrings(queue)
<1> DEFINE c == Head(queue)
<1>1. /\ queue \in Seq(Commands) /\ Cycle(queue)
      /\ info \in [pending : Int, failed : Nat, armed : BOOLEAN, ok : BOOLEAN]
      /\ link \in BOOLEAN
  BY DEF TypeOK, InfoInv
<1>2. /\ c = queue[1] /\ 1 \in 1..Len(queue) /\ Cycle(Rest)
      /\ IsString(queue, 1) => \A h \in 1..Len(Rest) :
           First(Rest, h) => Rest[h].n = Succ(queue[1].n)
  BY <1>1, TailStrings DEF Rest
<1> HIDE DEF c
<1>3. /\ c.kind = "string" /\ queue' = Rest /\ timers' = timers
      /\ read' = IF ok THEN read \cup {c.n} ELSE read
  BY DEF StringEnd, c
<1>4. IsString(queue, 1) /\ c.n \in 1..Strings
  BY <1>1, <1>2, <1>3 DEF IsString, Cycle
<1>5. First(queue, 1)
  BY <1>4 DEF First
<1>6. read' \subseteq 1..Strings /\ read \subseteq read'
  BY <1>3, <1>4 DEF InfoInv
<1>7. PICK i \in {[info EXCEPT !.pending = @ - 1, !.failed = IF ok THEN @ ELSE @ + 1]} :
        info' = IF i.pending = 0 /\ i.armed
                  THEN [i EXCEPT !.armed = FALSE, !.ok = i.ok \/ AllOk(i)] ELSE i
  BY DEF StringEnd
<1>8. i = [info EXCEPT !.pending = @ - 1, !.failed = IF ok THEN @ ELSE @ + 1]
  BY <1>7
<1>9. /\ i.pending = info.pending - 1 /\ i.armed = info.armed /\ i.ok = info.ok
      /\ i.failed = (IF ok THEN info.failed ELSE info.failed + 1)
      /\ i \in [pending : Int, failed : Nat, armed : BOOLEAN, ok : BOOLEAN]
  <2>1. info.pending - 1 \in Int /\ (IF ok THEN info.failed ELSE info.failed + 1) \in Nat
    BY <1>1
  <2>2. i = [info EXCEPT !.pending = info.pending - 1,
                         !.failed = IF ok THEN info.failed ELSE info.failed + 1]
    BY <1>8
  <2> QED BY <1>1, <2>1, <2>2
<1>10. /\ info'.pending = i.pending /\ info'.failed = i.failed
       /\ info'.armed => info.armed
       /\ info'.ok => info.ok \/ (i.pending = 0 /\ i.armed /\ i.failed = 0)
  <2>1. CASE i.pending = 0 /\ i.armed
    <3>1. info' = [i EXCEPT !.armed = FALSE, !.ok = i.ok \/ AllOk(i)]
      BY <1>7, <2>1
    <3> QED BY <1>9, <2>1, <3>1 DEF AllOk
  <2>2. CASE ~(i.pending = 0 /\ i.armed)
    <3>1. info' = i
      BY <1>7, <2>2
    <3> QED BY <1>9, <3>1
  <2> QED BY <2>1, <2>2
<1>11. ~ok => i.failed # 0
  BY <1>1, <1>9
\* A count without failures lacks only what is next.
<1>12. ASSUME link, ok, info.armed, info.failed = 0
       PROVE  \A m \in 1..Strings : m = c.n \/ (Dist(c.n, m) >= info.pending => m \in read)
  BY <1>2, <1>5, <1>12 DEF InfoInv, Counted
<1>13. ASSUME link PROVE Counted(queue', info', read')
  <2> SUFFICES ASSUME info'.armed, info'.failed = 0, NEW h \in 1..Len(Rest), First(Rest, h),
                      NEW m \in 1..Strings, Dist(Rest[h].n, m) >= info'.pending
               PROVE  m \in read'
    BY <1>3 DEF Counted
  <2>1. ok /\ info.armed /\ info.failed = 0
    BY <1>9, <1>10, <1>11
  <2>2. Rest[h].n = Succ(c.n)
    BY <1>2, <1>4
  <2>3. CASE m = c.n
    BY <1>3, <2>1, <2>3
  <2>4. CASE m # c.n
    <3>1. Dist(c.n, m) - 1 >= info.pending - 1 /\ Dist(c.n, m) \in Int
      BY <1>4, <1>9, <1>10, <2>2, <2>4, DistTurn
    <3>2. Dist(c.n, m) >= info.pending
      BY <1>1, <3>1
    <3> QED BY <1>6, <1>12, <1>13, <2>1, <2>4, <3>2
  <2> QED BY <2>3, <2>4
<1>14. ASSUME link, info'.ok PROVE read' = 1..Strings
  <2>1. CASE info.ok
    <3>1. read = 1..Strings
      BY <2>1 DEF InfoInv, InfoReadHere
    <3> QED BY <1>6, <3>1
  <2>2. CASE ~info.ok
    <3>1. i.pending = 0 /\ i.armed /\ i.failed = 0
      BY <1>10, <1>14, <2>2
    <3>2. ok /\ info.armed /\ info.failed = 0 /\ info.pending = 1
      BY <1>1, <1>9, <1>11, <3>1
    <3>3. ASSUME NEW m \in 1..Strings PROVE m \in read'
      <4>1. m = c.n \/ Dist(c.n, m) >= info.pending
        BY <1>4, <3>2, DistTurn
      <4> QED BY <1>3, <1>6, <1>12, <1>14, <3>2, <4>1
    <3> QED BY <1>6, <3>3
  <2> QED BY <2>1, <2>2
<1>15. ASSUME ~link PROVE ~info'.ok
  BY <1>10, <1>11, <1>15 DEF InfoInv
<1>16. ~NoStrings(queue)
  BY <1>2, <1>4 DEF NoStrings
<1> QED BY <1>2, <1>3, <1>6, <1>13, <1>14, <1>15, <1>16

\* Another command's end: no string is first that was not.
LEMMA OthersCount ==
  ASSUME TypeOK, Cycle(queue), queue # <<>>, NEW ok \in BOOLEAN, Ends(Head(queue), ok),
         ~StringEnd(Head(queue), ok)
  PROVE  /\ Cycle(queue') /\ SameFirst(queue', queue) /\ (NoStrings(queue) => NoStrings(queue'))
         /\ info' = info /\ read' = read
         /\ \A t \in timers' : t.leg = "info" => t \in timers
<1> DEFINE c == Head(queue)
<1>1. /\ queue \in Seq(Commands) /\ c \in Commands /\ Rest \in Seq(Commands)
      /\ c.kind \in Kinds /\ c.gen \in 0..MaxGen
  <2>1. c \in Commands /\ queue \in Seq(Commands) /\ Rest \in Seq(Commands)
    BY DEF TypeOK, Rest
  <2> QED BY <2>1 DEF Commands
<1>2. /\ c = queue[1] /\ Cycle(Rest) /\ (NoStrings(queue) => NoStrings(Rest))
      /\ ~IsString(queue, 1) => SameFirst(Rest, queue)
  BY <1>1, TailStrings DEF Rest
<1> HIDE DEF c
<1>3. /\ info' = info /\ read' = read /\ c.kind # "string"
      /\ \/ timers' = timers \/ timers' = timers \cup Follow("history", c.gen)
         \/ timers' = timers \cup Follow("events", c.gen)
  BY DEF Ends, StatsEnd, ClockEnd, DstEnd, MetaEnd, EntryEnd, TrendEnd, OtherEnd, chains, c
<1>4. \/ queue' = Rest
      \/ \E x \in Commands : x.kind # "string" /\ queue' = Append(Rest, x)
  <2>1. /\ [c EXCEPT !.n = @ + 1] \in Commands /\ [c EXCEPT !.n = @ + 1].kind = c.kind
        /\ [c EXCEPT !.kind = "dst"] \in Commands /\ [c EXCEPT !.kind = "dst"].kind = "dst"
    <3>1. [c EXCEPT !.n = @ + 1] \in Commands /\ [c EXCEPT !.kind = "dst"] \in Commands
      BY <1>1, CommandTypes
    <3> QED BY <1>1, <3>1 DEF Commands
  <2>2. Plain("stamps") \in Commands /\ Plain("stamps").kind = "stamps"
    BY CommandTypes DEF Kinds, Plain, Cmd
  <2>3. \A m \in Reported : /\ Cmd("entry", 1, Clamp(m), c.gen) \in Commands
                            /\ Cmd("entry", 1, Clamp(m), c.gen).kind = "entry"
    <3>1. \A m \in Reported : Cmd("entry", 1, Clamp(m), c.gen) \in Commands
      BY <1>1, ClampType, CommandTypes DEF Kinds
    <3> QED BY <3>1 DEF Cmd
  <2>4. \/ queue' = Rest \/ queue' = Append(Rest, [c EXCEPT !.kind = "dst"])
        \/ queue' = Append(Rest, [c EXCEPT !.n = @ + 1])
        \/ queue' = Append(Rest, Plain("stamps"))
        \/ \E m \in Reported : queue' = Append(Rest, Cmd("entry", 1, Clamp(m), c.gen))
    BY DEF Ends, StatsEnd, ClockEnd, DstEnd, MetaEnd, EntryEnd, TrendEnd, OtherEnd, NextRead, c
  <2> QED BY <1>3, <2>1, <2>2, <2>3, <2>4
<1>5. ~IsString(queue, 1)
  BY <1>2, <1>3 DEF IsString
<1>6. Cycle(queue') /\ SameFirst(queue', Rest) /\ (NoStrings(Rest) => NoStrings(queue'))
  <2>1. CASE queue' = Rest
    BY <1>2, <2>1 DEF SameFirst
  <2>2. CASE queue' # Rest
    BY <1>1, <1>2, <1>4, <2>2, AppendStrings
  <2> QED BY <2>1, <2>2
<1>7. SameFirst(queue', queue)
  BY <1>2, <1>5, <1>6 DEF SameFirst
<1> QED BY <1>2, <1>3, <1>6, <1>7 DEF Follow

\* Every callback keeps the count.
LEMMA EndsCount ==
  ASSUME TypeOK, InfoInv, queue # <<>>, NEW ok \in BOOLEAN, Ends(Head(queue), ok),
         ~link => ~ok, UNCHANGED <<link, gen>>, Draining' <=> Draining
  PROVE  InfoInv'
<1>1. CASE StringEnd(Head(queue), ok)
  BY <1>1, StringCounts DEF InfoInv, InfoReadHere
<1>2. CASE ~StringEnd(Head(queue), ok)
  <2>1. /\ Cycle(queue') /\ SameFirst(queue', queue) /\ (NoStrings(queue) => NoStrings(queue'))
        /\ info' = info /\ read' = read
        /\ \A t \in timers' : t.leg = "info" => t \in timers
    BY <1>2, OthersCount DEF InfoInv
  <2>2. link => Counted(queue', info', read')
    BY <2>1, SameCount DEF InfoInv
  <2> QED BY <2>1, <2>2 DEF InfoInv, InfoReadHere
<1> QED BY <1>1, <1>2

\* Every leg keeps it too: the one that asks for the strings counts them all.
LEMMA LegCount ==
  ASSUME TypeOK, InfoInv, NEW t \in timers,
         \/ InfoLeg(t) \/ StatsLeg(t) \/ ClockLeg(t)
         \/ LogLeg(t) \/ HistoryLeg(t) \/ EventsLeg(t)
  PROVE  InfoInv'
<1>1. /\ queue \in Seq(Commands) /\ gen \in 0..MaxGen /\ 0 \in 0..MaxGen
      /\ info \in [pending : Int, failed : Nat, armed : BOOLEAN, ok : BOOLEAN]
      /\ link \in BOOLEAN
  BY Bounds DEF TypeOK
<1>2. /\ UNCHANGED <<link, steps, gen, read>> /\ t.gen = gen /\ ~Draining
      /\ \A u \in timers' : u.leg = "info" => u \in timers
  BY DEF InfoLeg, StatsLeg, ClockLeg, LogLeg, HistoryLeg, EventsLeg, Due, Stale, Follow, chains
<1>3. ~Draining'
  BY <1>2 DEF Draining
<1>4. CASE InfoLeg(t)
  <2>1. /\ queue' = queue \o Asked /\ t.leg = "info"
        /\ info' = [info EXCEPT !.pending = Strings, !.failed = 0, !.armed = TRUE]
    BY <1>4 DEF InfoLeg, Due, Asked
  <2>2. link
    BY <1>2, <2>1 DEF InfoInv
  <2>3. info'.pending = Strings /\ info'.ok = info.ok
    BY <1>1, <2>1
  <2>4. Cycle(queue')
    BY <1>1, <2>1, ConcatStrings DEF InfoInv
  <2>5. Counted(queue', info', read')
    <3>1. SUFFICES ASSUME NEW h \in 1..Len(queue'), First(queue', h), NEW m \in 1..Strings
                   PROVE  ~(Dist(queue'[h].n, m) >= Strings)
      BY <2>3 DEF Counted
    <3>2. queue'[h].n \in 1..Strings
      BY <2>4, <3>1 DEF Cycle, First
    <3>3. Dist(queue'[h].n, m) \in 0..(Strings - 1)
      BY <3>2, DistTurn
    <3> QED BY <3>3, Bounds
  <2> QED BY <1>2, <1>3, <2>2, <2>3, <2>4, <2>5 DEF InfoInv, InfoReadHere
<1>5. CASE ~InfoLeg(t)
  <2>1. info' = info
    BY <1>5 DEF StatsLeg, ClockLeg, LogLeg, HistoryLeg, EventsLeg, chains
  <2>2. \/ queue' = queue
        \/ \E x \in {Plain("stats"), Plain("other"), Cmd("clock", 0, 0, gen),
                    Cmd("meta", 0, 0, gen), Cmd("trend", 1, NUM_TRENDS, gen)} :
             queue' = Append(queue, x)
    BY <1>5 DEF StatsLeg, ClockLeg, LogLeg, HistoryLeg, EventsLeg
  <2>3. \A x \in {Plain("stats"), Plain("other"), Cmd("clock", 0, 0, gen),
                 Cmd("meta", 0, 0, gen), Cmd("trend", 1, NUM_TRENDS, gen)} :
          x \in Commands /\ x.kind # "string"
    <3>1. /\ Plain("stats") \in Commands /\ Plain("other") \in Commands
          /\ Cmd("clock", 0, 0, gen) \in Commands /\ Cmd("meta", 0, 0, gen) \in Commands
          /\ Cmd("trend", 1, NUM_TRENDS, gen) \in Commands
      BY <1>1, CommandTypes, Bounds DEF Kinds
    <3>2. \A x \in {Plain("stats"), Plain("other"), Cmd("clock", 0, 0, gen),
                   Cmd("meta", 0, 0, gen), Cmd("trend", 1, NUM_TRENDS, gen)} : x.kind # "string"
      BY DEF Plain, Cmd
    <3> QED BY <3>1, <3>2
  <2>4. Cycle(queue') /\ SameFirst(queue', queue) /\ (NoStrings(queue) => NoStrings(queue'))
    <3>1. CASE queue' = queue
      BY <3>1 DEF SameFirst, InfoInv
    <3>2. CASE queue' # queue
      BY <1>1, <2>2, <2>3, <3>2, AppendStrings DEF InfoInv
    <3> QED BY <3>1, <3>2
  <2>5. link => Counted(queue', info', read')
    BY <1>2, <2>1, <2>4, SameCount DEF InfoInv
  <2> QED BY <1>2, <1>3, <2>1, <2>4, <2>5 DEF InfoInv, InfoReadHere
<1> QED BY <1>4, <1>5

\* The device information counts as read only when every string was read over
\* the link that is up, although a restarted read counts with the strings of
\* the last one still queued and a drop fails what it finds.
THEOREM InfoOfThisLink == Spec => []InfoReadHere
<1>1. Init => InfoInv
  <2> SUFFICES ASSUME Init PROVE InfoInv
    OBVIOUS
  <2>1. queue = <<>> /\ timers = {} /\ read = {} /\ ~link /\ ~Draining /\ ~info.ok
    BY DEF Init, Draining
  <2>2. Cycle(queue) /\ NoStrings(queue)
    BY <2>1 DEF Cycle, NoStrings
  <2> QED BY <2>1, <2>2 DEF InfoInv, InfoReadHere
<1>2. TypeOK /\ InfoInv /\ [Next]_vars => InfoInv'
  <2> SUFFICES ASSUME TypeOK, InfoInv, [Next]_vars PROVE InfoInv'
    OBVIOUS
  <2>0. /\ \A u \in timers : u.gen \in Nat /\ (u.leg = "info" => u.gen <= gen)
        /\ gen \in Nat /\ steps \in Idle..MAX_ABANDON_STEPS /\ link \in BOOLEAN
        /\ info \in [pending : Int, failed : Nat, armed : BOOLEAN, ok : BOOLEAN]
    BY DEF TypeOK, InfoInv
  <2>1. CASE Trigger
    <3>1. /\ UNCHANGED <<link, queue, steps, gen, info, read>> /\ link
          /\ \A u \in timers' : u \in timers \/ u.gen = gen
      BY <2>1 DEF Trigger, chains
    <3>2. \A u \in timers' : u.leg = "info" => u.gen <= gen
      BY <2>0, <3>1
    <3> QED BY <3>1, <3>2 DEF InfoInv, InfoReadHere, Draining
  <2>2. CASE Leg
    BY <2>2, LegCount DEF Leg
  <2>3. CASE StaleLeg
    <3>1. UNCHANGED <<link, queue, steps, gen, info, read>> /\ timers' \subseteq timers
      BY <2>3 DEF StaleLeg, chains
    <3> QED BY <3>1 DEF InfoInv, InfoReadHere, Draining
  <2>4. CASE Rearm
    <3>1. /\ UNCHANGED <<link, queue, steps, timers, read>> /\ gen' = gen + 1
          /\ info' = [info EXCEPT !.ok = FALSE]
      BY <2>4 DEF Rearm
    <3>2. /\ info'.armed = info.armed /\ info'.failed = info.failed
          /\ info'.pending = info.pending /\ ~info'.ok
      BY <2>0, <3>1
    <3>3. \A u \in timers' : u.leg = "info" => u.gen <= gen' /\ u.gen # gen'
      BY <2>0, <3>1
    <3>4. link' => Counted(queue', info', read')
      BY <3>1, <3>2 DEF InfoInv, Counted
    <3> QED BY <3>1, <3>2, <3>3, <3>4 DEF InfoInv, InfoReadHere, Draining
  <2>5. CASE Complete
    <3>1. PICK ok \in BOOLEAN : Ends(Head(queue), ok) /\ (~link => ~ok)
      BY <2>5 DEF Complete
    <3>2. queue # <<>> /\ UNCHANGED <<link, gen, steps>>
      BY <2>5 DEF Complete
    <3>3. Draining' <=> Draining
      BY <3>2 DEF Draining
    <3> QED BY <3>1, <3>2, <3>3, EndsCount
  <2>6. CASE Ready
    <3>1. UNCHANGED <<queue, steps, gen, timers, info, read>> /\ link' /\ ~link /\ ~Draining
      BY <2>6 DEF Ready, chains
    <3>2. Counted(queue, info, read)
      BY <3>1 DEF InfoInv, NoStrings, Counted, First
    <3> QED BY <3>1, <3>2 DEF InfoInv, InfoReadHere, Draining
  <2>7. CASE Disconnect
    <3>1. /\ UNCHANGED <<queue, timers>> /\ gen' = gen + 1 /\ ~link' /\ steps' = 0
          /\ info' = [info EXCEPT !.ok = FALSE] /\ read' = {}
      BY <2>7 DEF Disconnect
    <3>2. ~info'.ok /\ Draining'
      BY <2>0, <3>1 DEF Draining, Idle
    <3>3. \A u \in timers' : u.leg = "info" => u.gen <= gen' /\ u.gen # gen'
      BY <2>0, <3>1
    <3> QED BY <3>1, <3>2, <3>3 DEF InfoInv, InfoReadHere
  <2>8. CASE DrainStep
    <3>1. /\ Ends(Head(queue), FALSE) /\ queue # <<>> /\ UNCHANGED <<link, gen>>
          /\ Draining /\ steps' = steps + 1
      BY <2>8 DEF DrainStep
    <3>2. Draining' <=> Draining
      BY <2>0, <3>1, Bounds DEF Draining, Idle
    <3> QED BY <3>1, <3>2, EndsCount
  <2>9. CASE DrainEnd
    <3>1. /\ UNCHANGED <<link, gen, timers, info, read>> /\ queue' = <<>> /\ Draining
          /\ steps' = Idle
      BY <2>9 DEF DrainEnd, chains
    <3>2. Cycle(queue') /\ NoStrings(queue') /\ ~link /\ ~Draining'
      BY <3>1 DEF Cycle, NoStrings, InfoInv, Draining
    <3> QED BY <3>1, <3>2 DEF InfoInv, InfoReadHere
  <2>10. CASE UNCHANGED vars
    BY <2>10 DEF vars, InfoInv, InfoReadHere, Draining
  <2> QED BY <2>1, <2>2, <2>3, <2>4, <2>5, <2>6, <2>7, <2>8, <2>9, <2>10 DEF Next
<1>3. InfoInv => InfoReadHere
  BY DEF InfoInv
<1> QED BY <1>1, <1>2, <1>3, TypeCorrect, PTL DEF Spec
=============================================================================
