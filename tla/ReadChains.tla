----------------------------- MODULE ReadChains -----------------------------
(***************************************************************************)
(* What is read once per connection: the timers of                         *)
(* trigger_initial_data_reads(), the chains of reads they start in the     *)
(* device-information, event-log, history and control services, the        *)
(* re-arm of an attempt that did not land, and the drop of a link, whose   *)
(* drain runs every queued callback against services that are already     *)
(* down.  The transport is its queue: the oldest command ends, well or     *)
(* badly (Transport has the rest).                                         *)
(***************************************************************************)
EXTENDS Integers, Sequences, FiniteSets

CONSTANTS
  Strings,        \* device-information strings asked for (five in the code)
  NUM_TRENDS,     \* trend channels (four)
  EVENT_LOG_MAX_CHAIN_ENTRIES,
  EVENT_LOG_ABANDON_HEADROOM,
  MAX_ABANDON_STEPS,
  Reported,       \* entry counts the pump may claim
  MaxGen          \* bound: drops and re-arms

ASSUME ChainAssumption ==
  /\ {Strings, NUM_TRENDS, EVENT_LOG_MAX_CHAIN_ENTRIES} \subseteq Nat \ {0}
  /\ {EVENT_LOG_ABANDON_HEADROOM, MAX_ABANDON_STEPS, MaxGen} \subseteq Nat
  /\ Reported \subseteq Nat
  /\ EVENT_LOG_MAX_CHAIN_ENTRIES + EVENT_LOG_ABANDON_HEADROOM <= MAX_ABANDON_STEPS

VARIABLES
  link,      \* session_.is_ready()
  queue,     \* command_queue_, oldest first
  steps,     \* steps of abandon_queue_() so far, or Idle
  gen,       \* read_chain_gen_
  done,      \* initial_data_read_done_
  timers,    \* pending legs, each with the generation it captured
  info,      \* the device-information service and device_info_read_ok_
  statsOk,   \* statistics_read_ok_
  clock,     \* initial_clock_sync_started_, the drift and the rule published
  log,       \* entries_reading_ and cached_entries_
  trends,    \* cached_trends_
  read,      \* history: strings read since the link opened
  began      \* history: legs that ran since the attempt began

vars == <<link, queue, steps, gen, done, timers, info, statsOk, clock, log,
          trends, read, began>>

chains == <<info, statsOk, clock, log, trends, read>>

Idle == -1
Draining == steps # Idle

\* The legs set at once, in the order they fall due; the others follow a leg.
Legs == {"info", "clock", "stats", "log", "history", "events"}
DueAt == [leg \in Legs |->
  CASE leg = "info" -> 1000 [] leg = "clock" -> 2000 [] leg = "stats" -> 3000
    [] leg = "log" -> 6000 [] OTHER -> 8000]

\* A queued command: what it reads, its position in its chain, the length of
\* the chain and the generation its callback captured.
Cmd(kind, n, count, g) == [kind |-> kind, n |-> n, count |-> count, gen |-> g]
Plain(kind) == Cmd(kind, 0, 0, 0)
Queued(kind) == {i \in 1..Len(queue) : queue[i].kind = kind}

\* What the clock's readings have been published as.
Figures == {"read", "unknown"}

\* What is stored of the log and the trends: the generation that read it.
Nothing == -1

Init ==
  /\ link = FALSE /\ queue = <<>> /\ steps = Idle
  /\ gen = 0 /\ done = FALSE /\ timers = {}
  /\ info = [pending |-> 0, failed |-> 0, armed |-> FALSE, ok |-> FALSE]
  /\ statsOk = FALSE
  /\ clock = [started |-> FALSE, drift |-> "unknown", dst |-> "unknown"]
  /\ log = [reading |-> FALSE, cached |-> Nothing]
  /\ trends = Nothing
  /\ read = {}
  /\ began = [leg \in Legs |-> 0]
-----------------------------------------------------------------------------
(* The attempt: its start, its legs and its re-arm. *)

\* trigger_initial_data_reads(), from the stabilised session or from update().
\* The display and the control cache sync, whose reads are elsewhere, are left out.
Trigger ==
  /\ link /\ ~done /\ ~Draining
  /\ done' = TRUE
  /\ timers' = timers \cup {[leg |-> l, gen |-> gen] : l \in {"info", "clock", "log"}}
  /\ began' = [leg \in Legs |-> 0]
  /\ UNCHANGED <<link, queue, steps, gen, chains>>

\* Timers of one attempt fall due in order.
Earliest(t) == \A u \in timers : u.gen = t.gen => DueAt[t.leg] <= DueAt[u.leg]

Stale(t) == t.gen # gen

\* A leg falls due. The generation check comes first in every leg.
Due(t, leg) ==
  /\ ~Draining
  /\ t \in timers /\ t.leg = leg /\ Earliest(t)
  /\ ~Stale(t)
  /\ began' = [began EXCEPT ![leg] = @ + 1]
  /\ UNCHANGED <<link, steps, gen, done>>

StaleLeg ==
  /\ ~Draining
  /\ \E t \in timers : Earliest(t) /\ Stale(t) /\ timers' = timers \ {t}
  /\ UNCHANGED <<link, queue, steps, gen, done, chains, began>>

\* read_device_info_async(): every string is queued at once.
InfoLeg(t) ==
  /\ Due(t, "info")
  /\ timers' = (timers \ {t}) \cup {[leg |-> "stats", gen |-> gen]}
  /\ info' = [info EXCEPT !.pending = Strings, !.failed = 0, !.armed = TRUE]
  /\ queue' = queue \o [s \in 1..Strings |-> Cmd("string", s, Strings, 0)]
  /\ UNCHANGED <<statsOk, clock, log, trends, read>>

StatsLeg(t) ==
  /\ Due(t, "stats")
  /\ timers' = timers \ {t}
  /\ queue' = Append(queue, Plain("stats"))
  /\ UNCHANGED chains

\* The drift is measured by a connection's first attempt only.
ClockLeg(t) ==
  /\ Due(t, "clock")
  /\ timers' = timers \ {t}
  /\ queue' = IF clock.started THEN queue ELSE Append(queue, Cmd("clock", 0, 0, gen))
  /\ clock' = [clock EXCEPT !.started = TRUE]
  /\ UNCHANGED <<info, statsOk, log, trends, read>>

\* The timer set by a read's completion, whatever the outcome.
Follow(leg, g) == {[leg |-> leg, gen |-> g]}

\* read_entries_async(): one chain at a time.
LogBusy == log.reading
LogLeg(t) ==
  /\ Due(t, "log")
  /\ log' = [log EXCEPT !.reading = TRUE]
  /\ IF LogBusy
       THEN /\ timers' = (timers \ {t}) \cup Follow("history", gen)
            /\ queue' = queue
       ELSE /\ timers' = timers \ {t}
            /\ queue' = Append(queue, Cmd("meta", 0, 0, gen))
  /\ UNCHANGED <<info, statsOk, clock, trends, read>>

\* read_trends_async().
HistoryLeg(t) ==
  /\ Due(t, "history")
  /\ timers' = timers \ {t}
  /\ queue' = Append(queue, Cmd("trend", 1, NUM_TRENDS, gen))
  /\ UNCHANGED chains

\* read_single_events(), whose reads are the schedule service's.
EventsLeg(t) ==
  /\ Due(t, "events")
  /\ timers' = timers \ {t}
  /\ queue' = Append(queue, Plain("other"))
  /\ UNCHANGED chains

\* Faulty variant of Rearm: the generation stays.
RearmSameGeneration ==
  /\ link /\ done /\ ~Draining /\ gen < MaxGen
  /\ \A t \in timers : ~Stale(t) => t.leg \in {"history", "events"}
  /\ done' = FALSE
  /\ info' = [info EXCEPT !.ok = FALSE]
  /\ statsOk' = FALSE
  /\ UNCHANGED <<link, queue, steps, gen, timers, clock, log, trends, read, began>>

\* should_rearm_initial_read(): the interval is at least 60 s, past every timer
\* the start of an attempt sets; the caches it also asks about are not modelled,
\* so an attempt whose own products landed may be re-armed too.
Rearm ==
  /\ link /\ done /\ ~Draining /\ gen < MaxGen
  /\ \A t \in timers : ~Stale(t) => t.leg \in {"history", "events"}
  /\ gen' = gen + 1
  /\ done' = FALSE
  /\ info' = [info EXCEPT !.ok = FALSE]
  /\ statsOk' = FALSE
  /\ UNCHANGED <<link, queue, steps, timers, clock, log, trends, read, began>>

-----------------------------------------------------------------------------
(* The callbacks: what the end of the oldest command does. *)

Rest == Tail(queue)

\* Faulty variant of AllOk: one string is enough.
AllOkAny(i) == i.failed < Strings

\* A string's callback, then on_string_read_complete().
AllOk(i) == i.failed = 0
StringEnd(c, ok) ==
  /\ c.kind = "string"
  /\ \E i \in {[info EXCEPT !.pending = @ - 1, !.failed = IF ok THEN @ ELSE @ + 1]} :
       info' = IF i.pending = 0 /\ i.armed
                 THEN [i EXCEPT !.armed = FALSE, !.ok = i.ok \/ AllOk(i)] ELSE i
  /\ read' = IF ok THEN read \cup {c.n} ELSE read
  /\ queue' = Rest
  /\ UNCHANGED <<timers, statsOk, clock, log, trends>>

StatsEnd(c, ok) ==
  /\ c.kind = "stats"
  /\ statsOk' = (statsOk \/ ok)
  /\ queue' = Rest
  /\ UNCHANGED <<timers, info, clock, log, trends, read>>

\* The callbacks of the clock and of the rule check the generation before they
\* publish, a failure too; the rule for daylight saving is read after the clock.
Fresh(c) == c.gen = gen
ClockEnd(c, ok) ==
  /\ c.kind = "clock"
  /\ clock' = IF Fresh(c) THEN [clock EXCEPT !.drift = IF ok THEN "read" ELSE "unknown"] ELSE clock
  /\ queue' = IF Fresh(c) THEN Append(Rest, [c EXCEPT !.kind = "dst"]) ELSE Rest
  /\ UNCHANGED <<timers, info, statsOk, log, trends, read>>

DstEnd(c, ok) ==
  /\ c.kind = "dst"
  /\ clock' = IF Fresh(c) THEN [clock EXCEPT !.dst = IF ok THEN "read" ELSE "unknown"] ELSE clock
  /\ queue' = Rest
  /\ UNCHANGED <<timers, info, statsOk, log, trends, read>>

\* read_metadata_async()'s callback: a failure ends the chain, an empty log is
\* an answer, and the count is clamped.
Clamp(n) == IF n > EVENT_LOG_MAX_CHAIN_ENTRIES THEN EVENT_LOG_MAX_CHAIN_ENTRIES ELSE n
MetaEnd(c, ok) ==
  /\ c.kind = "meta"
  /\ \/ /\ ~ok
        /\ log' = [log EXCEPT !.reading = FALSE]
        /\ timers' = timers \cup Follow("history", c.gen)
        /\ queue' = Rest
     \/ /\ ok /\ 0 \in Reported
        /\ log' = [reading |-> FALSE, cached |-> c.gen]
        /\ timers' = timers \cup Follow("history", c.gen)
        /\ queue' = Rest
     \/ /\ ok
        /\ \E n \in Reported \ {0} : queue' = Append(Rest, Cmd("entry", 1, Clamp(n), c.gen))
        /\ UNCHANGED <<log, timers>>
  /\ UNCHANGED <<info, statsOk, clock, trends, read>>

\* A chain goes on past a failed read.
MoreToRead(c) == c.n < c.count
NextRead(c) == Append(Rest, [c EXCEPT !.n = @ + 1])

\* Faulty variant of MayStore: the gate at the end of a chain is dropped.
MayStoreAlways == TRUE

\* The terminal branch keeps what it read only if the session is still up.
MayStore == link

EntryEnd(c, ok) ==
  /\ c.kind = "entry"
  /\ IF MoreToRead(c)
       THEN queue' = NextRead(c) /\ UNCHANGED <<log, timers>>
       ELSE /\ log' = [reading |-> FALSE,
                       cached |-> IF MayStore THEN c.gen ELSE log.cached]
            /\ timers' = timers \cup Follow("history", c.gen)
            /\ queue' = Rest
  /\ UNCHANGED <<info, statsOk, clock, trends, read>>

\* read_trends_async()'s callback, then read_cycle_timestamps().
TrendEnd(c, ok) ==
  /\ c.kind = "trend"
  /\ IF MoreToRead(c)
       THEN queue' = NextRead(c) /\ UNCHANGED <<trends, timers>>
       ELSE /\ trends' = IF MayStore THEN c.gen ELSE trends
            /\ queue' = IF MayStore THEN Append(Rest, Plain("stamps")) ELSE Rest
            /\ timers' = timers \cup Follow("events", c.gen)
  /\ UNCHANGED <<info, statsOk, clock, log, read>>

OtherEnd(c, ok) ==
  /\ c.kind \in {"other", "stamps"}
  /\ queue' = Rest
  /\ UNCHANGED <<timers, chains>>

Ends(c, ok) ==
  \/ StringEnd(c, ok) \/ StatsEnd(c, ok) \/ ClockEnd(c, ok) \/ DstEnd(c, ok) \/ MetaEnd(c, ok)
  \/ EntryEnd(c, ok) \/ TrendEnd(c, ok) \/ OtherEnd(c, ok)

\* complete_front_command_(): an answer, a refusal or a timeout. With no link
\* the write is refused.
Complete ==
  /\ ~Draining /\ queue # <<>>
  /\ \E ok \in IF link THEN BOOLEAN ELSE {FALSE} : Ends(Head(queue), ok)
  /\ UNCHANGED <<link, steps, gen, done, began>>
-----------------------------------------------------------------------------
(* The link. *)

Ready ==
  /\ ~link /\ ~Draining
  /\ link' = TRUE
  /\ UNCHANGED <<queue, steps, gen, done, timers, chains, began>>

\* Faulty variant of Disconnect: the event log is not told of the drop.
DisconnectKeepsFlag ==
  /\ link /\ ~Draining /\ gen < MaxGen
  /\ link' = FALSE
  /\ done' = FALSE
  /\ gen' = gen + 1
  /\ info' = [info EXCEPT !.ok = FALSE]
  /\ statsOk' = FALSE
  /\ clock' = [clock EXCEPT !.started = FALSE]
  /\ read' = {}
  /\ steps' = 0
  /\ UNCHANGED <<queue, timers, log, trends, began>>

\* The disconnection callback, up to transport_.reset(): everything the drain's
\* callbacks consult is already down.
Disconnect ==
  /\ link /\ ~Draining /\ gen < MaxGen
  /\ link' = FALSE
  /\ done' = FALSE
  /\ gen' = gen + 1
  /\ info' = [info EXCEPT !.ok = FALSE]
  /\ statsOk' = FALSE
  /\ clock' = [clock EXCEPT !.started = FALSE]
  /\ log' = [log EXCEPT !.reading = FALSE]
  /\ read' = {}
  /\ steps' = 0
  /\ UNCHANGED <<queue, timers, trends, began>>

\* abandon_queue_(): one callback after another, those the callbacks queue too.
DrainStep ==
  /\ Draining /\ queue # <<>> /\ steps < MAX_ABANDON_STEPS
  /\ Ends(Head(queue), FALSE)
  /\ steps' = steps + 1
  /\ UNCHANGED <<link, gen, done, began>>

DrainEnd ==
  /\ Draining /\ (queue = <<>> \/ steps = MAX_ABANDON_STEPS)
  /\ queue' = <<>>
  /\ steps' = Idle
  /\ UNCHANGED <<link, gen, done, timers, chains, began>>
-----------------------------------------------------------------------------
Leg == \E t \in timers :
  \/ InfoLeg(t) \/ StatsLeg(t) \/ ClockLeg(t)
  \/ LogLeg(t) \/ HistoryLeg(t) \/ EventsLeg(t)

Next ==
  \/ Trigger \/ Leg \/ StaleLeg \/ Rearm
  \/ Complete \/ Ready \/ Disconnect \/ DrainStep \/ DrainEnd

Spec == Init /\ [][Next]_vars
-----------------------------------------------------------------------------
(* Properties. *)

Kinds == {"string", "stats", "clock", "dst", "meta", "entry", "trend", "stamps", "other"}
Commands == [kind : Kinds, n : Nat, count : Nat, gen : 0..MaxGen]

\* The type of the state.
TypeOK ==
  /\ queue \in Seq(Commands)
  /\ link \in BOOLEAN /\ done \in BOOLEAN /\ statsOk \in BOOLEAN
  /\ steps \in Idle..MAX_ABANDON_STEPS /\ gen \in 0..MaxGen
  /\ timers \subseteq [leg : Legs, gen : 0..MaxGen]
  /\ info \in [pending : Int, failed : Nat, armed : BOOLEAN, ok : BOOLEAN]
  /\ clock \in [started : BOOLEAN, drift : Figures, dst : Figures]
  /\ log \in [reading : BOOLEAN, cached : Nothing..MaxGen] /\ trends \in Nothing..MaxGen
  /\ read \subseteq Nat /\ began \in [Legs -> Nat]

\* The event log's in-flight flag says what the queue holds: never two chains,
\* and a flag that is up has a chain behind it, so no later read is refused for
\* the life of the boot, a drain cut at its cap included (issue #284).
LogReads == Queued("meta") \cup Queued("entry")
FlagHonest == ~Draining =>
  /\ log.reading <=> LogReads # {}
  /\ \A i, j \in LogReads : i = j

\* The callbacks a drop runs find the component already down: none of them
\* publishes, stores or proves anything (alpha_hwr.cpp:276-281).
DropsAreInert ==
  [][Draining => UNCHANGED <<info.ok, statsOk, clock.drift, clock.dst, log.cached, trends>>]_vars

\* A leg runs at most once per attempt, although an earlier attempt's reads are
\* still queued when it is re-armed and complete during the next one.
LegsOnce == \A leg \in Legs : began[leg] <= 1

\* device_info_read_ok_ means every string was read over this link, also when a
\* re-armed read restarts the count with strings of the last one still queued.
InfoReadHere == info.ok => read = 1..Strings

=============================================================================
