------------------------------ MODULE Schedule ------------------------------
(***************************************************************************)
(* The pump's clock program as the component reads and writes it: the      *)
(* weekly layers, the overview with the schedule's enabled flag, and the   *)
(* single events, with the caches of ScheduleService                       *)
(* (schedule_service.{h,cpp}) and the schedule operations of               *)
(* WriteOperationService (write_operation_service.cpp).                    *)
(*                                                                         *)
(* One operation runs at a time (WriteOperations has the queue of them and *)
(* their results); what a cut-short operation left at the transport goes   *)
(* on.  The transport is its queue: the oldest command ends, answered or   *)
(* not.  Timers may fire at any time.                                      *)
(***************************************************************************)
EXTENDS Integers, Sequences, FiniteSets, Slots

CONSTANTS
  UPLOAD_LAYERS, UPLOAD_DAYS,   \* five and seven in the code
  Times,                   \* windows of a day, 0 being the one of no length
  PumpSlots,               \* single-event slots of this pump
  FallbackSlots,           \* slots assumed until the overview is read (35)
  SINGLE_EVENT_SLOT_LIMIT, \* 100
  MAX_VACATIONS_PER_CLEAR, SCHED_MAX_ATTEMPTS,
  Requests,                \* what clients may ask for
  InitialPumps,            \* what the pump may hold at first
  Clocks,                  \* whether the node's clock may be set
  Faults,                  \* environment: which of FaultKinds may happen
  MaxOps, MaxFaults, MaxLate, MaxTime  \* bounds

FaultKinds == {"lost", "unheard", "ignored", "watchdog", "drop", "app", "reread"}

ASSUME ScheduleAssumption ==
  /\ {UPLOAD_LAYERS, UPLOAD_DAYS, PumpSlots, FallbackSlots, SINGLE_EVENT_SLOT_LIMIT,
      MAX_VACATIONS_PER_CLEAR, MaxTime} \subseteq Nat \ {0}
  /\ {SCHED_MAX_ATTEMPTS, MaxOps, MaxFaults, MaxLate} \subseteq Nat
  /\ 0 \in Times /\ Faults \subseteq FaultKinds /\ Clocks \subseteq BOOLEAN

VARIABLES
  \* ScheduleService.
  overview,   \* overview_cached_ and the overview; schedule_enabled_ is its flag
  layers,     \* layer_cached_ and cached_layer_data_
  events,     \* single_events_cached_ and cached_single_events_
  \* WriteOperationService.
  op,         \* the operation in flight, or the last one
  \* The transport, the node's clock and the pump, external.
  link,       \* session_.is_ready()
  queue,      \* the transport's commands, oldest first
  late,       \* replies under way to reads that were given up
  time, synced,
  pump,
  faults,     \* how many so far
  \* History, read by the properties only.
  edited,     \* cells changed by the app, or misread, since the operation read them
  touched,    \* the app, or a late reply, interfered since the operation began
  doubt       \* slots whose cached record nobody can vouch for

caches == <<overview, layers, events>>
history == <<edited, touched, doubt>>
vars == <<caches, op, link, queue, late, time, synced, pump, faults, history>>

Layers == 0..(UPLOAD_LAYERS - 1)
Days   == 0..(UPLOAD_DAYS - 1)
None    == "none"
NoData  == [given |-> FALSE]
NoRequest == [cmd |-> None]
AllDays == -1
Unread == [known |-> FALSE]
Off == [on |-> FALSE, at |-> 0]

\* The pump keeps the times of a day that is switched off; neither the image
\* an upload is compared with nor the hash knows them.
Canonical(layer) == [d \in Days |-> IF layer[d].on THEN layer[d] ELSE Off]

\* A day's window as the pump stores it, a layer of them, and its whole program;
\* an event is stored under its own number.
Cell  == [on : BOOLEAN, at : Times]
Image == [Days -> Cell]
Grids == [Layers -> Image]
Flags == [on : BOOLEAN, stop : BOOLEAN]
PumpEvents == {e \in [0..(PumpSlots - 1) -> Event] : \A s \in DOMAIN e : e[s].index = s}
Programs == [on : BOOLEAN, stop : BOOLEAN, grid : Grids, events : PumpEvents]

\* What a client may ask for.
Commands == {"set_entry", "clear_entry", "set_enabled", "set_event", "clear_event",
             "clear_vacation", "upload", "refresh", "refresh_events"}

ASSUME ProgramAssumption ==
  /\ InitialPumps \subseteq Programs
  /\ \A r \in Requests : /\ r.cmd \in Commands
                         /\ r.cmd = "set_entry" => r.at \in Times
                         /\ r.cmd = "set_enabled" => r.on \in BOOLEAN
                         /\ r.cmd = "upload" => r.grid \in Grids /\ r.on \in {"keep", "on", "off"}
                         /\ r.cmd = "clear_event" => r.slot \in Nat
                         /\ r.cmd = "set_event" =>
                              /\ r.slot \in Nat \cup {NoSlot} /\ r.action \in {"run", "stop"}
                              /\ r.begin \in Nat /\ r.end \in Nat

\* get_max_single_events().
MaxSlots(ov) ==
  Lesser(IF ov.known THEN PumpSlots ELSE FallbackSlots, SINGLE_EVENT_SLOT_LIMIT)

\* current_hash(), by what it hashes.
Hash(ov, ls) ==
  IF ov.known /\ \A l \in Layers : ls[l].known
    THEN [known |-> TRUE, on |-> ov.on, grid |-> [l \in Layers |-> Canonical(ls[l].days)]]
    ELSE Unread

EmptySlot(s) == [index |-> s, on |-> FALSE, action |-> "run", begin |-> 0, end |-> 0]

NoOperation ==
  [seq |-> 0, cmd |-> None, req |-> NoRequest, phase |-> "done", status |-> None,
   tries |-> 0, slot |-> NoSlot, todo |-> <<>>, cursor |-> 1, unhandled |-> FALSE,
   at |-> 0, written |-> {}, skipped |-> {}, failed |-> {}, flag |-> "kept"]

Init ==
  /\ overview = Unread /\ events = Unread
  /\ layers = [l \in Layers |-> Unread]
  /\ op = NoOperation
  /\ link = TRUE /\ queue = <<>> /\ late = <<>>
  /\ time = 1 /\ synced \in Clocks
  /\ pump \in InitialPumps
  /\ faults = 0
  /\ edited = {} /\ touched = FALSE /\ doubt = {}

\* now_unix().
Now == IF synced THEN time ELSE NoClock
-----------------------------------------------------------------------------
(* What a callback or a step of an operation does, as functions of w: the  *)
(* operation, the caches, and the commands it sends.                       *)

Here == [op |-> op, overview |-> overview, layers |-> layers, events |-> events,
         send |-> <<>>]

Send(w, kind, at, data) == [w EXCEPT
  !.send = Append(@, [kind |-> kind, seq |-> w.op.seq, at |-> at, data |-> data])]
Phase(w, phase)   == [w EXCEPT !.op.phase = phase]
Finish(w, status) == [w EXCEPT !.op.phase = "done", !.op.status = status]
\* Faulty variant of Retry: one read-back too many.
OvertryRetry(w, status) ==
  IF w.op.tries <= SCHED_MAX_ATTEMPTS
    THEN [w EXCEPT !.op.tries = @ + 1, !.op.phase = "due"]
    ELSE Finish(w, status)
Retry(w, status)  ==
  IF w.op.tries < SCHED_MAX_ATTEMPTS
    THEN [w EXCEPT !.op.tries = @ + 1, !.op.phase = "due"]
    ELSE Finish(w, status)

IsEntry(o) == o.cmd \in {"set_entry", "clear_entry"}
IsEvent(o) == o.cmd \in {"set_event", "clear_event", "clear_vacation"}

\* send_configuration_commit(): the overview as cached, the default action
\* forced to Stop; ignored while no overview was read.
Commit(w) ==
  IF w.overview.known
    THEN [w EXCEPT !.overview.stop = TRUE,
           !.send = Append(@, [kind |-> "commit", seq |-> 0, at |-> 0,
                               data |-> [on |-> w.overview.on, stop |-> TRUE]])]
    ELSE w

\* set_state_async(): the verdict comes from the poll, not from here.
SetState(w, on) ==
  [Send(w, "state", 0, [on |-> on, stop |-> TRUE]) EXCEPT !.overview.stop = TRUE]

\* read_single_events_async(): slot after slot, what was found going along.
ReadSlots(w) ==
  Send(w, "slots", 0, [got |-> <<>>, ok |-> TRUE, max |-> MaxSlots(w.overview)])

\* set_entry_async() and write_layer_image_async() on a cached layer: the
\* whole layer goes out, and the cache takes it before the pump has.
WriteLayer(w, l, image, day) ==
  [Send(Phase(w, "write"), "write", l, [days |-> image, day |-> day])
     EXCEPT !.layers[l].days = image]

\* write_single_event_().
EventOf(o) ==
  IF o.cmd = "set_event"
    THEN [index |-> o.slot, on |-> TRUE, action |-> o.req.action,
          begin |-> o.req.begin, end |-> o.req.end]
    ELSE EmptySlot(o.slot)
WriteEvent(w) ==
  IF w.op.slot >= MaxSlots(w.overview) THEN Finish(w, "rejected")
  ELSE Send(Phase(w, "write"), "event", w.op.slot,
            [ev |-> EventOf(w.op),
             chosen |-> w.op.cmd = "set_event" /\ w.op.req.slot = NoSlot])

\* The auto-slot half of run_single_event_(), on a warm cache.
ResolveVacation(w) ==
  LET slots == VacationSlots(w.events.held, Now)
      kept  == SubSeq(slots, 1, Lesser(Len(slots), MAX_VACATIONS_PER_CLEAR))
  IN  IF slots = <<>> THEN Finish(w, "accepted")
      ELSE WriteEvent([w EXCEPT !.op.todo = kept, !.op.slot = slots[1],
                                !.op.unhandled = Len(slots) > Len(kept)])
ResolveFree(w) ==
  LET slot == FreeSlot(w.events.held, MaxSlots(w.overview), Now)
  IN  IF slot = NoSlot THEN Finish(w, "rejected")
      ELSE WriteEvent([w EXCEPT !.op.slot = slot])
Resolve(w) == IF w.op.cmd = "clear_vacation" THEN ResolveVacation(w) ELSE ResolveFree(w)

\* read_entries_async() of one layer, by upload_next_layer_(), and of all.
ReadGrid(w) == Send(Phase(w, "read"), "layers", 0, [ok |-> TRUE])
ReadNext(w) == Send(Phase(w, "read"), "layer", w.op.at, NoData)
LastLayer(w) == w.op.at + 1 \notin Layers

\* upload_apply_enabled_(): the flag is written if the cache says it differs.
FlagDiffers(w) == w.op.req.on # "keep" /\ w.overview.on # (w.op.req.on = "on")
ApplyEnabled(w) ==
  IF FlagDiffers(w) THEN SetState(Phase(w, "flag"), w.op.req.on = "on")
  ELSE [Phase(w, "due") EXCEPT !.op.at = 0]
UploadNext(w) ==
  IF LastLayer(w) THEN ApplyEnabled(w) ELSE ReadNext([w EXCEPT !.op.at = @ + 1])

\* finish_upload_().
FinishUpload(w) ==
  LET o == w.op
      confirmed == o.written \cup o.skipped
  IN  Finish(w,
        CASE o.flag = "unreadable" -> "timeout"
          [] o.flag = "mismatch" /\ o.failed = {} /\ confirmed # {} -> "partial"
          [] o.flag = "mismatch" -> "rejected"
          [] o.failed = {} -> "accepted"
          [] confirmed # {} -> "partial"
          [] OTHER -> "rejected")

\* confirm_upload_(): the next layer that was written, from the cursor on.
ConfirmUpload(w) ==
  LET left == {l \in w.op.written : l >= w.op.at}
  IN  IF left = {} THEN FinishUpload(w)
      ELSE LET l == CHOOSE l \in left : \A k \in left : l <= k
           IN  Send([Phase(w, "confirm") EXCEPT !.op.at = l], "layer", l, NoData)

\* What follows ensure_overview_().
\* Faulty variant of AfterOverview: an entry is patched into the layer as cached.
StaleAfterOverview(w) ==
  CASE IsEntry(w.op) /\ w.layers[w.op.req.layer].known ->
         LET r == w.op.req
         IN  WriteLayer(w, r.layer,
               [w.layers[r.layer].days EXCEPT
                  ![r.day] = IF r.cmd = "set_entry" THEN [on |-> TRUE, at |-> r.at] ELSE Off],
               r.day)
    [] IsEntry(w.op) -> Send(Phase(w, "read"), "layer", w.op.req.layer, NoData)
    [] w.op.cmd = "set_enabled" -> SetState(Phase(w, "write"), w.op.req.on)
    [] IsEvent(w.op) /\ w.op.slot # NoSlot -> WriteEvent(w)
    [] IsEvent(w.op) /\ w.events.known -> Resolve(w)
    [] w.op.cmd = "upload" -> ReadNext(w)
    [] OTHER -> ReadSlots(Phase(w, "slots"))
AfterOverview(w) ==
  CASE IsEntry(w.op) -> Send(Phase(w, "read"), "layer", w.op.req.layer, NoData)
    [] w.op.cmd = "set_enabled" -> SetState(Phase(w, "write"), w.op.req.on)
    [] IsEvent(w.op) /\ w.op.slot # NoSlot -> WriteEvent(w)
    [] IsEvent(w.op) /\ w.events.known -> Resolve(w)
    [] w.op.cmd = "upload" -> ReadNext(w)
    [] OTHER -> ReadSlots(Phase(w, "slots"))

\* The checks of run_schedule_entry_() and run_single_event_() that come
\* before anything is sent.  (The range of the pump's local time is left out.)
Invalid(r) ==
  \/ r.cmd \in {"set_entry", "clear_entry"} /\ (r.layer \notin Layers \/ r.day \notin Days)
  \/ r.cmd = "set_entry" /\ r.at = 0
  \/ r.cmd = "set_event" /\ r.end <= r.begin
  \/ r.cmd = "set_event" /\ Now # NoClock /\ r.end <= Now
  \/ r.cmd \in {"set_event", "clear_event"} /\ r.slot >= SINGLE_EVENT_SLOT_LIMIT

\* run_...(): the ready check asks for the overview, so that ensure_overview_()
\* finds it.
Begin(w) ==
  IF Invalid(w.op.req) THEN Finish(w, "invalid")
  ELSE IF w.op.cmd = "refresh" THEN ReadGrid(w)
  ELSE AfterOverview(w)
-----------------------------------------------------------------------------
(* The callbacks of an operation that is still in flight. *)

\* The overview was polled: confirm_schedule_enabled_(), or the flag of an upload.
OnPoll(w, ok) ==
  IF w.op.cmd = "upload"
    THEN [Phase(w, "due") EXCEPT !.op.at = 0,
           !.op.flag = CASE ~ok -> "unreadable" [] FlagDiffers(w) -> "mismatch"
                         [] OTHER -> "taken"]
    ELSE IF ok /\ w.overview.on = w.op.req.on THEN Finish(w, "accepted")
    ELSE Retry(w, IF ok THEN "rejected" ELSE "timeout")

OnState(w) == IF w.op.cmd = "upload" THEN Send(w, "poll", 0, NoData) ELSE Phase(w, "due")

\* The layer was read for an entry to be patched into it.
Patched(days, r) == [days EXCEPT
  ![r.day] = IF r.cmd = "set_entry" THEN [on |-> TRUE, at |-> r.at] ELSE Off]
EntryRead(w, ok) ==
  LET r == w.op.req
  IN  IF ~ok THEN Finish(w, "rejected")
      ELSE WriteLayer(w, r.layer, Patched(w.layers[r.layer].days, r), r.day)

\* confirm_schedule_entry_(): for a clear the flag is the whole verdict.
\* Faulty variant of EntryMatches: the times are not compared.
LaxEntryMatches(cell, r) == cell.on = (r.cmd = "set_entry")
EntryMatches(cell, r) ==
  IF r.cmd = "set_entry" THEN cell = [on |-> TRUE, at |-> r.at] ELSE ~cell.on
EntryConfirmed(w, ok) ==
  LET r == w.op.req
  IN  IF ~ok THEN Retry(w, "timeout")
      ELSE IF EntryMatches(w.layers[r.layer].days[r.day], r) THEN Finish(w, "accepted")
      ELSE Retry(w, "rejected")

\* upload_next_layer_(): a layer that matches is skipped, one that cannot be
\* read is not written.
UploadMatches(w) ==
  Canonical(w.layers[w.op.at].days) = w.op.req.grid[w.op.at]
UploadRead(w, ok) ==
  IF ~ok THEN UploadNext([w EXCEPT !.op.failed = @ \cup {w.op.at}])
  ELSE IF UploadMatches(w) THEN UploadNext([w EXCEPT !.op.skipped = @ \cup {w.op.at}])
  ELSE WriteLayer(w, w.op.at, w.op.req.grid[w.op.at], AllDays)

UploadConfirmed(w, ok) ==
  LET match == ok /\ UploadMatches(w)
      l == w.op.at
      x == IF match THEN w
           ELSE [w EXCEPT !.op.written = @ \ {l}, !.op.failed = @ \cup {l}]
  IN  ConfirmUpload([x EXCEPT !.op.at = l + 1])

OnLayer(w, ok) ==
  CASE IsEntry(w.op) -> IF w.op.phase = "read" THEN EntryRead(w, ok) ELSE EntryConfirmed(w, ok)
    [] OTHER -> IF w.op.phase = "read" THEN UploadRead(w, ok) ELSE UploadConfirmed(w, ok)

OnWritten(w) ==
  IF w.op.cmd = "upload" THEN UploadNext([w EXCEPT !.op.written = @ \cup {w.op.at}])
  ELSE Phase(w, "due")

OnSlots(w, ok) ==
  IF w.op.cmd = "refresh_events" THEN Finish(w, IF ok THEN "accepted" ELSE "timeout")
  ELSE IF ok THEN Resolve(w) ELSE Finish(w, "rejected")

\* confirm_single_event_(): on a match, on to the next vacation.
EventMatches(ev, o) == IF o.cmd = "set_event" THEN ev = EventOf(o) ELSE ~ev.on
MoreVacations(o) == o.cmd = "clear_vacation" /\ o.cursor < Len(o.todo)
OnSlot(w, ok, ev) ==
  LET o == w.op
  IN  IF ~ok THEN Retry(w, "timeout")
      ELSE IF ~EventMatches(ev, o) THEN Retry(w, "rejected")
      ELSE IF MoreVacations(o)
        THEN WriteEvent([w EXCEPT !.op.cursor = @ + 1, !.op.tries = 0,
                                  !.op.slot = o.todo[o.cursor + 1]])
      ELSE Finish(w, IF o.unhandled THEN "rejected" ELSE "accepted")

\* The settle delay is over: confirm_...().
Confirm(w) ==
  LET x == Phase(w, "confirm")
  IN  CASE IsEntry(w.op) -> Send(x, "layer", w.op.req.layer, NoData)
        [] w.op.cmd = "set_enabled" -> Send(x, "poll", 0, NoData)
        [] IsEvent(w.op) -> Send(x, "slot", w.op.slot, NoData)
        [] OTHER -> ConfirmUpload(w)
-----------------------------------------------------------------------------
(* The callbacks of ScheduleService: what they do whoever asked, then the  *)
(* operation's, if it is still in flight.                                  *)

InFlight(w, c) == w.op.phase # "done" /\ w.op.seq = c.seq

PollDone(w, c, ok, v) ==
  LET x == IF ok THEN [w EXCEPT !.overview = [known |-> TRUE, on |-> v.on, stop |-> v.stop]]
           ELSE w
  IN  IF InFlight(x, c) THEN OnPoll(x, ok) ELSE x

\* Faulty variant of LayerDone: a layer once known is not read into again.
WarmLayerDone(w, c, ok, v) ==
  LET x == IF ok /\ ~w.layers[c.at].known
             THEN [w EXCEPT !.layers[c.at] = [known |-> TRUE, days |-> v]] ELSE w
  IN  IF InFlight(x, c) THEN OnLayer(x, ok) ELSE x
LayerDone(w, c, ok, v) ==
  LET x == IF ok THEN [w EXCEPT !.layers[c.at] = [known |-> TRUE, days |-> v]] ELSE w
  IN  IF InFlight(x, c) THEN OnLayer(x, ok) ELSE x

\* Every layer is asked for; one that was not read fails the whole.
LayersDone(w, c, ok, v) ==
  LET x == IF ok THEN [w EXCEPT !.layers[c.at] = [known |-> TRUE, days |-> v]] ELSE w
      data == [ok |-> ok /\ c.data.ok]
  IN  IF c.at + 1 \in Layers
        THEN [x EXCEPT !.send = Append(@, [c EXCEPT !.at = @ + 1, !.data = data])]
        ELSE IF InFlight(x, c) THEN Finish(x, IF data.ok THEN "accepted" ELSE "timeout")
        ELSE x

\* A write's acknowledgement decides nothing: commit, and go on.
WriteDone(w, c) ==
  LET x == Commit(w) IN IF InFlight(x, c) THEN OnWritten(x) ELSE x

StateDone(w, c) == IF InFlight(w, c) THEN OnState(w) ELSE w

\* All or nothing: a slot that was not read would look free (issue #92).
\* Faulty variant of ChainOk: what was found is kept, whatever was not read.
PartialChainOk(ok, data) == ok \/ data.ok
ChainOk(ok, data) == ok /\ data.ok
SlotsDone(w, c, ok, v) ==
  LET data == [c.data EXCEPT !.ok = ChainOk(ok, c.data),
                 !.got = IF ok /\ v.on THEN Append(@, v) ELSE @]
      all  == IF data.ok THEN [w EXCEPT !.events = [known |-> TRUE, held |-> data.got]] ELSE w
  IN  IF c.at + 1 < data.max
        THEN [w EXCEPT !.send = Append(@, [c EXCEPT !.at = @ + 1, !.data = data])]
        ELSE IF InFlight(all, c) THEN OnSlots(all, data.ok) ELSE all

SlotDone(w, c, ok, v) == IF InFlight(w, c) THEN OnSlot(w, ok, v) ELSE w

\* The cache takes the request, acknowledged or not.
Recached(held, ev) ==
  LET rest == Kept(held, {i \in DOMAIN held : held[i].index # ev.index})
  IN  IF ev.on THEN Append(rest, ev) ELSE rest
EventDone(w, c) ==
  LET y == Commit(w)
      x == IF y.events.known THEN [y EXCEPT !.events.held = Recached(@, c.data.ev)] ELSE y
  IN  IF InFlight(x, c) THEN Phase(x, "due") ELSE x

Done(w, c, ok, v) ==
  CASE c.kind = "poll"   -> PollDone(w, c, ok, v)
    [] c.kind = "layer"  -> LayerDone(w, c, ok, v)
    [] c.kind = "layers" -> LayersDone(w, c, ok, v)
    [] c.kind = "write"  -> WriteDone(w, c)
    [] c.kind = "state"  -> StateDone(w, c)
    [] c.kind = "slots"  -> SlotsDone(w, c, ok, v)
    [] c.kind = "slot"   -> SlotDone(w, c, ok, v)
    [] c.kind = "event"  -> EventDone(w, c)
    [] c.kind = "commit" -> w

Take(w) ==
  /\ op' = w.op /\ overview' = w.overview /\ layers' = w.layers /\ events' = w.events
-----------------------------------------------------------------------------
(* Clients, timers and background reads. *)

Fresh(r) == [NoOperation EXCEPT !.seq = op.seq + 1, !.cmd = r.cmd, !.req = r,
  !.phase = "start",
  !.slot = IF r.cmd \in {"set_event", "clear_event"} THEN r.slot ELSE NoSlot]

\* submit_...() with nothing in flight: start_front_() and its ready check.
Submit(r) ==
  /\ op.phase = "done" /\ op.seq < MaxOps
  /\ \E w \in {LET f == [Here EXCEPT !.op = Fresh(r)]
               IN  IF link /\ overview.known THEN Begin(f) ELSE Finish(f, "rejected")} :
       Take(w) /\ queue' = queue \o w.send
  /\ touched' = FALSE
  /\ edited' = IF \E i \in DOMAIN queue : queue[i].kind = "write" THEN edited ELSE {}
  /\ UNCHANGED <<link, late, time, synced, pump, faults, doubt>>

ConfirmDue ==
  /\ op.phase = "due"
  /\ \E w \in {Confirm(Here)} : Take(w) /\ queue' = queue \o w.send
  /\ UNCHANGED <<link, late, time, synced, pump, faults, history>>

Fault(kind) ==
  /\ kind \in Faults /\ faults < MaxFaults
  /\ faults' = faults + 1

\* The budget is over: the operation ends, its commands stay.
Watchdog ==
  /\ op.phase # "done" /\ Fault("watchdog")
  /\ Take(Finish(Here, "timeout"))
  /\ UNCHANGED <<link, queue, late, time, synced, pump, history>>

Background(kind, data) ==
  queue' = Append(queue, [kind |-> kind, seq |-> 0, at |-> 0, data |-> data])

\* poll_state(), on the telemetry cadence.
Poll ==
  /\ link
  /\ \A i \in DOMAIN queue : queue[i].kind # "poll"
  /\ Background("poll", NoData)
  /\ UNCHANGED <<caches, op, link, late, time, synced, pump, faults, history>>

\* read_single_events() and read_schedule_entries_async(), by the initial reads.
Reread ==
  /\ link /\ Fault("reread")
  /\ \/ Background("slots", [got |-> <<>>, ok |-> TRUE, max |-> MaxSlots(overview)])
     \/ Background("layers", [ok |-> TRUE])
  /\ UNCHANGED <<caches, op, link, late, time, synced, pump, history>>

\* A control write commits too (config_commit_callback_).
ControlCommit ==
  /\ link /\ op.phase = "done"
  /\ \A i \in DOMAIN queue : queue[i].kind # "commit"
  /\ \E w \in {Commit(Here)} : Take(w) /\ queue' = queue \o w.send
  /\ UNCHANGED <<link, late, time, synced, pump, faults, history>>
-----------------------------------------------------------------------------
(* The pump, the phone app and the link, external. *)

IsRead(c) == c.kind \in {"poll", "layer", "layers", "slot", "slots"}
Typed(c)  == CASE c.kind = "slots" -> "slot" [] c.kind = "layers" -> "layer" [] OTHER -> c.kind

\* A reply names the type of what was read, not which one it is; the slot of
\* an event is the reader's own.
Reply(c) ==
  CASE Typed(c) = "poll"  -> [on |-> pump.on, stop |-> pump.stop]
    [] Typed(c) = "layer" -> pump.grid[c.at]
    [] OTHER              -> pump.events[c.at]
Received(c, v) == IF Typed(c) = "slot" THEN [v EXCEPT !.index = c.at] ELSE v

Stored(old, new) == IF new.on THEN new ELSE [on |-> FALSE, at |-> old.at]
Effect(c) ==
  CASE c.kind = "write" -> [pump EXCEPT !.grid[c.at] =
                              [d \in Days |-> Stored(@[d], c.data.days[d])]]
    [] c.kind \in {"state", "commit"} -> [pump EXCEPT !.on = c.data.on, !.stop = c.data.stop]
    [] c.kind = "event" -> [pump EXCEPT !.events[c.at] = c.data.ev]
    [] OTHER -> pump

Has(c) == Typed(c) # "slot" \/ c.at < PumpSlots

\* What the properties remember of a command the pump received or did not.
Vouch(c, p) ==
  /\ edited' = IF c.kind = "layer" THEN {e \in edited : e[1] # c.at} ELSE edited
  /\ doubt' = IF c.kind # "event" THEN doubt
              ELSE IF p.events[c.at] = c.data.ev
                      /\ \A i \in 2..Len(queue) :
                           /\ queue[i].kind # "slots"
                           /\ queue[i].kind = "event" => queue[i].at # c.at
                THEN doubt \ {c.at} ELSE doubt \cup {c.at}
  /\ touched' = touched

End(c, ok, v) ==
  \E w \in {Done(Here, c, ok, v)} : Take(w) /\ queue' = Tail(queue) \o w.send

\* The reply of an earlier read of the same type, still under way.
Overdue(c) == {i \in DOMAIN late : late[i].type = Typed(c)}

Answered ==
  /\ queue # <<>>
  /\ LET c == Head(queue)
     IN  /\ Has(c)
         /\ pump' = Effect(c) /\ Vouch(c, pump')
         /\ End(c, TRUE, IF IsRead(c) THEN Received(c, Reply(c)) ELSE NoData)
  /\ UNCHANGED <<link, late, time, synced, faults>>

\* No answer: the frame never arrived, or named what the pump does not have.
Lost ==
  /\ queue # <<>>
  /\ LET c == Head(queue)
     IN  /\ Vouch(c, pump) /\ End(c, FALSE, NoData)
         /\ IF Has(c) THEN Fault("lost") ELSE faults' = faults
  /\ UNCHANGED <<link, late, time, synced, pump>>

\* The pump did it, and the answer came too late or not at all.
Unheard ==
  /\ queue # <<>>
  /\ LET c == Head(queue)
     IN  /\ Has(c) /\ Fault("unheard")
         /\ pump' = Effect(c) /\ Vouch(c, pump')
         /\ End(c, FALSE, NoData)
         /\ late' = IF IsRead(c) /\ Len(late) < MaxLate
                      THEN Append(late, [type |-> Typed(c), value |-> Reply(c)]) ELSE late
  /\ UNCHANGED <<link, time, synced>>

\* The pump acknowledges a write and keeps what it had.
Ignored ==
  /\ queue # <<>>
  /\ LET c == Head(queue)
     IN  /\ ~IsRead(c) /\ Fault("ignored")
         /\ Vouch(c, pump) /\ End(c, TRUE, NoData)
  /\ UNCHANGED <<link, late, time, synced, pump>>

\* A late reply is taken for the answer of the read that waits; that read's
\* own reply is then late itself.
Misanswered ==
  /\ queue # <<>>
  /\ LET c == Head(queue)
     IN  /\ IsRead(c) /\ Has(c)
         /\ \E i \in Overdue(c) :
              /\ \A j \in Overdue(c) : i <= j
              /\ End(c, TRUE, Received(c, late[i].value))
              /\ late' = Append(SubSeq(late, 1, i - 1) \o SubSeq(late, i + 1, Len(late)),
                                [type |-> Typed(c), value |-> Reply(c)])
         /\ edited' = edited \cup IF c.kind = "layer" THEN {c.at} \X Days ELSE {}
         /\ doubt' = doubt \cup IF Typed(c) = "slot" THEN {c.at} ELSE {}
  /\ touched' = TRUE
  /\ UNCHANGED <<link, time, synced, pump, faults>>

\* A late reply that nobody waits for any more.
LateDropped ==
  /\ late # <<>> /\ late' = Tail(late)
  /\ UNCHANGED <<caches, op, link, queue, time, synced, pump, faults, history>>

\* The phone app edits a day, the flag, or a slot.
App ==
  /\ Fault("app")
  /\ touched' = TRUE
  /\ \/ \E l \in Layers, d \in Days, t \in Times :
          /\ pump' = [pump EXCEPT !.grid[l][d] = [on |-> t # 0, at |-> t]]
          /\ edited' = edited \cup {<<l, d>>} /\ doubt' = doubt
     \/ /\ pump' = [pump EXCEPT !.on = ~@]
        /\ UNCHANGED <<edited, doubt>>
     \/ \E s \in 0..(PumpSlots - 1), p \in InitialPumps :
          /\ pump' = [pump EXCEPT !.events[s] = p.events[s]]
          /\ doubt' = doubt \cup {s} /\ edited' = edited
  /\ UNCHANGED <<caches, op, link, queue, late, time, synced>>

\* The link drops. The operation is ended and the caches invalidated before
\* the drain runs the callbacks, which then change nothing.
Drop ==
  /\ link /\ Fault("drop")
  /\ link' = FALSE /\ queue' = <<>> /\ late' = <<>>
  /\ overview' = Unread /\ events' = Unread
  /\ layers' = [l \in Layers |-> Unread]
  /\ op' = IF op.phase = "done" THEN op ELSE Finish(Here, "timeout").op
  /\ pump' \in {pump} \cup IF queue = <<>> THEN {} ELSE {Effect(Head(queue))}
  /\ doubt' = {}
  /\ UNCHANGED <<time, synced, edited, touched>>

Reconnect ==
  /\ ~link /\ link' = TRUE
  /\ UNCHANGED <<caches, op, queue, late, time, synced, pump, faults, history>>

Tick ==
  /\ time < MaxTime /\ time' = time + 1
  /\ UNCHANGED <<caches, op, link, queue, late, synced, pump, faults, history>>

Next ==
  \/ \E r \in Requests : Submit(r)
  \/ ConfirmDue \/ Watchdog \/ Poll \/ Reread \/ ControlCommit
  \/ Answered \/ Lost \/ Unheard \/ Ignored \/ Misanswered \/ LateDropped
  \/ App \/ Drop \/ Reconnect \/ Tick

Spec == Init /\ [][Next]_vars
-----------------------------------------------------------------------------
(* Properties. *)

Phases == {"start", "read", "slots", "write", "flag", "due", "confirm", "done"}
Statuses == {None, "accepted", "rejected", "timeout", "partial", "invalid"}

Operations ==
  [seq : 0..MaxOps, cmd : Commands \cup {None}, req : Requests \cup {NoRequest}, phase : Phases,
   status : Statuses, tries : 0..SCHED_MAX_ATTEMPTS, slot : Nat \cup {NoSlot},
   todo : Seq(Nat), cursor : Nat \ {0}, unhandled : BOOLEAN, at : Nat,
   written : SUBSET Layers, skipped : SUBSET Layers, failed : SUBSET Layers,
   flag : {"kept", "taken", "mismatch", "unreadable"}]

\* How many slots the pump is taken to have, the slots a command may name, and
\* the enabled events a cache holds of them.
SlotCounts  == {Lesser(n, SINGLE_EVENT_SLOT_LIMIT) : n \in {FallbackSlots, PumpSlots}}
SlotNumbers == UNION {0..(n - 1) : n \in SlotCounts}
CachedEvent == {e \in Event : e.index \in SlotNumbers /\ e.on}

Overviews   == {Unread} \cup [known : {TRUE}, on : BOOLEAN, stop : BOOLEAN]
LayerCaches == [Layers -> {Unread} \cup [known : {TRUE}, days : Image]]
EventCaches == {Unread} \cup [known : {TRUE}, held : Seq(CachedEvent)]

Command ==
  [kind : {"poll"}, seq : Nat, at : {0}, data : {NoData}]
    \cup [kind : {"layer"}, seq : Nat, at : Layers, data : {NoData}]
    \cup [kind : {"slot"}, seq : Nat, at : SlotNumbers, data : {NoData}]
    \cup [kind : {"layers"}, seq : Nat, at : Layers, data : [ok : BOOLEAN]]
    \cup [kind : {"slots"}, seq : Nat, at : SlotNumbers,
          data : [got : Seq(CachedEvent), ok : BOOLEAN, max : SlotCounts]]
    \cup [kind : {"write"}, seq : Nat, at : Layers,
          data : [days : Image, day : Days \cup {AllDays}]]
    \cup {c \in [kind : {"event"}, seq : Nat, at : SlotNumbers,
                 data : [ev : Event, chosen : BOOLEAN]] : c.data.ev.index = c.at}
    \cup [kind : {"state", "commit"}, seq : Nat, at : {0}, data : Flags]

LateReply == [type : {"poll"}, value : Flags] \cup [type : {"layer"}, value : Image]
               \cup [type : {"slot"}, value : Event]

\* What every variable holds: no slot past the limit is ever named (issue
\* #284), and no cache, command or operation outlives the link.
TypeOK ==
  /\ overview \in Overviews /\ layers \in LayerCaches /\ events \in EventCaches
  /\ op \in Operations
  /\ queue \in Seq(Command) /\ late \in Seq(LateReply) /\ Len(late) <= MaxLate
  /\ pump \in Programs
  /\ {link, synced, touched} \subseteq BOOLEAN
  /\ time \in 1..MaxTime /\ faults \in 0..MaxFaults
  /\ edited \subseteq Layers \X Days /\ doubt \subseteq Nat
  /\ ~link => /\ op.phase = "done" /\ queue = <<>>
              /\ ~overview.known /\ ~events.known /\ \A l \in Layers : ~layers[l].known

Settles(status) == op.phase # "done" /\ op'.phase = "done" /\ op'.status = status
Began(status)   == op'.seq # op.seq /\ op'.status = status

\* The pump holds what the operation asked for.
Holds(o, p) ==
  LET r == o.req
  IN  CASE r.cmd = "set_entry"   -> p.grid[r.layer][r.day] = [on |-> TRUE, at |-> r.at]
        [] r.cmd = "clear_entry" -> ~p.grid[r.layer][r.day].on
        [] r.cmd = "set_enabled" -> p.on = r.on
        [] r.cmd = "set_event"   ->
             p.events[o.slot] = [index |-> o.slot, on |-> TRUE, action |-> r.action,
                                 begin |-> r.begin, end |-> r.end]
        [] r.cmd = "clear_event" -> ~p.events[o.slot].on
        [] r.cmd = "clear_vacation" -> \A i \in DOMAIN o.todo : ~p.events[o.todo[i]].on
        [] r.cmd = "upload" ->
             /\ \A l \in Layers : Canonical(p.grid[l]) = r.grid[l]
             /\ o.flag = "taken" => p.on = (r.on = "on")
        [] OTHER -> TRUE

\* An operation that settles ACCEPTED leaves the pump with what it asked for,
\* unless the app has been at it or a late reply passed for its read-back: no
\* acknowledgement, lost, refused or late, and nothing a cut-short operation
\* left at the transport, makes a false success.
AcceptedIsHeld == [][Settles("accepted") /\ ~touched' => Holds(op', pump')]_vars

\* The write of one day leaves every other day of its layer as it was, those
\* apart that the app changed after the operation read the layer, or that it
\* misread: what an earlier operation cached is never written back (issue #92).
WritesDay(l, d) ==
  /\ queue # <<>> /\ queue' # queue
  /\ Head(queue).kind = "write" /\ Head(queue).at = l /\ Head(queue).data.day = d
OtherDaysKept ==
  [][\A l \in Layers, d \in Days : WritesDay(l, d) =>
       \A k \in Days \ {d} :
         <<l, k>> \notin edited => pump'.grid[l][k] = pump.grid[l][k]]_vars

\* The same with misread layers counted in, where the app edits nothing.
LayersStayApart ==
  [][\A l \in Layers, d \in Days : WritesDay(l, d) /\ "app" \notin Faults =>
       \A k \in Days \ {d} : pump'.grid[l][k] = pump.grid[l][k]]_vars

\* When an upload settles ACCEPTED the schedule hash it reports is that of the
\* pump's own grid.
HashIsPumps ==
  [][Settles("accepted") /\ op'.cmd = "upload" /\ ~touched' =>
       /\ Hash(overview', layers').known
       /\ Hash(overview', layers').grid = [l \in Layers |-> Canonical(pump'.grid[l])]]_vars

\* A slot the code chose for a new event holds no live one. Not asked of slots
\* nobody can vouch for until the link drops or they are written alone: the
\* app's, one a write did not reach, one misread, one written while a read of
\* all the slots, or another write of it, was queued behind.
Overwrites(s) ==
  /\ queue # <<>> /\ queue' # queue
  /\ Head(queue).kind = "event" /\ Head(queue).data.chosen
  /\ Head(queue).at = s
  /\ pump'.events[s] # pump.events[s]
Live(ev) == ev.on /\ ev.end >= time
KnownEventsKept ==
  [][\A s \in 0..(PumpSlots - 1) :
       Overwrites(s) /\ s \notin doubt => ~Live(pump.events[s])]_vars

\* The same with the races counted in, where the app edits nothing.
LiveEventsKept ==
  [][\A s \in 0..(PumpSlots - 1) :
       Overwrites(s) /\ "app" \notin Faults => ~Live(pump.events[s])]_vars

\* When a clear_vacation settles ACCEPTED on a node that knows the time, no
\* vacation holds the pump off any more.
ClearedIsLifted ==
  [][(Settles("accepted") \/ Began("accepted")) /\ op'.cmd = "clear_vacation"
       /\ synced /\ ~touched' =>
       \A s \in 0..(PumpSlots - 1) :
         ~(pump'.events[s].on /\ IsVacation(pump'.events[s]) /\ Covers(pump'.events[s], time))]_vars
=============================================================================
