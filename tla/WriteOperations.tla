--------------------------- MODULE WriteOperations ---------------------------
(***************************************************************************)
(* The write operations of the ALPHA HWR component                          *)
(* (components/alpha_hwr/write_operation_service.{h,cpp}) over the control  *)
(* cache they share with the periodic poll and the initial sync             *)
(* (control_service.{h,cpp}).                                               *)
(*                                                                         *)
(* Four commands are modelled to the wire: SET_PUMP_ENABLED, SET_MODE and   *)
(* SET_SETPOINT, which read and write the cache, and SET_CLOCK, which does  *)
(* not.  The transport below is what module CommandQueue promises: commands *)
(* end in the order they were queued and each callback runs once.  Timers   *)
(* (confirm delays, watchdogs, poll periods) may fire at any time.          *)
(***************************************************************************)
EXTENDS Selection

CONSTANTS
  Ops,                 \* identities of the operations clients submit
  Request,             \* [Ops -> [cmd, on, mode, value]]
  Modes, ScalarModes,  \* control modes, and those with a scalar setpoint
  Values,              \* setpoints a client may ask for
  Clamp,               \* [Values -> Values]: what the pump stores of each
  EnabledMaxAttempts, ModeMaxAttempts, SetpointMaxAttempts, ClockMaxAttempts,
  MaxModeConfirmAttempts,  \* of sync_cache_async's retries
  NotANumber,          \* a request value std::isfinite refuses, an empty slot
  NoMode, NoOp,
  Faults,              \* environment: which of FaultKinds may happen
  MaxPolls,            \* environment: control-state polls queued at once
  MaxPanel             \* environment: changes made at the pump's panel

Commands   == {"enabled", "mode", "setpoint", "clock"}
FaultKinds == {"refused", "ignored", "lost_frame", "lost_reply", "watchdog", "drop"}

ASSUME OpsAssumption ==
  /\ NoOp \notin Ops
  /\ Request \in [Ops -> [cmd : Commands, on : BOOLEAN, mode : Modes,
                          value : Values \cup {NotANumber}]]

ASSUME PumpAssumption ==
  /\ ScalarModes \subseteq Modes /\ NoMode \notin Modes /\ NotANumber \notin Values
  /\ Clamp \in [Values -> Values]
  /\ Faults \subseteq FaultKinds
  /\ MaxPolls \in Nat /\ MaxPanel \in Nat
  /\ EnabledMaxAttempts \in Nat /\ ModeMaxAttempts \in Nat
  /\ SetpointMaxAttempts \in Nat /\ ClockMaxAttempts \in Nat
  /\ MaxModeConfirmAttempts \in Nat

VARIABLES
  \* WriteOperationService.
  queue,          \* queue_, the one in flight first
  phase,          \* [Ops -> phase], "new" before submission
  attempts,       \* attempts of the operation in flight
  pre_value,      \* its pre_value
  due,            \* its confirm_...() is scheduled
  starting,       \* start_front_() is about to run
  \* ControlService.
  pump_enabled, pump_enabled_valid,
  current_mode, mode_valid,
  commanded_mode, mode_command_pending, mode_confirm_attempts,
  setpoints,      \* the per-mode cache of setpoints
  \* AlphaHwrComponent.
  link,           \* session_.is_ready()
  chain_done,     \* initial_data_read_done_
  config_valid,   \* the other caches is_state_synchronized() asks for
  sync,           \* how far sync_cache_async() is
  sync_expected,  \* its expected_mode
  \* The transport, the pump and its panel, external.
  wire, pump_run, pump_mode, pump_setpoint, panel,
  \* History, read by the properties only.
  status, results,  \* what each operation settled as, how often it did
  winners,          \* operations that superseded another
  turned_away,      \* refused by the ready check with the link up
  cut_short,        \* timed out with their frame still at the transport
  flipped,          \* a setpoint frame changed the run state
  ignored           \* polls ignored with no operation in progress

opVars      == <<queue, phase, attempts, pre_value, due, starting>>
modeVars    == <<current_mode, mode_valid, mode_command_pending, mode_confirm_attempts>>
runVars     == <<pump_enabled, pump_enabled_valid>>
controlVars == <<runVars, modeVars, commanded_mode, setpoints>>
linkVars    == <<link, chain_done, config_valid, sync, sync_expected>>
pumpVars    == <<pump_run, pump_mode, pump_setpoint, panel, flipped>>
resultVars  == <<status, results, winners, turned_away, cut_short>>
vars == <<opVars, controlVars, linkVars, pumpVars, resultVars, wire, ignored>>

Phases   == {"new", "QUEUED", "WRITING", "CONFIRMING", "DONE"}
Statuses == {"none", "accepted", "clamped", "rejected", "timeout", "superseded", "invalid"}

Cmd(o)    == Request[o].cmd
Queued    == {queue[i] : i \in 1..Len(queue)}
Front     == Head(queue)
Running   == queue # <<>> /\ phase[Front] # "QUEUED"
InFlight(o) == Running /\ Front = o       \* find_(seq), not DONE

\* A command the services have queued at the transport.
Kinds == {"run", "mode", "control", "clock", "confirm", "clock_read", "poll", "sync", "config"}
Command(kind, op, on) == [kind |-> kind, op |-> op, on |-> on]
Poll == Command("poll", NoOp, FALSE)
Sync == Command("sync", NoOp, FALSE)
Config == Command("config", NoOp, FALSE)

\* is_cache_valid() and is_state_synchronized()
CacheValid   == mode_valid /\ pump_enabled_valid /\ config_valid
Synchronized == link /\ chain_done /\ CacheValid

Init ==
  /\ queue = <<>> /\ phase = [o \in Ops |-> "new"]
  /\ attempts = 0 /\ pre_value = NotANumber /\ due = FALSE /\ starting = FALSE
  /\ pump_enabled = FALSE /\ pump_enabled_valid = FALSE
  /\ current_mode = NoMode /\ mode_valid = FALSE
  /\ commanded_mode = NoMode /\ mode_command_pending = FALSE /\ mode_confirm_attempts = 0
  /\ setpoints = [m \in ScalarModes |-> NotANumber]
  /\ link = FALSE /\ chain_done = FALSE /\ config_valid = FALSE
  /\ sync = "none" /\ sync_expected = NoMode
  /\ wire = <<>> /\ panel = 0 /\ flipped = FALSE /\ ignored = 0
  /\ pump_run \in BOOLEAN /\ pump_mode \in Modes
  /\ pump_setpoint \in [ScalarModes -> {Clamp[v] : v \in Values}]
  /\ status = [o \in Ops |-> "none"] /\ results = [o \in Ops |-> 0]
  /\ winners = {} /\ turned_away = {} /\ cut_short = {}

-----------------------------------------------------------------------------
(* finish_(), submit_() and start_front_().                                 *)

\* resource_keys_ meet
SameResource(o, p) ==
  /\ Cmd(o) = Cmd(p)
  /\ Cmd(o) = "setpoint" => Request[o].mode = Request[p].mode

FrameQueued(o) ==
  \E i \in 1..Len(wire) : wire[i].op = o /\ wire[i].kind \in {"run", "mode", "control"}

\* Faulty variant of Finish: the next operation is not started.
FinishStalls(s) ==
  /\ queue' = Tail(queue)
  /\ phase' = [phase EXCEPT ![Front] = "DONE"]
  /\ status' = [status EXCEPT ![Front] = s]
  /\ results' = [results EXCEPT ![Front] = @ + 1]
  /\ starting' = FALSE /\ due' = FALSE /\ attempts' = 0 /\ pre_value' = NotANumber
  /\ UNCHANGED <<winners, cut_short>>

\* finish_() of the operation at the front, bar what it does to the cache.
Finish(s) ==
  /\ queue' = Tail(queue)
  /\ phase' = [phase EXCEPT ![Front] = "DONE"]
  /\ status' = [status EXCEPT ![Front] = s]
  /\ results' = [results EXCEPT ![Front] = @ + 1]
  /\ cut_short' = IF s = "timeout" /\ FrameQueued(Front)
                  THEN cut_short \cup {Front} ELSE cut_short
  /\ starting' = TRUE /\ due' = FALSE /\ attempts' = 0 /\ pre_value' = NotANumber
  /\ UNCHANGED winners

\* Faulty variant of RollsBack: the optimistic run state stays.
RollsBackNever(o, s) == FALSE

\* ... with the rollback of the optimistic run state.
RollsBack(o, s) == Cmd(o) = "enabled" /\ s \in {"timeout", "superseded"}
FinishUnread(s) ==
  /\ Finish(s)
  /\ pump_enabled_valid' = (pump_enabled_valid /\ ~RollsBack(Front, s))
  /\ UNCHANGED <<pump_enabled, modeVars, commanded_mode, setpoints, turned_away>>

\* Faulty variant of Supersedes: the operation in flight is not spared.
SupersedesAny(o, q) == SameResource(q, o)

\* Does o supersede q, still queued.
Supersedes(o, q) == phase[q] = "QUEUED" /\ SameResource(q, o)

\* A client submits o.  The facade's check_ready() comes first.
Submit(o) ==
  LET Superseded == {q \in Queued : Supersedes(o, q)}
      Kept       == {i \in 1..Len(queue) : queue[i] \notin Superseded}
  IN
  /\ ~starting /\ Synchronized /\ phase[o] = "new"
  /\ \E f \in Listings(Len(queue), Kept) : queue' = Append(Pick(queue, f), o)
  /\ phase' = [q \in Ops |-> IF q = o THEN "QUEUED"
                             ELSE IF q \in Superseded THEN "DONE" ELSE phase[q]]
  /\ status' = [q \in Ops |-> IF q \in Superseded THEN "superseded" ELSE status[q]]
  /\ results' = [q \in Ops |-> IF q \in Superseded THEN results[q] + 1 ELSE results[q]]
  /\ winners' = IF Superseded = {} THEN winners ELSE winners \cup {o}
  /\ pump_enabled_valid' =
       (pump_enabled_valid /\ \A q \in Superseded : ~RollsBack(q, "superseded"))
  /\ starting' = (phase'[Head(queue')] = "QUEUED")
  /\ UNCHANGED <<attempts, pre_value, due, pump_enabled, modeVars, commanded_mode,
                 setpoints, linkVars, pumpVars, turned_away, cut_short, wire, ignored>>

\* note_mode_commanded
NoteModeCommanded(m) ==
  /\ commanded_mode' = m /\ current_mode' = m /\ mode_valid' = TRUE
  /\ mode_command_pending' = TRUE /\ mode_confirm_attempts' = 0

\* What run_...() refuses before the wire.
Invalid(o) ==
  Cmd(o) = "setpoint" /\ (Request[o].mode \notin ScalarModes \/ Request[o].value = NotANumber)

\* The ready check turns the operation away, and start_front_() goes on.
TurnAway ==
  /\ starting /\ queue # <<>> /\ ~Synchronized
  /\ Finish("rejected")
  /\ turned_away' = turned_away \cup {Front}
  /\ UNCHANGED <<controlVars, linkVars, pumpVars, wire, ignored>>

RefuseInvalid ==
  /\ starting /\ queue # <<>> /\ Synchronized
  /\ Invalid(Front)
  /\ FinishUnread("invalid")
  /\ UNCHANGED <<linkVars, pumpVars, wire, ignored>>

\* run_set_enabled_: the callback of the Class 3 command carries on.
RunSetEnabled ==
  /\ Cmd(Front) = "enabled"
  /\ phase' = [phase EXCEPT ![Front] = "WRITING"]
  /\ wire' = Append(wire, Command("run", Front, Request[Front].on))
  /\ UNCHANGED <<due, pre_value, controlVars>>

\* run_set_mode_ and run_set_clock_ send, and confirm later.
RunSetMode ==
  /\ Cmd(Front) = "mode"
  /\ phase' = [phase EXCEPT ![Front] = "CONFIRMING"]
  /\ wire' = Append(wire, Command("mode", Front, FALSE))
  /\ NoteModeCommanded(Request[Front].mode)
  /\ due' = TRUE
  /\ UNCHANGED <<pre_value, runVars, setpoints>>

RunSetClock ==
  /\ Cmd(Front) = "clock"
  /\ phase' = [phase EXCEPT ![Front] = "CONFIRMING"]
  /\ wire' = Append(wire, Command("clock", Front, FALSE))
  /\ due' = TRUE
  /\ UNCHANGED <<pre_value, controlVars>>

\* run_set_setpoint_: the fused frame carries the run state of the cache, which
\* is valid here because the ready check asked for it, so
\* with_resolved_enabled_state() answers at once.
RunSetSetpoint ==
  LET m == Request[Front].mode IN
  /\ Cmd(Front) = "setpoint"
  /\ phase' = [phase EXCEPT ![Front] = "CONFIRMING"]
  /\ pre_value' = setpoints[m]
  /\ wire' = Append(wire, Command("control", Front, pump_enabled))
  /\ NoteModeCommanded(m)
  /\ setpoints' = [setpoints EXCEPT ![m] = Request[Front].value]
  /\ due' = TRUE
  /\ UNCHANGED runVars

StartFront ==
  /\ starting /\ queue # <<>> /\ Synchronized /\ ~Invalid(Front)
  /\ RunSetEnabled \/ RunSetMode \/ RunSetClock \/ RunSetSetpoint
  /\ starting' = FALSE
  /\ ignored' = 0
  /\ UNCHANGED <<queue, attempts, linkVars, pumpVars, resultVars>>

\* start_front_() with nothing left.
NothingToStart ==
  /\ starting /\ queue = <<>>
  /\ starting' = FALSE
  /\ UNCHANGED <<queue, phase, attempts, pre_value, due, controlVars, linkVars, pumpVars,
                 resultVars, wire, ignored>>

\* arm_watchdog_'s timer.
Watchdog ==
  /\ "watchdog" \in Faults /\ ~starting /\ Running
  /\ FinishUnread("timeout")
  /\ UNCHANGED <<linkVars, pumpVars, wire, ignored>>

\* The scheduled confirm_...(): its readback joins the queue.
ConfirmDue ==
  /\ ~starting /\ Running /\ due
  /\ due' = FALSE
  /\ wire' = Append(wire, Command(IF Cmd(Front) = "clock" THEN "clock_read" ELSE "confirm",
                                  Front, FALSE))
  /\ UNCHANGED <<queue, phase, attempts, pre_value, starting, controlVars, linkVars,
                 pumpVars, resultVars, ignored>>

-----------------------------------------------------------------------------
(* Commands end at the transport, oldest first.                             *)

\* What may become of a write: did the pump carry it out, and what was said.
Outcome(applied, answer) == [applied |-> applied, answer |-> answer]
Outcomes ==
  {Outcome(TRUE, "ok")}
  \cup (IF "refused"    \in Faults THEN {Outcome(FALSE, "refused")} ELSE {})
  \cup (IF "ignored"    \in Faults THEN {Outcome(FALSE, "ok")} ELSE {})
  \cup (IF "lost_frame" \in Faults THEN {Outcome(FALSE, "none")} ELSE {})
  \cup (IF "lost_reply" \in Faults THEN {Outcome(TRUE, "none")} ELSE {})

\* Is a read answered.
Answers == {TRUE} \cup (IF Faults \cap {"lost_frame", "lost_reply"} # {} THEN {FALSE} ELSE {})

Ends(kind) ==
  /\ ~starting /\ wire # <<>> /\ Head(wire).kind = kind

\* send_run_command's callback: acked, or the window closed without an answer,
\* the run state is taken for commanded and read back.
EndRun ==
  LET o == Head(wire).op IN
  /\ Ends("run")
  /\ \E out \in Outcomes :
       /\ pump_run' = IF out.applied THEN Head(wire).on ELSE pump_run
       /\ IF ~InFlight(o) THEN UNCHANGED <<opVars, controlVars, resultVars>>
          ELSE IF out.answer = "refused" THEN FinishUnread("rejected")
          ELSE /\ pump_enabled' = Request[o].on /\ pump_enabled_valid' = TRUE
               /\ phase' = [phase EXCEPT ![o] = "CONFIRMING"]
               /\ due' = TRUE
               /\ UNCHANGED <<queue, attempts, pre_value, starting, modeVars,
                              commanded_mode, setpoints, resultVars>>
  /\ wire' = Tail(wire)
  /\ UNCHANGED <<pump_mode, pump_setpoint, panel, flipped, linkVars, ignored>>

\* The other writes report to nobody.
EndMode ==
  /\ Ends("mode")
  /\ \E out \in Outcomes :
       pump_mode' = IF out.applied THEN Request[Head(wire).op].mode ELSE pump_mode
  /\ wire' = Tail(wire)
  /\ UNCHANGED <<pump_run, pump_setpoint, panel, flipped, opVars, controlVars, linkVars,
                 resultVars, ignored>>

EndControl ==
  LET r == Request[Head(wire).op] IN
  /\ Ends("control")
  /\ \E out \in Outcomes :
       IF out.applied
       THEN /\ pump_run' = Head(wire).on
            /\ pump_mode' = r.mode
            /\ pump_setpoint' = [pump_setpoint EXCEPT ![r.mode] = Clamp[r.value]]
            /\ flipped' = (flipped \/ Head(wire).on # pump_run)
       ELSE UNCHANGED <<pump_run, pump_mode, pump_setpoint, flipped>>
  /\ wire' = Tail(wire)
  /\ UNCHANGED <<panel, opVars, controlVars, linkVars, resultVars, ignored>>

EndClock ==
  /\ Ends("clock")
  /\ wire' = Tail(wire)
  /\ UNCHANGED <<opVars, controlVars, linkVars, pumpVars, resultVars, ignored>>

-----------------------------------------------------------------------------
(* get_mode_async(): a readback updates the cache before its caller hears.  *)

\* The run state and the reported mode's setpoint are taken unconditionally.
CacheReadback ==
  /\ pump_enabled' = pump_run /\ pump_enabled_valid' = TRUE
  /\ setpoints' = IF pump_mode \in ScalarModes
                  THEN [setpoints EXCEPT ![pump_mode] = pump_setpoint[pump_mode]]
                  ELSE setpoints

\* Faulty variants of Ignores: nothing is ignored, or everything is.
IgnoresNothing == FALSE
IgnoresAll     == mode_command_pending

\* Issue #91: a mode command is pending and the pump reports another mode.
Ignores   == mode_command_pending /\ pump_mode # commanded_mode
AdoptMode ==
  /\ current_mode' = pump_mode /\ mode_valid' = TRUE
  /\ mode_command_pending' = FALSE /\ mode_confirm_attempts' = 0

EndPoll ==
  /\ Ends("poll")
  /\ \E answered \in Answers :
       IF ~answered THEN UNCHANGED <<controlVars, ignored>>
       ELSE /\ CacheReadback
            /\ IF Ignores
               THEN /\ UNCHANGED modeVars
                    /\ ignored' = IF queue = <<>> /\ ignored <= MaxModeConfirmAttempts
                                  THEN ignored + 1 ELSE ignored
               ELSE AdoptMode /\ ignored' = 0
            /\ UNCHANGED commanded_mode
  /\ wire' = Tail(wire)
  /\ UNCHANGED <<opVars, linkVars, pumpVars, resultVars>>

\* Faulty variant of EnabledVerdict: the cache is trusted as it was before the
\* readback.
EnabledVerdictUnread(o, answered) ==
  IF pump_enabled_valid /\ pump_enabled = Request[o].on THEN "accepted"
  ELSE IF attempts < EnabledMaxAttempts THEN "retry"
  ELSE IF answered THEN "rejected" ELSE "timeout"

\* What a confirm makes of a readback, the cache being updated.
EnabledVerdict(o, answered) ==
  IF answered /\ pump_enabled_valid' /\ pump_enabled' = Request[o].on THEN "accepted"
  ELSE IF attempts < EnabledMaxAttempts THEN "retry"
  ELSE IF answered THEN "rejected" ELSE "timeout"

ModeVerdict(o, answered) ==
  IF answered /\ pump_mode = Request[o].mode THEN "accepted"
  ELSE IF attempts < ModeMaxAttempts THEN "retry"
  ELSE IF answered THEN "rejected" ELSE "timeout"

SetpointVerdict(o, answered) ==
  LET r      == Request[o]
      stored == setpoints'[r.mode]
      usable == answered /\ pump_mode = r.mode /\ stored # NotANumber
  IN IF ~usable
     THEN IF attempts < SetpointMaxAttempts THEN "retry"
          ELSE IF answered THEN "rejected" ELSE "timeout"
     ELSE IF stored = r.value THEN "accepted"
     ELSE IF pre_value # NotANumber /\ stored = pre_value THEN "rejected"
     ELSE "clamped"

Verdict(o, answered) ==
  CASE Cmd(o) = "enabled"  -> EnabledVerdict(o, answered)
    [] Cmd(o) = "mode"     -> ModeVerdict(o, answered)
    [] Cmd(o) = "setpoint" -> SetpointVerdict(o, answered)

Retry ==
  /\ attempts' = attempts + 1 /\ due' = TRUE
  /\ UNCHANGED <<queue, phase, pre_value, starting, status, results, winners, cut_short>>

\* confirm_enabled_, confirm_mode_ and confirm_setpoint_: the readback, the
\* verdict, and for a mode the pump never took the adoption of the one it keeps.
ConfirmWith(o, answered) ==
  LET verdict == Verdict(o, answered)
      forced  == Cmd(o) = "mode" /\ verdict = "rejected"
  IN /\ IF answered THEN CacheReadback
        ELSE UNCHANGED <<pump_enabled, setpoints>>
     /\ IF verdict = "retry" THEN Retry ELSE Finish(verdict)
     /\ ~answered => pump_enabled_valid' = (pump_enabled_valid /\ ~RollsBack(o, verdict))
     /\ IF answered /\ (forced \/ ~Ignores) THEN AdoptMode ELSE UNCHANGED modeVars

\* A readback whose operation has settled still refreshes the cache.
RefreshWith(answered) ==
  /\ IF answered THEN CacheReadback ELSE UNCHANGED <<runVars, setpoints>>
  /\ IF answered /\ ~Ignores THEN AdoptMode ELSE UNCHANGED modeVars
  /\ UNCHANGED <<opVars, status, results, winners, cut_short>>

EndConfirm ==
  /\ Ends("confirm")
  /\ \E answered \in Answers :
       IF InFlight(Head(wire).op) THEN ConfirmWith(Head(wire).op, answered)
       ELSE RefreshWith(answered)
  /\ wire' = Tail(wire)
  /\ UNCHANGED <<commanded_mode, turned_away, linkVars, pumpVars, ignored>>

\* confirm_set_clock_: any time that decodes is the verdict.
EndClockRead ==
  /\ Ends("clock_read")
  /\ IF ~InFlight(Head(wire).op) THEN UNCHANGED <<opVars, controlVars, resultVars>>
     ELSE \/ \E s \in {"accepted", "rejected"} : FinishUnread(s)
          \/ /\ FALSE \in Answers
             /\ IF attempts >= ClockMaxAttempts THEN FinishUnread("timeout")
                ELSE Retry /\ UNCHANGED <<controlVars, turned_away>>
  /\ wire' = Tail(wire)
  /\ UNCHANGED <<linkVars, pumpVars, ignored>>

-----------------------------------------------------------------------------
(* The component around them: the poll of issue #54, the initial read chain  *)
(* and its sync_cache_async(), the link.                                     *)

PollDue ==
  /\ ~starting /\ link
  /\ Len(SelectSeq(wire, LAMBDA c : c.kind = "poll")) < MaxPolls
  /\ wire' = Append(wire, Poll)
  /\ UNCHANGED <<opVars, controlVars, linkVars, pumpVars, resultVars, ignored>>

\* trigger_initial_data_reads()
StartChain ==
  /\ ~starting /\ link /\ ~chain_done
  /\ chain_done' = TRUE
  /\ sync' = "waiting"
  /\ UNCHANGED <<link, config_valid, sync_expected, wire, opVars, controlVars, pumpVars,
                 resultVars, ignored>>

\* should_rearm_initial_read(): the caches are not there long after the chain
\* ran.  By then no read of it is under way.
Rearm ==
  /\ ~starting /\ link /\ chain_done /\ ~CacheValid /\ sync \in {"none", "waiting"}
  /\ chain_done' = FALSE
  /\ sync' = "none"
  /\ UNCHANGED <<link, config_valid, sync_expected, wire, opVars, controlVars, pumpVars,
                 resultVars, ignored>>

\* sync_cache_async(), first called or retried.
SyncDue ==
  /\ ~starting /\ sync = "waiting"
  /\ sync' = "reading"
  /\ sync_expected' = IF mode_valid THEN current_mode ELSE NoMode
  /\ wire' = Append(wire, Sync)
  /\ UNCHANGED <<link, chain_done, config_valid, opVars, controlVars, pumpVars,
                 resultVars, ignored>>

\* Faulty variant of RetriesLeft: off by one.
OneRetryMore == mode_confirm_attempts <= MaxModeConfirmAttempts

RetriesLeft == mode_confirm_attempts < MaxModeConfirmAttempts

\* Its readback: retried while a pending command is not yet applied, and after
\* MAX_MODE_CONFIRM_ATTEMPTS retries the pump's word is taken.
SyncRead ==
  /\ CacheReadback
  /\ IF Ignores /\ sync_expected \notin {NoMode, pump_mode} /\ RetriesLeft
     THEN /\ mode_confirm_attempts' = mode_confirm_attempts + 1
          /\ UNCHANGED <<current_mode, mode_valid, mode_command_pending>>
          /\ sync' = "waiting" /\ wire' = Tail(wire)
     ELSE /\ IF ~Ignores \/ sync_expected \notin {NoMode, pump_mode}
             THEN AdoptMode ELSE UNCHANGED modeVars
          /\ sync' = "config" /\ wire' = Append(Tail(wire), Config)
  /\ UNCHANGED commanded_mode

EndSync ==
  /\ Ends("sync")
  /\ \/ SyncRead
     \/ /\ FALSE \in Answers
        /\ sync' = "waiting" /\ wire' = Tail(wire)
        /\ UNCHANGED controlVars
  /\ UNCHANGED <<link, chain_done, config_valid, sync_expected, opVars, pumpVars,
                 resultVars, ignored>>

\* read_obj91_config() and the schedule overview, then is_cache_valid().
EndConfig ==
  /\ Ends("config")
  /\ \E answered \in Answers :
       /\ config_valid' = (config_valid \/ answered)
       /\ sync' = IF answered /\ mode_valid /\ pump_enabled_valid THEN "none" ELSE "waiting"
  /\ wire' = Tail(wire)
  /\ UNCHANGED <<link, chain_done, sync_expected, opVars, controlVars, pumpVars,
                 resultVars, ignored>>

Connect ==
  /\ ~starting /\ ~link
  /\ link' = TRUE
  /\ UNCHANGED <<chain_done, config_valid, sync, sync_expected, wire, opVars, controlVars,
                 pumpVars, resultVars, ignored>>

\* Faulty variant of OnDisconnect: only the operation in flight is told.
OnDisconnectFrontOnly ==
  /\ queue' = <<>> /\ due' = FALSE /\ attempts' = 0 /\ pre_value' = NotANumber
  /\ phase' = [o \in Ops |-> IF o \in Queued THEN "DONE" ELSE phase[o]]
  /\ status' = [o \in Ops |-> IF queue # <<>> /\ o = Front THEN "timeout" ELSE status[o]]
  /\ results' = [o \in Ops |-> IF queue # <<>> /\ o = Front THEN results[o] + 1
                               ELSE results[o]]

\* WriteOperationService::on_disconnect(): its first finish_() lets the ready
\* check turn the queued operations away.
OnDisconnect ==
  /\ queue' = <<>> /\ due' = FALSE /\ attempts' = 0 /\ pre_value' = NotANumber
  /\ phase' = [o \in Ops |-> IF o \in Queued THEN "DONE" ELSE phase[o]]
  /\ status' = [o \in Ops |-> IF o \notin Queued THEN status[o]
                              ELSE IF o = Front THEN "timeout" ELSE "rejected"]
  /\ results' = [o \in Ops |-> IF o \in Queued THEN results[o] + 1 ELSE results[o]]

\* The link drops: invalidate_cache(), then on_disconnect(), and last
\* Transport::reset(), whose callbacks find nobody.
Disconnect ==
  /\ "drop" \in Faults /\ ~starting /\ link
  /\ link' = FALSE /\ chain_done' = FALSE /\ config_valid' = FALSE /\ sync' = "none"
  /\ mode_valid' = FALSE /\ pump_enabled_valid' = FALSE
  /\ mode_command_pending' = FALSE /\ mode_confirm_attempts' = 0
  /\ OnDisconnect
  /\ wire' = <<>> /\ ignored' = 0
  /\ UNCHANGED <<starting, sync_expected, pump_enabled, current_mode, commanded_mode,
                 setpoints, pumpVars, winners, turned_away, cut_short>>

\* Somebody at the pump's panel, its app, or its own schedule.
Panel ==
  /\ ~starting /\ panel < MaxPanel
  /\ panel' = panel + 1
  /\ pump_run' \in BOOLEAN /\ pump_mode' \in Modes
  /\ UNCHANGED <<pump_setpoint, flipped, wire, opVars, controlVars, linkVars, resultVars,
                 ignored>>

StartFrontStep == TurnAway \/ RefuseInvalid \/ StartFront \/ NothingToStart

End == EndRun \/ EndMode \/ EndControl \/ EndClock \/ EndPoll \/ EndConfirm
       \/ EndClockRead \/ EndSync \/ EndConfig

Next ==
  \/ \E o \in Ops : Submit(o)
  \/ TurnAway \/ RefuseInvalid \/ StartFront \/ NothingToStart
  \/ Watchdog \/ ConfirmDue
  \/ EndRun \/ EndMode \/ EndControl \/ EndClock \/ EndPoll \/ EndConfirm
  \/ EndClockRead \/ EndSync \/ EndConfig
  \/ PollDue \/ StartChain \/ Rearm \/ SyncDue
  \/ Connect \/ Disconnect \/ Panel

Spec == Init /\ [][Next]_vars

\* start_front_() runs inside the call that asked for it, the transport ends
\* every command, and every timer the services set fires.
Fairness ==
  /\ WF_vars(StartFrontStep) /\ WF_vars(End)
  /\ WF_vars(ConfirmDue) /\ WF_vars(Watchdog) /\ WF_vars(PollDue)
  /\ WF_vars(StartChain) /\ WF_vars(SyncDue) /\ WF_vars(Connect)

FairSpec == Spec /\ Fairness
-----------------------------------------------------------------------------
(* Properties. *)

\* Every variable keeps the type the two services declare for it.
TypeOK ==
  /\ queue \in Seq(Ops) /\ phase \in [Ops -> Phases]
  /\ attempts \in Nat /\ due \in BOOLEAN /\ starting \in BOOLEAN
  /\ pre_value \in Values \cup {NotANumber}
  /\ pump_enabled \in BOOLEAN /\ pump_enabled_valid \in BOOLEAN
  /\ current_mode \in Modes \cup {NoMode} /\ mode_valid \in BOOLEAN
  /\ commanded_mode \in Modes \cup {NoMode} /\ mode_command_pending \in BOOLEAN
  /\ mode_confirm_attempts \in 0..MaxModeConfirmAttempts
  /\ setpoints \in [ScalarModes -> Values \cup {NotANumber}]
  /\ link \in BOOLEAN /\ chain_done \in BOOLEAN /\ config_valid \in BOOLEAN
  /\ sync \in {"none", "waiting", "reading", "config"}
  /\ sync_expected \in Modes \cup {NoMode}
  /\ pump_run \in BOOLEAN /\ pump_mode \in Modes
  /\ pump_setpoint \in [ScalarModes -> Values] /\ panel \in Nat
  /\ wire \in Seq([kind : Kinds, op : Ops \cup {NoOp}, on : BOOLEAN])
  /\ status \in [Ops -> Statuses] /\ results \in [Ops -> Nat]
  /\ winners \subseteq Ops /\ turned_away \subseteq Ops /\ cut_short \subseteq Ops
  /\ flipped \in BOOLEAN /\ ignored \in Nat

\* write_operation_service.h: "Every operation reaches exactly one terminal
\* status", the watchdog racing a confirm, a supersede and a dropped link
\* notwithstanding: an operation is in the queue, or it was told once.
OneResult ==
  \A o \in Ops :
    /\ results[o] = (IF phase[o] = "DONE" THEN 1 ELSE 0)
    /\ o \in Queued <=> phase[o] \notin {"new", "DONE"}

\* "Exactly one operation is in flight at a time", and none waits behind a
\* front that was never started.
OneInFlight ==
  \A i \in 1..Len(queue) :
    phase[queue[i]] # "QUEUED" <=> (i = 1 /\ ~starting)

\* The service keeps the promise of module WritePromise.
RunningOp == IF Running THEN Front ELSE NoOp
Behind    == IF Running THEN Tail(queue) ELSE queue
Promise == INSTANCE WritePromise WITH
  Collides <- SameResource,
  running <- RunningOp,
  waiting <- Behind
KeepsPromise == Promise!Spec

\* An operation reported accepted is in force at the pump at that moment, and
\* one reported clamped is stored as something else.
InForce(o) ==
  LET r == Request[o] IN
  CASE r.cmd = "enabled"  -> pump_run = r.on
    [] r.cmd = "mode"     -> pump_mode = r.mode
    [] r.cmd = "setpoint" -> pump_mode = r.mode /\ pump_setpoint[r.mode] = r.value
    [] r.cmd = "clock"    -> TRUE
VerdictsHonest ==
  [][\A o \in Ops : status'[o] # status[o] =>
       /\ status'[o] = "accepted" => InForce(o)
       /\ status'[o] = "clamped" => ~InForce(o)]_vars

\* Issue #45: a setpoint write never starts or stops the pump, as long as the
\* run state changes by nobody else's hand and no START or STOP was given up
\* with its frame still queued.
SetpointKeepsRun ==
  panel = 0 /\ (\A o \in cut_short : Cmd(o) # "enabled") => ~flipped

\* The comment on finish_()'s rollback, without that last reservation: "read
\* the pump back, and abort rather than guess".
AbandonedRunNeverGuessed == panel = 0 => ~flipped

\* Issue #91: while a mode command is being carried out no readback, of the
\* poll or of the operation, puts the old mode back in the cache.  Only the
\* initial sync may, when its own bounded retries have run out.
KeepsCommandedMode ==
  [][panel = 0 /\ cut_short = {} /\ sync' = sync
     /\ Running /\ Cmd(Front) \in {"mode", "setpoint"} /\ phase'[Front] # "DONE"
       => current_mode' \in {current_mode, Request[Front].mode}]_vars

\* "Max mismatch retries before we stop forcing the commanded mode and accept
\* whatever the pump reports" (control_service.h): with no operation in
\* progress, no more polls than that are ignored.
ForcingIsBounded == ignored <= MaxModeConfirmAttempts

\* "Last write wins": the operation that superseded another is not turned away
\* by the service's own ready check while the link is up.
LastWriteRuns == winners \cap turned_away = {}

\* "A client waiting on the result can never hang."
EverySettles ==
  \A o \in Ops : phase[o] = "QUEUED" ~> results[o] = 1

\* Issue #54: a change made at the pump reaches the cache, although nobody told
\* the component, as long as the link stays up and every mode command is seen
\* through.
ChangesNoticed ==
  (current_mode # pump_mode \/ pump_enabled # pump_run)
    ~> (current_mode = pump_mode /\ pump_enabled = pump_run)
=============================================================================
