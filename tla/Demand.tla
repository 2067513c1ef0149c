------------------------------- MODULE Demand -------------------------------
(***************************************************************************)
(* The hot-water demand detector: DhwDemandComponent::update() with the    *)
(* decisions of dhw_demand_logic.h, over sensors whose readings reach it   *)
(* one by one, late or not at all.  Time is counted in ticks of update().  *)
(* The code keeps a millis() stamp per event and only ever reads           *)
(* now - stamp, so each stamp is an age here; an age is kept exact up to   *)
(* the largest bound it is compared with.  A stamp nobody renews looks new *)
(* again when the clock has gone round once: Rollover.                     *)
(***************************************************************************)
EXTENDS Integers

CONSTANTS
  NaN,                  \* no value
  Speeds,               \* classes of motor speed, "off" among them
  Trusted,              \* those at or above min_speed_rpm
  Loop,                 \* what the meter sees of the loop at each speed
  Estimate,             \* what the pump reports of it
  Draws,                \* what a tap can draw, 0 when shut
  flow_threshold, demand_flow, continuation_release, dhw_in_use_loop_bias,
  PumpStale, FlowStale, Settle, ContinuationMax, ReleaseTicks,
  InUseMin, Carry, LatchSamples, Suppression, Release, Gap,
  MaxMoves,             \* bound: changes of the speed, the tap or the link, and wraps
  Rollovers             \* stamps old enough for the clock to go round

Never == -1             \* a stamp of 0: the event has not happened

Stamps == {"motor", "loop", "flow", "on", "off", "capture", "metered",
           "no_draw", "high", "true", "demand",
           "ran", "raw", "drawn"}  \* external: the motor started; history: a demand, a draw

ASSUME SpeedAssumption ==
  /\ "off" \in Speeds /\ NaN \notin Speeds /\ NaN \notin Int
  /\ Trusted \subseteq Speeds \ {"off"}
  /\ Loop \in [Speeds -> Nat] /\ Estimate \in [Speeds -> Nat] /\ Draws \subseteq Nat
  /\ 0 \in Draws

ASSUME BoundAssumption ==
  /\ {flow_threshold, demand_flow, dhw_in_use_loop_bias, PumpStale, FlowStale, Settle,
      ContinuationMax, InUseMin, Carry, Suppression, Release, Gap, MaxMoves} \subseteq Nat
  /\ continuation_release \in Int /\ ReleaseTicks \in Nat \ {0} /\ LatchSamples \in Nat \ {0, 1}
  /\ PumpStale <= FlowStale /\ Rollovers \subseteq Stamps

VARIABLES
  \* the house, external: pump, tap, and the changes so far
  speed, tap, moves,
  \* last published readings, and the motor speed noted beside two of them
  motor_speed, pump_flow, flow, pump_flow_speed_at_update, flow_speed_at_update,
  age,                  \* ticks since each stamp
  last_known,           \* last_known_pump_on_, "none" before pump_state_ever_known_
  prev_pump_on, prev_pump_confirmed_off, observed_pump_off, prev_eligible,
  flow_buf,             \* the meter at the last ticks, newest first
  pre_pump_on_flow, stopping_ticks,
  held, active,         \* what is published: the demand, and a session
  retired               \* history: the capture of this pump run was given up

worldVars == <<speed, tap, moves>>
readingVars == <<motor_speed, pump_flow, flow, pump_flow_speed_at_update,
                 flow_speed_at_update>>
memoryVars == <<last_known, prev_pump_on, prev_pump_confirmed_off, observed_pump_off,
                prev_eligible, flow_buf, pre_pump_on_flow, stopping_ticks>>
outVars == <<held, active, retired>>
vars == <<worldVars, readingVars, age, memoryVars, outVars>>

Largest(a, b) == IF a >= b THEN a ELSE b

\* The age beyond which nothing distinguishes two ages of a stamp. Where the code
\* retires a stamp at an age, the next one: reached only if it was not retired.
Oldest == [s \in Stamps |->
  CASE s = "motor" -> PumpStale + 1
    [] s \in {"loop", "flow"} -> FlowStale + 1
    [] s = "on" -> FlowStale + Settle + 1
    [] s = "off" -> Suppression + 1
    [] s = "capture" -> ContinuationMax + 1
    [] s \in {"metered", "no_draw", "drawn"} -> Carry + 2
    [] s = "high" -> Largest(InUseMin, Carry + 1)
    [] s = "true" -> Release
    [] s = "demand" -> Gap + 1
    [] s = "ran" -> Largest(PumpStale + 1, Settle)
    [] s = "raw" -> Release + Gap]

Older(s, a) == IF a = Never \/ a >= Oldest[s] THEN a ELSE a + 1

Ages == Never..(PumpStale + FlowStale + Settle + ContinuationMax + InUseMin + Carry
                + Suppression + Release + Gap + 2)
Flows == Nat \cup {NaN}
\* A pump that runs at boot is one that is started before the first report.
Init ==
  /\ speed = "off" /\ tap \in Draws /\ moves = 0
  /\ motor_speed = NaN /\ pump_flow = NaN /\ flow = NaN
  /\ pump_flow_speed_at_update = NaN /\ flow_speed_at_update = NaN
  /\ age = [s \in Stamps |-> Never]
  /\ last_known = "none" /\ prev_pump_on = FALSE /\ prev_pump_confirmed_off = FALSE
  /\ observed_pump_off = FALSE /\ prev_eligible = FALSE
  /\ flow_buf = [i \in 1..LatchSamples - 1 |-> NaN]
  /\ pre_pump_on_flow = NaN /\ stopping_ticks = 0
  /\ held = FALSE /\ active = FALSE /\ retired = FALSE

-----------------------------------------------------------------------------
(* The pump's state: decide_pump_state().                                  *)

Fresh(s, bound) == age[s] # Never /\ age[s] <= bound

\* Faulty variant of SpeedUsed: the last published value, however old.
SpeedPublished == motor_speed

\* The age-masked speed; also fresh_motor_speed_().
SpeedUsed == IF age["motor"] \in 0..PumpStale THEN motor_speed ELSE NaN
Known == SpeedUsed # NaN
Frozen == motor_speed # NaN /\ ~Known

PumpOn == IF Known THEN SpeedUsed # "off" ELSE Frozen \/ last_known # "off"
ConfirmedOff == IF Known THEN SpeedUsed = "off" ELSE ~Frozen /\ last_known = "off"

\* The two edges between known states.
OnEdge == last_known # "on" /\ Known /\ PumpOn
OffEdge == last_known = "on" /\ ConfirmedOff
OnAge == IF OnEdge THEN 0 ELSE age["on"]

\* A start as update() sees it, known or assumed, and what it carries over.
Start == ~prev_pump_on /\ PumpOn
Captures == prev_eligible /\ prev_pump_confirmed_off /\ observed_pump_off /\ Start
Resets == Start \/ ConfirmedOff
Capture == IF Captures THEN flow_buf[1] ELSE IF Resets THEN NaN ELSE pre_pump_on_flow
CaptureAge == IF Captures THEN 0 ELSE IF Resets THEN Never ELSE age["capture"]
Stopping == IF Resets THEN 0 ELSE stopping_ticks

\* Faulty variant of Retire: the stamps stay.
Keep(s) == age[s]

\* The support stamps of the dhw_in_use tier, retired past the carry window.
Retire(s) == IF age[s] > Carry THEN Never ELSE age[s]

-----------------------------------------------------------------------------
(* The pump-on branch: decide_pump_on().                                   *)

PredatesStart(s) == age[s] = Never \/ (OnAge # Never /\ age[s] > OnAge)
EstimateSettled == OnAge = Never \/ OnAge >= Settle
PumpFlowUsable == Fresh("loop", PumpStale) /\ ~PredatesStart("loop") /\ EstimateSettled
MeterUsable == Fresh("flow", FlowStale) /\ ~PredatesStart("flow")

\* Meter minus loop, where both can be trusted.
DemandGpm ==
  IF flow # NaN /\ pump_flow # NaN /\ PumpFlowUsable /\ MeterUsable /\ SpeedUsed \in Trusted
  THEN flow - pump_flow ELSE NaN
Draw(gpm) == gpm # NaN /\ gpm > demand_flow
NoDraw(gpm) == gpm # NaN /\ gpm <= demand_flow

\* Faulty variant of Released: one tick later.
ReleasedLater == Stopping + 1 > ReleaseTicks

\* Enough consecutive measurements at or below the loop.
Released == Stopping + 1 >= ReleaseTicks

\* Faulty variant of Expired: nothing but a measurement ends a continuation.
ExpiredNever == CaptureAge = Never

Expired == CaptureAge = Never \/ CaptureAge >= ContinuationMax

\* evaluate_continuation().
Verdict(gpm) ==
  IF Capture = NaN \/ Capture <= flow_threshold THEN "NOT_ARMED"
  ELSE IF gpm # NaN /\ gpm <= continuation_release
       THEN IF Released THEN "MEASURED_STOPPED" ELSE "STOPPING"
  ELSE IF Draw(gpm) THEN "CONFIRMED"
  ELSE IF Expired THEN "EXPIRED"
  ELSE IF flow = NaN \/ flow <= flow_threshold THEN "METER_QUIET"
  ELSE "ACTIVE"

\* Faulty variant of MeterAtCurrentSpeed: the meter's reading of any speed.
MeterAtAnySpeed == SpeedUsed # NaN /\ flow_speed_at_update # NaN

\* Is the meter's reading from the speed the pump runs at now?
MeterAtCurrentSpeed ==
  SpeedUsed # NaN /\ flow_speed_at_update # NaN /\ SpeedUsed = flow_speed_at_update

LoopAtCurrentSpeed ==
  /\ SpeedUsed # NaN /\ SpeedUsed = pump_flow_speed_at_update
  /\ Fresh("loop", FlowStale)
  /\ OnAge = Never \/ OnAge - age["loop"] >= Settle

HighAge(in_use) ==
  IF ~in_use THEN Never ELSE IF age["high"] = Never THEN 0 ELSE age["high"]
Sustained(in_use) == in_use /\ HighAge(in_use) >= InUseMin

\* A metered draw inside the flag's run, recent, and not measured over since.
CarriedDraw(in_use) ==
  /\ Retire("metered") # Never
  /\ Retire("metered") <= HighAge(in_use)
  /\ Retire("metered") <= Carry
  /\ ~(Retire("no_draw") # Never /\ Retire("no_draw") <= Retire("metered"))

\* The meter above the loop by more than the estimate's bias at any speed.
MeterAboveLoop ==
  /\ Fresh("flow", FlowStale) /\ flow # NaN /\ pump_flow # NaN
  /\ LoopAtCurrentSpeed /\ MeterAtCurrentSpeed /\ ~PredatesStart("flow")
  /\ flow - pump_flow > demand_flow + dhw_in_use_loop_bias

Vetoed == Fresh("flow", FlowStale) /\ flow # NaN /\ flow <= demand_flow

FlagSupported(gpm, in_use) ==
  /\ Sustained(in_use) /\ gpm = NaN
  /\ ~Vetoed /\ (CarriedDraw(in_use) \/ MeterAboveLoop)

Continues(v) == v \in {"ACTIVE", "CONFIRMED", "STOPPING"}

PumpOnMethod(gpm, v, in_use) ==
  IF Continues(v) THEN "deterministic_continuation"
  ELSE IF Draw(gpm) THEN "deterministic_subtraction"
  ELSE IF FlagSupported(gpm, in_use) THEN "deterministic_dhw_in_use"
  ELSE "pump_on_uncertain"

-----------------------------------------------------------------------------
(* The pump-off branch: detect_pump_off_().                                *)

FlowPresent == flow # NaN /\ flow > flow_threshold
PrevConfirmsOnset ==
  prev_pump_confirmed_off /\ flow_buf[1] # NaN /\ flow_buf[1] > flow_threshold

\* latch_suppressed_after_shutdown(): an age of 0 is inside the window too.
LatchSuppressed ==
  Suppression # 0 /\ (OffEdge \/ (age["off"] # Never /\ age["off"] <= Suppression))

FlowBuf == [i \in 1..LatchSamples |-> IF i = 1 THEN flow ELSE flow_buf[i - 1]]
LatchActive ==
  ~LatchSuppressed /\ \E i \in 1..LatchSamples : FlowBuf[i] # NaN /\ FlowBuf[i] > flow_threshold

\* signal: the temperature collapses, or the charge drops while the tank does not warm.
PumpOffMethod(signal) ==
  IF FlowPresent
  THEN IF signal \/ PrevConfirmsOnset THEN "deterministic_flow" ELSE "flow_onset_pending"
  ELSE IF signal /\ LatchActive THEN "deterministic_signal" ELSE "idle"

-----------------------------------------------------------------------------
(* One tick: update().                                                     *)

Positive == {"deterministic_flow", "deterministic_signal", "deterministic_continuation",
             "deterministic_subtraction", "deterministic_dhw_in_use"}

\* DemandHold::update(): a falling edge is held for Release ticks.
HoldUpdate(raw) ==
  raw \/ (held /\ age["true"] < Release)

\* Faulty variant of SessionUpdate: a gap of exactly Gap closes the session.
SessionUpdateEarly(demand) == demand \/ (active /\ age["demand"] < Gap)

\* SessionTracker::update(), told the held demand.
SessionUpdate(demand) == demand \/ (active /\ age["demand"] <= Gap)

\* Faulty variant of GivesUp: an expired capture is kept.
GivesUpMeasured(v) == v = "MEASURED_STOPPED"

\* The two releases that give the capture up.
GivesUp(v) == v = "MEASURED_STOPPED" \/ (v = "EXPIRED" /\ CaptureAge # Never)

\* The stamps set by this tick, and those cleared.
StampedNow(gpm, v) ==
  (IF OffEdge THEN {"off"} ELSE {})
  \cup (IF OnEdge THEN {"on"} ELSE {})
  \cup (IF Draw(gpm) /\ MeterAtCurrentSpeed THEN {"metered", "drawn"} ELSE {})
  \cup (IF NoDraw(gpm) THEN {"no_draw"} ELSE {})
  \cup (IF (Captures /\ ~GivesUp(v)) \/ v = "CONFIRMED" THEN {"capture"} ELSE {})

StampedBy(on, m, in_use) ==
  (IF m \in Positive THEN {"true", "raw"} ELSE {})
  \cup (IF m \in Positive /\ ~on THEN {"metered", "drawn"} ELSE {})
  \cup (IF HoldUpdate(m \in Positive) THEN {"demand"} ELSE {})
  \cup (IF in_use /\ age["high"] = Never THEN {"high"} ELSE {})

Cleared(v) ==
  (IF GivesUp(v) \/ Resets THEN {"capture"} ELSE {})
  \cup {s \in {"metered", "no_draw"} : Retire(s) = Never}

\* signal: the temperature collapses, or the charge drops while the tank does not warm.
\* (Bound from singletons, each value is computed once.)
Tick ==
  \E on \in {PumpOn}, off \in {ConfirmedOff}, starts \in {Start} :
  \E gpm \in {IF on THEN DemandGpm ELSE NaN} :
  \E v \in {IF on THEN Verdict(gpm) ELSE "NONE"} :
  \E now \in {StampedNow(gpm, v)}, cleared \in {Cleared(v)} :
    /\ last_known' = IF Known THEN (IF on THEN "on" ELSE "off") ELSE last_known
    /\ observed_pump_off' = (observed_pump_off \/ off)
    /\ pre_pump_on_flow' = IF GivesUp(v) THEN NaN ELSE Capture
    /\ stopping_ticks' = IF v = "STOPPING" THEN Stopping + 1 ELSE 0
    /\ prev_pump_on' = on /\ prev_pump_confirmed_off' = off
    /\ flow_buf' = [i \in 1..LatchSamples - 1 |-> FlowBuf[i]]
    /\ retired' = (v \in {"MEASURED_STOPPED", "EXPIRED"} \/ (retired /\ ~starts))
    /\ \E in_use \in BOOLEAN, signal \in BOOLEAN :
       \E m \in {IF on THEN PumpOnMethod(gpm, v, in_use) ELSE PumpOffMethod(signal)} :
       \E stamped \in {now \cup StampedBy(on, m, in_use)} :
         /\ prev_eligible' = (m = "deterministic_flow")
         /\ held' = HoldUpdate(m \in Positive)
         /\ active' = SessionUpdate(HoldUpdate(m \in Positive))
         /\ age' = [s \in Stamps |->
                      IF s \in stamped THEN Older(s, 0)
                      ELSE IF s \in cleared \/ (s = "high" /\ ~in_use) THEN Never
                      ELSE Older(s, age[s])]
    /\ UNCHANGED <<worldVars, readingVars>>

-----------------------------------------------------------------------------
(* The readings and the house.                                             *)

\* The motor's reply to a poll.
PollMotor ==
  /\ motor_speed' = speed /\ age' = [age EXCEPT !["motor"] = 0]
  /\ UNCHANGED <<worldVars, pump_flow, flow, pump_flow_speed_at_update, flow_speed_at_update,
                 memoryVars, outVars>>

\* The flow's reply: until the impeller has settled the estimate reads low.
PollFlow ==
  /\ pump_flow' = IF Fresh("ran", Settle - 1) THEN Estimate["off"] ELSE Estimate[speed]
  /\ pump_flow_speed_at_update' = SpeedUsed
  /\ age' = [age EXCEPT !["loop"] = 0]
  /\ UNCHANGED <<worldVars, motor_speed, flow, flow_speed_at_update, memoryVars, outVars>>

\* The household meter reports.
ReportFlow ==
  /\ flow' = Loop[speed] + tap
  /\ flow_speed_at_update' = SpeedUsed
  /\ age' = [age EXCEPT !["flow"] = 0]
  /\ UNCHANGED <<worldVars, motor_speed, pump_flow, pump_flow_speed_at_update, memoryVars,
                 outVars>>

\* The motor channel goes away: a NaN is no reading and stamps nothing.
LoseMotor ==
  /\ moves < MaxMoves /\ motor_speed # NaN
  /\ moves' = moves + 1 /\ motor_speed' = NaN
  /\ UNCHANGED <<speed, tap, pump_flow, flow, pump_flow_speed_at_update, flow_speed_at_update,
                 age, memoryVars, outVars>>

ChangeSpeed(s) ==
  /\ moves < MaxMoves /\ s # speed
  /\ moves' = moves + 1 /\ speed' = s
  /\ age' = [age EXCEPT !["ran"] = IF s = "off" THEN Never ELSE IF speed = "off" THEN 0 ELSE @]
  /\ UNCHANGED <<tap, readingVars, memoryVars, outVars>>

TurnTap(d) ==
  /\ moves < MaxMoves /\ d # tap
  /\ moves' = moves + 1 /\ tap' = d
  /\ UNCHANGED <<speed, readingVars, age, memoryVars, outVars>>

\* 2^32 milliseconds after the event, now - stamp starts again from zero.
Rollover(s) ==
  /\ moves < MaxMoves /\ age[s] = Oldest[s]
  /\ moves' = moves + 1 /\ age' = [age EXCEPT ![s] = 0]
  /\ UNCHANGED <<speed, tap, readingVars, memoryVars, outVars>>

Next ==
  \/ Tick
  \/ PollMotor \/ PollFlow \/ ReportFlow \/ LoseMotor
  \/ \E s \in Speeds : ChangeSpeed(s)
  \/ \E d \in Draws : TurnTap(d)
  \/ \E s \in Rollovers : Rollover(s)

\* update() is a polling component; the meter reports a changed value, and the
\* pump is polled as long as its link comes back.
Fairness ==
  /\ WF_vars(Tick)
  /\ WF_vars(ReportFlow /\ flow # Loop[speed] + tap)
  /\ WF_vars(PollMotor)

Spec == Init /\ [][Next]_vars
FairSpec == Spec /\ Fairness

-----------------------------------------------------------------------------
(* Properties.                                                             *)

TypeOK ==
  /\ speed \in Speeds /\ tap \in Draws /\ moves \in 0..MaxMoves
  /\ motor_speed \in Speeds \cup {NaN} /\ pump_flow \in Flows /\ flow \in Flows
  /\ pump_flow_speed_at_update \in Speeds \cup {NaN}
  /\ flow_speed_at_update \in Speeds \cup {NaN}
  /\ age \in [Stamps -> Ages]
  /\ last_known \in {"none", "on", "off"}
  /\ prev_pump_on \in BOOLEAN /\ prev_pump_confirmed_off \in BOOLEAN
  /\ observed_pump_off \in BOOLEAN /\ prev_eligible \in BOOLEAN
  /\ flow_buf \in [1..LatchSamples - 1 -> Flows]
  /\ pre_pump_on_flow \in Flows /\ stopping_ticks \in 0..ReleaseTicks - 1
  /\ held \in BOOLEAN /\ active \in BOOLEAN /\ retired \in BOOLEAN


\* The expensive mistake decide_pump_state() exists to avoid: a motor reading
\* nobody refreshed is not evidence of a stopped pump, so raw meter flow is
\* scored as household demand only while the pump has run for no longer than
\* the staleness bound. (A channel that says NaN is forward-filled instead.)
NoLoopScored ==
  ~PumpOn /\ motor_speed # NaN => age["ran"] = Never \/ age["ran"] <= PumpStale

\* The meter-above-loop support of dhw_in_use_tap_support() invents no draw: where
\* the two readings were taken at the speeds noted beside them, an excess above
\* the estimate's bias means that a tap was open when the meter reported.
NotedTruly ==
  /\ pump_flow = Estimate[pump_flow_speed_at_update]
  /\ \E d \in Draws : flow = Loop[flow_speed_at_update] + d
AboveLoopIsATap ==
  MeterAboveLoop /\ NotedTruly => flow > Loop[flow_speed_at_update]

\* A flag that nothing above the loop supports is believed only on a draw that was
\* measured within the carry window and within the flag's own run: no support
\* stamp comes back when the clock has gone round.
CarryIsRecent ==
  \A in_use \in BOOLEAN :
    PumpOn /\ FlagSupported(DemandGpm, in_use) /\ ~MeterAboveLoop
      => age["drawn"] \in 0..Carry /\ age["drawn"] <= HighAge(in_use)

\* A continuation that was measured over, or expired, never claims demand again in
\* the same pump run, not even when the clock has gone round.
NeverRevived == PumpOn /\ retired /\ ~Start => ~Continues(Verdict(DemandGpm))

\* A session spans the whole draw: it closes no sooner than the hold and the gap
\* after the last tick that found demand.
SessionSpans == [][active /\ ~active' => age["raw"] >= Release + Gap]_vars

\* Once the tap is shut for good the published demand ends, whatever the pump, the
\* heater's flag and the pump's link go on doing.
DemandEnds == <>[](tap = 0) => <>[]~held

\* "How long after a pump start the loop-flow estimate is still ramping and must
\* not be differenced": a difference is never taken with a reading from then.
NoRampDifference ==
  DemandGpm # NaN => OnAge = Never \/ OnAge - age["loop"] >= Settle

=============================================================================
