---------------------------- MODULE DemandProofs ----------------------------
(***************************************************************************)
(* Theorems about the demand detector, for every flow, speed, threshold and *)
(* time bound.                                                             *)
(***************************************************************************)
EXTENDS Demand, TLAPS

\* The bounds are numbers.
LEMMA Bounds ==
  /\ PumpStale \in Nat /\ FlowStale \in Nat /\ Settle \in Nat /\ ContinuationMax \in Nat
  /\ InUseMin \in Nat /\ Carry \in Nat /\ Suppression \in Nat /\ Release \in Nat /\ Gap \in Nat
  /\ ReleaseTicks \in Nat \ {0} /\ LatchSamples \in Nat \ {0, 1} /\ MaxMoves \in Nat
  BY BoundAssumption

\* Where each age is kept exact.
LEMMA OldestValues ==
  /\ Oldest["motor"] = PumpStale + 1 /\ Oldest["ran"] = Largest(PumpStale + 1, Settle)
  /\ Oldest["capture"] = ContinuationMax + 1
  /\ Oldest["metered"] = Carry + 2 /\ Oldest["drawn"] = Carry + 2
  /\ Oldest["true"] = Release /\ Oldest["demand"] = Gap + 1 /\ Oldest["raw"] = Release + Gap
<1>1. \A s \in {"motor", "ran", "capture", "metered", "drawn", "true", "demand", "raw"} : s \in Stamps
  BY DEF Stamps
<1>2. Oldest["motor"] = PumpStale + 1
  BY <1>1 DEF Oldest
<1>3. Oldest["ran"] = Largest(PumpStale + 1, Settle)
  BY <1>1 DEF Oldest
<1>4. Oldest["capture"] = ContinuationMax + 1
  BY <1>1 DEF Oldest
<1>5. Oldest["metered"] = Carry + 2 /\ Oldest["drawn"] = Carry + 2
  BY <1>1 DEF Oldest
<1>6. Oldest["true"] = Release
  BY <1>1 DEF Oldest
<1>7. Oldest["demand"] = Gap + 1 /\ Oldest["raw"] = Release + Gap
  BY <1>1 DEF Oldest
<1> QED BY <1>2, <1>3, <1>4, <1>5, <1>6, <1>7

\* Every age is kept up to some number.
LEMMA OldestNat == \A s \in Stamps : Oldest[s] \in Nat
<1> TAKE s \in Stamps
<1>1. Oldest[s] \in {PumpStale + 1, FlowStale + 1, FlowStale + Settle + 1, Suppression + 1,
                     ContinuationMax + 1, Carry + 2, Largest(InUseMin, Carry + 1), Release, Gap + 1,
                     Largest(PumpStale + 1, Settle), Release + Gap}
  BY DEF Oldest, Stamps
<1> QED BY <1>1, Bounds DEF Largest

\* A stamp is never, or so many ticks old.
AgeType == age \in [Stamps -> Nat \cup {Never}]

\* What a tick makes of an age.
LEMMA OlderType ==
  ASSUME NEW s \in Stamps, NEW a \in Nat \cup {Never}
  PROVE  /\ Older(s, a) \in Nat \cup {Never}
         /\ Older(s, a) = Never <=> a = Never
         /\ a \in Nat => Older(s, a) \in {a, a + 1}
         /\ a \in Nat /\ a < Oldest[s] => Older(s, a) = a + 1
         /\ a \in Nat /\ a >= Oldest[s] => Older(s, a) = a
  BY OldestNat DEF Older, Never

\* What a tick assigns, for the decisions it takes.
Ticked(gpm, v, in_use, m) ==
  /\ gpm = IF PumpOn THEN DemandGpm ELSE NaN
  /\ v = IF PumpOn THEN Verdict(gpm) ELSE "NONE"
  /\ pre_pump_on_flow' = IF GivesUp(v) THEN NaN ELSE Capture
  /\ retired' = (v \in {"MEASURED_STOPPED", "EXPIRED"} \/ (retired /\ ~Start))
  /\ held' = HoldUpdate(m \in Positive)
  /\ active' = SessionUpdate(HoldUpdate(m \in Positive))
  /\ age' = [s \in Stamps |->
               IF s \in StampedNow(gpm, v) \cup StampedBy(PumpOn, m, in_use) THEN Older(s, 0)
               ELSE IF s \in Cleared(v) \/ (s = "high" /\ ~in_use) THEN Never
               ELSE Older(s, age[s])]
  /\ UNCHANGED <<worldVars, readingVars>>

\* A tick in that form.
LEMMA TickForm == Tick => \E gpm, v, in_use, m : Ticked(gpm, v, in_use, m)
<1> SUFFICES ASSUME Tick PROVE \E gpm, v, in_use, m : Ticked(gpm, v, in_use, m)
  OBVIOUS
<1> DEFINE gpm == IF PumpOn THEN DemandGpm ELSE NaN
           v == IF PumpOn THEN Verdict(gpm) ELSE "NONE"
<1>1. /\ pre_pump_on_flow' = IF GivesUp(v) THEN NaN ELSE Capture
      /\ retired' = (v \in {"MEASURED_STOPPED", "EXPIRED"} \/ (retired /\ ~Start))
      /\ \E in_use \in BOOLEAN, signal \in BOOLEAN :
           \E m \in {IF PumpOn THEN PumpOnMethod(gpm, v, in_use) ELSE PumpOffMethod(signal)} :
           \E stamped \in {StampedNow(gpm, v) \cup StampedBy(PumpOn, m, in_use)} :
             /\ held' = HoldUpdate(m \in Positive)
             /\ active' = SessionUpdate(HoldUpdate(m \in Positive))
             /\ age' = [s \in Stamps |->
                          IF s \in stamped THEN Older(s, 0)
                          ELSE IF s \in Cleared(v) \/ (s = "high" /\ ~in_use) THEN Never
                          ELSE Older(s, age[s])]
      /\ UNCHANGED <<worldVars, readingVars>>
  BY DEF Tick
<1> HIDE DEF gpm, v
<1>2. PICK in_use \in BOOLEAN, signal \in BOOLEAN :
         \E m \in {IF PumpOn THEN PumpOnMethod(gpm, v, in_use) ELSE PumpOffMethod(signal)} :
         \E stamped \in {StampedNow(gpm, v) \cup StampedBy(PumpOn, m, in_use)} :
             /\ held' = HoldUpdate(m \in Positive)
             /\ active' = SessionUpdate(HoldUpdate(m \in Positive))
             /\ age' = [s \in Stamps |->
                          IF s \in stamped THEN Older(s, 0)
                          ELSE IF s \in Cleared(v) \/ (s = "high" /\ ~in_use) THEN Never
                          ELSE Older(s, age[s])]
  BY <1>1
<1>3. PICK m :
             /\ held' = HoldUpdate(m \in Positive)
             /\ active' = SessionUpdate(HoldUpdate(m \in Positive))
             /\ age' = [s \in Stamps |->
                          IF s \in StampedNow(gpm, v) \cup StampedBy(PumpOn, m, in_use)
                          THEN Older(s, 0)
                          ELSE IF s \in Cleared(v) \/ (s = "high" /\ ~in_use) THEN Never
                          ELSE Older(s, age[s])]
  BY <1>2
<1>4. /\ gpm = IF PumpOn THEN DemandGpm ELSE NaN
      /\ v = IF PumpOn THEN Verdict(gpm) ELSE "NONE"
  BY DEF gpm, v
<1>5. Ticked(gpm, v, in_use, m)
  BY <1>1, <1>3, <1>4 DEF Ticked
<1> QED BY <1>5

\* The ages keep their type.
THEOREM AgesTyped == Spec => []AgeType
<1>1. Init => AgeType
  BY DEF Init, AgeType
<1>2. AgeType /\ [Next]_vars => AgeType'
  <2> SUFFICES ASSUME AgeType, [Next]_vars PROVE AgeType'
    OBVIOUS
  <2>1. CASE Tick
    <3>1. PICK gpm, v, in_use, m : Ticked(gpm, v, in_use, m)
      BY <2>1, TickForm
    <3>2. \A s \in Stamps : Older(s, 0) \in Nat \cup {Never} /\ Older(s, age[s]) \in Nat \cup {Never}
      BY OlderType DEF AgeType
    <3> QED BY <3>1, <3>2 DEF Ticked, AgeType
  <2>2. CASE UNCHANGED age
    BY <2>2 DEF AgeType
  <2>3. CASE \E s \in Stamps : age' = [age EXCEPT ![s] = 0] \/ age' = [age EXCEPT ![s] = Never]
    BY <2>3 DEF AgeType
  <2>4. CASE \E s \in Speeds : ChangeSpeed(s)
    <3>1. PICK s \in Speeds : age' = [age EXCEPT !["ran"] =
                 IF s = "off" THEN Never ELSE IF speed = "off" THEN 0 ELSE @]
      BY <2>4 DEF ChangeSpeed
    <3> QED BY <3>1 DEF AgeType, Stamps
  <2>5. Tick \/ UNCHANGED age \/ (\E s \in Speeds : ChangeSpeed(s))
        \/ \E s \in Stamps : age' = [age EXCEPT ![s] = 0]
    BY BoundAssumption DEF Next, PollMotor, PollFlow, ReportFlow, LoseMotor, TurnTap, Rollover, vars, Stamps
  <2> QED BY <2>1, <2>2, <2>3, <2>4, <2>5
<1> QED BY <1>1, <1>2, PTL DEF Spec

-----------------------------------------------------------------------------
(* A continuation given up stays given up. *)

\* The capture of a retired run is gone, and a capture that is there is dated.
CaptureInv ==
  /\ retired => pre_pump_on_flow = NaN
  /\ pre_pump_on_flow # NaN => age["capture"] # Never

\* A pump is never on and confirmed off.
LEMMA OnIsNotOff == ~(PumpOn /\ ConfirmedOff)
  BY DEF PumpOn, ConfirmedOff

\* A measured or an expired continuation never claims demand again in its run.
THEOREM NoRevival == Spec => []NeverRevived
<1>1. Init => CaptureInv
  BY DEF Init, CaptureInv
<1>2. AgeType /\ CaptureInv /\ [Next]_vars => CaptureInv'
  <2> SUFFICES ASSUME AgeType, CaptureInv, [Next]_vars PROVE CaptureInv'
    OBVIOUS
  <2>1. CASE Tick
    <3>1. PICK gpm, v, in_use, m : Ticked(gpm, v, in_use, m)
      BY <2>1, TickForm
    <3>2. Captures => Start /\ Resets
      BY DEF Captures, Resets
    <3>3. ASSUME retired' PROVE pre_pump_on_flow' = NaN
      <4>1. CASE retired /\ ~Start
        BY <3>1, <3>2, <4>1 DEF Ticked, Capture, CaptureInv
      <4>2. CASE v = "MEASURED_STOPPED"
        BY <3>1, <4>2 DEF Ticked, GivesUp
      <4>3. CASE v = "EXPIRED" /\ CaptureAge = Never
        <5>1. PumpOn /\ Capture # NaN
          BY <3>1, <4>3 DEF Ticked, Verdict
        <5> QED BY <4>3, <5>1 DEF CaptureAge, Capture, CaptureInv, Never
      <4>4. CASE v = "EXPIRED" /\ CaptureAge # Never
        BY <3>1, <4>4 DEF Ticked, GivesUp
      <4> QED BY <3>1, <3>3, <4>1, <4>2, <4>3, <4>4 DEF Ticked
    <3>4. ASSUME pre_pump_on_flow' # NaN PROVE age'["capture"] # Never
      <4>1. ~GivesUp(v) /\ Capture # NaN
        BY <3>1, <3>4 DEF Ticked
      <4>2. "capture" \in Stamps /\ "capture" # "high" /\ "capture" \notin {"metered", "no_draw"}
        BY DEF Stamps
      <4>3. Older("capture", 0) # Never
        BY <4>2, OlderType DEF Never
      <4>4. CASE Captures
        <5>1. "capture" \in StampedNow(gpm, v)
          BY <4>1, <4>4 DEF StampedNow
        <5> QED BY <3>1, <4>2, <4>3, <5>1 DEF Ticked
      <4>5. CASE ~Captures
        <5>1. ~Resets /\ Capture = pre_pump_on_flow
          BY <4>1, <4>5 DEF Capture
        <5>2. age["capture"] # Never
          BY <4>1, <5>1 DEF CaptureInv
        <5>3. Older("capture", age["capture"]) # Never
          BY <4>2, <5>2, OlderType DEF AgeType
        <5>4. "capture" \notin Cleared(v)
          BY <4>1, <5>1 DEF Cleared
        <5>5. age'["capture"] \in {Older("capture", 0), Older("capture", age["capture"])}
          BY <3>1, <4>2, <5>4 DEF Ticked
        <5> QED BY <4>3, <5>3, <5>5
      <4> QED BY <4>4, <4>5
    <3> QED BY <3>3, <3>4 DEF CaptureInv
  <2>2. CASE ~Tick
    <3>1. retired' = retired /\ pre_pump_on_flow' = pre_pump_on_flow
      BY <2>2 DEF Next, PollMotor, PollFlow, ReportFlow, LoseMotor, ChangeSpeed, TurnTap, Rollover,
                  vars, memoryVars, outVars
    <3>2. age'["capture"] = age["capture"] \/ age'["capture"] = 0
      BY <2>2 DEF Next, PollMotor, PollFlow, ReportFlow, LoseMotor, ChangeSpeed, TurnTap, Rollover,
                  vars, AgeType, Stamps
    <3> QED BY <3>1, <3>2 DEF CaptureInv, Never
  <2> QED BY <2>1, <2>2
<1>3. CaptureInv => NeverRevived
  <2> SUFFICES ASSUME CaptureInv, PumpOn, retired, ~Start PROVE ~Continues(Verdict(DemandGpm))
    BY DEF NeverRevived
  <2>1. Capture = NaN
    BY OnIsNotOff DEF Capture, Captures, Resets, CaptureInv
  <2>2. Verdict(DemandGpm) = "NOT_ARMED"
    BY <2>1 DEF Verdict
  <2> QED BY <2>2 DEF Continues
<1> QED BY <1>1, <1>2, <1>3, AgesTyped, PTL DEF Spec
-----------------------------------------------------------------------------
(* A stale motor reading is not a stopped pump. *)

\* The pump has a start exactly while it runs, and since the last reading that
\* says off it has not run for longer than that reading is old.
LoopInv ==
  /\ speed = "off" <=> age["ran"] = Never
  /\ motor_speed = "off" /\ age["motor"] \in 0..PumpStale => age["ran"] <= age["motor"]

\* Meter flow is scored as demand only while the pump has run for no longer than
\* the staleness bound, unless the motor's stamp survives a turn of the clock.
THEOREM LoopNotScored == ASSUME "motor" \notin Rollovers PROVE Spec => []NoLoopScored
<1> USE Bounds
<1>0. "motor" \in Stamps /\ "ran" \in Stamps /\ "off" \in Speeds /\ NaN # "off"
  BY SpeedAssumption DEF Stamps
<1>1. Init => LoopInv
  BY <1>0 DEF Init, LoopInv, Never
<1>2. AgeType /\ LoopInv /\ [Next]_vars => LoopInv'
  <2> SUFFICES ASSUME AgeType, LoopInv, [Next]_vars PROVE LoopInv'
    OBVIOUS
  <2>0. /\ age["motor"] \in Nat \cup {Never} /\ age["ran"] \in Nat \cup {Never}
        /\ Never = -1 /\ Never \notin Nat
    BY <1>0 DEF AgeType, Never
  <2>1. CASE Tick
    <3>1. PICK gpm, v, in_use, m : Ticked(gpm, v, in_use, m)
      BY <2>1, TickForm
    <3>2. \A s \in {"motor", "ran"} : /\ s \notin StampedNow(gpm, v)
                                      /\ s \notin StampedBy(PumpOn, m, in_use)
                                      /\ s \notin Cleared(v) /\ s # "high"
      BY DEF StampedNow, StampedBy, Cleared
    <3>3. age'["motor"] = Older("motor", age["motor"]) /\ age'["ran"] = Older("ran", age["ran"])
      BY <1>0, <3>1, <3>2 DEF Ticked
    <3>4. speed' = speed /\ motor_speed' = motor_speed
      BY <3>1 DEF Ticked, worldVars, readingVars
    <3>5. Older("ran", age["ran"]) = Never <=> age["ran"] = Never
      BY <1>0, <2>0, OlderType
    <3>6. ASSUME age'["motor"] \in 0..PumpStale, motor_speed = "off"
          PROVE  age'["ran"] <= age'["motor"]
      <4>1. age["motor"] \in Nat
        BY <2>0, <3>3, <3>6 DEF Older
      <4>2. Oldest["motor"] = PumpStale + 1
        BY OldestValues
      <4>3. age["motor"] <= PumpStale /\ age'["motor"] = age["motor"] + 1
        BY <1>0, <3>3, <3>6, <4>1, <4>2, OlderType
      <4>4. age["ran"] <= age["motor"]
        BY <3>6, <4>1, <4>3 DEF LoopInv
      <4>5. age'["ran"] = age["ran"] \/ age'["ran"] = age["ran"] + 1
        BY <2>0, <3>3 DEF Older
      <4>6. age["ran"] \in Int /\ age["motor"] \in Int
        BY <2>0
      <4> QED BY <4>3, <4>4, <4>5, <4>6
    <3> QED BY <3>3, <3>4, <3>5, <3>6 DEF LoopInv
  <2>2. CASE PollMotor
    <3>1. motor_speed' = speed /\ age'["motor"] = 0 /\ age'["ran"] = age["ran"] /\ speed' = speed
      BY <1>0, <2>2 DEF PollMotor, AgeType, worldVars
    <3> QED BY <2>0, <3>1 DEF LoopInv
  <2>3. CASE \E s \in Speeds : ChangeSpeed(s)
    <3>1. PICK s \in Speeds : ChangeSpeed(s)
      BY <2>3
    <3>2. /\ age'["ran"] = IF s = "off" THEN Never ELSE IF speed = "off" THEN 0 ELSE age["ran"]
          /\ age'["motor"] = age["motor"] /\ speed' = s /\ motor_speed' = motor_speed
      BY <1>0, <3>1 DEF ChangeSpeed, AgeType, readingVars
    <3> QED BY <2>0, <3>2 DEF LoopInv
  <2>4. CASE \E s \in Rollovers : Rollover(s)
    <3>1. PICK s \in Rollovers : Rollover(s)
      BY <2>4
    <3>2. s # "motor" /\ s \in Stamps /\ age[s] = Oldest[s] /\ age' = [age EXCEPT ![s] = 0]
      BY <3>1, BoundAssumption DEF Rollover
    <3>3. speed' = speed /\ motor_speed' = motor_speed /\ age'["motor"] = age["motor"]
      BY <1>0, <3>1, <3>2 DEF Rollover, AgeType, readingVars
    <3>4. age'["ran"] = age["ran"] \/ (age'["ran"] = 0 /\ age["ran"] # Never)
      BY <1>0, <2>0, <3>2, OldestNat DEF AgeType
    <3> QED BY <2>0, <3>3, <3>4 DEF LoopInv
  <2>5. CASE PollFlow \/ ReportFlow
    <3>1. /\ age'["motor"] = age["motor"] /\ age'["ran"] = age["ran"]
          /\ speed' = speed /\ motor_speed' = motor_speed
      BY <1>0, <2>5 DEF PollFlow, ReportFlow, AgeType, worldVars
    <3> QED BY <3>1 DEF LoopInv
  <2>6. CASE LoseMotor \/ (\E d \in Draws : TurnTap(d)) \/ UNCHANGED vars
    <3>1. age' = age /\ speed' = speed /\ (motor_speed' = motor_speed \/ motor_speed' = NaN)
      BY <2>6 DEF LoseMotor, TurnTap, vars, worldVars, readingVars
    <3> QED BY <1>0, <3>1 DEF LoopInv
  <2> QED BY <2>1, <2>2, <2>3, <2>4, <2>5, <2>6 DEF Next
<1>3. AgeType /\ LoopInv => NoLoopScored
  <2> SUFFICES ASSUME AgeType, LoopInv, ~PumpOn, motor_speed # NaN, age["ran"] # Never
               PROVE  age["ran"] <= PumpStale
    BY DEF NoLoopScored
  <2>1. Known /\ SpeedUsed = "off"
    BY DEF PumpOn, Frozen
  <2>2. age["motor"] \in 0..PumpStale /\ motor_speed = "off"
    BY <2>1 DEF Known, SpeedUsed
  <2>3. age["ran"] \in Nat
    BY <1>0 DEF AgeType
  <2> QED BY <2>2, <2>3 DEF LoopInv
<1> QED BY <1>1, <1>2, <1>3, AgesTyped, PTL DEF Spec

-----------------------------------------------------------------------------
(* A carried draw is a recent one. *)

\* A support stamp is retired before the clock could make it look new.
CarryInv == age["metered"] # Never => age["metered"] <= Carry + 1 /\ age["drawn"] = age["metered"]

\* What carries a flag is a draw measured within the window and the flag's run;
\* the record of the draws itself is taken not to wrap.
THEOREM CarriedIsRecent == ASSUME "drawn" \notin Rollovers PROVE Spec => []CarryIsRecent
<1> USE Bounds
<1>0. "metered" \in Stamps /\ "drawn" \in Stamps
  BY DEF Stamps
<1>1. Init => CarryInv
  BY <1>0 DEF Init, CarryInv
<1>2. AgeType /\ CarryInv /\ [Next]_vars => CarryInv'
  <2> SUFFICES ASSUME AgeType, CarryInv, [Next]_vars PROVE CarryInv'
    OBVIOUS
  <2>0. /\ age["metered"] \in Nat \cup {Never} /\ age["drawn"] \in Nat \cup {Never}
        /\ Never = -1 /\ Oldest["metered"] = Carry + 2 /\ Oldest["drawn"] = Carry + 2
    BY <1>0, OldestValues DEF AgeType, Never
  <2>1. CASE Tick
    <3>1. PICK gpm, v, in_use, m : Ticked(gpm, v, in_use, m)
      BY <2>1, TickForm
    <3> DEFINE stamped == StampedNow(gpm, v) \cup StampedBy(PumpOn, m, in_use)
    <3>2. "metered" \in stamped <=> "drawn" \in stamped
      BY DEF StampedNow, StampedBy
    <3>3. /\ "metered" \in Cleared(v) <=> Retire("metered") = Never
          /\ "drawn" \notin Cleared(v)
      BY DEF Cleared
    <3>4. \A s \in {"metered", "drawn"} :
            age'[s] = IF s \in stamped THEN Older(s, 0)
                      ELSE IF s \in Cleared(v) THEN Never ELSE Older(s, age[s])
      BY <1>0, <3>1 DEF Ticked
    <3> HIDE DEF stamped
    <3>5. CASE "metered" \in stamped
      <4>1. Older("metered", 0) = 1 /\ Older("drawn", 0) = 1
        BY <1>0, <2>0 DEF Older
      <4> QED BY <3>2, <3>4, <3>5, <4>1 DEF CarryInv
    <3>6. CASE "metered" \notin stamped /\ Retire("metered") = Never
      BY <3>3, <3>4, <3>6 DEF CarryInv
    <3>7. CASE "metered" \notin stamped /\ Retire("metered") # Never
      <4>1. age["metered"] \in Nat /\ age["metered"] <= Carry /\ age["drawn"] = age["metered"]
        BY <2>0, <3>7 DEF Retire, CarryInv
      <4>2. /\ Older("metered", age["metered"]) = age["metered"] + 1
            /\ Older("drawn", age["drawn"]) = age["metered"] + 1
        BY <1>0, <2>0, <4>1 DEF Older
      <4> QED BY <3>2, <3>3, <3>4, <3>7, <4>1, <4>2 DEF CarryInv
    <3> QED BY <3>5, <3>6, <3>7
  <2>2. CASE \E s \in Rollovers : Rollover(s)
    <3>1. PICK s \in Rollovers : age[s] = Oldest[s] /\ age' = [age EXCEPT ![s] = 0]
      BY <2>2 DEF Rollover
    <3>2. s # "drawn" /\ s \in Stamps
      BY BoundAssumption
    <3>3. s # "metered"
      BY <2>0, <3>1 DEF CarryInv
    <3> QED BY <1>0, <3>1, <3>2, <3>3 DEF CarryInv, AgeType
  <2>3. CASE ~Tick /\ ~\E s \in Rollovers : Rollover(s)
    <3>1. age'["metered"] = age["metered"] /\ age'["drawn"] = age["drawn"]
      BY <1>0, <2>3 DEF Next, PollMotor, PollFlow, ReportFlow, LoseMotor, ChangeSpeed, TurnTap,
                        vars, AgeType
    <3> QED BY <3>1 DEF CarryInv
  <2> QED BY <2>1, <2>2, <2>3
<1>3. AgeType /\ CarryInv => CarryIsRecent
  <2> SUFFICES ASSUME AgeType, CarryInv, NEW in_use \in BOOLEAN, CarriedDraw(in_use)
               PROVE  age["drawn"] \in 0..Carry /\ age["drawn"] <= HighAge(in_use)
    BY DEF CarryIsRecent, FlagSupported
  <2>1. age["metered"] \in Nat \cup {Never}
    BY <1>0 DEF AgeType
  <2>2. /\ Retire("metered") = age["metered"] /\ age["metered"] # Never
        /\ age["metered"] <= Carry /\ age["metered"] <= HighAge(in_use)
    BY DEF CarriedDraw, Retire
  <2> QED BY <2>1, <2>2 DEF CarryInv
<1> QED BY <1>1, <1>2, <1>3, AgesTyped, PTL DEF Spec
-----------------------------------------------------------------------------
(* A session outlasts the draw. *)

\* The hold's stamp is the last demand's, kept up to the release; while the demand
\* is published its stamp is new; and once it is not, as many ticks lie between
\* the last demand found and now as the release and the gap so far.
SessionInv ==
  /\ age["raw"] # Never => age["true"] = IF age["raw"] <= Release THEN age["raw"] ELSE Release
  /\ age["raw"] <= Release + Gap /\ age["demand"] <= Gap + 1
  /\ held => active /\ age["raw"] # Never /\ age["demand"] = 1
  /\ active /\ ~held => age["demand"] >= 1 /\ age["raw"] + 1 >= Release + age["demand"]

\* A session closes no sooner than the hold and the gap after the last demand.
THEOREM SessionsSpan ==
  ASSUME Rollovers \cap {"true", "raw", "demand"} = {} PROVE Spec => SessionSpans
<1> USE Bounds
<1>0. "true" \in Stamps /\ "raw" \in Stamps /\ "demand" \in Stamps
  BY DEF Stamps
<1>1. Init => SessionInv
  BY <1>0 DEF Init, SessionInv, Never
\* What a tick does to the three stamps and to what is published.
<1>2. ASSUME AgeType, SessionInv, Tick
      PROVE  \E raw \in BOOLEAN :
               /\ held' = HoldUpdate(raw) /\ active' = SessionUpdate(held')
               /\ age'["true"] = Older("true", IF raw THEN 0 ELSE age["true"])
               /\ age'["raw"] = Older("raw", IF raw THEN 0 ELSE age["raw"])
               /\ age'["demand"] = Older("demand", IF held' THEN 0 ELSE age["demand"])
  <2>1. PICK gpm, v, in_use, m : Ticked(gpm, v, in_use, m)
    BY <1>2, TickForm
  <2> DEFINE raw == m \in Positive
             stamped == StampedNow(gpm, v) \cup StampedBy(PumpOn, m, in_use)
  <2>2. /\ "true" \in stamped <=> raw
        /\ "raw" \in stamped <=> raw
        /\ "demand" \in stamped <=> HoldUpdate(raw)
    BY DEF StampedNow, StampedBy
  <2>3. \A s \in {"true", "raw", "demand"} : s \notin Cleared(v) /\ s # "high"
    BY DEF Cleared
  <2>4. \A s \in {"true", "raw", "demand"} :
          age'[s] = IF s \in stamped THEN Older(s, 0) ELSE Older(s, age[s])
    BY <1>0, <2>1, <2>3 DEF Ticked
  <2>5. held' = HoldUpdate(raw) /\ active' = SessionUpdate(held')
    BY <2>1 DEF Ticked
  <2> HIDE DEF stamped, raw
  <2>6. raw \in BOOLEAN
    BY DEF raw
  <2> QED BY <2>2, <2>4, <2>5, <2>6
<1>3. ASSUME AgeType, SessionInv, Tick
      PROVE  SessionInv' /\ (active /\ ~active' => age["raw"] >= Release + Gap)
  <2>1. PICK raw \in BOOLEAN :
               /\ held' = HoldUpdate(raw) /\ active' = SessionUpdate(held')
               /\ age'["true"] = Older("true", IF raw THEN 0 ELSE age["true"])
               /\ age'["raw"] = Older("raw", IF raw THEN 0 ELSE age["raw"])
               /\ age'["demand"] = Older("demand", IF held' THEN 0 ELSE age["demand"])
    BY <1>2, <1>3
  <2>2. /\ age["true"] \in Nat \cup {-1} /\ age["raw"] \in Nat \cup {-1}
        /\ age["demand"] \in Nat \cup {-1} /\ Never = -1
    BY <1>0, <1>3 DEF AgeType, Never
  <2>3. Oldest["true"] = Release /\ Oldest["raw"] = Release + Gap /\ Oldest["demand"] = Gap + 1
    BY OldestValues
  <2>4. /\ held' <=> raw \/ (held /\ age["true"] < Release)
        /\ active' <=> held' \/ (active /\ age["demand"] <= Gap)
    BY <2>1 DEF HoldUpdate, SessionUpdate
  <2>5. CASE raw
    <3>1. /\ age'["true"] = IF 0 >= Release THEN 0 ELSE 1
          /\ age'["raw"] = IF 0 >= Release + Gap THEN 0 ELSE 1
          /\ age'["demand"] = 1
      BY <2>1, <2>2, <2>3, <2>4, <2>5 DEF Older
    <3> QED BY <2>2, <2>4, <2>5, <3>1 DEF SessionInv
  <2>6. CASE ~raw /\ held'
    <3>1. /\ age["raw"] \in Nat /\ age["raw"] < Release /\ age["true"] = age["raw"]
          /\ held /\ active'
      BY <1>3, <2>2, <2>4, <2>6 DEF SessionInv
    <3>2. age'["true"] = age["raw"] + 1 /\ age'["raw"] = age["raw"] + 1 /\ age'["demand"] = 1
      BY <2>1, <2>2, <2>3, <2>6, <3>1 DEF Older
    <3> QED BY <2>2, <2>6, <3>1, <3>2 DEF SessionInv
  <2>7. CASE ~held'
    <3>1. /\ age'["true"] = Older("true", age["true"]) /\ age'["raw"] = Older("raw", age["raw"])
          /\ age'["demand"] = Older("demand", age["demand"])
      BY <2>1, <2>4, <2>7
    <3>2. /\ age'["raw"] = IF age["raw"] = -1 \/ age["raw"] >= Release + Gap
                           THEN age["raw"] ELSE age["raw"] + 1
          /\ age'["true"] = IF age["true"] = -1 \/ age["true"] >= Release
                            THEN age["true"] ELSE age["true"] + 1
          /\ age'["demand"] = IF age["demand"] = -1 \/ age["demand"] >= Gap + 1
                              THEN age["demand"] ELSE age["demand"] + 1
      BY <2>2, <2>3, <3>1 DEF Older
    <3>3. CASE held
      <4>1. /\ age["raw"] \in Nat /\ age["raw"] >= Release /\ age["demand"] = 1 /\ active
        BY <1>3, <2>2, <2>4, <2>7, <3>3 DEF SessionInv
      <4>2. age["raw"] <= Release + Gap /\ age["true"] = Release
        BY <1>3, <2>2, <4>1 DEF SessionInv
      <4> QED BY <2>2, <2>4, <2>7, <3>2, <4>1, <4>2 DEF SessionInv
    <3>4. CASE ~held
      <4>1. /\ age["raw"] # -1 => age["true"] = IF age["raw"] <= Release THEN age["raw"] ELSE Release
            /\ age["raw"] <= Release + Gap /\ age["demand"] <= Gap + 1
            /\ active => age["demand"] >= 1 /\ age["raw"] + 1 >= Release + age["demand"]
        BY <1>3, <2>2, <3>4 DEF SessionInv
      <4>2. /\ age'["raw"] # -1 => age'["true"] = IF age'["raw"] <= Release THEN age'["raw"] ELSE Release
            /\ age'["raw"] <= Release + Gap /\ age'["demand"] <= Gap + 1
        BY <2>2, <3>2, <4>1
      <4>3. active' => active /\ age["demand"] <= Gap
        BY <2>4, <2>7
      <4>4. active' => age'["demand"] >= 1 /\ age'["raw"] + 1 >= Release + age'["demand"]
        BY <2>2, <3>2, <4>1, <4>3
      <4>5. active /\ ~active' => age["raw"] >= Release + Gap
        BY <2>2, <2>4, <4>1
      <4> QED BY <2>2, <2>7, <4>2, <4>4, <4>5 DEF SessionInv
    <3> QED BY <3>3, <3>4
  <2> QED BY <2>5, <2>6, <2>7
<1>4. ASSUME AgeType, SessionInv, [Next]_vars, ~Tick,
             Rollovers \cap {"true", "raw", "demand"} = {}
      PROVE  SessionInv' /\ active' = active
  <2>1. held' = held /\ active' = active
    BY <1>4 DEF Next, PollMotor, PollFlow, ReportFlow, LoseMotor, ChangeSpeed, TurnTap, Rollover,
                vars, outVars
  <2>2. \A s \in {"true", "raw", "demand"} : age'[s] = age[s]
    BY <1>0, <1>4 DEF Next, PollMotor, PollFlow, ReportFlow, LoseMotor, ChangeSpeed, TurnTap, Rollover,
                vars, AgeType
  <2> QED BY <1>4, <2>1, <2>2 DEF SessionInv
<1> SUFFICES ASSUME Rollovers \cap {"true", "raw", "demand"} = {} PROVE Spec => SessionSpans
  OBVIOUS
<1>5. AgeType /\ SessionInv /\ [Next]_vars => SessionInv'
  BY <1>3, <1>4
<1>6. AgeType /\ SessionInv /\ [Next]_vars => [active /\ ~active' => age["raw"] >= Release + Gap]_vars
  BY <1>3, <1>4
<1> QED BY <1>1, <1>5, <1>6, AgesTyped, PTL DEF Spec, SessionSpans
-----------------------------------------------------------------------------
(* Types.                                                                  *)

\* An age goes no further than where it is kept exact.
AgeBounded == \A s \in Stamps : age[s] <= Oldest[s]

\* Where it is kept exact is within the type.
LEMMA OldestBound ==
  \A s \in Stamps : \A a \in Nat \cup {Never} : a <= Oldest[s] => a \in Ages
<1> TAKE s \in Stamps
<1>1. Oldest[s] \in {PumpStale + 1, FlowStale + 1, FlowStale + Settle + 1, Suppression + 1,
                     ContinuationMax + 1, Carry + 2, Largest(InUseMin, Carry + 1), Release, Gap + 1,
                     Largest(PumpStale + 1, Settle), Release + Gap}
  BY DEF Oldest, Stamps
<1>2. Oldest[s] \in Nat /\ Oldest[s] <= PumpStale + FlowStale + Settle + ContinuationMax + InUseMin
                            + Carry + Suppression + Release + Gap + 2
  BY <1>1, Bounds DEF Largest
<1> QED BY <1>2, Bounds DEF Ages, Never

\* The sensors' readings and the house.
WorldType ==
  /\ speed \in Speeds /\ tap \in Draws /\ moves \in 0..MaxMoves
  /\ motor_speed \in Speeds \cup {NaN} /\ pump_flow \in Flows /\ flow \in Flows
  /\ pump_flow_speed_at_update \in Speeds \cup {NaN}
  /\ flow_speed_at_update \in Speeds \cup {NaN}

\* What update() remembers and publishes.
MemoryType ==
  /\ last_known \in {"none", "on", "off"}
  /\ prev_pump_on \in BOOLEAN /\ prev_pump_confirmed_off \in BOOLEAN
  /\ observed_pump_off \in BOOLEAN /\ prev_eligible \in BOOLEAN
  /\ flow_buf \in [1..LatchSamples - 1 -> Flows]
  /\ pre_pump_on_flow \in Flows /\ stopping_ticks \in 0..ReleaseTicks - 1
  /\ held \in BOOLEAN /\ active \in BOOLEAN /\ retired \in BOOLEAN

\* A tick leaves the readings alone and keeps what it remembers.
LEMMA TickType ==
  ASSUME WorldType, MemoryType, Tick
  PROVE  WorldType' /\ MemoryType'
<1>1. WorldType'
  BY DEF Tick, worldVars, readingVars, WorldType
<1> DEFINE gpm == IF PumpOn THEN DemandGpm ELSE NaN
           v == IF PumpOn THEN Verdict(gpm) ELSE "NONE"
<1>2. /\ last_known' = IF Known THEN (IF PumpOn THEN "on" ELSE "off") ELSE last_known
      /\ observed_pump_off' = (observed_pump_off \/ ConfirmedOff)
      /\ pre_pump_on_flow' = IF GivesUp(v) THEN NaN ELSE Capture
      /\ stopping_ticks' = IF v = "STOPPING" THEN Stopping + 1 ELSE 0
      /\ prev_pump_on' = PumpOn /\ prev_pump_confirmed_off' = ConfirmedOff
      /\ flow_buf' = [i \in 1..LatchSamples - 1 |-> FlowBuf[i]]
      /\ retired' = (v \in {"MEASURED_STOPPED", "EXPIRED"} \/ (retired /\ ~Start))
      /\ \E m : /\ prev_eligible' = (m = "deterministic_flow")
                /\ held' = HoldUpdate(m \in Positive)
                /\ active' = SessionUpdate(HoldUpdate(m \in Positive))
  BY DEF Tick
<1> HIDE DEF gpm
<1>3. v = "STOPPING" => ~Released
  BY DEF Verdict
<1> HIDE DEF v
<1>4. last_known' \in {"none", "on", "off"}
  BY <1>2 DEF MemoryType
<1>5. /\ prev_pump_on' \in BOOLEAN /\ prev_pump_confirmed_off' \in BOOLEAN
      /\ observed_pump_off' \in BOOLEAN /\ prev_eligible' \in BOOLEAN
  <2>1. PumpOn \in BOOLEAN /\ ConfirmedOff \in BOOLEAN
    BY DEF PumpOn, ConfirmedOff, Frozen
  <2>2. observed_pump_off' \in BOOLEAN /\ prev_eligible' \in BOOLEAN
    BY <1>2
  <2> QED BY <1>2, <2>1, <2>2
<1>6. held' \in BOOLEAN /\ active' \in BOOLEAN /\ retired' \in BOOLEAN
  <2>1. PICK m : held' = HoldUpdate(m \in Positive) /\ active' = SessionUpdate(HoldUpdate(m \in Positive))
    BY <1>2
  <2>2. HoldUpdate(m \in Positive) \in BOOLEAN /\ SessionUpdate(HoldUpdate(m \in Positive)) \in BOOLEAN
    BY DEF HoldUpdate, SessionUpdate
  <2>3. retired' \in BOOLEAN
    BY <1>2
  <2> QED BY <2>1, <2>2, <2>3
<1>7. flow_buf' \in [1..LatchSamples - 1 -> Flows]
  <2> SUFFICES ASSUME NEW i \in 1..LatchSamples - 1 PROVE FlowBuf[i] \in Flows
    BY <1>2
  <2>1. i \in 1..LatchSamples /\ (i = 1 \/ i - 1 \in 1..LatchSamples - 1)
    BY Bounds
  <2>2. FlowBuf[i] = IF i = 1 THEN flow ELSE flow_buf[i - 1]
    BY <2>1 DEF FlowBuf
  <2> QED BY <2>1, <2>2 DEF WorldType, MemoryType
<1>8. pre_pump_on_flow' \in Flows
  <2>1. 1 \in 1..LatchSamples - 1 /\ NaN \in Flows
    BY Bounds DEF Flows
  <2> QED BY <1>2, <2>1 DEF Capture, MemoryType
<1>9. stopping_ticks' \in 0..ReleaseTicks - 1
  <2>1. Stopping \in 0..ReleaseTicks - 1
    BY Bounds DEF Stopping, MemoryType
  <2> QED BY <1>2, <1>3, <2>1, Bounds DEF Released
<1> QED BY <1>1, <1>4, <1>5, <1>6, <1>7, <1>8, <1>9 DEF MemoryType

\* Every variable keeps its type.
THEOREM DemandTyped == Spec => []TypeOK
<1> DEFINE Inv == WorldType /\ MemoryType /\ AgeBounded
<1>1. Init => Inv
  <2> SUFFICES ASSUME Init PROVE Inv
    OBVIOUS
  <2>1. WorldType
    BY SpeedAssumption, Bounds DEF Init, WorldType, Flows
  <2>2. flow_buf \in [1..LatchSamples - 1 -> Flows] /\ pre_pump_on_flow \in Flows
    BY DEF Init, Flows
  <2>r. stopping_ticks \in 0..ReleaseTicks - 1
    BY Bounds DEF Init
  <2>3. MemoryType
    BY <2>2, <2>r DEF Init, MemoryType
  <2>4. AgeBounded
    BY OldestNat DEF Init, AgeBounded, Never
  <2> QED BY <2>1, <2>3, <2>4
<1>2. AgeType /\ Inv /\ [Next]_vars => Inv'
  <2> SUFFICES ASSUME AgeType, WorldType, MemoryType, AgeBounded, [Next]_vars PROVE Inv'
    OBVIOUS
  <2>0. "ran" \in Stamps /\ "motor" \in Stamps /\ "loop" \in Stamps /\ "flow" \in Stamps
    BY DEF Stamps
  <2>1. CASE Tick
    <3>1. PICK gpm, v, in_use, m : Ticked(gpm, v, in_use, m)
      BY <2>1, TickForm
    <3>2. ASSUME NEW s \in Stamps PROVE age'[s] <= Oldest[s]
      <4>1. age[s] \in Nat \cup {Never} /\ age[s] <= Oldest[s] /\ Oldest[s] \in Nat
        BY OldestNat DEF AgeType, AgeBounded
      <4>2. Older(s, 0) <= Oldest[s] /\ Older(s, age[s]) <= Oldest[s]
        BY <4>1 DEF Older, Never
      <4>3. age'[s] \in {Older(s, 0), Never, Older(s, age[s])}
        BY <3>1 DEF Ticked
      <4> QED BY <4>1, <4>2, <4>3 DEF Never
    <3> QED BY <2>1, <3>2, TickType DEF AgeBounded
  <2>2. CASE PollMotor \/ PollFlow \/ ReportFlow
    <3>1. SpeedUsed \in Speeds \cup {NaN}
      BY DEF SpeedUsed, WorldType
    <3>2. Estimate[speed] \in Flows /\ Estimate["off"] \in Flows /\ Loop[speed] + tap \in Flows
      BY SpeedAssumption DEF WorldType, Flows
    <3>3. WorldType'
      BY <2>2, <3>1, <3>2 DEF PollMotor, PollFlow, ReportFlow, WorldType, worldVars
    <3>4. MemoryType'
      BY <2>2 DEF PollMotor, PollFlow, ReportFlow, MemoryType, memoryVars, outVars
    <3>5. \E s \in Stamps : age' = [age EXCEPT ![s] = 0]
      BY <2>0, <2>2 DEF PollMotor, PollFlow, ReportFlow
    <3>6. AgeBounded'
      BY <3>5, OldestNat DEF AgeBounded, AgeType
    <3> QED BY <3>3, <3>4, <3>6
  <2>3. CASE LoseMotor \/ (\E d \in Draws : TurnTap(d))
    <3>1. WorldType'
      BY <2>3, Bounds DEF LoseMotor, TurnTap, WorldType, readingVars
    <3>2. MemoryType'
      BY <2>3 DEF LoseMotor, TurnTap, MemoryType, memoryVars, outVars
    <3>3. age' = age
      BY <2>3 DEF LoseMotor, TurnTap
    <3> QED BY <3>1, <3>2, <3>3 DEF AgeBounded
  <2>4. CASE \E s \in Speeds : ChangeSpeed(s)
    <3>1. PICK s \in Speeds : ChangeSpeed(s)
      BY <2>4
    <3>2. WorldType'
      BY <3>1, Bounds DEF ChangeSpeed, WorldType, readingVars
    <3>3. MemoryType'
      BY <3>1 DEF ChangeSpeed, MemoryType, memoryVars, outVars
    <3>4. age' = [age EXCEPT !["ran"] = IF s = "off" THEN Never ELSE IF speed = "off" THEN 0 ELSE @]
      BY <3>1 DEF ChangeSpeed
    <3>5. AgeBounded'
      BY <2>0, <3>4, OldestNat DEF AgeBounded, AgeType, Never
    <3> QED BY <3>2, <3>3, <3>5
  <2>5. CASE \E s \in Rollovers : Rollover(s)
    <3>1. PICK s \in Rollovers : Rollover(s)
      BY <2>5
    <3>2. WorldType' /\ MemoryType'
      BY <3>1, Bounds DEF Rollover, WorldType, readingVars, MemoryType, memoryVars, outVars
    <3>3. s \in Stamps /\ age' = [age EXCEPT ![s] = 0]
      BY <3>1, BoundAssumption DEF Rollover
    <3>4. AgeBounded'
      BY <3>3, OldestNat DEF AgeBounded, AgeType
    <3> QED BY <3>2, <3>4
  <2>6. CASE UNCHANGED vars
    BY <2>6 DEF vars, worldVars, readingVars, memoryVars, outVars, WorldType, MemoryType, AgeBounded
  <2> QED BY <2>1, <2>2, <2>3, <2>4, <2>5, <2>6 DEF Next
<1>3. AgeType /\ Inv => TypeOK
  <2> SUFFICES ASSUME AgeType, Inv PROVE TypeOK
    OBVIOUS
  <2>1. age \in [Stamps -> Ages]
    BY OldestBound DEF AgeType, AgeBounded
  <2> QED BY <2>1 DEF WorldType, MemoryType, TypeOK
<1> HIDE DEF Inv
<1> QED BY <1>1, <1>2, <1>3, AgesTyped, PTL DEF Spec

-----------------------------------------------------------------------------
(* A draw that is not there is not invented.                               *)

\* What dhw_in_use_loop_bias is set for: at no speed does the pump's own reading
\* fall further below the loop than the threshold and the bias together.
BiasAssumption ==
  \A s \in Speeds : Loop[s] <= Estimate[s] + demand_flow + dhw_in_use_loop_bias

\* A meter above the loop's reading by more than the bias saw a tap, where both
\* readings are of the speeds noted beside them, untrusted speeds included.
THEOREM NoDrawInvented == ASSUME BiasAssumption PROVE Spec => []AboveLoopIsATap
<1>1. TypeOK => AboveLoopIsATap
  <2> SUFFICES ASSUME TypeOK, MeterAboveLoop, NotedTruly
               PROVE  flow > Loop[flow_speed_at_update]
    BY DEF AboveLoopIsATap
  <2>1. /\ flow # NaN /\ flow_speed_at_update # NaN
        /\ flow_speed_at_update = pump_flow_speed_at_update
        /\ flow - pump_flow > demand_flow + dhw_in_use_loop_bias
    BY DEF MeterAboveLoop, LoopAtCurrentSpeed, MeterAtCurrentSpeed
  <2>2. flow_speed_at_update \in Speeds /\ flow \in Nat
    BY <2>1 DEF TypeOK, Flows
  <2>3. pump_flow = Estimate[flow_speed_at_update]
    BY <2>1 DEF NotedTruly
  <2>4. /\ Loop[flow_speed_at_update] \in Nat /\ Estimate[flow_speed_at_update] \in Nat
        /\ demand_flow \in Nat /\ dhw_in_use_loop_bias \in Nat
    BY <2>2, SpeedAssumption, BoundAssumption
  <2>5. Loop[flow_speed_at_update]
          <= Estimate[flow_speed_at_update] + demand_flow + dhw_in_use_loop_bias
    BY <2>2, BiasAssumption DEF BiasAssumption
  <2> QED BY <2>1, <2>2, <2>3, <2>4, <2>5
<1> QED BY <1>1, DemandTyped, PTL
=============================================================================
