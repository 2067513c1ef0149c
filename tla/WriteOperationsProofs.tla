------------------------ MODULE WriteOperationsProofs ------------------------
(***************************************************************************)
(* Theorems about WriteOperations for every set of operations, modes,       *)
(* values and faults, and for every bound on attempts and polls.            *)
(***************************************************************************)
EXTENDS WriteOperations, FiniteSetTheorems, SequenceTheorems, TLAPS

\* No operation stands twice in the queue.
Distinct == \A i, j \in 1..Len(queue) : queue[i] = queue[j] => i = j

\* What the commands at the transport may assume of their operations.
WireInv ==
  \A i \in 1..Len(wire) :
    /\ wire[i].kind = "mode" => wire[i].op \in Ops
    /\ wire[i].kind = "control" =>
         wire[i].op \in Ops /\ Cmd(wire[i].op) = "setpoint" /\ ~Invalid(wire[i].op)
    /\ wire[i].kind = "confirm" => wire[i].op \in Ops /\ Cmd(wire[i].op) # "clock"

QueueInv == Distinct /\ OneResult /\ OneInFlight

-----------------------------------------------------------------------------
(* Sequences. *)

\* What Pick takes out of a sequence along an increasing listing of K.
LEMMA PickProperties ==
  ASSUME NEW S, NEW s \in Seq(S), NEW K, NEW f \in Listings(Len(s), K)
  PROVE  /\ Pick(s, f) \in Seq(S)
         /\ Len(Pick(s, f)) = Len(f) /\ Len(f) \in Nat
         /\ \A i \in 1..Len(f) : Pick(s, f)[i] = s[f[i]] /\ f[i] \in K /\ f[i] \in 1..Len(s)
         /\ \A k \in K : \E i \in 1..Len(f) : f[i] = k
         /\ \A i, j \in 1..Len(f) : f[i] = f[j] => i = j
         /\ 1 \in K => Len(f) >= 1 /\ f[1] = 1
<1>1. PICK m \in 0..Len(s) : f \in [1..m -> 1..Len(s)]
  BY DEF Listings
<1>2. DOMAIN f = 1..m /\ m \in Nat /\ f \in Seq(Nat) /\ Len(f) = m
  BY <1>1
<1>3. Lists(f, K)
  BY DEF Listings
<1>4. \A i \in 1..m : f[i] \in K /\ f[i] \in 1..Len(s)
  BY <1>1, <1>2, <1>3 DEF Lists
<1>5. \A k \in K : \E i \in 1..m : f[i] = k
  BY <1>2, <1>3 DEF Lists
<1>6. \A i, j \in 1..m : i < j => f[i] < f[j]
  BY <1>2, <1>3 DEF Lists
<1>7. Pick(s, f) \in [1..m -> S]
  BY <1>1, <1>2 DEF Pick
<1>8. Pick(s, f) \in Seq(S) /\ Len(Pick(s, f)) = m
  BY <1>7, <1>2
<1>9. \A i \in 1..m : Pick(s, f)[i] = s[f[i]]
  BY <1>2 DEF Pick
<1>10. ASSUME NEW i \in 1..m, NEW j \in 1..m, f[i] = f[j] PROVE i = j
  BY <1>2, <1>4, <1>6, <1>10
<1>11. ASSUME 1 \in K PROVE m >= 1 /\ f[1] = 1
  <2>1. PICK i \in 1..m : f[i] = 1
    BY <1>5, <1>11
  <2>2. CASE i = 1
    BY <2>1, <2>2, <1>2
  <2>3. CASE i # 1
    <3>1. 1 \in 1..m /\ 1 < i
      BY <2>3, <1>2
    <3>2. f[1] < 1 /\ f[1] \in 1..Len(s)
      BY <3>1, <2>1, <1>4, <1>6
    <3> QED
      BY <3>2
  <2> QED
    BY <2>2, <2>3
<1> QED
  BY <1>2, <1>4, <1>5, <1>8, <1>9, <1>10, <1>11

\* A tail is the sequence without its head.
LEMMA TailProperties ==
  ASSUME NEW S, NEW s \in Seq(S), s # <<>>
  PROVE  /\ Len(s) \in Nat /\ Len(s) >= 1 /\ Head(s) = s[1] /\ Head(s) \in S
         /\ Tail(s) \in Seq(S) /\ Len(Tail(s)) = Len(s) - 1
         /\ \A i \in 1..Len(Tail(s)) : Tail(s)[i] = s[i + 1] /\ i + 1 \in 1..Len(s)
         /\ \A i \in 1..Len(s) : i # 1 => i - 1 \in 1..Len(Tail(s)) /\ Tail(s)[i - 1] = s[i]
<1>1. Len(s) \in Nat /\ Len(s) >= 1
  OBVIOUS
<1>2. Head(s) = s[1] /\ s[1] \in S
  BY <1>1
<1>3. Tail(s) \in Seq(S) /\ Len(Tail(s)) = Len(s) - 1
  OBVIOUS
<1>4. \A i \in 1..(Len(s) - 1) : Tail(s)[i] = s[i + 1]
  OBVIOUS
<1>5. ASSUME NEW i \in 1..Len(s), i # 1
      PROVE  i - 1 \in 1..Len(Tail(s)) /\ Tail(s)[i - 1] = s[i]
  <2>1. i - 1 \in 1..(Len(s) - 1) /\ (i - 1) + 1 = i
    BY <1>1, <1>5
  <2> QED
    BY <2>1, <1>3, <1>4
<1> QED
  BY <1>1, <1>2, <1>3, <1>4, <1>5

\* What Append adds.
LEMMA AppendFacts ==
  ASSUME NEW S, NEW s \in Seq(S), NEW e \in S
  PROVE  /\ Append(s, e) \in Seq(S) /\ Len(s) \in Nat
         /\ Len(Append(s, e)) = Len(s) + 1 /\ Append(s, e) # <<>>
         /\ \A i \in 1..Len(s) : Append(s, e)[i] = s[i]
         /\ Append(s, e)[Len(s) + 1] = e
         /\ Head(Append(s, e)) = Append(s, e)[1]
OBVIOUS

-----------------------------------------------------------------------------
(* Type correctness. *)

OpTypes ==
  /\ queue \in Seq(Ops) /\ phase \in [Ops -> Phases]
  /\ attempts \in Nat /\ due \in BOOLEAN /\ starting \in BOOLEAN
  /\ pre_value \in Values \cup {NotANumber}
ControlTypes ==
  /\ pump_enabled \in BOOLEAN /\ pump_enabled_valid \in BOOLEAN
  /\ current_mode \in Modes \cup {NoMode} /\ mode_valid \in BOOLEAN
  /\ commanded_mode \in Modes \cup {NoMode} /\ mode_command_pending \in BOOLEAN
  /\ mode_confirm_attempts \in 0..MaxModeConfirmAttempts
  /\ setpoints \in [ScalarModes -> Values \cup {NotANumber}]
LinkTypes ==
  /\ link \in BOOLEAN /\ chain_done \in BOOLEAN /\ config_valid \in BOOLEAN
  /\ sync \in {"none", "waiting", "reading", "config"}
  /\ sync_expected \in Modes \cup {NoMode}
PumpTypes ==
  /\ pump_run \in BOOLEAN /\ pump_mode \in Modes
  /\ pump_setpoint \in [ScalarModes -> Values] /\ panel \in Nat /\ flipped \in BOOLEAN
ResultTypes ==
  /\ status \in [Ops -> Statuses] /\ results \in [Ops -> Nat]
  /\ winners \subseteq Ops /\ turned_away \subseteq Ops /\ cut_short \subseteq Ops
WireTypes == wire \in Seq([kind : Kinds, op : Ops \cup {NoOp}, on : BOOLEAN])
Typed == OpTypes /\ ControlTypes /\ LinkTypes /\ PumpTypes /\ ResultTypes /\ WireTypes
         /\ ignored \in Nat

LEMMA TypesSplit == TypeOK <=> Typed
BY DEF TypeOK, Typed, OpTypes, ControlTypes, LinkTypes, PumpTypes, ResultTypes, WireTypes

\* A group of variables that does not change keeps its types.
LEMMA Unchanged ==
  ASSUME Typed
  PROVE  /\ UNCHANGED opVars => OpTypes'
         /\ UNCHANGED controlVars => ControlTypes'
         /\ UNCHANGED linkVars => LinkTypes'
         /\ UNCHANGED pumpVars => PumpTypes'
         /\ UNCHANGED resultVars => ResultTypes'
         /\ UNCHANGED wire => WireTypes'
<1>1. UNCHANGED opVars => OpTypes'
  BY DEF Typed, OpTypes, opVars
<1>2. UNCHANGED controlVars => ControlTypes'
  BY DEF Typed, ControlTypes, controlVars, runVars, modeVars
<1>3. UNCHANGED linkVars => LinkTypes'
  BY DEF Typed, LinkTypes, linkVars
<1>4. UNCHANGED pumpVars => PumpTypes'
  BY DEF Typed, PumpTypes, pumpVars
<1>5. UNCHANGED resultVars => ResultTypes'
  BY DEF Typed, ResultTypes, resultVars
<1>6. UNCHANGED wire => WireTypes'
  BY DEF Typed, WireTypes
<1> QED
  BY <1>1, <1>2, <1>3, <1>4, <1>5, <1>6

\* finish_() keeps the types of the operations and the results.
LEMMA FinishTyped ==
  ASSUME Typed, queue # <<>>, NEW s \in Statuses, Finish(s)
  PROVE  OpTypes' /\ (turned_away' \subseteq Ops => ResultTypes')
<1>1. Front \in Ops /\ Tail(queue) \in Seq(Ops)
  BY TailProperties DEF Typed, OpTypes, Front
<1>2. OpTypes'
  BY <1>1 DEF Typed, OpTypes, Finish, Phases
<1>3. cut_short' \subseteq Ops
  BY <1>1 DEF Typed, ResultTypes, Finish
<1>4. results' \in [Ops -> Nat] /\ status' \in [Ops -> Statuses]
  BY <1>1 DEF Typed, ResultTypes, Finish
<1> QED
  BY <1>2, <1>3, <1>4 DEF Typed, ResultTypes, Finish

LEMMA FinishUnreadTyped ==
  ASSUME Typed, queue # <<>>, NEW s \in Statuses, FinishUnread(s)
  PROVE  OpTypes' /\ ResultTypes' /\ ControlTypes'
<1>1. OpTypes' /\ ResultTypes'
  BY FinishTyped DEF FinishUnread, Typed, ResultTypes
<1>2. pump_enabled_valid' \in BOOLEAN
  BY DEF Typed, ControlTypes, FinishUnread, RollsBack
<1> QED
  BY <1>1, <1>2 DEF FinishUnread, Typed, ControlTypes, modeVars

\* The command at the head of the wire, and the wire without it.
LEMMA WireHead ==
  ASSUME Typed, WireInv, wire # <<>>
  PROVE  /\ Head(wire) \in [kind : Kinds, op : Ops \cup {NoOp}, on : BOOLEAN]
         /\ Head(wire).kind = "mode" => Head(wire).op \in Ops
         /\ Head(wire).kind = "control" =>
              /\ Head(wire).op \in Ops /\ Cmd(Head(wire).op) = "setpoint"
              /\ ~Invalid(Head(wire).op)
         /\ Head(wire).kind = "confirm" => Head(wire).op \in Ops /\ Cmd(Head(wire).op) # "clock"
         /\ Tail(wire) \in Seq([kind : Kinds, op : Ops \cup {NoOp}, on : BOOLEAN])
         /\ wire' = Tail(wire) => WireInv' /\ WireTypes'
<1> DEFINE R == [kind : Kinds, op : Ops \cup {NoOp}, on : BOOLEAN]
<1>1. wire \in Seq(R)
  BY DEF Typed, WireTypes
<1>2. /\ Len(wire) \in Nat /\ Len(wire) >= 1 /\ Head(wire) = wire[1] /\ Head(wire) \in R
      /\ Tail(wire) \in Seq(R)
      /\ \A i \in 1..Len(Tail(wire)) : Tail(wire)[i] = wire[i + 1] /\ i + 1 \in 1..Len(wire)
  BY <1>1, TailProperties
<1>3. 1 \in 1..Len(wire)
  BY <1>2
<1>4. wire' = Tail(wire) => WireInv'
  BY <1>2 DEF WireInv, Cmd, Invalid
<1> HIDE DEF R
<1>5. wire' = Tail(wire) => WireTypes'
  BY <1>2 DEF WireTypes, R
<1>6. /\ wire[1].kind = "mode" => wire[1].op \in Ops
      /\ wire[1].kind = "control" =>
           wire[1].op \in Ops /\ Cmd(wire[1].op) = "setpoint" /\ ~Invalid(wire[1].op)
      /\ wire[1].kind = "confirm" => wire[1].op \in Ops /\ Cmd(wire[1].op) # "clock"
  BY <1>3 DEF WireInv
<1> QED
  BY <1>2, <1>4, <1>5, <1>6 DEF R

\* A command joins the wire.
LEMMA WireAppend ==
  ASSUME Typed, WireInv, NEW k \in Kinds, NEW o \in Ops \cup {NoOp}, NEW on \in BOOLEAN,
         k = "mode" => o \in Ops,
         k = "control" => o \in Ops /\ Cmd(o) = "setpoint" /\ ~Invalid(o),
         k = "confirm" => o \in Ops /\ Cmd(o) # "clock",
         wire' = Append(wire, Command(k, o, on))
  PROVE  WireTypes' /\ WireInv'
<1> DEFINE R == [kind : Kinds, op : Ops \cup {NoOp}, on : BOOLEAN]
           c == Command(k, o, on)
<1>1. wire \in Seq(R) /\ c \in R /\ wire' = Append(wire, c)
  BY DEF Typed, WireTypes, Command
<1>2. c.kind = k /\ c.op = o
  BY DEF Command
<1> HIDE DEF R, c
<1>3. /\ wire' \in Seq(R) /\ Len(wire) \in Nat /\ Len(wire') = Len(wire) + 1
      /\ \A i \in 1..Len(wire) : wire'[i] = wire[i]
      /\ wire'[Len(wire) + 1] = c
  BY <1>1, AppendFacts
<1>4. \A i \in 1..Len(wire') : i \in 1..Len(wire) \/ i = Len(wire) + 1
  BY <1>3
<1>5. ASSUME NEW i \in 1..Len(wire')
      PROVE  /\ wire'[i].kind = "mode" => wire'[i].op \in Ops
             /\ wire'[i].kind = "control" =>
                  /\ wire'[i].op \in Ops /\ Cmd(wire'[i].op) = "setpoint"
                  /\ ~Invalid(wire'[i].op)
             /\ wire'[i].kind = "confirm" => wire'[i].op \in Ops /\ Cmd(wire'[i].op) # "clock"
  <2>1. CASE i \in 1..Len(wire)
    BY <2>1, <1>3 DEF WireInv
  <2>2. CASE i = Len(wire) + 1
    BY <2>2, <1>3, <1>2
  <2> QED
    BY <1>4, <2>1, <2>2
<1>6. WireInv'
  BY <1>5 DEF WireInv, Cmd, Invalid
<1> QED
  BY <1>3, <1>6 DEF WireTypes, R

LEMMA WireSame ==
  ASSUME Typed, WireInv, UNCHANGED wire
  PROVE  WireTypes' /\ WireInv'
BY Unchanged DEF WireInv, Cmd, Invalid

LEMMA WireEmpty ==
  ASSUME wire' = <<>>
  PROVE  WireTypes' /\ WireInv'
<1>1. wire' \in Seq([kind : Kinds, op : Ops \cup {NoOp}, on : BOOLEAN]) /\ Len(wire') = 0
  OBVIOUS
<1> QED
  BY <1>1 DEF WireTypes, WireInv

TypeInv == Typed /\ WireInv

\* The constants, as the services' members see them.
LEMMA Constants ==
  /\ \A o \in Ops : /\ Request[o].on \in BOOLEAN /\ Request[o].mode \in Modes
                    /\ Request[o].value \in Values \cup {NotANumber}
                    /\ Request[o].cmd \in Commands
  /\ \A o \in Ops : Cmd(o) = "setpoint" /\ ~Invalid(o) =>
       Request[o].mode \in ScalarModes /\ Request[o].value \in Values
  /\ ScalarModes \subseteq Modes
<1>1. \A o \in Ops : Request[o] \in [cmd : Commands, on : BOOLEAN, mode : Modes,
                                     value : Values \cup {NotANumber}]
  BY OpsAssumption
<1> QED
  BY <1>1, PumpAssumption DEF Cmd, Invalid

LEMMA TypeInit == Init => TypeInv
<1> SUFFICES ASSUME Init PROVE TypeInv
  OBVIOUS
<1>1. OpTypes
  <2>1. queue \in Seq(Ops)
    BY DEF Init
  <2>2. phase \in [Ops -> Phases]
    BY DEF Init, Phases
  <2> QED
    BY <2>1, <2>2 DEF Init, OpTypes
<1>2. ControlTypes
  <2>1. setpoints \in [ScalarModes -> Values \cup {NotANumber}]
    BY DEF Init
  <2>2. mode_confirm_attempts \in 0..MaxModeConfirmAttempts
    BY PumpAssumption DEF Init
  <2> QED
    BY <2>1, <2>2 DEF Init, ControlTypes
<1>3. LinkTypes
  BY DEF Init, LinkTypes
<1>4. PumpTypes
  BY PumpAssumption DEF Init, PumpTypes
<1>5. ResultTypes
  BY DEF Init, ResultTypes, Statuses
<1>6. WireTypes /\ WireInv
  <2>1. wire \in Seq([kind : Kinds, op : Ops \cup {NoOp}, on : BOOLEAN]) /\ Len(wire) = 0
    BY DEF Init
  <2> QED
    BY <2>1 DEF WireTypes, WireInv
<1>7. ignored \in Nat
  BY DEF Init
<1> QED
  BY <1>1, <1>2, <1>3, <1>4, <1>5, <1>6, <1>7 DEF TypeInv, Typed

\* Submissions and what start_front_() does with the front.
LEMMA TypeSubmit ==
  ASSUME TypeInv, NEW o \in Ops, Submit(o)
  PROVE  TypeInv'
<1> DEFINE Superseded == {q \in Queued : Supersedes(o, q)}
           Kept == {i \in 1..Len(queue) : queue[i] \notin Superseded}
<1>1. PICK f \in Listings(Len(queue), Kept) : queue' = Append(Pick(queue, f), o)
  BY DEF Submit
<1>2. queue \in Seq(Ops)
  BY DEF TypeInv, Typed, OpTypes
<1>3. Pick(queue, f) \in Seq(Ops)
  BY <1>2, PickProperties
<1>4. queue' \in Seq(Ops)
  BY <1>1, <1>3, AppendFacts
<1>5. phase' \in [Ops -> Phases] /\ starting' \in BOOLEAN
  BY DEF Submit, TypeInv, Typed, OpTypes, Phases
<1>6. OpTypes'
  BY <1>4, <1>5 DEF Submit, TypeInv, Typed, OpTypes
<1>7. pump_enabled_valid' \in BOOLEAN
  BY DEF Submit, TypeInv, Typed, ControlTypes
<1>8. ControlTypes'
  BY <1>7 DEF Submit, TypeInv, Typed, ControlTypes, modeVars
<1>9. status' \in [Ops -> Statuses] /\ results' \in [Ops -> Nat] /\ winners' \subseteq Ops
  BY DEF Submit, TypeInv, Typed, ResultTypes, Statuses
<1>10. ResultTypes'
  BY <1>9 DEF Submit, TypeInv, Typed, ResultTypes
<1> QED
  BY <1>6, <1>8, <1>10, Unchanged, WireSame DEF Submit, TypeInv, Typed

LEMMA TypeTurnAway ==
  ASSUME TypeInv, TurnAway
  PROVE  TypeInv'
<1>1. turned_away' \subseteq Ops
  BY TailProperties DEF TurnAway, TypeInv, Typed, ResultTypes, OpTypes, Front
<1>2. OpTypes' /\ ResultTypes'
  BY <1>1, FinishTyped DEF TurnAway, TypeInv, Statuses
<1> QED
  BY <1>2, Unchanged, WireSame DEF TurnAway, TypeInv, Typed

LEMMA TypeRefuseInvalid ==
  ASSUME TypeInv, RefuseInvalid
  PROVE  TypeInv'
<1>1. OpTypes' /\ ResultTypes' /\ ControlTypes'
  BY FinishUnreadTyped DEF RefuseInvalid, TypeInv, Statuses
<1> QED
  BY <1>1, Unchanged, WireSame DEF RefuseInvalid, TypeInv, Typed

LEMMA TypeStartFront ==
  ASSUME TypeInv, StartFront
  PROVE  TypeInv'
<1>1. Front \in Ops
  BY TailProperties DEF StartFront, TypeInv, Typed, OpTypes, Front
<1>2. UNCHANGED <<queue, attempts>> /\ starting' = FALSE /\ ignored' = 0
  BY DEF StartFront
<1>3. LinkTypes' /\ PumpTypes' /\ ResultTypes'
  BY Unchanged DEF StartFront, TypeInv
<1>4. CASE RunSetEnabled
  <2>1. OpTypes'
    BY <1>2, <1>4 DEF RunSetEnabled, TypeInv, Typed, OpTypes, Phases
  <2>2. WireTypes' /\ WireInv'
    BY <1>1, <1>4, WireAppend, Constants DEF RunSetEnabled, TypeInv, Kinds
  <2> QED
    BY <1>2, <1>3, <1>4, <2>1, <2>2, Unchanged DEF RunSetEnabled, TypeInv, Typed
<1>5. CASE RunSetMode
  <2>1. OpTypes'
    BY <1>2, <1>5 DEF RunSetMode, TypeInv, Typed, OpTypes, Phases
  <2>2. WireTypes' /\ WireInv'
    BY <1>1, <1>5, WireAppend DEF RunSetMode, TypeInv, Kinds
  <2>3. ControlTypes'
    BY <1>1, <1>5, Constants, PumpAssumption
    DEF RunSetMode, NoteModeCommanded, TypeInv, Typed, ControlTypes, runVars
  <2> QED
    BY <1>2, <1>3, <2>1, <2>2, <2>3 DEF TypeInv, Typed
<1>6. CASE RunSetClock
  <2>1. OpTypes'
    BY <1>2, <1>6 DEF RunSetClock, TypeInv, Typed, OpTypes, Phases
  <2>2. WireTypes' /\ WireInv'
    BY <1>1, <1>6, WireAppend DEF RunSetClock, TypeInv, Kinds
  <2> QED
    BY <1>2, <1>3, <1>6, <2>1, <2>2, Unchanged DEF RunSetClock, TypeInv, Typed
<1>7. CASE RunSetSetpoint
  <2>1. ~Invalid(Front) /\ Cmd(Front) = "setpoint"
    BY <1>7 DEF StartFront, RunSetSetpoint
  <2>2. Request[Front].mode \in ScalarModes /\ Request[Front].value \in Values
    BY <1>1, <2>1, Constants
  <2>3. pre_value' \in Values \cup {NotANumber}
    BY <1>7, <2>2 DEF RunSetSetpoint, TypeInv, Typed, ControlTypes
  <2>4. OpTypes'
    BY <1>2, <1>7, <2>3 DEF RunSetSetpoint, TypeInv, Typed, OpTypes, Phases
  <2>5. pump_enabled \in BOOLEAN
    BY DEF TypeInv, Typed, ControlTypes
  <2>6. WireTypes' /\ WireInv'
    BY <1>1, <1>7, <2>1, <2>5, WireAppend DEF RunSetSetpoint, TypeInv, Kinds
  <2>7. ControlTypes'
    BY <1>1, <1>7, <2>2, Constants, PumpAssumption
    DEF RunSetSetpoint, NoteModeCommanded, TypeInv, Typed, ControlTypes, runVars
  <2> QED
    BY <1>2, <1>3, <2>4, <2>6, <2>7 DEF TypeInv, Typed
<1> QED
  BY <1>4, <1>5, <1>6, <1>7 DEF StartFront

LEMMA TypeTimers ==
  ASSUME TypeInv, NothingToStart \/ Watchdog \/ ConfirmDue
  PROVE  TypeInv'
<1>1. CASE NothingToStart
  <2>1. OpTypes'
    BY <1>1 DEF NothingToStart, TypeInv, Typed, OpTypes
  <2> QED
    BY <1>1, <2>1, Unchanged, WireSame DEF NothingToStart, TypeInv, Typed
<1>2. CASE Watchdog
  <2>1. OpTypes' /\ ResultTypes' /\ ControlTypes'
    BY <1>2, FinishUnreadTyped DEF Watchdog, Running, TypeInv, Statuses
  <2> QED
    BY <1>2, <2>1, Unchanged, WireSame DEF Watchdog, TypeInv, Typed
<1>3. CASE ConfirmDue
  <2>1. Front \in Ops
    BY <1>3, TailProperties DEF ConfirmDue, Running, TypeInv, Typed, OpTypes, Front
  <2>2. OpTypes'
    BY <1>3 DEF ConfirmDue, TypeInv, Typed, OpTypes
  <2>3. WireTypes' /\ WireInv'
    <3>1. CASE Cmd(Front) = "clock"
      BY <1>3, <2>1, <3>1, WireAppend DEF ConfirmDue, TypeInv, Kinds
    <3>2. CASE Cmd(Front) # "clock"
      BY <1>3, <2>1, <3>2, WireAppend DEF ConfirmDue, TypeInv, Kinds
    <3> QED
      BY <3>1, <3>2
  <2> QED
    BY <1>3, <2>2, <2>3, Unchanged DEF ConfirmDue, TypeInv, Typed
<1> QED
  BY <1>1, <1>2, <1>3

\* What a readback leaves in the cache.
LEMMA ReadbackTyped ==
  ASSUME Typed
  PROVE  /\ CacheReadback => /\ pump_enabled' \in BOOLEAN /\ pump_enabled_valid' \in BOOLEAN
                             /\ setpoints' \in [ScalarModes -> Values \cup {NotANumber}]
         /\ AdoptMode => /\ current_mode' \in Modes \cup {NoMode} /\ mode_valid' \in BOOLEAN
                         /\ mode_command_pending' \in BOOLEAN
                         /\ mode_confirm_attempts' \in 0..MaxModeConfirmAttempts
<1>1. ASSUME CacheReadback
      PROVE  setpoints' \in [ScalarModes -> Values \cup {NotANumber}]
  <2>1. CASE pump_mode \in ScalarModes
    <3>1. pump_setpoint[pump_mode] \in Values
      BY <2>1 DEF Typed, PumpTypes
    <3> QED
      BY <1>1, <2>1, <3>1 DEF CacheReadback, Typed, ControlTypes
  <2>2. CASE pump_mode \notin ScalarModes
    BY <1>1, <2>2 DEF CacheReadback, Typed, ControlTypes
  <2> QED
    BY <2>1, <2>2
<1>2. CacheReadback => pump_enabled' \in BOOLEAN /\ pump_enabled_valid' \in BOOLEAN
  BY DEF CacheReadback, Typed, PumpTypes
<1>3. ASSUME AdoptMode PROVE mode_confirm_attempts' \in 0..MaxModeConfirmAttempts
  BY <1>3, PumpAssumption DEF AdoptMode
<1>4. AdoptMode => /\ current_mode' \in Modes \cup {NoMode} /\ mode_valid' \in BOOLEAN
                   /\ mode_command_pending' \in BOOLEAN
  BY DEF AdoptMode, Typed, PumpTypes
<1> QED
  BY <1>1, <1>2, <1>3, <1>4

LEMMA ModesSame ==
  ASSUME Typed, UNCHANGED modeVars
  PROVE  /\ current_mode' \in Modes \cup {NoMode} /\ mode_valid' \in BOOLEAN
         /\ mode_command_pending' \in BOOLEAN
         /\ mode_confirm_attempts' \in 0..MaxModeConfirmAttempts
BY DEF Typed, ControlTypes, modeVars

\* Writes end.
LEMMA TypeEndWrites ==
  ASSUME TypeInv, EndRun \/ EndMode \/ EndControl \/ EndClock
  PROVE  TypeInv'
<1>1. wire # <<>> /\ wire' = Tail(wire)
  BY DEF EndRun, EndMode, EndControl, EndClock, Ends
<1>2. WireTypes' /\ WireInv'
  BY <1>1, WireHead DEF TypeInv
<1>3. CASE EndRun
  <2>1. PICK out \in Outcomes :
          /\ pump_run' = IF out.applied THEN Head(wire).on ELSE pump_run
          /\ IF ~InFlight(Head(wire).op) THEN UNCHANGED <<opVars, controlVars, resultVars>>
             ELSE IF out.answer = "refused" THEN FinishUnread("rejected")
             ELSE /\ pump_enabled' = Request[Head(wire).op].on /\ pump_enabled_valid' = TRUE
                  /\ phase' = [phase EXCEPT ![Head(wire).op] = "CONFIRMING"]
                  /\ due' = TRUE
                  /\ UNCHANGED <<queue, attempts, pre_value, starting, modeVars,
                                 commanded_mode, setpoints, resultVars>>
    BY <1>3 DEF EndRun
  <2>2. pump_run' \in BOOLEAN
    BY <1>1, <2>1, WireHead DEF TypeInv, Typed, PumpTypes
  <2>3. PumpTypes' /\ LinkTypes' /\ ignored' \in Nat
    BY <1>3, <2>2, Unchanged DEF EndRun, TypeInv, Typed, PumpTypes
  <2>4. OpTypes' /\ ControlTypes' /\ ResultTypes'
    <3>1. CASE ~InFlight(Head(wire).op)
      BY <2>1, <3>1, Unchanged DEF TypeInv
    <3>2. CASE InFlight(Head(wire).op) /\ out.answer = "refused"
      BY <2>1, <3>2, FinishUnreadTyped DEF TypeInv, InFlight, Running, Statuses
    <3>3. CASE InFlight(Head(wire).op) /\ out.answer # "refused"
      <4>1. Head(wire).op \in Ops
        BY <3>3, TailProperties DEF InFlight, Running, Front, TypeInv, Typed, OpTypes
      <4>2. Request[Head(wire).op].on \in BOOLEAN
        BY <4>1, Constants
      <4>3. OpTypes'
        BY <2>1, <3>3 DEF TypeInv, Typed, OpTypes, Phases
      <4>4. ControlTypes'
        BY <2>1, <3>3, <4>2 DEF TypeInv, Typed, ControlTypes, modeVars
      <4> QED
        BY <2>1, <3>3, <4>3, <4>4, Unchanged DEF TypeInv
    <3> QED
      BY <3>1, <3>2, <3>3
  <2> QED
    BY <1>2, <2>3, <2>4 DEF TypeInv, Typed
<1>4. CASE EndMode
  <2>1. Request[Head(wire).op].mode \in Modes
    BY <1>1, <1>4, WireHead, Constants DEF EndMode, Ends, TypeInv
  <2>2. PumpTypes'
    BY <1>4, <2>1 DEF EndMode, TypeInv, Typed, PumpTypes
  <2> QED
    BY <1>2, <1>4, <2>2, Unchanged DEF EndMode, TypeInv, Typed
<1>5. CASE EndControl
  <2> DEFINE r == Request[Head(wire).op]
  <2>1. r.mode \in ScalarModes /\ r.value \in Values /\ Head(wire).on \in BOOLEAN
    BY <1>1, <1>5, WireHead, Constants DEF EndControl, Ends, TypeInv
  <2>2. r.mode \in Modes /\ Clamp[r.value] \in Values
    BY <2>1, Constants, PumpAssumption
  <2> HIDE DEF r
  <2>3. PICK out \in Outcomes :
          IF out.applied
          THEN /\ pump_run' = Head(wire).on
               /\ pump_mode' = r.mode
               /\ pump_setpoint' = [pump_setpoint EXCEPT ![r.mode] = Clamp[r.value]]
               /\ flipped' = (flipped \/ Head(wire).on # pump_run)
          ELSE UNCHANGED <<pump_run, pump_mode, pump_setpoint, flipped>>
    BY <1>5 DEF EndControl, r
  <2>4. flipped' \in BOOLEAN
    BY <2>3 DEF TypeInv, Typed, PumpTypes
  <2>5. PumpTypes'
    BY <1>5, <2>1, <2>2, <2>3, <2>4 DEF EndControl, TypeInv, Typed, PumpTypes
  <2> QED
    BY <1>2, <1>5, <2>5, Unchanged DEF EndControl, TypeInv, Typed
<1>6. CASE EndClock
  BY <1>2, <1>6, Unchanged DEF EndClock, TypeInv, Typed
<1> QED
  BY <1>3, <1>4, <1>5, <1>6

\* What a confirm may make of its readback.
LEMMA VerdictTyped ==
  ASSUME NEW o \in Ops, Cmd(o) # "clock", NEW answered \in BOOLEAN
  PROVE  Verdict(o, answered) = "retry" \/ Verdict(o, answered) \in Statuses
<1>1. Cmd(o) = "enabled" \/ Cmd(o) = "mode" \/ Cmd(o) = "setpoint"
  BY Constants DEF Cmd, Commands
<1>2. CASE Cmd(o) = "enabled"
  BY <1>2 DEF Verdict, EnabledVerdict, Statuses
<1>3. CASE Cmd(o) = "mode"
  BY <1>3 DEF Verdict, ModeVerdict, Statuses
<1>4. CASE Cmd(o) = "setpoint"
  BY <1>4 DEF Verdict, SetpointVerdict, Statuses
<1> QED
  BY <1>1, <1>2, <1>3, <1>4

\* Reads end.
LEMMA TypeEndReads ==
  ASSUME TypeInv, EndPoll \/ EndConfirm \/ EndClockRead
  PROVE  TypeInv'
<1>1. wire # <<>> /\ wire' = Tail(wire)
  BY DEF EndPoll, EndConfirm, EndClockRead, Ends
<1>2. WireTypes' /\ WireInv'
  BY <1>1, WireHead DEF TypeInv
<1>3. LinkTypes' /\ PumpTypes'
  BY Unchanged DEF EndPoll, EndConfirm, EndClockRead, TypeInv
<1>4. Answers \subseteq BOOLEAN
  BY DEF Answers
<1>5. CASE EndPoll
  <2>1. OpTypes' /\ ResultTypes'
    BY <1>5, Unchanged DEF EndPoll, TypeInv
  <2>2. PICK answered \in Answers :
          IF ~answered THEN UNCHANGED <<controlVars, ignored>>
          ELSE /\ CacheReadback
               /\ IF Ignores
                  THEN /\ UNCHANGED modeVars
                       /\ ignored' = IF queue = <<>> /\ ignored <= MaxModeConfirmAttempts
                                     THEN ignored + 1 ELSE ignored
                  ELSE AdoptMode /\ ignored' = 0
               /\ UNCHANGED commanded_mode
    BY <1>5 DEF EndPoll
  <2>3. CASE ~answered
    BY <1>2, <1>3, <2>1, <2>2, <2>3, Unchanged DEF TypeInv, Typed
  <2>4. CASE answered
    <3>1. ignored' \in Nat
      BY <2>2, <2>4 DEF TypeInv, Typed
    <3>2. CacheReadback /\ UNCHANGED commanded_mode /\ (UNCHANGED modeVars \/ AdoptMode)
      BY <2>2, <2>4
    <3>3. ControlTypes'
      BY <3>2, ReadbackTyped, ModesSame DEF TypeInv, Typed, ControlTypes
    <3> QED
      BY <1>2, <1>3, <2>1, <3>1, <3>3 DEF TypeInv, Typed
  <2> QED
    BY <2>3, <2>4
<1>6. CASE EndConfirm
  <2> DEFINE o == Head(wire).op
  <2>1. o \in Ops /\ Cmd(o) # "clock"
    BY <1>1, <1>6, WireHead DEF EndConfirm, Ends, TypeInv
  <2> HIDE DEF o
  <2>2. PICK answered \in Answers :
          IF InFlight(o) THEN ConfirmWith(o, answered) ELSE RefreshWith(answered)
    BY <1>6 DEF EndConfirm, o
  <2>3. UNCHANGED <<commanded_mode, turned_away, ignored>>
    BY <1>6 DEF EndConfirm
  <2>4. OpTypes' /\ ControlTypes' /\ ResultTypes'
    <3>1. CASE InFlight(o)
      <4>1. ConfirmWith(o, answered) /\ queue # <<>>
        BY <2>2, <3>1 DEF InFlight, Running
      <4>2. OpTypes' /\ ResultTypes'
        <5>1. CASE Verdict(o, answered) = "retry"
          BY <2>3, <4>1, <5>1
          DEF ConfirmWith, Retry, TypeInv, Typed, OpTypes, ResultTypes
        <5>2. CASE Verdict(o, answered) # "retry"
          <6>1. Verdict(o, answered) \in Statuses
            BY <1>4, <2>1, <5>2, VerdictTyped
          <6>2. Finish(Verdict(o, answered))
            BY <4>1, <5>2 DEF ConfirmWith
          <6> QED
            BY <2>3, <4>1, <6>1, <6>2, FinishTyped DEF TypeInv, Typed, ResultTypes
        <5> QED
          BY <5>1, <5>2
      <4>3. UNCHANGED modeVars \/ AdoptMode
        BY <4>1 DEF ConfirmWith
      <4>4. CASE answered
        <5>1. CacheReadback
          BY <4>1, <4>4 DEF ConfirmWith
        <5> QED
          BY <2>3, <4>2, <4>3, <5>1, ReadbackTyped, ModesSame DEF TypeInv, Typed, ControlTypes
      <4>5. CASE ~answered
        <5>1. UNCHANGED <<pump_enabled, setpoints>> /\ pump_enabled_valid' \in BOOLEAN
          BY <4>1, <4>5 DEF ConfirmWith, TypeInv, Typed, ControlTypes
        <5> QED
          BY <2>3, <4>2, <4>3, <5>1, ReadbackTyped, ModesSame DEF TypeInv, Typed, ControlTypes
      <4> QED
        BY <4>4, <4>5
    <3>2. CASE ~InFlight(o)
      <4>1. RefreshWith(answered)
        BY <2>2, <3>2
      <4>2. OpTypes' /\ ResultTypes'
        BY <2>3, <4>1, Unchanged DEF RefreshWith, TypeInv, resultVars
      <4>3. UNCHANGED modeVars \/ AdoptMode
        BY <4>1 DEF RefreshWith
      <4>4. CacheReadback \/ UNCHANGED <<runVars, setpoints>>
        BY <4>1 DEF RefreshWith
      <4>5. pump_enabled' \in BOOLEAN /\ pump_enabled_valid' \in BOOLEAN
            /\ setpoints' \in [ScalarModes -> Values \cup {NotANumber}]
        BY <4>4, ReadbackTyped DEF TypeInv, Typed, ControlTypes, runVars
      <4> QED
        BY <2>3, <4>2, <4>3, <4>5, ReadbackTyped, ModesSame DEF TypeInv, Typed, ControlTypes
    <3> QED
      BY <3>1, <3>2
  <2> QED
    BY <1>2, <1>3, <2>3, <2>4 DEF TypeInv, Typed
<1>7. CASE EndClockRead
  <2>1. OpTypes' /\ ControlTypes' /\ ResultTypes'
    <3>1. CASE ~InFlight(Head(wire).op)
      BY <1>7, <3>1, Unchanged DEF EndClockRead, TypeInv
    <3>2. CASE InFlight(Head(wire).op)
      <4>1. queue # <<>>
        BY <3>2 DEF InFlight, Running
      <4>2. \/ \E s \in Statuses : FinishUnread(s)
            \/ Retry /\ UNCHANGED <<controlVars, turned_away>>
        BY <1>7, <3>2 DEF EndClockRead, Statuses
      <4>3. CASE \E s \in Statuses : FinishUnread(s)
        BY <4>1, <4>3, FinishUnreadTyped DEF TypeInv
      <4>4. CASE Retry /\ UNCHANGED <<controlVars, turned_away>>
        <5>1. OpTypes' /\ ResultTypes'
          BY <4>4 DEF Retry, TypeInv, Typed, OpTypes, ResultTypes
        <5> QED
          BY <4>4, <5>1, Unchanged DEF TypeInv
      <4> QED
        BY <4>2, <4>3, <4>4
    <3> QED
      BY <3>1, <3>2
  <2> QED
    BY <1>2, <1>3, <1>7, <2>1 DEF EndClockRead, TypeInv, Typed
<1> QED
  BY <1>5, <1>6, <1>7

\* The component around the services.
LEMMA TypeSync ==
  ASSUME TypeInv, PollDue \/ StartChain \/ Rearm \/ SyncDue \/ EndSync \/ EndConfig
  PROVE  TypeInv'
<1>1. OpTypes' /\ PumpTypes' /\ ResultTypes' /\ ignored' \in Nat
  BY Unchanged DEF PollDue, StartChain, Rearm, SyncDue, EndSync, EndConfig, TypeInv, Typed
<1>2. CASE PollDue
  BY <1>1, <1>2, WireAppend, Unchanged DEF PollDue, Poll, TypeInv, Typed, Kinds
<1>3. CASE StartChain \/ Rearm
  <2>1. LinkTypes'
    BY <1>3 DEF StartChain, Rearm, TypeInv, Typed, LinkTypes
  <2> QED
    BY <1>1, <1>3, <2>1, Unchanged, WireSame DEF StartChain, Rearm, TypeInv, Typed
<1>4. CASE SyncDue
  <2>1. LinkTypes'
    BY <1>4 DEF SyncDue, TypeInv, Typed, LinkTypes, ControlTypes
  <2>2. WireTypes' /\ WireInv'
    BY <1>4, WireAppend DEF SyncDue, Sync, TypeInv, Kinds
  <2> QED
    BY <1>1, <1>4, <2>1, <2>2, Unchanged DEF SyncDue, TypeInv, Typed
<1>5. CASE EndSync
  <2>1. wire # <<>>
    BY <1>5 DEF EndSync, Ends
  <2>2. CASE SyncRead
    <3>1. CacheReadback /\ UNCHANGED commanded_mode
      BY <2>2 DEF SyncRead
    <3>2. /\ current_mode' \in Modes \cup {NoMode} /\ mode_valid' \in BOOLEAN
          /\ mode_command_pending' \in BOOLEAN
          /\ mode_confirm_attempts' \in 0..MaxModeConfirmAttempts
      <4>1. CASE Ignores /\ sync_expected \notin {NoMode, pump_mode} /\ RetriesLeft
        <5>1. mode_confirm_attempts \in 0..MaxModeConfirmAttempts
              /\ mode_confirm_attempts < MaxModeConfirmAttempts
              /\ MaxModeConfirmAttempts \in Nat
          BY <4>1, PumpAssumption DEF RetriesLeft, TypeInv, Typed, ControlTypes
        <5>2. mode_confirm_attempts' = mode_confirm_attempts + 1
              /\ UNCHANGED <<current_mode, mode_valid, mode_command_pending>>
          BY <2>2, <4>1 DEF SyncRead
        <5>3. mode_confirm_attempts' \in 0..MaxModeConfirmAttempts
          BY <5>1, <5>2
        <5> QED
          BY <5>2, <5>3 DEF TypeInv, Typed, ControlTypes
      <4>2. CASE ~(Ignores /\ sync_expected \notin {NoMode, pump_mode} /\ RetriesLeft)
        <5>1. AdoptMode \/ UNCHANGED modeVars
          BY <2>2, <4>2 DEF SyncRead
        <5> QED
          BY <5>1, ReadbackTyped, ModesSame DEF TypeInv
      <4> QED
        BY <4>1, <4>2
    <3>3. ControlTypes'
      BY <3>1, <3>2, ReadbackTyped DEF TypeInv, Typed, ControlTypes
    <3>4. LinkTypes'
      BY <1>5, <2>2 DEF EndSync, SyncRead, TypeInv, Typed, LinkTypes
    <3>5. WireTypes' /\ WireInv'
      <4>1. CASE wire' = Tail(wire)
        BY <2>1, <4>1, WireHead DEF TypeInv
      <4>2. CASE wire' = Append(Tail(wire), Config)
        <5> DEFINE R == [kind : Kinds, op : Ops \cup {NoOp}, on : BOOLEAN]
        <5>1. wire \in Seq(R)
          BY DEF TypeInv, Typed, WireTypes
        <5>2. Config \in R /\ Config.kind = "config"
          BY DEF Config, Command, Kinds
        <5> HIDE DEF R
        <5>3. /\ Tail(wire) \in Seq(R)
              /\ \A i \in 1..Len(Tail(wire)) :
                   Tail(wire)[i] = wire[i + 1] /\ i + 1 \in 1..Len(wire)
          BY <2>1, <5>1, TailProperties
        <5>4. /\ wire' \in Seq(R) /\ Len(Tail(wire)) \in Nat
              /\ Len(wire') = Len(Tail(wire)) + 1
              /\ \A i \in 1..Len(Tail(wire)) : wire'[i] = Tail(wire)[i]
              /\ wire'[Len(Tail(wire)) + 1] = Config
          BY <4>2, <5>2, <5>3, AppendFacts
        <5>5. \A i \in 1..Len(wire') :
                i \in 1..Len(Tail(wire)) \/ i = Len(Tail(wire)) + 1
          BY <5>4
        <5>6. \A i \in 1..Len(wire') :
                wire'[i].kind = "config" \/ \E j \in 1..Len(wire) : wire'[i] = wire[j]
          BY <5>2, <5>3, <5>4, <5>5
        <5>7. WireInv'
          BY <5>6 DEF TypeInv, WireInv, Cmd, Invalid
        <5> QED
          BY <5>4, <5>7 DEF WireTypes, R
      <4> QED
        BY <2>2, <4>1, <4>2 DEF SyncRead
    <3> QED
      BY <1>1, <3>3, <3>4, <3>5 DEF TypeInv, Typed
  <2>3. CASE sync' = "waiting" /\ wire' = Tail(wire) /\ UNCHANGED controlVars
    <3>1. LinkTypes'
      BY <1>5, <2>3 DEF EndSync, TypeInv, Typed, LinkTypes
    <3> QED
      BY <1>1, <2>1, <2>3, <3>1, WireHead, Unchanged DEF TypeInv, Typed
  <2> QED
    BY <1>5, <2>2, <2>3 DEF EndSync
<1>6. CASE EndConfig
  <2>1. Answers \subseteq BOOLEAN
    BY DEF Answers
  <2>2. config_valid' \in BOOLEAN
    BY <1>6, <2>1 DEF EndConfig, TypeInv, Typed, LinkTypes
  <2>3. LinkTypes'
    BY <1>6, <2>2 DEF EndConfig, TypeInv, Typed, LinkTypes
  <2>4. wire # <<>> /\ wire' = Tail(wire)
    BY <1>6 DEF EndConfig, Ends
  <2> QED
    BY <1>1, <1>6, <2>3, <2>4, WireHead, Unchanged DEF EndConfig, TypeInv, Typed
<1> QED
  BY <1>2, <1>3, <1>4, <1>5, <1>6

LEMMA TypeLink ==
  ASSUME TypeInv, Connect \/ Disconnect \/ Panel
  PROVE  TypeInv'
<1>1. CASE Connect
  <2>1. LinkTypes'
    BY <1>1 DEF Connect, TypeInv, Typed, LinkTypes
  <2> QED
    BY <1>1, <2>1, Unchanged, WireSame DEF Connect, TypeInv, Typed
<1>2. CASE Disconnect
  <2>1. queue' \in Seq(Ops)
    BY <1>2 DEF Disconnect, OnDisconnect
  <2>2. phase' \in [Ops -> Phases]
    BY <1>2 DEF Disconnect, OnDisconnect, TypeInv, Typed, OpTypes, Phases
  <2>3. OpTypes'
    BY <1>2, <2>1, <2>2 DEF Disconnect, OnDisconnect, TypeInv, Typed, OpTypes
  <2>4. status' \in [Ops -> Statuses] /\ results' \in [Ops -> Nat]
    BY <1>2 DEF Disconnect, OnDisconnect, TypeInv, Typed, ResultTypes, Statuses
  <2>5. ResultTypes'
    BY <1>2, <2>4 DEF Disconnect, TypeInv, Typed, ResultTypes
  <2>6. mode_confirm_attempts' \in 0..MaxModeConfirmAttempts
    BY <1>2, PumpAssumption DEF Disconnect
  <2>7. ControlTypes' /\ LinkTypes'
    BY <1>2, <2>6 DEF Disconnect, TypeInv, Typed, ControlTypes, LinkTypes
  <2> QED
    BY <1>2, <2>3, <2>5, <2>7, Unchanged, WireEmpty DEF Disconnect, TypeInv, Typed
<1>3. CASE Panel
  <2>1. PumpTypes'
    BY <1>3 DEF Panel, TypeInv, Typed, PumpTypes
  <2> QED
    BY <1>3, <2>1, Unchanged, WireSame DEF Panel, TypeInv, Typed
<1> QED
  BY <1>1, <1>2, <1>3

LEMMA TypeStutter ==
  ASSUME TypeInv, UNCHANGED vars
  PROVE  TypeInv'
BY Unchanged, WireSame DEF vars, TypeInv, Typed

LEMMA TypeStep == TypeInv /\ [Next]_vars => TypeInv'
BY TypeSubmit, TypeTurnAway, TypeRefuseInvalid, TypeStartFront, TypeTimers,
   TypeEndWrites, TypeEndReads, TypeSync, TypeLink, TypeStutter
DEF Next

LEMMA TypeAlways == Spec => []TypeInv
BY TypeInit, TypeStep, PTL DEF Spec

\* Type correctness: every operation, cache entry and command at the transport
\* keeps the type the services declare, the retry counter of the initial sync
\* within MAX_MODE_CONFIRM_ATTEMPTS.
THEOREM TypeCorrect == Spec => []TypeOK
<1>1. TypeInv => TypeOK
  BY TypesSplit DEF TypeInv
<1> QED
  BY <1>1, TypeAlways, PTL

-----------------------------------------------------------------------------
(* The queue: one result each, one in flight.                               *)

LEMMA QueueInit == Init => QueueInv
<1> SUFFICES ASSUME Init PROVE QueueInv
  OBVIOUS
<1>1. Len(queue) = 0
  BY DEF Init
<1> QED
  BY <1>1 DEF Init, QueueInv, Distinct, OneResult, OneInFlight, Queued

LEMMA QueueSame ==
  ASSUME QueueInv, UNCHANGED <<queue, phase, starting, results>>
  PROVE  QueueInv'
BY DEF QueueInv, Distinct, OneResult, OneInFlight, Queued

\* Whoever settles the front leaves the others waiting, once each.
LEMMA QueueFinish ==
  ASSUME TypeInv, QueueInv, queue # <<>>, NEW s \in Statuses, Finish(s)
  PROVE  QueueInv'
<1> DEFINE n == Len(queue)
<1>1. /\ n \in Nat /\ n >= 1 /\ Front = queue[1] /\ Front \in Ops
      /\ queue' = Tail(queue) /\ Len(queue') = n - 1
      /\ \A i \in 1..Len(queue') : queue'[i] = queue[i + 1] /\ i + 1 \in 1..n
      /\ \A i \in 1..n : i # 1 => i - 1 \in 1..Len(queue') /\ queue'[i - 1] = queue[i]
  BY TailProperties DEF Finish, TypeInv, Typed, OpTypes, Front
<1>2. phase \in [Ops -> Phases] /\ results \in [Ops -> Nat]
  BY DEF TypeInv, Typed, OpTypes, ResultTypes
<1>3. /\ \A o \in Ops : phase'[o] = IF o = Front THEN "DONE" ELSE phase[o]
      /\ \A o \in Ops : results'[o] = IF o = Front THEN results[o] + 1 ELSE results[o]
      /\ starting' = TRUE
  BY <1>2 DEF Finish
<1>4. \A i \in 1..Len(queue') : queue'[i] # Front
  <2> SUFFICES ASSUME NEW i \in 1..Len(queue'), queue'[i] = Front PROVE FALSE
    OBVIOUS
  <2>1. queue[i + 1] = queue[1] /\ i + 1 \in 1..n /\ 1 \in 1..n
    BY <1>1
  <2>2. i + 1 = 1
    BY <2>1 DEF QueueInv, Distinct
  <2> QED
    BY <2>2, <1>1
<1>5. Distinct'
  <2> SUFFICES ASSUME NEW i \in 1..Len(queue'), NEW j \in 1..Len(queue'),
                      queue'[i] = queue'[j]
               PROVE  i = j
    BY DEF Distinct
  <2>1. i + 1 = j + 1
    BY <1>1 DEF QueueInv, Distinct
  <2> QED
    BY <2>1, <1>1
<1>6. \A o \in Ops : o \in Queued' <=> o \in Queued /\ o # Front
  <2>1. ASSUME NEW o \in Ops, o \in Queued' PROVE o \in Queued /\ o # Front
    BY <1>1, <1>4, <2>1 DEF Queued
  <2>2. ASSUME NEW o \in Ops, o \in Queued, o # Front PROVE o \in Queued'
    <3>1. PICK i \in 1..n : queue[i] = o
      BY <2>2 DEF Queued
    <3>2. i # 1
      BY <3>1, <2>2, <1>1
    <3>3. i - 1 \in 1..Len(queue') /\ queue'[i - 1] = o
      BY <3>1, <3>2, <1>1
    <3> QED
      BY <3>3 DEF Queued
  <2> QED
    BY <2>1, <2>2
<1>7. Front \in Queued
  <2>1. 1 \in 1..n
    BY <1>1
  <2> QED
    BY <2>1, <1>1 DEF Queued
<1>8. OneResult'
  <2> SUFFICES ASSUME NEW o \in Ops
               PROVE  /\ results'[o] = (IF phase'[o] = "DONE" THEN 1 ELSE 0)
                      /\ o \in Queued' <=> phase'[o] # "new" /\ phase'[o] # "DONE"
    BY DEF OneResult
  <2>1. /\ results[o] = (IF phase[o] = "DONE" THEN 1 ELSE 0)
        /\ o \in Queued <=> phase[o] # "new" /\ phase[o] # "DONE"
    BY DEF QueueInv, OneResult
  <2>2. CASE o = Front
    BY <2>1, <2>2, <1>3, <1>6, <1>7
  <2>3. CASE o # Front
    BY <2>1, <2>3, <1>3, <1>6
  <2> QED
    BY <2>2, <2>3
<1>9. OneInFlight'
  <2> SUFFICES ASSUME NEW i \in 1..Len(queue') PROVE phase'[queue'[i]] = "QUEUED"
    BY <1>3 DEF OneInFlight
  <2>1. i + 1 \in 1..n /\ i + 1 # 1 /\ queue'[i] = queue[i + 1]
    BY <1>1
  <2>2. phase[queue[i + 1]] = "QUEUED"
    BY <2>1 DEF QueueInv, OneInFlight
  <2>3. queue'[i] \in Ops
    BY <2>1 DEF TypeInv, Typed, OpTypes
  <2> QED
    BY <2>1, <2>2, <2>3, <1>3, <1>4
<1> QED
  BY <1>5, <1>8, <1>9 DEF QueueInv

\* The front moves from one phase in flight to another, or is started.
LEMMA QueueFront ==
  ASSUME TypeInv, QueueInv, queue # <<>>,
         NEW p \in {"WRITING", "CONFIRMING"},
         phase' = [phase EXCEPT ![Front] = p],
         starting' = FALSE, UNCHANGED <<queue, results>>
  PROVE  QueueInv'
<1>1. Len(queue) \in Nat /\ Len(queue) >= 1 /\ Front = queue[1] /\ Front \in Ops
      /\ 1 \in 1..Len(queue)
  BY TailProperties DEF TypeInv, Typed, OpTypes, Front
<1>2. \A o \in Ops : phase'[o] = IF o = Front THEN p ELSE phase[o]
  BY DEF TypeInv, Typed, OpTypes
<1>3. Front \in Queued /\ phase[Front] # "new" /\ phase[Front] # "DONE"
  BY <1>1 DEF Queued, QueueInv, OneResult
<1>4. Queued' = Queued /\ Distinct'
  BY DEF QueueInv, Distinct, Queued
<1>5. OneResult'
  <2> SUFFICES ASSUME NEW o \in Ops
               PROVE  /\ results'[o] = (IF phase'[o] = "DONE" THEN 1 ELSE 0)
                      /\ o \in Queued' <=> phase'[o] # "new" /\ phase'[o] # "DONE"
    BY DEF OneResult
  <2>1. /\ results[o] = (IF phase[o] = "DONE" THEN 1 ELSE 0)
        /\ o \in Queued <=> phase[o] # "new" /\ phase[o] # "DONE"
    BY DEF QueueInv, OneResult
  <2> QED
    BY <2>1, <1>2, <1>3, <1>4
<1>6. OneInFlight'
  <2> SUFFICES ASSUME NEW i \in 1..Len(queue)
               PROVE  phase'[queue[i]] # "QUEUED" <=> i = 1
    BY DEF OneInFlight
  <2>1. queue[i] \in Ops
    BY DEF TypeInv, Typed, OpTypes
  <2>2. CASE i = 1
    BY <2>1, <2>2, <1>1, <1>2
  <2>3. CASE i # 1
    <3>1. queue[i] # Front
      BY <2>3, <1>1 DEF QueueInv, Distinct
    <3>2. phase[queue[i]] = "QUEUED"
      BY <2>3 DEF QueueInv, OneInFlight
    <3> QED
      BY <2>1, <2>3, <3>1, <3>2, <1>2
  <2> QED
    BY <2>2, <2>3
<1> QED
  BY <1>4, <1>5, <1>6 DEF QueueInv

\* The operations that o takes out of the queue.
Superseded(o) == {q \in Queued : Supersedes(o, q)}

\* submit_(): the superseded leave, the others keep their order, o comes last.
LEMMA SubmitQueue ==
  ASSUME TypeInv, QueueInv, NEW o \in Ops, Submit(o)
  PROVE  /\ o \notin Queued
         /\ Queued' = (Queued \ Superseded(o)) \cup {o}
         /\ \A q \in Ops : phase'[q] = IF q = o THEN "QUEUED"
                                       ELSE IF q \in Superseded(o) THEN "DONE" ELSE phase[q]
         /\ \A q \in Ops : results'[q] = IF q \in Superseded(o) THEN results[q] + 1
                                         ELSE results[q]
         /\ Distinct'
         /\ Len(queue') \in Nat /\ Len(queue') >= 1
         /\ queue # <<>> => /\ Len(queue) >= 1 /\ queue'[1] = queue[1]
                            /\ phase[queue[1]] # "QUEUED"
         /\ \A i \in 1..Len(queue') :
              queue'[i] = o \/ \E j \in 1..Len(queue) : queue'[i] = queue[j] /\ (j = 1 => i = 1)
         /\ Head(queue') = queue'[1]
         /\ queue = <<>> => queue'[1] = o /\ Len(queue') = 1
         /\ queue # <<>> => queue'[1] # o
<1> DEFINE Kept == {i \in 1..Len(queue) : queue[i] \notin Superseded(o)}
<1>1. PICK f \in Listings(Len(queue), Kept) : queue' = Append(Pick(queue, f), o)
  BY DEF Submit, Superseded
<1> DEFINE p == Pick(queue, f)
<1>2. queue \in Seq(Ops) /\ Len(queue) \in Nat
  BY DEF TypeInv, Typed, OpTypes
<1> HIDE DEF Kept
<1>3. /\ p \in Seq(Ops) /\ Len(p) = Len(f) /\ Len(f) \in Nat
      /\ \A i \in 1..Len(f) : p[i] = queue[f[i]] /\ f[i] \in Kept /\ f[i] \in 1..Len(queue)
      /\ \A k \in Kept : \E i \in 1..Len(f) : f[i] = k
      /\ \A i, j \in 1..Len(f) : f[i] = f[j] => i = j
      /\ 1 \in Kept => Len(f) >= 1 /\ f[1] = 1
  BY <1>2, PickProperties
<1> HIDE DEF p
<1>4. /\ queue' = Append(p, o) /\ Len(queue') = Len(f) + 1
      /\ \A i \in 1..Len(f) : queue'[i] = p[i]
      /\ queue'[Len(f) + 1] = o
      /\ Head(queue') = queue'[1]
  BY <1>1, <1>3, AppendFacts DEF p
<1>5. \A i \in 1..Len(queue') : i \in 1..Len(f) \/ i = Len(f) + 1
  BY <1>3, <1>4
<1>6. o \notin Queued
  BY DEF Submit, QueueInv, OneResult
<1>7. /\ \A q \in Ops : phase'[q] = IF q = o THEN "QUEUED"
                                    ELSE IF q \in Superseded(o) THEN "DONE" ELSE phase[q]
      /\ \A q \in Ops : results'[q] = IF q \in Superseded(o) THEN results[q] + 1
                                      ELSE results[q]
  BY DEF Submit, Superseded
<1>8. ASSUME NEW i \in 1..Len(f)
      PROVE  /\ queue'[i] = queue[f[i]] /\ f[i] \in 1..Len(queue)
             /\ queue'[i] \in Queued /\ queue'[i] \notin Superseded(o)
  BY <1>3, <1>4 DEF Kept, Queued
<1>9. Queued' = (Queued \ Superseded(o)) \cup {o}
  <2>1. ASSUME NEW q \in Queued' PROVE q \in (Queued \ Superseded(o)) \cup {o}
    <3>1. PICK i \in 1..Len(queue') : queue'[i] = q
      BY <2>1 DEF Queued
    <3> QED
      BY <3>1, <1>4, <1>5, <1>8
  <2>2. ASSUME NEW q \in Queued \ Superseded(o) PROVE q \in Queued'
    <3>1. PICK k \in 1..Len(queue) : queue[k] = q
      BY <2>2 DEF Queued
    <3>2. k \in Kept
      BY <3>1, <2>2 DEF Kept
    <3>3. PICK i \in 1..Len(f) : f[i] = k
      BY <3>2, <1>3
    <3>4. queue'[i] = q /\ i \in 1..Len(queue')
      BY <3>1, <3>3, <1>3, <1>4
    <3> QED
      BY <3>4 DEF Queued
  <2>3. o \in Queued'
    <3>1. Len(f) + 1 \in 1..Len(queue')
      BY <1>3, <1>4
    <3> QED
      BY <3>1, <1>4 DEF Queued
  <2> QED
    BY <2>1, <2>2, <2>3
<1>10. Distinct'
  <2> SUFFICES ASSUME NEW i \in 1..Len(queue'), NEW j \in 1..Len(queue'),
                      queue'[i] = queue'[j]
               PROVE  i = j
    BY DEF Distinct
  <2>1. CASE i \in 1..Len(f) /\ j \in 1..Len(f)
    <3>1. /\ queue[f[i]] = queue[f[j]]
          /\ f[i] \in 1..Len(queue) /\ f[j] \in 1..Len(queue)
      BY <2>1, <1>8
    <3>2. f[i] = f[j]
      BY <3>1 DEF QueueInv, Distinct
    <3> QED
      BY <3>2, <2>1, <1>3
  <2>2. CASE i \in 1..Len(f) /\ j = Len(f) + 1
    BY <2>2, <1>4, <1>6, <1>8
  <2>3. CASE i = Len(f) + 1 /\ j \in 1..Len(f)
    BY <2>3, <1>4, <1>6, <1>8
  <2>4. CASE i = Len(f) + 1 /\ j = Len(f) + 1
    BY <2>4
  <2> QED
    BY <1>5, <2>1, <2>2, <2>3, <2>4
<1>11. ASSUME queue # <<>>
       PROVE  /\ Len(queue) >= 1 /\ queue'[1] = queue[1] /\ phase[queue[1]] # "QUEUED"
              /\ queue'[1] # o
  <2>1. Len(queue) >= 1 /\ 1 \in 1..Len(queue)
    BY <1>11, <1>2
  <2>2. phase[queue[1]] # "QUEUED"
    BY <2>1 DEF Submit, QueueInv, OneInFlight
  <2>3. 1 \in Kept
    BY <2>1, <2>2 DEF Kept, Superseded, Supersedes
  <2>4. 1 \in 1..Len(f) /\ f[1] = 1
    BY <2>3, <1>3
  <2> QED
    BY <2>1, <2>2, <2>4, <1>6, <1>8
<1>12. ASSUME NEW i \in 1..Len(queue')
       PROVE  queue'[i] = o \/ \E j \in 1..Len(queue) : queue'[i] = queue[j] /\ (j = 1 => i = 1)
  <2>1. CASE i \in 1..Len(f)
    <3>1. f[i] = 1 => i = 1
      <4> SUFFICES ASSUME f[i] = 1 PROVE i = 1
        OBVIOUS
      <4>1. 1 \in Kept
        BY <2>1, <1>3
      <4>2. f[1] = 1 /\ 1 \in 1..Len(f)
        BY <4>1, <1>3
      <4> QED
        BY <4>2, <2>1, <1>3
    <3> QED
      BY <2>1, <3>1, <1>8
  <2>2. CASE i = Len(f) + 1
    BY <2>2, <1>4
  <2> QED
    BY <1>5, <2>1, <2>2
<1>13. ASSUME queue = <<>> PROVE queue'[1] = o /\ Len(queue') = 1
  <2>1. Len(queue) = 0
    BY <1>13
  <2>2. Len(f) = 0
    <3> SUFFICES ASSUME Len(f) # 0 PROVE FALSE
      OBVIOUS
    <3>1. 1 \in 1..Len(f)
      BY <1>3
    <3>2. f[1] \in 1..Len(queue)
      BY <3>1, <1>8
    <3> QED
      BY <3>2, <2>1
  <2> QED
    BY <2>2, <1>4
<1>14. Len(queue') \in Nat /\ Len(queue') >= 1
  BY <1>3, <1>4
<1> QED
  BY <1>4, <1>6, <1>7, <1>9, <1>10, <1>11, <1>12, <1>13, <1>14

LEMMA QueueSubmit ==
  ASSUME TypeInv, QueueInv, NEW o \in Ops, Submit(o)
  PROVE  QueueInv'
<1>1. OneResult'
  <2> SUFFICES ASSUME NEW q \in Ops
               PROVE  /\ results'[q] = (IF phase'[q] = "DONE" THEN 1 ELSE 0)
                      /\ q \in Queued' <=> phase'[q] # "new" /\ phase'[q] # "DONE"
    BY DEF OneResult
  <2>1. /\ results[q] = (IF phase[q] = "DONE" THEN 1 ELSE 0)
        /\ q \in Queued <=> phase[q] # "new" /\ phase[q] # "DONE"
    BY DEF QueueInv, OneResult
  <2>2. Superseded(o) \subseteq Queued /\ o \notin Superseded(o) /\ phase[o] = "new"
    BY SubmitQueue DEF Superseded, Submit
  <2>3. CASE q = o
    BY <2>1, <2>2, <2>3, SubmitQueue
  <2>4. CASE q # o /\ q \in Superseded(o)
    BY <2>1, <2>2, <2>4, SubmitQueue
  <2>5. CASE q # o /\ q \notin Superseded(o)
    BY <2>1, <2>5, SubmitQueue
  <2> QED
    BY <2>3, <2>4, <2>5
<1>2. OneInFlight'
  <2> SUFFICES ASSUME NEW i \in 1..Len(queue')
               PROVE  phase'[queue'[i]] # "QUEUED" <=> (i = 1 /\ ~starting')
    BY DEF OneInFlight
  <2>1. starting' = (phase'[queue'[1]] = "QUEUED") /\ ~starting
    BY SubmitQueue DEF Submit
  <2>2. \A j \in 1..Len(queue) : queue[j] \in Ops /\ queue[j] \in Queued
    BY DEF TypeInv, Typed, OpTypes, Queued
  <2>3. CASE i = 1
    BY <2>1, <2>3
  <2>4. CASE i # 1 /\ queue'[i] = o
    BY <2>4, SubmitQueue
  <2>5. CASE i # 1 /\ queue'[i] # o
    <3>1. PICK j \in 1..Len(queue) : queue'[i] = queue[j] /\ j # 1
      BY <2>5, SubmitQueue
    <3>2. phase[queue[j]] = "QUEUED"
      BY <3>1 DEF QueueInv, OneInFlight
    <3>3. queue'[i] \in Queued'
      BY DEF Queued
    <3>4. queue[j] \notin Superseded(o)
      BY <3>1, <3>3, <2>5, SubmitQueue
    <3>5. phase'[queue'[i]] = phase[queue[j]]
      BY <3>1, <3>4, <2>2, <2>5, SubmitQueue
    <3> QED
      BY <3>2, <3>5, <2>5
  <2> QED
    BY <2>3, <2>4, <2>5
<1> QED
  BY <1>1, <1>2, SubmitQueue DEF QueueInv

LEMMA QueueDisconnect ==
  ASSUME TypeInv, QueueInv, Disconnect
  PROVE  QueueInv'
<1>1. queue' = <<>> /\ Len(queue') = 0 /\ starting' = FALSE
  BY DEF Disconnect, OnDisconnect
<1>2. phase \in [Ops -> Phases] /\ results \in [Ops -> Nat]
  BY DEF TypeInv, Typed, OpTypes, ResultTypes
<1>3. OneResult'
  <2> SUFFICES ASSUME NEW o \in Ops
               PROVE  /\ results'[o] = (IF phase'[o] = "DONE" THEN 1 ELSE 0)
                      /\ o \notin Queued' /\ ~(phase'[o] # "new" /\ phase'[o] # "DONE")
    BY DEF OneResult
  <2>1. /\ results[o] = (IF phase[o] = "DONE" THEN 1 ELSE 0)
        /\ o \in Queued <=> phase[o] # "new" /\ phase[o] # "DONE"
    BY DEF QueueInv, OneResult
  <2>2. /\ phase'[o] = (IF o \in Queued THEN "DONE" ELSE phase[o])
        /\ results'[o] = (IF o \in Queued THEN results[o] + 1 ELSE results[o])
    BY <1>2 DEF Disconnect, OnDisconnect
  <2>3. o \notin Queued'
    BY <1>1 DEF Queued
  <2> QED
    BY <2>1, <2>2, <2>3
<1> QED
  BY <1>1, <1>3 DEF QueueInv, Distinct, OneInFlight

\* What the operation in flight is, in terms of the queue.
LEMMA Flight ==
  ASSUME TypeInv, QueueInv
  PROVE  /\ Running => queue # <<>> /\ Front \in Ops /\ ~starting
         /\ starting /\ queue # <<>> => ~Running
         /\ ~starting /\ queue # <<>> => Running
<1>1. CASE queue = <<>>
  BY <1>1 DEF Running
<1>2. CASE queue # <<>>
  <2>1. Front = queue[1] /\ Front \in Ops /\ 1 \in 1..Len(queue)
    BY <1>2, TailProperties DEF Front, TypeInv, Typed, OpTypes
  <2>2. phase[queue[1]] # "QUEUED" <=> ~starting
    BY <2>1 DEF QueueInv, OneInFlight
  <2> QED
    BY <1>2, <2>1, <2>2 DEF Running
<1> QED
  BY <1>1, <1>2

LEMMA QueueStep ==
  ASSUME TypeInv, QueueInv, [Next]_vars
  PROVE  QueueInv'
<1>1. ASSUME NEW o \in Ops, Submit(o) PROVE QueueInv'
  BY <1>1, QueueSubmit
<1>2. CASE TurnAway
  BY <1>2, QueueFinish DEF TurnAway, Statuses
<1>3. CASE RefuseInvalid
  BY <1>3, QueueFinish DEF RefuseInvalid, FinishUnread, Statuses
<1>4. CASE StartFront
  <2>1. /\ queue # <<>> /\ starting' = FALSE /\ UNCHANGED <<queue, results>>
        /\ \/ phase' = [phase EXCEPT ![Front] = "WRITING"]
           \/ phase' = [phase EXCEPT ![Front] = "CONFIRMING"]
    BY <1>4 DEF StartFront, RunSetEnabled, RunSetMode, RunSetClock, RunSetSetpoint, resultVars
  <2> QED
    BY <2>1, QueueFront
<1>5. CASE NothingToStart
  <2>1. Len(queue) = 0
    BY <1>5 DEF NothingToStart
  <2> QED
    BY <1>5, <2>1
    DEF NothingToStart, QueueInv, Distinct, OneResult, OneInFlight, Queued, resultVars
<1>6. CASE Watchdog
  BY <1>6, QueueFinish DEF Watchdog, Running, FinishUnread, Statuses
<1>7. CASE EndRun
  <2> DEFINE o == Head(wire).op
  <2>1. CASE ~InFlight(o)
    BY <1>7, <2>1, QueueSame DEF EndRun, opVars, resultVars
  <2>2. CASE InFlight(o)
    <3>1. queue # <<>> /\ Front = o /\ ~starting
      BY <1>7, <2>2 DEF InFlight, Running, EndRun, Ends
    <3>2. \/ FinishUnread("rejected")
          \/ /\ phase' = [phase EXCEPT ![o] = "CONFIRMING"]
             /\ UNCHANGED <<queue, starting, results>>
      BY <1>7, <2>2 DEF EndRun, resultVars
    <3>3. CASE FinishUnread("rejected")
      BY <3>1, <3>3, QueueFinish DEF FinishUnread, Statuses
    <3>4. CASE /\ phase' = [phase EXCEPT ![o] = "CONFIRMING"]
               /\ UNCHANGED <<queue, starting, results>>
      BY <3>1, <3>4, QueueFront DEF TypeInv, Typed, OpTypes
    <3> QED
      BY <3>2, <3>3, <3>4
  <2> QED
    BY <2>1, <2>2
<1>8. CASE EndMode \/ EndControl \/ EndClock \/ EndPoll
  BY <1>8, QueueSame DEF EndMode, EndControl, EndClock, EndPoll, opVars, resultVars
<1>9. CASE EndConfirm
  <2> DEFINE o == Head(wire).op
  <2>1. PICK answered \in Answers :
          IF InFlight(o) THEN ConfirmWith(o, answered) ELSE RefreshWith(answered)
    BY <1>9 DEF EndConfirm
  <2>2. CASE ~InFlight(o)
    BY <2>1, <2>2, QueueSame DEF RefreshWith, opVars
  <2>3. CASE InFlight(o)
    <3>1. queue # <<>>
      BY <2>3 DEF InFlight, Running
    <3>2. CASE Verdict(o, answered) = "retry"
      BY <2>1, <2>3, <3>2, QueueSame DEF ConfirmWith, Retry
    <3>3. CASE Verdict(o, answered) # "retry"
      <4>1. o \in Ops /\ Cmd(o) # "clock"
        BY <1>9, WireHead DEF EndConfirm, Ends, TypeInv
      <4>2. answered \in BOOLEAN
        BY DEF Answers
      <4>3. Verdict(o, answered) \in Statuses
        BY <3>3, <4>1, <4>2, VerdictTyped
      <4>4. Finish(Verdict(o, answered))
        BY <2>1, <2>3, <3>3 DEF ConfirmWith
      <4> QED
        BY <3>1, <4>3, <4>4, QueueFinish
    <3> QED
      BY <3>2, <3>3
  <2> QED
    BY <2>2, <2>3
<1>10. CASE EndClockRead
  <2>1. \/ UNCHANGED <<opVars, resultVars>>
        \/ queue # <<>> /\ \E s \in Statuses : Finish(s)
        \/ Retry
    BY <1>10 DEF EndClockRead, FinishUnread, InFlight, Running, Statuses
  <2>2. CASE UNCHANGED <<opVars, resultVars>>
    BY <2>2, QueueSame DEF opVars, resultVars
  <2>3. CASE Retry
    BY <2>3, QueueSame DEF Retry
  <2> QED
    BY <2>1, <2>2, <2>3, QueueFinish
<1>11. CASE ConfirmDue
  BY <1>11, QueueSame DEF ConfirmDue, resultVars
<1>12. CASE EndSync \/ EndConfig \/ PollDue \/ StartChain \/ Rearm \/ SyncDue \/ Connect \/ Panel
  BY <1>12, QueueSame
  DEF EndSync, EndConfig, PollDue, StartChain, Rearm, SyncDue, Connect, Panel, opVars, resultVars
<1>13. CASE Disconnect
  BY <1>13, QueueDisconnect
<1>14. CASE UNCHANGED vars
  BY <1>14, QueueSame DEF vars, opVars, resultVars
<1> QED
  BY <1>1, <1>2, <1>3, <1>4, <1>5, <1>6, <1>7, <1>8, <1>9, <1>10, <1>11, <1>12, <1>13, <1>14
  DEF Next

IInv == TypeInv /\ QueueInv

LEMMA IInvAlways == Spec => []IInv
<1>1. Init => IInv
  BY TypeInit, QueueInit DEF IInv
<1>2. IInv /\ [Next]_vars => IInv'
  BY TypeStep, QueueStep DEF IInv
<1> QED
  BY <1>1, <1>2, PTL DEF Spec

\* "Every operation reaches exactly one terminal status": the watchdog, the
\* confirm reads, a supersede and a dropped link settle an operation once
\* between them, and whoever is not settled is in the queue.
THEOREM SettledOnce == Spec => []OneResult
<1>1. IInv => OneResult
  BY DEF IInv, QueueInv
<1> QED
  BY <1>1, IInvAlways, PTL

\* "Exactly one operation is in flight at a time": the front, unless
\* start_front_() is about to run; the others wait.
THEOREM InFlightAlone == Spec => []OneInFlight
<1>1. IInv => OneInFlight
  BY DEF IInv, QueueInv
<1> QED
  BY <1>1, IInvAlways, PTL

-----------------------------------------------------------------------------
(* The service implements WritePromise.                                     *)

LEMMA FlightStates ==
  IInv => /\ starting \/ queue = <<>> => ~Running /\ RunningOp = NoOp /\ Behind = queue
          /\ ~starting /\ queue # <<>> =>
               Running /\ RunningOp = Front /\ Behind = Tail(queue)
BY Flight DEF IInv, RunningOp, Behind, Running

\* An operation not yet submitted has no status.
Unstarted == \A o \in Ops : phase[o] = "new" => status[o] = "none"

LEMMA FrontNotNew ==
  ASSUME IInv, queue # <<>>
  PROVE  Front \in Ops /\ phase[Front] # "new" /\ phase[Front] # "DONE"
<1>1. Front \in Ops /\ Front = queue[1] /\ 1 \in 1..Len(queue)
  BY TailProperties DEF IInv, TypeInv, Typed, OpTypes, Front
<1>2. Front \in Queued
  BY <1>1 DEF Queued
<1> QED
  BY <1>1, <1>2 DEF IInv, QueueInv, OneResult

LEMMA UnstartedStep ==
  ASSUME IInv, Unstarted, [Next]_vars
  PROVE  Unstarted'
<1>1. UNCHANGED <<phase, status>> => Unstarted'
  BY DEF Unstarted
<1>2. ASSUME queue # <<>>, NEW s \in Statuses, Finish(s) PROVE Unstarted'
  <2> SUFFICES ASSUME NEW o \in Ops, phase'[o] = "new" PROVE status'[o] = "none"
    BY DEF Unstarted
  <2>1. Front \in Ops /\ phase \in [Ops -> Phases] /\ status \in [Ops -> Statuses]
    BY <1>2, FrontNotNew DEF IInv, TypeInv, Typed, OpTypes, ResultTypes
  <2>2. o # Front /\ phase[o] = "new" /\ status'[o] = status[o]
    BY <1>2, <2>1 DEF Finish
  <2> QED
    BY <2>2 DEF Unstarted
<1>3. ASSUME queue # <<>>, NEW p \in Phases \ {"new"}, phase' = [phase EXCEPT ![Front] = p],
             UNCHANGED status
      PROVE  Unstarted'
  BY <1>3, FrontNotNew DEF Unstarted, IInv, TypeInv, Typed, OpTypes
<1>4. ASSUME NEW o \in Ops, Submit(o) PROVE Unstarted'
  <2> SUFFICES ASSUME NEW q \in Ops, phase'[q] = "new" PROVE status'[q] = "none"
    BY DEF Unstarted
  <2>1. q # o /\ q \notin Superseded(o) /\ phase[q] = "new"
    BY <1>4, SubmitQueue DEF IInv
  <2>2. status'[q] = status[q]
    BY <1>4, <2>1 DEF Submit, Superseded
  <2> QED
    BY <2>1, <2>2 DEF Unstarted
<1>5. CASE Disconnect
  BY <1>5 DEF Disconnect, OnDisconnect, Unstarted
<1>6. CASE TurnAway \/ RefuseInvalid \/ Watchdog
  BY <1>6, <1>2 DEF TurnAway, RefuseInvalid, Watchdog, FinishUnread, Running, Statuses
<1>7. CASE StartFront
  <2>1. /\ queue # <<>> /\ UNCHANGED status
        /\ \/ phase' = [phase EXCEPT ![Front] = "WRITING"]
           \/ phase' = [phase EXCEPT ![Front] = "CONFIRMING"]
    BY <1>7 DEF StartFront, RunSetEnabled, RunSetMode, RunSetClock, RunSetSetpoint, resultVars
  <2> QED
    BY <2>1, <1>3 DEF Phases
<1>8. CASE EndRun
  <2>1. \/ UNCHANGED <<opVars, resultVars>>
        \/ queue # <<>> /\ FinishUnread("rejected")
        \/ /\ queue # <<>> /\ phase' = [phase EXCEPT ![Front] = "CONFIRMING"]
           /\ UNCHANGED resultVars
    BY <1>8 DEF EndRun, InFlight, Running
  <2>2. CASE UNCHANGED <<opVars, resultVars>>
    BY <2>2, <1>1 DEF opVars, resultVars
  <2>3. CASE queue # <<>> /\ FinishUnread("rejected")
    BY <2>3, <1>2 DEF FinishUnread, Statuses
  <2>4. CASE /\ queue # <<>> /\ phase' = [phase EXCEPT ![Front] = "CONFIRMING"]
             /\ UNCHANGED resultVars
    BY <2>4, <1>3 DEF Phases, resultVars
  <2> QED
    BY <2>1, <2>2, <2>3, <2>4
<1>9. CASE EndConfirm
  <2> DEFINE o == Head(wire).op
  <2>1. PICK answered \in Answers :
          IF InFlight(o) THEN ConfirmWith(o, answered) ELSE RefreshWith(answered)
    BY <1>9 DEF EndConfirm
  <2>2. o \in Ops /\ Cmd(o) # "clock" /\ answered \in BOOLEAN
    BY <1>9, WireHead DEF EndConfirm, Ends, IInv, TypeInv, Answers
  <2>3. \/ UNCHANGED <<phase, status>>
        \/ queue # <<>> /\ Verdict(o, answered) # "retry" /\ Finish(Verdict(o, answered))
    BY <2>1 DEF ConfirmWith, Retry, RefreshWith, opVars, InFlight, Running
  <2> QED
    BY <1>1, <1>2, <2>2, <2>3, VerdictTyped
<1>10. CASE EndClockRead
  <2>1. \/ UNCHANGED <<phase, status>>
        \/ queue # <<>> /\ \E s \in Statuses : Finish(s)
    BY <1>10
    DEF EndClockRead, FinishUnread, InFlight, Running, Statuses, Retry, opVars, resultVars
  <2> QED
    BY <1>1, <1>2, <2>1
<1>11. CASE EndMode \/ EndControl \/ EndClock \/ EndPoll \/ NothingToStart \/ ConfirmDue
            \/ EndSync \/ EndConfig \/ PollDue \/ StartChain \/ Rearm \/ SyncDue
            \/ Connect \/ Panel \/ UNCHANGED vars
  BY <1>11, <1>1
  DEF EndMode, EndControl, EndClock, EndPoll, NothingToStart, ConfirmDue, EndSync, EndConfig,
      PollDue, StartChain, Rearm, SyncDue, Connect, Panel, vars, opVars, resultVars
<1> QED
  BY <1>4, <1>5, <1>6, <1>7, <1>8, <1>9, <1>10, <1>11 DEF Next

LEMMA FlightStatesNext == (IInv => /\ starting \/ queue = <<>> =>
                                      ~Running /\ RunningOp = NoOp /\ Behind = queue
                                   /\ ~starting /\ queue # <<>> =>
                                      Running /\ RunningOp = Front /\ Behind = Tail(queue))'
BY FlightStates, PTL

\* Whoever is superseded waits behind the one in flight, for the same resource.
LEMMA SupersededWaits ==
  ASSUME IInv, NEW o \in Ops, ~starting
  PROVE  Superseded(o) = {q \in Promise!Waiting : SameResource(q, o)}
<1>1. queue \in Seq(Ops)
  BY DEF IInv, TypeInv, Typed, OpTypes
<1>2. CASE queue = <<>>
  BY <1>2, FlightStates DEF Superseded, Queued, Promise!Waiting
<1>3. CASE queue # <<>>
  <2>1. Behind = Tail(queue)
    BY <1>3, FlightStates
  <2>2. /\ \A i \in 1..Len(Behind) : Behind[i] = queue[i + 1] /\ i + 1 \in 1..Len(queue)
        /\ \A i \in 1..Len(queue) : i # 1 => i - 1 \in 1..Len(Behind) /\ Behind[i - 1] = queue[i]
        /\ Len(Behind) \in Nat
    BY <1>1, <1>3, <2>1, TailProperties
  <2>3. \A i \in 1..Len(queue) : phase[queue[i]] = "QUEUED" <=> i # 1
    BY DEF IInv, QueueInv, OneInFlight
  <2>4. ASSUME NEW q \in Superseded(o)
        PROVE  q \in Promise!Waiting /\ SameResource(q, o)
    <3>1. PICK i \in 1..Len(queue) : queue[i] = q
      BY DEF Superseded, Queued
    <3>2. phase[q] = "QUEUED" /\ SameResource(q, o)
      BY DEF Superseded, Supersedes
    <3>3. i - 1 \in 1..Len(Behind) /\ Behind[i - 1] = q
      BY <3>1, <3>2, <2>2, <2>3
    <3> QED
      BY <3>2, <3>3 DEF Promise!Waiting
  <2>5. ASSUME NEW q \in Promise!Waiting, SameResource(q, o)
        PROVE  q \in Superseded(o)
    <3>1. PICK i \in 1..Len(Behind) : Behind[i] = q
      BY DEF Promise!Waiting
    <3>2. i \in Nat /\ i >= 1 /\ i + 1 \in 1..Len(queue) /\ queue[i + 1] = q
      BY <3>1, <2>2
    <3>3. phase[q] = "QUEUED"
      BY <3>2, <2>3
    <3> QED
      BY <3>2, <3>3, <2>5 DEF Superseded, Queued, Supersedes
  <2> QED
    BY <2>4, <2>5
<1> QED
  BY <1>2, <1>3

\* The positions of K as the tail counts them.
Shifted(n, K) == {i \in 1..n : i + 1 \in K}

\* Taking operations out of the queue takes them out of its tail.
LEMMA PickBehind ==
  ASSUME NEW s \in Seq(Ops), s # <<>>, NEW K, 1 \in K, K \subseteq 1..Len(s),
         NEW f \in Listings(Len(s), K), NEW o \in Ops
  PROVE  \E g \in Listings(Len(Tail(s)), Shifted(Len(Tail(s)), K)) :
           Tail(Append(Pick(s, f), o)) = Append(Pick(Tail(s), g), o)
<1> DEFINE t == Tail(s)
           p == Pick(s, f)
           m == Len(f)
           g == [i \in 1..(m - 1) |-> f[i + 1] - 1]
           L == Shifted(Len(t), K)
<1>1. /\ Len(s) \in Nat /\ Len(s) >= 1 /\ t \in Seq(Ops) /\ Len(t) = Len(s) - 1
      /\ \A i \in 1..Len(t) : t[i] = s[i + 1] /\ i + 1 \in 1..Len(s)
  BY TailProperties
<1>2. /\ p \in Seq(Ops) /\ Len(p) = m /\ m \in Nat /\ m >= 1 /\ f[1] = 1
      /\ \A i \in 1..m : p[i] = s[f[i]] /\ f[i] \in K /\ f[i] \in 1..Len(s)
      /\ \A k \in K : \E i \in 1..m : f[i] = k
  BY PickProperties
<1>3. \A i, j \in 1..m : i < j => f[i] < f[j]
  <2>1. PICK n \in 0..Len(s) : f \in [1..n -> 1..Len(s)]
    BY DEF Listings
  <2>2. DOMAIN f = 1..m
    BY <2>1
  <2> QED
    BY <2>2 DEF Listings, Lists
<1> HIDE DEF p, m, t
<1>4. \A i \in 1..(m - 1) : i + 1 \in 1..m /\ 1 \in 1..m /\ 1 < i + 1
  BY <1>2
<1>5. ASSUME NEW i \in 1..(m - 1)
      PROVE  /\ i + 1 \in 1..m /\ f[i + 1] \in Nat /\ f[i + 1] > 1
             /\ g[i] = f[i + 1] - 1 /\ g[i] \in 1..Len(t) /\ g[i] + 1 = f[i + 1]
  <2>1. i + 1 \in 1..m /\ f[1] < f[i + 1] /\ f[i + 1] \in 1..Len(s)
    BY <1>2, <1>3, <1>4
  <2>2. f[i + 1] \in Nat /\ f[i + 1] > 1 /\ f[i + 1] - 1 \in 1..(Len(s) - 1)
    BY <2>1, <1>1, <1>2
  <2> QED
    BY <2>1, <2>2, <1>1
<1>6. g \in [1..(m - 1) -> 1..Len(t)] /\ DOMAIN g = 1..(m - 1)
  BY <1>5
<1>7. m - 1 \in 0..Len(t)
  <2>1. CASE m = 1
    BY <2>1, <1>1
  <2>2. CASE m # 1
    <3>1. m - 1 \in Nat /\ Len(t) \in Nat
      BY <1>1, <1>2
    <3>2. \A i, j \in 1..(m - 1) : g[i] = g[j] => i = j
      <4> SUFFICES ASSUME NEW i \in 1..(m - 1), NEW j \in 1..(m - 1), g[i] = g[j], i < j
                   PROVE  FALSE
        BY <3>1
      <4>1. f[i + 1] < f[j + 1]
        BY <1>2, <1>3, <1>5
      <4> QED
        BY <4>1, <1>5
    <3>3. g \in Injection(1..(m - 1), 1..Len(t))
      BY <1>6, <3>2 DEF Injection, IsInjective
    <3>4. IsFiniteSet(1..Len(t)) /\ IsFiniteSet(1..(m - 1))
          /\ Cardinality(1..Len(t)) = Len(t) /\ Cardinality(1..(m - 1)) = m - 1
      <4>1. 1 \in Int /\ Len(t) \in Int /\ m - 1 \in Int
        BY <3>1
      <4>2. /\ IsFiniteSet(1..Len(t)) /\ IsFiniteSet(1..(m - 1))
            /\ Cardinality(1..Len(t)) = IF 1 > Len(t) THEN 0 ELSE Len(t) - 1 + 1
            /\ Cardinality(1..(m - 1)) = IF 1 > m - 1 THEN 0 ELSE (m - 1) - 1 + 1
        BY <4>1, FS_Interval
      <4> QED
        BY <3>1, <4>2
    <3>5. m - 1 <= Len(t)
      BY <3>3, <3>4, FS_Injection
    <3> QED
      BY <3>1, <3>5
  <2> QED
    BY <2>1, <2>2
<1>8. Lists(g, L)
  <2>1. ASSUME NEW i \in 1..(m - 1) PROVE g[i] \in L
    <3>1. g[i] + 1 \in K /\ g[i] \in 1..Len(t)
      BY <1>2, <1>5
    <3> QED
      BY <3>1 DEF Shifted
  <2>2. ASSUME NEW k \in L PROVE \E i \in 1..(m - 1) : g[i] = k
    <3>1. k + 1 \in K /\ k \in 1..Len(t)
      BY DEF Shifted
    <3>2. PICK j \in 1..m : f[j] = k + 1
      BY <3>1, <1>2
    <3>3. j # 1 /\ k \in Nat
      BY <3>1, <3>2, <1>2
    <3>4. j - 1 \in 1..(m - 1) /\ (j - 1) + 1 = j
      BY <3>3, <1>2
    <3>5. g[j - 1] = k
      BY <3>2, <3>3, <3>4, <1>5
    <3> QED
      BY <3>4, <3>5
  <2>3. ASSUME NEW i \in 1..(m - 1), NEW j \in 1..(m - 1), i < j PROVE g[i] < g[j]
    <3>1. f[i + 1] < f[j + 1] /\ f[i + 1] \in Nat /\ f[j + 1] \in Nat
      BY <2>3, <1>2, <1>3, <1>5
    <3>2. g[i] = f[i + 1] - 1 /\ g[j] = f[j + 1] - 1
      BY <2>3, <1>5
    <3> HIDE DEF g
    <3> QED
      BY <3>1, <3>2
  <2> HIDE DEF g
  <2> QED
    BY <1>6, <2>1, <2>2, <2>3 DEF Lists
<1>9. g \in Listings(Len(t), L)
  <2> HIDE DEF g, L
  <2> QED
    BY <1>6, <1>7, <1>8 DEF Listings
<1> HIDE DEF g, L
<1>10. Pick(t, g) \in Seq(Ops) /\ Len(Pick(t, g)) = m - 1
       /\ \A i \in 1..(m - 1) : Pick(t, g)[i] = t[g[i]]
  <2>1. Pick(t, g) \in Seq(Ops) /\ Len(Pick(t, g)) = Len(g)
        /\ \A i \in 1..Len(g) : Pick(t, g)[i] = t[g[i]]
    <3>1. t \in Seq(Ops)
      BY <1>1
    <3> QED
      BY <1>9, <3>1, PickProperties
  <2>2. Len(g) = m - 1
    <3>1. m - 1 \in Nat
      BY <1>2
    <3> QED
      BY <3>1, <1>6
  <2> QED
    BY <2>1, <2>2
<1>11. ASSUME NEW i \in 1..(m - 1) PROVE Pick(t, g)[i] = p[i + 1]
  <2>1. Pick(t, g)[i] = t[g[i]] /\ g[i] \in 1..Len(t) /\ g[i] + 1 = f[i + 1] /\ i + 1 \in 1..m
    BY <1>5, <1>10
  <2>2. t[g[i]] = s[f[i + 1]]
    BY <1>1, <2>1
  <2>3. p[i + 1] = s[f[i + 1]]
    BY <1>2, <2>1
  <2> QED
    BY <2>1, <2>2, <2>3
<1>12. Tail(Append(p, o)) = Append(Pick(t, g), o)
  <2>1. /\ Append(p, o) \in Seq(Ops) /\ Len(Append(p, o)) = m + 1
        /\ \A i \in 1..m : Append(p, o)[i] = p[i]
        /\ Append(p, o)[m + 1] = o /\ Append(p, o) # <<>>
    BY <1>2, AppendFacts
  <2>2. /\ Tail(Append(p, o)) \in Seq(Ops) /\ Len(Tail(Append(p, o))) = m
        /\ \A i \in 1..m : Tail(Append(p, o))[i] = Append(p, o)[i + 1]
    <3>1. /\ Tail(Append(p, o)) \in Seq(Ops)
          /\ Len(Tail(Append(p, o))) = Len(Append(p, o)) - 1
          /\ \A i \in 1..Len(Tail(Append(p, o))) :
               Tail(Append(p, o))[i] = Append(p, o)[i + 1]
      BY <2>1, TailProperties
    <3>2. Len(Tail(Append(p, o))) = m
      <4> HIDE DEF p
      <4>1. (m + 1) - 1 = m
        BY <1>2
      <4> QED
        BY <2>1, <3>1, <4>1
    <3> QED
      BY <3>1, <3>2
  <2>3. /\ Append(Pick(t, g), o) \in Seq(Ops) /\ Len(Append(Pick(t, g), o)) = m
        /\ \A i \in 1..(m - 1) : Append(Pick(t, g), o)[i] = Pick(t, g)[i]
        /\ Append(Pick(t, g), o)[m] = o
    BY <1>2, <1>10, AppendFacts
  <2>4. ASSUME NEW i \in 1..m PROVE Tail(Append(p, o))[i] = Append(Pick(t, g), o)[i]
    <3>1. CASE i = m
      BY <3>1, <2>1, <2>2, <2>3
    <3>2. CASE i # m
      <4>1. i \in 1..(m - 1) /\ i + 1 \in 1..m
        BY <3>2, <1>2
      <4> QED
        BY <4>1, <2>1, <2>2, <2>3, <1>11
    <3> QED
      BY <3>1, <3>2
  <2> QED
    BY <2>2, <2>3, <2>4, SeqEqual
<1> QED
  BY <1>9, <1>12 DEF t, p, L

LEMMA PromiseSubmit ==
  ASSUME IInv, Unstarted, IInv', NEW o \in Ops, Submit(o)
  PROVE  Promise!Submit(o)
<1> DEFINE Mine == {i \in 1..Len(queue) : queue[i] \notin Superseded(o)}
           Kept == {i \in 1..Len(Behind) : ~SameResource(Behind[i], o)}
<1>1. ~starting /\ o \notin Queued /\ status[o] = "none"
  BY SubmitQueue DEF Submit, Unstarted, IInv
<1>2. Superseded(o) = {q \in Promise!Waiting : SameResource(q, o)}
  BY <1>1, SupersededWaits
<1>3. queue \in Seq(Ops) /\ Len(queue) \in Nat
  BY DEF IInv, TypeInv, Typed, OpTypes
<1>4. PICK f \in Listings(Len(queue), Mine) : queue' = Append(Pick(queue, f), o)
  BY DEF Submit, Superseded
<1>5. o \notin Promise!Waiting \cup {RunningOp}
  <2>1. CASE queue = <<>>
    <3>1. Behind = queue /\ RunningOp = NoOp
      BY <2>1, FlightStates
    <3> QED
      BY <2>1, <3>1, OpsAssumption DEF Promise!Waiting
  <2>2. CASE queue # <<>>
    <3>1. Behind = Tail(queue) /\ RunningOp = Front
      BY <1>1, <2>2, FlightStates
    <3>2. Front \in Queued
      <4>1. Front = queue[1] /\ 1 \in 1..Len(queue)
        BY <1>3, <2>2, TailProperties DEF Front
      <4> QED
        BY <4>1 DEF Queued
    <3>3. \A i \in 1..Len(Behind) : Behind[i] \in Queued
      BY <1>3, <2>2, <3>1, TailProperties DEF Queued
    <3> QED
      BY <1>1, <3>1, <3>2, <3>3 DEF Promise!Waiting
  <2> QED
    BY <2>1, <2>2
<1>6. status' = [w \in Ops |-> IF w \in Promise!Waiting /\ SameResource(w, o)
                               THEN "superseded" ELSE status[w]]
  <2>1. status' = [w \in Ops |-> IF w \in Superseded(o) THEN "superseded" ELSE status[w]]
    BY DEF Submit, Superseded
  <2> QED
    BY <1>2, <2>1
<1>7. RunningOp' = RunningOp
      /\ \E g \in Listings(Len(Behind), Kept) : Behind' = Append(Pick(Behind, g), o)
  <2>1. CASE queue = <<>>
    <3>1. queue' # <<>> /\ queue'[1] = o /\ Head(queue') = o /\ phase'[o] = "QUEUED"
          /\ Len(queue') \in Nat
      BY <2>1, SubmitQueue DEF IInv
    <3>2. starting' = TRUE
      BY <3>1 DEF Submit
    <3>3. RunningOp' = NoOp /\ Behind' = queue'
      BY <3>2, FlightStatesNext
    <3>4. RunningOp = NoOp /\ Behind = queue
      BY <2>1, FlightStates
    <3>5. Kept = Mine
      BY <2>1, <3>4
    <3> QED
      BY <1>4, <3>3, <3>4, <3>5
  <2>2. CASE queue # <<>>
    <3>1. queue' # <<>> /\ queue'[1] = queue[1] /\ Head(queue') = queue'[1]
      BY <2>2, SubmitQueue DEF IInv
    <3>2. phase[queue[1]] # "QUEUED" /\ queue[1] # o /\ queue[1] \in Ops /\ 1 \in 1..Len(queue)
      BY <1>3, <2>2, SubmitQueue DEF IInv
    <3>3. queue[1] \notin Superseded(o)
      BY <3>2 DEF Superseded, Supersedes
    <3>4. phase'[queue[1]] = phase[queue[1]]
      BY <3>2, <3>3, SubmitQueue DEF IInv
    <3>5. starting' = FALSE
      BY <3>1, <3>2, <3>4 DEF Submit
    <3>6. RunningOp' = Front' /\ Behind' = Tail(queue')
      BY <3>1, <3>5, FlightStatesNext
    <3>7. RunningOp = Front /\ Behind = Tail(queue)
      BY <1>1, <2>2, FlightStates
    <3>8. Front' = Front
      BY <1>3, <2>2, <3>1 DEF Front
    <3>9. Kept = Shifted(Len(Tail(queue)), Mine)
      <4>1. \A i \in 1..Len(Behind) : Behind[i] = queue[i + 1] /\ i + 1 \in 1..Len(queue)
        BY <1>3, <2>2, <3>7, TailProperties
      <4>2. \A i \in 1..Len(Behind) : Behind[i] \in Promise!Waiting
        BY DEF Promise!Waiting
      <4> QED
        BY <1>2, <3>7, <4>1, <4>2 DEF Shifted
    <3>10. 1 \in Mine /\ Mine \subseteq 1..Len(queue)
      BY <3>2, <3>3
    <3>11. \E g \in Listings(Len(Tail(queue)), Kept) :
             Tail(Append(Pick(queue, f), o)) = Append(Pick(Tail(queue), g), o)
      <4> HIDE DEF Mine, Kept
      <4>1. f \in Listings(Len(queue), Mine) /\ o \in Ops /\ queue \in Seq(Ops)
            /\ 1 \in Mine /\ Mine \subseteq 1..Len(queue)
        BY <1>3, <1>4, <3>10
      <4>2. \E g \in Listings(Len(Tail(queue)), Shifted(Len(Tail(queue)), Mine)) :
              Tail(Append(Pick(queue, f), o)) = Append(Pick(Tail(queue), g), o)
        BY <4>1, <2>2, PickBehind, Zenon
      <4> QED
        BY <3>9, <4>2, Zenon
    <3> HIDE DEF Mine, Kept
    <3> QED
      BY <1>4, <3>6, <3>7, <3>8, <3>11
  <2> QED
    BY <2>1, <2>2
<1> QED
  <2>1. \E h \in Promise!Listings(Len(Behind), {i \in 1..Len(Behind) : ~SameResource(Behind[i], o)}) :
          Behind' = Append(Promise!Pick(Behind, h), o)
    <3>1. \A n, K : Promise!Listings(n, K) = Listings(n, K)
      BY DEF Promise!Listings, Promise!Lists, Listings, Lists
    <3>2. \A q, h : Promise!Pick(q, h) = Pick(q, h)
      BY DEF Promise!Pick, Pick
    <3> QED
      BY <1>7, <3>1, <3>2
  <2>2. o \notin Promise!Waiting \cup {RunningOp} /\ status[o] = Promise!Unsettled
    BY <1>1, <1>5 DEF Promise!Unsettled
  <2>3. RunningOp' = RunningOp
    BY <1>7
  <2> HIDE DEF Mine, Kept
  <2> QED
    BY <1>6, <2>1, <2>2, <2>3 DEF Promise!Submit

\* Whoever settles the operation in flight settles the one the promise runs.
LEMMA PromiseSettle ==
  ASSUME IInv, IInv', queue # <<>>, NEW s \in Statuses, Finish(s)
  PROVE  /\ ~starting /\ s \in Promise!Verdicts => Promise!Settle
         /\ starting /\ (s = "rejected" \/ s = "invalid") => Promise!Refuse
<1>1. queue' = Tail(queue) /\ starting' = TRUE
      /\ status' = [status EXCEPT ![Front] = s]
  BY DEF Finish
<1>2. RunningOp' = NoOp /\ Behind' = Tail(queue)
  BY <1>1, FlightStatesNext
<1>3. Front \in Ops
  BY FrontNotNew
<1>4. ASSUME ~starting, s \in Promise!Verdicts PROVE Promise!Settle
  <2>1. RunningOp = Front /\ Behind = Tail(queue)
    BY <1>4, FlightStates
  <2>2. Front # NoOp
    BY <1>3, OpsAssumption
  <2> QED
    BY <1>1, <1>2, <1>4, <2>1, <2>2 DEF Promise!Settle
<1>5. ASSUME starting, s = "rejected" \/ s = "invalid" PROVE Promise!Refuse
  <2>1. RunningOp = NoOp /\ Behind = queue
    BY <1>5, FlightStates
  <2> QED
    BY <1>1, <1>2, <1>5, <2>1 DEF Promise!Refuse, Front
<1> QED
  BY <1>4, <1>5

LEMMA PromiseSame ==
  ASSUME UNCHANGED <<queue, phase, status>>
  PROVE  UNCHANGED Promise!vars
BY DEF Promise!vars, RunningOp, Behind, Running, Front

LEMMA PromiseStep ==
  ASSUME IInv, Unstarted, IInv', [Next]_vars
  PROVE  [Promise!Next]_(Promise!vars)
<1>1. ASSUME NEW o \in Ops, Submit(o) PROVE Promise!Next
  BY <1>1, PromiseSubmit DEF Promise!Next
<1>2. CASE TurnAway \/ RefuseInvalid
  <2>1. queue # <<>> /\ starting
        /\ \E s \in Statuses : (s = "rejected" \/ s = "invalid") /\ Finish(s)
    BY <1>2 DEF TurnAway, RefuseInvalid, FinishUnread, Statuses
  <2> QED
    BY <2>1, PromiseSettle DEF Promise!Next
<1>3. CASE StartFront
  <2>1. queue # <<>> /\ starting /\ queue' = queue /\ starting' = FALSE /\ status' = status
    BY <1>3 DEF StartFront, resultVars
  <2>2. RunningOp = NoOp /\ Behind = queue /\ RunningOp' = Front' /\ Behind' = Tail(queue')
    BY <2>1, FlightStates, FlightStatesNext
  <2>3. Front' = Head(queue)
    BY <2>1 DEF Front
  <2> QED
    BY <2>1, <2>2, <2>3 DEF Promise!Next, Promise!Begin
<1>4. CASE Watchdog
  <2>1. queue # <<>> /\ ~starting /\ Finish("timeout")
    BY <1>4 DEF Watchdog, Running, FinishUnread
  <2> QED
    BY <2>1, PromiseSettle DEF Promise!Next, Promise!Verdicts, Statuses
<1>5. CASE EndRun
  <2> DEFINE o == Head(wire).op
  <2>1. \/ UNCHANGED <<queue, phase, status>>
        \/ queue # <<>> /\ ~starting /\ Finish("rejected")
        \/ /\ queue # <<>> /\ Front = o /\ phase' = [phase EXCEPT ![o] = "CONFIRMING"]
           /\ UNCHANGED <<queue, starting, status>> /\ ~starting
    BY <1>5 DEF EndRun, Ends, InFlight, Running, FinishUnread, opVars, resultVars
  <2>2. CASE queue # <<>> /\ ~starting /\ Finish("rejected")
    BY <2>2, PromiseSettle DEF Promise!Next, Promise!Verdicts, Statuses
  <2>3. CASE /\ queue # <<>> /\ Front = o /\ phase' = [phase EXCEPT ![o] = "CONFIRMING"]
             /\ UNCHANGED <<queue, starting, status>> /\ ~starting
    <3>1. RunningOp = Front /\ Behind = Tail(queue) /\ RunningOp' = Front'
          /\ Behind' = Tail(queue')
      BY <2>3, FlightStates, FlightStatesNext
    <3> QED
      BY <2>3, <3>1 DEF Promise!vars, Front
  <2> QED
    BY <2>1, <2>2, <2>3, PromiseSame
<1>6. CASE EndConfirm
  <2> DEFINE o == Head(wire).op
  <2>1. PICK answered \in Answers :
          IF InFlight(o) THEN ConfirmWith(o, answered) ELSE RefreshWith(answered)
    BY <1>6 DEF EndConfirm
  <2>2. o \in Ops /\ Cmd(o) # "clock" /\ ~starting
    BY <1>6, WireHead DEF EndConfirm, Ends, IInv, TypeInv
  <2>3. \/ UNCHANGED <<queue, phase, status>>
        \/ queue # <<>> /\ Verdict(o, answered) # "retry" /\ Finish(Verdict(o, answered))
    BY <2>1 DEF ConfirmWith, Retry, RefreshWith, opVars, InFlight, Running
  <2>4. Verdict(o, answered) # "retry" => Verdict(o, answered) \in Promise!Verdicts
    <3>1. Cmd(o) = "enabled" \/ Cmd(o) = "mode" \/ Cmd(o) = "setpoint"
      BY <2>2, Constants DEF Cmd, Commands
    <3>2. CASE Cmd(o) = "enabled"
      BY <3>2 DEF Verdict, EnabledVerdict, Promise!Verdicts
    <3>3. CASE Cmd(o) = "mode"
      BY <3>3 DEF Verdict, ModeVerdict, Promise!Verdicts
    <3>4. CASE Cmd(o) = "setpoint"
      BY <3>4 DEF Verdict, SetpointVerdict, Promise!Verdicts
    <3> QED
      BY <3>1, <3>2, <3>3, <3>4
  <2>5. Promise!Verdicts \subseteq Statuses
    BY DEF Promise!Verdicts, Statuses
  <2>6. CASE UNCHANGED <<queue, phase, status>>
    BY <2>6, PromiseSame
  <2>7. CASE queue # <<>> /\ Verdict(o, answered) # "retry" /\ Finish(Verdict(o, answered))
    BY <2>2, <2>4, <2>5, <2>7, PromiseSettle DEF Promise!Next
  <2> QED
    BY <2>3, <2>6, <2>7
<1>7. CASE EndClockRead
  <2>1. \/ UNCHANGED <<queue, phase, status>>
        \/ queue # <<>> /\ ~starting /\ \E s \in {"accepted", "rejected", "timeout"} : Finish(s)
    BY <1>7
    DEF EndClockRead, Ends, FinishUnread, InFlight, Running, Retry, opVars, resultVars
  <2>2. \A s \in {"accepted", "rejected", "timeout"} : s \in Statuses /\ s \in Promise!Verdicts
    BY DEF Statuses, Promise!Verdicts
  <2>3. CASE UNCHANGED <<queue, phase, status>>
    BY <2>3, PromiseSame
  <2>4. CASE queue # <<>> /\ ~starting /\ \E s \in {"accepted", "rejected", "timeout"} : Finish(s)
    BY <2>2, <2>4, PromiseSettle DEF Promise!Next
  <2> QED
    BY <2>1, <2>3, <2>4
<1>8. CASE Disconnect
  <2>1. ~starting /\ starting' = FALSE /\ queue' = <<>>
    BY <1>8 DEF Disconnect, OnDisconnect
  <2>2. RunningOp' = NoOp /\ Behind' = <<>>
    BY <2>1, FlightStatesNext
  <2>3. \A o \in Ops : /\ o = RunningOp <=> queue # <<>> /\ o = Front
                       /\ o \in Queued => o = RunningOp \/ o \in Promise!Waiting
                       /\ o \in Promise!Waiting => o \in Queued
    <3>1. CASE queue = <<>>
      <4>1. RunningOp = NoOp /\ Behind = queue
        BY <3>1, FlightStates
      <4> QED
        BY <3>1, <4>1, OpsAssumption DEF Queued, Promise!Waiting
    <3>2. CASE queue # <<>>
      <4>1. RunningOp = Front /\ Behind = Tail(queue)
        BY <2>1, <3>2, FlightStates
      <4>2. /\ Front = queue[1]
            /\ \A i \in 1..Len(Behind) : Behind[i] = queue[i + 1] /\ i + 1 \in 1..Len(queue)
            /\ \A i \in 1..Len(queue) : i # 1 =>
                 i - 1 \in 1..Len(Behind) /\ Behind[i - 1] = queue[i]
        BY <3>2, <4>1, TailProperties DEF Front, IInv, TypeInv, Typed, OpTypes
      <4>3. ASSUME NEW o \in Ops, o \in Queued PROVE o = Front \/ o \in Promise!Waiting
        BY <4>2, <4>3 DEF Queued, Promise!Waiting
      <4>4. ASSUME NEW o \in Ops, o \in Promise!Waiting PROVE o \in Queued
        BY <4>2, <4>4 DEF Queued, Promise!Waiting
      <4> QED
        BY <3>2, <4>1, <4>3, <4>4
    <3> QED
      BY <3>1, <3>2
  <2>4. status' = [o \in Ops |-> IF o \notin Queued THEN status[o]
                                 ELSE IF o = Front THEN "timeout" ELSE "rejected"]
    BY <1>8 DEF Disconnect, OnDisconnect
  <2>5. queue # <<>> => Front \in Queued
    <3> SUFFICES ASSUME queue # <<>> PROVE Front \in Queued
      OBVIOUS
    <3>1. Front = queue[1] /\ 1 \in 1..Len(queue)
      BY TailProperties DEF Front, IInv, TypeInv, Typed, OpTypes
    <3> QED
      BY <3>1 DEF Queued
  <2>6. \A o \in Ops : o \in Queued => queue # <<>>
    BY DEF Queued
  <2>7. status' = [o \in Ops |-> IF o = RunningOp THEN "timeout"
                                 ELSE IF o \in Promise!Waiting THEN "rejected" ELSE status[o]]
    BY <2>3, <2>4, <2>5, <2>6
  <2> QED
    BY <2>2, <2>7 DEF Promise!Next, Promise!Drop
<1>9. CASE NothingToStart
  <2>1. queue = <<>> /\ UNCHANGED <<queue, phase, status>>
    BY <1>9 DEF NothingToStart, resultVars
  <2> QED
    BY <2>1, PromiseSame
<1>10. CASE EndMode \/ EndControl \/ EndClock \/ EndPoll \/ ConfirmDue
            \/ EndSync \/ EndConfig \/ PollDue \/ StartChain \/ Rearm \/ SyncDue
            \/ Connect \/ Panel \/ UNCHANGED vars
  BY <1>10, PromiseSame
  DEF EndMode, EndControl, EndClock, EndPoll, ConfirmDue, EndSync, EndConfig,
      PollDue, StartChain, Rearm, SyncDue, Connect, Panel, vars, opVars, resultVars
<1> QED
  BY <1>1, <1>2, <1>3, <1>4, <1>5, <1>6, <1>7, <1>8, <1>9, <1>10 DEF Next

\* The service implements WritePromise: every step of it settles, begins,
\* refuses or drops operations the way the promise allows, or is invisible.
THEOREM ServiceKeepsPromise == Spec => KeepsPromise
<1>1. Init => Unstarted
  BY DEF Init, Unstarted
<1>2. IInv /\ Unstarted /\ [Next]_vars => Unstarted'
  BY UnstartedStep
<1>3. Spec => []Unstarted
  BY <1>1, <1>2, IInvAlways, PTL DEF Spec
<1>4. Init => Promise!Init
  <2> SUFFICES ASSUME Init PROVE Promise!Init
    OBVIOUS
  <2>1. ~Running /\ queue = <<>>
    BY DEF Init, Running
  <2> QED
    BY <2>1 DEF Init, Promise!Init, Promise!Unsettled, RunningOp, Behind
<1>5. IInv /\ Unstarted /\ IInv' /\ [Next]_vars => [Promise!Next]_(Promise!vars)
  BY PromiseStep
<1> QED
  BY <1>3, <1>4, <1>5, IInvAlways, PTL DEF Spec, KeepsPromise, Promise!Spec

-----------------------------------------------------------------------------
(* The verdicts.                                                            *)

\* What a step does to the operations: one is submitted, all are dropped, the
\* front is started or settled, or the queue stays and at most the phase of the
\* operation in flight advances.
LEMMA OpSteps ==
  ASSUME IInv, [Next]_vars
  PROVE  \/ \E o \in Ops : Submit(o)
         \/ Disconnect
         \/ StartFront
         \/ queue # <<>> /\ \E s \in Statuses : Finish(s)
         \/ /\ UNCHANGED <<queue, status, cut_short>>
            /\ \/ UNCHANGED <<phase, starting>>
               \/ UNCHANGED phase /\ NothingToStart
               \/ /\ EndRun /\ InFlight(Head(wire).op) /\ UNCHANGED starting
                  /\ phase' = [phase EXCEPT ![Front] = "CONFIRMING"]
<1>1. CASE TurnAway \/ RefuseInvalid \/ Watchdog
  BY <1>1 DEF TurnAway, RefuseInvalid, Watchdog, FinishUnread, Running, Statuses
<1>2. CASE EndRun
  BY <1>2 DEF EndRun, InFlight, Running, FinishUnread, opVars, resultVars, Statuses
<1>3. CASE EndConfirm
  <2> DEFINE o == Head(wire).op
  <2>1. PICK answered \in Answers :
          IF InFlight(o) THEN ConfirmWith(o, answered) ELSE RefreshWith(answered)
    BY <1>3 DEF EndConfirm
  <2>2. o \in Ops /\ Cmd(o) # "clock" /\ answered \in BOOLEAN
    BY <1>3, WireHead DEF EndConfirm, Ends, IInv, TypeInv, Answers
  <2>3. \/ UNCHANGED <<queue, status, cut_short, phase, starting>>
        \/ queue # <<>> /\ Verdict(o, answered) # "retry" /\ Finish(Verdict(o, answered))
    BY <2>1 DEF ConfirmWith, Retry, RefreshWith, opVars, InFlight, Running
  <2> QED
    BY <2>2, <2>3, VerdictTyped
<1>4. CASE EndClockRead
  BY <1>4
  DEF EndClockRead, FinishUnread, InFlight, Running, Statuses, Retry, opVars, resultVars
<1>5. CASE EndMode \/ EndControl \/ EndClock \/ EndPoll \/ ConfirmDue
           \/ EndSync \/ EndConfig \/ PollDue \/ StartChain \/ Rearm \/ SyncDue
           \/ Connect \/ Panel \/ UNCHANGED vars
  BY <1>5
  DEF EndMode, EndControl, EndClock, EndPoll, ConfirmDue, EndSync, EndConfig,
      PollDue, StartChain, Rearm, SyncDue, Connect, Panel, vars, opVars, resultVars
<1>6. CASE NothingToStart
  BY <1>6 DEF NothingToStart, resultVars
<1> QED
  BY <1>1, <1>2, <1>3, <1>4, <1>5, <1>6 DEF Next

\* The operation in flight after a step was so before, or start_front_() has
\* just begun it.
LEMMA FlightMoves ==
  ASSUME IInv, IInv', [Next]_vars, Running'
  PROVE  /\ Front' = Front /\ Front \in Ops /\ queue # <<>>
         /\ Running \/ (StartFront /\ ~Running)
<1>0. queue # <<>> => Front \in Ops
  BY FrontNotNew
<1>1. ~starting' /\ queue' # <<>>
  BY FlightStatesNext DEF Running
<1>2. ASSUME NEW o \in Ops, Submit(o)
      PROVE  Front' = Front /\ Running /\ queue # <<>>
  <2>1. ~starting
    BY <1>2 DEF Submit
  <2>2. queue # <<>>
    <3> SUFFICES ASSUME queue = <<>> PROVE FALSE
      OBVIOUS
    <3>1. Head(queue') = o /\ phase'[o] = "QUEUED"
      BY <1>2, SubmitQueue DEF IInv
    <3> QED
      BY <1>1, <1>2, <3>1 DEF Submit
  <2>3. Head(queue') = queue[1] /\ Front = queue[1]
    BY <1>2, <2>2, SubmitQueue, TailProperties DEF IInv, TypeInv, Typed, OpTypes, Front
  <2> QED
    BY <2>1, <2>2, <2>3, FlightStates DEF Front
<1>3. CASE Disconnect
  BY <1>1, <1>3 DEF Disconnect, OnDisconnect
<1>4. CASE StartFront
  BY <1>0, <1>4, FlightStates DEF StartFront, Front
<1>5. CASE queue # <<>> /\ \E s \in Statuses : Finish(s)
  BY <1>1, <1>5 DEF Finish
<1>6. CASE UNCHANGED <<queue, starting>>
  BY <1>0, <1>1, <1>6, FlightStates DEF Front
<1>7. CASE UNCHANGED queue /\ NothingToStart
  BY <1>1, <1>7 DEF NothingToStart
<1> QED
  BY <1>0, <1>2, <1>3, <1>4, <1>5, <1>6, <1>7, OpSteps

\* In terms of the operation running: it stays, ends, or start_front_() begins it.
LEMMA RunningMoves ==
  ASSUME IInv, IInv', [Next]_vars
  PROVE  RunningOp' = RunningOp \/ RunningOp' = NoOp \/ (StartFront /\ RunningOp' = Front)
<1>1. CASE ~Running'
  BY <1>1 DEF RunningOp
<1>2. CASE Running'
  BY <1>2, FlightMoves DEF RunningOp
<1> QED
  BY <1>1, <1>2

\* A submission leaves the operation in flight alone.
LEMMA FlightStays ==
  ASSUME IInv, IInv', NEW o \in Ops, Submit(o)
  PROVE  /\ RunningOp' = RunningOp
         /\ Running => phase'[Front] = phase[Front]
<1>1. CASE Running
  <2>1. queue # <<>> /\ Front \in Ops /\ phase[Front] # "new" /\ phase[Front] # "QUEUED"
    BY <1>1, FrontNotNew, Flight DEF IInv, Running
  <2>2. Head(queue') = Front
    BY <2>1, SubmitQueue, TailProperties DEF IInv, TypeInv, Typed, OpTypes, Front
  <2>3. phase'[Front] = phase[Front]
    BY <2>1, SubmitQueue DEF IInv, Submit, Superseded, Supersedes
  <2>4. ~starting' /\ queue' # <<>>
    <3>1. starting' = (phase'[Head(queue')] = "QUEUED")
      BY DEF Submit
    <3>2. ~starting'
      BY <2>1, <2>2, <2>3, <3>1
    <3>3. Len(queue') >= 1
      BY SubmitQueue DEF IInv
    <3>4. queue' # <<>>
      BY <3>3
    <3> QED
      BY <3>2, <3>4
  <2>5. RunningOp' = Front'
    BY <2>4, FlightStatesNext
  <2> QED
    BY <1>1, <2>2, <2>3, <2>5 DEF RunningOp, Front
<1>2. CASE ~Running
  <2>1. ~StartFront /\ [Next]_vars
    BY DEF Submit, StartFront, Next
  <2> QED
    BY <1>2, <2>1, RunningMoves DEF RunningOp
<1> QED
  BY <1>1, <1>2

\* An operation once begun is never waiting again, and what was cut short
\* stays so.
Waits(o) == phase[o] = "new" \/ phase[o] = "QUEUED"

LEMMA PhasesAdvance ==
  ASSUME IInv, [Next]_vars
  PROVE  /\ \A o \in Ops : ~Waits(o) => phase'[o] # "new" /\ phase'[o] # "QUEUED"
         /\ cut_short \subseteq cut_short'
<1>1. phase \in [Ops -> Phases]
  BY DEF IInv, TypeInv, Typed, OpTypes
<1>2. ASSUME NEW o \in Ops, Submit(o)
      PROVE  /\ \A q \in Ops : ~Waits(q) => phase'[q] # "new" /\ phase'[q] # "QUEUED"
             /\ cut_short \subseteq cut_short'
  <2>1. phase[o] = "new" /\ UNCHANGED cut_short
    BY <1>2 DEF Submit
  <2>2. \A q \in Ops : phase'[q] = IF q = o THEN "QUEUED"
                                    ELSE IF q \in Superseded(o) THEN "DONE" ELSE phase[q]
    BY <1>2, SubmitQueue DEF IInv
  <2> QED
    BY <2>1, <2>2 DEF Waits
<1>3. CASE Disconnect
  BY <1>3 DEF Disconnect, OnDisconnect, Waits
<1>4. CASE StartFront
  <2>1. \/ phase' = [phase EXCEPT ![Front] = "WRITING"]
        \/ phase' = [phase EXCEPT ![Front] = "CONFIRMING"]
    BY <1>4 DEF StartFront, RunSetEnabled, RunSetMode, RunSetClock, RunSetSetpoint
  <2>2. UNCHANGED cut_short
    BY <1>4 DEF StartFront, resultVars
  <2> QED
    BY <1>1, <2>1, <2>2 DEF Waits
<1>5. ASSUME NEW s \in Statuses, Finish(s)
      PROVE  /\ \A o \in Ops : ~Waits(o) => phase'[o] # "new" /\ phase'[o] # "QUEUED"
             /\ cut_short \subseteq cut_short'
  BY <1>1, <1>5 DEF Finish, Waits
<1>6. CASE /\ UNCHANGED cut_short
           /\ UNCHANGED phase \/ phase' = [phase EXCEPT ![Front] = "CONFIRMING"]
  BY <1>1, <1>6 DEF Waits
<1> QED
  BY <1>2, <1>3, <1>4, <1>5, <1>6, OpSteps

-----------------------------------------------------------------------------
(* The commands at the transport.                                           *)

\* The commands that carry a write to the pump, as FrameQueued counts them.
Frames == {"run", "mode", "control"}

\* A command is of an operation that has begun and of the kind its service
\* sends; a frame belongs to the operation in flight unless that one was given
\* up, and a START or STOP on its way is not yet being confirmed.
Fits(c) ==
  /\ c.op \in Ops => ~Waits(c.op)
  /\ c.kind \in Frames \cup {"clock_read"} => c.op \in Ops
  /\ c.kind = "run" => Cmd(c.op) = "enabled"
  /\ c.kind = "mode" => Cmd(c.op) = "mode"
  /\ c.kind = "control" => Cmd(c.op) = "setpoint"
  /\ c.kind = "clock_read" => Cmd(c.op) = "clock"
  /\ c.kind \in Frames => c.op = RunningOp \/ c.op \in cut_short
  /\ c.kind = "run" /\ c.op = RunningOp => phase[c.op] = "WRITING"

\* Each operation has one frame, and it goes before its confirm reads.
OneFrame ==
  \A i, j \in 1..Len(wire) :
    wire[i].op = wire[j].op /\ wire[i].kind \in Frames =>
      /\ wire[j].kind \in Frames => i = j
      /\ wire[j].kind = "confirm" => i < j

FramesInv == OneFrame /\ \A i \in 1..Len(wire) : Fits(wire[i])

\* The commands after a step: the first d have left, and c may have joined.
Shrunk(d) == \A i \in 1..Len(wire') : i + d \in 1..Len(wire) /\ wire'[i] = wire[i + d]
Grown(d, c) ==
  \A i \in 1..Len(wire') :
    \/ i + d \in 1..Len(wire) /\ wire'[i] = wire[i + d]
    \/ i + d = Len(wire) + 1 /\ wire'[i] = c

LEMMA WireMoves ==
  ASSUME IInv
  PROVE  /\ UNCHANGED wire \/ wire' = <<>> => Shrunk(0)
         /\ wire # <<>> /\ wire' = Tail(wire) => Shrunk(1)
         /\ \A k \in Kinds, o \in Ops \cup {NoOp}, on \in BOOLEAN :
              /\ wire' = Append(wire, Command(k, o, on)) => Grown(0, Command(k, o, on))
              /\ wire # <<>> /\ wire' = Append(Tail(wire), Command(k, o, on)) =>
                   Grown(1, Command(k, o, on))
<1> DEFINE R == [kind : Kinds, op : Ops \cup {NoOp}, on : BOOLEAN]
<1>1. wire \in Seq(R) /\ Len(wire) \in Nat
  BY DEF IInv, TypeInv, Typed, WireTypes
<1>2. \A k \in Kinds, o \in Ops \cup {NoOp}, on \in BOOLEAN : Command(k, o, on) \in R
  BY DEF Command
<1> HIDE DEF R
<1>3. UNCHANGED wire \/ wire' = <<>> => Shrunk(0)
  BY <1>1 DEF Shrunk
<1>4. wire # <<>> => /\ Tail(wire) \in Seq(R) /\ Len(Tail(wire)) = Len(wire) - 1
                     /\ \A i \in 1..Len(Tail(wire)) :
                          Tail(wire)[i] = wire[i + 1] /\ i + 1 \in 1..Len(wire)
  BY <1>1, TailProperties
<1>5. wire # <<>> /\ wire' = Tail(wire) => Shrunk(1)
  BY <1>4 DEF Shrunk
<1>6. ASSUME NEW c \in R, NEW s \in Seq(R), wire' = Append(s, c)
      PROVE  \A i \in 1..Len(wire') :
               \/ i \in 1..Len(s) /\ wire'[i] = s[i]
               \/ i = Len(s) + 1 /\ wire'[i] = c
  <2>1. /\ Len(s) \in Nat /\ Len(wire') = Len(s) + 1
        /\ \A i \in 1..Len(s) : wire'[i] = s[i]
        /\ wire'[Len(s) + 1] = c
    BY <1>6, AppendFacts
  <2> QED
    BY <2>1
<1>7. ASSUME NEW c \in R, wire' = Append(wire, c) PROVE Grown(0, c)
  <2>1. \A i \in 1..Len(wire') : i + 0 = i
    OBVIOUS
  <2> QED
    BY <1>1, <1>6, <1>7, <2>1 DEF Grown
<1>8. ASSUME NEW c \in R, wire # <<>>, wire' = Append(Tail(wire), c) PROVE Grown(1, c)
  <2>1. \A i \in 1..Len(wire') :
          \/ i \in 1..Len(Tail(wire)) /\ wire'[i] = Tail(wire)[i]
          \/ i = Len(Tail(wire)) + 1 /\ wire'[i] = c
    BY <1>4, <1>6, <1>8
  <2>2. Len(Tail(wire)) + 1 + 1 = Len(wire) + 1
    BY <1>1, <1>4, <1>8
  <2> QED
    BY <1>4, <1>8, <2>1, <2>2 DEF Grown
<1> QED
  BY <1>2, <1>3, <1>5, <1>7, <1>8

\* No command of an operation joined: those that did are the component's own.
Kept(d) ==
  \A i \in 1..Len(wire') :
    \/ i + d \in 1..Len(wire) /\ wire'[i] = wire[i + d]
    \/ wire'[i] \in {Poll, Sync, Config}

LEMMA WireKept ==
  ASSUME IInv
  PROVE  /\ UNCHANGED wire \/ wire' = <<>> => Kept(0)
         /\ \A c \in {Poll, Sync, Config} : wire' = Append(wire, c) => Kept(0)
         /\ wire # <<>> /\ wire' = Tail(wire) => Kept(1)
         /\ wire # <<>> /\ wire' = Append(Tail(wire), Config) => Kept(1)
<1>1. \A c \in {Poll, Sync, Config} :
        \E k \in Kinds, o \in Ops \cup {NoOp}, on \in BOOLEAN : c = Command(k, o, on)
  BY DEF Poll, Sync, Config, Kinds
<1>2. \A d \in {0, 1} : Shrunk(d) => Kept(d)
  BY DEF Shrunk, Kept
<1>3. \A d \in {0, 1}, c \in {Poll, Sync, Config} : Grown(d, c) => Kept(d)
  BY DEF Grown, Kept
<1>4. UNCHANGED wire \/ wire' = <<>> => Kept(0)
  <2>1. UNCHANGED wire \/ wire' = <<>> => Shrunk(0)
    BY WireMoves
  <2> QED
    BY <1>2, <2>1
<1>5. wire # <<>> /\ wire' = Tail(wire) => Kept(1)
  <2>1. wire # <<>> /\ wire' = Tail(wire) => Shrunk(1)
    BY WireMoves
  <2> QED
    BY <1>2, <2>1
<1>6. ASSUME NEW c \in {Poll, Sync, Config}
      PROVE  /\ wire' = Append(wire, c) => Grown(0, c)
             /\ wire # <<>> /\ wire' = Append(Tail(wire), c) => Grown(1, c)
  <2>1. PICK k \in Kinds, o \in Ops \cup {NoOp}, on \in BOOLEAN : c = Command(k, o, on)
    BY <1>1
  <2> QED
    BY <2>1, WireMoves
<1> QED
  BY <1>3, <1>4, <1>5, <1>6

\* The next state's rules, in terms of its variables.
LEMMA FramesInvNext ==
  ASSUME \A i \in 1..Len(wire') :
           LET c == wire'[i] IN
           /\ c.op \in Ops => phase'[c.op] # "new" /\ phase'[c.op] # "QUEUED"
           /\ c.kind \in Frames \cup {"clock_read"} => c.op \in Ops
           /\ c.kind = "run" => Cmd(c.op) = "enabled"
           /\ c.kind = "mode" => Cmd(c.op) = "mode"
           /\ c.kind = "control" => Cmd(c.op) = "setpoint"
           /\ c.kind = "clock_read" => Cmd(c.op) = "clock"
           /\ c.kind \in Frames => c.op = RunningOp' \/ c.op \in cut_short'
           /\ c.kind = "run" /\ c.op = RunningOp' => phase'[c.op] = "WRITING",
         \A i, j \in 1..Len(wire') :
           wire'[i].op = wire'[j].op /\ wire'[i].kind \in Frames =>
             /\ wire'[j].kind \in Frames => i = j
             /\ wire'[j].kind = "confirm" => i < j
  PROVE  FramesInv'
BY DEF FramesInv, OneFrame, Fits, Waits, Cmd, Frames

\* A step that adds no command of an operation keeps the rules, if the frames
\* that stay still have their owner.
LEMMA FramesKept ==
  ASSUME IInv, FramesInv, [Next]_vars, NEW d \in {0, 1}, Kept(d),
         \A i \in 1..Len(wire) :
           i > d /\ wire[i].kind \in Frames /\ wire[i].op = RunningOp =>
             wire[i].op = RunningOp' \/ wire[i].op \in cut_short',
         \A i \in 1..Len(wire) :
           i > d /\ wire[i].kind = "run" /\ wire[i].op = RunningOp' =>
             phase'[wire[i].op] = "WRITING"
  PROVE  FramesInv'
<1>1. Len(wire) \in Nat
  BY DEF IInv, TypeInv, Typed, WireTypes
<1>2. \A c \in {Poll, Sync, Config} :
        c.op \notin Ops /\ c.kind \notin Frames \cup {"clock_read", "confirm"}
  BY OpsAssumption DEF Poll, Sync, Config, Command, Frames
<1>3. "run" \in Frames /\ "mode" \in Frames /\ "control" \in Frames
  BY DEF Frames
<1>4. ASSUME NEW i \in 1..Len(wire'), wire'[i] \notin {Poll, Sync, Config}
      PROVE  i + d \in 1..Len(wire) /\ wire'[i] = wire[i + d] /\ i + d > d
  BY <1>1, <1>4 DEF Kept
<1>5. ASSUME NEW i \in 1..Len(wire')
      PROVE  LET c == wire'[i] IN
             /\ c.op \in Ops => phase'[c.op] # "new" /\ phase'[c.op] # "QUEUED"
             /\ c.kind \in Frames \cup {"clock_read"} => c.op \in Ops
             /\ c.kind = "run" => Cmd(c.op) = "enabled"
             /\ c.kind = "mode" => Cmd(c.op) = "mode"
             /\ c.kind = "control" => Cmd(c.op) = "setpoint"
             /\ c.kind = "clock_read" => Cmd(c.op) = "clock"
             /\ c.kind \in Frames => c.op = RunningOp' \/ c.op \in cut_short'
             /\ c.kind = "run" /\ c.op = RunningOp' => phase'[c.op] = "WRITING"
  <2>1. CASE wire'[i] \in {Poll, Sync, Config}
    BY <1>2, <1>3, <2>1
  <2>2. CASE wire'[i] \notin {Poll, Sync, Config}
    <3>1. PICK k \in 1..Len(wire) : k > d /\ wire'[i] = wire[k]
      BY <1>4, <2>2
    <3>2. Fits(wire[k])
      BY <3>1 DEF FramesInv
    <3>3. wire[k].op \in Ops => phase'[wire[k].op] # "new" /\ phase'[wire[k].op] # "QUEUED"
      BY <3>2, PhasesAdvance DEF Fits
    <3>4. wire[k].kind \in Frames => wire[k].op = RunningOp' \/ wire[k].op \in cut_short'
      BY <3>1, <3>2, PhasesAdvance DEF Fits
    <3>5. wire[k].kind = "run" /\ wire[k].op = RunningOp' => phase'[wire[k].op] = "WRITING"
      BY <3>1
    <3> QED
      BY <3>1, <3>2, <3>3, <3>4, <3>5 DEF Fits
  <2> QED
    BY <2>1, <2>2
<1>6. ASSUME NEW i \in 1..Len(wire'), NEW j \in 1..Len(wire'),
             wire'[i].op = wire'[j].op, wire'[i].kind \in Frames
      PROVE  /\ wire'[j].kind \in Frames => i = j
             /\ wire'[j].kind = "confirm" => i < j
  <2>1. CASE wire'[j] \in {Poll, Sync, Config}
    BY <1>2, <2>1
  <2>2. CASE wire'[j] \notin {Poll, Sync, Config}
    <3>1. wire'[i] \notin {Poll, Sync, Config}
      BY <1>2, <1>6
    <3>2. /\ i + d \in 1..Len(wire) /\ wire'[i] = wire[i + d]
          /\ j + d \in 1..Len(wire) /\ wire'[j] = wire[j + d]
      BY <1>4, <2>2, <3>1
    <3>3. /\ wire'[j].kind \in Frames => i + d = j + d
          /\ wire'[j].kind = "confirm" => i + d < j + d
      BY <1>6, <3>2 DEF FramesInv, OneFrame
    <3>4. i \in Nat /\ j \in Nat /\ d \in Nat
      OBVIOUS
    <3> QED
      BY <3>3, <3>4
  <2> QED
    BY <2>1, <2>2
<1> QED
  BY <1>5, <1>6, FramesInvNext

\* A command of the front joins the wire.
LEMMA FramesAdded ==
  ASSUME IInv, FramesInv, [Next]_vars, queue # <<>>, NEW k \in Kinds, NEW on \in BOOLEAN,
         wire' = Append(wire, Command(k, Front, on)),
         RunningOp \in {NoOp, Front}, RunningOp' = Front,
         phase'[Front] # "new", phase'[Front] # "QUEUED",
         k = "run" => Cmd(Front) = "enabled" /\ phase'[Front] = "WRITING",
         k = "mode" => Cmd(Front) = "mode",
         k = "control" => Cmd(Front) = "setpoint",
         k = "clock_read" => Cmd(Front) = "clock",
         k \in Frames => Waits(Front),
         Waits(Front) \/ UNCHANGED phase
  PROVE  FramesInv'
<1> DEFINE R == [kind : Kinds, op : Ops \cup {NoOp}, on : BOOLEAN]
           c == Command(k, Front, on)
           n == Len(wire)
<1>1. Front \in Ops /\ wire \in Seq(R) /\ c.kind = k /\ c.op = Front /\ c \in R
  BY FrontNotNew DEF IInv, TypeInv, Typed, WireTypes, Command
<1> HIDE DEF R, c
<1>2. /\ n \in Nat /\ Len(wire') = n + 1 /\ wire'[n + 1] = c
      /\ \A i \in 1..n : wire'[i] = wire[i]
  BY <1>1, AppendFacts DEF c
<1> HIDE DEF n
<1>3. \A i \in 1..n : Fits(wire[i])
  BY DEF FramesInv, n
<1>4. \A i \in 1..Len(wire') : i \in 1..n \/ i = n + 1
  BY <1>2
<1>5. Waits(Front) => \A i \in 1..n : wire[i].op # Front
  BY <1>1, <1>3 DEF Fits
<1>6. ASSUME NEW i \in 1..n, wire[i].kind = "run", wire[i].op = Front
      PROVE  phase'[Front] = "WRITING"
  <2>1. ~Waits(Front) /\ UNCHANGED phase
    BY <1>1, <1>3, <1>5, <1>6
  <2>2. Front = RunningOp
    BY <2>1, FlightStates, FrontNotNew DEF Waits, Running, RunningOp
  <2>3. phase[Front] = "WRITING"
    BY <1>3, <1>6, <2>2 DEF Fits
  <2> QED
    BY <2>1, <2>3
<1>7. ASSUME NEW i \in 1..Len(wire')
      PROVE  LET e == wire'[i] IN
             /\ e.op \in Ops => phase'[e.op] # "new" /\ phase'[e.op] # "QUEUED"
             /\ e.kind \in Frames \cup {"clock_read"} => e.op \in Ops
             /\ e.kind = "run" => Cmd(e.op) = "enabled"
             /\ e.kind = "mode" => Cmd(e.op) = "mode"
             /\ e.kind = "control" => Cmd(e.op) = "setpoint"
             /\ e.kind = "clock_read" => Cmd(e.op) = "clock"
             /\ e.kind \in Frames => e.op = RunningOp' \/ e.op \in cut_short'
             /\ e.kind = "run" /\ e.op = RunningOp' => phase'[e.op] = "WRITING"
  <2>1. CASE i \in 1..n
    <3>1. wire'[i] = wire[i] /\ Fits(wire[i])
      BY <1>2, <1>3, <2>1
    <3>2. wire[i].op \in Ops => phase'[wire[i].op] # "new" /\ phase'[wire[i].op] # "QUEUED"
      BY <3>1, PhasesAdvance DEF Fits
    <3>3. wire[i].kind \in Frames => wire[i].op = RunningOp' \/ wire[i].op \in cut_short'
      BY <1>1, <3>1, PhasesAdvance, OpsAssumption DEF Fits
    <3>4. wire[i].kind = "run" /\ wire[i].op = RunningOp' => phase'[wire[i].op] = "WRITING"
      BY <1>6, <2>1
    <3> QED
      BY <3>1, <3>2, <3>3, <3>4 DEF Fits
  <2>2. CASE i = n + 1
    BY <1>1, <1>2, <2>2
  <2> QED
    BY <1>4, <2>1, <2>2
<1>8. ASSUME NEW i \in 1..Len(wire'), NEW j \in 1..Len(wire'),
             wire'[i].op = wire'[j].op, wire'[i].kind \in Frames
      PROVE  /\ wire'[j].kind \in Frames => i = j
             /\ wire'[j].kind = "confirm" => i < j
  <2>1. CASE i \in 1..n /\ j \in 1..n
    BY <1>2, <1>8, <2>1 DEF FramesInv, OneFrame, n
  <2>2. CASE i \in 1..n /\ j = n + 1
    <3>1. k \notin Frames
      BY <1>1, <1>2, <1>5, <1>8, <2>2
    <3> QED
      BY <1>1, <1>2, <2>2, <3>1
  <2>3. CASE i = n + 1 /\ j \in 1..n
    BY <1>1, <1>2, <1>5, <1>8, <2>3
  <2>4. CASE i = n + 1 /\ j = n + 1
    BY <1>1, <1>2, <1>8, <2>4 DEF Frames
  <2> QED
    BY <1>4, <2>1, <2>2, <2>3, <2>4
<1> QED
  BY <1>7, <1>8, FramesInvNext

\* The answer to a clock read is for a clock operation.
LEMMA EndsFits ==
  ASSUME IInv, FramesInv, wire # <<>>
  PROVE  /\ Head(wire) = wire[1] /\ 1 \in 1..Len(wire) /\ Len(wire) \in Nat
         /\ Fits(Head(wire))
BY TailProperties DEF IInv, TypeInv, Typed, WireTypes, FramesInv

\* When the operation in flight settles, its frame has left the wire, or it is
\* counted as cut short.
LEMMA FramesSettle ==
  ASSUME IInv, IInv', FramesInv, [Next]_vars, NEW d \in {0, 1}, Kept(d),
         queue # <<>>, NEW s \in Statuses, Finish(s),
         ~starting => \A i \in 1..Len(wire) :
                        i > d /\ wire[i].kind \in Frames /\ wire[i].op = Front => s = "timeout"
  PROVE  FramesInv'
<1>1. Front \in Ops /\ RunningOp' = NoOp /\ NoOp \notin Ops
  BY FrontNotNew, FlightStatesNext, OpsAssumption DEF Finish
<1>2. ASSUME NEW i \in 1..Len(wire), i > d, wire[i].kind \in Frames, wire[i].op = RunningOp
      PROVE  wire[i].op \in cut_short'
  <2>1. wire[i].op \in Ops
    BY <1>2 DEF FramesInv, Fits
  <2>2. ~starting /\ RunningOp = Front
    BY <1>1, <1>2, <2>1, FlightStates
  <2>3. s = "timeout"
    BY <1>2, <2>2
  <2>4. FrameQueued(Front)
    BY <1>2, <2>2 DEF FrameQueued, Frames
  <2> QED
    BY <1>2, <2>2, <2>3, <2>4 DEF Finish
<1>3. ASSUME NEW i \in 1..Len(wire), wire[i].kind = "run", wire[i].op = RunningOp'
      PROVE  FALSE
  BY <1>1, <1>3 DEF FramesInv, Fits, Frames
<1> QED
  BY <1>2, <1>3, FramesKept

LEMMA FramesStartFront ==
  ASSUME IInv, IInv', FramesInv, StartFront
  PROVE  FramesInv'
<1>1. queue # <<>> /\ starting /\ ~starting' /\ UNCHANGED queue /\ [Next]_vars
  BY DEF StartFront, Next
<1>2. RunningOp = NoOp /\ RunningOp' = Front /\ Front \in Ops
  BY <1>1, FlightStates, FlightStatesNext, FrontNotNew DEF Front
<1>3. Waits(Front)
  BY <1>1, FlightStates DEF Running, Waits
<1>4. phase \in [Ops -> Phases] /\ pump_enabled \in BOOLEAN
  BY DEF IInv, TypeInv, Typed, OpTypes, ControlTypes
<1>5. CASE RunSetEnabled
  <2>1. phase'[Front] = "WRITING" /\ Request[Front].on \in BOOLEAN
    BY <1>2, <1>4, <1>5, Constants DEF RunSetEnabled
  <2> QED
    BY <1>1, <1>2, <1>3, <1>5, <2>1, FramesAdded DEF RunSetEnabled, Kinds, Frames
<1>6. CASE RunSetMode
  <2>1. phase'[Front] = "CONFIRMING"
    BY <1>2, <1>4, <1>6 DEF RunSetMode
  <2> QED
    BY <1>1, <1>2, <1>3, <1>6, <2>1, FramesAdded DEF RunSetMode, Kinds, Frames
<1>7. CASE RunSetClock
  <2>1. phase'[Front] = "CONFIRMING"
    BY <1>2, <1>4, <1>7 DEF RunSetClock
  <2> QED
    BY <1>1, <1>2, <1>3, <1>7, <2>1, FramesAdded DEF RunSetClock, Kinds, Frames
<1>8. CASE RunSetSetpoint
  <2>1. phase'[Front] = "CONFIRMING"
    BY <1>2, <1>4, <1>8 DEF RunSetSetpoint
  <2> QED
    BY <1>1, <1>2, <1>3, <1>4, <1>8, <2>1, FramesAdded DEF RunSetSetpoint, Kinds, Frames
<1> QED
  BY <1>5, <1>6, <1>7, <1>8 DEF StartFront

LEMMA FramesStep ==
  ASSUME IInv, IInv', FramesInv, [Next]_vars
  PROVE  FramesInv'
<1>1. ASSUME NEW d \in {0, 1}, Kept(d), UNCHANGED <<queue, phase>>
      PROVE  FramesInv'
  <2>1. RunningOp' = RunningOp
    BY <1>1 DEF RunningOp, Running, Front
  <2>2. \A i \in 1..Len(wire) :
          wire[i].kind = "run" /\ wire[i].op = RunningOp' => phase'[wire[i].op] = "WRITING"
    BY <1>1, <2>1 DEF FramesInv, Fits
  <2> QED
    BY <1>1, <2>1, <2>2, FramesKept
<1>2. ASSUME NEW o \in Ops, Submit(o) PROVE FramesInv'
  <2>1. Kept(0)
    BY <1>2, WireKept DEF Submit
  <2>2. RunningOp' = RunningOp
    BY <1>2, FlightStays
  <2>3. ASSUME NEW i \in 1..Len(wire), wire[i].kind = "run", wire[i].op = RunningOp'
        PROVE  phase'[wire[i].op] = "WRITING"
    <3>1. wire[i].op \in Ops /\ phase[wire[i].op] = "WRITING"
      BY <2>2, <2>3 DEF FramesInv, Fits, Frames
    <3>2. Running /\ wire[i].op = Front
      BY <2>2, <2>3, <3>1, OpsAssumption DEF RunningOp
    <3> QED
      BY <1>2, <3>1, <3>2, FlightStays
  <2> QED
    BY <2>1, <2>2, <2>3, FramesKept
<1>3. CASE Disconnect
  <2>1. wire' = <<>>
    BY <1>3 DEF Disconnect
  <2> QED
    BY <2>1 DEF FramesInv, OneFrame
<1>4. CASE StartFront
  BY <1>4, FramesStartFront
<1>5. CASE TurnAway \/ RefuseInvalid \/ Watchdog
  <2>1. Kept(0)
    BY <1>5, WireKept DEF TurnAway, RefuseInvalid, Watchdog
  <2>2. queue # <<>>
        /\ \E s \in Statuses : Finish(s) /\ (~starting => s = "timeout")
    BY <1>5 DEF TurnAway, RefuseInvalid, Watchdog, FinishUnread, Running, Statuses
  <2> QED
    BY <2>1, <2>2, FramesSettle
<1>6. CASE EndRun
  <2> DEFINE o == Head(wire).op
  <2>1. wire # <<>> /\ ~starting /\ Kept(1) /\ Head(wire).kind = "run"
    BY <1>6, WireKept DEF EndRun, Ends
  <2>2. Head(wire) = wire[1] /\ 1 \in 1..Len(wire) /\ Len(wire) \in Nat
        /\ "run" \in Frames
    BY <2>1, EndsFits DEF Frames
  <2>3. \A i \in 1..Len(wire) : wire[i].kind \in Frames /\ wire[i].op = o => i = 1
    BY <2>1, <2>2 DEF FramesInv, OneFrame
  <2>4. \/ UNCHANGED <<queue, phase>>
        \/ InFlight(o) /\ Finish("rejected")
        \/ /\ InFlight(o) /\ phase' = [phase EXCEPT ![o] = "CONFIRMING"]
           /\ UNCHANGED <<queue, starting>>
    BY <1>6 DEF EndRun, FinishUnread, opVars
  <2>5. InFlight(o) => queue # <<>> /\ Front = o /\ o \in Ops
    BY Flight DEF InFlight, IInv
  <2>6. CASE UNCHANGED <<queue, phase>>
    BY <1>1, <2>1, <2>6
  <2>7. CASE InFlight(o) /\ Finish("rejected")
    <3>1. \A i \in 1..Len(wire) : ~(i > 1 /\ wire[i].kind \in Frames /\ wire[i].op = Front)
      BY <2>3, <2>5, <2>7
    <3>2. "rejected" \in Statuses
      BY DEF Statuses
    <3> QED
      BY <2>1, <2>5, <2>7, <3>1, <3>2, FramesSettle
  <2>8. CASE /\ InFlight(o) /\ phase' = [phase EXCEPT ![o] = "CONFIRMING"]
             /\ UNCHANGED <<queue, starting>>
    <3>1. RunningOp' = RunningOp
      BY <2>1, <2>5, <2>8, FlightStates, FlightStatesNext DEF Front
    <3>2. RunningOp = o
      BY <2>1, <2>5, <2>8, FlightStates
    <3>3. \A i \in 1..Len(wire) :
            ~(i > 1 /\ wire[i].kind = "run" /\ wire[i].op = RunningOp')
      BY <2>2, <2>3, <3>1, <3>2
    <3> QED
      BY <2>1, <3>1, <3>3, FramesKept
  <2> QED
    BY <2>4, <2>6, <2>7, <2>8
<1>7. CASE EndConfirm
  <2> DEFINE o == Head(wire).op
  <2>1. PICK answered \in Answers :
          IF InFlight(o) THEN ConfirmWith(o, answered) ELSE RefreshWith(answered)
    BY <1>7 DEF EndConfirm
  <2>2. o \in Ops /\ Cmd(o) # "clock" /\ answered \in BOOLEAN
    BY <1>7, WireHead DEF EndConfirm, Ends, IInv, TypeInv, Answers
  <2>3. wire # <<>> /\ ~starting /\ Kept(1) /\ Head(wire).kind = "confirm"
    BY <1>7, WireKept DEF EndConfirm, Ends
  <2>4. \/ UNCHANGED <<queue, phase>>
        \/ InFlight(o) /\ Verdict(o, answered) # "retry" /\ Finish(Verdict(o, answered))
    BY <2>1 DEF ConfirmWith, Retry, RefreshWith, opVars
  <2>5. CASE UNCHANGED <<queue, phase>>
    BY <1>1, <2>3, <2>5
  <2>6. CASE InFlight(o) /\ Verdict(o, answered) # "retry" /\ Finish(Verdict(o, answered))
    <3>1. queue # <<>> /\ Front = o
      BY <2>6 DEF InFlight, Running
    <3>2. Verdict(o, answered) \in Statuses
      BY <2>2, <2>6, VerdictTyped
    <3>3. Head(wire) = wire[1] /\ 1 \in 1..Len(wire) /\ Len(wire) \in Nat
      BY <2>3, EndsFits
    <3>4. \A i \in 1..Len(wire) : ~(i > 1 /\ wire[i].kind \in Frames /\ wire[i].op = Front)
      BY <2>3, <3>1, <3>3 DEF FramesInv, OneFrame
    <3> QED
      BY <2>3, <2>6, <3>1, <3>2, <3>4, FramesSettle
  <2> QED
    BY <2>4, <2>5, <2>6
<1>8. CASE EndClockRead
  <2> DEFINE o == Head(wire).op
  <2>1. wire # <<>> /\ ~starting /\ Kept(1) /\ Head(wire).kind = "clock_read"
    BY <1>8, WireKept DEF EndClockRead, Ends
  <2>2. Cmd(o) = "clock"
    BY <2>1, EndsFits DEF Fits
  <2>3. \/ UNCHANGED <<queue, phase>>
        \/ queue # <<>> /\ Front = o /\ \E s \in Statuses : Finish(s)
    BY <1>8 DEF EndClockRead, FinishUnread, Retry, opVars, InFlight, Running, Statuses
  <2>4. \A i \in 1..Len(wire) : wire[i].kind \in Frames => wire[i].op # o
    BY <2>2 DEF FramesInv, Fits, Frames
  <2> QED
    BY <1>1, <2>1, <2>3, <2>4, FramesSettle
<1>9. CASE ConfirmDue
  <2> DEFINE k == IF Cmd(Front) = "clock" THEN "clock_read" ELSE "confirm"
  <2>1. /\ queue # <<>> /\ Running /\ UNCHANGED <<queue, phase>>
        /\ wire' = Append(wire, Command(k, Front, FALSE))
    BY <1>9 DEF ConfirmDue, Running
  <2>2. RunningOp = Front /\ RunningOp' = Front
    BY <2>1 DEF RunningOp, Running, Front
  <2>3. phase[Front] # "new" /\ phase[Front] # "QUEUED" /\ Front \in Ops
    BY <2>1, FrontNotNew DEF Running
  <2>4. k \in Kinds /\ k \notin Frames /\ k \notin {"run", "mode", "control"}
        /\ (k = "clock_read" => Cmd(Front) = "clock")
    BY DEF Kinds, Frames
  <2> HIDE DEF k
  <2> QED
    BY <2>1, <2>2, <2>3, <2>4, FramesAdded
<1>10. CASE EndMode \/ EndControl \/ EndClock \/ EndPoll \/ EndSync \/ EndConfig
  <2>1. wire # <<>> /\ UNCHANGED <<queue, phase>>
        /\ (wire' = Tail(wire) \/ wire' = Append(Tail(wire), Config))
    BY <1>10
    DEF EndMode, EndControl, EndClock, EndPoll, EndSync, EndConfig, SyncRead, Ends, opVars
  <2> QED
    BY <1>1, <2>1, WireKept
<1>11. CASE PollDue \/ StartChain \/ Rearm \/ SyncDue \/ Connect \/ Panel \/ NothingToStart
            \/ UNCHANGED vars
  <2>1. UNCHANGED <<queue, phase>>
        /\ (UNCHANGED wire \/ \E c \in {Poll, Sync, Config} : wire' = Append(wire, c))
    BY <1>11
    DEF PollDue, StartChain, Rearm, SyncDue, Connect, Panel, NothingToStart, vars, opVars
  <2> QED
    BY <1>1, <2>1, WireKept
<1> QED
  BY <1>2, <1>3, <1>4, <1>5, <1>6, <1>7, <1>8, <1>9, <1>10, <1>11 DEF Next

LEMMA FramesInitially == Init => FramesInv
<1> SUFFICES ASSUME Init PROVE FramesInv
  OBVIOUS
<1>1. Len(wire) = 0
  BY DEF Init
<1> QED
  BY <1>1 DEF FramesInv, OneFrame

\* run_set_setpoint_() sends nothing for a mode without a setpoint, or for a
\* value that is none: whatever is in flight is a request the pump understands.
FrontValid == Running => ~Invalid(Front)

LEMMA FrontValidStep ==
  ASSUME IInv, IInv', FrontValid, [Next]_vars
  PROVE  FrontValid'
<1> SUFFICES ASSUME Running' PROVE ~Invalid(Front')
  BY DEF FrontValid, Invalid, Cmd
<1>1. Front' = Front /\ (Running \/ StartFront)
  BY FlightMoves
<1> QED
  BY <1>1 DEF FrontValid, StartFront

LEMMA FrontValidAlways == Spec => [](IInv /\ FrontValid)
<1>1. Init => FrontValid
  BY DEF Init, FrontValid, Running
<1>2. IInv /\ IInv' /\ FrontValid /\ [Next]_vars => FrontValid'
  BY FrontValidStep
<1> QED
  BY <1>1, <1>2, IInvAlways, PTL DEF Spec

\* What is told of an operation is what the pump does, for this one step.
Honest ==
  \A o \in Ops : status'[o] # status[o] =>
    /\ status'[o] = "accepted" => InForce(o)
    /\ status'[o] = "clamped" => ~InForce(o)

LEMMA SettleHonest ==
  ASSUME IInv, queue # <<>>, NEW s \in Statuses, Finish(s),
         s = "accepted" => InForce(Front),
         s = "clamped" => ~InForce(Front)
  PROVE  Honest
<1>1. Front \in Ops /\ status \in [Ops -> Statuses]
  BY FrontNotNew DEF IInv, TypeInv, Typed, ResultTypes
<1>2. \A o \in Ops : status'[o] = IF o = Front THEN s ELSE status[o]
  BY <1>1 DEF Finish
<1> QED
  BY <1>1, <1>2 DEF Honest

\* confirm_...() judges the readback, not the cache it found or the request.
LEMMA ConfirmHonest ==
  ASSUME IInv, FrontValid, NEW answered \in BOOLEAN, Running, Cmd(Front) # "clock",
         ConfirmWith(Front, answered)
  PROVE  /\ Verdict(Front, answered) = "accepted" => InForce(Front)
         /\ Verdict(Front, answered) = "clamped" => ~InForce(Front)
<1> DEFINE r == Request[Front]
<1>1. Front \in Ops
  BY Flight DEF IInv
<1>2. r.cmd = Cmd(Front) /\ r.cmd \in Commands
  BY <1>1, Constants DEF Cmd
<1>3. answered => CacheReadback
  BY DEF ConfirmWith
<1>4. CASE r.cmd = "enabled"
  <2>1. Verdict(Front, answered) = EnabledVerdict(Front, answered)
    BY <1>2, <1>4 DEF Verdict
  <2> QED
    BY <1>3, <1>4, <2>1 DEF EnabledVerdict, CacheReadback, InForce
<1>5. CASE r.cmd = "mode"
  <2>1. Verdict(Front, answered) = ModeVerdict(Front, answered)
    BY <1>2, <1>5 DEF Verdict
  <2> QED
    BY <1>5, <2>1 DEF ModeVerdict, InForce
<1>6. CASE r.cmd = "setpoint"
  <2>1. Verdict(Front, answered) = SetpointVerdict(Front, answered)
    BY <1>2, <1>6 DEF Verdict
  <2>2. r.mode \in ScalarModes
    BY <1>1, <1>2, <1>6, Constants DEF FrontValid
  <2>3. ASSUME answered, pump_mode = r.mode
        PROVE  setpoints'[r.mode] = pump_setpoint[r.mode]
    BY <1>3, <2>2, <2>3 DEF CacheReadback, IInv, TypeInv, Typed, ControlTypes
  <2>4. /\ Verdict(Front, answered) = "accepted" =>
             answered /\ pump_mode = r.mode /\ setpoints'[r.mode] = r.value
        /\ Verdict(Front, answered) = "clamped" =>
             answered /\ pump_mode = r.mode /\ setpoints'[r.mode] # r.value
    BY <2>1 DEF SetpointVerdict
  <2> QED
    BY <1>6, <2>3, <2>4 DEF InForce
<1> QED
  BY <1>2, <1>4, <1>5, <1>6 DEF Commands

LEMMA HonestStep ==
  ASSUME IInv, FrontValid, FramesInv, [Next]_vars
  PROVE  Honest
<1>1. UNCHANGED status => Honest
  BY DEF Honest
<1>2. ASSUME queue # <<>>, NEW s \in {"rejected", "timeout", "invalid"}, Finish(s)
      PROVE  Honest
  BY <1>2, SettleHonest DEF Statuses
<1>3. ASSUME NEW o \in Ops, Submit(o) PROVE Honest
  BY <1>3 DEF Submit, Honest
<1>4. CASE Disconnect
  BY <1>4 DEF Disconnect, OnDisconnect, Honest
<1>5. CASE TurnAway \/ RefuseInvalid \/ Watchdog
  BY <1>2, <1>5 DEF TurnAway, RefuseInvalid, Watchdog, FinishUnread, Running
<1>6. CASE EndRun
  BY <1>1, <1>2, <1>6 DEF EndRun, FinishUnread, InFlight, Running, resultVars
<1>7. CASE EndConfirm
  <2> DEFINE o == Head(wire).op
  <2>1. PICK answered \in Answers :
          IF InFlight(o) THEN ConfirmWith(o, answered) ELSE RefreshWith(answered)
    BY <1>7 DEF EndConfirm
  <2>2. o \in Ops /\ Cmd(o) # "clock" /\ answered \in BOOLEAN
    BY <1>7, WireHead DEF EndConfirm, Ends, IInv, TypeInv, Answers
  <2>3. CASE ~InFlight(o) \/ Verdict(o, answered) = "retry"
    BY <1>1, <2>1, <2>3 DEF ConfirmWith, Retry, RefreshWith
  <2>4. CASE InFlight(o) /\ Verdict(o, answered) # "retry"
    <3>1. queue # <<>> /\ Running /\ o = Front
      BY <2>4 DEF InFlight, Running
    <3>2. Finish(Verdict(o, answered)) /\ ConfirmWith(Front, answered)
      BY <2>1, <2>4, <3>1 DEF ConfirmWith
    <3>3. Verdict(o, answered) \in Statuses
      BY <2>2, <2>4, VerdictTyped
    <3> QED
      BY <2>2, <3>1, <3>2, <3>3, ConfirmHonest, SettleHonest
  <2> QED
    BY <2>3, <2>4
<1>8. CASE EndClockRead
  <2> DEFINE o == Head(wire).op
  <2>1. CASE ~InFlight(o)
    BY <1>1, <1>8, <2>1 DEF EndClockRead, resultVars
  <2>2. CASE InFlight(o)
    <3>1. queue # <<>> /\ Front = o
      BY <2>2 DEF InFlight, Running
    <3>2. \/ Finish("accepted") \/ Finish("rejected") \/ Finish("timeout")
          \/ UNCHANGED status
      BY <1>8, <2>2 DEF EndClockRead, FinishUnread, Retry
    <3>3. Cmd(Front) = "clock"
      BY <1>8, <3>1, EndsFits DEF EndClockRead, Ends, Fits
    <3>4. Finish("accepted") => Honest
      BY <3>1, <3>3, SettleHonest DEF InForce, Cmd, Statuses
    <3> QED
      BY <1>1, <1>2, <3>1, <3>2, <3>4
  <2> QED
    BY <2>1, <2>2
<1>9. CASE EndMode \/ EndControl \/ EndClock \/ EndPoll \/ NothingToStart \/ ConfirmDue
           \/ EndSync \/ EndConfig \/ PollDue \/ StartChain \/ Rearm \/ SyncDue
           \/ Connect \/ Panel \/ StartFront \/ UNCHANGED vars
  BY <1>1, <1>9
  DEF EndMode, EndControl, EndClock, EndPoll, NothingToStart, ConfirmDue, EndSync, EndConfig,
      PollDue, StartChain, Rearm, SyncDue, Connect, Panel, StartFront, vars, resultVars
<1> QED
  BY <1>3, <1>4, <1>5, <1>6, <1>7, <1>8, <1>9 DEF Next

\* What is in flight and what is at the transport, in every reachable state.
LEMMA ServiceAlways == Spec => [](IInv /\ FrontValid /\ FramesInv)
<1>1. Init => FramesInv
  BY FramesInitially
<1>2. IInv /\ IInv' /\ FramesInv /\ [Next]_vars => FramesInv'
  BY FramesStep
<1> QED
  BY <1>1, <1>2, FrontValidAlways, PTL DEF Spec

\* "accepted" is told of a write that is in force at the pump at that moment,
\* by its own readback, and "clamped" of a setpoint the pump keeps as another.
THEOREM VerdictsAreHonest == Spec => VerdictsHonest
<1>1. IInv /\ FrontValid /\ FramesInv /\ [Next]_vars => Honest
  BY HonestStep
<1>2. Spec => [][Honest]_vars
  BY <1>1, ServiceAlways, PTL DEF Spec
<1> QED
  BY <1>2 DEF VerdictsHonest, Honest

-----------------------------------------------------------------------------
(* Issue #45: the run state that a setpoint frame carries.                  *)

\* Nobody changes the run state behind the services' back.
Quiet == panel = 0 /\ \A o \in cut_short : Cmd(o) # "enabled"

\* A START or STOP is being confirmed: the cache holds what it asked for.
Guessing == RunningOp \in Ops /\ Cmd(RunningOp) = "enabled" /\ phase[RunningOp] = "CONFIRMING"

\* The setpoint frames on their way say what the pump does, and no START or
\* STOP overtakes them.
RunWire ==
  /\ \A i \in 1..Len(wire) : wire[i].kind = "control" => wire[i].on = pump_run
  /\ \A i, j \in 1..Len(wire) : wire[i].kind = "control" /\ wire[j].kind = "run" => i < j

\* The cached run state a setpoint may be fused with is the pump's.
CacheRun == pump_enabled_valid /\ ~Guessing => pump_enabled = pump_run

RunInv == Quiet => ~flipped /\ RunWire /\ CacheRun

\* What a step does to the wire.
LEMMA WireSteps ==
  ASSUME IInv, [Next]_vars
  PROVE  \/ Shrunk(0)
         \/ Shrunk(1) /\ wire # <<>>
         \/ SyncDue /\ Grown(0, Sync)
         \/ EndSync /\ Grown(1, Config)
         \/ PollDue /\ Grown(0, Poll)
         \/ /\ StartFront
            /\ \/ RunSetEnabled /\ Grown(0, Command("run", Front, Request[Front].on))
               \/ RunSetMode /\ Grown(0, Command("mode", Front, FALSE))
               \/ RunSetClock /\ Grown(0, Command("clock", Front, FALSE))
               \/ RunSetSetpoint /\ Grown(0, Command("control", Front, pump_enabled))
         \/ /\ ConfirmDue
            /\ \E k \in {"confirm", "clock_read"} : Grown(0, Command(k, Front, FALSE))
<1>1. CASE wire # <<>> /\ wire' = Tail(wire)
  BY <1>1, WireMoves
<1>2. CASE UNCHANGED wire \/ wire' = <<>>
  BY <1>2, WireMoves
<1>3. CASE SyncDue \/ PollDue
  BY <1>3, WireMoves DEF SyncDue, PollDue, Sync, Poll, Kinds
<1>4. CASE EndSync
  BY <1>4, <1>1, WireMoves DEF EndSync, SyncRead, Ends, Config, Kinds
<1>5. CASE StartFront
  <2>1. Front \in Ops /\ Request[Front].on \in BOOLEAN /\ pump_enabled \in BOOLEAN
    BY <1>5, FrontNotNew, Constants DEF StartFront, IInv, TypeInv, Typed, ControlTypes
  <2>2. \A k \in {"run", "mode", "clock", "control"}, on \in BOOLEAN :
          wire' = Append(wire, Command(k, Front, on)) => Grown(0, Command(k, Front, on))
    BY <2>1, WireMoves DEF Kinds
  <2> QED
    BY <1>5, <2>1, <2>2
    DEF StartFront, RunSetEnabled, RunSetMode, RunSetClock, RunSetSetpoint
<1>6. CASE ConfirmDue
  <2>1. Front \in Ops
    BY <1>6, FrontNotNew DEF ConfirmDue, Running
  <2>2. \A k \in {"confirm", "clock_read"} :
          wire' = Append(wire, Command(k, Front, FALSE)) => Grown(0, Command(k, Front, FALSE))
    BY <2>1, WireMoves DEF Kinds
  <2> QED
    BY <1>6, <2>2 DEF ConfirmDue
<1>7. CASE EndRun \/ EndMode \/ EndControl \/ EndClock \/ EndPoll \/ EndConfirm
           \/ EndClockRead \/ EndConfig
  BY <1>1, <1>7
  DEF EndRun, EndMode, EndControl, EndClock, EndPoll, EndConfirm, EndClockRead, EndConfig, Ends
<1>8. CASE TurnAway \/ RefuseInvalid \/ NothingToStart \/ Watchdog \/ StartChain \/ Rearm
           \/ Connect \/ Disconnect \/ Panel \/ (\E o \in Ops : Submit(o)) \/ UNCHANGED vars
  BY <1>2, <1>8
  DEF TurnAway, RefuseInvalid, NothingToStart, Watchdog, StartChain, Rearm, Connect,
      Disconnect, Panel, Submit, vars
<1> QED
  BY <1>3, <1>4, <1>5, <1>6, <1>7, <1>8 DEF Next

\* As long as nobody interferes the run state changes by a START or STOP only.
LEMMA RunSteady ==
  ASSUME IInv, FramesInv, RunInv, Quiet, [Next]_vars, panel' = 0
  PROVE  /\ flipped' = flipped
         /\ EndRun \/ pump_run' = pump_run
<1>1. CASE EndControl
  <2>1. wire # <<>> /\ Head(wire).kind = "control"
    BY <1>1 DEF EndControl, Ends
  <2>2. Head(wire).on = pump_run
    BY <2>1, EndsFits DEF RunInv, RunWire
  <2>3. flipped \in BOOLEAN
    BY DEF IInv, TypeInv, Typed, PumpTypes
  <2> QED
    BY <1>1, <2>2, <2>3 DEF EndControl
<1>2. CASE EndRun
  BY <1>2 DEF EndRun
<1>3. CASE Panel
  <2>1. panel' = panel + 1 /\ panel = 0
    BY <1>3 DEF Panel, Quiet
  <2> QED
    BY <2>1
<1>4. CASE EndMode
  BY <1>4 DEF EndMode
<1>5. CASE \/ \E o \in Ops : Submit(o)
           \/ TurnAway \/ RefuseInvalid \/ StartFront \/ NothingToStart \/ Watchdog
           \/ ConfirmDue \/ EndClock \/ EndPoll \/ EndConfirm \/ EndClockRead \/ EndSync
           \/ EndConfig \/ PollDue \/ StartChain \/ Rearm \/ SyncDue \/ Connect
           \/ Disconnect \/ UNCHANGED vars
  BY <1>5
  DEF Submit, TurnAway, RefuseInvalid, StartFront, NothingToStart, Watchdog, ConfirmDue,
      EndClock, EndPoll, EndConfirm, EndClockRead, EndSync, EndConfig, PollDue, StartChain,
      Rearm, SyncDue, Connect, Disconnect, vars, pumpVars
<1> QED
  BY <1>1, <1>2, <1>3, <1>4, <1>5 DEF Next

LEMMA RunWireStep ==
  ASSUME IInv, FramesInv, RunInv, Quiet, [Next]_vars, panel' = 0
  PROVE  RunWire'
<1>1. RunWire /\ CacheRun
  BY DEF RunInv
<1>2. Len(wire) \in Nat
  BY DEF IInv, TypeInv, Typed, WireTypes
<1>3. ASSUME pump_run' = pump_run, NEW d \in {0, 1},
             Shrunk(d) \/ (\E c : Grown(d, c) /\ c.kind \notin {"control", "run"})
      PROVE  RunWire'
  <2>1. \A i \in 1..Len(wire') : wire'[i].kind \in {"control", "run"} =>
          i + d \in 1..Len(wire) /\ wire'[i] = wire[i + d]
    BY <1>3 DEF Shrunk, Grown
  <2>2. ASSUME NEW i \in 1..Len(wire'), wire'[i].kind = "control"
        PROVE  wire'[i].on = pump_run'
    BY <1>1, <1>3, <2>1, <2>2 DEF RunWire
  <2>3. ASSUME NEW i \in 1..Len(wire'), NEW j \in 1..Len(wire'),
               wire'[i].kind = "control", wire'[j].kind = "run"
        PROVE  i < j
    <3>1. i + d < j + d
      BY <1>1, <2>1, <2>3 DEF RunWire
    <3> QED
      BY <3>1
  <2> QED
    BY <2>2, <2>3 DEF RunWire
<1>4. CASE EndRun
  <2>1. wire # <<>> /\ Head(wire).kind = "run" /\ Shrunk(1)
    BY <1>4, WireMoves DEF EndRun, Ends
  <2>2. \A i \in 1..Len(wire) : wire[i].kind = "control" => i < 1
    BY <1>1, <2>1, EndsFits DEF RunWire
  <2>3. \A i \in 1..Len(wire') : wire'[i].kind # "control"
    BY <1>2, <2>1, <2>2 DEF Shrunk
  <2> QED
    BY <2>3 DEF RunWire
<1>5. CASE ~EndRun
  <2>1. pump_run' = pump_run
    BY <1>5, RunSteady
  <2>2. CASE Shrunk(0) \/ Shrunk(1)
    BY <1>3, <2>1, <2>2
  <2>3. CASE Grown(0, Sync) \/ Grown(1, Config) \/ Grown(0, Poll)
    <3>1. /\ Sync.kind \notin {"control", "run"} /\ Config.kind \notin {"control", "run"}
          /\ Poll.kind \notin {"control", "run"}
      BY DEF Sync, Config, Poll, Command
    <3> QED
      BY <1>3, <2>1, <2>3, <3>1
  <2>4. CASE \E k \in {"confirm", "clock_read", "mode", "clock"} :
               Grown(0, Command(k, Front, FALSE))
    <3>1. \A k \in {"confirm", "clock_read", "mode", "clock"} :
            Command(k, Front, FALSE).kind \notin {"control", "run"}
      BY DEF Command
    <3> QED
      BY <1>3, <2>1, <2>4, <3>1
  <2>5. CASE Grown(0, Command("run", Front, Request[Front].on))
    <3> DEFINE c == Command("run", Front, Request[Front].on)
    <3>1. c.kind = "run"
      BY DEF Command
    <3> HIDE DEF c
    <3>2. \A i \in 1..Len(wire') :
            \/ i \in 1..Len(wire) /\ wire'[i] = wire[i]
            \/ i = Len(wire) + 1 /\ wire'[i].kind = "run"
      BY <1>2, <2>5, <3>1 DEF Grown, c
    <3> QED
      BY <1>1, <1>2, <2>1, <3>2 DEF RunWire
  <2>6. CASE StartFront /\ RunSetSetpoint /\ Grown(0, Command("control", Front, pump_enabled))
    <3> DEFINE c == Command("control", Front, pump_enabled)
    <3>1. c.kind = "control" /\ c.on = pump_enabled
      BY DEF Command
    <3> HIDE DEF c
    <3>2. \A i \in 1..Len(wire') :
            \/ i \in 1..Len(wire) /\ wire'[i] = wire[i]
            \/ i = Len(wire) + 1 /\ wire'[i] = c
      BY <1>2, <2>6 DEF Grown, c
    <3>3. RunningOp = NoOp
      BY <2>6, FlightStates DEF StartFront
    <3>4. pump_enabled_valid
      BY <2>6 DEF StartFront, Synchronized, CacheValid
    <3>5. pump_enabled = pump_run
      BY <1>1, <3>3, <3>4, OpsAssumption DEF CacheRun, Guessing
    <3>6. \A i \in 1..Len(wire) : wire[i].kind # "run"
      BY <3>3, OpsAssumption DEF FramesInv, Fits, Frames, Quiet
    <3> QED
      BY <1>1, <2>1, <3>1, <3>2, <3>5, <3>6 DEF RunWire
  <2> QED
    BY <2>2, <2>3, <2>4, <2>5, <2>6, WireSteps
<1> QED
  BY <1>4, <1>5

\* The rollback of finish_(): what was guessed is not kept unless it is read.
LEMMA SettleRun ==
  ASSUME IInv, IInv', CacheRun, queue # <<>>, NEW s \in Statuses, FinishUnread(s),
         Guessing => s = "timeout", pump_run' = pump_run
  PROVE  CacheRun'
<1>1. CASE Guessing
  <2>1. RunningOp = Front /\ Cmd(Front) = "enabled" /\ s = "timeout"
    BY <1>1, FlightStates, OpsAssumption DEF Guessing
  <2> QED
    BY <2>1 DEF FinishUnread, RollsBack, CacheRun
<1>2. CASE ~Guessing
  BY <1>2 DEF FinishUnread, CacheRun
<1> QED
  BY <1>1, <1>2

LEMMA CacheRunStep ==
  ASSUME IInv, IInv', FramesInv, RunInv, Quiet, [Next]_vars, panel' = 0
  PROVE  CacheRun'
<1>1. CacheRun /\ (EndRun \/ pump_run' = pump_run)
  BY RunSteady DEF RunInv
<1>2. ASSUME pump_enabled' = pump_run, pump_run' = pump_run PROVE CacheRun'
  BY <1>2 DEF CacheRun
<1>3. ASSUME UNCHANGED pump_enabled, pump_enabled_valid' => pump_enabled_valid,
             pump_run' = pump_run, Guessing => Guessing'
      PROVE  CacheRun'
  BY <1>1, <1>3 DEF CacheRun
<1>4. UNCHANGED <<queue, phase>> => (Guessing => Guessing')
  BY DEF Guessing, RunningOp, Running, Front, Cmd
<1>5. ASSUME NEW o \in Ops, Submit(o) PROVE CacheRun'
  <2>1. /\ UNCHANGED pump_enabled
        /\ pump_enabled_valid' =
             (pump_enabled_valid /\ \A q \in Superseded(o) : ~RollsBack(q, "superseded"))
    BY <1>5 DEF Submit, Superseded
  <2>2. pump_run' = pump_run
    BY <1>5 DEF Submit, pumpVars
  <2>3. Guessing => Guessing'
    BY <1>5, FlightStays, OpsAssumption DEF Guessing, RunningOp, Cmd
  <2> QED
    BY <1>3, <2>1, <2>2, <2>3
<1>6. CASE TurnAway
  <2>1. RunningOp = NoOp
    BY <1>6, FlightStates DEF TurnAway
  <2>2. ~Guessing
    BY <2>1, OpsAssumption DEF Guessing
  <2> QED
    BY <1>3, <1>6, <2>2 DEF TurnAway, controlVars, runVars, pumpVars
<1>7. CASE RefuseInvalid
  <2>1. RunningOp = NoOp
    BY <1>7, FlightStates DEF RefuseInvalid
  <2>2. ~Guessing
    BY <2>1, OpsAssumption DEF Guessing
  <2> QED
    BY <1>1, <1>7, <2>2, SettleRun DEF RefuseInvalid, pumpVars, Statuses
<1>8. CASE Watchdog
  BY <1>1, <1>8, SettleRun DEF Watchdog, Running, pumpVars, Statuses
<1>9. CASE StartFront
  <2>1. RunningOp = NoOp
    BY <1>9, FlightStates DEF StartFront
  <2>2. ~Guessing
    BY <2>1, OpsAssumption DEF Guessing
  <2>3. UNCHANGED runVars
    BY <1>9
    DEF StartFront, RunSetEnabled, RunSetMode, RunSetClock, RunSetSetpoint, controlVars
  <2> QED
    BY <1>3, <1>9, <2>2, <2>3 DEF StartFront, runVars, pumpVars
<1>10. CASE EndRun
  <2> DEFINE o == Head(wire).op
  <2>1. wire # <<>> /\ ~starting /\ Head(wire).kind = "run"
    BY <1>10 DEF EndRun, Ends
  <2>2. o \in Ops /\ o = RunningOp /\ phase[o] = "WRITING" /\ Cmd(o) = "enabled"
    BY <2>1, EndsFits DEF Fits, Frames, Quiet
  <2>3. InFlight(o) /\ queue # <<>> /\ Front = o
    BY <2>2, OpsAssumption DEF InFlight, RunningOp, Running
  <2>4. PICK out \in Outcomes :
          /\ pump_run' = IF out.applied THEN Head(wire).on ELSE pump_run
          /\ IF out.answer = "refused" THEN FinishUnread("rejected")
             ELSE phase' = [phase EXCEPT ![o] = "CONFIRMING"] /\ UNCHANGED <<queue, starting>>
    BY <1>10, <2>3 DEF EndRun
  <2>5. CASE out.answer = "refused"
    <3>1. ~out.applied
      BY <2>5 DEF Outcomes, Outcome
    <3>2. ~Guessing
      BY <2>2 DEF Guessing
    <3> QED
      BY <1>1, <2>3, <2>4, <2>5, <3>1, <3>2, SettleRun DEF Statuses
  <2>6. CASE out.answer # "refused"
    <3>1. RunningOp' = o
      BY <2>1, <2>3, <2>4, <2>6, FlightStatesNext DEF Front
    <3>2. phase'[o] = "CONFIRMING"
      BY <2>2, <2>4, <2>6 DEF IInv, TypeInv, Typed, OpTypes
    <3>3. Guessing'
      BY <2>2, <3>1, <3>2 DEF Guessing, Cmd
    <3> QED
      BY <3>3 DEF CacheRun
  <2> QED
    BY <2>5, <2>6
<1>11. CASE EndMode \/ EndControl \/ EndClock \/ EndConfig \/ ConfirmDue \/ PollDue
            \/ StartChain \/ Rearm \/ SyncDue \/ Connect \/ Panel \/ NothingToStart
            \/ UNCHANGED vars
  <2>1. UNCHANGED <<queue, phase>> /\ UNCHANGED runVars
    BY <1>11
    DEF EndMode, EndControl, EndClock, EndConfig, ConfirmDue, PollDue, StartChain, Rearm,
        SyncDue, Connect, Panel, NothingToStart, vars, opVars, controlVars
  <2>2. CASE EndControl
    <3>1. ~EndRun
      BY <2>2 DEF EndControl, EndRun, Ends
    <3> QED
      BY <1>1, <1>3, <1>4, <2>1, <3>1 DEF runVars
  <2>3. CASE Panel
    <3>1. panel' = panel + 1 /\ panel = 0
      BY <2>3 DEF Panel, Quiet
    <3> QED
      BY <3>1
  <2>4. CASE UNCHANGED pump_run
    BY <1>3, <1>4, <2>1, <2>4 DEF runVars
  <2>5. EndControl \/ Panel \/ UNCHANGED pump_run
    BY <1>11
    DEF EndMode, EndClock, EndConfig, ConfirmDue, PollDue, StartChain, Rearm, SyncDue,
        Connect, NothingToStart, vars, pumpVars
  <2> QED
    BY <2>2, <2>3, <2>4, <2>5
<1>12. CASE EndPoll
  <2>1. UNCHANGED <<queue, phase, pump_run>>
    BY <1>12 DEF EndPoll, opVars, pumpVars
  <2>2. UNCHANGED runVars \/ CacheReadback
    BY <1>12 DEF EndPoll, controlVars
  <2> QED
    BY <1>2, <1>3, <1>4, <2>1, <2>2 DEF runVars, CacheReadback
<1>13. CASE EndSync
  <2>1. UNCHANGED <<queue, phase, pump_run>>
    BY <1>13 DEF EndSync, opVars, pumpVars
  <2>2. UNCHANGED runVars \/ CacheReadback
    BY <1>13 DEF EndSync, SyncRead, controlVars
  <2> QED
    BY <1>2, <1>3, <1>4, <2>1, <2>2 DEF runVars, CacheReadback
<1>14. CASE EndConfirm
  <2> DEFINE o == Head(wire).op
  <2>1. PICK answered \in Answers :
          IF InFlight(o) THEN ConfirmWith(o, answered) ELSE RefreshWith(answered)
    BY <1>14 DEF EndConfirm
  <2>2. UNCHANGED pump_run
    BY <1>14 DEF EndConfirm, pumpVars
  <2>3. CASE answered
    <3>1. CacheReadback
      BY <2>1, <2>3 DEF ConfirmWith, RefreshWith
    <3> QED
      BY <1>2, <2>2, <3>1 DEF CacheReadback
  <2>4. CASE ~answered /\ ~InFlight(o)
    <3>1. UNCHANGED runVars /\ UNCHANGED <<queue, phase>>
      BY <2>1, <2>4 DEF RefreshWith, opVars
    <3> QED
      BY <1>3, <1>4, <2>2, <3>1 DEF runVars
  <2>5. CASE ~answered /\ InFlight(o)
    <3>1. Front = o /\ RunningOp = o
      BY <2>5 DEF InFlight, RunningOp
    <3>2. /\ UNCHANGED pump_enabled
          /\ pump_enabled_valid' = (pump_enabled_valid /\ ~RollsBack(o, Verdict(o, answered)))
          /\ Verdict(o, answered) = "retry" => UNCHANGED <<queue, phase>>
      BY <2>1, <2>5 DEF ConfirmWith, Retry
    <3>3. pump_enabled_valid' => pump_enabled_valid /\ ~RollsBack(o, Verdict(o, answered))
      BY <3>2
    <3>4. CASE Verdict(o, answered) = "retry"
      BY <1>3, <1>4, <2>2, <3>2, <3>3, <3>4
    <3>5. CASE Verdict(o, answered) # "retry" /\ Cmd(o) = "enabled"
      <4>1. Verdict(o, answered) = EnabledVerdict(o, answered)
        BY <3>5 DEF Verdict
      <4>2. Verdict(o, answered) = "timeout"
        BY <2>5, <3>5, <4>1 DEF EnabledVerdict
      <4>3. ~pump_enabled_valid'
        BY <3>3, <3>5, <4>2 DEF RollsBack
      <4> QED
        BY <4>3 DEF CacheRun
    <3>6. CASE Cmd(o) # "enabled"
      <4>1. ~Guessing
        BY <3>1, <3>6 DEF Guessing
      <4> QED
        BY <1>3, <2>2, <3>2, <3>3, <4>1
    <3> QED
      BY <3>4, <3>5, <3>6
  <2> QED
    BY <2>3, <2>4, <2>5
<1>15. CASE EndClockRead
  <2> DEFINE o == Head(wire).op
  <2>1. wire # <<>> /\ Head(wire).kind = "clock_read"
    BY <1>15 DEF EndClockRead, Ends
  <2>2. Cmd(o) = "clock"
    BY <2>1, EndsFits DEF Fits
  <2>3. UNCHANGED pump_run
    BY <1>15 DEF EndClockRead, pumpVars
  <2>4. \/ UNCHANGED <<queue, phase>> /\ UNCHANGED runVars
        \/ queue # <<>> /\ InFlight(o) /\ \E s \in Statuses : FinishUnread(s)
    BY <1>15 DEF EndClockRead, Retry, opVars, controlVars, InFlight, Running, Statuses
  <2>5. CASE UNCHANGED <<queue, phase>> /\ UNCHANGED runVars
    BY <1>3, <1>4, <2>3, <2>5 DEF runVars
  <2>6. CASE queue # <<>> /\ InFlight(o) /\ \E s \in Statuses : FinishUnread(s)
    <3>1. ~Guessing
      BY <2>2, <2>6 DEF InFlight, RunningOp, Guessing
    <3> QED
      BY <1>1, <2>3, <2>6, <3>1, SettleRun
  <2> QED
    BY <2>4, <2>5, <2>6
<1>16. CASE Disconnect
  BY <1>16 DEF Disconnect, CacheRun
<1> QED
  BY <1>5, <1>6, <1>7, <1>8, <1>9, <1>10, <1>11, <1>12, <1>13, <1>14, <1>15, <1>16 DEF Next

\* Panel is alone in changing its counter.
LEMMA PanelSteps ==
  ASSUME [Next]_vars
  PROVE  panel' = panel \/ panel' = panel + 1
BY DEF Next, Submit, TurnAway, RefuseInvalid, StartFront, NothingToStart, Watchdog,
       ConfirmDue, EndRun, EndMode, EndControl, EndClock, EndPoll, EndConfirm,
       EndClockRead, EndSync, EndConfig, PollDue, StartChain, Rearm, SyncDue, Connect,
       Disconnect, Panel, vars, pumpVars

\* Interference is not taken back.
LEMMA QuietBefore ==
  ASSUME IInv, [Next]_vars, Quiet'
  PROVE  Quiet /\ panel' = 0
<1>1. panel \in Nat
  BY DEF IInv, TypeInv, Typed, PumpTypes
<1>2. panel' = 0 /\ \A o \in cut_short' : Cmd(o) # "enabled"
  BY DEF Quiet, Cmd
<1>3. panel' = panel \/ panel' = panel + 1
  BY PanelSteps
<1> QED
  BY <1>1, <1>2, <1>3, PhasesAdvance DEF Quiet

LEMMA RunInvStep ==
  ASSUME IInv, IInv', FramesInv, RunInv, [Next]_vars
  PROVE  RunInv'
<1> SUFFICES ASSUME Quiet' PROVE ~flipped' /\ RunWire' /\ CacheRun'
  BY DEF RunInv
<1>1. Quiet /\ panel' = 0
  BY QuietBefore
<1>2. ~flipped'
  BY <1>1, RunSteady DEF RunInv
<1> QED
  BY <1>1, <1>2, RunWireStep, CacheRunStep

\* Issue #45: a setpoint write, whose one frame carries the run state too,
\* neither starts nor stops the pump.
THEOREM SetpointsKeepRun == Spec => []SetpointKeepsRun
<1>1. Init => RunInv
  <2> SUFFICES ASSUME Init PROVE RunInv
    OBVIOUS
  <2>1. Len(wire) = 0 /\ ~flipped /\ ~pump_enabled_valid
    BY DEF Init
  <2> QED
    BY <2>1 DEF RunInv, RunWire, CacheRun
<1>2. IInv /\ IInv' /\ FramesInv /\ RunInv /\ [Next]_vars => RunInv'
  BY RunInvStep
<1>3. RunInv => SetpointKeepsRun
  BY DEF RunInv, Quiet, SetpointKeepsRun
<1> QED
  BY <1>1, <1>2, <1>3, ServiceAlways, PTL DEF Spec

-----------------------------------------------------------------------------
(* Issue #91: the mode that a command has put into the cache.               *)

SyncKinds == {"sync", "config"}

\* sync_cache_async() has at most one read out, the one its stage waits for,
\* and runs only after the initial read chain.
SyncInv ==
  /\ ~chain_done => sync = "none"
  /\ \A i \in 1..Len(wire) : /\ wire[i].kind = "sync" => sync = "reading"
                             /\ wire[i].kind = "config" => sync = "config"
  /\ \A i, j \in 1..Len(wire) :
       wire[i].kind \in SyncKinds /\ wire[j].kind \in SyncKinds => i = j

\* A mode or setpoint operation in flight: its mode is forced, or the cache
\* follows a pump that has not changed since, or has carried it out.
ModeInv ==
  panel = 0 /\ cut_short = {} /\ RunningOp \in Ops /\ Cmd(RunningOp) \in {"mode", "setpoint"} =>
    IF mode_command_pending THEN commanded_mode = Request[RunningOp].mode
    ELSE current_mode = pump_mode \/ pump_mode = Request[RunningOp].mode

LEMMA SyncKept ==
  ASSUME SyncInv, UNCHANGED <<sync, chain_done>>, NEW d \in {0, 1},
         Shrunk(d) \/ \E c : Grown(d, c) /\ c.kind \notin SyncKinds
  PROVE  SyncInv'
<1>1. \A i \in 1..Len(wire') : wire'[i].kind \in SyncKinds =>
        i + d \in 1..Len(wire) /\ wire'[i] = wire[i + d]
  BY DEF Shrunk, Grown
<1>2. \A i \in 1..Len(wire') : /\ wire'[i].kind = "sync" => sync = "reading"
                               /\ wire'[i].kind = "config" => sync = "config"
  BY <1>1 DEF SyncInv, SyncKinds
<1>3. ASSUME NEW i \in 1..Len(wire'), NEW j \in 1..Len(wire'),
             wire'[i].kind \in SyncKinds, wire'[j].kind \in SyncKinds
      PROVE  i = j
  <2>1. i + d = j + d
    BY <1>1, <1>3 DEF SyncInv
  <2> QED
    BY <2>1
<1> QED
  BY <1>2, <1>3 DEF SyncInv, SyncKinds

\* With none of its reads at the transport, the sync may be wherever the chain
\* allows.
LEMMA SyncNone ==
  ASSUME \A i \in 1..Len(wire') : wire'[i].kind \notin SyncKinds,
         ~chain_done' => sync' = "none"
  PROVE  SyncInv'
BY DEF SyncInv, SyncKinds

\* With one of them last, it waits for that one.
LEMMA SyncOne ==
  ASSUME Len(wire) \in Nat, NEW d \in {0, 1}, NEW c, Grown(d, c),
         \A i \in 1..Len(wire) : i > d => wire[i].kind \notin SyncKinds,
         c.kind = "sync" => sync' = "reading",
         c.kind = "config" => sync' = "config",
         chain_done'
  PROVE  SyncInv'
<1>1. \A i \in 1..Len(wire') : wire'[i].kind \in SyncKinds =>
        i + d = Len(wire) + 1 /\ wire'[i] = c
  BY DEF Grown
<1>2. ASSUME NEW i \in 1..Len(wire'), NEW j \in 1..Len(wire'),
             wire'[i].kind \in SyncKinds, wire'[j].kind \in SyncKinds
      PROVE  i = j
  <2>1. i + d = j + d
    BY <1>1, <1>2
  <2> QED
    BY <2>1
<1>3. \A i \in 1..Len(wire') : /\ wire'[i].kind = "sync" => sync' = "reading"
                               /\ wire'[i].kind = "config" => sync' = "config"
  BY <1>1 DEF SyncKinds
<1> QED
  BY <1>2, <1>3 DEF SyncInv, SyncKinds

\* The read that ends is the only one out.
LEMMA SyncHead ==
  ASSUME IInv, SyncInv, wire # <<>>, Head(wire).kind \in SyncKinds
  PROVE  /\ \A i \in 1..Len(wire) : i > 1 => wire[i].kind \notin SyncKinds
         /\ sync = (IF Head(wire).kind = "sync" THEN "reading" ELSE "config")
         /\ chain_done
<1>1. Head(wire) = wire[1] /\ 1 \in 1..Len(wire)
  BY TailProperties DEF IInv, TypeInv, Typed, WireTypes
<1>2. \A i \in 1..Len(wire) : i > 1 => wire[i].kind \notin SyncKinds
  BY <1>1 DEF SyncInv
<1>3. sync = (IF Head(wire).kind = "sync" THEN "reading" ELSE "config")
  BY <1>1 DEF SyncInv, SyncKinds
<1>4. chain_done
  BY <1>3 DEF SyncInv
<1> QED
  BY <1>2, <1>3, <1>4

LEMMA SyncInvStep ==
  ASSUME IInv, SyncInv, [Next]_vars
  PROVE  SyncInv'
<1>1. Len(wire) \in Nat
  BY DEF IInv, TypeInv, Typed, WireTypes
<1>2. CASE EndSync
  <2>1. wire # <<>> /\ Head(wire).kind = "sync" /\ "sync" \in SyncKinds
    BY <1>2 DEF EndSync, Ends, SyncKinds
  <2>2. chain_done /\ \A i \in 1..Len(wire) : i > 1 => wire[i].kind \notin SyncKinds
    BY <2>1, SyncHead
  <2>3. chain_done'
    BY <1>2, <2>2 DEF EndSync
  <2>4. CASE wire' = Tail(wire)
    <3>1. Shrunk(1)
      BY <2>1, <2>4, WireMoves
    <3>2. \A i \in 1..Len(wire') : wire'[i].kind \notin SyncKinds
      BY <2>2, <3>1 DEF Shrunk
    <3> QED
      BY <2>3, <3>2, SyncNone
  <2>5. CASE sync' = "config" /\ wire' = Append(Tail(wire), Config)
    <3>1. Grown(1, Config)
      BY <2>1, <2>5, WireMoves DEF Config, Kinds
    <3>2. Config.kind = "config"
      BY DEF Config, Command
    <3> QED
      BY <1>1, <2>2, <2>3, <2>5, <3>1, <3>2, SyncOne
  <2> QED
    BY <1>2, <2>4, <2>5 DEF EndSync, SyncRead
<1>3. CASE EndConfig
  <2>1. wire # <<>> /\ Head(wire).kind = "config" /\ "config" \in SyncKinds
        /\ wire' = Tail(wire) /\ UNCHANGED chain_done
    BY <1>3 DEF EndConfig, Ends, SyncKinds
  <2>2. chain_done /\ \A i \in 1..Len(wire) : i > 1 => wire[i].kind \notin SyncKinds
    BY <2>1, SyncHead
  <2>3. Shrunk(1)
    BY <2>1, WireMoves
  <2>4. \A i \in 1..Len(wire') : wire'[i].kind \notin SyncKinds
    BY <2>2, <2>3 DEF Shrunk
  <2> QED
    BY <2>1, <2>2, <2>4, SyncNone
<1>4. CASE SyncDue
  <2>1. sync = "waiting" /\ sync' = "reading" /\ UNCHANGED chain_done
        /\ wire' = Append(wire, Sync)
    BY <1>4 DEF SyncDue
  <2>2. chain_done /\ \A i \in 1..Len(wire) : i > 0 => wire[i].kind \notin SyncKinds
    BY <2>1 DEF SyncInv, SyncKinds
  <2>3. Grown(0, Sync) /\ Sync.kind = "sync"
    BY <2>1, WireMoves DEF Sync, Kinds, Command
  <2> QED
    BY <1>1, <2>1, <2>2, <2>3, SyncOne
<1>5. CASE StartChain \/ Rearm
  <2>1. sync \in {"none", "waiting"} /\ UNCHANGED wire /\ (~chain_done' => sync' = "none")
    BY <1>5 DEF StartChain, Rearm, SyncInv
  <2>2. \A i \in 1..Len(wire) : wire[i].kind \notin SyncKinds
    BY <2>1 DEF SyncInv, SyncKinds
  <2> QED
    BY <2>1, <2>2, SyncNone
<1>6. CASE Disconnect
  <2>1. Len(wire') = 0 /\ sync' = "none"
    BY <1>6 DEF Disconnect
  <2> QED
    BY <2>1, SyncNone
<1>7. CASE ~EndSync /\ ~SyncDue /\ UNCHANGED <<sync, chain_done>>
  <2>1. CASE Shrunk(0) \/ Shrunk(1)
    BY <1>7, <2>1, SyncKept
  <2>2. CASE \E k \in Kinds \ SyncKinds, o \in Ops, on \in BOOLEAN :
               Grown(0, Command(k, o, on))
    <3>1. \A k \in Kinds \ SyncKinds, o \in Ops, on \in BOOLEAN :
            Command(k, o, on).kind \notin SyncKinds
      BY DEF Command
    <3> QED
      BY <1>7, <2>2, <3>1, SyncKept
  <2>3. CASE Grown(0, Poll)
    <3>1. Poll.kind \notin SyncKinds
      BY DEF Poll, Command, SyncKinds
    <3> QED
      BY <1>7, <2>3, <3>1, SyncKept
  <2>4. CASE StartFront /\ ~Shrunk(0) /\ ~Shrunk(1) /\ ~Grown(0, Poll)
    <3>1. Front \in Ops /\ Request[Front].on \in BOOLEAN /\ pump_enabled \in BOOLEAN
      BY <2>4, FrontNotNew, Constants DEF StartFront, IInv, TypeInv, Typed, ControlTypes
    <3>2. {"run", "mode", "clock", "control"} \subseteq Kinds \ SyncKinds
      BY DEF Kinds, SyncKinds
    <3>3. ~ConfirmDue
      BY <2>4 DEF StartFront, ConfirmDue
    <3> QED
      BY <1>7, <2>2, <2>4, <3>1, <3>2, <3>3, WireSteps
  <2>5. CASE ConfirmDue
    <3>1. Front \in Ops /\ wire' = Append(wire, Command(IF Cmd(Front) = "clock"
                             THEN "clock_read" ELSE "confirm", Front, FALSE))
      BY <2>5, FrontNotNew DEF ConfirmDue, Running
    <3>2. {"confirm", "clock_read"} \subseteq Kinds \ SyncKinds
      BY DEF Kinds, SyncKinds
    <3> QED
      BY <2>2, <3>1, <3>2, WireMoves
  <2> QED
    BY <1>7, <2>1, <2>3, <2>4, <2>5, WireSteps
<1>8. CASE \/ \E o \in Ops : Submit(o)
           \/ TurnAway \/ RefuseInvalid \/ StartFront \/ NothingToStart \/ Watchdog
           \/ ConfirmDue \/ EndRun \/ EndMode \/ EndControl \/ EndClock \/ EndPoll
           \/ EndConfirm \/ EndClockRead \/ PollDue \/ Connect \/ Panel \/ UNCHANGED vars
  <2>1. UNCHANGED <<sync, chain_done>>
    BY <1>8
    DEF Submit, TurnAway, RefuseInvalid, StartFront, NothingToStart, Watchdog, ConfirmDue,
        EndRun, EndMode, EndControl, EndClock, EndPoll, EndConfirm, EndClockRead, PollDue,
        Connect, Panel, vars, linkVars
  <2>2. ~SyncDue
    <3> SUFFICES ASSUME SyncDue PROVE FALSE
      OBVIOUS
    <3>1. sync' = "reading" /\ sync = "waiting"
      BY DEF SyncDue
    <3> QED
      BY <2>1, <3>1
  <2>3. CASE EndSync
    BY <1>2, <2>3
  <2> QED
    BY <1>7, <2>1, <2>2, <2>3
<1> QED
  BY <1>2, <1>3, <1>4, <1>5, <1>6, <1>8 DEF Next

\* Where the mode in the cache comes from.
LEMMA ModeSteps ==
  ASSUME IInv, [Next]_vars
  PROVE  \/ StartFront
         \/ Disconnect
         \/ AdoptMode /\ UNCHANGED <<commanded_mode, pump_mode>>
         \/ UNCHANGED <<current_mode, mode_command_pending, commanded_mode>>
            /\ (UNCHANGED pump_mode \/ EndMode \/ EndControl \/ Panel)
<1>1. CASE EndPoll
  BY <1>1 DEF EndPoll, controlVars, modeVars, pumpVars
<1>2. CASE EndConfirm
  <2>1. PICK answered \in Answers :
          \/ ConfirmWith(Head(wire).op, answered)
          \/ RefreshWith(answered)
    BY <1>2 DEF EndConfirm
  <2>2. AdoptMode \/ UNCHANGED modeVars
    BY <2>1 DEF ConfirmWith, RefreshWith
  <2>3. UNCHANGED <<commanded_mode, pump_mode>>
    BY <1>2 DEF EndConfirm, pumpVars
  <2> QED
    BY <2>2, <2>3 DEF modeVars
<1>3. CASE EndSync
  <2>1. AdoptMode \/ UNCHANGED <<current_mode, mode_command_pending>>
    BY <1>3 DEF EndSync, SyncRead, controlVars, modeVars
  <2>2. UNCHANGED <<commanded_mode, pump_mode>>
    BY <1>3 DEF EndSync, SyncRead, controlVars, pumpVars
  <2> QED
    BY <2>1, <2>2
<1>4. CASE EndRun
  BY <1>4 DEF EndRun, FinishUnread, controlVars, modeVars
<1>5. CASE EndClockRead
  BY <1>5 DEF EndClockRead, FinishUnread, controlVars, modeVars, pumpVars
<1>6. CASE EndMode \/ EndControl \/ Panel
  BY <1>6 DEF EndMode, EndControl, Panel, controlVars, modeVars
<1>7. CASE \/ \E o \in Ops : Submit(o)
           \/ TurnAway \/ RefuseInvalid \/ NothingToStart \/ Watchdog \/ ConfirmDue
           \/ EndClock \/ EndConfig \/ PollDue \/ StartChain \/ Rearm \/ SyncDue \/ Connect
           \/ UNCHANGED vars
  BY <1>7
  DEF Submit, TurnAway, RefuseInvalid, NothingToStart, Watchdog, ConfirmDue, FinishUnread,
      EndClock, EndConfig, PollDue, StartChain, Rearm, SyncDue, Connect, vars, controlVars,
      modeVars, pumpVars
<1> QED
  BY <1>1, <1>2, <1>3, <1>4, <1>5, <1>6, <1>7 DEF Next

LEMMA ModeInvStep ==
  ASSUME IInv, IInv', FramesInv, ModeInv, [Next]_vars
  PROVE  ModeInv'
<1> DEFINE o == RunningOp'
<1> SUFFICES ASSUME panel' = 0, cut_short' = {}, o \in Ops, Cmd(o) \in {"mode", "setpoint"}
             PROVE  IF mode_command_pending' THEN commanded_mode' = Request[o].mode
                    ELSE current_mode' = pump_mode' \/ pump_mode' = Request[o].mode
  BY DEF ModeInv, Cmd
<1>1. cut_short = {}
  BY PhasesAdvance
<1>2. panel = 0 /\ ~Panel
  <2>1. panel \in Nat /\ (panel' = panel \/ panel' = panel + 1) /\ (Panel => panel' = panel + 1)
    BY PanelSteps DEF Panel, IInv, TypeInv, Typed, PumpTypes
  <2> QED
    BY <2>1
<1>3. CASE StartFront
  <2>1. o = Front
    BY <1>3, FlightStatesNext DEF StartFront, Front
  <2>2. Cmd(Front) = "mode" \/ Cmd(Front) = "setpoint"
    BY <2>1
  <2>3. mode_command_pending' /\ commanded_mode' = Request[Front].mode
    BY <1>3, <2>2
    DEF StartFront, RunSetEnabled, RunSetMode, RunSetClock, RunSetSetpoint, NoteModeCommanded
  <2> QED
    BY <2>1, <2>3
<1>4. CASE Disconnect
  <2>1. o = NoOp
    BY <1>4, FlightStatesNext DEF Disconnect, OnDisconnect
  <2> QED
    BY <2>1, OpsAssumption
<1>5. CASE ~StartFront
  <2>1. o = RunningOp
    BY <1>5, RunningMoves, OpsAssumption
  <2>2. IF mode_command_pending THEN commanded_mode = Request[o].mode
        ELSE current_mode = pump_mode \/ pump_mode = Request[o].mode
    BY <1>1, <1>2, <2>1 DEF ModeInv
  <2>3. CASE AdoptMode /\ UNCHANGED <<commanded_mode, pump_mode>>
    BY <2>3 DEF AdoptMode
  <2>4. CASE UNCHANGED <<current_mode, mode_command_pending, commanded_mode, pump_mode>>
    BY <2>2, <2>4
  <2>5. CASE /\ UNCHANGED <<current_mode, mode_command_pending, commanded_mode>>
             /\ EndMode \/ EndControl
    <3>1. wire # <<>> /\ Head(wire).kind \in Frames
      BY <2>5 DEF EndMode, EndControl, Ends, Frames
    <3>2. Head(wire).op = o
      BY <1>1, <2>1, <3>1, EndsFits DEF Fits
    <3>3. pump_mode' = pump_mode \/ pump_mode' = Request[o].mode
      BY <2>5, <3>2 DEF EndMode, EndControl
    <3> QED
      BY <2>2, <2>5, <3>3
  <2> QED
    BY <1>2, <1>4, <1>5, <2>3, <2>4, <2>5, ModeSteps
<1> QED
  BY <1>3, <1>5

\* One step of KeepsCommandedMode.
KeepsMode ==
  panel = 0 /\ cut_short = {} /\ sync' = sync
    /\ Running /\ Cmd(Front) \in {"mode", "setpoint"} /\ phase'[Front] # "DONE"
      => current_mode' \in {current_mode, Request[Front].mode}

LEMMA KeepsModeStep ==
  ASSUME IInv, ModeInv, SyncInv, [Next]_vars
  PROVE  KeepsMode
<1> SUFFICES ASSUME panel = 0, cut_short = {}, sync' = sync, Running,
                    Cmd(Front) \in {"mode", "setpoint"}, phase'[Front] # "DONE"
             PROVE  current_mode' \in {current_mode, Request[Front].mode}
  BY DEF KeepsMode
<1>1. RunningOp = Front /\ Front \in Ops /\ ~starting /\ queue # <<>>
  BY Flight DEF IInv, RunningOp
<1>2. IF mode_command_pending THEN commanded_mode = Request[Front].mode
      ELSE current_mode = pump_mode \/ pump_mode = Request[Front].mode
  BY <1>1 DEF ModeInv
<1>3. ASSUME ~Ignores, AdoptMode PROVE current_mode' \in {current_mode, Request[Front].mode}
  BY <1>2, <1>3 DEF Ignores, AdoptMode
<1>4. CASE EndPoll
  BY <1>3, <1>4 DEF EndPoll, controlVars, modeVars
<1>5. CASE EndConfirm
  <2> DEFINE op == Head(wire).op
  <2>1. PICK answered \in Answers :
          IF InFlight(op) THEN ConfirmWith(op, answered) ELSE RefreshWith(answered)
    BY <1>5 DEF EndConfirm
  <2>2. CASE InFlight(op) /\ Cmd(op) = "mode" /\ Verdict(op, answered) = "rejected"
    <3>1. Finish("rejected")
      BY <2>1, <2>2 DEF ConfirmWith
    <3>2. phase'[Front] = "DONE"
      BY <1>1, <3>1 DEF Finish, IInv, TypeInv, Typed, OpTypes
    <3> QED
      BY <3>2
  <2>3. CASE ~(InFlight(op) /\ Cmd(op) = "mode" /\ Verdict(op, answered) = "rejected")
    <3>1. UNCHANGED modeVars \/ (~Ignores /\ AdoptMode)
      BY <2>1, <2>3 DEF ConfirmWith, RefreshWith
    <3> QED
      BY <1>3, <3>1 DEF modeVars
  <2> QED
    BY <2>2, <2>3
<1>6. CASE EndSync
  <2>1. wire # <<>> /\ Head(wire).kind = "sync" /\ "sync" \in SyncKinds
    BY <1>6 DEF EndSync, Ends, SyncKinds
  <2>2. sync = "reading"
    BY <2>1, SyncHead
  <2>3. sync' # "reading"
    BY <1>6 DEF EndSync, SyncRead
  <2> QED
    BY <2>2, <2>3
<1>7. CASE StartFront
  BY <1>1, <1>7 DEF StartFront
<1>8. CASE \/ \E o \in Ops : Submit(o)
           \/ TurnAway \/ RefuseInvalid \/ NothingToStart \/ Watchdog \/ ConfirmDue
           \/ EndRun \/ EndMode \/ EndControl \/ EndClock \/ EndClockRead \/ EndConfig
           \/ PollDue \/ StartChain \/ Rearm \/ SyncDue \/ Connect \/ Disconnect \/ Panel
           \/ UNCHANGED vars
  <2>1. UNCHANGED current_mode
    BY <1>8
    DEF Submit, TurnAway, RefuseInvalid, NothingToStart, Watchdog, ConfirmDue, FinishUnread,
        EndRun, EndMode, EndControl, EndClock, EndClockRead, EndConfig, PollDue, StartChain,
        Rearm, SyncDue, Connect, Disconnect, Panel, vars, controlVars, modeVars
  <2> QED
    BY <2>1
<1> QED
  BY <1>4, <1>5, <1>6, <1>7, <1>8 DEF Next

\* Issue #91: while a mode command is carried out neither a poll nor its own
\* confirm read puts the mode it replaces back into the cache.
THEOREM CommandedModeKept == Spec => KeepsCommandedMode
<1>1. Init => SyncInv /\ ModeInv
  <2> SUFFICES ASSUME Init PROVE SyncInv /\ ModeInv
    OBVIOUS
  <2>1. Len(wire) = 0 /\ sync = "none"
    BY DEF Init
  <2>2. RunningOp \notin Ops
    BY OpsAssumption DEF Init, RunningOp, Running
  <2> QED
    BY <2>1, <2>2 DEF SyncInv, ModeInv
<1>2. IInv /\ SyncInv /\ [Next]_vars => SyncInv'
  BY SyncInvStep
<1>3. IInv /\ IInv' /\ FramesInv /\ ModeInv /\ [Next]_vars => ModeInv'
  BY ModeInvStep
<1>4. IInv /\ ModeInv /\ SyncInv /\ [Next]_vars => KeepsMode
  BY KeepsModeStep
<1>5. Spec => [][KeepsMode]_vars
  BY <1>1, <1>2, <1>3, <1>4, ServiceAlways, PTL DEF Spec
<1> QED
  BY <1>5 DEF KeepsCommandedMode, KeepsMode
=============================================================================
