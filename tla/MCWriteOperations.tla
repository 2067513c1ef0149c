-------------------------- MODULE MCWriteOperations --------------------------
(***************************************************************************)
(* Instances of WriteOperations for TLC: the pump has two modes, of which   *)
(* one or both take a setpoint, and stores any setpoint above its limit as  *)
(* the limit.                                                               *)
(***************************************************************************)
EXTENDS WriteOperations

CONSTANTS start, stop, temp, low, high, bad, clock, SPEED, TEMP

TwoModes == {SPEED, TEMP}
OnlySpeed == {SPEED}

\* 1 and 2 are within the pump's range, 3 is stored as 2.
SomeValues == 1..3
Limited    == [v \in SomeValues |-> IF v = 3 THEN 2 ELSE v]

Req(cmd, on, mode, value) == [cmd |-> cmd, on |-> on, mode |-> mode, value |-> value]
Requests ==
  [o \in Ops |->
     CASE o = start -> Req("enabled", TRUE, SPEED, NotANumber)
       [] o = stop  -> Req("enabled", FALSE, SPEED, NotANumber)
       [] o = temp  -> Req("mode", FALSE, TEMP, NotANumber)
       [] o = low   -> Req("setpoint", FALSE, SPEED, 1)
       [] o = high  -> Req("setpoint", FALSE, SPEED, 3)
       [] o = bad   -> Req("setpoint", FALSE, TEMP, 1)
       [] o = clock -> Req("clock", FALSE, SPEED, NotANumber)]

VerdictOps == {start, low, high}
ClockOps   == {clock, start, stop}
RunOps     == {start, stop, low}
LiveOps    == {clock, temp, bad}
NoticeOps  == {stop, temp}
=============================================================================
