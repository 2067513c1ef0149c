------------------------------ MODULE MCDemand ------------------------------
(* Demand with a pump of two running speeds, one below the trusted range.  *)
(* Flows are in steps of 0.15 GPM.                                         *)
EXTENDS Demand

MCSpeeds == {"off", "slow", "fast"}
MCTrusted == {"fast"}
MCLoop == [s \in Speeds |-> IF s = "off" THEN 0 ELSE IF s = "slow" THEN 5 ELSE 10]
MCEstimate == [s \in Speeds |-> IF s = "off" THEN 0 ELSE IF s = "slow" THEN 2 ELSE 10]
MCTwoSpeeds == {"off", "fast"}
MCDraws == {0, 6}
MCRollovers == {"capture", "metered", "no_draw"}
MCNoRollover == {}
=============================================================================
