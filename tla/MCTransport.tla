----------------------------- MODULE MCTransport -----------------------------
(***************************************************************************)
(* Instances of Transport for TLC.  One tick stands for about 200 ms, so    *)
(* that AckTimeout, StaleWindow and the hold keep the code's order:         *)
(* Pacing < PeerStale <= AckTimeout < StaleWindow, PeerStale < ResyncHold.  *)
(***************************************************************************)
EXTENDS Transport

CONSTANTS s1, s2, r1, p1

\* A two-chunk SET, a typed read that may be refused, a SET and a poll.
Mixed     == {s1, s2, r1, p1}
MixedKind == [c \in Mixed |-> CASE c = r1 -> "read" [] c = p1 -> "poll" [] OTHER -> "set"]
MixedLen  == [c \in Mixed |-> IF c = s1 THEN 2 ELSE 1]
MixedType == [c \in Mixed |-> IF c = r1 THEN r1 ELSE NoCmd]
MixedRefusable == {r1}
=============================================================================
