---------------------------- MODULE MCReassembly ----------------------------
(***************************************************************************)
(* An instance of Reassembly for TLC, scaled down: one CRC byte, a length   *)
(* floor of 1, and three frames: the shortest there is, one whose payload   *)
(* looks like the start of a frame, and one that needs three notifications. *)
(***************************************************************************)
EXTENDS Reassembly

CONSTANTS short, lookalike, long

SomeFrames == {short, lookalike, long}
SomeBytes  == [f \in SomeFrames |->
                 CASE f = short     -> <<5, 1, 0, 0>>
                   [] f = lookalike -> <<5, 2, 5, 2, 0>>
                   [] f = long      -> <<5, 4, 0, 1, 1, 1, 0>>]
=============================================================================
