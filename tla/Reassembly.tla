------------------------------ MODULE Reassembly ------------------------------
(***************************************************************************)
(* The inbound half of the transport (components/alpha_hwr/transport.cpp,   *)
(* on_notification()): BLE notifications are fragments of frames, put       *)
(* together by the length byte of the frame they begin with, trimmed,       *)
(* checked, and handed on whole.                                            *)
(*                                                                         *)
(* The link may lose a notification or corrupt a byte of it.  A byte keeps  *)
(* the frame and the position it was sent from, so that the CRC can be what *)
(* it is for: it accepts the bytes of one frame, all of them, in order.     *)
(***************************************************************************)
EXTENDS Naturals, Sequences

CONSTANTS
  Frames,            \* the frames the pump may send
  Bytes,             \* [Frames -> sequences of byte values]
  Start,             \* FRAME_START_RESPONSE
  MinLengthField,    \* protocol::MIN_LENGTH_FIELD
  Overhead,          \* bytes of a frame that its length field does not count
  MaxByte,           \* 255, the largest value of a byte
  MaxPacketSize,     \* MAX_PACKET_SIZE
  FragmentMax,       \* bytes of a notification
  ReassemblyTimeout, \* REASSEMBLY_TIMEOUT_MS
  CrcMax,            \* 0xFFFFFFFF, where crc_drops_ saturates
  Garbage,           \* environment: values a corrupted byte may take
  MaxTroubles,       \* environment: how often the framing may be disturbed
  NoFrame

ASSUME FramingAssumption ==
  /\ Start \in 0..MaxByte /\ MaxByte \in Nat /\ MinLengthField \in Nat \ {0}
  /\ Overhead \in Nat /\ Overhead >= 2 /\ MaxPacketSize \in Nat
  /\ MaxByte + Overhead <= MaxPacketSize      \* MAX_TELEGRAM_LEN
  /\ FragmentMax \in Nat \ {0} /\ ReassemblyTimeout \in Nat /\ CrcMax \in Nat
  /\ MaxTroubles \in Nat
  /\ Garbage \subseteq 0..MaxByte
  /\ NoFrame \notin Frames

\* Frames as the pump builds them.
ASSUME FramesAssumption ==
  \A f \in Frames :
    /\ Bytes[f] \in Seq(0..MaxByte)
    /\ Len(Bytes[f]) >= MinLengthField + Overhead
    /\ Bytes[f][1] = Start
    /\ Bytes[f][2] = Len(Bytes[f]) - Overhead

VARIABLES
  reassembling,    \* reassembling_
  buffer,          \* reassembly_buffer_
  expected,        \* expected_packet_length_
  started_age,     \* now - reassembly_started_ms_
  crc_drops,       \* crc_drops_
  \* The pump and the link, external.
  sending, sent,   \* the frame being sent, and how much of it has been
  frame_age,       \* since its first notification
  intact,          \* has all of it arrived as it was sent
  fresh,           \* did it begin more than ReassemblyTimeout after trouble
  quiet,           \* since the framing was last disturbed
  troubles,        \* how often it was
  \* History, read by the properties only.
  missed,          \* an intact, fresh frame was not dispatched
  overflowed       \* the overflow guard fired

bufferVars == <<reassembling, buffer, expected, started_age>>
linkVars   == <<sending, sent, frame_age, intact, fresh, quiet, troubles>>
vars == <<bufferVars, crc_drops, linkVars, missed, overflowed>>

Byte == [of : Frames \cup {NoFrame}, at : Nat, val : 0..MaxByte]

Genuine(f, i) == [of |-> f, at |-> i, val |-> Bytes[f][i]]
Older(age) == IF age <= ReassemblyTimeout THEN age + 1 ELSE age

Init ==
  /\ reassembling = FALSE /\ buffer = <<>> /\ expected = 0 /\ started_age = 0
  /\ crc_drops = 0
  /\ sending = NoFrame /\ sent = 0 /\ frame_age = 0
  /\ intact = FALSE /\ fresh = FALSE
  /\ quiet = ReassemblyTimeout + 1 /\ troubles = 0
  /\ missed = FALSE /\ overflowed = FALSE

-----------------------------------------------------------------------------
(* on_notification(). *)

\* is_frame_start and the floor on the length byte, judged when it is there.
IsFrameStart(byte) == byte.val = Start
DeclaresAPossibleFrame(data) == Len(data) >= 2 => data[2].val >= MinLengthField

\* calculate_expected_length
ExpectedLength(bytes) == bytes[2].val + Overhead

\* Faulty variant of Stale: a truncated frame is waited for for ever.
StaleNever == FALSE

Stale    == reassembling /\ started_age > ReassemblyTimeout
MidFrame == reassembling /\ ~Stale

NewPacket(data) ==
  ~MidFrame /\ IsFrameStart(data[1]) /\ DeclaresAPossibleFrame(data)

\* The buffer and the expected length once data is in.
Collected(data) == IF MidFrame THEN buffer \o data ELSE data
\* Faulty variant of Expects: a length byte in a later fragment is not read.
ExpectsAtStart(data) ==
  IF NewPacket(data) /\ Len(data) >= 2 THEN ExpectedLength(data)
  ELSE IF Stale THEN 0 ELSE expected

Expects(data) ==
  LET known == IF Stale THEN 0 ELSE expected
  IN IF Len(Collected(data)) >= 2 /\ (NewPacket(data) \/ known = 0)
     THEN ExpectedLength(Collected(data)) ELSE known

Completes(data) == Expects(data) > 0 /\ Len(Collected(data)) >= Expects(data)

\* What the completed frame is checked and dispatched as.
Trimmed(data) == SubSeq(Collected(data), 1, Expects(data))

\* frame_crc_valid
CrcValid(bytes) ==
  \E f \in Frames :
    /\ Len(bytes) = Len(Bytes[f])
    /\ \A i \in 1..Len(bytes) : bytes[i] = Genuine(f, i)

Dispatched(data, f) ==
  /\ MidFrame \/ NewPacket(data)
  /\ Completes(data) /\ CrcValid(Trimmed(data)) /\ Trimmed(data)[1].of = f

ClearBuffer == reassembling' = FALSE /\ buffer' = <<>> /\ expected' = 0

\* Neither a frame start nor part of a frame.
Ignore(data) ==
  /\ ~MidFrame /\ ~NewPacket(data)
  /\ ClearBuffer
  /\ UNCHANGED <<started_age, crc_drops, overflowed>>

\* A fragment that leaves the frame incomplete, with the overflow backstop.
Collect(data) ==
  /\ MidFrame \/ NewPacket(data)
  /\ ~Completes(data)
  /\ IF Len(Collected(data)) > MaxPacketSize
     THEN ClearBuffer /\ overflowed' = TRUE
     ELSE /\ reassembling' = TRUE
          /\ buffer' = Collected(data)
          /\ expected' = Expects(data)
          /\ UNCHANGED overflowed
  /\ started_age' = IF NewPacket(data) THEN 0 ELSE started_age
  /\ UNCHANGED crc_drops

\* Faulty variants of Finish: the counter wraps past its end, and a frame that
\* fails its CRC stays in the buffer.
FinishUnsaturated(data) ==
  /\ MidFrame \/ NewPacket(data)
  /\ Completes(data)
  /\ crc_drops' = IF ~CrcValid(Trimmed(data)) THEN crc_drops + 1 ELSE crc_drops
  /\ ClearBuffer
  /\ started_age' = IF NewPacket(data) THEN 0 ELSE started_age
  /\ UNCHANGED overflowed
FinishKeeping(data) ==
  /\ MidFrame \/ NewPacket(data)
  /\ Completes(data)
  /\ crc_drops' = IF ~CrcValid(Trimmed(data)) /\ crc_drops < CrcMax
                  THEN crc_drops + 1 ELSE crc_drops
  /\ IF CrcValid(Trimmed(data)) THEN ClearBuffer
     ELSE reassembling' = TRUE /\ buffer' = Trimmed(data) /\ expected' = Expects(data)
  /\ started_age' = IF NewPacket(data) THEN 0 ELSE started_age
  /\ UNCHANGED overflowed

\* A fragment that completes a frame: dispatched, or counted and dropped.
Finish(data) ==
  /\ MidFrame \/ NewPacket(data)
  /\ Completes(data)
  /\ crc_drops' = IF ~CrcValid(Trimmed(data)) /\ crc_drops < CrcMax
                  THEN crc_drops + 1 ELSE crc_drops
  /\ ClearBuffer
  /\ started_age' = IF NewPacket(data) THEN 0 ELSE started_age
  /\ UNCHANGED overflowed

OnNotification(data) == Ignore(data) \/ Collect(data) \/ Finish(data)

\* reset(), on disconnection; crc_drops_ is a lifetime count.
Reset ==
  /\ ClearBuffer
  /\ sending' = NoFrame /\ sent' = 0 /\ frame_age' = 0
  /\ intact' = FALSE /\ fresh' = FALSE
  /\ quiet' = ReassemblyTimeout + 1
  /\ UNCHANGED <<started_age, crc_drops, troubles, missed, overflowed>>

-----------------------------------------------------------------------------
(* The pump sends one frame at a time, within REASSEMBLY_TIMEOUT_MS          *)
(* ("any real frame completes far inside this window"), external.           *)

Begin(f) ==
  /\ sending = NoFrame
  /\ sending' = f /\ sent' = 0 /\ frame_age' = 0 /\ intact' = TRUE
  /\ fresh' = (quiet > ReassemblyTimeout)
  /\ UNCHANGED <<bufferVars, crc_drops, quiet, troubles, missed, overflowed>>

\* The next n bytes of the frame, and the frame's end.
Fragment(n) == [i \in 1..n |-> Genuine(sending, sent + i)]
Last(n)     == sent + n = Len(Bytes[sending])

Advance(n) ==
  /\ sending' = IF Last(n) THEN NoFrame ELSE sending
  /\ sent' = IF Last(n) THEN 0 ELSE sent + n
  /\ UNCHANGED <<frame_age, fresh>>

CanSend(n) == sending # NoFrame /\ sent + n <= Len(Bytes[sending])

Disturbed(yes) ==
  /\ yes => troubles < MaxTroubles
  /\ quiet' = IF yes THEN 0 ELSE quiet
  /\ troubles' = IF yes THEN troubles + 1 ELSE troubles

\* A notification arrives as sent.  Payload that is taken for a frame start
\* disturbs the framing although nothing is wrong with the link.
Arrive(n) ==
  /\ CanSend(n)
  /\ OnNotification(Fragment(n))
  /\ Disturbed(sent > 0 /\ NewPacket(Fragment(n)))
  /\ missed' = (missed \/ (Last(n) /\ intact /\ fresh /\ ~Dispatched(Fragment(n), sending)))
  /\ intact' = intact
  /\ Advance(n)

\* It arrives with byte i corrupted.
Corrupt(n, i, v) ==
  LET data == [Fragment(n) EXCEPT ![i] = [of |-> NoFrame, at |-> 0, val |-> v]] IN
  /\ CanSend(n) /\ v # Fragment(n)[i].val
  /\ OnNotification(data)
  /\ Disturbed(TRUE)
  /\ intact' = FALSE /\ missed' = missed
  /\ Advance(n)

Lose(n) ==
  /\ CanSend(n)
  /\ Disturbed(TRUE)
  /\ intact' = FALSE
  /\ Advance(n)
  /\ UNCHANGED <<bufferVars, crc_drops, missed, overflowed>>

Tick ==
  /\ sending # NoFrame /\ sent > 0 => frame_age < ReassemblyTimeout
  /\ frame_age' = IF sent > 0 THEN frame_age + 1 ELSE 0   \* an age nobody reads is 0
  /\ fresh' = IF sending # NoFrame /\ sent = 0 THEN Older(quiet) > ReassemblyTimeout ELSE fresh
  /\ started_age' = IF reassembling THEN Older(started_age) ELSE 0
  /\ quiet' = Older(quiet)
  /\ UNCHANGED <<reassembling, buffer, expected, crc_drops, sending, sent, intact,
                 troubles, missed, overflowed>>

Next ==
  \/ \E f \in Frames : Begin(f)
  \/ \E n \in 1..FragmentMax :
       \/ Arrive(n)
       \/ Lose(n)
       \/ \E i \in 1..n, v \in Garbage : Corrupt(n, i, v)
  \/ Reset \/ Tick

Spec == Init /\ [][Next]_vars
-----------------------------------------------------------------------------
(* Properties. *)

\* Every variable keeps the type transport.h declares for it, crc_drops_ below
\* the value where it saturates.
TypeOK ==
  /\ reassembling \in BOOLEAN /\ buffer \in Seq(Byte) /\ expected \in Nat
  /\ started_age \in Nat /\ crc_drops \in 0..CrcMax
  /\ sending \in Frames \cup {NoFrame} /\ sent \in Nat /\ frame_age \in Nat
  /\ intact \in BOOLEAN /\ fresh \in BOOLEAN /\ quiet \in Nat /\ troubles \in Nat
  /\ missed \in BOOLEAN /\ overflowed \in BOOLEAN

\* "A backstop that, as the code stands, CANNOT FIRE" (the overflow guard in
\* on_notification(), issue #278), whatever arrives and in whatever pieces.
NeverOverflows == ~overflowed

\* A broken frame costs what follows it within REASSEMBLY_TIMEOUT_MS and no
\* more (the staleness guard: "a truncated frame cannot wedge reassembly
\* forever"): a frame that arrives whole and begins later than that is
\* dispatched, and one after a reconnection is dispatched at once.
Recovers == ~missed

\* link_crc_drops measures the radio (issue #260): no disturbance of the
\* framing is counted twice, and an undisturbed link counts none.
DropsCounted == crc_drops <= troubles
=============================================================================
