--------------------------- MODULE ReassemblyProofs ---------------------------
(***************************************************************************)
(* Theorems about Reassembly for every set of frames, every way to cut them *)
(* into notifications and every corruption of them.                         *)
(***************************************************************************)
EXTENDS Reassembly, SequenceTheorems, TLAPS

\* What a notification is: at least one byte.
Notification(data) == data \in Seq(Byte) /\ Len(data) >= 1

\* A partial frame whose length is not known is one byte long; one whose
\* length is known is shorter than that, and the length is one a byte can say.
PartialInv ==
  /\ ~reassembling => expected = 0
  /\ reassembling => Len(buffer) >= 1
  /\ reassembling /\ expected = 0 => Len(buffer) = 1
  /\ reassembling /\ expected > 0 => expected <= MaxPacketSize
  /\ ~overflowed

\* A buffer whose length is not known, or not reached, fits.
LEMMA StillFits ==
  ASSUME NEW len \in Nat, NEW want \in Nat, want <= MaxPacketSize,
         want = 0 => len = 1, want = 0 \/ len < want
  PROVE  ~(len > MaxPacketSize)
  BY FramingAssumption

\* No partial frame, no length: nothing to say about it.
LEMMA EmptyKeeps ==
  ASSUME PartialInv, ClearBuffer, overflowed' = overflowed
  PROVE  /\ PartialInv'
         /\ reassembling' \in BOOLEAN /\ buffer' \in Seq(Byte) /\ expected' \in Nat
<1>1. reassembling' = FALSE /\ expected' = 0 /\ ~overflowed' /\ buffer' = <<>>
  BY DEF ClearBuffer, PartialInv
<1>2. PartialInv'
  BY <1>1, Zenon DEF PartialInv
<1>3. buffer' \in Seq(Byte)
  BY <1>1
<1>4. expected' \in Nat
  BY <1>1
<1> QED
  BY <1>1, <1>2, <1>3, <1>4, Zenon

\* The bytes that are collected, and the length they are taken to have.
LEMMA CollectedFacts ==
  ASSUME TypeOK, PartialInv, NEW data, Notification(data), MidFrame \/ NewPacket(data)
  PROVE  /\ Collected(data) \in Seq(Byte)
         /\ Len(Collected(data)) \in Nat /\ Len(Collected(data)) >= 1
         /\ Expects(data) \in Nat /\ Expects(data) <= MaxPacketSize
         /\ Expects(data) = 0 => Len(Collected(data)) = 1
<1>1. Collected(data) \in Seq(Byte) /\ Len(Collected(data)) >= 1
  BY DEF Collected, Notification, TypeOK, PartialInv, MidFrame
<1>2. Len(Collected(data)) \in Nat /\ (Len(Collected(data)) >= 2 \/ Len(Collected(data)) = 1)
  BY <1>1
<1>3. ASSUME Len(Collected(data)) >= 2
      PROVE  /\ ExpectedLength(Collected(data)) \in Nat
             /\ ExpectedLength(Collected(data)) > 0
             /\ ExpectedLength(Collected(data)) <= MaxPacketSize
  <2>1. Collected(data)[2] \in Byte
    BY <1>1, <1>3
  <2>2. Collected(data)[2].val \in 0..MaxByte
    BY <2>1 DEF Byte
  <2> QED
    BY <2>2, FramingAssumption DEF ExpectedLength
<1>4. MaxPacketSize \in Nat /\ expected \in Nat
  BY FramingAssumption DEF TypeOK
<1>5. CASE NewPacket(data)
  <2>1. ~MidFrame /\ (Stale \/ expected = 0)
    BY <1>5 DEF NewPacket, MidFrame, PartialInv
  <2>2. Expects(data) = IF Len(Collected(data)) >= 2 THEN ExpectedLength(Collected(data)) ELSE 0
    BY <1>5, <2>1 DEF Expects
  <2>3. CASE Len(Collected(data)) >= 2
    BY <1>1, <1>2, <1>3, <2>2, <2>3
  <2>4. CASE Len(Collected(data)) = 1
    <3>1. Expects(data) = 0
      BY <2>2, <2>4
    <3> QED
      BY <1>1, <1>2, <1>4, <2>4, <3>1
  <2> QED
    BY <1>2, <2>3, <2>4
<1>6. CASE MidFrame
  <2>1. reassembling /\ ~Stale /\ ~NewPacket(data)
    BY <1>6 DEF MidFrame, NewPacket
  <2>2. Expects(data) = IF Len(Collected(data)) >= 2 /\ expected = 0
                        THEN ExpectedLength(Collected(data)) ELSE expected
    BY <2>1 DEF Expects
  <2>3. CASE expected = 0 /\ Len(Collected(data)) >= 2
    BY <1>1, <1>2, <1>3, <2>2, <2>3
  <2>4. CASE expected = 0 /\ Len(Collected(data)) = 1
    <3>1. Expects(data) = 0
      BY <2>2, <2>4
    <3> QED
      BY <1>1, <1>2, <1>4, <2>4, <3>1
  <2>5. CASE expected # 0
    <3>1. Expects(data) = expected /\ expected <= MaxPacketSize
      BY <1>4, <2>1, <2>2, <2>5 DEF PartialInv
    <3> QED
      BY <1>1, <1>2, <1>4, <2>5, <3>1
  <2> QED
    BY <1>2, <2>3, <2>4, <2>5
<1> QED
  BY <1>5, <1>6

\* A notification keeps the type and the shape of the partial frame.
LEMMA OnNotificationKeeps ==
  ASSUME TypeOK, PartialInv, NEW data, Notification(data), OnNotification(data)
  PROVE  /\ PartialInv'
         /\ reassembling' \in BOOLEAN /\ buffer' \in Seq(Byte) /\ expected' \in Nat
         /\ started_age' \in Nat /\ crc_drops' \in 0..CrcMax /\ overflowed' \in BOOLEAN
<1>1. CASE Ignore(data)
  <2>1. ClearBuffer /\ overflowed' = overflowed
        /\ started_age' = started_age /\ crc_drops' = crc_drops
    BY <1>1 DEF Ignore
  <2> QED
    BY <2>1, EmptyKeeps DEF TypeOK
<1>2. CASE Collect(data)
  <2>1. Collected(data) \in Seq(Byte) /\ Len(Collected(data)) \in Nat
        /\ Len(Collected(data)) >= 1 /\ Expects(data) \in Nat
        /\ Expects(data) <= MaxPacketSize
        /\ (Expects(data) = 0 => Len(Collected(data)) = 1)
    BY <1>2, CollectedFacts DEF Collect
  <2>2. Expects(data) = 0 \/ Len(Collected(data)) < Expects(data)
    BY <1>2, <2>1 DEF Collect, Completes
  <2>3. ~(Len(Collected(data)) > MaxPacketSize)
    BY <2>1, <2>2, StillFits, Zenon
  <2>4. /\ reassembling' = TRUE /\ buffer' = Collected(data) /\ expected' = Expects(data)
        /\ overflowed' = overflowed /\ crc_drops' = crc_drops
    BY <1>2, <2>3 DEF Collect
  <2>5. started_age' \in Nat
    BY <1>2 DEF Collect, TypeOK
  <2>6. PartialInv'
    BY <2>1, <2>4 DEF PartialInv
  <2> QED
    BY <2>1, <2>4, <2>5, <2>6 DEF TypeOK
<1>3. CASE Finish(data)
  <2>1. ClearBuffer /\ overflowed' = overflowed /\ started_age' \in Nat
    BY <1>3 DEF Finish, TypeOK
  <2>2. crc_drops' \in 0..CrcMax
    BY <1>3, FramingAssumption DEF Finish, TypeOK
  <2> QED
    BY <2>1, <2>2, EmptyKeeps DEF TypeOK
<1> QED
  BY <1>1, <1>2, <1>3 DEF OnNotification

\* What the pump sends is made of bytes, corrupted or not.
LEMMA FragmentsAreNotifications ==
  ASSUME TypeOK, NEW n \in Nat \ {0}, CanSend(n)
  PROVE  /\ Notification(Fragment(n))
         /\ \A i \in 1..n, v \in Garbage :
              Notification([Fragment(n) EXCEPT ![i] = [of |-> NoFrame, at |-> 0, val |-> v]])
<1>1. sending \in Frames /\ sent \in Nat /\ sent + n <= Len(Bytes[sending])
  BY FramingAssumption DEF CanSend, TypeOK
<1>2. Bytes[sending] \in Seq(0..MaxByte)
  BY <1>1, FramesAssumption
<1>3. ASSUME NEW i \in 1..n PROVE Bytes[sending][sent + i] \in 0..MaxByte
  <2>1. sent + i \in 1..Len(Bytes[sending])
    BY <1>1, <1>2
  <2> QED
    BY <1>2, <2>1, ElementOfSeq
<1>4. \A i \in 1..n : Genuine(sending, sent + i) \in Byte
  BY <1>1, <1>3 DEF Genuine, Byte
<1>5. Fragment(n) \in [1..n -> Byte]
  BY <1>4 DEF Fragment
<1>6. \A v \in Garbage : [of |-> NoFrame, at |-> 0, val |-> v] \in Byte
  BY FramingAssumption DEF Byte
<1>7. \A i \in 1..n, v \in Garbage :
        [Fragment(n) EXCEPT ![i] = [of |-> NoFrame, at |-> 0, val |-> v]] \in [1..n -> Byte]
  BY <1>5, <1>6
<1>8. \A s \in [1..n -> Byte] : s \in Seq(Byte) /\ Len(s) = n
  OBVIOUS
<1> QED
  BY <1>5, <1>7, <1>8 DEF Notification

LEMMA InvInductive ==
  ASSUME TypeOK, PartialInv, [Next]_vars
  PROVE  TypeOK' /\ PartialInv'
<1>1. ASSUME NEW f \in Frames, Begin(f) PROVE TypeOK' /\ PartialInv'
  BY <1>1 DEF Begin, TypeOK, PartialInv, bufferVars
<1>2. ASSUME NEW n \in Nat \ {0}, CanSend(n), Advance(n)
      PROVE  /\ sending' \in Frames \cup {NoFrame} /\ sent' \in Nat
             /\ frame_age' \in Nat /\ fresh' \in BOOLEAN
  BY <1>2 DEF Advance, TypeOK
<1>3. ASSUME NEW yes \in BOOLEAN, Disturbed(yes)
      PROVE  quiet' \in Nat /\ troubles' \in Nat
  BY <1>3 DEF Disturbed, TypeOK
<1>4. ASSUME NEW n \in 1..FragmentMax, Arrive(n) PROVE TypeOK' /\ PartialInv'
  <2>1. n \in Nat \ {0} /\ CanSend(n) /\ Notification(Fragment(n)) /\ OnNotification(Fragment(n))
    BY <1>4, FramingAssumption, FragmentsAreNotifications DEF Arrive
  <2>2. /\ PartialInv'
        /\ reassembling' \in BOOLEAN /\ buffer' \in Seq(Byte) /\ expected' \in Nat
        /\ started_age' \in Nat /\ crc_drops' \in 0..CrcMax /\ overflowed' \in BOOLEAN
    BY <2>1, OnNotificationKeeps
  <2>3. Advance(n) /\ intact' = intact
    BY <1>4 DEF Arrive
  <2>4. quiet' \in Nat /\ troubles' \in Nat
    BY <1>3, <1>4 DEF Arrive
  <2>5. missed' \in BOOLEAN
    BY <1>4 DEF Arrive, TypeOK
  <2> QED
    BY <1>2, <2>1, <2>2, <2>3, <2>4, <2>5 DEF TypeOK
<1>5. ASSUME NEW n \in 1..FragmentMax, Lose(n) PROVE TypeOK' /\ PartialInv'
  <2>1. n \in Nat \ {0}
    BY FramingAssumption
  <2>2. /\ CanSend(n) /\ Advance(n) /\ Disturbed(TRUE) /\ intact' = FALSE
        /\ UNCHANGED <<bufferVars, crc_drops, missed, overflowed>>
    BY <1>5 DEF Lose
  <2>3. quiet' \in Nat /\ troubles' \in Nat
    BY <1>3, <2>2
  <2> QED
    BY <1>2, <2>1, <2>2, <2>3 DEF TypeOK, PartialInv, bufferVars
<1>6. ASSUME NEW n \in 1..FragmentMax, NEW i \in 1..n, NEW v \in Garbage, Corrupt(n, i, v)
      PROVE  TypeOK' /\ PartialInv'
  <2> DEFINE data == [Fragment(n) EXCEPT ![i] = [of |-> NoFrame, at |-> 0, val |-> v]]
  <2>1. n \in Nat \ {0} /\ CanSend(n)
    BY <1>6, FramingAssumption DEF Corrupt
  <2>2. Notification(data) /\ OnNotification(data)
    BY <1>6, <2>1, FragmentsAreNotifications DEF Corrupt
  <2>3. /\ PartialInv'
        /\ reassembling' \in BOOLEAN /\ buffer' \in Seq(Byte) /\ expected' \in Nat
        /\ started_age' \in Nat /\ crc_drops' \in 0..CrcMax /\ overflowed' \in BOOLEAN
    BY <2>2, OnNotificationKeeps
  <2>4. Advance(n) /\ Disturbed(TRUE) /\ intact' = FALSE /\ missed' = missed
    BY <1>6 DEF Corrupt
  <2>5. quiet' \in Nat /\ troubles' \in Nat
    BY <1>3, <2>4
  <2> QED
    BY <1>2, <2>1, <2>3, <2>4, <2>5 DEF TypeOK
<1>7. CASE Reset
  <2>1. ClearBuffer /\ overflowed' = overflowed
    BY <1>7 DEF Reset
  <2>2. /\ PartialInv'
        /\ reassembling' \in BOOLEAN /\ buffer' \in Seq(Byte) /\ expected' \in Nat
    BY <2>1, EmptyKeeps
  <2>3. /\ sending' \in Frames \cup {NoFrame} /\ sent' \in Nat /\ frame_age' \in Nat
        /\ quiet' \in Nat
    BY <1>7, FramingAssumption DEF Reset
  <2>4. intact' = FALSE /\ fresh' = FALSE
        /\ UNCHANGED <<started_age, crc_drops, troubles, missed, overflowed>>
    BY <1>7 DEF Reset
  <2> QED
    BY <2>2, <2>3, <2>4 DEF TypeOK
<1>8. CASE Tick
  <2>1. UNCHANGED <<reassembling, buffer, expected, crc_drops, sending, sent, intact,
                    troubles, missed, overflowed>>
    BY <1>8 DEF Tick
  <2>2. started_age' \in Nat /\ quiet' \in Nat /\ frame_age' \in Nat
    BY <1>8 DEF Tick, Older, TypeOK
  <2>3. fresh' \in BOOLEAN
    <3>1. fresh \in BOOLEAN
      BY DEF TypeOK
    <3>2. CASE sending # NoFrame /\ sent = 0
      <4>1. fresh' = (Older(quiet) > ReassemblyTimeout)
        BY <1>8, <3>2 DEF Tick
      <4>2. CASE Older(quiet) > ReassemblyTimeout
        BY <4>1, <4>2, Zenon
      <4>3. CASE ~(Older(quiet) > ReassemblyTimeout)
        <5>1. (Older(quiet) > ReassemblyTimeout) = FALSE
          BY <4>3, SMT
        <5> QED
          BY <4>1, <5>1
      <4> QED
        BY <4>2, <4>3
    <3>3. CASE ~(sending # NoFrame /\ sent = 0)
      <4>1. fresh' = fresh
        BY <1>8, <3>3 DEF Tick
      <4> QED
        BY <3>1, <4>1
    <3> QED
      BY <3>2, <3>3
  <2>4. PartialInv'
    BY <2>1 DEF PartialInv
  <2> QED
    BY <2>1, <2>2, <2>3, <2>4 DEF TypeOK
<1>9. CASE UNCHANGED vars
  BY <1>9 DEF vars, bufferVars, linkVars, TypeOK, PartialInv
<1> QED
  BY <1>1, <1>4, <1>5, <1>6, <1>7, <1>8, <1>9 DEF Next

LEMMA InvInitially == Init => TypeOK /\ PartialInv
<1> SUFFICES ASSUME Init PROVE TypeOK /\ PartialInv
  OBVIOUS
<1>1. reassembling = FALSE /\ expected = 0 /\ overflowed = FALSE /\ buffer = <<>>
  BY DEF Init
<1>2. PartialInv
  BY <1>1, Zenon DEF PartialInv
<1>3. buffer \in Seq(Byte)
  BY <1>1
<1>4. started_age \in Nat /\ crc_drops \in 0..CrcMax
  BY FramingAssumption DEF Init
<1>5. /\ sending \in Frames \cup {NoFrame} /\ sent \in Nat /\ frame_age \in Nat
      /\ quiet \in Nat /\ troubles \in Nat
  BY FramingAssumption DEF Init
<1>6. intact = FALSE /\ fresh = FALSE /\ missed = FALSE
  BY DEF Init
<1>7. TypeOK
  BY <1>1, <1>3, <1>4, <1>5, <1>6 DEF TypeOK
<1> QED
  BY <1>2, <1>7

\* The type invariant, for every set of frames.
THEOREM TypeCorrect == Spec => []TypeOK
  BY InvInitially, InvInductive, PTL DEF Spec

\* The overflow guard is unreachable: whatever arrives, in whatever pieces, a
\* partial frame is shorter than the length its second byte declares, and no
\* byte declares more than MAX_PACKET_SIZE.
THEOREM GuardUnreachable == Spec => []NeverOverflows
<1>1. PartialInv => NeverOverflows
  BY DEF PartialInv, NeverOverflows
<1> QED
  BY <1>1, InvInitially, InvInductive, PTL DEF Spec

-----------------------------------------------------------------------------
(* Recovery, and what crc_drops counts.                                     *)
(*                                                                         *)
(* The partial frame is Synced when it is the frame being sent, from its    *)
(* first byte.  A Synced frame is dispatched; anything else in the buffer   *)
(* is the remains of a disturbance, older than the time since it, and has   *)
(* paid in troubles for the CRC failure it will be.                         *)

Synced ==
  /\ sending # NoFrame /\ sent > 0 /\ reassembling
  /\ Len(buffer) = sent
  /\ \A i \in 1..sent : buffer[i] = Genuine(sending, i)
  /\ expected = (IF sent >= 2 THEN Len(Bytes[sending]) ELSE 0)
  /\ started_age = frame_age

\* The frame being sent: within the window, and fresh only in the quiet.
FrameInv ==
  /\ sending = NoFrame => sent = 0
  /\ sending # NoFrame => sent < Len(Bytes[sending])
  /\ sending # NoFrame /\ sent = 0 => frame_age = 0
  /\ sending # NoFrame /\ sent = 0 /\ fresh => quiet > ReassemblyTimeout
  /\ sending # NoFrame /\ sent > 0 => frame_age <= ReassemblyTimeout

RecoveryInv ==
  /\ Synced \/ (reassembling => started_age >= quiet)
  /\ sending # NoFrame /\ sent > 0 /\ intact /\ fresh => Synced
  /\ ~missed

DropsInv ==
  /\ crc_drops <= troubles
  /\ reassembling /\ ~Synced => crc_drops < troubles

LinkInv == TypeOK /\ PartialInv /\ FrameInv /\ RecoveryInv /\ DropsInv

\* The bytes of a fragment, and what a frame begins with.
LEMMA FragmentFacts ==
  ASSUME TypeOK, NEW n \in Nat \ {0}, CanSend(n)
  PROVE  /\ sending \in Frames /\ sent \in Nat /\ Len(Bytes[sending]) \in Nat
         /\ sent + n <= Len(Bytes[sending])
         /\ Len(Bytes[sending]) >= 2 /\ Len(Bytes[sending]) > Overhead
         /\ Fragment(n) \in Seq(Byte) /\ Len(Fragment(n)) = n
         /\ \A i \in 1..n : Fragment(n)[i] = Genuine(sending, sent + i)
         /\ Bytes[sending][1] = Start
         /\ Bytes[sending][2] + Overhead = Len(Bytes[sending])
         /\ Bytes[sending][2] >= MinLengthField
<1>1. sending \in Frames /\ sent \in Nat /\ sent + n <= Len(Bytes[sending])
  BY FramingAssumption DEF CanSend, TypeOK
<1>2. /\ Bytes[sending] \in Seq(0..MaxByte) /\ Len(Bytes[sending]) >= MinLengthField + Overhead
      /\ Bytes[sending][1] = Start /\ Bytes[sending][2] = Len(Bytes[sending]) - Overhead
  BY <1>1, FramesAssumption
<1>3. Len(Bytes[sending]) \in Nat /\ Overhead \in Nat /\ Overhead >= 2
      /\ MinLengthField \in Nat \ {0}
  BY <1>2, FramingAssumption
<1>4. Fragment(n) \in Seq(Byte)
  BY FragmentsAreNotifications DEF Notification
<1>5. Len(Fragment(n)) = n /\ \A i \in 1..n : Fragment(n)[i] = Genuine(sending, sent + i)
  BY DEF Fragment
<1>6. Len(Bytes[sending]) >= 2 /\ Len(Bytes[sending]) > Overhead
      /\ Bytes[sending][2] + Overhead = Len(Bytes[sending])
      /\ Bytes[sending][2] >= MinLengthField
  BY <1>2, <1>3
<1> QED
  BY <1>1, <1>2, <1>3, <1>4, <1>5, <1>6

\* The first notification of a frame is a frame start, unless a partial frame
\* is still waited for.
LEMMA FirstIsAStart ==
  ASSUME TypeOK, NEW n \in Nat \ {0}, CanSend(n), sent = 0, ~MidFrame
  PROVE  NewPacket(Fragment(n))
<1>1. Fragment(n)[1] = Genuine(sending, 1) /\ Bytes[sending][1] = Start
  BY FragmentFacts
<1>2. IsFrameStart(Fragment(n)[1])
  BY <1>1 DEF IsFrameStart, Genuine
<1>3. ASSUME Len(Fragment(n)) >= 2 PROVE Fragment(n)[2].val >= MinLengthField
  <2>1. n >= 2 /\ Fragment(n)[2] = Genuine(sending, 2) /\ Bytes[sending][2] >= MinLengthField
    BY <1>3, FragmentFacts
  <2> QED
    BY <2>1 DEF Genuine
<1> QED
  BY <1>2, <1>3 DEF NewPacket, DeclaresAPossibleFrame

\* Where the buffer holds the frame being sent from its first byte, the next
\* fragment continues it, and completes it when it is the last.
LEMMA FrameCollected ==
  ASSUME TypeOK, PartialInv, FrameInv, NEW n \in Nat \ {0}, CanSend(n),
         Synced \/ (sent = 0 /\ ~MidFrame)
  PROVE  /\ MidFrame \/ NewPacket(Fragment(n))
         /\ NewPacket(Fragment(n)) <=> sent = 0
         /\ Collected(Fragment(n)) \in Seq(Byte)
         /\ Len(Collected(Fragment(n))) = sent + n
         /\ \A i \in 1..(sent + n) : Collected(Fragment(n))[i] = Genuine(sending, i)
         /\ Expects(Fragment(n)) = (IF sent + n >= 2 THEN Len(Bytes[sending]) ELSE 0)
         /\ Completes(Fragment(n)) <=> Last(n)
<1> DEFINE data == Fragment(n)
           len  == Len(Bytes[sending])
<1>1. /\ sent \in Nat /\ len \in Nat /\ len >= 2 /\ sent + n <= len
      /\ data \in Seq(Byte) /\ Len(data) = n
      /\ \A i \in 1..n : data[i] = Genuine(sending, sent + i)
      /\ Bytes[sending][2] + Overhead = len
  BY FragmentFacts
<1>2. /\ MidFrame \/ NewPacket(data)
      /\ NewPacket(data) <=> sent = 0
      /\ Collected(data) = IF sent = 0 THEN data ELSE buffer \o data
      /\ sent > 0 => Synced
  <2>1. CASE Synced
    <3>1. started_age = frame_age /\ reassembling /\ sending # NoFrame /\ sent > 0
      BY <2>1 DEF Synced
    <3>2. frame_age <= ReassemblyTimeout /\ frame_age \in Nat
      BY <3>1 DEF FrameInv, TypeOK
    <3>3. MidFrame
      BY <3>1, <3>2, FramingAssumption DEF MidFrame, Stale
    <3> QED
      BY <2>1, <3>1, <3>3, <1>1 DEF NewPacket, Collected
  <2>2. CASE sent = 0 /\ ~MidFrame
    BY <2>2, FirstIsAStart DEF Collected
  <2> QED
    BY <2>1, <2>2
<1>3. /\ Collected(data) \in Seq(Byte) /\ Len(Collected(data)) = sent + n
      /\ \A i \in 1..(sent + n) : Collected(data)[i] = Genuine(sending, i)
  <2>1. CASE sent = 0
    BY <1>1, <1>2, <2>1
  <2>2. CASE sent > 0
    <3>1. /\ buffer \in Seq(Byte) /\ Len(buffer) = sent
          /\ \A i \in 1..sent : buffer[i] = Genuine(sending, i)
      BY <1>2, <2>2 DEF Synced, TypeOK
    <3>2. Collected(data) = buffer \o data
      BY <1>2, <2>2
    <3>3. Collected(data) \in Seq(Byte) /\ Len(Collected(data)) = sent + n
      <4> HIDE DEF data
      <4>1. buffer \o data \in Seq(Byte) /\ Len(buffer \o data) = Len(buffer) + Len(data)
        <5>1. buffer \in Seq(Byte) /\ data \in Seq(Byte)
          BY <1>1, <3>1
        <5> QED
          BY <5>1, ConcatProperties
      <4> QED
        BY <1>1, <3>1, <3>2, <4>1
    <3>4. ASSUME NEW i \in 1..(sent + n) PROVE Collected(data)[i] = Genuine(sending, i)
      <4> HIDE DEF data
      <4>0. (buffer \o data)[i] = IF i <= sent THEN buffer[i] ELSE data[i - sent]
        <5>1. /\ buffer \in Seq(Byte) /\ data \in Seq(Byte)
              /\ sent = Len(buffer) /\ n = Len(data) /\ i \in 1..(Len(buffer) + Len(data))
          BY <1>1, <3>1
        <5>2. (buffer \o data)[i] = IF i <= Len(buffer) THEN buffer[i] ELSE data[i - Len(buffer)]
          BY <5>1, ConcatProperties
        <5> QED
          BY <5>1, <5>2
      <4>1. CASE i <= sent
        <5>1. (buffer \o data)[i] = buffer[i] /\ i \in 1..sent
          BY <1>1, <4>0, <4>1
        <5> QED
          BY <3>1, <3>2, <5>1
      <4>2. CASE i > sent
        <5>1. i - sent \in 1..n /\ sent + (i - sent) = i
          BY <1>1, <4>2
        <5>2. (buffer \o data)[i] = data[i - sent]
          BY <1>1, <4>0, <4>2
        <5>3. data[i - sent] = Genuine(sending, sent + (i - sent))
          BY <1>1, <5>1
        <5> QED
          BY <3>2, <5>1, <5>2, <5>3
      <4> QED
        BY <1>1, <4>1, <4>2
    <3> QED
      BY <3>3, <3>4
  <2> QED
    BY <1>1, <2>1, <2>2
<1>4. ASSUME sent + n >= 2 PROVE ExpectedLength(Collected(data)) = len
  <2>1. Collected(data)[2] = Genuine(sending, 2)
    BY <1>1, <1>3, <1>4
  <2> QED
    BY <1>1, <2>1 DEF ExpectedLength, Genuine
<1>5. Expects(data) = (IF sent + n >= 2 THEN len ELSE 0)
  <2>1. CASE sent = 0
    <3>1. NewPacket(data) /\ ~MidFrame /\ (Stale \/ expected = 0)
      BY <1>2, <2>1 DEF NewPacket, MidFrame, PartialInv
    <3>2. Expects(data) = IF Len(Collected(data)) >= 2 THEN ExpectedLength(Collected(data)) ELSE 0
      BY <3>1 DEF Expects
    <3> QED
      BY <1>1, <1>3, <1>4, <3>2
  <2>2. CASE sent > 0
    <3>1. ~NewPacket(data) /\ MidFrame /\ ~Stale /\ Synced
      BY <1>1, <1>2, <2>2 DEF MidFrame
    <3>2. Expects(data) = IF Len(Collected(data)) >= 2 /\ expected = 0
                          THEN ExpectedLength(Collected(data)) ELSE expected
      BY <3>1 DEF Expects
    <3>3. expected = (IF sent >= 2 THEN len ELSE 0) /\ sent + n >= 2
      BY <1>1, <2>2, <3>1 DEF Synced
    <3> QED
      BY <1>1, <1>3, <1>4, <3>2, <3>3
  <2> QED
    BY <1>1, <2>1, <2>2
<1>6. Completes(data) <=> Last(n)
  <2>1. Completes(data) <=> (Expects(data) > 0 /\ sent + n >= Expects(data))
    BY <1>3 DEF Completes
  <2>2. Last(n) <=> sent + n = len
    BY DEF Last
  <2> QED
    BY <1>1, <1>5, <2>1, <2>2
<1> QED
  BY <1>2, <1>3, <1>5, <1>6

\* The last fragment of a frame that was collected whole dispatches it.
LEMMA FrameDispatched ==
  ASSUME TypeOK, PartialInv, FrameInv, NEW n \in Nat \ {0}, CanSend(n), Last(n),
         Synced \/ (sent = 0 /\ ~MidFrame)
  PROVE  Completes(Fragment(n)) /\ CrcValid(Trimmed(Fragment(n)))
         /\ Dispatched(Fragment(n), sending)
<1> DEFINE data == Fragment(n)
           len  == Len(Bytes[sending])
<1>1. sending \in Frames /\ len \in Nat /\ len >= 2 /\ sent + n = len
  BY FragmentFacts DEF Last
<1>2. /\ MidFrame \/ NewPacket(data)
      /\ Collected(data) \in Seq(Byte) /\ Len(Collected(data)) = len
      /\ \A i \in 1..len : Collected(data)[i] = Genuine(sending, i)
      /\ Expects(data) = len /\ Completes(data)
  BY <1>1, FrameCollected
<1>3. Len(Trimmed(data)) = len /\ \A i \in 1..len : Trimmed(data)[i] = Genuine(sending, i)
  BY <1>1, <1>2 DEF Trimmed
<1>4. CrcValid(Trimmed(data))
  BY <1>1, <1>3 DEF CrcValid
<1>5. Trimmed(data)[1].of = sending
  <2>1. Trimmed(data)[1] = Genuine(sending, 1)
    BY <1>1, <1>3
  <2> QED
    BY <2>1 DEF Genuine
<1> QED
  BY <1>2, <1>4, <1>5 DEF Dispatched

\* What a notification does to the count and to the age of the partial frame.
LEMMA NotificationEffect ==
  ASSUME TypeOK, PartialInv, NEW data, Notification(data), OnNotification(data)
  PROVE  /\ crc_drops' = crc_drops \/ crc_drops' = crc_drops + 1
         /\ reassembling' => crc_drops' = crc_drops
         /\ ~NewPacket(data) /\ crc_drops' # crc_drops => MidFrame
         /\ ~NewPacket(data) /\ reassembling' => MidFrame /\ started_age' = started_age
<1>1. CASE Ignore(data)
  BY <1>1 DEF Ignore, ClearBuffer
<1>2. CASE Collect(data)
  BY <1>2 DEF Collect
<1>3. CASE Finish(data)
  BY <1>3 DEF Finish, ClearBuffer
<1> QED
  BY <1>1, <1>2, <1>3 DEF OnNotification

\* A fragment of a frame that is being collected whole, or begins to be.
LEMMA FrameArrives ==
  ASSUME LinkInv, NEW n \in Nat \ {0}, Arrive(n), Synced \/ (sent = 0 /\ ~MidFrame)
  PROVE  /\ troubles' = troubles /\ quiet' = quiet
         /\ crc_drops' = crc_drops /\ missed' = missed
         /\ Last(n) => reassembling' = FALSE
         /\ ~Last(n) => Synced'
<1> DEFINE data == Fragment(n)
           len  == Len(Bytes[sending])
<1>1. /\ TypeOK /\ PartialInv /\ FrameInv /\ CanSend(n) /\ OnNotification(data)
      /\ Disturbed(sent > 0 /\ NewPacket(data)) /\ Advance(n)
      /\ missed' = (missed \/ (Last(n) /\ intact /\ fresh /\ ~Dispatched(data, sending)))
  BY DEF LinkInv, Arrive
<1>2. /\ MidFrame \/ NewPacket(data)
      /\ NewPacket(data) <=> sent = 0
      /\ Collected(data) \in Seq(Byte) /\ Len(Collected(data)) = sent + n
      /\ \A i \in 1..(sent + n) : Collected(data)[i] = Genuine(sending, i)
      /\ Expects(data) = (IF sent + n >= 2 THEN len ELSE 0)
      /\ Completes(data) <=> Last(n)
  BY <1>1, FrameCollected
<1>3. sent \in Nat /\ troubles \in Nat /\ quiet \in Nat /\ missed \in BOOLEAN
      /\ frame_age \in Nat /\ sending \in Frames /\ len \in Nat /\ sent + n <= len
  BY <1>1, FragmentFacts DEF TypeOK
<1>4. troubles' = troubles /\ quiet' = quiet
  <2>1. ~(sent > 0 /\ NewPacket(data))
    BY <1>2, <1>3
  <2> QED
    BY <1>1, <2>1 DEF Disturbed
<1>5. ~Ignore(data)
  BY <1>2 DEF Ignore
<1>6. CASE Last(n)
  <2>1. CrcValid(Trimmed(data)) /\ Dispatched(data, sending)
    BY <1>1, <1>6, FrameDispatched
  <2>2. Finish(data)
    BY <1>1, <1>2, <1>5, <1>6 DEF OnNotification, Collect
  <2>3. crc_drops' = crc_drops /\ reassembling' = FALSE
    BY <2>1, <2>2 DEF Finish, ClearBuffer
  <2>4. missed' = missed
    BY <1>1, <1>3, <2>1
  <2> QED
    BY <1>4, <1>6, <2>3, <2>4
<1>7. CASE ~Last(n)
  <2>1. Collect(data)
    BY <1>1, <1>2, <1>5, <1>7 DEF OnNotification, Finish
  <2>2. ~(Len(Collected(data)) > MaxPacketSize)
    <3>1. Notification(data)
      BY <1>1, FragmentsAreNotifications
    <3>2. /\ Len(Collected(data)) \in Nat
          /\ Expects(data) \in Nat /\ Expects(data) <= MaxPacketSize
          /\ Expects(data) = 0 => Len(Collected(data)) = 1
      BY <1>1, <1>2, <3>1, CollectedFacts
    <3>3. Expects(data) = 0 \/ Len(Collected(data)) < Expects(data)
      BY <1>2, <1>7, <3>2 DEF Completes
    <3> QED
      BY <3>2, <3>3, StillFits, Zenon
  <2>3. /\ reassembling' = TRUE /\ buffer' = Collected(data) /\ expected' = Expects(data)
        /\ crc_drops' = crc_drops
        /\ started_age' = IF NewPacket(data) THEN 0 ELSE started_age
    BY <2>1, <2>2 DEF Collect
  <2>4. missed' = missed
    BY <1>1, <1>3, <1>7
  <2>5. sending' = sending /\ sent' = sent + n /\ frame_age' = frame_age
    BY <1>1, <1>7 DEF Advance
  <2>6. started_age' = frame_age'
    <3>1. CASE sent = 0
      BY <1>1, <1>2, <1>3, <2>3, <2>5, <3>1, FramingAssumption DEF FrameInv
    <3>2. CASE sent > 0
      BY <1>2, <1>3, <2>3, <2>5, <3>2 DEF Synced
    <3> QED
      BY <1>3, <3>1, <3>2
  <2>7. sending' # NoFrame /\ sent' > 0
    BY <1>3, <2>5, FramingAssumption
  <2>8. Len(buffer') = sent' /\ \A i \in 1..sent' : buffer'[i] = Genuine(sending, i)
    BY <1>2, <2>3, <2>5
  <2>9. \A i \in 1..sent' : buffer'[i] = Genuine(sending', i)
    BY <2>5, <2>8
  <2>10. expected' = (IF sent' >= 2 THEN Len(Bytes[sending']) ELSE 0)
    BY <1>2, <2>3, <2>5
  <2>11. Synced'
    BY <2>3, <2>6, <2>7, <2>8, <2>9, <2>10 DEF Synced
  <2> QED
    BY <1>4, <1>7, <2>3, <2>4, <2>11
<1> QED
  BY <1>6, <1>7

\* A frame that is neither whole so far nor to be collected from its start is
\* not fresh, or not intact: nothing is missed when it is not dispatched.
LEMMA OtherwiseNotAwaited ==
  ASSUME LinkInv, NEW n \in Nat \ {0}, CanSend(n), ~(Synced \/ (sent = 0 /\ ~MidFrame))
  PROVE  ~(intact /\ fresh) /\ (MidFrame => reassembling /\ ~Synced)
<1>1. TypeOK /\ FrameInv /\ RecoveryInv /\ sending # NoFrame
  BY DEF LinkInv, CanSend
<1>2. CASE sent = 0
  <2>1. MidFrame /\ reassembling /\ ~(started_age > ReassemblyTimeout)
    BY <1>2 DEF MidFrame, Stale
  <2>2. started_age >= quiet
    BY <1>1, <2>1 DEF RecoveryInv
  <2>3. ~(quiet > ReassemblyTimeout)
    BY <1>1, <2>1, <2>2, FramingAssumption DEF TypeOK
  <2> QED
    BY <1>1, <1>2, <2>1, <2>3 DEF FrameInv
<1>3. CASE sent > 0
  BY <1>1, <1>3 DEF RecoveryInv, MidFrame
<1> QED
  BY <1>1, <1>2, <1>3 DEF TypeOK

\* What follows from the frame's progress alone.
LEMMA AdvanceKeepsFrame ==
  ASSUME TypeOK, FrameInv, NEW n \in Nat \ {0}, CanSend(n), Advance(n)
  PROVE  FrameInv'
<1>1. /\ sending \in Frames /\ sent \in Nat /\ Len(Bytes[sending]) \in Nat
      /\ sent + n <= Len(Bytes[sending]) /\ sending # NoFrame
  BY FragmentFacts, FramingAssumption DEF CanSend
<1>2. frame_age' = frame_age /\ frame_age \in Nat /\ ReassemblyTimeout \in Nat
  BY FramingAssumption DEF Advance, TypeOK
<1>3. frame_age <= ReassemblyTimeout
  <2>1. CASE sent = 0
    BY <1>1, <1>2, <2>1 DEF FrameInv
  <2>2. CASE sent > 0
    BY <1>1, <2>2 DEF FrameInv
  <2> QED
    BY <1>1, <2>1, <2>2
<1>4. CASE Last(n)
  <2>1. sending' = NoFrame /\ sent' = 0
    BY <1>4 DEF Advance
  <2> QED
    BY <2>1 DEF FrameInv
<1>5. CASE ~Last(n)
  <2>1. sending' = sending /\ sent' = sent + n /\ sent' \in Nat /\ sent' > 0
    BY <1>1, <1>5 DEF Advance
  <2>2. sent + n < Len(Bytes[sending])
    BY <1>1, <1>5 DEF Last
  <2> QED
    BY <1>1, <1>2, <1>3, <2>1, <2>2 DEF FrameInv
<1> QED
  BY <1>4, <1>5

\* Any disturbance leaves only remains, as old as it is and paid for.
LEMMA DisturbedKeeps ==
  ASSUME LinkInv, TypeOK', quiet' = 0, troubles' = troubles + 1,
         crc_drops' = crc_drops \/ crc_drops' = crc_drops + 1,
         reassembling' => crc_drops' = crc_drops,
         missed' = missed, ~(intact' /\ fresh')
  PROVE  RecoveryInv' /\ DropsInv'
<1>1. crc_drops \in Nat /\ troubles \in Nat /\ crc_drops <= troubles /\ ~missed
  BY FramingAssumption DEF LinkInv, TypeOK, DropsInv, RecoveryInv
<1>2. started_age' \in Nat
  BY DEF TypeOK
<1>3. RecoveryInv'
  BY <1>1, <1>2 DEF RecoveryInv
<1>4. DropsInv'
  BY <1>1 DEF DropsInv
<1> QED
  BY <1>3, <1>4

LEMMA ArriveKeeps ==
  ASSUME LinkInv, NEW n \in Nat \ {0}, Arrive(n), TypeOK'
  PROVE  FrameInv' /\ RecoveryInv' /\ DropsInv'
<1> DEFINE data == Fragment(n)
<1>1. /\ TypeOK /\ PartialInv /\ FrameInv /\ RecoveryInv /\ DropsInv
      /\ CanSend(n) /\ OnNotification(data)
      /\ Disturbed(sent > 0 /\ NewPacket(data)) /\ Advance(n) /\ intact' = intact
      /\ missed' = (missed \/ (Last(n) /\ intact /\ fresh /\ ~Dispatched(data, sending)))
  BY DEF LinkInv, Arrive
<1>2. FrameInv'
  BY <1>1, AdvanceKeepsFrame
<1>3. CASE Synced \/ (sent = 0 /\ ~MidFrame)
  <2>1. /\ troubles' = troubles /\ crc_drops' = crc_drops /\ missed' = missed
        /\ Last(n) => reassembling' = FALSE
        /\ ~Last(n) => Synced'
    BY <1>3, FrameArrives
  <2>2. Last(n) => sending' = NoFrame
    BY <1>1 DEF Advance
  <2>3. RecoveryInv'
    BY <1>1, <2>1, <2>2 DEF RecoveryInv
  <2>4. DropsInv'
    BY <1>1, <2>1 DEF DropsInv
  <2> QED
    BY <1>2, <2>3, <2>4
<1>4. CASE ~(Synced \/ (sent = 0 /\ ~MidFrame))
  <2>1. ~(intact /\ fresh) /\ (MidFrame => reassembling /\ ~Synced)
    BY <1>1, <1>4, OtherwiseNotAwaited
  <2>2. fresh' = fresh
    BY <1>1 DEF Advance
  <2>3. missed' = missed /\ ~(intact' /\ fresh')
    BY <1>1, <2>1, <2>2 DEF TypeOK
  <2>4. Notification(data)
    BY <1>1, FragmentsAreNotifications
  <2>5. /\ crc_drops' = crc_drops \/ crc_drops' = crc_drops + 1
        /\ reassembling' => crc_drops' = crc_drops
        /\ ~NewPacket(data) /\ crc_drops' # crc_drops => MidFrame
        /\ ~NewPacket(data) /\ reassembling' => MidFrame /\ started_age' = started_age
    BY <1>1, <2>4, NotificationEffect
  <2>6. CASE NewPacket(data)
    <3>1. sent > 0
      BY <1>1, <1>4, <2>6 DEF NewPacket, TypeOK
    <3>2. quiet' = 0 /\ troubles' = troubles + 1
      BY <1>1, <2>6, <3>1 DEF Disturbed
    <3> QED
      BY <1>2, <2>3, <2>5, <3>2, DisturbedKeeps
  <2>7. CASE ~NewPacket(data)
    <3>1. quiet' = quiet /\ troubles' = troubles
      BY <1>1, <2>7 DEF Disturbed
    <3>2. crc_drops \in Nat /\ troubles \in Nat
      BY <1>1, FramingAssumption DEF TypeOK
    <3>3. RecoveryInv'
      BY <1>1, <2>1, <2>3, <2>5, <2>7, <3>1 DEF RecoveryInv
    <3>4. DropsInv'
      BY <1>1, <2>1, <2>5, <2>7, <3>1, <3>2 DEF DropsInv
    <3> QED
      BY <1>2, <3>3, <3>4
  <2> QED
    BY <2>6, <2>7
<1> QED
  BY <1>3, <1>4

\* Ages grow together, up to the first that says "stale".
LEMMA TickKeeps ==
  ASSUME LinkInv, Tick, TypeOK'
  PROVE  FrameInv' /\ RecoveryInv' /\ DropsInv'
<1>1. /\ TypeOK /\ FrameInv /\ RecoveryInv /\ DropsInv
      /\ ReassemblyTimeout \in Nat
      /\ sent \in Nat /\ frame_age \in Nat /\ started_age \in Nat /\ quiet \in Nat
  BY FramingAssumption DEF LinkInv, TypeOK
<1>2. /\ sending # NoFrame /\ sent > 0 => frame_age < ReassemblyTimeout
      /\ frame_age' = IF sent > 0 THEN frame_age + 1 ELSE 0
      /\ started_age' = IF reassembling THEN Older(started_age) ELSE 0
      /\ quiet' = Older(quiet)
      /\ reassembling' = reassembling /\ buffer' = buffer /\ expected' = expected
      /\ crc_drops' = crc_drops /\ sending' = sending /\ sent' = sent
      /\ intact' = intact /\ troubles' = troubles /\ missed' = missed
  BY DEF Tick
<1>3. sending # NoFrame /\ sent = 0 => fresh' = (Older(quiet) > ReassemblyTimeout)
  BY DEF Tick
<1>4. ~(sending # NoFrame /\ sent = 0) => fresh' = fresh
  BY DEF Tick
<1>5. FrameInv'
  <2>1. sending' # NoFrame /\ sent' = 0 /\ fresh' => quiet' > ReassemblyTimeout
    BY <1>2, <1>3
  <2> QED
    BY <1>1, <1>2, <2>1 DEF FrameInv
<1>6. Synced => Synced'
  <2> SUFFICES ASSUME Synced PROVE Synced'
    OBVIOUS
  <2>1. /\ sending # NoFrame /\ sent > 0 /\ reassembling /\ started_age = frame_age
        /\ Len(buffer) = sent /\ \A i \in 1..sent : buffer[i] = Genuine(sending, i)
        /\ expected = (IF sent >= 2 THEN Len(Bytes[sending]) ELSE 0)
    BY DEF Synced
  <2>2. started_age' = frame_age'
    BY <1>1, <1>2, <2>1 DEF Older
  <2>3. Len(buffer') = sent' /\ \A i \in 1..sent' : buffer'[i] = Genuine(sending', i)
    BY <1>2, <2>1
  <2> QED
    BY <1>2, <2>1, <2>2, <2>3 DEF Synced
<1>7. started_age >= quiet => Older(started_age) >= Older(quiet)
  BY <1>1 DEF Older
<1>8. RecoveryInv'
  BY <1>1, <1>2, <1>4, <1>6, <1>7 DEF RecoveryInv
<1>9. DropsInv'
  BY <1>1, <1>2, <1>6 DEF DropsInv
<1> QED
  BY <1>5, <1>8, <1>9

LEMMA LinkInvInductive == LinkInv /\ [Next]_vars => LinkInv'
<1> SUFFICES ASSUME LinkInv, [Next]_vars PROVE LinkInv'
  OBVIOUS
<1>1. TypeOK' /\ PartialInv'
  BY InvInductive DEF LinkInv
<1>2. TypeOK /\ PartialInv /\ FrameInv /\ RecoveryInv /\ DropsInv
  BY DEF LinkInv
<1> SUFFICES FrameInv' /\ RecoveryInv' /\ DropsInv'
  BY <1>1 DEF LinkInv
<1>3. ASSUME NEW f \in Frames, Begin(f) PROVE FrameInv' /\ RecoveryInv' /\ DropsInv'
  <2>1. /\ sending = NoFrame /\ sending' = f /\ sent' = 0 /\ frame_age' = 0
        /\ fresh' = (quiet > ReassemblyTimeout) /\ quiet' = quiet /\ troubles' = troubles
        /\ reassembling' = reassembling /\ started_age' = started_age
        /\ crc_drops' = crc_drops /\ missed' = missed
    BY <1>3 DEF Begin, bufferVars
  <2>2. ~Synced
    BY <2>1 DEF Synced
  <2>3. 0 < Len(Bytes[f])
    BY FramesAssumption, FramingAssumption
  <2>4. FrameInv'
    <3>1. fresh' => quiet' > ReassemblyTimeout
      BY <2>1
    <3> QED
      BY <2>1, <2>3, <3>1, FramingAssumption DEF FrameInv
  <2>5. RecoveryInv'
    BY <1>2, <2>1, <2>2 DEF RecoveryInv
  <2>6. DropsInv'
    BY <1>2, <2>1, <2>2 DEF DropsInv
  <2> QED
    BY <2>4, <2>5, <2>6
<1>4. ASSUME NEW n \in 1..FragmentMax, Arrive(n) PROVE FrameInv' /\ RecoveryInv' /\ DropsInv'
  <2>1. n \in Nat \ {0}
    BY FramingAssumption
  <2> QED
    BY <1>1, <1>4, <2>1, ArriveKeeps
<1>5. ASSUME NEW n \in 1..FragmentMax, Lose(n) PROVE FrameInv' /\ RecoveryInv' /\ DropsInv'
  <2>1. /\ n \in Nat \ {0} /\ CanSend(n) /\ Advance(n) /\ quiet' = 0
        /\ troubles' = troubles + 1 /\ intact' = FALSE
        /\ crc_drops' = crc_drops /\ missed' = missed
    BY <1>5, FramingAssumption DEF Lose, Disturbed
  <2>2. FrameInv'
    BY <1>2, <2>1, AdvanceKeepsFrame
  <2> QED
    BY <1>1, <2>1, <2>2, DisturbedKeeps
<1>6. ASSUME NEW n \in 1..FragmentMax, NEW i \in 1..n, NEW v \in Garbage, Corrupt(n, i, v)
      PROVE  FrameInv' /\ RecoveryInv' /\ DropsInv'
  <2> DEFINE data == [Fragment(n) EXCEPT ![i] = [of |-> NoFrame, at |-> 0, val |-> v]]
  <2>1. /\ n \in Nat \ {0} /\ CanSend(n) /\ Advance(n) /\ quiet' = 0
        /\ troubles' = troubles + 1 /\ intact' = FALSE /\ missed' = missed
        /\ OnNotification(data)
    BY <1>6, FramingAssumption DEF Corrupt, Disturbed
  <2>2. FrameInv'
    BY <1>2, <2>1, AdvanceKeepsFrame
  <2>3. Notification(data)
    BY <1>2, <2>1, FragmentsAreNotifications
  <2>4. /\ crc_drops' = crc_drops \/ crc_drops' = crc_drops + 1
        /\ reassembling' => crc_drops' = crc_drops
    BY <1>2, <2>1, <2>3, NotificationEffect
  <2> QED
    BY <1>1, <2>1, <2>2, <2>4, DisturbedKeeps
<1>7. CASE Reset
  <2>1. /\ sending' = NoFrame /\ sent' = 0 /\ reassembling' = FALSE
        /\ crc_drops' = crc_drops /\ troubles' = troubles /\ missed' = missed
    BY <1>7 DEF Reset, ClearBuffer
  <2> QED
    BY <1>2, <2>1 DEF FrameInv, RecoveryInv, DropsInv
<1>8. CASE Tick
  BY <1>1, <1>8, TickKeeps
<1>9. CASE UNCHANGED vars
  BY <1>2, <1>9 DEF vars, bufferVars, linkVars, FrameInv, RecoveryInv, DropsInv, Synced
<1> QED
  BY <1>3, <1>4, <1>5, <1>6, <1>7, <1>8, <1>9 DEF Next

LEMMA LinkInvInitially == Init => LinkInv
<1> SUFFICES ASSUME Init PROVE LinkInv
  OBVIOUS
<1>1. /\ reassembling = FALSE /\ crc_drops = 0 /\ troubles = 0 /\ missed = FALSE
      /\ sending = NoFrame /\ sent = 0
  BY DEF Init
<1>2. FrameInv /\ RecoveryInv /\ DropsInv
  BY <1>1 DEF FrameInv, RecoveryInv, DropsInv
<1> QED
  BY <1>2, InvInitially DEF LinkInv

\* A broken frame costs what follows it within REASSEMBLY_TIMEOUT_MS and no
\* more: a frame that arrives whole, and begins later than that after the last
\* disturbance, is dispatched, whatever the disturbances were and however the
\* frames are cut into notifications.
THEOREM RecoversAlways == Spec => []Recovers
<1>1. LinkInv => Recovers
  BY DEF LinkInv, RecoveryInv, Recovers
<1> QED
  BY <1>1, LinkInvInitially, LinkInvInductive, PTL DEF Spec

\* crc_drops never counts more than the disturbances there were.
THEOREM DropsCountedAlways == Spec => []DropsCounted
<1>1. LinkInv => DropsCounted
  BY DEF LinkInv, DropsInv, DropsCounted
<1> QED
  BY <1>1, LinkInvInitially, LinkInvInductive, PTL DEF Spec
=============================================================================
