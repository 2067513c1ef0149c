--------------------------- MODULE TransportProofs ---------------------------
(***************************************************************************)
(* Theorems about Transport for every set of commands, every profile of     *)
(* theirs and every timing constant that satisfies its assumptions.         *)
(***************************************************************************)
EXTENDS Transport, FiniteSetTheorems, SequenceTheorems, TLAPS

\* No command stands twice in s.
Distinct(s) == \A i, j \in 1..Len(s) : s[i] = s[j] => i = j

-----------------------------------------------------------------------------
(* What the queue operations do to the commands in the queue. *)

\* Append adds one element.
LEMMA ElemsAppend ==
  ASSUME NEW S, NEW s \in Seq(S), NEW e \in S
  PROVE  /\ Append(s, e) \in Seq(S)
         /\ Elems(Append(s, e)) = Elems(s) \cup {e}
         /\ Distinct(s) /\ e \notin Elems(s) => Distinct(Append(s, e))
<1>1. Append(s, e) \in Seq(S) /\ Len(Append(s, e)) = Len(s) + 1
  OBVIOUS
<1>2. \A i \in 1..Len(s) : Append(s, e)[i] = s[i]
  OBVIOUS
<1>3. Append(s, e)[Len(s) + 1] = e
  OBVIOUS
<1>4. Len(s) \in Nat
  OBVIOUS
<1>5. 1..(Len(s) + 1) = 1..Len(s) \cup {Len(s) + 1}
  BY <1>4
<1>6. Elems(Append(s, e)) = Elems(s) \cup {e}
  BY <1>1, <1>2, <1>3, <1>5 DEF Elems
<1>7. ASSUME Distinct(s), e \notin Elems(s) PROVE Distinct(Append(s, e))
  BY <1>1, <1>2, <1>3, <1>4, <1>7 DEF Distinct, Elems
<1> QED
  BY <1>1, <1>6, <1>7

\* A tail loses the head only.
LEMMA ElemsTail ==
  ASSUME NEW S, NEW s \in Seq(S), s # <<>>
  PROVE  /\ Head(s) \in S /\ Head(s) \in Elems(s)
         /\ Tail(s) \in Seq(S)
         /\ Elems(Tail(s)) \subseteq Elems(s)
         /\ Elems(s) = Elems(Tail(s)) \cup {Head(s)}
         /\ Distinct(s) => Distinct(Tail(s)) /\ Head(s) \notin Elems(Tail(s))
<1>1. Len(s) \in Nat /\ Len(s) >= 1
  OBVIOUS
<1>2. Head(s) = s[1] /\ s[1] \in S
  BY <1>1
<1>3. Tail(s) \in Seq(S) /\ Len(Tail(s)) = Len(s) - 1
  OBVIOUS
<1>4. \A i \in 1..(Len(s) - 1) : Tail(s)[i] = s[i + 1]
  OBVIOUS
<1>5. Elems(s) = Elems(Tail(s)) \cup {Head(s)}
  <2>1. ASSUME NEW i \in 1..Len(s), i # 1 PROVE s[i] \in Elems(Tail(s))
    <3>1. i - 1 \in 1..(Len(s) - 1) /\ (i - 1) + 1 = i
      BY <1>1, <2>1
    <3> QED
      BY <3>1, <1>3, <1>4 DEF Elems
  <2>2. ASSUME NEW i \in 1..Len(Tail(s)) PROVE Tail(s)[i] \in Elems(s)
    BY <1>1, <1>3, <1>4 DEF Elems
  <2>3. Head(s) \in Elems(s)
    BY <1>1, <1>2 DEF Elems
  <2> QED
    BY <2>1, <2>2, <2>3, <1>2 DEF Elems
<1>6. ASSUME Distinct(s) PROVE Distinct(Tail(s)) /\ Head(s) \notin Elems(Tail(s))
  BY <1>1, <1>2, <1>3, <1>4, <1>6 DEF Distinct, Elems
<1> QED
  BY <1>2, <1>3, <1>5, <1>6 DEF Elems

\* Concatenation joins the elements.
LEMMA ElemsConcat ==
  ASSUME NEW S, NEW s \in Seq(S), NEW t \in Seq(S)
  PROVE  /\ s \o t \in Seq(S)
         /\ Elems(s \o t) = Elems(s) \cup Elems(t)
         /\ Distinct(s) /\ Distinct(t) /\ Elems(s) \cap Elems(t) = {}
              => Distinct(s \o t)
<1>1. s \o t \in Seq(S) /\ Len(s \o t) = Len(s) + Len(t)
  OBVIOUS
<1>2. Len(s) \in Nat /\ Len(t) \in Nat
  OBVIOUS
<1>3. \A i \in 1..Len(s) : (s \o t)[i] = s[i]
  OBVIOUS
<1>4. \A i \in 1..Len(t) : (s \o t)[Len(s) + i] = t[i]
  OBVIOUS
<1>5. \A i \in 1..(Len(s) + Len(t)) :
        i \in 1..Len(s) \/ (i - Len(s) \in 1..Len(t) /\ Len(s) + (i - Len(s)) = i)
  BY <1>2
<1>6. Elems(s \o t) = Elems(s) \cup Elems(t)
  <2>1. ASSUME NEW i \in 1..Len(s \o t) PROVE (s \o t)[i] \in Elems(s) \cup Elems(t)
    BY <1>1, <1>3, <1>4, <1>5 DEF Elems
  <2>2. ASSUME NEW i \in 1..Len(s) PROVE s[i] \in Elems(s \o t)
    BY <1>1, <1>2, <1>3 DEF Elems
  <2>3. ASSUME NEW i \in 1..Len(t) PROVE t[i] \in Elems(s \o t)
    <3>1. Len(s) + i \in 1..Len(s \o t)
      BY <1>1, <1>2
    <3> QED
      BY <3>1, <1>4 DEF Elems
  <2> QED
    BY <2>1, <2>2, <2>3 DEF Elems
<1>7. ASSUME Distinct(s), Distinct(t), Elems(s) \cap Elems(t) = {},
             NEW i \in 1..Len(s \o t), NEW j \in 1..Len(s \o t), (s \o t)[i] = (s \o t)[j]
      PROVE  i = j
  <2>1. CASE i \in 1..Len(s) /\ j \in 1..Len(s)
    BY <1>3, <1>7, <2>1 DEF Distinct
  <2>2. CASE i \in 1..Len(s) /\ j \notin 1..Len(s)
    <3>1. (s \o t)[i] \in Elems(s)
      BY <1>3, <2>2 DEF Elems
    <3>2. j - Len(s) \in 1..Len(t) /\ Len(s) + (j - Len(s)) = j
      BY <1>1, <1>5, <2>2
    <3>3. (s \o t)[j] \in Elems(t)
      BY <3>2, <1>4 DEF Elems
    <3> QED
      BY <3>1, <3>3, <1>7
  <2>3. CASE i \notin 1..Len(s) /\ j \in 1..Len(s)
    <3>1. (s \o t)[j] \in Elems(s)
      BY <1>3, <2>3 DEF Elems
    <3>2. i - Len(s) \in 1..Len(t) /\ Len(s) + (i - Len(s)) = i
      BY <1>1, <1>5, <2>3
    <3>3. (s \o t)[i] \in Elems(t)
      BY <3>2, <1>4 DEF Elems
    <3> QED
      BY <3>1, <3>3, <1>7
  <2>4. CASE i \notin 1..Len(s) /\ j \notin 1..Len(s)
    <3>1. i - Len(s) \in 1..Len(t) /\ Len(s) + (i - Len(s)) = i
      BY <1>1, <1>5, <2>4
    <3>2. j - Len(s) \in 1..Len(t) /\ Len(s) + (j - Len(s)) = j
      BY <1>1, <1>5, <2>4
    <3>3. t[i - Len(s)] = t[j - Len(s)]
      BY <3>1, <3>2, <1>4, <1>7
    <3>4. i - Len(s) = j - Len(s)
      BY <3>1, <3>2, <3>3, <1>7 DEF Distinct
    <3> QED
      BY <3>1, <3>2, <3>4, <1>2
  <2> QED
    BY <2>1, <2>2, <2>3, <2>4
<1> QED
  BY <1>1, <1>6, <1>7 DEF Distinct

-----------------------------------------------------------------------------
(* Type correctness. *)

\* The part of TypeOK a settled command's callback writes.
QueueTypeOK ==
  /\ queue \in Seq(Cmds) /\ issued \subseteq Cmds
  /\ calls \in [Cmds -> Nat]
  /\ outcome \in [Cmds -> {"none", "ok", "failed"}]
  /\ answered_by \in [Cmds -> Cmds \cup {NoCmd}]

\* A chain is at most one command, never issued before.
LEMMA ChainFacts ==
  ASSUME TypeOK, NEW c \in Cmds, NEW chain \in Chains(c)
  PROVE  /\ chain \in Seq(Cmds)
         /\ Elems(chain) \subseteq Fresh
         /\ Distinct(chain)
         /\ Len(chain) <= 1
         /\ chain = <<>> \/ \E d \in Cmds : chain = <<d>>
         /\ ~HasCallback(c) => chain = <<>>
<1>1. CASE chain = <<>>
  BY <1>1 DEF Elems, Distinct
<1>2. CASE chain # <<>>
  <2>1. PICK d \in Fresh : chain = <<d>>
    BY <1>2 DEF Chains
  <2>2. d \in Cmds
    BY DEF Fresh
  <2>3. HasCallback(c)
    BY <1>2 DEF Chains
  <2>4. <<d>> \in Seq(Cmds) /\ Len(<<d>>) = 1 /\ Elems(<<d>>) = {d}
    BY <2>2 DEF Elems
  <2>5. Distinct(<<d>>)
    BY DEF Distinct
  <2> QED
    BY <2>1, <2>2, <2>3, <2>4, <2>5
<1> QED
  BY <1>1, <1>2

\* complete_front_command_() keeps the queue's types.
LEMMA SettleType ==
  ASSUME TypeOK, queue # <<>>, NEW ok \in BOOLEAN, NEW by \in Cmds \cup {NoCmd},
         NEW chain \in Chains(Head(queue)), Settle(ok, by, chain)
  PROVE  QueueTypeOK'
<1>1. Head(queue) \in Cmds /\ Tail(queue) \in Seq(Cmds)
  BY DEF TypeOK
<1>2. chain \in Seq(Cmds) /\ Elems(chain) \subseteq Cmds
  BY <1>1, ChainFacts DEF Fresh
<1>3. queue' \in Seq(Cmds)
  BY <1>1, <1>2 DEF Settle
<1>4. issued' \subseteq Cmds
  BY <1>2 DEF Settle, TypeOK
<1>5. calls' \in [Cmds -> Nat]
  BY <1>1 DEF Settle, TypeOK
<1>7. outcome' \in [Cmds -> {"none", "ok", "failed"}]
  BY <1>1 DEF Settle, TypeOK
<1>6. answered_by' \in [Cmds -> Cmds \cup {NoCmd}]
  BY <1>1 DEF Settle, TypeOK
<1> QED
  BY <1>3, <1>4, <1>5, <1>6, <1>7 DEF QueueTypeOK

LEMMA FailFrontType ==
  ASSUME TypeOK, queue # <<>>, FailFront
  PROVE  QueueTypeOK'
<1>1. PICK chain \in Chains(Head(queue)) : Settle(FALSE, NoCmd, chain)
  BY DEF FailFront
<1> QED
  BY <1>1, SettleType

\* The pump's receiver and the replies it sends keep their types.
LEMMA PumpType ==
  ASSUME TypeOK, NEW c \in Cmds, NEW sent \in Nat, PumpReceives(c, sent)
  PROVE  /\ swallowed' \subseteq Cmds /\ peer_partial' \in BOOLEAN /\ peer_age' \in Nat
         /\ wire' \in Seq(Reply) /\ late' \in Nat
<1>1. ASSUME NEW r \in Replies(c) PROVE r \in Seq(Reply)
  <2>1. CASE r = <<>>
    BY <2>1
  <2>2. ASSUME NEW b \in PumpAnswers(c), r = <<[from |-> c, body |-> b, age |-> 0]>>
        PROVE  r \in Seq(Reply)
    <3>1. [from |-> c, body |-> b, age |-> 0] \in Reply
      BY DEF PumpAnswers, Reply
    <3> QED
      BY <2>2, <3>1
  <2> QED
    BY <2>1, <2>2 DEF Replies
<1>2. wire' \in Seq(Reply)
  <2>1. wire \in Seq(Reply)
    BY DEF TypeOK
  <2>2. wire' = wire \/ \E r \in Replies(c) : wire' = wire \o r
    BY DEF PumpReceives
  <2> QED
    BY <1>1, <2>1, <2>2, ElemsConcat
<1> QED
  BY <1>2 DEF PumpReceives, TypeOK

\* Ageing keeps an age a natural number.
LEMMA OlderType ==
  ASSUME NEW age \in Nat, NEW cap
  PROVE  Older(age, cap) \in Nat
  BY DEF Older

\* transport.h's types hold in every reachable state.
THEOREM TypeCorrect == Spec => []TypeOK
<1> USE TimingAssumption
<1>1. Init => TypeOK
  <2> SUFFICES ASSUME Init PROVE TypeOK
    OBVIOUS
  <2>1. queue \in Seq(Cmds) /\ wire \in Seq(Reply)
    BY DEF Init
  <2>2. calls \in [Cmds -> Nat] /\ answered_by \in [Cmds -> Cmds \cup {NoCmd}]
    BY DEF Init
  <2>3. outcome \in [Cmds -> {"none", "ok", "failed"}]
    BY DEF Init
  <2>4. owed_replies \in 0..OwedMax /\ issued \subseteq Cmds /\ stranded \subseteq Cmds
        /\ old \subseteq Cmds /\ suppressed \subseteq Cmds /\ swallowed \subseteq Cmds
    BY DEF Init
  <2> QED
    BY <2>1, <2>2, <2>3, <2>4 DEF Init, TypeOK, States
<1>2. TypeOK /\ [Next]_vars => TypeOK'
  <2> SUFFICES ASSUME TypeOK, [Next]_vars PROVE TypeOK'
    OBVIOUS
  <2>0. queue # <<>> => Head(queue) \in Cmds /\ Tail(queue) \in Seq(Cmds)
    BY DEF TypeOK
  <2>1. ASSUME NEW c \in Cmds, SendCommand(c) PROVE TypeOK'
    <3>1. queue' \in Seq(Cmds) /\ issued' \subseteq Cmds
      BY <2>1 DEF SendCommand, TypeOK
    <3> QED
      BY <2>1, <3>1 DEF SendCommand, TypeOK, debtVars, sendVars, resyncVars, peerVars,
         abandonVars, wireVars
  <2>2. ASSUME NEW sent \in Nat, queue # <<>>, WriteOk(sent)
        PROVE  /\ QueueTypeOK' /\ state' \in States /\ bytes_sent' \in Nat /\ send_age' \in Nat /\ await_age' \in Nat
               /\ swallowed' \subseteq Cmds /\ peer_partial' \in BOOLEAN /\ peer_age' \in Nat
               /\ wire' \in Seq(Reply) /\ late' \in Nat
               /\ resync_age' \in Nat
    <3>1. PumpReceives(Head(queue), sent)
      BY <2>2 DEF WriteOk
    <3>2. QueueTypeOK'
      BY <2>0, <2>2 DEF WriteOk, QueueTypeOK, TypeOK, queueVars
    <3>3. state' \in States /\ bytes_sent' \in Nat /\ send_age' \in Nat /\ await_age' \in Nat
      BY <2>2 DEF WriteOk, TypeOK, States
    <3> QED
      BY <2>0, <2>2, <3>1, <3>2, <3>3, PumpType DEF WriteOk, TypeOK
  <2>3. ASSUME NEW sent \in Nat, queue # <<>>, WriteFails(sent)
        PROVE  /\ QueueTypeOK' /\ state' \in States /\ bytes_sent' \in Nat /\ send_age' \in Nat /\ await_age' \in Nat
               /\ swallowed' \subseteq Cmds /\ peer_partial' \in BOOLEAN /\ peer_age' \in Nat
               /\ wire' \in Seq(Reply) /\ late' \in Nat
               /\ resync_age' \in Nat
    <3>1. QueueTypeOK'
      BY <2>3, FailFrontType DEF WriteFails
    <3> QED
      BY <2>3, <3>1 DEF WriteFails, TypeOK, States, peerVars, wireVars
  <2>4. CASE LoopIdle
    <3>1. CASE send_age < Pacing
      BY <2>4, <3>1 DEF LoopIdle, TypeOK, queueVars, sendVars, peerVars, wireVars, debtVars, abandonVars
    <3>2. CASE ~(send_age < Pacing)
      BY <2>2, <2>3, <2>4, <3>2 DEF LoopIdle, TypeOK, QueueTypeOK, debtVars, abandonVars
    <3> QED
      BY <3>1, <3>2
  <2>5. CASE LoopSending
    <3>1. bytes_sent \in Nat
      BY DEF TypeOK
    <3>2. WriteOk(bytes_sent) \/ WriteFails(bytes_sent)
      BY <2>5 DEF LoopSending
    <3>3. peer_resync_pending' \in BOOLEAN
      BY <2>5 DEF LoopSending, TypeOK
    <3> QED
      BY <2>2, <2>3, <2>5, <3>1, <3>2, <3>3 DEF LoopSending, TypeOK, QueueTypeOK, debtVars, abandonVars
  <2>6. CASE LoopTimeout
    <3>1. QueueTypeOK'
      BY <2>6, FailFrontType DEF LoopTimeout
    <3>2. owed_replies' \in 0..OwedMax /\ owed_pending' \in BOOLEAN /\ owed_age' \in Nat
      <4>1. NoteReplyOwed(Head(queue) \in suppressed)
        BY <2>6 DEF LoopTimeout
      <4>2. CASE Head(queue) \in suppressed
        BY <4>1, <4>2 DEF NoteReplyOwed, TypeOK
      <4>3. CASE Head(queue) \notin suppressed
        BY <4>1, <4>3 DEF NoteReplyOwed, TypeOK
      <4> QED
        BY <4>2, <4>3
    <3> QED
      BY <2>6, <3>1, <3>2 DEF LoopTimeout, TypeOK, QueueTypeOK, States, resyncVars, peerVars,
         abandonVars, wireVars
  <2>7. ASSUME NEW f, f.from \in Cmds \cup {NoCmd}, TryDispatchResponse(f)
        PROVE  /\ QueueTypeOK' /\ state' \in States /\ bytes_sent' \in Nat /\ send_age' \in Nat /\ await_age' \in Nat
               /\ owed_replies' \in 0..OwedMax /\ owed_pending' \in BOOLEAN /\ owed_age' \in Nat
               /\ suppressed' \subseteq Cmds /\ withheld' \in Nat
    <3>1. CASE Unmatched(f)
      BY <3>1 DEF Unmatched, QueueTypeOK, TypeOK, queueVars, debtVars, sendVars
    <3>2. CASE Withhold(f)
      BY <2>0, <3>2 DEF Withhold, Awaiting, ConsumeOwedReply, StaleReplyPossible, QueueTypeOK, TypeOK,
         queueVars, sendVars
    <3>3. CASE MatchShort(f)
      <4>1. QueueTypeOK'
        BY <2>7, <3>3, SettleType DEF MatchShort, Awaiting
      <4> QED
        BY <3>3, <4>1 DEF MatchShort, ClearExpiredDebt, TypeOK, States
    <3>4. CASE MatchLong(f)
      <4>1. QueueTypeOK'
        BY <2>7, <3>4, SettleType DEF MatchLong, Awaiting
      <4> QED
        BY <3>4, <4>1 DEF MatchLong, TypeOK, States, debtVars
    <3> QED
      BY <2>7, <3>1, <3>2, <3>3, <3>4 DEF TryDispatchResponse
  <2>8. CASE OnReply
    <3>1. Head(wire) \in Reply
          /\ Tail(wire) \in Seq(Reply)
      BY <2>8 DEF OnReply, TypeOK
    <3>2. Frame(Head(wire)).from \in Cmds \cup {NoCmd}
      BY <3>1 DEF Frame, Reply
    <3>3. TryDispatchResponse(Frame(Head(wire)))
      BY <2>8 DEF OnReply
    <3> DEFINE f == Frame(Head(wire))
    <3>4. f.from \in Cmds \cup {NoCmd} /\ TryDispatchResponse(f)
      BY <3>2, <3>3
    <3>5. /\ wire' = Tail(wire) /\ late' \in Nat
          /\ UNCHANGED <<resyncVars, peerVars, abandonVars>>
      BY <2>8 DEF OnReply, TypeOK
    <3> HIDE DEF f
    <3>6. /\ QueueTypeOK' /\ state' \in States
          /\ bytes_sent' \in Nat /\ send_age' \in Nat /\ await_age' \in Nat
          /\ owed_replies' \in 0..OwedMax /\ owed_pending' \in BOOLEAN /\ owed_age' \in Nat
          /\ suppressed' \subseteq Cmds /\ withheld' \in Nat
      BY <2>7, <3>4
    <3> QED
      BY <3>1, <3>5, <3>6 DEF TypeOK, QueueTypeOK, resyncVars, peerVars, abandonVars
  <2>9. CASE OnVolunteered
    <3> DEFINE f == [from |-> NoCmd, body |-> "register", type |-> NoCmd]
    <3>1. f.from \in Cmds \cup {NoCmd} /\ TryDispatchResponse(f)
      BY <2>9 DEF OnVolunteered
    <3> HIDE DEF f
    <3> QED
      BY <2>7, <2>9, <3>1 DEF OnVolunteered, TypeOK, QueueTypeOK, resyncVars, peerVars, abandonVars, wireVars
  <2>10. CASE LoseReply
    <3>1. Tail(wire) \in Seq(Reply)
      BY <2>10 DEF LoseReply, TypeOK
    <3> QED
      BY <2>10, <3>1 DEF LoseReply, TypeOK, queueVars, debtVars, sendVars, resyncVars, peerVars, abandonVars
  <2>11. CASE Reset
    <3>1. abandoning' \in BOOLEAN
      BY <2>11 DEF Reset
    <3>2. owed_replies' \in 0..OwedMax
      BY <2>11 DEF Reset
    <3>3. wire' \in Seq(Reply)
      BY <2>11 DEF Reset
    <3>4. old' \subseteq Cmds
      BY <2>11 DEF Reset, TypeOK
    <3> QED
      BY <2>11, <3>1, <3>2, <3>3, <3>4 DEF Reset, TypeOK, States, queueVars
  <2>12. CASE AbandonStep
    <3>1. QueueTypeOK'
      BY <2>12, FailFrontType DEF AbandonStep
    <3> QED
      BY <2>12, <3>1 DEF AbandonStep, TypeOK, QueueTypeOK, debtVars, sendVars, resyncVars, peerVars, wireVars
  <2>13. CASE AbandonEnd
    <3>1. Elems(queue) \subseteq Cmds
      BY DEF Elems, TypeOK
    <3>2. queue' \in Seq(Cmds)
      BY <2>13 DEF AbandonEnd
    <3> QED
      BY <2>13, <3>1, <3>2 DEF AbandonEnd, TypeOK, States, debtVars, resyncVars, peerVars, wireVars
  <2>14. CASE Tick
    <3> DEFINE R == Reply
    <3>1. wire' \in Seq(R)
      <4>1. wire \in Seq(R) /\ Len(wire) \in Nat /\ \A i \in 1..Len(wire) : wire[i] \in R
        BY DEF TypeOK
      <4>2. \A i \in 1..Len(wire) : [wire[i] EXCEPT !.age = @ + 1] \in R
        <5> SUFFICES ASSUME NEW i \in 1..Len(wire)
                     PROVE  [wire[i] EXCEPT !.age = @ + 1] \in R
          OBVIOUS
        <5>1. wire[i] \in [from : Cmds, body : Bodies, age : Nat]
          BY <4>1 DEF Reply
        <5>2. ASSUME NEW r \in [from : Cmds, body : Bodies, age : Nat]
              PROVE  [r EXCEPT !.age = @ + 1] \in [from : Cmds, body : Bodies, age : Nat]
          <6>1. r.age + 1 \in Nat
            OBVIOUS
          <6> DEFINE a == r.age + 1
          <6> HIDE DEF a
          <6>2. a \in Nat => [r EXCEPT !.age = a] \in [from : Cmds, body : Bodies, age : Nat]
            OBVIOUS
          <6> QED
            BY <6>1, <6>2 DEF a
        <5> QED
          BY <5>1, <5>2 DEF Reply
      <4> HIDE DEF R
      <4>3. wire' = [i \in 1..Len(wire) |-> [wire[i] EXCEPT !.age = @ + 1]]
        BY <2>14 DEF Tick
      <4>4. \A n \in Nat : \A f \in [1..n -> R] : f \in Seq(R)
        OBVIOUS
      <4>5. wire' \in [1..Len(wire) -> R]
        BY <4>2, <4>3
      <4> QED
        BY <4>1, <4>4, <4>5
    <3>2. /\ send_age' \in Nat /\ await_age' \in Nat /\ owed_age' \in Nat
          /\ resync_age' \in Nat /\ peer_age' \in Nat
      BY <2>14, OlderType DEF Tick, TypeOK
    <3> QED
      BY <2>14, <3>1, <3>2 DEF Tick, TypeOK, queueVars, abandonVars
  <2>15. CASE UNCHANGED vars
    BY <2>15 DEF vars, TypeOK, queueVars, debtVars, sendVars, resyncVars, peerVars, abandonVars, wireVars
  <2> QED
    BY <2>1, <2>4, <2>5, <2>6, <2>8, <2>9, <2>10, <2>11, <2>12, <2>13, <2>14, <2>15 DEF Next
<1> QED
  BY <1>1, <1>2, PTL DEF Spec

-----------------------------------------------------------------------------
(* Every step does one of six things to the queue. *)

SettleStep ==
  /\ queue # <<>>
  /\ \E ok \in BOOLEAN, by \in Cmds \cup {NoCmd}, chain \in Chains(Head(queue)) :
       Settle(ok, by, chain)
  /\ UNCHANGED <<stranded, old, abandoning>>

PopSilent ==
  /\ queue # <<>> /\ ~HasCallback(Head(queue))
  /\ queue' = Tail(queue)
  /\ UNCHANGED <<issued, calls, stranded, old, abandoning>>

QueueUntouched == UNCHANGED <<queueVars, stranded, old, abandoning>>

LEMMA StepKinds ==
  ASSUME TypeOK, [Next]_vars
  PROVE  \/ QueueUntouched \/ SettleStep \/ PopSilent
         \/ (\E c \in Cmds : SendCommand(c)) \/ Reset \/ AbandonEnd
<1>1. ASSUME queue # <<>>, FailFront, UNCHANGED <<stranded, old, abandoning>> PROVE SettleStep
  BY <1>1 DEF FailFront, SettleStep
<1>2. ASSUME NEW sent, queue # <<>>, WriteOk(sent), UNCHANGED <<stranded, old, abandoning>>
      PROVE  QueueUntouched \/ PopSilent
  BY <1>2 DEF WriteOk, QueueUntouched, PopSilent
<1>3. ASSUME NEW sent, queue # <<>>, WriteFails(sent), UNCHANGED <<stranded, old, abandoning>>
      PROVE  SettleStep
  BY <1>1, <1>3 DEF WriteFails
<1>4. ASSUME NEW f, f.from \in Cmds \cup {NoCmd}, TryDispatchResponse(f),
             UNCHANGED <<stranded, old, abandoning>>
      PROVE  QueueUntouched \/ SettleStep
  <2>1. CASE Unmatched(f) \/ Withhold(f)
    BY <1>4, <2>1 DEF Unmatched, Withhold, QueueUntouched
  <2>2. CASE MatchShort(f)
    <3>1. PICK chain \in Chains(Head(queue)) : Settle(f.body = "ack", f.from, chain)
      BY <2>2 DEF MatchShort
    <3>2. queue # <<>> /\ (f.body = "ack") \in BOOLEAN
      BY <2>2 DEF MatchShort, Awaiting
    <3> QED
      BY <1>4, <3>1, <3>2 DEF SettleStep
  <2>3. CASE MatchLong(f)
    BY <1>4, <2>3 DEF MatchLong, Awaiting, SettleStep
  <2> QED
    BY <1>4, <2>1, <2>2, <2>3 DEF TryDispatchResponse
<1>5. CASE LoopIdle
  BY <1>2, <1>3, <1>5 DEF LoopIdle, abandonVars, QueueUntouched
<1>6. CASE LoopSending
  BY <1>2, <1>3, <1>6 DEF LoopSending, abandonVars
<1>7. CASE LoopTimeout
  BY <1>1, <1>7 DEF LoopTimeout, abandonVars
<1>8. CASE OnReply
  <2>1. Head(wire) \in Reply
    BY <1>8 DEF OnReply, TypeOK
  <2>2. Frame(Head(wire)).from \in Cmds \cup {NoCmd}
    BY <2>1 DEF Frame, Reply
  <2> QED
    BY <1>4, <1>8, <2>2 DEF OnReply, abandonVars
<1>9. CASE OnVolunteered
  <2> DEFINE f == [from |-> NoCmd, body |-> "register", type |-> NoCmd]
  <2>1. f.from \in Cmds \cup {NoCmd} /\ TryDispatchResponse(f)
    BY <1>9 DEF OnVolunteered
  <2> HIDE DEF f
  <2> QED
    BY <1>4, <1>9, <2>1 DEF OnVolunteered, abandonVars
<1>10. CASE LoseReply \/ Tick \/ UNCHANGED vars
  BY <1>10 DEF LoseReply, Tick, vars, abandonVars, QueueUntouched
<1>11. CASE AbandonStep
  BY <1>1, <1>11 DEF AbandonStep
<1> QED
  BY <1>5, <1>6, <1>7, <1>8, <1>9, <1>10, <1>11 DEF Next

-----------------------------------------------------------------------------
(* Exactly-once completion, and no command carried over a disconnection. *)

\* Queued, given up and settled are three disjoint fates of an issued command;
\* what was issued before the last disconnection is no longer queued.
OnceInv ==
  /\ Elems(queue) \subseteq issued /\ stranded \subseteq issued /\ old \subseteq issued
  /\ Elems(queue) \cap stranded = {}
  /\ Distinct(queue)
  /\ \A c \in Cmds : calls[c] <= 1
  /\ \A c \in Cmds : c \notin issued => calls[c] = 0
  /\ \A c \in issued : HasCallback(c) => (calls[c] = 1 <=> c \notin Elems(queue) \cup stranded)
  /\ ~abandoning => Elems(queue) \cap old = {}

\* A settled command leaves the queue and its callback has run, for the first
\* time.
LEMMA SettleKeepsOnce ==
  ASSUME TypeOK, OnceInv, SettleStep
  PROVE  OnceInv'
<1> DEFINE h == Head(queue)
<1>1. PICK ok \in BOOLEAN, by \in Cmds \cup {NoCmd}, chain \in Chains(h) : Settle(ok, by, chain)
  BY DEF SettleStep
<1>2. queue \in Seq(Cmds) /\ queue # <<>>
  BY DEF SettleStep, TypeOK
<1>3. /\ h \in Cmds /\ h \in Elems(queue) /\ Tail(queue) \in Seq(Cmds)
      /\ Elems(queue) = Elems(Tail(queue)) \cup {h}
      /\ Distinct(Tail(queue)) /\ h \notin Elems(Tail(queue))
  BY <1>2, ElemsTail DEF OnceInv
<1>4. /\ chain \in Seq(Cmds) /\ Elems(chain) \subseteq Cmds \ issued /\ Distinct(chain)
  BY <1>1, <1>3, ChainFacts DEF Fresh
<1>5. /\ queue' = Tail(queue) \o chain /\ issued' = issued \cup Elems(chain)
      /\ calls' = IF HasCallback(h) THEN [calls EXCEPT ![h] = @ + 1] ELSE calls
      /\ stranded' = stranded /\ old' = old /\ abandoning' = abandoning
  BY <1>1 DEF Settle, SettleStep
<1>6. Elems(Tail(queue)) \cap Elems(chain) = {}
  BY <1>3, <1>4 DEF OnceInv
<1>7. Elems(queue') = Elems(Tail(queue)) \cup Elems(chain) /\ Distinct(queue')
  <2>1. /\ Elems(Tail(queue) \o chain) = Elems(Tail(queue)) \cup Elems(chain)
        /\ Distinct(Tail(queue) \o chain)
    <3> DEFINE t == Tail(queue)
    <3>1. t \in Seq(Cmds) /\ chain \in Seq(Cmds)
      BY <1>3, <1>4
    <3>2. Distinct(t) /\ Distinct(chain) /\ Elems(t) \cap Elems(chain) = {}
      BY <1>3, <1>4, <1>6
    <3> HIDE DEF t
    <3>3. Elems(t \o chain) = Elems(t) \cup Elems(chain)
      BY <3>1, ElemsConcat
    <3>4. Distinct(t \o chain)
      BY <3>1, <3>2, ElemsConcat
    <3> QED
      BY <3>3, <3>4 DEF t
  <2> QED
    BY <1>5, <2>1
<1>8. \A c \in Cmds : calls'[c] = IF c = h /\ HasCallback(h) THEN calls[c] + 1 ELSE calls[c]
  BY <1>3, <1>5 DEF TypeOK
<1>9. HasCallback(h) => calls[h] = 0
  <2>1. h \in issued /\ calls[h] \in Nat /\ calls[h] <= 1
    BY <1>3 DEF OnceInv, TypeOK
  <2> QED
    BY <1>3, <2>1 DEF OnceInv
<1>10. Elems(queue)' = Elems(queue')
  BY DEF Elems
<1>11. /\ Elems(queue)' \subseteq issued' /\ (stranded \subseteq issued)' /\ (old \subseteq issued)'
       /\ Elems(queue)' \cap stranded' = {} /\ Distinct(queue)'
  BY <1>3, <1>4, <1>5, <1>7, <1>10 DEF OnceInv, Distinct
<1>12. \A c \in Cmds : calls'[c] <= 1 /\ (c \notin issued' => calls'[c] = 0)
  BY <1>3, <1>5, <1>8, <1>9 DEF OnceInv
<1>13. \A c \in issued' : HasCallback(c) =>
          (calls'[c] = 1 <=> c \notin Elems(queue)' \cup stranded')
  <2> SUFFICES ASSUME NEW c \in issued', HasCallback(c)
               PROVE  calls'[c] = 1 <=> c \notin Elems(queue)' \cup stranded'
    OBVIOUS
  <2>1. c \in Cmds
    BY <1>4, <1>5 DEF TypeOK
  <2>2. CASE c \in Elems(chain)
    BY <1>3, <1>4, <1>7, <1>8, <1>10, <2>1, <2>2 DEF OnceInv
  <2>3. CASE c = h
    BY <1>3, <1>4, <1>5, <1>7, <1>8, <1>9, <1>10, <2>1, <2>3 DEF OnceInv
  <2>4. CASE c \in issued /\ c # h
    BY <1>3, <1>4, <1>5, <1>7, <1>8, <1>10, <2>1, <2>4 DEF OnceInv
  <2> QED
    BY <1>5, <2>2, <2>3, <2>4
<1>14. ~abandoning' => Elems(queue)' \cap old' = {}
  BY <1>3, <1>4, <1>5, <1>7, <1>10 DEF OnceInv
<1> QED
  BY <1>11, <1>12, <1>13, <1>14 DEF OnceInv

\* The invariant and its three consequences.
LEMMA OnceInductive ==
  ASSUME TypeOK, OnceInv, [Next]_vars
  PROVE  OnceInv'
<1>0. queue \in Seq(Cmds) /\ Elems(queue)' = Elems(queue')
  BY DEF TypeOK, Elems
<1>1. CASE QueueUntouched
  <2>1. /\ queue' = queue /\ issued' = issued /\ calls' = calls
        /\ stranded' = stranded /\ old' = old /\ abandoning' = abandoning
    BY <1>1 DEF QueueUntouched, queueVars
  <2>2. Elems(queue)' = Elems(queue) /\ Distinct(queue)' = Distinct(queue)
    BY <2>1 DEF Elems, Distinct
  <2> QED
    BY <2>1, <2>2 DEF OnceInv
<1>2. CASE SettleStep
  BY <1>2, SettleKeepsOnce
<1>3. CASE PopSilent
  <2>1. /\ queue' = Tail(queue) /\ issued' = issued /\ calls' = calls
        /\ stranded' = stranded /\ old' = old /\ abandoning' = abandoning
    BY <1>3 DEF PopSilent
  <2>2. /\ Head(queue) \in Cmds /\ Elems(queue) = Elems(Tail(queue)) \cup {Head(queue)}
        /\ Distinct(Tail(queue)) /\ Head(queue) \notin Elems(Tail(queue))
    BY <1>0, <1>3, ElemsTail DEF PopSilent, OnceInv
  <2>3. Elems(queue)' = Elems(Tail(queue)) /\ Distinct(queue)'
    BY <2>1, <2>2 DEF Elems, Distinct
  <2> QED
    BY <1>3, <2>1, <2>2, <2>3 DEF OnceInv, PopSilent
<1>4. ASSUME NEW c \in Cmds, SendCommand(c) PROVE OnceInv'
  <2>1. /\ queue' = Append(queue, c) /\ issued' = issued \cup {c} /\ calls' = calls
        /\ stranded' = stranded /\ old' = old /\ abandoning' = abandoning
    BY <1>4 DEF SendCommand, abandonVars
  <2>2. c \notin issued /\ c \notin Elems(queue) /\ c \notin stranded /\ c \notin old
    BY <1>4 DEF SendCommand, Fresh, OnceInv
  <2>3. Elems(Append(queue, c)) = Elems(queue) \cup {c} /\ Distinct(Append(queue, c))
    BY <1>0, <2>2, ElemsAppend DEF OnceInv
  <2>4. Elems(queue)' = Elems(queue) \cup {c} /\ Distinct(queue)'
    BY <2>1, <2>3 DEF Elems, Distinct
  <2> QED
    BY <2>1, <2>2, <2>4 DEF OnceInv
<1>5. CASE Reset
  <2>1. /\ queue' = queue /\ issued' = issued /\ calls' = calls /\ stranded' = stranded
        /\ old' = (IF queue = <<>> THEN issued ELSE old) /\ abandoning' = (queue # <<>>)
    BY <1>5 DEF Reset, queueVars
  <2>2. Elems(queue)' = Elems(queue) /\ Distinct(queue)' = Distinct(queue)
    BY <2>1 DEF Elems, Distinct
  <2>3. queue = <<>> => Elems(queue) = {}
    BY DEF Elems
  <2> QED
    BY <2>1, <2>2, <2>3 DEF OnceInv
<1>6. CASE AbandonEnd
  <2>1. /\ queue' = <<>> /\ issued' = issued /\ calls' = calls
        /\ stranded' = stranded \cup Elems(queue) /\ old' = issued
    BY <1>6 DEF AbandonEnd
  <2>2. Elems(queue)' = {} /\ Distinct(queue)'
    BY <2>1 DEF Elems, Distinct
  <2> QED
    BY <2>1, <2>2 DEF OnceInv
<1> QED
  BY <1>1, <1>2, <1>3, <1>4, <1>5, <1>6, StepKinds

LEMMA OnceInitially == Init => OnceInv
  BY DEF Init, OnceInv, Elems, Distinct

\* Every callback runs at most once, and a command leaves the queue untold
\* only through the drain's cap.
THEOREM CallbackRunsOnce == Spec => []ExactlyOnce
<1>1. OnceInv => ExactlyOnce
  BY DEF OnceInv, ExactlyOnce
<1> QED
  BY <1>1, TypeCorrect, OnceInitially, OnceInductive, PTL DEF Spec

\* No command queued before a disconnection is still queued after it.
THEOREM NothingCarriedOver == Spec => []NoCarryOver
<1>1. OnceInv => NoCarryOver
  BY DEF OnceInv, NoCarryOver
<1> QED
  BY <1>1, TypeCorrect, OnceInitially, OnceInductive, PTL DEF Spec

-----------------------------------------------------------------------------
(* The refinement. *)

\* What a step does to the queue is a step of the promise, or none.
THEOREM TransportKeepsPromise == Spec => KeepsPromise
<1> USE DEF Promise!vars
<1>1. Init => Promise!Init
  BY DEF Init, Promise!Init
<1>2. ASSUME TypeOK, [Next]_vars PROVE [Promise!Next]_(Promise!vars)
  <2>1. CASE QueueUntouched
    BY <2>1 DEF QueueUntouched, queueVars
  <2>2. CASE SettleStep
    <3>1. PICK ok \in BOOLEAN, by \in Cmds \cup {NoCmd}, chain \in Chains(Head(queue)) :
            Settle(ok, by, chain)
      BY <2>2 DEF SettleStep
    <3>2. queue # <<>> /\ Head(queue) \in Cmds
      BY <1>2, <2>2 DEF SettleStep, TypeOK
    <3>3. /\ Elems(chain) \subseteq Cmds \ issued /\ Len(chain) <= 1
          /\ chain = <<>> \/ \E d \in Cmds : chain = <<d>>
          /\ ~HasCallback(Head(queue)) => chain = <<>>
      BY <1>2, <3>1, <3>2, ChainFacts DEF Fresh
    <3>4. Promise!Members(chain) = Elems(chain)
      BY DEF Promise!Members, Elems
    <3>5. Promise!End(chain)
      BY <2>2, <3>1, <3>2, <3>3, <3>4 DEF Promise!End, Settle, SettleStep
    <3>6. chain \in {<<>>} \cup {<<d>> : d \in Cmds}
      BY <3>3
    <3> QED
      BY <3>5, <3>6 DEF Promise!Next
  <2>3. CASE PopSilent
    <3>1. queue \in Seq(Cmds) /\ queue # <<>> /\ Head(queue) \in Cmds /\ Tail(queue) \in Seq(Cmds)
      BY <1>2, <2>3 DEF PopSilent, TypeOK
    <3>2. Tail(queue) = Tail(queue) \o <<>>
      BY <3>1
    <3>3. Promise!End(<<>>)
      BY <2>3, <3>1, <3>2 DEF Promise!End, Promise!Members, PopSilent
    <3> QED
      BY <3>3 DEF Promise!Next
  <2>4. ASSUME NEW c \in Cmds, SendCommand(c) PROVE Promise!Next
    BY <2>4 DEF SendCommand, Fresh, Promise!Next, Promise!Queue, abandonVars
  <2>5. CASE Reset
    BY <2>5 DEF Reset, queueVars
  <2>6. CASE AbandonEnd
    BY <2>6 DEF AbandonEnd, Promise!Next, Promise!GiveUp, Promise!Members, Elems
  <2> QED
    BY <1>2, <2>1, <2>2, <2>3, <2>4, <2>5, <2>6, StepKinds
<1> QED
  BY <1>1, <1>2, TypeCorrect, PTL DEF Spec, KeepsPromise, Promise!Spec

-----------------------------------------------------------------------------
(* The hold after a partial write. *)

\* While the pump holds part of a frame, either that frame is still being
\* sent, or the partial is stale, or the hold is on and younger than it.
PeerInv ==
  /\ swallowed = {}
  /\ state = "SENDING_CHUNKS" => bytes_sent > 0
  /\ abandoning => ~peer_partial
  /\ peer_partial =>
       \/ state = "SENDING_CHUNKS"
       \/ peer_age > PeerStale
       \/ peer_resync_pending /\ resync_age <= peer_age

\* The first chunk of a frame always meets a receiver that starts afresh.
LEMMA WriteOkPeer ==
  ASSUME TypeOK, PeerInv, NEW sent \in Nat, queue # <<>>, WriteOk(sent), ~abandoning',
         sent = 0 => ~peer_partial \/ peer_age > PeerStale
  PROVE  PeerInv'
<1>1. PumpReceives(Head(queue), sent)
  BY DEF WriteOk
<1>2. ~(sent = 0 /\ peer_partial /\ peer_age <= PeerStale)
  BY TimingAssumption DEF TypeOK
<1>3. swallowed' = {}
  BY <1>1, <1>2 DEF PumpReceives, PeerInv
<1>4. peer_partial' => ~(sent + 1 >= Chunks[Head(queue)])
  BY <1>1, <1>2 DEF PumpReceives
<1>5. sent + 1 < Chunks[Head(queue)] => state' = "SENDING_CHUNKS" /\ bytes_sent' = sent + 1
  BY DEF WriteOk
<1>6. state' = "SENDING_CHUNKS" => bytes_sent' = sent + 1
  BY DEF WriteOk
<1>7. Chunks[Head(queue)] \in Nat
  <2>1. Head(queue) \in Cmds
    BY DEF TypeOK
  <2> QED
    BY <2>1, ProfileAssumption
<1> QED
  BY <1>3, <1>4, <1>5, <1>6, <1>7 DEF PeerInv

LEMMA PeerInductive ==
  ASSUME TypeOK, PeerInv, [Next]_vars
  PROVE  PeerInv'
<1> USE TimingAssumption
<1>1. CASE LoopIdle
  <2>1. ~peer_partial \/ peer_age > PeerStale
    BY <1>1 DEF LoopIdle, PeerInv, TypeOK
  <2>2. CASE send_age < Pacing
    BY <1>1, <2>1, <2>2 DEF LoopIdle, PeerInv, sendVars, peerVars, abandonVars
  <2>3. CASE ~(send_age < Pacing) /\ WriteOk(0)
    BY <1>1, <2>1, <2>3, WriteOkPeer DEF LoopIdle, abandonVars
  <2>4. CASE ~(send_age < Pacing) /\ WriteFails(0)
    BY <1>1, <2>1, <2>4 DEF LoopIdle, WriteFails, PeerInv, peerVars, abandonVars
  <2> QED
    BY <1>1, <2>2, <2>3, <2>4 DEF LoopIdle
<1>2. CASE LoopSending
  <2>1. bytes_sent \in Nat /\ bytes_sent > 0 /\ queue # <<>>
    BY <1>2 DEF LoopSending, PeerInv, TypeOK
  <2>2. CASE WriteOk(bytes_sent)
    BY <1>2, <2>1, <2>2, WriteOkPeer DEF LoopSending, abandonVars
  <2>3. CASE WriteFails(bytes_sent) /\ peer_resync_pending'
    BY <1>2, <2>1, <2>3 DEF LoopSending, WriteFails, PeerInv, peerVars, abandonVars, TypeOK
  <2> QED
    BY <1>2, <2>1, <2>2, <2>3 DEF LoopSending
<1>3. CASE LoopTimeout
  BY <1>3 DEF LoopTimeout, PeerInv, resyncVars, peerVars, abandonVars
<1>4. ASSUME NEW f, TryDispatchResponse(f), UNCHANGED <<resyncVars, peerVars, abandonVars>> PROVE PeerInv'
  <2>1. UNCHANGED sendVars \/ (state = "AWAITING_RESPONSE" /\ state' = "IDLE")
    BY <1>4 DEF TryDispatchResponse, Unmatched, Withhold, MatchShort, MatchLong, Awaiting
  <2> QED
    BY <1>4, <2>1 DEF PeerInv, sendVars, resyncVars, peerVars, abandonVars
<1>5. CASE OnReply
  BY <1>4, <1>5 DEF OnReply
<1>6. CASE OnVolunteered
  BY <1>4, <1>6 DEF OnVolunteered
<1>7. CASE Reset
  BY <1>7 DEF Reset, PeerInv
<1>8. CASE AbandonEnd
  BY <1>8 DEF AbandonEnd, PeerInv, resyncVars, peerVars
<1>9. CASE Tick
  <2>1. swallowed' = {} /\ state' = state /\ bytes_sent' = bytes_sent /\ peer_partial' = peer_partial
        /\ peer_resync_pending' = peer_resync_pending /\ abandoning' = abandoning
    BY <1>9 DEF Tick, PeerInv, abandonVars
  <2>2. ASSUME peer_partial PROVE peer_age' = Older(peer_age, ResyncHold)
    BY <1>9, <2>2 DEF Tick
  <2>3. ASSUME peer_resync_pending PROVE resync_age' = Older(resync_age, ResyncHold)
    BY <1>9, <2>3 DEF Tick
  <2> QED
    BY <2>1, <2>2, <2>3 DEF PeerInv, Older, TypeOK
<1>10. CASE (\E c \in Cmds : SendCommand(c)) \/ LoseReply \/ AbandonStep \/ UNCHANGED vars
  BY <1>10 DEF SendCommand, LoseReply, AbandonStep, vars, PeerInv, sendVars, resyncVars, peerVars, abandonVars
<1> QED
  BY <1>1, <1>2, <1>3, <1>5, <1>6, <1>7, <1>8, <1>9, <1>10 DEF Next

\* The pump never takes a command's frame for the rest of a broken one,
\* whatever the chunk counts and timings, as long as the hold outlasts the
\* pump's staleness guard.
THEOREM HoldProtectsFrames == Spec => []NoSwallow
<1>1. Init => PeerInv
  BY DEF Init, PeerInv
<1>2. PeerInv => NoSwallow
  BY DEF PeerInv, NoSwallow
<1> QED
  BY <1>1, <1>2, TypeCorrect, PeerInductive, PTL DEF Spec

-----------------------------------------------------------------------------
(* The reply debt. *)

\* What DamageBounded rests on: a command that waits has a callback, and a
\* command whose callback has not run has no outcome.
DebtInv ==
  /\ DamageBounded
  /\ state = "AWAITING_RESPONSE" => queue # <<>> /\ HasCallback(Head(queue))
  /\ abandoning => state = "IDLE"
  /\ \A c \in Cmds : calls[c] = 0 => outcome[c] = "none"
  /\ \A c \in Cmds : ~HasCallback(c) => calls[c] = 0

LEMMA QueuedHasNoOutcome ==
  ASSUME TypeOK, OnceInv, DebtInv, queue # <<>>
  PROVE  Head(queue) \in Cmds /\ calls[Head(queue)] = 0 /\ outcome[Head(queue)] = "none"
<1>1. Head(queue) \in Cmds /\ Head(queue) \in Elems(queue)
  BY ElemsTail DEF TypeOK
<1>2. calls[Head(queue)] \in Nat /\ calls[Head(queue)] <= 1 /\ Head(queue) \in issued
  BY <1>1 DEF OnceInv, TypeOK
<1>3. calls[Head(queue)] = 0
  BY <1>1, <1>2 DEF OnceInv, DebtInv
<1> QED
  BY <1>1, <1>3 DEF DebtInv

\* Failures only add to the commands that may have cost an acknowledgement.
LEMMA FailedGrows ==
  ASSUME TypeOK, TypeOK', FailedUnsuppressed \subseteq FailedUnsuppressed'
  PROVE  /\ Cardinality(FailedUnsuppressed) \in Nat /\ Cardinality(FailedUnsuppressed') \in Nat
         /\ Cardinality(FailedUnsuppressed) <= Cardinality(FailedUnsuppressed')
<1>1. IsFiniteSet(FailedUnsuppressed) /\ IsFiniteSet(FailedUnsuppressed')
  BY ProfileAssumption, FS_Subset DEF FailedUnsuppressed
<1> QED
  BY <1>1, FS_Subset, FS_CardinalityType

LEMMA DebtInductive ==
  ASSUME TypeOK, TypeOK', OnceInv, DebtInv, [Next]_vars
  PROVE  DebtInv'
<1> DEFINE F == FailedUnsuppressed
           h == Head(queue)
<1>0. /\ Cardinality(F) \in Nat /\ Cardinality(F') \in Nat
      /\ F \subseteq F' => Cardinality(F) <= Cardinality(F')
      /\ withheld \in Nat /\ owed_replies \in Nat /\ OwedMax \in Nat
      /\ withheld + owed_replies <= Cardinality(F)
  <2>1. IsFiniteSet(F) /\ IsFiniteSet(F')
    BY FS_Subset, ProfileAssumption DEF FailedUnsuppressed
  <2>2. Cardinality(F) \in Nat /\ Cardinality(F') \in Nat
    BY <2>1, FS_CardinalityType
  <2>3. F \subseteq F' => Cardinality(F) <= Cardinality(F')
    BY <2>1, FS_Subset
  <2>4. OwedMax \in Nat
    BY TimingAssumption
  <2>5. withheld \in Nat /\ owed_replies \in Nat
    BY <2>4 DEF TypeOK
  <2>6. withheld + owed_replies <= Cardinality(F)
    BY DEF DebtInv, DamageBounded
  <2> QED
    BY <2>2, <2>3, <2>4, <2>5, <2>6
<1>1. ASSUME NEW ok \in BOOLEAN, NEW by, NEW chain, queue # <<>>, Settle(ok, by, chain),
             suppressed' = suppressed
      PROVE  /\ F' = IF ~ok /\ HasCallback(h) /\ h \notin suppressed THEN F \cup {h} ELSE F
             /\ h \notin F
             /\ \A c \in Cmds : calls'[c] = 0 => outcome'[c] = "none"
             /\ \A c \in Cmds : ~HasCallback(c) => calls'[c] = 0
  <2>1. h \in Cmds /\ calls[h] = 0 /\ outcome[h] = "none"
    BY <1>1, QueuedHasNoOutcome
  <2>2. /\ calls' = IF HasCallback(h) THEN [calls EXCEPT ![h] = @ + 1] ELSE calls
        /\ outcome' = IF HasCallback(h)
                      THEN [outcome EXCEPT ![h] = IF ok THEN "ok" ELSE "failed"] ELSE outcome
    BY <1>1 DEF Settle
  <2>3. \A c \in Cmds : /\ calls'[c] = IF HasCallback(h) /\ c = h THEN 1 ELSE calls[c]
                        /\ outcome'[c] = IF HasCallback(h) /\ c = h
                                         THEN (IF ok THEN "ok" ELSE "failed") ELSE outcome[c]
    BY <2>1, <2>2 DEF TypeOK
  <2>4. F' = IF ~ok /\ HasCallback(h) /\ h \notin suppressed THEN F \cup {h} ELSE F
    BY <1>1, <2>1, <2>3 DEF FailedUnsuppressed
  <2>5. h \notin F
    BY <2>1 DEF FailedUnsuppressed
  <2>6. \A c \in Cmds : calls'[c] = 0 => outcome'[c] = "none"
    BY <2>3 DEF DebtInv
  <2>7. \A c \in Cmds : ~HasCallback(c) => calls'[c] = 0
    BY <2>3 DEF DebtInv
  <2> QED
    BY <2>4, <2>5, <2>6, <2>7
<1>2. ASSUME queue # <<>>, FailFront, suppressed' = suppressed
      PROVE  /\ F \subseteq F'
             /\ HasCallback(h) /\ h \notin suppressed => F' = F \cup {h} /\ h \notin F
             /\ \A c \in Cmds : calls'[c] = 0 => outcome'[c] = "none"
             /\ \A c \in Cmds : ~HasCallback(c) => calls'[c] = 0
  BY <1>1, <1>2 DEF FailFront
<1>3. ASSUME UNCHANGED <<calls, outcome, suppressed>>
      PROVE  F' = F
  BY <1>3 DEF FailedUnsuppressed
<1>4. CASE LoopTimeout
  <2>1. queue # <<>> /\ FailFront /\ NoteReplyOwed(h \in suppressed) /\ state' = "IDLE"
        /\ suppressed' = suppressed /\ withheld' = withheld
    BY <1>4 DEF LoopTimeout
  <2>2. HasCallback(h)
    BY <1>4 DEF LoopTimeout, DebtInv
  <2>3. CASE h \in suppressed
    <3>1. owed_replies' = owed_replies
      BY <2>1, <2>3 DEF NoteReplyOwed
    <3> QED
      BY <1>0, <1>2, <2>1, <3>1 DEF DebtInv, DamageBounded
  <2>4. CASE h \notin suppressed
    <3>1. owed_replies' <= owed_replies + 1 /\ owed_replies' \in Nat
      BY <1>0, <2>1, <2>4 DEF NoteReplyOwed
    <3>2. F' = F \cup {h} /\ h \notin F
      BY <1>2, <2>1, <2>2, <2>4
    <3>3. Cardinality(F') = Cardinality(F) + 1
      <4>1. IsFiniteSet(F)
        BY ProfileAssumption, FS_Subset DEF FailedUnsuppressed
      <4> QED
        BY <3>2, <4>1, FS_AddElement
    <3> QED
      BY <1>0, <1>2, <2>1, <3>1, <3>3 DEF DebtInv, DamageBounded
  <2> QED
    BY <2>3, <2>4
<1>5. ASSUME NEW sent, queue # <<>>, ~abandoning, UNCHANGED <<debtVars, abandonVars>>,
             WriteOk(sent) \/ WriteFails(sent)
      PROVE  DebtInv'
  <2>1. CASE WriteFails(sent)
    <3>1. FailFront /\ state' = "IDLE"
      BY <2>1 DEF WriteFails
    <3> QED
      BY <1>0, <1>2, <1>5, <3>1 DEF DebtInv, DamageBounded, debtVars, abandonVars
  <2>2. CASE WriteOk(sent)
    <3>1. calls' = calls /\ outcome' = outcome
      BY <2>2 DEF WriteOk, queueVars
    <3>2. state' = "AWAITING_RESPONSE" => queue' = queue /\ HasCallback(h)
      BY <2>2 DEF WriteOk, queueVars
    <3> QED
      BY <1>0, <1>3, <1>5, <3>1, <3>2 DEF DebtInv, DamageBounded, debtVars, abandonVars
  <2> QED
    BY <1>5, <2>1, <2>2
<1>6. CASE LoopIdle
  <2>1. CASE send_age < Pacing
    BY <1>0, <1>3, <1>6, <2>1
    DEF LoopIdle, DebtInv, DamageBounded, debtVars, queueVars, sendVars, abandonVars
  <2> QED
    BY <1>5, <1>6, <2>1 DEF LoopIdle
<1>7. CASE LoopSending
  BY <1>5, <1>7 DEF LoopSending
<1>8. ASSUME NEW f, TryDispatchResponse(f), ~abandoning, abandoning' = abandoning
      PROVE  DebtInv'
  <2>1. CASE Unmatched(f)
    BY <1>0, <1>3, <1>8, <2>1 DEF Unmatched, DebtInv, DamageBounded, debtVars, queueVars, sendVars
  <2>2. CASE Withhold(f)
    <3>1. /\ queue # <<>> /\ owed_replies > 0 /\ owed_replies' = owed_replies - 1
          /\ withheld' = withheld + 1 /\ suppressed' = suppressed \cup {h}
          /\ calls' = calls /\ outcome' = outcome /\ queue' = queue /\ state' = state
      BY <2>2 DEF Withhold, Awaiting, StaleReplyPossible, ConsumeOwedReply, queueVars, sendVars
    <3>2. outcome[h] = "none"
      BY <3>1, QueuedHasNoOutcome
    <3>3. F' = F
      BY <3>1, <3>2 DEF FailedUnsuppressed
    <3> QED
      BY <1>0, <1>8, <3>1, <3>3 DEF DebtInv, DamageBounded
  <2>3. CASE MatchShort(f)
    <3>1. PICK chain \in Chains(h) : Settle(f.body = "ack", f.from, chain)
      BY <2>3 DEF MatchShort
    <3>2. /\ queue # <<>> /\ (f.body = "ack") \in BOOLEAN /\ state' = "IDLE"
          /\ suppressed' = suppressed /\ withheld' = withheld
          /\ owed_replies' = owed_replies \/ owed_replies' = 0
      BY <2>3 DEF MatchShort, Awaiting, ClearExpiredDebt
    <3>3. /\ F \subseteq F'
          /\ \A c \in Cmds : calls'[c] = 0 => outcome'[c] = "none"
          /\ \A c \in Cmds : ~HasCallback(c) => calls'[c] = 0
      BY <1>1, <3>1, <3>2
    <3> QED
      BY <1>0, <1>8, <3>2, <3>3 DEF DebtInv, DamageBounded
  <2>4. CASE MatchLong(f)
    <3>1. PICK chain \in Chains(h) : Settle(TRUE, f.from, chain)
      BY <2>4 DEF MatchLong
    <3>2. queue # <<>> /\ UNCHANGED debtVars /\ state' = "IDLE"
      BY <2>4 DEF MatchLong, Awaiting
    <3>3. /\ F \subseteq F'
          /\ \A c \in Cmds : calls'[c] = 0 => outcome'[c] = "none"
          /\ \A c \in Cmds : ~HasCallback(c) => calls'[c] = 0
      BY <1>1, <3>1, <3>2 DEF debtVars
    <3> QED
      BY <1>0, <1>8, <3>2, <3>3 DEF DebtInv, DamageBounded, debtVars
  <2> QED
    BY <1>8, <2>1, <2>2, <2>3, <2>4 DEF TryDispatchResponse
<1>9. CASE OnReply \/ OnVolunteered
  BY <1>8, <1>9 DEF OnReply, OnVolunteered, abandonVars
<1>10. CASE Reset
  <2>1. /\ calls' = calls /\ outcome' = outcome /\ suppressed' = suppressed /\ withheld' = withheld
        /\ owed_replies' = 0 /\ state' = "IDLE"
    BY <1>10 DEF Reset, queueVars
  <2> QED
    BY <1>0, <1>3, <2>1 DEF DebtInv, DamageBounded
<1>11. CASE AbandonStep
  <2>1. queue # <<>> /\ FailFront /\ UNCHANGED debtVars /\ state' = state /\ abandoning
    BY <1>11 DEF AbandonStep, sendVars
  <2>2. state' = "IDLE"
    BY <2>1 DEF DebtInv
  <2> QED
    BY <1>0, <1>2, <2>1, <2>2 DEF DebtInv, DamageBounded, debtVars
<1>12. CASE AbandonEnd
  BY <1>0, <1>3, <1>12 DEF AbandonEnd, DebtInv, DamageBounded, debtVars
<1>13. ASSUME NEW c \in Cmds, SendCommand(c) PROVE DebtInv'
  <2>1. queue # <<>> => Head(Append(queue, c)) = Head(queue) /\ Append(queue, c) # <<>>
    <3>1. queue \in Seq(Cmds)
      BY DEF TypeOK
    <3>2. Append(queue, c) # <<>>
      BY <3>1, AppendProperties
    <3>3. Head(Append(queue, c)) = IF queue = <<>> THEN c ELSE Head(queue)
      BY <3>1, HeadTailAppend, Zenon
    <3> QED
      BY <3>2, <3>3
  <2> QED
    BY <1>0, <1>3, <1>13, <2>1
    DEF SendCommand, DebtInv, DamageBounded, debtVars, sendVars, abandonVars
<1>14. CASE LoseReply \/ Tick \/ UNCHANGED vars
  BY <1>0, <1>3, <1>14
  DEF LoseReply, Tick, vars, DebtInv, DamageBounded, debtVars, queueVars, sendVars, abandonVars
<1> QED
  BY <1>4, <1>6, <1>7, <1>9, <1>10, <1>11, <1>12, <1>13, <1>14 DEF Next

LEMMA DebtInitially == Init => DebtInv
<1> SUFFICES ASSUME Init PROVE DebtInv
  OBVIOUS
<1>1. IsFiniteSet(FailedUnsuppressed)
  BY ProfileAssumption, FS_Subset DEF FailedUnsuppressed
<1> QED
  BY <1>1, FS_CardinalityType DEF Init, DebtInv, DamageBounded

\* However many replies are late or lost, the acknowledgements withheld stay
\* within the commands that failed on their own account.
THEOREM DamageIsBounded == Spec => []DamageBounded
<1>1. DebtInv => DamageBounded
  BY DEF DebtInv
<1> QED
  BY <1>1, TypeCorrect, OnceInitially, OnceInductive, DebtInitially, DebtInductive, PTL DEF Spec

-----------------------------------------------------------------------------
(* No false success.                                                        *)
(*                                                                         *)
(* Replies carry no request identifier, so what protects a SET from the     *)
(* acknowledgement of an abandoned one is what can be under way: the frames *)
(* on the wire are in the order of the commands, only the front command's   *)
(* own reply can be the last of them, and the reply of a SET that gave up   *)
(* is owed, in a window it cannot outlast.                                  *)

\* A reply arrives, if at all, while its debt is remembered: the measured
\* tail of the latency is below STALE_REPLY_WINDOW_MS alone.
LatencyAssumption == MaxLatency <= AckTimeout + StaleWindow

Clean == PollRefusals => \A c \in issued : Kind[c] # "poll"

WireInv ==
  /\ abandoning => wire = <<>>
  /\ \A i \in 1..Len(wire) :
       /\ wire[i].from \in issued /\ wire[i].from \notin stranded
       /\ wire[i].body \in PumpAnswers(wire[i].from)
       /\ wire[i].age <= MaxLatency
       /\ wire[i].from \in Elems(queue) =>
            /\ Awaiting /\ wire[i].from = Head(queue)
            /\ i = Len(wire) /\ await_age <= wire[i].age
  /\ suppressed \subseteq issued
  /\ \A c \in suppressed : c \in Elems(queue) =>
       abandoning \/ (Awaiting /\ c = Head(queue))

OwedInv ==
  late = 0 /\ Clean =>
    \A i \in 1..Len(wire) :
      /\ wire[i].from \notin suppressed
      /\ Kind[wire[i].from] = "set" /\ calls[wire[i].from] > 0 =>
           owed_pending /\ owed_replies > 0 /\ owed_age + AckTimeout < wire[i].age

SuccessInv == WireInv /\ OwedInv /\ NoFalseSuccess

\* WireInv of the next state, in terms of the primed variables.
LEMMA WireInvNext ==
  ASSUME abandoning' => wire' = <<>>,
         \A i \in 1..Len(wire') :
           /\ wire'[i].from \in issued' /\ wire'[i].from \notin stranded'
           /\ wire'[i].body \in PumpAnswers(wire'[i].from)
           /\ wire'[i].age <= MaxLatency
           /\ wire'[i].from \in Elems(queue') =>
                /\ state' = "AWAITING_RESPONSE" /\ queue' # <<>>
                /\ wire'[i].from = Head(queue')
                /\ i = Len(wire') /\ await_age' <= wire'[i].age,
         suppressed' \subseteq issued',
         \A c \in suppressed' : c \in Elems(queue') =>
           \/ abandoning'
           \/ state' = "AWAITING_RESPONSE" /\ queue' # <<>> /\ c = Head(queue')
  PROVE  WireInv'
  BY DEF WireInv, Awaiting, Elems, PumpAnswers

\* And in terms of this one.
LEMMA WireInvNow ==
  ASSUME TypeOK, WireInv, NEW i \in 1..Len(wire)
  PROVE  /\ wire[i] \in Reply /\ wire[i].from \in Cmds /\ wire[i].body \in Bodies
         /\ wire[i].age \in Nat
         /\ wire[i].from \in issued /\ wire[i].from \notin stranded
         /\ wire[i].body \in PumpAnswers(wire[i].from)
         /\ wire[i].age <= MaxLatency
         /\ wire[i].from \in Elems(queue) =>
              /\ state = "AWAITING_RESPONSE" /\ queue # <<>> /\ wire[i].from = Head(queue)
              /\ i = Len(wire) /\ await_age <= wire[i].age
<1>1. wire[i] \in Reply
  <2>1. wire \in Seq(Reply)
    BY DEF TypeOK
  <2> QED
    BY <2>1, ElementOfSeq
<1>2. wire[i].from \in Cmds /\ wire[i].body \in Bodies /\ wire[i].age \in Nat
  BY <1>1 DEF Reply
<1> QED
  BY <1>1, <1>2 DEF WireInv, Awaiting

\* A tail keeps the order and the last.
LEMMA TailIndices ==
  ASSUME NEW S, NEW s \in Seq(S), s # <<>>, NEW i \in 1..Len(Tail(s))
  PROVE  /\ i + 1 \in 1..Len(s) /\ Tail(s)[i] = s[i + 1]
         /\ i + 1 = Len(s) => i = Len(Tail(s))
<1>1. Len(s) \in Nat /\ Len(s) >= 1 /\ Len(Tail(s)) = Len(s) - 1
  OBVIOUS
<1>2. \A k \in 1..(Len(s) - 1) : Tail(s)[k] = s[k + 1]
  OBVIOUS
<1>3. i \in 1..(Len(s) - 1)
  BY <1>1
<1>4. i + 1 \in 1..Len(s) /\ (i + 1 = Len(s) => i = Len(Tail(s)))
  <2> DEFINE n == Len(s)
             m == Len(Tail(s))
  <2>1. n \in Nat /\ n >= 1 /\ m = n - 1 /\ i \in 1..(n - 1)
    BY <1>1, <1>3
  <2> HIDE DEF n, m
  <2>2. i + 1 \in 1..n /\ (i + 1 = n => i = m)
    BY <2>1
  <2> QED
    BY <2>2 DEF n, m
<1>5. Tail(s)[i] = s[i + 1]
  BY <1>2, <1>3
<1> QED
  BY <1>4, <1>5

\* A command that was in the queue, and still is when the front has been
\* settled, is not the front.
LEMMA SettleRemoves ==
  ASSUME TypeOK, OnceInv, queue # <<>>, NEW ok, NEW by,
         NEW chain \in Chains(Head(queue)), Settle(ok, by, chain)
  PROVE  /\ issued \subseteq issued'
         /\ \A c \in issued : c \in Elems(queue') => c \in Elems(queue) /\ c # Head(queue)
<1>1. queue \in Seq(Cmds)
  BY DEF TypeOK
<1>2. /\ Head(queue) \in Cmds /\ Tail(queue) \in Seq(Cmds)
      /\ Elems(queue) = Elems(Tail(queue)) \cup {Head(queue)}
      /\ Head(queue) \notin Elems(Tail(queue))
  BY <1>1, ElemsTail DEF OnceInv
<1>3. chain \in Seq(Cmds) /\ Elems(chain) \subseteq Cmds \ issued
  BY <1>2, ChainFacts DEF Fresh
<1>4. queue' = Tail(queue) \o chain /\ issued' = issued \cup Elems(chain)
  BY DEF Settle
<1>5. Elems(queue') = Elems(Tail(queue)) \cup Elems(chain)
  <2> DEFINE t == Tail(queue)
  <2>1. t \in Seq(Cmds) /\ chain \in Seq(Cmds)
    BY <1>2, <1>3
  <2> HIDE DEF t
  <2>2. Elems(t \o chain) = Elems(t) \cup Elems(chain)
    BY <2>1, ElemsConcat
  <2> QED
    BY <1>4, <2>2 DEF t
<1> QED
  BY <1>2, <1>3, <1>4, <1>5

\* A settled command leaves nothing under way from the queue.
LEMMA SettleKeepsWire ==
  ASSUME TypeOK, OnceInv, WireInv, queue # <<>>, NEW ok, NEW by,
         NEW chain \in Chains(Head(queue)), Settle(ok, by, chain),
         \A i \in 1..Len(wire') : \E j \in 1..Len(wire) : wire'[i] = wire[j],
         abandoning' => wire' = <<>>,
         stranded' = stranded, suppressed' = suppressed, abandoning' = abandoning
  PROVE  WireInv'
<1>1. /\ issued \subseteq issued'
      /\ \A c \in issued : c \in Elems(queue') => c \in Elems(queue) /\ c # Head(queue)
  BY SettleRemoves
<1>2. ASSUME NEW i \in 1..Len(wire')
      PROVE  /\ wire'[i].from \in issued' /\ wire'[i].from \notin stranded'
             /\ wire'[i].body \in PumpAnswers(wire'[i].from)
             /\ wire'[i].age <= MaxLatency
             /\ wire'[i].from \notin Elems(queue')
  <2>1. PICK j \in 1..Len(wire) : wire'[i] = wire[j]
    OBVIOUS
  <2> QED
    BY <1>1, <2>1, WireInvNow
<1>3. suppressed' \subseteq issued'
  BY <1>1 DEF WireInv
<1>4. \A c \in suppressed' : c \in Elems(queue') => abandoning'
  BY <1>1 DEF WireInv
<1> QED
  BY <1>2, <1>3, <1>4, WireInvNext

\* A frame taken off the wire, by a command that goes on waiting or by nobody.
LEMMA TailKeepsWire ==
  ASSUME TypeOK, OnceInv, WireInv, wire # <<>>, wire' = Tail(wire),
         UNCHANGED <<queue, issued, state, await_age, stranded, abandoning>>,
         \/ suppressed' = suppressed
         \/ Awaiting /\ suppressed' = suppressed \cup {Head(queue)}
  PROVE  WireInv'
<1>0. wire \in Seq(Reply) /\ queue \in Seq(Cmds)
  BY DEF TypeOK
<1>1. ~abandoning'
  BY DEF WireInv
<1>2. ASSUME NEW i \in 1..Len(wire')
      PROVE  /\ wire'[i].from \in issued' /\ wire'[i].from \notin stranded'
             /\ wire'[i].body \in PumpAnswers(wire'[i].from)
             /\ wire'[i].age <= MaxLatency
             /\ wire'[i].from \in Elems(queue') =>
                  /\ state' = "AWAITING_RESPONSE" /\ queue' # <<>>
                  /\ wire'[i].from = Head(queue')
                  /\ i = Len(wire') /\ await_age' <= wire'[i].age
  <2>1. i + 1 \in 1..Len(wire) /\ wire'[i] = wire[i + 1] /\ (i + 1 = Len(wire) => i = Len(wire'))
    BY <1>0, TailIndices
  <2>2. /\ wire[i + 1].from \in issued /\ wire[i + 1].from \notin stranded
        /\ wire[i + 1].body \in PumpAnswers(wire[i + 1].from)
        /\ wire[i + 1].age <= MaxLatency
        /\ wire[i + 1].from \in Elems(queue) =>
             /\ state = "AWAITING_RESPONSE" /\ queue # <<>> /\ wire[i + 1].from = Head(queue)
             /\ i + 1 = Len(wire) /\ await_age <= wire[i + 1].age
    BY <2>1, WireInvNow
  <2> QED
    BY <2>1, <2>2
<1>3. Awaiting => Head(queue) \in issued
  BY <1>0, ElemsTail DEF Awaiting, OnceInv
<1>4. suppressed' \subseteq issued'
  BY <1>3 DEF WireInv
<1>5. \A c \in suppressed' : c \in Elems(queue') =>
        state' = "AWAITING_RESPONSE" /\ queue' # <<>> /\ c = Head(queue')
  BY <1>1 DEF WireInv, Awaiting
<1> QED
  BY <1>1, <1>2, <1>4, <1>5, WireInvNext

\* What the pump's receiver adds: the reply of the command just written.
LEMMA PumpAdds ==
  ASSUME TypeOK, NEW c \in Cmds, NEW sent \in Nat, PumpReceives(c, sent)
  PROVE  /\ ~(sent + 1 >= Chunks[c]) => wire' = wire
         /\ \A i \in 1..Len(wire') :
              \/ i \in 1..Len(wire) /\ wire'[i] = wire[i]
              \/ /\ i = Len(wire') /\ wire'[i].from = c
                 /\ wire'[i].body \in PumpAnswers(c) /\ wire'[i].age = 0
<1>1. wire' = wire \/ \E r \in Replies(c) : wire' = wire \o r
  BY DEF PumpReceives
<1>2. ASSUME NEW b \in PumpAnswers(c), wire' = wire \o <<[from |-> c, body |-> b, age |-> 0]>>,
             NEW i \in 1..Len(wire')
      PROVE  \/ i \in 1..Len(wire) /\ wire'[i] = wire[i]
             \/ /\ i = Len(wire') /\ wire'[i].from = c
                /\ wire'[i].body \in PumpAnswers(c) /\ wire'[i].age = 0
  <2> DEFINE r == [from |-> c, body |-> b, age |-> 0]
  <2>1. r \in Reply
    BY DEF PumpAnswers, Reply
  <2>2. r.from = c /\ r.body = b /\ r.age = 0
    OBVIOUS
  <2> HIDE DEF r
  <2>3. wire \in Seq(Reply) /\ <<r>> \in Seq(Reply) /\ Len(<<r>>) = 1 /\ <<r>>[1] = r
    BY <2>1 DEF TypeOK
  <2>4. /\ Len(wire \o <<r>>) = Len(wire) + 1
        /\ \A k \in 1..(Len(wire) + 1) :
             (wire \o <<r>>)[k] = IF k <= Len(wire) THEN wire[k] ELSE <<r>>[k - Len(wire)]
    BY <2>3, ConcatProperties
  <2>5. wire' = wire \o <<r>> /\ Len(wire) \in Nat
    BY <1>2, <2>3 DEF r
  <2>6. i \in 1..(Len(wire) + 1) /\ Len(wire') = Len(wire) + 1
    BY <2>4, <2>5
  <2>7. CASE i <= Len(wire)
    BY <2>4, <2>5, <2>6, <2>7
  <2>8. CASE ~(i <= Len(wire))
    <3>1. i = Len(wire) + 1 /\ i - Len(wire) = 1
      BY <2>5, <2>6, <2>8
    <3>2. wire'[i] = r
      BY <2>3, <2>4, <2>5, <2>6, <2>8, <3>1
    <3> QED
      BY <2>2, <2>6, <3>1, <3>2
  <2> QED
    BY <2>7, <2>8
<1>3. ASSUME NEW i \in 1..Len(wire')
      PROVE  \/ i \in 1..Len(wire) /\ wire'[i] = wire[i]
             \/ /\ i = Len(wire') /\ wire'[i].from = c
                /\ wire'[i].body \in PumpAnswers(c) /\ wire'[i].age = 0
  <2>1. wire \in Seq(Reply)
    BY DEF TypeOK
  <2>2. wire \o <<>> = wire
    BY <2>1, ConcatEmptySeq
  <2> QED
    BY <1>1, <1>2, <2>2 DEF Replies
<1>4. ~(sent + 1 >= Chunks[c]) => wire' = wire
  BY DEF PumpReceives
<1> QED
  BY <1>3, <1>4

\* Frames still under way whose commands nothing happened to stay accounted for.
LEMMA OwedKeeps ==
  ASSUME TypeOK, OwedInv, late' \in Nat, late <= late', issued \subseteq issued',
         suppressed' = suppressed,
         UNCHANGED <<owed_pending, owed_replies, owed_age>>,
         \A i \in 1..Len(wire') : \E j \in 1..Len(wire) :
           wire'[i] = wire[j] /\ calls'[wire[j].from] = calls[wire[j].from]
  PROVE  OwedInv'
<1>1. late' = 0 => late = 0
  BY DEF TypeOK
<1>2. Clean' => Clean
  BY DEF Clean
<1> QED
  BY <1>1, <1>2 DEF OwedInv

\* Nobody is told anything.
LEMMA NobodyTold ==
  ASSUME TypeOK, NoFalseSuccess, late' \in Nat, late <= late', issued \subseteq issued',
         UNCHANGED <<outcome, answered_by>>
  PROVE  NoFalseSuccess'
<1>1. late' <= 1 => late <= 1
  BY DEF TypeOK
<1>2. (PollRefusals => \A c \in issued' : Kind[c] # "poll")
        => (PollRefusals => \A c \in issued : Kind[c] # "poll")
  OBVIOUS
<1> QED
  BY <1>1, <1>2 DEF NoFalseSuccess

\* The front is told, truthfully.
LEMMA FrontTold ==
  ASSUME TypeOK, NoFalseSuccess, queue # <<>>, NEW ok \in BOOLEAN, NEW by, NEW chain,
         Settle(ok, by, chain), late' \in Nat, late <= late', issued \subseteq issued',
         Kind[Head(queue)] = "set" /\ ok /\ late' <= 1 /\ Clean => by = Head(queue)
  PROVE  NoFalseSuccess'
<1> DEFINE h == Head(queue)
<1>1. h \in Cmds
  BY DEF TypeOK
<1>2. late' <= 1 => late <= 1
  BY DEF TypeOK
<1>3. ASSUME PollRefusals => \A c \in issued' : Kind[c] # "poll" PROVE Clean
  BY <1>3 DEF Clean
<1>4. /\ \A c \in Cmds : c # h => outcome'[c] = outcome[c] /\ answered_by'[c] = answered_by[c]
      /\ Kind[h] = "set" => outcome'[h] = (IF ok THEN "ok" ELSE "failed")
      /\ answered_by'[h] = by
  <2>1. Kind[h] = "set" => HasCallback(h)
    BY DEF HasCallback
  <2> QED
    BY <1>1, <2>1 DEF Settle, TypeOK
<1>5. ASSUME late' <= 1, PollRefusals => \A c \in issued' : Kind[c] # "poll",
             NEW c \in Cmds, Kind[c] = "set", outcome'[c] = "ok"
      PROVE  answered_by'[c] = c
  <2>1. CASE c = h
    <3>1. ok
      BY <1>4, <1>5, <2>1
    <3> QED
      BY <1>3, <1>4, <1>5, <2>1, <3>1
  <2>2. CASE c # h
    <3>1. outcome[c] = "ok" /\ answered_by'[c] = answered_by[c]
      BY <1>4, <1>5, <2>2
    <3>2. late <= 1 /\ Clean
      BY <1>2, <1>3, <1>5
    <3> QED
      BY <1>5, <3>1, <3>2 DEF NoFalseSuccess, Clean
  <2> QED
    BY <2>1, <2>2
<1> QED
  BY <1>5 DEF NoFalseSuccess

\* A failure: the front is told "failed", and what is on the wire stays there.
LEMMA FailFrontKeeps ==
  ASSUME TypeOK, OnceInv, SuccessInv, queue # <<>>, FailFront,
         UNCHANGED <<wire, late, stranded, suppressed, abandoning>>
  PROVE  /\ WireInv' /\ NoFalseSuccess'
         /\ issued \subseteq issued'
         /\ \A c \in Cmds : c # Head(queue) => calls'[c] = calls[c]
<1>1. PICK chain \in Chains(Head(queue)) : Settle(FALSE, NoCmd, chain)
  BY DEF FailFront
<1>2. issued \subseteq issued'
  BY <1>1, SettleRemoves
<1>3. WireInv'
  <2>1. abandoning' => wire' = <<>>
    BY DEF SuccessInv, WireInv
  <2>2. \A i \in 1..Len(wire') : \E j \in 1..Len(wire) : wire'[i] = wire[j]
    OBVIOUS
  <2> QED
    BY <1>1, <2>1, <2>2, SettleKeepsWire DEF SuccessInv
<1>4. NoFalseSuccess'
  <2>1. late' \in Nat /\ late <= late'
    BY DEF TypeOK
  <2> QED
    BY <1>1, <1>2, <2>1, FrontTold DEF SuccessInv
<1>5. \A c \in Cmds : c # Head(queue) => calls'[c] = calls[c]
  BY <1>1 DEF Settle, TypeOK
<1> QED
  BY <1>2, <1>3, <1>4, <1>5

\* A chunk is written: at most the front's own reply joins the wire.
LEMMA WriteOkKeeps ==
  ASSUME TypeOK, OnceInv, DebtInv, SuccessInv, queue # <<>>, ~abandoning,
         state # "AWAITING_RESPONSE", NEW sent \in Nat, WriteOk(sent),
         UNCHANGED <<stranded, abandoning, debtVars>>
  PROVE  SuccessInv'
<1> DEFINE h == Head(queue)
<1>0. TypeOK /\ WireInv /\ OwedInv /\ NoFalseSuccess /\ wire \in Seq(Reply)
  BY DEF SuccessInv, TypeOK
<1>1. /\ h \in Cmds /\ h \in Elems(queue) /\ h \in issued /\ h \notin stranded
      /\ h \notin Elems(Tail(queue)) /\ Elems(Tail(queue)) \subseteq Elems(queue)
  <2>1. queue \in Seq(Cmds)
    BY DEF TypeOK
  <2> QED
    BY <2>1, ElemsTail DEF OnceInv
<1>2. calls[h] = 0
  BY QueuedHasNoOutcome
<1>3. /\ \A i \in 1..Len(wire) : wire[i].from \notin Elems(queue)
      /\ \A c \in suppressed : c \notin Elems(queue)
  BY <1>0 DEF WireInv, Awaiting
<1>4. PumpReceives(h, sent) /\ late' = late
  BY DEF WriteOk, PumpReceives
<1>5. /\ ~(sent + 1 >= Chunks[h]) => wire' = wire
      /\ \A i \in 1..Len(wire') :
           \/ i \in 1..Len(wire) /\ wire'[i] = wire[i]
           \/ /\ i = Len(wire') /\ wire'[i].from = h
              /\ wire'[i].body \in PumpAnswers(h) /\ wire'[i].age = 0
  BY <1>1, <1>4, PumpAdds
<1>6. /\ issued' = issued /\ calls' = calls /\ outcome' = outcome
      /\ answered_by' = answered_by /\ suppressed' = suppressed
      /\ owed_pending' = owed_pending /\ owed_replies' = owed_replies /\ owed_age' = owed_age
  BY DEF WriteOk, queueVars, debtVars
<1>7. \/ queue' = queue /\ state' = "AWAITING_RESPONSE" /\ await_age' = 0
      \/ queue' = queue /\ wire' = wire
      \/ queue' = Tail(queue)
  <2>1. Chunks[h] \in Nat
    BY <1>1, ProfileAssumption
  <2> QED
    BY <1>5, <2>1 DEF WriteOk, queueVars
<1>8. \A c : c \in Elems(queue') => c \in Elems(queue)
  BY <1>1, <1>7
<1>9. ASSUME NEW i \in 1..Len(wire')
      PROVE  /\ wire'[i].from \in issued' /\ wire'[i].from \notin stranded'
             /\ wire'[i].body \in PumpAnswers(wire'[i].from)
             /\ wire'[i].age <= MaxLatency
             /\ wire'[i].from \in Elems(queue') =>
                  /\ state' = "AWAITING_RESPONSE" /\ queue' # <<>>
                  /\ wire'[i].from = Head(queue')
                  /\ i = Len(wire') /\ await_age' <= wire'[i].age
  <2>1. CASE i \in 1..Len(wire) /\ wire'[i] = wire[i]
    BY <1>0, <1>3, <1>6, <1>8, <2>1, WireInvNow
  <2>2. CASE /\ i = Len(wire') /\ wire'[i].from = h
             /\ wire'[i].body \in PumpAnswers(h) /\ wire'[i].age = 0
             /\ ~(i \in 1..Len(wire) /\ wire'[i] = wire[i])
    <3>1. 0 <= MaxLatency
      BY TimingAssumption
    <3>2. h \in Elems(queue') => queue' = queue /\ state' = "AWAITING_RESPONSE" /\ await_age' = 0
      BY <1>1, <1>7, <2>2
    <3> QED
      BY <1>1, <1>6, <2>2, <3>1, <3>2
  <2> QED
    BY <1>5, <2>1, <2>2
<1>10. WireInv'
  <2>1. suppressed' \subseteq issued'
    BY <1>0, <1>6 DEF WireInv
  <2>2. \A c \in suppressed' : c \notin Elems(queue')
    BY <1>3, <1>6, <1>8
  <2> QED
    BY <1>9, <2>1, <2>2, WireInvNext
<1>11. OwedInv'
  <2>1. Clean' => Clean
    BY <1>6 DEF Clean
  <2>2. h \notin suppressed
    BY <1>1, <1>3
  <2>3. ASSUME late' = 0, Clean', NEW i \in 1..Len(wire')
        PROVE  /\ wire'[i].from \notin suppressed'
               /\ Kind[wire'[i].from] = "set" /\ calls'[wire'[i].from] > 0 =>
                    owed_pending' /\ owed_replies' > 0 /\ owed_age' + AckTimeout < wire'[i].age
    <3>1. CASE i \in 1..Len(wire) /\ wire'[i] = wire[i]
      BY <1>0, <1>4, <1>6, <2>1, <2>3, <3>1 DEF OwedInv
    <3>2. CASE wire'[i].from = h
      BY <1>2, <1>6, <2>2, <3>2
    <3> QED
      BY <1>5, <3>1, <3>2
  <2> QED
    BY <2>3 DEF OwedInv
<1>12. NoFalseSuccess'
  <2>1. late' \in Nat /\ late <= late'
    BY <1>4 DEF TypeOK
  <2> QED
    BY <1>0, <1>6, <2>1, NobodyTold
<1> QED
  BY <1>10, <1>11, <1>12 DEF SuccessInv

\* A write that fails, while no reply is awaited.
LEMMA WriteFailsKeeps ==
  ASSUME TypeOK, OnceInv, SuccessInv, queue # <<>>, ~abandoning,
         state # "AWAITING_RESPONSE", NEW sent, WriteFails(sent),
         UNCHANGED <<stranded, abandoning, debtVars>>
  PROVE  SuccessInv'
<1>1. FailFront /\ wire' = wire /\ late' = late
  BY DEF WriteFails, wireVars
<1>2. suppressed' = suppressed /\ UNCHANGED <<owed_pending, owed_replies, owed_age>>
  BY DEF debtVars
<1>3. /\ WireInv' /\ NoFalseSuccess' /\ issued \subseteq issued'
      /\ \A c \in Cmds : c # Head(queue) => calls'[c] = calls[c]
  BY <1>1, <1>2, FailFrontKeeps
<1>4. OwedInv'
  <2>1. Head(queue) \in Elems(queue)
    BY ElemsTail DEF TypeOK
  <2>2. \A i \in 1..Len(wire) : wire[i].from \in Cmds /\ wire[i].from # Head(queue)
    BY <2>1, WireInvNow DEF SuccessInv
  <2>3. late' \in Nat /\ late <= late'
    BY <1>1 DEF TypeOK
  <2>4. \A i \in 1..Len(wire') : \E j \in 1..Len(wire) :
           wire'[i] = wire[j] /\ calls'[wire[j].from] = calls[wire[j].from]
    BY <1>1, <1>3, <2>2
  <2> QED
    BY <1>2, <1>3, <2>3, <2>4, OwedKeeps DEF SuccessInv
<1> QED
  BY <1>3, <1>4 DEF SuccessInv

\* The front gives up: if its reply is still to come, it is owed from now on.
LEMMA TimeoutKeeps ==
  ASSUME TypeOK, OnceInv, SuccessInv, LoopTimeout
  PROVE  SuccessInv'
<1> DEFINE h == Head(queue)
<1>1. /\ ~abandoning /\ queue # <<>> /\ FailFront /\ await_age > TimeoutOf(h)
      /\ NoteReplyOwed(h \in suppressed)
      /\ wire' = wire /\ late' = late /\ stranded' = stranded
      /\ suppressed' = suppressed /\ abandoning' = abandoning
  BY DEF LoopTimeout, wireVars, abandonVars
<1>2. /\ WireInv' /\ NoFalseSuccess' /\ issued \subseteq issued'
      /\ \A c \in Cmds : c # h => calls'[c] = calls[c]
  BY <1>1, FailFrontKeeps
<1>3. /\ h \in Elems(queue) /\ AckTimeout \in Nat /\ OwedMax \in Nat \ {0}
      /\ await_age \in Nat /\ owed_replies \in Nat
  BY <1>1, ElemsTail, TimingAssumption DEF TypeOK
<1>4. Clean' => Clean
  BY <1>2 DEF Clean
<1>5. ASSUME late' = 0, Clean', NEW i \in 1..Len(wire')
      PROVE  /\ wire'[i].from \notin suppressed'
             /\ Kind[wire'[i].from] = "set" /\ calls'[wire'[i].from] > 0 =>
                  owed_pending' /\ owed_replies' > 0 /\ owed_age' + AckTimeout < wire'[i].age
  <2>1. /\ wire[i].from \notin suppressed
        /\ Kind[wire[i].from] = "set" /\ calls[wire[i].from] > 0 =>
             owed_pending /\ owed_replies > 0 /\ owed_age + AckTimeout < wire[i].age
    BY <1>1, <1>4, <1>5 DEF SuccessInv, OwedInv
  <2>2. /\ wire[i].from \in Cmds /\ wire[i].age \in Nat
        /\ wire[i].from \in Elems(queue) => await_age <= wire[i].age
    BY <1>1, WireInvNow DEF SuccessInv
  <2>3. CASE h \in suppressed
    <3>1. UNCHANGED <<owed_replies, owed_pending, owed_age>>
      BY <1>1, <2>3 DEF NoteReplyOwed
    <3>2. wire[i].from # h
      BY <2>1, <2>3
    <3> QED
      BY <1>1, <1>2, <2>1, <2>2, <3>1, <3>2
  <2>4. CASE h \notin suppressed
    <3>1. owed_pending' /\ owed_age' = 0 /\ owed_replies' > 0
      BY <1>1, <1>3, <2>4 DEF NoteReplyOwed
    <3>2. ASSUME Kind[wire[i].from] = "set", calls'[wire[i].from] > 0
          PROVE  AckTimeout < wire[i].age
      <4>1. CASE wire[i].from = h
        <5>1. TimeoutOf(h) = AckTimeout
          BY <3>2, <4>1 DEF TimeoutOf
        <5> QED
          BY <1>1, <1>3, <2>2, <4>1, <5>1
      <4>2. CASE wire[i].from # h
        <5>1. calls[wire[i].from] > 0 /\ owed_age \in Nat
          BY <1>2, <2>2, <3>2, <4>2 DEF TypeOK
        <5> QED
          BY <1>3, <2>1, <2>2, <3>2, <5>1
      <4> QED
        BY <4>1, <4>2
    <3> QED
      BY <1>1, <1>3, <2>1, <3>1, <3>2
  <2> QED
    BY <2>3, <2>4
<1>6. OwedInv'
  BY <1>5 DEF OwedInv
<1> QED
  BY <1>2, <1>6 DEF SuccessInv

\* What the first frame on the wire can be.  In time, it is the front's own and
\* the last one under way, or the answer to a poll that matches nothing; late,
\* and the only one so far, it is still owed.
LEMMA FirstFrame ==
  ASSUME LatencyAssumption, TypeOK, OnceInv, DebtInv, SuccessInv, wire # <<>>
  PROVE  /\ Head(wire) = wire[1] /\ wire[1] \in Reply /\ wire[1].from \in Cmds
         /\ wire[1].body \in PumpAnswers(wire[1].from)
         /\ Frame(wire[1]).from = wire[1].from /\ Frame(wire[1]).body = wire[1].body
         /\ ~IsLate(wire[1]) /\ HasCallback(wire[1].from) =>
              /\ wire[1].from = Head(queue) /\ Awaiting /\ Len(wire) = 1
         /\ ~HasCallback(wire[1].from) /\ Clean => wire[1].body = "register"
         /\ late = 0 /\ Clean /\ IsLate(wire[1]) /\ Kind[wire[1].from] = "set" =>
              StaleReplyPossible
<1> DEFINE r == wire[1]
<1>1. wire \in Seq(Reply) /\ 1 \in 1..Len(wire) /\ Head(wire) = r
  <2>1. wire \in Seq(Reply)
    BY DEF TypeOK
  <2> QED
    BY <2>1
<1>2. /\ r \in Reply /\ r.from \in Cmds /\ r.body \in Bodies /\ r.age \in Nat
      /\ r.from \in issued /\ r.from \notin stranded
      /\ r.body \in PumpAnswers(r.from) /\ r.age <= MaxLatency
      /\ r.from \in Elems(queue) =>
           /\ state = "AWAITING_RESPONSE" /\ queue # <<>> /\ r.from = Head(queue)
           /\ 1 = Len(wire) /\ await_age <= r.age
  BY <1>1, WireInvNow DEF SuccessInv
<1>3. Frame(r).from = r.from /\ Frame(r).body = r.body
  BY DEF Frame
<1>4. ASSUME ~IsLate(r), HasCallback(r.from)
      PROVE  r.from = Head(queue) /\ Awaiting /\ Len(wire) = 1
  <2>1. calls[r.from] \in Nat /\ ~(calls[r.from] > 0)
    BY <1>2, <1>4 DEF IsLate, TypeOK
  <2>2. r.from \in Elems(queue)
    BY <1>2, <1>4, <2>1 DEF OnceInv
  <2> QED
    BY <1>2, <2>2 DEF Awaiting
<1>5. ASSUME ~HasCallback(r.from), Clean PROVE r.body = "register"
  BY <1>2, <1>5 DEF HasCallback, Clean, PumpAnswers
<1>6. ASSUME late = 0, Clean, IsLate(r), Kind[r.from] = "set" PROVE StaleReplyPossible
  <2>1. owed_pending /\ owed_replies > 0 /\ owed_age + AckTimeout < r.age
    BY <1>1, <1>6 DEF SuccessInv, OwedInv, IsLate
  <2>2. /\ owed_age \in Nat /\ AckTimeout \in Nat /\ StaleWindow \in Nat /\ MaxLatency \in Nat
        /\ MaxLatency <= AckTimeout + StaleWindow
    BY TimingAssumption DEF LatencyAssumption, TypeOK
  <2> QED
    BY <1>2, <2>1, <2>2 DEF StaleReplyPossible
<1> QED
  BY <1>1, <1>2, <1>3, <1>4, <1>5, <1>6

\* A frame that is settled or withheld leaves the rest of the wire as it was.
LEMMA TailIsUnderWay ==
  ASSUME TypeOK, wire # <<>>, wire' = Tail(wire)
  PROVE  \A i \in 1..Len(wire') : \E j \in 1..Len(wire) : wire'[i] = wire[j]
<1>1. wire \in Seq(Reply)
  BY DEF TypeOK
<1>2. ASSUME NEW i \in 1..Len(wire') PROVE i + 1 \in 1..Len(wire) /\ wire'[i] = wire[i + 1]
  BY <1>1, TailIndices
<1> QED
  BY <1>2

\* on_notification() with a reply.
LEMMA OnReplyKeeps ==
  ASSUME LatencyAssumption, TypeOK, OnceInv, DebtInv, SuccessInv, OnReply
  PROVE  SuccessInv'
<1> DEFINE r == wire[1]
           f == Frame(r)
           h == Head(queue)
<1>1. /\ ~abandoning /\ wire # <<>> /\ wire' = Tail(wire)
      /\ late' = (IF IsLate(r) THEN late + 1 ELSE late)
      /\ TryDispatchResponse(f)
      /\ stranded' = stranded /\ abandoning' = abandoning
  BY FirstFrame DEF OnReply, abandonVars
<1>2. /\ r \in Reply /\ r.from \in Cmds /\ r.body \in PumpAnswers(r.from)
      /\ f.from = r.from /\ f.body = r.body
      /\ ~IsLate(r) /\ HasCallback(r.from) => r.from = h /\ Awaiting /\ Len(wire) = 1
      /\ ~HasCallback(r.from) /\ Clean => r.body = "register"
      /\ late = 0 /\ Clean /\ IsLate(r) /\ Kind[r.from] = "set" => StaleReplyPossible
  BY <1>1, FirstFrame
<1>3. late \in Nat /\ late' \in Nat /\ late <= late'
  BY <1>1 DEF TypeOK
<1>4. WireInv /\ OwedInv /\ NoFalseSuccess
  BY DEF SuccessInv
<1>5. ASSUME issued \subseteq issued' PROVE Clean' => Clean
  BY <1>5 DEF Clean
<1>6. ASSUME Clean, Awaiting, ShortMatch(h, f) \/ LongMatch(h, f) PROVE HasCallback(r.from)
  <2>1. r.body # "register"
    BY <1>2, <1>6 DEF ShortMatch, LongMatch
  <2> QED
    BY <1>2, <1>6, <2>1
<1>7. ASSUME issued \subseteq issued', Awaiting, ShortMatch(h, f) \/ LongMatch(h, f) PROVE OwedInv'
  <2>1. ASSUME late' = 0, Clean' PROVE wire' = <<>>
    <3>1. late = 0 /\ ~IsLate(r)
      BY <1>1, <1>3, <2>1
    <3>2. Len(wire) = 1
      BY <1>2, <1>5, <1>6, <1>7, <2>1, <3>1
    <3>3. wire \in Seq(Reply)
      BY DEF TypeOK
    <3> QED
      BY <1>1, <3>2, <3>3
  <2>2. late' = 0 /\ Clean' => Len(wire') = 0
    BY <2>1
  <2> QED
    BY <2>2 DEF OwedInv
<1>8. CASE Unmatched(f)
  <2>1. UNCHANGED queueVars /\ UNCHANGED debtVars /\ UNCHANGED sendVars
    BY <1>8 DEF Unmatched
  <2>2. /\ UNCHANGED <<queue, issued, calls, outcome, answered_by>>
        /\ UNCHANGED <<state, await_age, stranded, abandoning, suppressed>>
        /\ UNCHANGED <<owed_pending, owed_replies, owed_age>>
    BY <1>1, <2>1 DEF queueVars, debtVars, sendVars
  <2>3. WireInv'
    BY <1>1, <1>4, <2>2, TailKeepsWire
  <2>4. OwedInv'
    BY <1>1, <1>3, <1>4, <2>2, TailIsUnderWay, OwedKeeps
  <2>5. NoFalseSuccess'
    BY <1>3, <1>4, <2>2, NobodyTold
  <2> QED
    BY <2>3, <2>4, <2>5 DEF SuccessInv
<1>9. CASE Withhold(f)
  <2>1. /\ Awaiting /\ ShortMatch(h, f)
        /\ suppressed' = suppressed \cup {h}
        /\ UNCHANGED <<queue, issued, calls, outcome, answered_by>>
        /\ UNCHANGED <<state, await_age, stranded, abandoning>>
    BY <1>1, <1>9 DEF Withhold, ConsumeOwedReply, queueVars, sendVars
  <2>2. WireInv'
    BY <1>1, <1>4, <2>1, TailKeepsWire
  <2>3. OwedInv'
    BY <1>7, <2>1
  <2>4. NoFalseSuccess'
    BY <1>3, <1>4, <2>1, NobodyTold
  <2> QED
    BY <2>2, <2>3, <2>4 DEF SuccessInv
<1>10. CASE MatchShort(f)
  <2>1. PICK chain \in Chains(h) : Settle(f.body = "ack", f.from, chain)
    BY <1>10 DEF MatchShort
  <2>2. /\ Awaiting /\ ShortMatch(h, f) /\ ~StaleReplyPossible /\ queue # <<>>
        /\ suppressed' = suppressed /\ (f.body = "ack") \in BOOLEAN
    BY <1>10 DEF MatchShort, ClearExpiredDebt, Awaiting
  <2>3. issued \subseteq issued'
    BY <2>1, <2>2, SettleRemoves
  <2>4. WireInv'
    BY <1>1, <1>4, <2>1, <2>2, TailIsUnderWay, SettleKeepsWire
  <2>5. OwedInv'
    BY <1>7, <2>2, <2>3
  <2>6. ASSUME Kind[h] = "set", f.body = "ack", late' <= 1, Clean PROVE f.from = h
    <3>1. Kind[r.from] = "set" /\ HasCallback(r.from)
      BY <1>2, <2>6 DEF PumpAnswers, HasCallback
    <3>2. ~IsLate(r)
      BY <1>1, <1>2, <1>3, <2>2, <2>6, <3>1
    <3> QED
      BY <1>2, <3>1, <3>2
  <2>7. NoFalseSuccess'
    <3> DEFINE ok == f.body = "ack"
               by == f.from
    <3>1. Settle(ok, by, chain) /\ ok \in BOOLEAN
      BY <2>1, <2>2
    <3>2. Kind[h] = "set" /\ ok /\ late' <= 1 /\ Clean => by = h
      BY <2>6
    <3> HIDE DEF ok, by
    <3> QED
      BY <1>3, <1>4, <2>2, <2>3, <3>1, <3>2, FrontTold
  <2> QED
    BY <2>4, <2>5, <2>7 DEF SuccessInv
<1>11. CASE MatchLong(f)
  <2>1. PICK chain \in Chains(h) : Settle(TRUE, f.from, chain)
    BY <1>11 DEF MatchLong
  <2>2. /\ Awaiting /\ LongMatch(h, f) /\ queue # <<>> /\ suppressed' = suppressed
    BY <1>11 DEF MatchLong, debtVars, Awaiting
  <2>3. issued \subseteq issued'
    BY <2>1, <2>2, SettleRemoves
  <2>4. WireInv'
    BY <1>1, <1>4, <2>1, <2>2, TailIsUnderWay, SettleKeepsWire
  <2>5. OwedInv'
    BY <1>7, <2>2, <2>3
  <2>6. Kind[h] # "set"
    BY <2>2 DEF LongMatch
  <2>7. NoFalseSuccess'
    <3> DEFINE by == f.from
    <3>1. Settle(TRUE, by, chain)
      BY <2>1
    <3> HIDE DEF by
    <3> QED
      BY <1>3, <1>4, <2>2, <2>3, <2>6, <3>1, FrontTold
  <2> QED
    BY <2>4, <2>5, <2>7 DEF SuccessInv
<1> QED
  BY <1>1, <1>8, <1>9, <1>10, <1>11 DEF TryDispatchResponse

\* The queue of a component that gives it up has nothing under way.
LEMMA AbandonKeeps ==
  ASSUME TypeOK, OnceInv, SuccessInv, Reset \/ AbandonStep \/ AbandonEnd
  PROVE  SuccessInv'
<1>1. wire' = <<>> /\ late' = late /\ suppressed' = suppressed
  <2>1. abandoning => wire = <<>>
    BY DEF SuccessInv, WireInv
  <2> QED
    BY <2>1 DEF Reset, AbandonStep, AbandonEnd, wireVars, debtVars
<1>2. Len(wire') = 0 /\ late' \in Nat /\ late <= late'
  BY <1>1 DEF TypeOK
<1>3. OwedInv'
  BY <1>2 DEF OwedInv
<1>4. CASE AbandonStep
  <2>1. /\ queue # <<>> /\ FailFront /\ wire' = wire /\ late' = late /\ stranded' = stranded
        /\ suppressed' = suppressed /\ abandoning' = abandoning
    BY <1>4 DEF AbandonStep, wireVars, debtVars
  <2>2. WireInv' /\ NoFalseSuccess'
    BY <2>1, FailFrontKeeps
  <2> QED
    BY <1>3, <2>2 DEF SuccessInv
<1>5. CASE Reset \/ AbandonEnd
  <2>1. UNCHANGED <<issued, outcome, answered_by>>
    BY <1>5 DEF Reset, AbandonEnd, queueVars
  <2>2. NoFalseSuccess'
    BY <1>2, <2>1, NobodyTold DEF SuccessInv
  <2>3. queue' = <<>> \/ abandoning'
    BY <1>5 DEF Reset, AbandonEnd, queueVars
  <2>4. \A c \in suppressed' : c \in Elems(queue') => abandoning'
    BY <2>3 DEF Elems
  <2>5. suppressed' \subseteq issued'
    BY <1>1, <2>1 DEF SuccessInv, WireInv
  <2>6. WireInv'
    BY <1>1, <1>2, <2>4, <2>5, WireInvNext
  <2> QED
    BY <1>3, <2>2, <2>6 DEF SuccessInv
<1> QED
  BY <1>4, <1>5

\* A reply that waits and the command that waits for it age together, and so
\* do a reply that is owed and its debt.
LEMMA TickKeepsSuccess ==
  ASSUME TypeOK, SuccessInv, Tick
  PROVE  SuccessInv'
<1>1. /\ UNCHANGED <<queue, issued, calls, outcome, answered_by>>
      /\ UNCHANGED <<state, owed_replies, owed_pending, suppressed, abandoning, stranded, late>>
  BY DEF Tick, queueVars, abandonVars
<1>2. /\ Len(wire) \in Nat /\ Len(wire') = Len(wire)
      /\ \A i \in 1..Len(wire) : /\ wire'[i].from = wire[i].from
                                 /\ wire'[i].body = wire[i].body
                                 /\ wire'[i].age = wire[i].age + 1
                                 /\ wire[i].age < MaxLatency
  <2>1. wire \in Seq(Reply)
    BY DEF TypeOK
  <2>2. Len(wire) \in Nat
    BY <2>1
  <2>3. wire' = [i \in 1..Len(wire) |-> [wire[i] EXCEPT !.age = @ + 1]]
    BY DEF Tick
  <2>4. Len(wire') = Len(wire)
    BY <2>2, <2>3
  <2>5. ASSUME NEW i \in 1..Len(wire)
        PROVE  /\ wire'[i].from = wire[i].from /\ wire'[i].body = wire[i].body
               /\ wire'[i].age = wire[i].age + 1
    <3>1. wire[i] \in [from : Cmds, body : Bodies, age : Nat]
      BY <2>1, ElementOfSeq DEF Reply
    <3>2. wire'[i] = [wire[i] EXCEPT !.age = @ + 1]
      BY <2>3
    <3> QED
      BY <3>1, <3>2
  <2> QED
    BY <2>2, <2>4, <2>5 DEF Tick
<1>3. /\ await_age \in Nat /\ owed_age \in Nat /\ AckTimeout \in Nat /\ MaxLatency \in Nat
      /\ \A i \in 1..Len(wire) : wire[i].age \in Nat
  BY TimingAssumption, WireInvNow DEF TypeOK, SuccessInv
<1>4. await_age' <= await_age + 1 /\ await_age' \in Nat
  BY <1>3 DEF Tick, Older
<1>5. owed_pending => owed_age' <= owed_age + 1 /\ owed_age' \in Nat
  BY <1>3 DEF Tick, Older
<1>6. WireInv'
  <2>1. ASSUME NEW i \in 1..Len(wire')
        PROVE  /\ wire'[i].from \in issued' /\ wire'[i].from \notin stranded'
               /\ wire'[i].body \in PumpAnswers(wire'[i].from)
               /\ wire'[i].age <= MaxLatency
               /\ wire'[i].from \in Elems(queue') =>
                    /\ state' = "AWAITING_RESPONSE" /\ queue' # <<>>
                    /\ wire'[i].from = Head(queue')
                    /\ i = Len(wire') /\ await_age' <= wire'[i].age
    <3>1. /\ wire[i].from \in issued /\ wire[i].from \notin stranded
          /\ wire[i].body \in PumpAnswers(wire[i].from)
          /\ wire[i].from \in Elems(queue) =>
               /\ state = "AWAITING_RESPONSE" /\ queue # <<>> /\ wire[i].from = Head(queue)
               /\ i = Len(wire) /\ await_age <= wire[i].age
      BY <1>2, WireInvNow DEF SuccessInv
    <3>2. wire'[i].age <= MaxLatency
      BY <1>2, <1>3
    <3>3. await_age <= wire[i].age => await_age' <= wire'[i].age
      BY <1>2, <1>3, <1>4
    <3> QED
      BY <1>1, <1>2, <3>1, <3>2, <3>3
  <2>2. /\ suppressed' \subseteq issued'
        /\ \A c \in suppressed' : c \in Elems(queue') =>
             \/ abandoning'
             \/ state' = "AWAITING_RESPONSE" /\ queue' # <<>> /\ c = Head(queue')
    BY <1>1 DEF SuccessInv, WireInv, Awaiting
  <2>3. ~abandoning'
    BY <1>1 DEF Tick
  <2> QED
    BY <2>1, <2>2, <2>3, WireInvNext
<1>7. OwedInv'
  <2>1. Clean' => Clean
    BY <1>1 DEF Clean
  <2>2. ASSUME late' = 0, Clean', NEW i \in 1..Len(wire')
        PROVE  /\ wire'[i].from \notin suppressed'
               /\ Kind[wire'[i].from] = "set" /\ calls'[wire'[i].from] > 0 =>
                    owed_pending' /\ owed_replies' > 0 /\ owed_age' + AckTimeout < wire'[i].age
    <3>1. /\ wire[i].from \notin suppressed
          /\ Kind[wire[i].from] = "set" /\ calls[wire[i].from] > 0 =>
               owed_pending /\ owed_replies > 0 /\ owed_age + AckTimeout < wire[i].age
      BY <1>1, <1>2, <2>1, <2>2 DEF SuccessInv, OwedInv
    <3>2. owed_pending /\ owed_age + AckTimeout < wire[i].age
            => owed_age' + AckTimeout < wire'[i].age
      BY <1>2, <1>3, <1>5
    <3> QED
      BY <1>1, <1>2, <3>1, <3>2
  <2> QED
    BY <2>2 DEF OwedInv
<1>8. NoFalseSuccess'
  <2>1. late' \in Nat /\ late <= late'
    BY <1>1 DEF TypeOK
  <2> QED
    BY <1>1, <2>1, NobodyTold DEF SuccessInv
<1> QED
  BY <1>6, <1>7, <1>8 DEF SuccessInv

\* A command joins the queue behind the others.
LEMMA SendKeeps ==
  ASSUME TypeOK, OnceInv, SuccessInv, NEW c \in Cmds, SendCommand(c)
  PROVE  SuccessInv'
<1>1. /\ ~abandoning /\ c \notin issued /\ queue' = Append(queue, c)
      /\ issued' = issued \cup {c}
      /\ UNCHANGED <<calls, outcome, answered_by, state, await_age, wire, late>>
      /\ UNCHANGED <<stranded, suppressed, abandoning, owed_pending, owed_replies, owed_age>>
  BY DEF SendCommand, Fresh, debtVars, sendVars, abandonVars, wireVars
<1>2. queue \in Seq(Cmds) /\ issued \subseteq issued' /\ late \in Nat
  BY <1>1 DEF TypeOK
<1>3. /\ Elems(queue') = Elems(queue) \cup {c} /\ queue' # <<>>
      /\ queue # <<>> => Head(queue') = Head(queue)
  <2>1. Elems(Append(queue, c)) = Elems(queue) \cup {c}
    BY <1>2, ElemsAppend
  <2>2. Append(queue, c) # <<>>
    BY <1>2, AppendProperties
  <2>3. Head(Append(queue, c)) = IF queue = <<>> THEN c ELSE Head(queue)
    BY <1>2, HeadTailAppend, Zenon
  <2> QED
    BY <1>1, <2>1, <2>2, <2>3
<1>4. \A d \in issued : d \in Elems(queue') => d \in Elems(queue)
  BY <1>1, <1>3
<1>5. WireInv'
  <2>1. ASSUME NEW i \in 1..Len(wire')
        PROVE  /\ wire'[i].from \in issued' /\ wire'[i].from \notin stranded'
               /\ wire'[i].body \in PumpAnswers(wire'[i].from)
               /\ wire'[i].age <= MaxLatency
               /\ wire'[i].from \in Elems(queue') =>
                    /\ state' = "AWAITING_RESPONSE" /\ queue' # <<>>
                    /\ wire'[i].from = Head(queue')
                    /\ i = Len(wire') /\ await_age' <= wire'[i].age
    BY <1>1, <1>2, <1>3, <1>4, WireInvNow DEF SuccessInv
  <2>2. /\ suppressed' \subseteq issued'
        /\ \A d \in suppressed' : d \in Elems(queue') =>
             state' = "AWAITING_RESPONSE" /\ queue' # <<>> /\ d = Head(queue')
    BY <1>1, <1>2, <1>3, <1>4 DEF SuccessInv, WireInv, Awaiting
  <2> QED
    BY <1>1, <2>1, <2>2, WireInvNext
<1>6. OwedInv'
  <2>1. \A i \in 1..Len(wire') : \E j \in 1..Len(wire) :
           wire'[i] = wire[j] /\ calls'[wire[j].from] = calls[wire[j].from]
    BY <1>1
  <2> QED
    BY <1>1, <1>2, <2>1, OwedKeeps DEF SuccessInv
<1>7. NoFalseSuccess'
  BY <1>1, <1>2, NobodyTold DEF SuccessInv
<1> QED
  BY <1>5, <1>6, <1>7 DEF SuccessInv

\* A step that leaves the commands, the debt and the wire alone.
LEMMA IdleKeeps ==
  ASSUME SuccessInv, UNCHANGED <<queueVars, debtVars, sendVars, stranded, abandoning, wireVars>>
  PROVE  SuccessInv'
<1>1. /\ UNCHANGED <<queue, issued, calls, outcome, answered_by>>
      /\ UNCHANGED <<owed_replies, owed_pending, owed_age, suppressed>>
      /\ UNCHANGED <<state, await_age, stranded, abandoning, wire, late>>
  BY DEF queueVars, debtVars, sendVars, wireVars
<1>2. WireInv' = WireInv
  BY <1>1 DEF WireInv, Awaiting, Elems, PumpAnswers
<1>3. OwedInv' = OwedInv
  BY <1>1 DEF OwedInv, Clean
<1>4. NoFalseSuccess' = NoFalseSuccess
  BY <1>1 DEF NoFalseSuccess
<1> QED
  BY <1>2, <1>3, <1>4 DEF SuccessInv

LEMMA SuccessInductive ==
  ASSUME LatencyAssumption, TypeOK, OnceInv, DebtInv, SuccessInv, [Next]_vars
  PROVE  SuccessInv'
<1>1. CASE LoopIdle
  <2>1. /\ ~abandoning /\ queue # <<>> /\ state # "AWAITING_RESPONSE"
        /\ UNCHANGED <<stranded, abandoning, debtVars>>
    BY <1>1 DEF LoopIdle, abandonVars
  <2>2. CASE send_age < Pacing
    BY <1>1, <2>1, <2>2, IdleKeeps DEF LoopIdle
  <2>3. CASE ~(send_age < Pacing)
    BY <1>1, <2>1, <2>3, WriteOkKeeps, WriteFailsKeeps DEF LoopIdle
  <2> QED
    BY <2>2, <2>3
<1>2. CASE LoopSending
  <2>1. /\ ~abandoning /\ queue # <<>> /\ state # "AWAITING_RESPONSE" /\ bytes_sent \in Nat
        /\ UNCHANGED <<stranded, abandoning, debtVars>>
        /\ WriteOk(bytes_sent) \/ WriteFails(bytes_sent)
    BY <1>2 DEF LoopSending, abandonVars, TypeOK
  <2> QED
    BY <2>1, WriteOkKeeps, WriteFailsKeeps
<1>3. CASE LoopTimeout
  BY <1>3, TimeoutKeeps
<1>4. CASE OnReply
  BY <1>4, OnReplyKeeps
<1>5. CASE OnVolunteered
  <2> DEFINE f == [from |-> NoCmd, body |-> "register", type |-> NoCmd]
  <2>1. ~ShortMatch(Head(queue), f) /\ ~LongMatch(Head(queue), f)
    BY DEF ShortMatch, LongMatch
  <2>2. TryDispatchResponse(f) /\ UNCHANGED <<stranded, abandoning, wireVars>>
    BY <1>5 DEF OnVolunteered, abandonVars
  <2> HIDE DEF f
  <2>3. Unmatched(f)
    BY <2>1, <2>2 DEF TryDispatchResponse, Withhold, MatchShort, MatchLong
  <2>4. UNCHANGED <<queueVars, debtVars, sendVars>>
    BY <2>3 DEF Unmatched
  <2> QED
    BY <2>2, <2>4, IdleKeeps
<1>6. CASE LoseReply
  <2>1. /\ wire # <<>> /\ wire' = Tail(wire)
        /\ UNCHANGED <<queue, issued, calls, outcome, answered_by>>
        /\ UNCHANGED <<state, await_age, stranded, abandoning, late, suppressed>>
        /\ UNCHANGED <<owed_pending, owed_replies, owed_age>>
    BY <1>6 DEF LoseReply, queueVars, debtVars, sendVars, abandonVars
  <2>2. late' \in Nat /\ late <= late'
    BY <2>1 DEF TypeOK
  <2>3. WireInv'
    BY <2>1, TailKeepsWire DEF SuccessInv
  <2>4. OwedInv'
    BY <2>1, <2>2, TailIsUnderWay, OwedKeeps DEF SuccessInv
  <2>5. NoFalseSuccess'
    BY <2>1, <2>2, NobodyTold DEF SuccessInv
  <2> QED
    BY <2>3, <2>4, <2>5 DEF SuccessInv
<1>7. CASE Reset \/ AbandonStep \/ AbandonEnd
  BY <1>7, AbandonKeeps
<1>8. CASE Tick
  BY <1>8, TickKeepsSuccess
<1>9. ASSUME NEW c \in Cmds, SendCommand(c) PROVE SuccessInv'
  BY <1>9, SendKeeps
<1>10. CASE UNCHANGED vars
  BY <1>10, IdleKeeps DEF vars, abandonVars
<1> QED
  BY <1>1, <1>2, <1>3, <1>4, <1>5, <1>6, <1>7, <1>8, <1>9, <1>10 DEF Next

\* A SET reported as acknowledged was acknowledged, and not by the late
\* acknowledgement of an abandoned one, as long as one reply is late at most and
\* no callback-less read was refused: whatever the commands, their kinds and the
\* timings, provided that a reply still under way is still owed.
THEOREM NoFalseSuccessAlways ==
  ASSUME LatencyAssumption
  PROVE  Spec => []NoFalseSuccess
<1>1. Init => SuccessInv
  <2> SUFFICES ASSUME Init PROVE SuccessInv
    OBVIOUS
  <2>1. /\ wire = <<>> /\ queue = <<>> /\ suppressed = {} /\ Len(wire) = 0
        /\ \A c \in Cmds : outcome[c] = "none"
    BY DEF Init
  <2>2. WireInv
    BY <2>1 DEF WireInv
  <2>3. OwedInv
    BY <2>1 DEF OwedInv
  <2>4. NoFalseSuccess
    BY <2>1 DEF NoFalseSuccess
  <2> QED
    BY <2>2, <2>3, <2>4 DEF SuccessInv
<1>2. TypeOK /\ OnceInv /\ DebtInv /\ SuccessInv /\ [Next]_vars => SuccessInv'
  BY SuccessInductive
<1>3. SuccessInv => NoFalseSuccess
  BY DEF SuccessInv
<1> QED
  BY <1>1, <1>2, <1>3, TypeCorrect, OnceInitially, OnceInductive, DebtInitially, DebtInductive, PTL
     DEF Spec
=============================================================================
