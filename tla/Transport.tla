------------------------------ MODULE Transport ------------------------------
(***************************************************************************)
(* The command transport of the ALPHA HWR component                        *)
(* (components/alpha_hwr/transport.{h,cpp}): one queue of commands, written *)
(* to the pump in paced 20-byte chunks, one command awaiting its reply at a *)
(* time, and replies that carry no request identifier.                     *)
(*                                                                         *)
(* The component runs in one loop, so an action is one call that the loop   *)
(* makes: Transport::loop(), on_notification() completing a frame whose CRC *)
(* is good, send_command(), or reset().  The callback of a settled command  *)
(* is service code that runs inside that call; what it does to this state   *)
(* is to queue the next command of its chain.                              *)
(*                                                                         *)
(* Frames are abstracted to what the matcher tells apart, chunks are        *)
(* counted, and every "now - stamp" of the code is an age in ticks: the    *)
(* stamps are only ever read through such a difference.  Fragments and CRCs *)
(* are the business of module Reassembly.                                  *)
(***************************************************************************)
EXTENDS Naturals, Sequences, FiniteSets

CONSTANTS
  Cmds,             \* identities of the commands the services may issue
  Kind,             \* [Cmds -> Kinds]: which matching rule a command declares
  Chunks,           \* [Cmds -> Nat \ {0}]: its packet's length in 20-byte chunks
  ReplyType,        \* [Cmds -> object types]: the type its data reply carries
  Refusable,        \* commands queued with expect_short_read_refusal
  Pacing,           \* send_pacing_ms_
  AckTimeout,       \* SET_ACK_TIMEOUT_MS, the timeout of a "set"
  ReadTimeout,      \* timeout_ms of every other command
  StaleWindow,      \* STALE_REPLY_WINDOW_MS
  PeerStale,        \* REASSEMBLY_TIMEOUT_MS, taken for the pump's receiver too
  ResyncHold,       \* PEER_RESYNC_HOLD_MS
  OwedMax,          \* 0xFF, where owed_replies_ saturates
  MaxAbandonSteps,  \* MAX_ABANDON_STEPS
  MaxLatency,       \* environment: age at which a reply has arrived or is lost
  LateBudget,       \* environment: replies that may arrive after their command
  PollRefusals,     \* environment: may the pump refuse a callback-less read?
  NoCmd             \* the sender of a frame the pump volunteers

\* "set"   Class 10 SET, expect 0/0 with expect_short_ack
\* "read"  Class 10 GET that names the reply's type
\* "wild"  Class 10 GET, expect 0/0 (the DST rule, the identity record)
\* "class" Class 3 or 7 request, matched by class byte alone
\* "poll"  Class 10 GET without a callback (telemetry)
Kinds == {"set", "read", "wild", "class", "poll"}

ASSUME ProfileAssumption ==
  /\ IsFiniteSet(Cmds)
  /\ Kind \in [Cmds -> Kinds]
  /\ Chunks \in [Cmds -> Nat \ {0}]
  /\ Refusable \subseteq {c \in Cmds : Kind[c] = "read"}
  /\ DOMAIN ReplyType = Cmds
  /\ NoCmd \notin Cmds

ASSUME TimingAssumption ==
  /\ Pacing \in Nat /\ AckTimeout \in Nat /\ ReadTimeout \in Nat
  /\ StaleWindow \in Nat /\ PeerStale \in Nat /\ ResyncHold \in Nat
  /\ MaxAbandonSteps \in Nat /\ MaxLatency \in Nat /\ LateBudget \in Nat
  /\ OwedMax \in Nat \ {0}
  /\ ResyncHold > PeerStale        \* REASSEMBLY_TIMEOUT_MS + 100
  /\ PollRefusals \in BOOLEAN

VARIABLES
  queue,          \* command_queue_; the drained queue too while abandoning
  state,          \* state_
  bytes_sent,     \* chunks of the front command already written
  send_age,       \* now - last_send_time_
  await_age,      \* now - timestamp_ms of the front command
  owed_replies, owed_pending, owed_age,       \* the reply debt
  peer_resync_pending, resync_age,            \* the hold after a partial write
  suppressed,     \* commands whose suppressed_a_frame is set
  abandoning, abandon_steps,                  \* abandon_queue_()'s drain
  \* The pump and the radio, external.
  wire,           \* replies under way, in the order the pump sends them
  peer_partial, peer_age,  \* does the pump hold part of a frame, since when
  late,           \* replies delivered after their command was settled
  \* History, read by the properties only.
  issued,         \* commands ever queued
  calls,          \* how often each command's callback ran
  outcome,        \* what it was told
  answered_by,    \* the command whose reply settled it
  stranded,       \* dropped at the drain's cap, their callers never told
  swallowed,      \* commands whose frame the pump took for more of another
  withheld,       \* frames taken from a waiting command to pay a debt
  old             \* commands issued before the last disconnection was handled

queueVars   == <<queue, issued, calls, outcome, answered_by>>
debtVars    == <<owed_replies, owed_pending, owed_age, suppressed, withheld>>
sendVars    == <<state, bytes_sent, send_age, await_age>>
resyncVars  == <<peer_resync_pending, resync_age>>
peerVars    == <<peer_partial, peer_age, swallowed>>
abandonVars == <<abandoning, abandon_steps, stranded, old>>
wireVars    == <<wire, late>>
vars == <<queueVars, debtVars, sendVars, resyncVars, peerVars, abandonVars, wireVars>>

States == {"IDLE", "SENDING_CHUNKS", "AWAITING_RESPONSE"}

\* What the matcher can tell about a frame: a short Class 10 frame saying yes
\* or no, a typed Class 10 object, a register-length Class 10 reply, or a reply
\* of a class matched by its class byte.
Bodies == {"ack", "refused", "object", "register", "class"}

\* A reply under way from the pump.
Reply == [from : Cmds, body : Bodies, age : Nat]

Elems(s) == {s[i] : i \in 1..Len(s)}
Older(age, cap) == IF age < cap THEN age + 1 ELSE age

HasCallback(c) == Kind[c] # "poll"
TimeoutOf(c)   == IF Kind[c] = "set" THEN AckTimeout ELSE ReadTimeout
Fresh          == Cmds \ issued

\* What a callback may queue before it returns: nothing, or the next command
\* of its chain.
Chains(c) == IF HasCallback(c) THEN {<<>>} \cup {<<d>> : d \in Fresh} ELSE {<<>>}

Init ==
  /\ queue = <<>> /\ issued = {} /\ stranded = {} /\ old = {}
  /\ calls = [c \in Cmds |-> 0]
  /\ outcome = [c \in Cmds |-> "none"]
  /\ answered_by = [c \in Cmds |-> NoCmd]
  /\ state = "IDLE" /\ bytes_sent = 0 /\ send_age = Pacing /\ await_age = 0
  /\ owed_replies = 0 /\ owed_pending = FALSE /\ owed_age = 0
  /\ suppressed = {} /\ withheld = 0
  /\ peer_resync_pending = FALSE /\ resync_age = 0
  /\ peer_partial = FALSE /\ peer_age = 0 /\ swallowed = {}
  /\ abandoning = FALSE /\ abandon_steps = 0
  /\ wire = <<>> /\ late = 0

-----------------------------------------------------------------------------
(* Settling a command. *)

\* Faulty variant of Settle: what a callback queues jumps the queue.
SettleJumping(ok, by, chain) ==
  LET c == Head(queue) IN
  /\ queue' = chain \o Tail(queue)
  /\ issued' = issued \cup Elems(chain)
  /\ calls' = IF HasCallback(c) THEN [calls EXCEPT ![c] = @ + 1] ELSE calls
  /\ outcome' = IF HasCallback(c)
                THEN [outcome EXCEPT ![c] = IF ok THEN "ok" ELSE "failed"] ELSE outcome
  /\ answered_by' = [answered_by EXCEPT ![c] = by]

\* complete_front_command_: off the queue first, then the callback, which may
\* queue chain.
Settle(ok, by, chain) ==
  LET c == Head(queue) IN
  /\ queue' = Tail(queue) \o chain
  /\ issued' = issued \cup Elems(chain)
  /\ calls' = IF HasCallback(c) THEN [calls EXCEPT ![c] = @ + 1] ELSE calls
  /\ outcome' = IF HasCallback(c)
                THEN [outcome EXCEPT ![c] = IF ok THEN "ok" ELSE "failed"] ELSE outcome
  /\ answered_by' = [answered_by EXCEPT ![c] = by]

\* Faulty variant of FailFront: the command goes, its caller is not told.
FailFrontUntold ==
  queue' = Tail(queue) /\ UNCHANGED <<issued, calls, outcome, answered_by>>

\* fail_front_command_
FailFront == \E chain \in Chains(Head(queue)) : Settle(FALSE, NoCmd, chain)

SendCommand(c) ==
  /\ ~abandoning
  /\ c \in Fresh
  /\ queue' = Append(queue, c)
  /\ issued' = issued \cup {c}
  /\ UNCHANGED <<calls, outcome, answered_by, debtVars, sendVars, resyncVars,
                 peerVars, abandonVars, wireVars>>

-----------------------------------------------------------------------------
(* The reply debt (issue #248). *)

\* Faulty variants of NoteReplyOwed: no saturation, and a debt for a command
\* whose frame has been withheld already.
NoteReplyOwedForEver(already_suppressed) ==
  IF already_suppressed
  THEN UNCHANGED <<owed_replies, owed_pending, owed_age>>
  ELSE owed_replies' = owed_replies + 1 /\ owed_pending' = TRUE /\ owed_age' = 0
NoteReplyOwedAgain(already_suppressed) ==
  /\ owed_replies' = IF owed_replies < OwedMax THEN owed_replies + 1 ELSE owed_replies
  /\ owed_pending' = TRUE
  /\ owed_age' = 0

\* note_reply_owed_
NoteReplyOwed(already_suppressed) ==
  IF already_suppressed
  THEN UNCHANGED <<owed_replies, owed_pending, owed_age>>
  ELSE /\ owed_replies' = IF owed_replies < OwedMax THEN owed_replies + 1 ELSE owed_replies
       /\ owed_pending' = TRUE
       /\ owed_age' = 0

\* Faulty variant of StaleReplyPossible: no reply is ever taken for stale.
StaleNever == FALSE

\* stale_reply_possible_: its answer, and the debt it clears when the window
\* has elapsed.
StaleReplyPossible == owed_pending /\ owed_age < StaleWindow /\ owed_replies > 0
DebtExpired        == owed_pending /\ owed_age >= StaleWindow

\* consume_owed_reply_
ConsumeOwedReply(c) ==
  /\ owed_replies' = owed_replies - 1
  /\ owed_pending' = (owed_replies > 1)
  /\ suppressed' = suppressed \cup {c}
  /\ withheld' = withheld + 1
  /\ UNCHANGED owed_age

ClearExpiredDebt ==
  /\ owed_replies' = IF DebtExpired THEN 0 ELSE owed_replies
  /\ owed_pending' = (owed_pending /\ ~DebtExpired)
  /\ UNCHANGED <<owed_age, suppressed, withheld>>

-----------------------------------------------------------------------------
(* The pump's receiver and its answers, external: a receiver built like this *)
(* component's own, which appends to a partial frame until it is stale.      *)

PumpAnswers(c) ==
  {b \in Bodies :
     \/ Kind[c] = "set" /\ b \in {"ack", "refused"}
     \/ Kind[c] \in {"read", "wild"} /\ b \in {"object", "refused"}
     \/ Kind[c] = "class" /\ b = "class"
     \/ Kind[c] = "poll" /\ (b = "register" \/ (PollRefusals /\ b = "refused"))}

Replies(c) == {<<>>} \cup {<<[from |-> c, body |-> b, age |-> 0]>> : b \in PumpAnswers(c)}

\* The pump receives chunk number sent + 1 of c's frame.
PumpReceives(c, sent) ==
  LET absorbed == sent = 0 /\ peer_partial /\ peer_age <= PeerStale
      whole    == sent + 1 >= Chunks[c]
  IN /\ swallowed' = IF absorbed THEN swallowed \cup {c} ELSE swallowed
     /\ peer_partial' = (absorbed \/ ~whole)
     /\ peer_age' = IF sent = 0 /\ ~absorbed THEN 0 ELSE peer_age
     /\ IF whole /\ c \notin swallowed'
        THEN \E r \in Replies(c) : wire' = wire \o r
        ELSE wire' = wire
     /\ late' = late

-----------------------------------------------------------------------------
(* Transport::loop(). *)

\* A write of the front's next chunk that the BLE stack takes.
WriteOk(sent) ==
  LET c == Head(queue) IN
  /\ send_age' = 0
  /\ PumpReceives(c, sent)
  /\ IF sent + 1 < Chunks[c]
     THEN /\ state' = "SENDING_CHUNKS" /\ bytes_sent' = sent + 1
          /\ UNCHANGED <<await_age, queueVars>>
     ELSE IF HasCallback(c)
     THEN /\ state' = "AWAITING_RESPONSE" /\ bytes_sent' = sent + 1
          /\ await_age' = 0
          /\ UNCHANGED queueVars
     ELSE /\ queue' = Tail(queue)
          /\ state' = "IDLE" /\ bytes_sent' = 0
          /\ UNCHANGED <<await_age, issued, calls, outcome, answered_by>>
  /\ UNCHANGED resync_age

\* A write the stack refuses: the command is dropped, and when part of its
\* frame is already at the pump the next send is held back.
WriteFails(sent) ==
  /\ FailFront
  /\ state' = "IDLE" /\ bytes_sent' = 0
  /\ resync_age' = IF sent > 0 THEN 0 ELSE resync_age
  /\ UNCHANGED <<send_age, await_age, peerVars, wireVars>>

\* Faulty variant of LoopIdle: the hold is not looked at.
LoopIdleUnheld ==
  /\ ~abandoning /\ queue # <<>> /\ state = "IDLE"
  /\ peer_resync_pending' = FALSE
  /\ IF send_age < Pacing
     THEN UNCHANGED <<queueVars, sendVars, resync_age, peerVars, wireVars>>
     ELSE WriteOk(0) \/ WriteFails(0)
  /\ UNCHANGED <<debtVars, abandonVars>>

\* case IDLE: the resync hold, then the pacing check, then the first chunk.
LoopIdle ==
  /\ ~abandoning /\ queue # <<>> /\ state = "IDLE"
  /\ peer_resync_pending => resync_age >= ResyncHold
  /\ peer_resync_pending' = FALSE
  /\ IF send_age < Pacing
     THEN UNCHANGED <<queueVars, sendVars, resync_age, peerVars, wireVars>>
     ELSE WriteOk(0) \/ WriteFails(0)
  /\ UNCHANGED <<debtVars, abandonVars>>

\* case SENDING_CHUNKS.
LoopSending ==
  /\ ~abandoning /\ queue # <<>> /\ state = "SENDING_CHUNKS"
  /\ send_age >= Pacing
  /\ \/ WriteOk(bytes_sent) /\ UNCHANGED peer_resync_pending
     \/ WriteFails(bytes_sent)
        /\ peer_resync_pending' = (peer_resync_pending \/ bytes_sent > 0)
  /\ UNCHANGED <<debtVars, abandonVars>>

\* case AWAITING_RESPONSE: the command gives up, the reply stays owed.
LoopTimeout ==
  /\ ~abandoning /\ queue # <<>> /\ state = "AWAITING_RESPONSE"
  /\ await_age > TimeoutOf(Head(queue))
  /\ NoteReplyOwed(Head(queue) \in suppressed)
  /\ FailFront
  /\ state' = "IDLE" /\ bytes_sent' = 0
  /\ UNCHANGED <<send_age, await_age, suppressed, withheld, resyncVars, peerVars,
                 abandonVars, wireVars>>

Loop == LoopIdle \/ LoopSending \/ LoopTimeout

-----------------------------------------------------------------------------
(* on_notification() with a whole frame whose CRC is good:                  *)
(* try_dispatch_response(), whose FALSE hands the frame to the packet       *)
(* callback and changes nothing here.                                       *)

Awaiting == state = "AWAITING_RESPONSE" /\ queue # <<>>

\* short_ack_shape, and short_read_refusal_shape of a reply that declines.
ShortMatch(c, f) ==
  \/ Kind[c] = "set" /\ f.body \in {"ack", "refused"}
  \/ c \in Refusable /\ f.body = "refused"

\* class_wildcard_matches, the Class 10 wildcard with its register-length
\* guard, and the exact type match.
LongMatch(c, f) ==
  \/ Kind[c] = "class" /\ f.body = "class"
  \/ Kind[c] = "wild" /\ f.body = "object"
  \/ Kind[c] = "read" /\ f.body = "object" /\ f.type = ReplyType[c]

\* A frame nobody waits for, or that does not match: it goes to telemetry.
Unmatched(f) ==
  /\ ~(Awaiting /\ (ShortMatch(Head(queue), f) \/ LongMatch(Head(queue), f)))
  /\ UNCHANGED <<queueVars, debtVars, sendVars>>

\* A short frame while a reply is owed pays the debt and answers nobody.
Withhold(f) ==
  /\ Awaiting /\ ShortMatch(Head(queue), f)
  /\ StaleReplyPossible
  /\ ConsumeOwedReply(Head(queue))
  /\ UNCHANGED <<queueVars, sendVars>>

MatchShort(f) ==
  /\ Awaiting /\ ShortMatch(Head(queue), f)
  /\ ~StaleReplyPossible
  /\ ClearExpiredDebt
  /\ \E chain \in Chains(Head(queue)) : Settle(f.body = "ack", f.from, chain)
  /\ state' = "IDLE" /\ bytes_sent' = 0
  /\ UNCHANGED <<send_age, await_age>>

MatchLong(f) ==
  /\ Awaiting /\ LongMatch(Head(queue), f)
  /\ \E chain \in Chains(Head(queue)) : Settle(TRUE, f.from, chain)
  /\ state' = "IDLE" /\ bytes_sent' = 0
  /\ UNCHANGED <<debtVars, send_age, await_age>>

TryDispatchResponse(f) == Unmatched(f) \/ Withhold(f) \/ MatchShort(f) \/ MatchLong(f)

Frame(reply) ==
  [from |-> reply.from, body |-> reply.body,
   type |-> IF reply.from \in Cmds THEN ReplyType[reply.from] ELSE NoCmd]

IsLate(reply) == calls[reply.from] > 0

OnReply ==
  /\ ~abandoning /\ wire # <<>>
  /\ IsLate(Head(wire)) => late < LateBudget
  /\ late' = IF IsLate(Head(wire)) THEN late + 1 ELSE late
  /\ wire' = Tail(wire)
  /\ TryDispatchResponse(Frame(Head(wire)))
  /\ UNCHANGED <<resyncVars, peerVars, abandonVars>>

\* A telemetry notification nobody asked for.
OnVolunteered ==
  /\ ~abandoning
  /\ TryDispatchResponse([from |-> NoCmd, body |-> "register", type |-> NoCmd])
  /\ UNCHANGED <<resyncVars, peerVars, abandonVars, wireVars>>

\* A reply the radio corrupts: dropped at its CRC, or never complete.
LoseReply ==
  /\ ~abandoning /\ wire # <<>>
  /\ wire' = Tail(wire)
  /\ UNCHANGED <<late, queueVars, debtVars, sendVars, resyncVars, peerVars, abandonVars>>

-----------------------------------------------------------------------------
(* reset(), on BLE disconnection, and abandon_queue_()'s drain.             *)

Reset ==
  /\ ~abandoning
  /\ peer_resync_pending' = FALSE
  /\ owed_pending' = FALSE /\ owed_replies' = 0
  /\ state' = "IDLE" /\ bytes_sent' = 0
  /\ abandoning' = (queue # <<>>)
  /\ abandon_steps' = 0
  /\ old' = IF queue = <<>> THEN issued ELSE old
  /\ peer_partial' = FALSE /\ wire' = <<>>     \* they died with the link
  /\ UNCHANGED <<queueVars, owed_age, suppressed, withheld, send_age, await_age,
                 resync_age, peer_age, swallowed, late, stranded>>

AbandonStep ==
  /\ abandoning /\ queue # <<>> /\ abandon_steps < MaxAbandonSteps
  /\ FailFront
  /\ abandon_steps' = abandon_steps + 1
  /\ UNCHANGED <<abandoning, stranded, old, debtVars, sendVars, resyncVars, peerVars, wireVars>>

\* Faulty variant of AbandonEnd: the drain stops with commands in the queue.
AbandonEndEarly ==
  /\ abandoning
  /\ abandoning' = FALSE
  /\ state' = "IDLE"
  /\ old' = issued
  /\ UNCHANGED <<queueVars, stranded, abandon_steps, bytes_sent, send_age, await_age,
                 debtVars, resyncVars, peerVars, wireVars>>

\* The queue is empty, or the cap drops what is left of it.
AbandonEnd ==
  /\ abandoning
  /\ queue = <<>> \/ abandon_steps >= MaxAbandonSteps
  /\ stranded' = stranded \cup Elems(queue)
  /\ queue' = <<>>
  /\ abandoning' = FALSE
  /\ state' = "IDLE"
  /\ old' = issued
  /\ UNCHANGED <<issued, calls, outcome, answered_by, abandon_steps, bytes_sent, send_age,
                 await_age, debtVars, resyncVars, peerVars, wireVars>>

Abandon == AbandonStep \/ AbandonEnd

-----------------------------------------------------------------------------
\* Time passes between two iterations of the loop.  An age nobody reads is 0.
Tick ==
  /\ ~abandoning
  /\ \A i \in 1..Len(wire) : wire[i].age < MaxLatency
  /\ wire' = [i \in 1..Len(wire) |-> [wire[i] EXCEPT !.age = @ + 1]]
  /\ send_age' = Older(send_age, Pacing)
  /\ await_age' = IF Awaiting THEN Older(await_age, TimeoutOf(Head(queue)) + 1) ELSE 0
  /\ owed_age' = IF owed_pending THEN Older(owed_age, StaleWindow) ELSE 0
  /\ resync_age' = IF peer_resync_pending THEN Older(resync_age, ResyncHold) ELSE 0
  /\ peer_age' = IF peer_partial THEN Older(peer_age, ResyncHold) ELSE 0
  /\ UNCHANGED <<queueVars, state, bytes_sent, owed_replies, owed_pending, suppressed,
                 withheld, peer_resync_pending, peer_partial, swallowed, abandonVars, late>>

Next ==
  \/ \E c \in Cmds : SendCommand(c)
  \/ LoopIdle \/ LoopSending \/ LoopTimeout
  \/ OnReply \/ OnVolunteered \/ LoseReply
  \/ Reset \/ AbandonStep \/ AbandonEnd
  \/ Tick

Spec == Init /\ [][Next]_vars

\* The main loop calls loop() for ever, a drain runs to its end inside the
\* call that started it, time passes, and a reply arrives or is lost.
Fairness ==
  /\ WF_vars(Loop) /\ WF_vars(Abandon) /\ WF_vars(Tick) /\ WF_vars(OnReply \/ LoseReply)

FairSpec == Spec /\ Fairness
-----------------------------------------------------------------------------
(* Properties. *)

\* Every variable keeps the type transport.h declares for it.
TypeOK ==
  /\ queue \in Seq(Cmds) /\ issued \subseteq Cmds /\ stranded \subseteq Cmds
  /\ old \subseteq Cmds /\ suppressed \subseteq Cmds /\ swallowed \subseteq Cmds
  /\ calls \in [Cmds -> Nat]
  /\ outcome \in [Cmds -> {"none", "ok", "failed"}]
  /\ answered_by \in [Cmds -> Cmds \cup {NoCmd}]
  /\ state \in States
  /\ bytes_sent \in Nat /\ send_age \in Nat /\ await_age \in Nat
  /\ owed_replies \in 0..OwedMax /\ owed_pending \in BOOLEAN /\ owed_age \in Nat
  /\ peer_resync_pending \in BOOLEAN /\ resync_age \in Nat
  /\ peer_partial \in BOOLEAN /\ peer_age \in Nat
  /\ abandoning \in BOOLEAN /\ abandon_steps \in Nat
  /\ withheld \in Nat /\ late \in Nat
  /\ wire \in Seq(Reply)

\* transport.h "Called when command completes or times out", issues #259 and
\* #284: no callback runs twice, and a command that has left the queue without
\* its callback having run was dropped at the drain's cap.
ExactlyOnce ==
  \A c \in Cmds :
    /\ calls[c] <= 1
    /\ c \in issued /\ HasCallback(c) =>
         (calls[c] = 1 <=> c \notin Elems(queue) \cup stranded)

FailedUnsuppressed == {c \in Cmds : outcome[c] = "failed" /\ c \notin suppressed}

\* The reply debt of issue #248: "damage is bounded" and "the sequence always
\* converges".  Frames withheld, plus those still to be withheld, never exceed
\* the commands that failed without having had a frame withheld themselves:
\* no late reply starts a chain of lost acknowledgements.
DamageBounded ==
  withheld + owed_replies <= Cardinality(FailedUnsuppressed)

\* The purpose of the debt: a SET reported as acknowledged was acknowledged,
\* and not by the late acknowledgement of an abandoned command.  It holds as
\* long as one reply is late at most and no callback-less read was refused.
NoFalseSuccess ==
  late <= 1 /\ (PollRefusals => \A c \in issued : Kind[c] # "poll") =>
    \A c \in Cmds : Kind[c] = "set" /\ outcome[c] = "ok" => answered_by[c] = c

\* The purpose of PEER_RESYNC_HOLD_MS: the pump never takes a command's frame
\* for the rest of one whose write failed part-way.
NoSwallow == swallowed = {}

\* reset()'s contract: "nothing survives into the next connection", the
\* commands that callbacks queue during the drain included.
NoCarryOver == ~abandoning => Elems(queue) \cap old = {}

\* The transport does what CommandQueue promises: whatever is lost, refused or
\* late, commands end in the order they were queued and each caller hears of
\* it once.
Promise == INSTANCE CommandQueue WITH
  Silent <- {c \in Cmds : ~HasCallback(c)},
  pending <- queue, known <- issued, told <- calls, lost <- stranded
KeepsPromise == Promise!Spec

\* "The reply it was waiting for is the frame that was taken from it"
\* (transport.h, suppressed_a_frame): a suppressed command that failed has no
\* reply of its own still under way.
SuppressedMeansPaid ==
  \A c \in suppressed : outcome[c] = "failed" =>
    \A i \in 1..Len(wire) : wire[i].from # c

\* Every command with a callback hears of its end, one way or another
\* (issue #259: "a caller that nobody remembered to wire up simply waited
\* forever").
EverySettles ==
  \A c \in Cmds : HasCallback(c) =>
    (c \in issued ~> calls[c] = 1 \/ c \in stranded)
=============================================================================
