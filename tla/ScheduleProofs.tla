--------------------------- MODULE ScheduleProofs ---------------------------
(***************************************************************************)
(* A write of one day leaves the others of its layer alone, every variable *)
(* keeps its type, an operation is accepted on what the pump holds, with   *)
(* its hash, and no event that is not over is overwritten by a new one:    *)
(* for every number of layers, days and slots, every set of requests and   *)
(* any faults.                                                             *)
(***************************************************************************)
EXTENDS Schedule, SlotsProofs

\* The constants, as the proofs use them.
LEMMA Constants ==
  /\ Layers \subseteq Nat /\ Days \subseteq Nat /\ AllDays \notin Days
  /\ 0 \in Layers /\ 0 \in Times
<1>1. UPLOAD_LAYERS \in Nat \ {0} /\ UPLOAD_DAYS \in Nat \ {0} /\ 0 \in Times
  BY ScheduleAssumption
<1> QED BY <1>1 DEF Layers, Days, AllDays
-----------------------------------------------------------------------------
(* What the steps of an operation do to it and to the commands it sends.   *)

OpFields == {"seq", "cmd", "req", "phase", "status", "tries", "slot", "todo", "cursor",
             "unhandled", "at", "written", "skipped", "failed", "flag"}
WFields == {"op", "overview", "layers", "events", "send"}

\* The operations that end in a read-back.
Confirmable == Commands \ {"refresh", "refresh_events"}

\* An operation in flight was asked for by a client and passed the checks.
OpOk(o) ==
  /\ DOMAIN o = OpFields
  /\ o.seq \in Nat /\ o.written \subseteq Layers
  /\ o.phase # "done" =>
       /\ o.seq > 0 /\ o.req \in Requests /\ o.cmd = o.req.cmd
       /\ IsEntry(o) => o.req.layer \in Layers /\ o.req.day \in Days
       /\ o.cmd = "upload" /\ o.phase \in {"read", "write"} => o.at \in Layers
       /\ o.phase = "due" => o.cmd \in Confirmable

WOk(w) == DOMAIN w = WFields /\ DOMAIN w.layers = Layers /\ OpOk(w.op)

\* w1 is w with fields changed that matter to nothing below.
Alike(w, w1) ==
  /\ WOk(w1) /\ w1.send = w.send /\ w1.layers = w.layers
  /\ w1.op.seq = w.op.seq /\ w1.op.phase = w.op.phase
  /\ w1.op.cmd = w.op.cmd /\ w1.op.req = w.op.req

CommandKinds == {"poll", "layer", "layers", "write", "state", "slots", "slot", "event", "commit"}

\* The operations that write the enabled flag and poll it.
OfFlag(o) == o.cmd = "set_enabled" \/ (o.cmd = "upload" /\ o.phase = "flag")

\* A command of operation o, and the write of a layer as it was just read.
OwnOk(o, c) ==
  /\ c.kind = "layer" /\ IsEntry(o) => c.at = o.req.layer
  /\ c.kind = "layer" => (IsEntry(o) \/ o.cmd = "upload") /\ o.phase \in {"read", "confirm"}
  /\ c.kind \in {"layer", "write"} /\ o.cmd = "upload" => c.at = o.at
  /\ c.kind = "layers" => o.cmd = "refresh"
  /\ c.kind = "slots" => o.phase = "slots" /\ (IsEvent(o) \/ o.cmd = "refresh_events")
  /\ c.kind \in {"slot", "event"} => IsEvent(o) /\ c.at = o.slot
  /\ c.kind = "slot" => o.phase = "confirm"
  /\ c.kind = "event" => o.phase = "write" /\ (o.cmd = "clear_vacation" => ~c.data.ev.on)
  /\ c.kind # "commit"
  /\ c.kind \in {"poll", "state"} => OfFlag(o)
  /\ c.kind \notin {"layers", "slots"} => o.cmd \in Confirmable
  /\ c.kind = "write" => o.phase = "write"
  /\ c.kind \notin {"layer", "layers"} => o.phase # "read"
Shaped(c) ==
  /\ DOMAIN c = {"kind", "seq", "at", "data"} /\ c.kind \in CommandKinds
  /\ c.kind \in {"layer", "layers", "write"} => c.at \in Layers
  /\ c.kind = "write" => c.data.days \in [Days -> Cell] /\ c.data.day \in Days \cup {AllDays}
AsRead(w, c) ==
  c.kind = "write" =>
    /\ w.op.phase = "read"
    /\ c.data.day # AllDays =>
         /\ IsEntry(w.op) /\ c.at = w.op.req.layer
         /\ \A k \in Days \ {c.data.day} : c.data.days[k] = w.layers[c.at].days[k]

\* What a step of an operation in flight leads to: its end, its settle delay,
\* or one command of its own.
Result(w, x) ==
  /\ WOk(x) /\ x.op.seq = w.op.seq
  /\ \/ x.op.phase \in {"done", "due"} /\ x.send = w.send
     \/ x.op.phase \notin {"done", "due"} /\ \E e :
          /\ x.send = Append(w.send, e)
          /\ e.seq = w.op.seq /\ Shaped(e) /\ OwnOk(x.op, e) /\ AsRead(w, e)

LEMMA AlikeResult ==
  ASSUME NEW w, NEW w1, NEW x, Alike(w, w1), Result(w1, x)
  PROVE  Result(w, x)
  BY DEF Alike, Result, AsRead, IsEntry

LEMMA FinishResult ==
  ASSUME NEW w, WOk(w), NEW status
  PROVE  Result(w, Finish(w, status))
  BY DEF WOk, OpOk, Result, Finish, WFields, OpFields

LEMMA RetryResult ==
  ASSUME NEW w, WOk(w), w.op.phase # "done", w.op.cmd \in Confirmable, NEW status
  PROVE  Result(w, Retry(w, status))
<1> DEFINE x == [w EXCEPT !.op.tries = @ + 1, !.op.phase = "due"]
<1>1. Result(w, x)
  BY DEF WOk, OpOk, Result, WFields, OpFields, IsEntry
<1> QED BY <1>1, FinishResult DEF Retry

\* What the next phase leaves alone.
LEMMA PhaseOk ==
  ASSUME NEW w, WOk(w), w.op.phase # "done", NEW phase, phase # "done",
         phase = "due" => w.op.cmd \in Confirmable,
         w.op.cmd = "upload" /\ phase \in {"read", "write"} => w.op.at \in Layers
  PROVE  LET x == Phase(w, phase) IN
         /\ WOk(x) /\ x.send = w.send /\ x.layers = w.layers
         /\ x.op.phase = phase /\ x.op.seq = w.op.seq /\ x.op.cmd = w.op.cmd
         /\ x.op.req = w.op.req /\ x.op.at = w.op.at /\ x.op.slot = w.op.slot
  BY DEF Phase, WOk, OpOk, WFields, OpFields, IsEntry

\* A command goes out.
LEMMA SendResult ==
  ASSUME NEW w, NEW y, WOk(y), y.send = w.send, y.op.seq = w.op.seq,
         y.op.phase \notin {"done", "due"},
         NEW kind \in CommandKinds, NEW at, NEW data,
         LET c == [kind |-> kind, seq |-> y.op.seq, at |-> at, data |-> data]
         IN  Shaped(c) /\ AsRead(w, c) /\ OwnOk(y.op, c)
  PROVE  Result(w, Send(y, kind, at, data))
<1> DEFINE c == [kind |-> kind, seq |-> y.op.seq, at |-> at, data |-> data]
           x == Send(y, kind, at, data)
<1>1. x.op = y.op /\ x.layers = y.layers /\ x.send = Append(w.send, c) /\ DOMAIN x = WFields
  BY DEF Send, WOk, WFields
<1>2. OwnOk(x.op, c) /\ c.seq = w.op.seq /\ x.op.seq = w.op.seq
  BY <1>1
<1> HIDE DEF x, c
<1>3. Result(w, x)
  BY <1>1, <1>2 DEF Result, WOk, c
<1> QED BY <1>3 DEF x

\* Commands that carry nothing a later write could rest on.
Plainly == {"poll", "layers", "state", "slots", "slot", "event", "commit"}
LEMMA PlainResult ==
  ASSUME NEW w, NEW y, WOk(y), y.send = w.send, y.op.seq = w.op.seq,
         y.op.phase \notin {"done", "due"},
         NEW kind \in Plainly, NEW at, NEW data,
         OwnOk(y.op, [kind |-> kind, at |-> at, data |-> data]), kind = "layers" => at \in Layers
  PROVE  Result(w, Send(y, kind, at, data))
<1> DEFINE c == [kind |-> kind, seq |-> y.op.seq, at |-> at, data |-> data]
<1>1. Shaped(c) /\ AsRead(w, c) /\ OwnOk(y.op, c)
  <2>1. c.kind = kind /\ c.at = at /\ c.data = data
        /\ LET e == [kind |-> kind, at |-> at, data |-> data]
           IN  e.kind = kind /\ e.at = at /\ e.data = data
        /\ DOMAIN c = {"kind", "seq", "at", "data"}
    OBVIOUS
  <2> HIDE DEF c
  <2> QED BY <2>1 DEF Shaped, AsRead, OwnOk, Plainly, CommandKinds
<1>2. kind \in CommandKinds
  BY DEF Plainly, CommandKinds
<1> HIDE DEF c
<1> QED BY <1>1, <1>2, SendResult DEF c

\* The read of a layer, by an entry or by an upload.
LEMMA LayerResult ==
  ASSUME NEW w, NEW y, WOk(y), y.send = w.send, y.op.seq = w.op.seq,
         y.op.phase \in {"read", "confirm"}, NEW at \in Layers,
         IsEntry(y.op) => at = y.op.req.layer, IsEntry(y.op) \/ y.op.cmd = "upload",
         y.op.cmd = "upload" => at = y.op.at
  PROVE  Result(w, Send(y, "layer", at, NoData))
<1> DEFINE c == [kind |-> "layer", seq |-> y.op.seq, at |-> at, data |-> NoData]
<1>1. Shaped(c) /\ AsRead(w, c) /\ OwnOk(y.op, c)
  BY DEF Shaped, AsRead, OwnOk, CommandKinds, IsEntry, Confirmable, Commands
<1>2. "layer" \in CommandKinds
  BY DEF CommandKinds
<1> HIDE DEF c
<1> QED BY <1>1, <1>2, SendResult DEF c

\* Neither cache counts.
LEMMA CachesResult ==
  ASSUME NEW w, NEW x, Result(w, x), NEW y, DOMAIN y = WFields, DOMAIN y.layers = Layers,
         y.op = x.op, y.send = x.send
  PROVE  Result(w, y)
  BY DEF Result, WOk

LEMMA WriteLayerResult ==
  ASSUME NEW w, WOk(w), w.op.phase = "read", w.op.cmd \in Confirmable,
         w.op.cmd = "upload" => w.op.at \in Layers,
         NEW l \in Layers, w.op.cmd = "upload" => l = w.op.at, NEW image \in [Days -> Cell], NEW day \in Days \cup {AllDays},
         day # AllDays =>
           /\ IsEntry(w.op) /\ l = w.op.req.layer
           /\ \A k \in Days \ {day} : image[k] = w.layers[l].days[k]
  PROVE  Result(w, WriteLayer(w, l, image, day))
<1> DEFINE y == Phase(w, "write")
           data == [days |-> image, day |-> day]
           c == [kind |-> "write", seq |-> y.op.seq, at |-> l, data |-> data]
           x == Send(y, "write", l, data)
<1>1. WOk(y) /\ y.send = w.send /\ y.layers = w.layers /\ y.op.phase = "write"
      /\ y.op.seq = w.op.seq /\ y.op.cmd = w.op.cmd /\ y.op.at = w.op.at
  BY PhaseOk
<1>2. Shaped(c) /\ AsRead(w, c) /\ OwnOk(y.op, c)
  BY <1>1 DEF Shaped, AsRead, OwnOk, CommandKinds
<1>3. "write" \in CommandKinds /\ y.op.phase \notin {"done", "due"}
  BY <1>1 DEF CommandKinds
<1> HIDE DEF y, data
<1>4. Result(w, x)
  BY <1>1, <1>2, <1>3, SendResult
<1> DEFINE z == [x EXCEPT !.layers[l].days = image]
<1>5. z.op = x.op /\ z.send = x.send /\ DOMAIN z = WFields /\ DOMAIN z.layers = Layers
  BY <1>4 DEF Result, WOk, WFields
<1> HIDE DEF x
<1>6. Result(w, z)
  BY <1>4, <1>5, CachesResult
<1> QED BY <1>6 DEF z, WriteLayer, x, y, data

LEMMA StateResult ==
  ASSUME NEW w, NEW y, WOk(y), y.send = w.send, y.op.seq = w.op.seq,
         y.op.phase \notin {"done", "due", "read"}, OfFlag(y.op), NEW on
  PROVE  Result(w, SetState(y, on))
<1> DEFINE x == Send(y, "state", 0, [on |-> on, stop |-> TRUE])
           z == [x EXCEPT !.overview.stop = TRUE]
<1>1. Result(w, x)
  BY PlainResult DEF Plainly, OwnOk, OfFlag, Confirmable, Commands
<1> HIDE DEF x
<1>2. z.op = x.op /\ z.send = x.send /\ DOMAIN z = WFields /\ DOMAIN z.layers = Layers
  BY <1>1 DEF Result, WOk, WFields
<1>3. Result(w, z)
  BY <1>1, <1>2, CachesResult
<1> QED BY <1>3 DEF SetState, x

LEMMA EventResult ==
  ASSUME NEW w, WOk(w), w.op.phase # "done", IsEvent(w.op)
  PROVE  Result(w, WriteEvent(w))
<1> DEFINE y == Phase(w, "write")
<1>1. WOk(y) /\ y.send = w.send /\ y.op.seq = w.op.seq /\ y.op.phase = "write"
      /\ IsEvent(y.op) /\ y.op.slot = w.op.slot /\ y.op.cmd = w.op.cmd
  BY PhaseOk DEF IsEvent
<1> HIDE DEF y
<1>2. ASSUME NEW data, w.op.cmd = "clear_vacation" => ~data.ev.on
      PROVE  Result(w, Send(y, "event", w.op.slot, data))
  BY <1>2, <1>1, PlainResult DEF Plainly, OwnOk, IsEvent, Confirmable, Commands
<1>3. w.op.cmd = "clear_vacation" => ~EventOf(w.op).on
  BY DEF EventOf, EmptySlot
<1> QED BY <1>2, <1>3, FinishResult DEF WriteEvent, y

LEMMA ResolveResult ==
  ASSUME NEW w, WOk(w), w.op.phase # "done", IsEvent(w.op)
  PROVE  Result(w, Resolve(w))
<1>1. ASSUME NEW todo, NEW slot, NEW unhandled
      PROVE  Result(w, WriteEvent([w EXCEPT !.op.todo = todo, !.op.slot = slot,
                                            !.op.unhandled = unhandled]))
  <2> DEFINE y == [w EXCEPT !.op.todo = todo, !.op.slot = slot, !.op.unhandled = unhandled]
  <2>1. Alike(w, y)
    BY DEF Alike, WOk, OpOk, WFields, OpFields, IsEntry
  <2>2. WOk(y) /\ y.op.phase # "done" /\ IsEvent(y.op)
    BY <2>1 DEF Alike, IsEvent
  <2> HIDE DEF y
  <2>3. Result(w, WriteEvent(y))
    BY <2>1, <2>2, EventResult, AlikeResult
  <2> QED BY <2>3 DEF y
<1>2. ASSUME NEW slot PROVE Result(w, WriteEvent([w EXCEPT !.op.slot = slot]))
  <2> DEFINE y == [w EXCEPT !.op.slot = slot]
  <2>1. Alike(w, y)
    BY DEF Alike, WOk, OpOk, WFields, OpFields, IsEntry
  <2>2. WOk(y) /\ y.op.phase # "done" /\ IsEvent(y.op)
    BY <2>1 DEF Alike, IsEvent
  <2> HIDE DEF y
  <2>3. Result(w, WriteEvent(y))
    BY <2>1, <2>2, EventResult, AlikeResult
  <2> QED BY <2>3 DEF y
<1>3. Result(w, ResolveVacation(w))
  BY <1>1, FinishResult DEF ResolveVacation
<1>4. Result(w, ResolveFree(w))
  BY <1>2, FinishResult DEF ResolveFree
<1> QED BY <1>3, <1>4 DEF Resolve

LEMMA FlagResult ==
  ASSUME NEW w, WOk(w), w.op.phase # "done", w.op.cmd = "upload"
  PROVE  Result(w, ApplyEnabled(w))
<1> DEFINE y == Phase(w, "flag")
           z == [Phase(w, "due") EXCEPT !.op.at = 0]
<1>0. w.op.cmd \in Confirmable
  BY DEF Confirmable, Commands
<1>1. WOk(y) /\ y.send = w.send /\ y.op.seq = w.op.seq /\ y.op.phase = "flag"
      /\ OfFlag(y.op)
  BY <1>0, PhaseOk DEF OfFlag
<1>2. Result(w, z)
  <2>1. WOk(Phase(w, "due")) /\ Phase(w, "due").send = w.send
        /\ Phase(w, "due").op.seq = w.op.seq /\ Phase(w, "due").op.phase = "due"
    BY <1>0, PhaseOk
  <2> DEFINE u == Phase(w, "due")
  <2> HIDE DEF u
  <2>2. Result(w, [u EXCEPT !.op.at = 0])
    BY <2>1 DEF u, Result, WOk, OpOk, WFields, OpFields, IsEntry
  <2> QED BY <2>2 DEF u
<1> HIDE DEF y, z
<1>3. ASSUME NEW on PROVE Result(w, SetState(y, on))
  BY <1>1, StateResult
<1> QED BY <1>2, <1>3 DEF ApplyEnabled, y, z

LEMMA ReadNextResult ==
  ASSUME NEW w, WOk(w), w.op.phase # "done", w.op.cmd = "upload", w.op.at \in Layers
  PROVE  Result(w, ReadNext(w))
<1> DEFINE y == Phase(w, "read")
<1>1. WOk(y) /\ y.send = w.send /\ y.op.seq = w.op.seq /\ y.op.phase = "read"
      /\ y.op.cmd = "upload" /\ y.op.at = w.op.at
  BY PhaseOk
<1>2. ~IsEntry(y.op)
  BY <1>1 DEF IsEntry
<1> HIDE DEF y
<1>3. Result(w, Send(y, "layer", w.op.at, NoData))
  BY <1>1, <1>2, LayerResult
<1> QED BY <1>3 DEF ReadNext, y

LEMMA UploadNextResult ==
  ASSUME NEW w, WOk(w), w.op.phase # "done", w.op.cmd = "upload", w.op.at \in Layers
  PROVE  Result(w, UploadNext(w))
<1> DEFINE y == [w EXCEPT !.op.at = @ + 1]
<1>1. ASSUME ~LastLayer(w) PROVE Result(w, ReadNext(y))
  <2>1. Alike(w, y) /\ y.op.at \in Layers
    BY <1>1 DEF LastLayer, Alike, WOk, OpOk, WFields, OpFields, IsEntry
  <2>2. WOk(y) /\ y.op.phase # "done" /\ y.op.cmd = "upload"
    BY <2>1 DEF Alike
  <2> HIDE DEF y
  <2> QED BY <2>1, <2>2, ReadNextResult, AlikeResult
<1> QED BY <1>1, FlagResult DEF UploadNext

LEMMA ConfirmUploadResult ==
  ASSUME NEW w, WOk(w), w.op.phase # "done", w.op.cmd = "upload"
  PROVE  Result(w, ConfirmUpload(w))
<1> DEFINE left == {l \in w.op.written : l >= w.op.at}
           l == CHOOSE l \in left : \A k \in left : l <= k
           y == [Phase(w, "confirm") EXCEPT !.op.at = l]
<1>1. ASSUME left # {} PROVE Result(w, Send(y, "layer", l, NoData))
  <2>1. left \subseteq Layers /\ left \in SUBSET Nat
    BY Constants DEF WOk, OpOk
  <2>2. l \in Layers
    BY <1>1, <2>1, Least
  <2>3. WOk(Phase(w, "confirm")) /\ Phase(w, "confirm").send = w.send
        /\ Phase(w, "confirm").op.seq = w.op.seq /\ Phase(w, "confirm").op.phase = "confirm"
        /\ Phase(w, "confirm").op.cmd = "upload"
    BY PhaseOk
  <2> DEFINE u == Phase(w, "confirm")
  <2> HIDE DEF u, l
  <2> DEFINE z == [u EXCEPT !.op.at = l]
  <2>4. WOk(z) /\ z.send = w.send /\ z.op.seq = w.op.seq /\ z.op.phase = "confirm"
        /\ z.op.cmd = "upload" /\ z.op.at = l
    BY <2>3 DEF u, WOk, OpOk, WFields, OpFields, IsEntry
  <2>5. ~IsEntry(z.op)
    BY <2>4 DEF IsEntry
  <2> HIDE DEF z
  <2>6. Result(w, Send(z, "layer", l, NoData))
    BY <2>2, <2>4, <2>5, LayerResult
  <2> QED BY <2>6 DEF z, u
<1>2. Result(w, FinishUpload(w))
  BY FinishResult DEF FinishUpload
<1> HIDE DEF left, l
<1> QED BY <1>1, <1>2 DEF ConfirmUpload, left, l

\* The first step of an operation that passed its checks.
LEMMA BeginResult ==
  ASSUME NEW w, WOk(w), w.op.phase # "done", w.op.cmd = "upload" => w.op.at \in Layers
  PROVE  /\ w.op.cmd # "refresh" => Result(w, AfterOverview(w))
         /\ w.op.cmd = "refresh" => Result(w, ReadGrid(w))
<1> DEFINE y == Phase(w, "read")
           u == Phase(w, "write")
           z == Phase(w, "slots")
<1>1. WOk(y) /\ y.send = w.send /\ y.op.seq = w.op.seq /\ y.op.phase = "read"
      /\ y.op.cmd = w.op.cmd /\ y.op.req = w.op.req
  BY PhaseOk
<1>2. WOk(u) /\ u.send = w.send /\ u.op.seq = w.op.seq /\ u.op.phase = "write"
      /\ u.op.cmd = w.op.cmd
  BY PhaseOk
<1>3. WOk(z) /\ z.send = w.send /\ z.op.seq = w.op.seq /\ z.op.phase = "slots"
      /\ z.op.cmd = w.op.cmd
  BY PhaseOk
<1> HIDE DEF y, u, z
<1>4. ASSUME IsEntry(w.op) PROVE Result(w, Send(y, "layer", w.op.req.layer, NoData))
  <2>1. w.op.req.layer \in Layers /\ IsEntry(y.op) /\ y.op.req = w.op.req
    BY <1>1, <1>4 DEF WOk, OpOk, IsEntry
  <2>2. y.op.cmd # "upload"
    BY <2>1 DEF IsEntry
  <2> QED BY <1>1, <2>1, <2>2, LayerResult
<1>5. ASSUME NEW on, w.op.cmd = "set_enabled" PROVE Result(w, SetState(u, on))
  BY <1>2, <1>5, StateResult DEF OfFlag
<1>6. ASSUME IsEvent(w.op) PROVE Result(w, WriteEvent(w)) /\ Result(w, Resolve(w))
  BY <1>6, EventResult, ResolveResult
<1>7. ASSUME w.op.cmd = "upload" PROVE Result(w, ReadNext(w))
  BY <1>7, ReadNextResult DEF WOk
<1>8. ASSUME ~IsEntry(w.op), w.op.cmd \notin {"set_enabled", "upload", "refresh"}
      PROVE  Result(w, ReadSlots(z))
  <2>1. IsEvent(z.op) \/ z.op.cmd = "refresh_events"
    BY <1>3, <1>8, ProgramAssumption DEF WOk, OpOk, IsEvent, IsEntry, Commands
  <2> QED BY <1>3, <2>1, PlainResult DEF ReadSlots, Plainly, OwnOk
<1>9. ASSUME NEW data, w.op.cmd = "refresh" PROVE Result(w, Send(y, "layers", 0, data))
  BY <1>1, <1>9, Constants, PlainResult DEF Plainly, OwnOk
<1> QED BY <1>4, <1>5, <1>6, <1>7, <1>8, <1>9 DEF AfterOverview, ReadGrid, y, u, z

\* The settle delay of an operation is over.
LEMMA ConfirmResult ==
  ASSUME NEW w, WOk(w), w.op.phase # "done",
         w.op.cmd \in Confirmable
  PROVE  Result(w, Confirm(w))
<1> DEFINE y == Phase(w, "confirm")
<1>1. WOk(y) /\ y.send = w.send /\ y.op.seq = w.op.seq /\ y.op.phase = "confirm"
      /\ y.op.cmd = w.op.cmd /\ y.op.req = w.op.req /\ y.op.slot = w.op.slot
  BY PhaseOk
<1> HIDE DEF y
<1>2. ASSUME IsEntry(w.op) PROVE Result(w, Send(y, "layer", w.op.req.layer, NoData))
  <2>1. w.op.req.layer \in Layers /\ IsEntry(y.op)
    BY <1>1, <1>2 DEF WOk, OpOk, IsEntry
  <2>2. y.op.cmd # "upload"
    BY <2>1 DEF IsEntry
  <2> QED BY <1>1, <2>1, <2>2, LayerResult
<1>3. ASSUME w.op.cmd = "set_enabled" PROVE Result(w, Send(y, "poll", 0, NoData))
  BY <1>1, <1>3, PlainResult DEF Plainly, OwnOk, OfFlag
<1>4. ASSUME IsEvent(w.op) PROVE Result(w, Send(y, "slot", w.op.slot, NoData))
  <2>1. IsEvent(y.op)
    BY <1>1, <1>4 DEF IsEvent
  <2> QED BY <1>1, <2>1, PlainResult DEF Plainly, OwnOk
<1>5. ASSUME w.op.cmd = "upload" PROVE Result(w, ConfirmUpload(w))
  BY <1>5, ConfirmUploadResult
<1> QED BY <1>2, <1>3, <1>4, <1>5 DEF Confirm, IsEntry, IsEvent, Confirmable, Commands, y

LEMMA PollResult ==
  ASSUME NEW w, WOk(w), w.op.cmd \in Confirmable, w.op.phase # "done", NEW ok
  PROVE  Result(w, OnPoll(w, ok))
<1>1. ASSUME NEW flag
      PROVE  Result(w, [Phase(w, "due") EXCEPT !.op.at = 0, !.op.flag = flag])
  <2> DEFINE u == Phase(w, "due")
  <2>1. WOk(u) /\ u.send = w.send /\ u.op.seq = w.op.seq /\ u.op.phase = "due"
    BY PhaseOk
  <2> HIDE DEF u
  <2>2. Result(w, [u EXCEPT !.op.at = 0, !.op.flag = flag])
    BY <2>1 DEF Result, WOk, OpOk, WFields, OpFields, IsEntry
  <2> QED BY <2>2 DEF u
<1> QED BY <1>1, FinishResult, RetryResult DEF OnPoll

\* The pause before the read-back.
LEMMA DueResult ==
  ASSUME NEW w, WOk(w), w.op.cmd \in Confirmable, w.op.phase # "done"
  PROVE  Result(w, Phase(w, "due"))
<1> DEFINE u == Phase(w, "due")
<1>1. WOk(u) /\ u.send = w.send /\ u.op.seq = w.op.seq /\ u.op.phase = "due"
  BY PhaseOk
<1> HIDE DEF u
<1>2. Result(w, u)
  BY <1>1 DEF Result
<1> QED BY <1>2 DEF u

LEMMA StateDoneResult ==
  ASSUME NEW w, WOk(w), w.op.cmd \in Confirmable, w.op.phase \notin {"done", "due", "read"},
         OfFlag(w.op)
  PROVE  Result(w, OnState(w))
<1>1. Result(w, Send(w, "poll", 0, NoData))
  BY PlainResult DEF Plainly, OwnOk
<1> QED BY <1>1, DueResult DEF OnState

LEMMA WrittenResult ==
  ASSUME NEW w, WOk(w), w.op.cmd \in Confirmable, w.op.phase = "write"
  PROVE  Result(w, OnWritten(w))
<1> DEFINE y == [w EXCEPT !.op.written = @ \cup {w.op.at}]
<1>1. ASSUME w.op.cmd = "upload" PROVE Result(w, UploadNext(y))
  <2>1. w.op.at \in Layers
    BY <1>1 DEF WOk, OpOk
  <2>2. Alike(w, y) /\ y.op.at \in Layers
    BY <2>1 DEF Alike, WOk, OpOk, WFields, OpFields, IsEntry
  <2>3. WOk(y) /\ y.op.phase # "done" /\ y.op.cmd = "upload"
    BY <1>1, <2>2 DEF Alike
  <2> HIDE DEF y
  <2> QED BY <2>2, <2>3, UploadNextResult, AlikeResult
<1> QED BY <1>1, DueResult DEF OnWritten

LEMMA SlotsResult ==
  ASSUME NEW w, WOk(w), w.op.phase # "done", IsEvent(w.op) \/ w.op.cmd = "refresh_events", NEW ok
  PROVE  Result(w, OnSlots(w, ok))
  BY FinishResult, ResolveResult DEF OnSlots

LEMMA SlotResult ==
  ASSUME NEW w, WOk(w), w.op.phase # "done", IsEvent(w.op), NEW ok, NEW ev
  PROVE  Result(w, OnSlot(w, ok, ev))
<1> DEFINE o == w.op
           y == [w EXCEPT !.op.cursor = @ + 1, !.op.tries = 0,
                          !.op.slot = o.todo[o.cursor + 1]]
<1>1. Alike(w, y)
  BY DEF Alike, WOk, OpOk, WFields, OpFields, IsEntry
<1>2. WOk(y) /\ y.op.phase # "done" /\ IsEvent(y.op)
  BY <1>1 DEF Alike, IsEvent
<1> HIDE DEF y
<1>3. Result(w, WriteEvent(y))
  BY <1>1, <1>2, EventResult, AlikeResult
<1>4. w.op.cmd \in Confirmable
  BY DEF IsEvent, Confirmable, Commands
<1> QED BY <1>3, <1>4, FinishResult, RetryResult DEF OnSlot, y

\* The read of a layer ends: an entry is patched into what was read, and an
\* upload writes the layer it was asked for.
LEMMA LayerDoneResult ==
  ASSUME NEW w, WOk(w), w.op.phase \in {"read", "confirm"}, NEW ok \in BOOLEAN, NEW at \in Layers,
         IsEntry(w.op) \/ w.op.cmd = "upload", IsEntry(w.op) => at = w.op.req.layer,
         ok => w.layers[at].days \in [Days -> Cell]
  PROVE  Result(w, OnLayer(w, ok))
<1> DEFINE r == w.op.req
<1>0. r \in Requests /\ w.op.cmd = r.cmd /\ w.op.cmd \in Confirmable
  BY DEF WOk, OpOk, IsEntry, Confirmable, Commands
<1>1. ASSUME IsEntry(w.op), w.op.phase = "read" PROVE Result(w, EntryRead(w, ok))
  <2>1. r.layer = at /\ r.day \in Days
    BY <1>1 DEF WOk, OpOk
  <2>2. ASSUME ok PROVE Result(w, WriteLayer(w, at, Patched(w.layers[at].days, r), r.day))
    <3> DEFINE days == w.layers[at].days
               cell == IF r.cmd = "set_entry" THEN [on |-> TRUE, at |-> r.at] ELSE Off
    <3>1. cell \in Cell
      BY <1>0, ProgramAssumption, Constants DEF Cell, Off
    <3>2. Patched(days, r) = [days EXCEPT ![r.day] = cell]
      BY DEF Patched
    <3> HIDE DEF cell
    <3>3. /\ [days EXCEPT ![r.day] = cell] \in [Days -> Cell]
          /\ \A k \in Days \ {r.day} : [days EXCEPT ![r.day] = cell][k] = days[k]
      BY <2>1, <2>2, <3>1
    <3> DEFINE image == Patched(days, r)
    <3>4. image \in [Days -> Cell] /\ \A k \in Days \ {r.day} : image[k] = days[k]
      BY <3>2, <3>3
    <3>5. w.op.cmd # "upload"
      BY <1>1 DEF IsEntry
    <3> HIDE DEF image
    <3>6. Result(w, WriteLayer(w, at, image, r.day))
      BY <1>0, <1>1, <2>1, <3>4, <3>5, WriteLayerResult
    <3> QED BY <3>6 DEF image
  <2> QED BY <2>1, <2>2, FinishResult DEF EntryRead
<1>2. Result(w, EntryConfirmed(w, ok))
  BY <1>0, FinishResult, RetryResult DEF EntryConfirmed
<1>3. ASSUME w.op.cmd = "upload", w.op.phase = "read" PROVE Result(w, UploadRead(w, ok))
  <2>1. w.op.at \in Layers
    BY <1>3 DEF WOk, OpOk
  <2>2. r.grid[w.op.at] \in [Days -> Cell]
    BY <1>0, <1>3, <2>1, ProgramAssumption DEF Grids, Image, Programs
  <2> DEFINE f == [w EXCEPT !.op.failed = @ \cup {w.op.at}]
             s == [w EXCEPT !.op.skipped = @ \cup {w.op.at}]
  <2>3. Alike(w, f) /\ Alike(w, s) /\ f.op.at \in Layers /\ s.op.at \in Layers
    BY <2>1 DEF Alike, WOk, OpOk, WFields, OpFields, IsEntry
  <2>4. WOk(f) /\ f.op.phase # "done" /\ f.op.cmd = "upload"
        /\ WOk(s) /\ s.op.phase # "done" /\ s.op.cmd = "upload"
    BY <1>3, <2>3 DEF Alike
  <2> HIDE DEF f, s
  <2>5. Result(w, UploadNext(f)) /\ Result(w, UploadNext(s))
    BY <2>3, <2>4, UploadNextResult, AlikeResult
  <2>6. Result(w, WriteLayer(w, w.op.at, r.grid[w.op.at], AllDays))
    BY <1>0, <1>3, <2>1, <2>2, WriteLayerResult
  <2> QED BY <2>5, <2>6 DEF UploadRead, f, s
<1>4. ASSUME w.op.cmd = "upload", w.op.phase = "confirm" PROVE Result(w, UploadConfirmed(w, ok))
  <2> DEFINE l == w.op.at
             m == [w EXCEPT !.op.written = @ \ {l}, !.op.failed = @ \cup {l}]
  <2>1. Alike(w, m)
    BY DEF Alike, WOk, OpOk, WFields, OpFields, IsEntry
  <2>2. ASSUME NEW x, Alike(w, x)
        PROVE  Result(w, ConfirmUpload([x EXCEPT !.op.at = l + 1]))
    <3> DEFINE y == [x EXCEPT !.op.at = l + 1]
    <3>1. Alike(w, y)
      BY <1>4, <2>2 DEF Alike, WOk, OpOk, WFields, OpFields, IsEntry
    <3>2. WOk(y) /\ y.op.phase # "done" /\ y.op.cmd = "upload"
      BY <1>4, <3>1 DEF Alike
    <3> HIDE DEF y
    <3>3. Result(w, ConfirmUpload(y))
      BY <3>1, <3>2, ConfirmUploadResult, AlikeResult
    <3> QED BY <3>3 DEF y
  <2>3. Alike(w, w)
    BY DEF Alike
  <2> QED BY <2>1, <2>2, <2>3 DEF UploadConfirmed
<1> QED BY <1>1, <1>2, <1>3, <1>4 DEF OnLayer
-----------------------------------------------------------------------------
(* The invariant.                                                          *)

\* The commands a later write of the same layer could rest on.
Chained == {"layer", "write"}

\* A queued write of one day changes no other day of the pump's p, but those
\* of ed.
Spares(c, p, ed) ==
  c.kind = "write" /\ c.data.day # AllDays =>
    \A k \in Days \ {c.data.day} :
      \/ <<c.at, k>> \in ed
      \/ Stored(p.grid[c.at][k], c.data.days[k]) = p.grid[c.at][k]

\* What is queued, oldest first, for the operations up to o. No read or write
\* of a layer is ahead of a write, none is behind what o waits for, and o waits
\* for one command at most.
QueueOk(q, o, p, ed) ==
  /\ \A i \in 1..Len(q) : q[i].seq \in 0..o.seq /\ Shaped(q[i]) /\ Spares(q[i], p, ed)
  /\ \A i, j \in 1..Len(q) : i < j /\ q[j].kind = "write" => q[i].kind \notin Chained
  /\ o.phase # "done" =>
       \A i \in 1..Len(q) : q[i].seq = o.seq =>
         /\ o.phase # "due" /\ OwnOk(o, q[i])
         /\ \A j \in 1..Len(q) : /\ q[j].seq = o.seq => j = i
                                 /\ i < j => q[j].kind \notin Chained

PumpOk == DOMAIN pump = {"on", "stop", "grid", "events"} /\ pump.grid \in Grids
LateOk == \E S : late \in Seq(S) /\ \A r \in S : r.type = "layer" => r.value \in [Days -> Cell]

IInv ==
  /\ OpOk(op) /\ DOMAIN layers = Layers /\ PumpOk /\ LateOk
  /\ \E S : queue \in Seq(S)
  /\ QueueOk(queue, op, pump, edited)
-----------------------------------------------------------------------------
(* What becomes of the queue.                                              *)

\* Own commands.
NoOwn(q, o) == \A i \in 1..Len(q) : q[i].seq # o.seq
NoChained(q) == \A i \in 1..Len(q) : q[i].kind \notin Chained

\* A command of no operation in flight goes to the end.
LEMMA AppendForeign ==
  ASSUME NEW S, NEW q \in Seq(S), NEW e, NEW o, NEW p, NEW ed, QueueOk(q, o, p, ed),
         o.seq \in Nat, e.seq \in 0..o.seq, Shaped(e), e.kind \notin Chained,
         o.phase # "done" => e.seq # o.seq
  PROVE  QueueOk(Append(q, e), o, p, ed)
<1>1. /\ Len(Append(q, e)) = Len(q) + 1 /\ Len(q) \in Nat
      /\ \A i \in 1..Len(q) : Append(q, e)[i] = q[i]
      /\ Append(q, e)[Len(q) + 1] = e
      /\ \A i \in 1..(Len(q) + 1) : i \in 1..Len(q) \/ i = Len(q) + 1
  OBVIOUS
<1>2. Spares(e, p, ed)
  BY DEF Spares, Chained
<1> DEFINE r == Append(q, e)
<1> HIDE DEF r
<1>3. \A i \in 1..Len(r) : r[i].seq \in 0..o.seq /\ Shaped(r[i]) /\ Spares(r[i], p, ed)
  BY <1>1, <1>2 DEF QueueOk, r
<1>4. \A i, j \in 1..Len(r) : i < j /\ r[j].kind = "write" => r[i].kind \notin Chained
  BY <1>1 DEF QueueOk, r, Chained
<1>5. o.phase # "done" =>
        \A i \in 1..Len(r) : r[i].seq = o.seq =>
          /\ o.phase # "due" /\ OwnOk(o, r[i])
          /\ \A j \in 1..Len(r) : /\ r[j].seq = o.seq => j = i
                                  /\ i < j => r[j].kind \notin Chained
  BY <1>1 DEF QueueOk, r
<1>6. QueueOk(r, o, p, ed)
  BY <1>3, <1>4, <1>5 DEF QueueOk
<1> QED BY <1>6 DEF r

\* The one command an operation waits for goes to the end.
LEMMA AppendOwn ==
  ASSUME NEW S, NEW q \in Seq(S), NEW e, NEW o, NEW x, NEW p, NEW ed, QueueOk(q, o, p, ed),
         o.seq \in Nat, x.seq = o.seq, e.seq = o.seq, Shaped(e), Spares(e, p, ed),
         x.phase \notin {"done", "due"}, OwnOk(x, e),
         NoOwn(q, o), e.kind = "write" => NoChained(q)
  PROVE  QueueOk(Append(q, e), x, p, ed)
<1>1. /\ Len(Append(q, e)) = Len(q) + 1 /\ Len(q) \in Nat
      /\ \A i \in 1..Len(q) : Append(q, e)[i] = q[i]
      /\ Append(q, e)[Len(q) + 1] = e
      /\ \A i \in 1..(Len(q) + 1) : i \in 1..Len(q) \/ i = Len(q) + 1
  OBVIOUS
<1> DEFINE r == Append(q, e)
<1> HIDE DEF r
<1>3. \A i \in 1..Len(r) : r[i].seq \in 0..x.seq /\ Shaped(r[i]) /\ Spares(r[i], p, ed)
  BY <1>1 DEF QueueOk, r
<1>4. \A i, j \in 1..Len(r) : i < j /\ r[j].kind = "write" => r[i].kind \notin Chained
  BY <1>1 DEF QueueOk, r, NoChained
<1>5. \A i \in 1..Len(r) : r[i].seq = x.seq =>
        /\ x.phase # "due" /\ OwnOk(x, r[i])
        /\ \A j \in 1..Len(r) : /\ r[j].seq = x.seq => j = i
                                /\ i < j => r[j].kind \notin Chained
  BY <1>1 DEF NoOwn, r
<1>6. QueueOk(r, x, p, ed)
  BY <1>3, <1>4, <1>5 DEF QueueOk
<1> QED BY <1>6 DEF r

\* An operation waits for nothing: it is over, pauses, or has just begun.
LEMMA Unwaited ==
  ASSUME NEW q, NEW o, NEW x, NEW p, NEW ed, QueueOk(q, o, p, ed),
         o.seq \in Nat, x.seq \in Nat, o.seq <= x.seq, x.phase = "done" \/ NoOwn(q, x)
  PROVE  QueueOk(q, x, p, ed)
<1>1. \A i \in 1..Len(q) : q[i].seq \in 0..x.seq /\ Shaped(q[i]) /\ Spares(q[i], p, ed)
  BY DEF QueueOk
<1>2. \A i, j \in 1..Len(q) : i < j /\ q[j].kind = "write" => q[i].kind \notin Chained
  BY DEF QueueOk
<1> QED BY <1>1, <1>2 DEF QueueOk, NoOwn

\* The oldest command leaves.
LEMMA TailOk ==
  ASSUME NEW S, NEW q \in Seq(S), q # <<>>, NEW o, NEW p, NEW ed, QueueOk(q, o, p, ed)
  PROVE  /\ QueueOk(Tail(q), o, p, ed) /\ Tail(q) \in Seq(S)
         /\ Shaped(Head(q)) /\ Spares(Head(q), p, ed) /\ Head(q).seq \in 0..o.seq
         /\ o.phase # "done" /\ Head(q).seq = o.seq =>
              o.phase # "due" /\ OwnOk(o, Head(q)) /\ NoOwn(Tail(q), o) /\ NoChained(Tail(q))
         /\ Head(q).kind \in Chained =>
              \A i \in 1..Len(Tail(q)) : Tail(q)[i].kind # "write"
<1> DEFINE t == Tail(q)
<1>1. /\ Len(t) = Len(q) - 1 /\ Len(q) \in Nat /\ Len(q) > 0
      /\ \A i \in 1..Len(t) : t[i] = q[i + 1] /\ i + 1 \in 1..Len(q)
      /\ Head(q) = q[1] /\ 1 \in 1..Len(q) /\ t \in Seq(S)
  OBVIOUS
<1> HIDE DEF t
<1>2. \A i \in 1..Len(t) : t[i].seq \in 0..o.seq /\ Shaped(t[i]) /\ Spares(t[i], p, ed)
  <2>1. \A i \in 1..Len(q) : q[i].seq \in 0..o.seq /\ Shaped(q[i]) /\ Spares(q[i], p, ed)
    BY DEF QueueOk
  <2> QED BY <1>1, <2>1
<1>3. \A i, j \in 1..Len(t) : i < j /\ t[j].kind = "write" => t[i].kind \notin Chained
  <2>1. \A i, j \in 1..Len(q) : i < j /\ q[j].kind = "write" => q[i].kind \notin Chained
    BY DEF QueueOk
  <2>2. SUFFICES ASSUME NEW i \in 1..Len(t), NEW j \in 1..Len(t), i < j, t[j].kind = "write"
                 PROVE  t[i].kind \notin Chained
    OBVIOUS
  <2>3. i + 1 < j + 1 /\ i + 1 \in 1..Len(q) /\ j + 1 \in 1..Len(q)
        /\ t[i] = q[i + 1] /\ t[j] = q[j + 1]
    BY <1>1, <2>2
  <2> QED BY <2>1, <2>2, <2>3
<1>4. o.phase # "done" =>
        \A i \in 1..Len(t) : t[i].seq = o.seq =>
          /\ o.phase # "due" /\ OwnOk(o, t[i])
          /\ \A j \in 1..Len(t) : /\ t[j].seq = o.seq => j = i
                                  /\ i < j => t[j].kind \notin Chained
  <2>1. SUFFICES ASSUME o.phase # "done", NEW i \in 1..Len(t), t[i].seq = o.seq
                 PROVE  /\ o.phase # "due" /\ OwnOk(o, t[i])
                        /\ \A j \in 1..Len(t) : /\ t[j].seq = o.seq => j = i
                                                /\ i < j => t[j].kind \notin Chained
    OBVIOUS
  <2>2. i \in Nat /\ t[i] = q[i + 1] /\ i + 1 \in 1..Len(q)
    BY <1>1
  <2>3. /\ o.phase # "due" /\ OwnOk(o, q[i + 1])
        /\ \A j \in 1..Len(q) : /\ q[j].seq = o.seq => j = i + 1
                                /\ i + 1 < j => q[j].kind \notin Chained
    BY <2>1, <2>2 DEF QueueOk
  <2>4. ASSUME NEW j \in 1..Len(t)
        PROVE  /\ t[j].seq = o.seq => j = i
               /\ i < j => t[j].kind \notin Chained
    <3>1. j \in Nat /\ t[j] = q[j + 1] /\ j + 1 \in 1..Len(q)
      BY <1>1
    <3>2. (i < j => i + 1 < j + 1) /\ (j + 1 = i + 1 => j = i)
      BY <2>2, <3>1
    <3> QED BY <2>3, <3>1, <3>2
  <2> QED BY <2>2, <2>3, <2>4
<1>5. QueueOk(t, o, p, ed)
  BY <1>2, <1>3, <1>4 DEF QueueOk
<1>6. o.phase # "done" /\ Head(q).seq = o.seq =>
        o.phase # "due" /\ OwnOk(o, Head(q)) /\ NoOwn(t, o) /\ NoChained(t)
  <2>1. SUFFICES ASSUME o.phase # "done", q[1].seq = o.seq
                 PROVE  o.phase # "due" /\ OwnOk(o, q[1]) /\ NoOwn(t, o) /\ NoChained(t)
    BY <1>1
  <2>2. /\ o.phase # "due" /\ OwnOk(o, q[1])
        /\ \A j \in 1..Len(q) : /\ q[j].seq = o.seq => j = 1
                                /\ 1 < j => q[j].kind \notin Chained
    BY <1>1, <2>1 DEF QueueOk
  <2>3. ASSUME NEW i \in 1..Len(t) PROVE t[i].seq # o.seq /\ t[i].kind \notin Chained
    <3>1. t[i] = q[i + 1] /\ i + 1 \in 1..Len(q) /\ 1 < i + 1 /\ i + 1 # 1
      BY <1>1
    <3> QED BY <2>2, <3>1
  <2> QED BY <2>2, <2>3 DEF NoOwn, NoChained
<1>7. Head(q).kind \in Chained => \A i \in 1..Len(t) : t[i].kind # "write"
  <2>1. SUFFICES ASSUME NEW i \in 1..Len(t), q[i + 1].kind = "write"
                 PROVE  q[1].kind \notin Chained
    BY <1>1
  <2>2. 1 < i + 1 /\ i + 1 \in 1..Len(q) /\ 1 \in 1..Len(q)
    BY <1>1
  <2> QED BY <2>1, <2>2 DEF QueueOk
<1>8. Shaped(Head(q)) /\ Spares(Head(q), p, ed) /\ Head(q).seq \in 0..o.seq
  BY <1>1 DEF QueueOk
<1> QED BY <1>1, <1>5, <1>6, <1>7, <1>8 DEF t

\* The pump or the memory of what was edited changes.
LEMMA Weakened ==
  ASSUME NEW q, NEW o, NEW p, NEW ed, QueueOk(q, o, p, ed), NEW p1, NEW ed1,
         \A i \in 1..Len(q) : Spares(q[i], p1, ed1)
  PROVE  QueueOk(q, o, p1, ed1)
  BY DEF QueueOk

\* A step of an operation in flight, once the command it waited for is gone.
LEMMA StepOk ==
  ASSUME NEW S, NEW q \in Seq(S), NEW w, w.send \in {<<>>} \cup {<<e>> : e \in S},
         WOk(w), w.op.phase # "done", NEW p, NEW ed, QueueOk(q \o w.send, w.op, p, ed),
         NoOwn(q \o w.send, w.op), NEW x, Result(w, x),
         x.op.phase \notin {"done", "due"} =>
           \A e : AsRead(w, e) /\ Shaped(e) /\ e.kind = "write" =>
                    Spares(e, p, ed) /\ NoChained(q \o w.send)
  PROVE  /\ \E R : q \o x.send \in Seq(R)
         /\ QueueOk(q \o x.send, x.op, p, ed)
<1> DEFINE r == q \o w.send
<1>1. r \in Seq(S) /\ w.send \in Seq(S)
  <2>1. CASE w.send = <<>>
    BY <2>1
  <2>2. ASSUME NEW e \in S, w.send = <<e>> PROVE w.send \in Seq(S)
    BY <2>2
  <2>3. w.send \in Seq(S)
    BY <2>1, <2>2
  <2> QED BY <2>3
<1>2. w.op.seq \in Nat /\ x.op.seq = w.op.seq
  BY DEF WOk, OpOk, Result
<1>3. CASE x.op.phase \in {"done", "due"} /\ x.send = w.send
  <2>1. x.op.phase = "done" \/ NoOwn(r, x.op)
    BY <1>2 DEF NoOwn
  <2> HIDE DEF r
  <2>2. QueueOk(r, x.op, p, ed)
    BY <1>2, <2>1, Unwaited DEF r
  <2> QED BY <1>1, <1>3, <2>2 DEF r
<1>4. ASSUME NEW e, x.op.phase \notin {"done", "due"}, x.send = Append(w.send, e),
             e.seq = w.op.seq, Shaped(e), OwnOk(x.op, e), AsRead(w, e)
      PROVE  /\ \E R : q \o x.send \in Seq(R)
             /\ QueueOk(q \o x.send, x.op, p, ed)
  <2>1. q \o Append(w.send, e) = Append(r, e)
    <3> DEFINE T == S \cup {e}
    <3>1. q \in Seq(T) /\ w.send \in Seq(T) /\ e \in T
      BY <1>1
    <3> HIDE DEF T
    <3> QED BY <3>1
  <2>2. e.kind # "write" => Spares(e, p, ed)
    BY DEF Spares
  <2>3. Spares(e, p, ed) /\ (e.kind = "write" => NoChained(r))
    BY <1>4, <2>2
  <2> HIDE DEF r
  <2>4. QueueOk(Append(r, e), x.op, p, ed)
    BY <1>1, <1>2, <1>4, <2>3, AppendOwn DEF r
  <2>5. Append(r, e) \in Seq(S \cup {e})
    <3>1. r \in Seq(S \cup {e})
      BY <1>1
    <3> QED BY <3>1
  <2> QED BY <1>4, <2>1, <2>4, <2>5
<1> HIDE DEF r
<1> QED BY <1>3, <1>4 DEF Result

\* A commit goes out, or nothing does.
LEMMA CommitOk ==
  ASSUME NEW w, WOk(w), w.send = <<>>
  PROVE  LET x == Commit(w) IN
         /\ WOk(x) /\ x.op = w.op /\ x.layers = w.layers
         /\ x.send = <<>> \/ \E f : x.send = <<f>> /\ Shaped(f) /\ f.seq = 0 /\ f.kind = "commit"
<1> DEFINE f == [kind |-> "commit", seq |-> 0, at |-> 0,
                 data |-> [on |-> w.overview.on, stop |-> TRUE]]
           x == [w EXCEPT !.overview.stop = TRUE, !.send = Append(@, f)]
<1>1. Shaped(f) /\ f.seq = 0 /\ f.kind = "commit"
  BY DEF Shaped, CommandKinds
<1> HIDE DEF f
<1>2. x.send = <<f>> /\ x.op = w.op /\ x.layers = w.layers /\ DOMAIN x = WFields
  <2>1. Append(<<>>, f) = <<f>>
    OBVIOUS
  <2>2. x.send = Append(w.send, f) /\ x.op = w.op /\ x.layers = w.layers /\ DOMAIN x = WFields
    BY DEF WOk, WFields
  <2> HIDE DEF x
  <2> QED BY <2>1, <2>2
<1>3. WOk(x)
  BY <1>2 DEF WOk
<1> HIDE DEF x
<1> QED BY <1>1, <1>2, <1>3 DEF Commit, x, f

\* What holds of a step's outcome x, with q queued before it.
Goal(q, x, p, ed) ==
  /\ OpOk(x.op) /\ DOMAIN x.layers = Layers
  /\ \E S : q \o x.send \in Seq(S)
  /\ QueueOk(q \o x.send, x.op, p, ed)

\* Command f, of no operation in flight, is all that is sent.
LEMMA ForeignSent ==
  ASSUME NEW S, NEW q \in Seq(S), NEW w, WOk(w), NEW p, NEW ed, QueueOk(q, w.op, p, ed),
         \/ w.send = <<>>
         \/ \E f : /\ w.send = <<f>> /\ Shaped(f) /\ f.seq \in 0..w.op.seq /\ f.kind \notin Chained
                   /\ w.op.phase # "done" => f.seq # w.op.seq
  PROVE  /\ Goal(q, w, p, ed)
         /\ NoOwn(q, w.op) => NoOwn(q \o w.send, w.op) \/ w.op.phase = "done"
         /\ NoChained(q) => NoChained(q \o w.send)
<1>0. OpOk(w.op) /\ DOMAIN w.layers = Layers /\ w.op.seq \in Nat
  BY DEF WOk, OpOk
<1>1. CASE w.send = <<>>
  <2>1. q \o w.send = q
    BY <1>1
  <2> QED BY <1>0, <2>1 DEF Goal
<1>2. ASSUME NEW f, w.send = <<f>>, Shaped(f), f.seq \in 0..w.op.seq, f.kind \notin Chained,
             w.op.phase # "done" => f.seq # w.op.seq
      PROVE  /\ Goal(q, w, p, ed)
             /\ NoOwn(q, w.op) => NoOwn(q \o w.send, w.op) \/ w.op.phase = "done"
             /\ NoChained(q) => NoChained(q \o w.send)
  <2> DEFINE T == S \cup {f}
  <2>1. q \in Seq(T) /\ f \in T
    OBVIOUS
  <2> HIDE DEF T
  <2>2. q \o <<f>> = Append(q, f) /\ Append(q, f) \in Seq(T)
    BY <2>1
  <2>3. QueueOk(Append(q, f), w.op, p, ed)
    BY <1>0, <1>2, AppendForeign
  <2>4. /\ Len(Append(q, f)) = Len(q) + 1 /\ Len(q) \in Nat
        /\ \A i \in 1..Len(q) : Append(q, f)[i] = q[i]
        /\ Append(q, f)[Len(q) + 1] = f
        /\ \A i \in 1..(Len(q) + 1) : i \in 1..Len(q) \/ i = Len(q) + 1
    BY <2>1
  <2>5. NoChained(q) => NoChained(Append(q, f))
    BY <1>2, <2>4 DEF NoChained
  <2>6. NoOwn(q, w.op) => NoOwn(Append(q, f), w.op) \/ w.op.phase = "done"
    BY <1>2, <2>4 DEF NoOwn
  <2> QED BY <1>0, <1>2, <2>2, <2>3, <2>5, <2>6 DEF Goal
<1> QED BY <1>1, <1>2

\* The operation in flight goes on, once the command it waited for is gone
\* and perhaps a commit sent.
LEMMA InFlightSent ==
  ASSUME NEW S, NEW q \in Seq(S), NEW w, WOk(w), w.op.phase # "done", NEW p, NEW ed,
         QueueOk(q, w.op, p, ed), NoOwn(q, w.op), NoChained(q),
         w.send = <<>> \/ \E f : w.send = <<f>> /\ Shaped(f) /\ f.seq = 0 /\ f.kind = "commit",
         NEW x, Result(w, x),
         x.op.phase \notin {"done", "due"} =>
           \A e : AsRead(w, e) /\ Shaped(e) /\ e.kind = "write" => Spares(e, p, ed)
  PROVE  Goal(q, x, p, ed)
<1>1. w.op.seq > 0 /\ w.op.seq \in Nat
  BY DEF WOk, OpOk
<1>2. \/ w.send = <<>>
      \/ \E f : /\ w.send = <<f>> /\ Shaped(f) /\ f.seq \in 0..w.op.seq /\ f.kind \notin Chained
                /\ w.op.phase # "done" => f.seq # w.op.seq
  BY <1>1 DEF Chained
<1>3. QueueOk(q \o w.send, w.op, p, ed) /\ NoOwn(q \o w.send, w.op) /\ NoChained(q \o w.send)
  BY <1>2, ForeignSent DEF Goal
<1>4. PICK T : q \in Seq(T) /\ w.send \in {<<>>} \cup {<<e>> : e \in T}
  <2>1. CASE w.send = <<>>
    BY <2>1
  <2>2. ASSUME NEW f, w.send = <<f>>
        PROVE  q \in Seq(S \cup {f}) /\ w.send \in {<<>>} \cup {<<e>> : e \in S \cup {f}}
    BY <2>2
  <2> QED BY <2>1, <2>2
<1>5. (\E R : q \o x.send \in Seq(R)) /\ QueueOk(q \o x.send, x.op, p, ed)
  BY <1>3, <1>4, StepOk
<1>6. WOk(x)
  BY DEF Result
<1> QED BY <1>5, <1>6 DEF Goal, WOk

\* The callback of the oldest command keeps the invariant: a layer it hands to
\* an entry is the pump's own, or every day of it counts as edited.
LEMMA DoneOk ==
  ASSUME OpOk(op), DOMAIN layers = Layers,
         NEW S, NEW q \in Seq(S), NEW c, Shaped(c), c.seq \in 0..op.seq,
         NEW p, NEW ed, QueueOk(q, op, p, ed),
         op.phase # "done" /\ c.seq = op.seq =>
           op.phase # "due" /\ OwnOk(op, c) /\ NoOwn(q, op) /\ NoChained(q),
         NEW ok \in BOOLEAN, NEW v,
         c.kind = "layer" /\ ok =>
           /\ v \in [Days -> Cell]
           /\ \A k \in Days : <<c.at, k>> \in ed \/ Stored(p.grid[c.at][k], v[k]) = p.grid[c.at][k]
  PROVE  Goal(q, Done(Here, c, ok, v), p, ed)
<1> DEFINE w == Here
<1>0. w.op = op /\ w.layers = layers /\ w.send = <<>> /\ DOMAIN w = WFields
  BY DEF Here, WFields
<1>w. WOk(w)
  BY <1>0 DEF WOk
<1> HIDE DEF w
\* Nothing but the caches changes, or one command of none in flight goes out.
<1>1. ASSUME NEW x, WOk(x), x.op = op, ~InFlight(x, c),
             \/ x.send = <<>>
             \/ \E f : /\ x.send = <<f>> /\ Shaped(f) /\ f.seq \in {0, c.seq} /\ f.kind \notin Chained
      PROVE  Goal(q, x, p, ed)
  <2>1. op.phase # "done" => op.seq > 0 /\ c.seq # op.seq
    BY <1>1 DEF InFlight, OpOk
  <2>2. \A n \in {0, c.seq} : n \in 0..op.seq
    BY DEF OpOk
  <2> QED BY <1>1, <2>1, <2>2, ForeignSent
\* The operation in flight goes on.
<1>2. ASSUME NEW x, WOk(x), x.op = op, InFlight(x, c),
             x.send = <<>> \/ \E f : x.send = <<f>> /\ Shaped(f) /\ f.seq = 0 /\ f.kind = "commit",
             NEW y, Result(x, y),
             y.op.phase \notin {"done", "due"} =>
               \A e : AsRead(x, e) /\ Shaped(e) /\ e.kind = "write" => Spares(e, p, ed)
      PROVE  Goal(q, y, p, ed)
  <2>1. op.phase # "done" /\ NoOwn(q, op) /\ NoChained(q)
    BY <1>2 DEF InFlight
  <2> QED BY <1>2, <2>1, InFlightSent
\* What an operation in flight waits for tells its phase.
<1>3. ASSUME NEW x, x.op = op, InFlight(x, c)
      PROVE  /\ op.phase \notin {"done", "due"} /\ OwnOk(op, c)
             /\ c.kind \notin {"layer", "layers"} =>
                  \A e : AsRead(x, e) /\ Shaped(e) /\ e.kind = "write" => Spares(e, p, ed)
  BY <1>3 DEF InFlight, OwnOk, AsRead
\* A read of many goes on with the next of them.
<1>4. ASSUME NEW x, WOk(x), x.op = op, x.send = <<>>, c.kind \in {"layers", "slots"},
             c.kind = "layers" => c.at + 1 \in Layers,
             NEW data, NEW y, y = [x EXCEPT !.send = Append(@, [c EXCEPT !.at = @ + 1, !.data = data])]
      PROVE  Goal(q, y, p, ed)
  <2> DEFINE f == [c EXCEPT !.at = @ + 1, !.data = data]
  <2>1. Shaped(f) /\ f.seq = c.seq /\ f.kind = c.kind /\ f.kind \notin Chained
    BY <1>4 DEF Shaped, Chained, CommandKinds
  <2> HIDE DEF f
  <2>2. y.send = <<f>> /\ y.op = op /\ WOk(y)
    <3>1. Append(<<>>, f) = <<f>>
      OBVIOUS
    <3>2. y.send = Append(x.send, f) /\ y.op = x.op /\ y.layers = x.layers /\ DOMAIN y = WFields
      BY <1>4 DEF f, WOk, WFields
    <3> QED BY <1>4, <3>1, <3>2 DEF WOk
  <2>3. CASE ~InFlight(y, c)
    BY <1>1, <2>1, <2>2, <2>3
  <2>4. CASE InFlight(y, c)
    <3>1. op.phase \notin {"done", "due"} /\ OwnOk(op, c) /\ NoOwn(q, op) /\ f.seq = op.seq
      BY <1>3, <2>1, <2>2, <2>4 DEF InFlight
    <3>2. OwnOk(op, f) /\ Spares(f, p, ed) /\ f.kind # "write"
      BY <1>4, <2>1, <3>1 DEF OwnOk, Spares
    <3>3. QueueOk(Append(q, f), op, p, ed)
      BY <2>1, <3>1, <3>2, AppendOwn DEF OpOk
    <3>4. q \o <<f>> = Append(q, f) /\ Append(q, f) \in Seq(S \cup {f})
      <4> DEFINE T == S \cup {f}
      <4>1. q \in Seq(T) /\ f \in T
        OBVIOUS
      <4> HIDE DEF T
      <4>2. q \o <<f>> = Append(q, f) /\ Append(q, f) \in Seq(T)
        BY <4>1
      <4> QED BY <4>2 DEF T
    <3> QED BY <2>2, <3>3, <3>4 DEF Goal, WOk
  <2> QED BY <2>3, <2>4
\* An own command's operation asks for a read-back in the end.
<1>5. ASSUME NEW x, x.op = op, InFlight(x, c), c.kind \notin {"layers", "slots"}
      PROVE  x.op.cmd \in Confirmable /\ x.op.phase \notin {"done", "due"} /\ OwnOk(x.op, c)
  BY <1>3, <1>5 DEF OwnOk
<1>6. CASE c.kind = "poll"
  <2> DEFINE x == IF ok THEN [w EXCEPT !.overview = [known |-> TRUE, on |-> v.on, stop |-> v.stop]] ELSE w
  <2>1. WOk(x) /\ x.op = op /\ x.send = <<>>
    BY <1>0, <1>w DEF WOk, WFields
  <2> HIDE DEF x
  <2>2. InFlight(x, c) => Result(x, OnPoll(x, ok))
    BY <1>5, <1>6, <2>1, PollResult
  <2>3. Goal(q, IF InFlight(x, c) THEN OnPoll(x, ok) ELSE x, p, ed)
    BY <1>1, <1>2, <1>3, <1>6, <2>1, <2>2
  <2>4. Done(w, c, ok, v) = PollDone(w, c, ok, v)
    BY <1>6 DEF Done
  <2> QED BY <2>3, <2>4 DEF PollDone, x, w
<1>7. CASE c.kind = "layer"
  <2>0. c.at \in Layers
    BY <1>7 DEF Shaped
  <2> DEFINE x == IF ok THEN [w EXCEPT !.layers[c.at] = [known |-> TRUE, days |-> v]] ELSE w
  <2>1. WOk(x) /\ x.op = op /\ x.send = <<>> /\ (ok => x.layers[c.at].days = v)
    BY <1>0, <1>w, <2>0 DEF WOk, WFields
  <2> HIDE DEF x
  <2>2. ASSUME InFlight(x, c) PROVE Result(x, OnLayer(x, ok))
    <3>1. /\ IsEntry(op) => c.at = op.req.layer
          /\ IsEntry(op) \/ op.cmd = "upload"
          /\ op.phase \in {"read", "confirm"}
      BY <1>7, <1>5, <2>1, <2>2 DEF OwnOk
    <3>2. ok => x.layers[c.at].days \in [Days -> Cell]
      BY <1>7, <2>1
    <3> QED BY <2>0, <2>1, <3>1, <3>2, LayerDoneResult
  <2>3. ASSUME InFlight(x, c) PROVE Goal(q, OnLayer(x, ok), p, ed)
    <3>1. ASSUME ~ok, IsEntry(op) PROVE OnLayer(x, ok).op.phase \in {"done", "due"}
      <4>1. ASSUME NEW status
            PROVE  /\ Finish(x, status).op.phase = "done"
                   /\ Retry(x, status).op.phase \in {"done", "due"}
        BY <2>1 DEF Finish, Retry, WOk, OpOk, WFields, OpFields
      <4> QED BY <2>1, <3>1, <4>1 DEF OnLayer, EntryRead, EntryConfirmed
    <3>2. ASSUME ok \/ ~IsEntry(op), NEW e, AsRead(x, e), Shaped(e), e.kind = "write"
          PROVE  Spares(e, p, ed)
      <4>1. SUFFICES ASSUME e.data.day # AllDays PROVE Spares(e, p, ed)
        BY DEF Spares
      <4>2. IsEntry(op) /\ e.at = op.req.layer /\ ok
        BY <2>1, <3>2, <4>1 DEF AsRead
      <4>3. e.at = c.at /\ x.layers[c.at].days = v
        BY <1>5, <1>7, <2>1, <2>3, <4>2 DEF OwnOk
      <4>4. \A k \in Days \ {e.data.day} : e.data.days[k] = v[k]
        BY <3>2, <4>1, <4>3 DEF AsRead
      <4> QED BY <1>7, <4>2, <4>3, <4>4 DEF Spares
    <3> QED BY <1>2, <2>1, <2>2, <2>3, <3>1, <3>2
  <2>4. Done(w, c, ok, v) = LayerDone(w, c, ok, v)
    BY <1>7 DEF Done
  <2>5. Goal(q, IF InFlight(x, c) THEN OnLayer(x, ok) ELSE x, p, ed)
    BY <1>1, <2>1, <2>3
  <2> QED BY <2>4, <2>5 DEF LayerDone, x, w
<1>8. CASE c.kind = "layers"
  <2> DEFINE x == IF ok THEN [w EXCEPT !.layers[c.at] = [known |-> TRUE, days |-> v]] ELSE w
             data == [ok |-> ok /\ c.data.ok]
             y == [x EXCEPT !.send = Append(@, [c EXCEPT !.at = @ + 1, !.data = data])]
             z == Finish(x, IF data.ok THEN "accepted" ELSE "timeout")
  <2>1. WOk(x) /\ x.op = op /\ x.send = <<>>
    BY <1>0, <1>w DEF WOk, WFields
  <2> HIDE DEF x, data
  <2>2. c.at + 1 \in Layers => Goal(q, y, p, ed)
    BY <1>4, <1>8, <2>1
  <2>3. Result(x, z) /\ z.op.phase = "done"
    BY <2>1, FinishResult DEF Finish, WOk, OpOk, WFields, OpFields
  <2> HIDE DEF y, z
  <2>4. InFlight(x, c) => Goal(q, z, p, ed)
    BY <1>2, <2>1, <2>3
  <2>5. ~InFlight(x, c) => Goal(q, x, p, ed)
    BY <1>1, <2>1
  <2>6. Done(w, c, ok, v) = LayersDone(w, c, ok, v)
    BY <1>8 DEF Done
  <2>7. Goal(q, IF c.at + 1 \in Layers THEN y ELSE IF InFlight(x, c) THEN z ELSE x, p, ed)
    BY <2>2, <2>4, <2>5
  <2> QED BY <2>6, <2>7 DEF LayersDone, x, y, z, data, w
<1>9. CASE c.kind = "write"
  <2> DEFINE x == Commit(w)
  <2>1. /\ WOk(x) /\ x.op = op
        /\ x.send = <<>> \/ \E f : x.send = <<f>> /\ Shaped(f) /\ f.seq = 0 /\ f.kind = "commit"
    BY <1>0, <1>w, CommitOk
  <2> HIDE DEF x
  <2>2. InFlight(x, c) => Result(x, OnWritten(x))
    BY <1>5, <1>9, <2>1, WrittenResult DEF OwnOk
  <2>3. ~InFlight(x, c) => Goal(q, x, p, ed)
    BY <1>1, <2>1 DEF Chained
  <2>4. Goal(q, IF InFlight(x, c) THEN OnWritten(x) ELSE x, p, ed)
    BY <1>2, <1>3, <1>9, <2>1, <2>2, <2>3
  <2>5. Done(w, c, ok, v) = WriteDone(w, c)
    BY <1>9 DEF Done
  <2> QED BY <2>4, <2>5 DEF WriteDone, x, w
<1>10. CASE c.kind = "state"
  <2>1. InFlight(w, c) => Result(w, OnState(w))
    <3>1. InFlight(w, c) => op.phase # "read" /\ OfFlag(op)
      BY <1>0, <1>3, <1>10 DEF OwnOk
    <3> QED BY <1>0, <1>w, <1>5, <1>10, <3>1, StateDoneResult DEF OfFlag
  <2>2. Goal(q, IF InFlight(w, c) THEN OnState(w) ELSE w, p, ed)
    BY <1>0, <1>w, <1>1, <1>2, <1>3, <1>10, <2>1
  <2>3. Done(w, c, ok, v) = StateDone(w, c)
    BY <1>10 DEF Done
  <2> QED BY <2>2, <2>3 DEF StateDone, w
<1>11. CASE c.kind = "slots"
  <2> DEFINE data == [c.data EXCEPT !.ok = ChainOk(ok, c.data),
                        !.got = IF ok /\ v.on THEN Append(@, v) ELSE @]
             all == IF data.ok THEN [w EXCEPT !.events = [known |-> TRUE, held |-> data.got]] ELSE w
             y == [w EXCEPT !.send = Append(@, [c EXCEPT !.at = @ + 1, !.data = data])]
  <2>1. WOk(all) /\ all.op = op /\ all.send = <<>>
    BY <1>0, <1>w DEF WOk, WFields
  <2> HIDE DEF all, data
  <2>2. Goal(q, y, p, ed)
    BY <1>0, <1>w, <1>4, <1>11
  <2>3. InFlight(all, c) => Result(all, OnSlots(all, data.ok))
    <3>1. InFlight(all, c) => IsEvent(op) \/ op.cmd = "refresh_events"
      BY <1>3, <1>11, <2>1 DEF OwnOk
    <3>2. InFlight(all, c) => op.phase # "done"
      BY <2>1 DEF InFlight
    <3> QED BY <2>1, <3>1, <3>2, SlotsResult
  <2> HIDE DEF y
  <2>4. Goal(q, IF InFlight(all, c) THEN OnSlots(all, data.ok) ELSE all, p, ed)
    BY <1>1, <1>2, <1>3, <1>11, <2>1, <2>3
  <2>5. Done(w, c, ok, v) = SlotsDone(w, c, ok, v)
    BY <1>11 DEF Done
  <2> QED BY <2>2, <2>4, <2>5 DEF SlotsDone, all, y, data, w
<1>12. CASE c.kind = "slot"
  <2>1. InFlight(w, c) => Result(w, OnSlot(w, ok, v))
    <3>1. InFlight(w, c) => IsEvent(op) /\ op.phase # "done"
      BY <1>0, <1>3, <1>12 DEF OwnOk
    <3> QED BY <1>0, <1>w, <3>1, SlotResult
  <2>2. Goal(q, IF InFlight(w, c) THEN OnSlot(w, ok, v) ELSE w, p, ed)
    BY <1>0, <1>w, <1>1, <1>2, <1>3, <1>12, <2>1
  <2>3. Done(w, c, ok, v) = SlotDone(w, c, ok, v)
    BY <1>12 DEF Done
  <2> QED BY <2>2, <2>3 DEF SlotDone, w
<1>13. CASE c.kind = "event"
  <2> DEFINE y == Commit(w)
             x == IF y.events.known THEN [y EXCEPT !.events.held = Recached(@, c.data.ev)] ELSE y
  <2>1. /\ WOk(y) /\ y.op = op
        /\ y.send = <<>> \/ \E f : y.send = <<f>> /\ Shaped(f) /\ f.seq = 0 /\ f.kind = "commit"
    BY <1>0, <1>w, CommitOk
  <2> HIDE DEF y
  <2>2. x.send = y.send /\ x.op = y.op /\ WOk(x)
    BY <2>1 DEF WOk, WFields
  <2> HIDE DEF x
  <2>3. InFlight(x, c) => Result(x, Phase(x, "due"))
    BY <1>5, <1>13, <2>1, <2>2, DueResult
  <2>4. ~InFlight(x, c) => Goal(q, x, p, ed)
    BY <1>1, <2>1, <2>2 DEF Chained
  <2>5. Goal(q, IF InFlight(x, c) THEN Phase(x, "due") ELSE x, p, ed)
    BY <1>2, <1>3, <1>13, <2>1, <2>2, <2>3, <2>4
  <2>6. Done(w, c, ok, v) = EventDone(w, c)
    BY <1>13 DEF Done
  <2> QED BY <2>5, <2>6 DEF EventDone, x, y, w
<1>14. CASE c.kind = "commit"
  <2>1. ~InFlight(w, c) \/ Goal(q, w, p, ed)
    BY <1>0, <1>w, <1>3, <1>14 DEF InFlight, Goal
  <2>2. ~InFlight(w, c) => Goal(q, w, p, ed)
    BY <1>0, <1>w, <1>1
  <2>3. Done(w, c, ok, v) = w
    BY <1>14 DEF Done
  <2> QED BY <2>1, <2>2, <2>3 DEF w
<1> QED
  BY <1>6, <1>7, <1>8, <1>9, <1>10, <1>11, <1>12, <1>13, <1>14 DEF Shaped, CommandKinds
-----------------------------------------------------------------------------
(* The steps.                                                              *)

\* One cell stored over another is a cell, and one read is stored unchanged.
LEMMA StoredCell ==
  ASSUME NEW old \in Cell, NEW new \in Cell
  PROVE  Stored(old, new) \in Cell /\ Stored(old, old) = old
  BY DEF Stored, Cell

\* What a command does to the pump.
LEMMA EffectOk ==
  ASSUME PumpOk, NEW c, Shaped(c)
  PROVE  /\ DOMAIN Effect(c) = {"on", "stop", "grid", "events"} /\ Effect(c).grid \in Grids
         /\ c.kind # "write" => Effect(c).grid = pump.grid
<1>1. CASE c.kind = "write"
  <2> DEFINE row == [d \in Days |-> Stored(pump.grid[c.at][d], c.data.days[d])]
  <2>1. c.at \in Layers /\ c.data.days \in [Days -> Cell]
    BY <1>1 DEF Shaped
  <2>2. row \in [Days -> Cell]
    BY <2>1, StoredCell DEF PumpOk, Grids, Image
  <2>3. Effect(c) = [pump EXCEPT !.grid[c.at] = row]
    BY <1>1 DEF Effect
  <2> HIDE DEF row
  <2> QED BY <1>1, <2>1, <2>2, <2>3 DEF PumpOk, Grids, Image
<1>2. CASE c.kind # "write"
  BY <1>2 DEF Effect, PumpOk
<1> QED BY <1>1, <1>2 DEF PumpOk

\* The rest of the queue, whatever the oldest command did to the pump and to
\* the memory of what was edited.
LEMMA RestOk ==
  ASSUME IInv, NEW S, queue \in Seq(S), queue # <<>>,
         pump' = pump \/ pump' = Effect(Head(queue)),
         edited \subseteq edited' \/ Head(queue).kind = "layer"
  PROVE  QueueOk(Tail(queue), op, pump', edited')
<1> DEFINE c == Head(queue)
           t == Tail(queue)
<1>1. /\ QueueOk(t, op, pump, edited) /\ Shaped(c)
      /\ c.kind \in Chained => \A i \in 1..Len(t) : t[i].kind # "write"
  BY TailOk DEF IInv
<1> HIDE DEF c, t
<1>2. \A i \in 1..Len(t) : Spares(t[i], pump', edited')
  <2>1. CASE c.kind \in Chained
    BY <1>1, <2>1 DEF Spares
  <2>2. CASE c.kind \notin Chained
    <3>1. pump'.grid = pump.grid
      BY <1>1, <2>2, EffectOk DEF IInv, Chained, c
    <3>2. edited \subseteq edited'
      BY <2>2 DEF Chained, c
    <3>3. \A i \in 1..Len(t) : Spares(t[i], pump, edited)
      BY <1>1 DEF QueueOk
    <3> QED BY <3>1, <3>2, <3>3 DEF Spares
  <2> QED BY <2>1, <2>2
<1> QED BY <1>1, <1>2, Weakened DEF t

\* The end of the oldest command.
LEMMA EndOk ==
  ASSUME IInv, queue # <<>>, NEW ok \in BOOLEAN, NEW v, End(Head(queue), ok, v),
         pump' = pump \/ pump' = Effect(Head(queue)),
         edited \subseteq edited' \/ Head(queue).kind = "layer",
         Head(queue).kind = "layer" /\ ok =>
           /\ v \in [Days -> Cell]
           /\ \A k \in Days : \/ <<Head(queue).at, k>> \in edited'
                              \/ Stored(pump'.grid[Head(queue).at][k], v[k]) = pump'.grid[Head(queue).at][k]
  PROVE  /\ OpOk(op') /\ DOMAIN layers' = Layers /\ PumpOk'
         /\ \E S : queue' \in Seq(S)
         /\ QueueOk(queue', op', pump', edited')
<1> DEFINE c == Head(queue)
           t == Tail(queue)
<1>1. PICK S : queue \in Seq(S)
  BY DEF IInv
<1>2. /\ Shaped(c) /\ c.seq \in 0..op.seq /\ t \in Seq(S)
      /\ op.phase # "done" /\ c.seq = op.seq =>
           op.phase # "due" /\ OwnOk(op, c) /\ NoOwn(t, op) /\ NoChained(t)
  <2>1. QueueOk(t, op, pump, edited) /\ t \in Seq(S) /\ Shaped(c) /\ c.seq \in 0..op.seq
    BY <1>1, TailOk DEF IInv
  <2>2. op.phase # "done" /\ c.seq = op.seq =>
          op.phase # "due" /\ OwnOk(op, c) /\ NoOwn(t, op) /\ NoChained(t)
    BY <1>1, TailOk DEF IInv
  <2> QED BY <2>1, <2>2
<1>3. QueueOk(t, op, pump', edited')
  BY <1>1, RestOk
<1>4. PumpOk'
  BY <1>2, EffectOk DEF IInv, PumpOk
<1>5. OpOk(op) /\ DOMAIN layers = Layers
  BY DEF IInv
<1> HIDE DEF c, t
<1>6. Goal(t, Done(Here, c, ok, v), pump', edited')
  BY <1>2, <1>3, <1>5, DoneOk DEF c
<1>7. PICK w \in {Done(Here, c, ok, v)} : Take(w) /\ queue' = t \o w.send
  BY DEF End, c, t
<1> QED BY <1>4, <1>6, <1>7 DEF Goal, Take

LEMMA Initially == Init => IInv
<1> SUFFICES ASSUME Init PROVE IInv
  OBVIOUS
<1>1. OpOk(op)
  <2>1. DOMAIN op = OpFields /\ op.seq = 0 /\ op.written = {} /\ op.phase = "done"
    BY DEF Init, NoOperation, OpFields
  <2> QED BY <2>1 DEF OpOk
<1>2. DOMAIN layers = Layers /\ PumpOk
  BY ProgramAssumption DEF Init, PumpOk, Programs
<1>3. late \in Seq({}) /\ queue \in Seq({}) /\ Len(queue) = 0
  BY DEF Init
<1>4. QueueOk(queue, op, pump, edited)
  BY <1>3 DEF QueueOk
<1> QED BY <1>1, <1>2, <1>3, <1>4 DEF IInv, LateOk

\* A client's operation begins, or is turned away at once.
LEMMA SubmitOk ==
  ASSUME IInv, NEW r \in Requests, Submit(r)
  PROVE  IInv'
<1> DEFINE f == [Here EXCEPT !.op = Fresh(r)]
           o == Fresh(r)
<1>0. PICK S : queue \in Seq(S)
  BY DEF IInv
<1>1. /\ DOMAIN o = OpFields /\ o.seq = op.seq + 1 /\ o.cmd = r.cmd /\ o.req = r
      /\ o.phase = "start" /\ o.written = {} /\ o.at = 0
  BY DEF Fresh, NoOperation, OpFields
<1> HIDE DEF o
<1>2. f.op = o /\ f.layers = layers /\ f.send = <<>> /\ DOMAIN f = WFields
  BY DEF Here, WFields, o
<1> HIDE DEF f
<1>3. op.seq \in Nat /\ DOMAIN layers = Layers
  BY DEF IInv, OpOk
<1>4. \A i \in 1..Len(queue) : queue[i].seq \in 0..op.seq
  BY DEF IInv, QueueOk
<1>5. NoOwn(queue, o)
  BY <1>1, <1>3, <1>4 DEF NoOwn
<1>6. QueueOk(queue, op, pump', edited')
  <2>1. pump' = pump /\ edited' = IF \E i \in DOMAIN queue : queue[i].kind = "write" THEN edited ELSE {}
    BY DEF Submit
  <2>2. DOMAIN queue = 1..Len(queue)
    BY <1>0
  <2>3. \A i \in 1..Len(queue) : Spares(queue[i], pump', edited')
    BY <2>1, <2>2 DEF IInv, QueueOk, Spares
  <2> QED BY <2>3, Weakened DEF IInv
<1>7. ASSUME NEW status PROVE Goal(queue, Finish(f, status), pump', edited')
  <2> DEFINE x == Finish(f, status)
  <2>1. /\ x.op.phase = "done" /\ x.op.seq = op.seq + 1 /\ DOMAIN x.op = OpFields
        /\ x.op.written = {} /\ x.send = <<>> /\ x.layers = layers
    BY <1>1, <1>2 DEF Finish, OpFields, WFields
  <2> HIDE DEF x
  <2>2. QueueOk(queue, x.op, pump', edited')
    BY <1>3, <1>6, <2>1, Unwaited
  <2>3. OpOk(x.op)
    BY <1>3, <2>1 DEF OpOk
  <2>4. queue \o <<>> = queue
    BY <1>0
  <2> QED BY <1>0, <1>3, <2>1, <2>2, <2>3, <2>4 DEF Goal, x
<1>8. ASSUME ~Invalid(r)
      PROVE  Goal(queue, IF r.cmd = "refresh" THEN ReadGrid(f) ELSE AfterOverview(f), pump', edited')
  <2> DEFINE x == IF r.cmd = "refresh" THEN ReadGrid(f) ELSE AfterOverview(f)
  <2>1. OpOk(o)
    <3>1. o.seq \in Nat /\ o.seq > 0
      BY <1>1, <1>3
    <3>2. IsEntry(o) => r.layer \in Layers /\ r.day \in Days
      BY <1>1, <1>8 DEF IsEntry, Invalid
    <3> QED BY <1>1, <3>1, <3>2 DEF OpOk
  <2>2. WOk(f)
    BY <1>2, <1>3, <2>1 DEF WOk
  <2>3. Result(f, x)
    BY <1>1, <1>2, <2>2, Constants, BeginResult
  <2> HIDE DEF x
  <2>4. QueueOk(queue, o, pump', edited')
    BY <1>1, <1>3, <1>5, <1>6, Unwaited
  <2>5. queue \o f.send = queue
    BY <1>0, <1>2
  <2>6. \A e : AsRead(f, e) => e.kind # "write"
    BY <1>1, <1>2 DEF AsRead
  <2>7. (\E R : queue \o x.send \in Seq(R)) /\ QueueOk(queue \o x.send, x.op, pump', edited')
    BY <1>0, <1>1, <1>2, <1>5, <2>2, <2>3, <2>4, <2>5, <2>6, StepOk
  <2> QED BY <2>3, <2>7 DEF Result, WOk, Goal, x
<1>9. PICK w \in {IF link /\ overview.known THEN Begin(f) ELSE Finish(f, "rejected")} :
        Take(w) /\ queue' = queue \o w.send
  BY DEF Submit, f
<1>10. Goal(queue, w, pump', edited')
  BY <1>1, <1>2, <1>7, <1>8, <1>9 DEF Begin
<1>11. pump' = pump /\ late' = late
  BY DEF Submit
<1> QED BY <1>9, <1>10, <1>11 DEF Goal, Take, IInv, PumpOk, LateOk

\* The settle delay is over.
LEMMA ConfirmDueOk ==
  ASSUME IInv, ConfirmDue
  PROVE  IInv'
<1> DEFINE x == Confirm(Here)
<1>0. PICK S : queue \in Seq(S)
  BY DEF IInv
<1>1. Here.op = op /\ Here.layers = layers /\ Here.send = <<>> /\ DOMAIN Here = WFields
  BY DEF Here, WFields
<1>2. WOk(Here) /\ op.phase = "due" /\ op.cmd \in Confirmable
  BY <1>1 DEF IInv, WOk, OpOk, ConfirmDue
<1>3. Result(Here, x)
  BY <1>1, <1>2, ConfirmResult
<1> HIDE DEF x
<1>4. queue \o Here.send = queue
  BY <1>0, <1>1
<1>5. NoOwn(queue, op) /\ QueueOk(queue, op, pump, edited)
  BY <1>2 DEF IInv, QueueOk, NoOwn
<1>6. \A e : AsRead(Here, e) => e.kind # "write"
  BY <1>1, <1>2 DEF AsRead
<1>7. (\E R : queue \o x.send \in Seq(R)) /\ QueueOk(queue \o x.send, x.op, pump, edited)
  BY <1>0, <1>1, <1>2, <1>3, <1>4, <1>5, <1>6, StepOk
<1>8. op' = x.op /\ layers' = x.layers /\ queue' = queue \o x.send
      /\ pump' = pump /\ late' = late /\ edited' = edited
  BY DEF ConfirmDue, Take, x, history
<1> QED BY <1>3, <1>7, <1>8 DEF Result, WOk, IInv, PumpOk, LateOk

\* An operation runs out of its budget.
LEMMA WatchdogOk ==
  ASSUME IInv, Watchdog
  PROVE  IInv'
<1> DEFINE x == Finish(Here, "timeout")
<1>1. /\ DOMAIN x.op = OpFields /\ x.op.phase = "done" /\ x.op.seq = op.seq
      /\ x.op.written = op.written /\ x.layers = layers
  BY DEF IInv, OpOk, Finish, Here, OpFields
<1> HIDE DEF x
<1>2. OpOk(x.op) /\ QueueOk(queue, x.op, pump, edited)
  BY <1>1, Unwaited DEF IInv, OpOk
<1>3. op' = x.op /\ layers' = x.layers /\ queue' = queue
      /\ pump' = pump /\ late' = late /\ edited' = edited
  BY DEF Watchdog, Take, x, history
<1> QED BY <1>1, <1>2, <1>3 DEF IInv, PumpOk, LateOk

\* A read in the background joins the queue.
LEMMA BackgroundOk ==
  ASSUME IInv, NEW kind \in {"poll", "slots", "layers"}, NEW data, Background(kind, data),
         UNCHANGED <<layers, op, late, pump, edited>>
  PROVE  IInv'
<1> DEFINE e == [kind |-> kind, seq |-> 0, at |-> 0, data |-> data]
<1>0. PICK S : queue \in Seq(S)
  BY DEF IInv
<1>1. Shaped(e) /\ e.kind \notin Chained /\ e.seq = 0
  BY Constants DEF Shaped, CommandKinds, Chained
<1> HIDE DEF e
<1>2. QueueOk(Append(queue, e), op, pump, edited)
  BY <1>0, <1>1, AppendForeign DEF IInv, OpOk
<1>3. Append(queue, e) \in Seq(S \cup {e})
  <2>1. queue \in Seq(S \cup {e})
    BY <1>0
  <2> QED BY <2>1
<1>4. queue' = Append(queue, e)
  BY DEF Background, e
<1> QED BY <1>2, <1>3, <1>4 DEF IInv, PumpOk, LateOk

\* A control write commits the schedule's configuration.
LEMMA ControlCommitOk ==
  ASSUME IInv, ControlCommit
  PROVE  IInv'
<1> DEFINE x == Commit(Here)
<1>0. PICK S : queue \in Seq(S)
  BY DEF IInv
<1>1. Here.op = op /\ Here.layers = layers /\ Here.send = <<>> /\ DOMAIN Here = WFields
  BY DEF Here, WFields
<1>2. WOk(Here) /\ op.phase = "done" /\ QueueOk(queue, op, pump, edited)
  BY <1>1 DEF IInv, WOk, ControlCommit
<1>3. /\ WOk(x) /\ x.op = op
      /\ x.send = <<>> \/ \E f : x.send = <<f>> /\ Shaped(f) /\ f.seq = 0 /\ f.kind = "commit"
  BY <1>1, <1>2, CommitOk
<1> HIDE DEF x
<1>4. \/ x.send = <<>>
      \/ \E f : /\ x.send = <<f>> /\ Shaped(f) /\ f.seq \in 0..x.op.seq /\ f.kind \notin Chained
                /\ x.op.phase # "done" => f.seq # x.op.seq
  BY <1>2, <1>3 DEF Chained, WOk, OpOk
<1>5. Goal(queue, x, pump, edited)
  BY <1>0, <1>2, <1>3, <1>4, ForeignSent
<1>6. op' = x.op /\ layers' = x.layers /\ queue' = queue \o x.send
      /\ pump' = pump /\ late' = late /\ edited' = edited
  BY DEF ControlCommit, Take, x, history
<1> QED BY <1>5, <1>6 DEF Goal, IInv, PumpOk, LateOk

\* The day's memory, as commands end.
LEMMA VouchedOk ==
  ASSUME NEW p, NEW c, Vouch(c, p)
  PROVE  edited \subseteq edited' \/ c.kind = "layer"
  BY DEF Vouch

\* The layer a read of it returns.
LEMMA ReplyOk ==
  ASSUME IInv, NEW c, Shaped(c), Typed(c) = "layer"
  PROVE  /\ Reply(c) \in [Days -> Cell] /\ Reply(c) = pump.grid[c.at]
         /\ Received(c, Reply(c)) = Reply(c)
<1>1. c.kind \in {"layer", "layers"} /\ c.at \in Layers
  BY DEF Shaped, Typed
<1>2. pump.grid[c.at] \in [Days -> Cell]
  BY <1>1 DEF IInv, PumpOk, Grids, Image
<1>3. Reply(c) = pump.grid[c.at] /\ Received(c, Reply(c)) = Reply(c)
  BY DEF Reply, Received
<1> QED BY <1>1, <1>2, <1>3

LEMMA AnsweredOk ==
  ASSUME IInv, Answered
  PROVE  IInv'
<1> DEFINE c == Head(queue)
           v == IF IsRead(c) THEN Received(c, Reply(c)) ELSE NoData
<1>1. queue # <<>> /\ pump' = Effect(c) /\ Vouch(c, pump') /\ End(c, TRUE, v) /\ late' = late
  BY DEF Answered
<1>2. Shaped(c)
  BY <1>1, TailOk DEF IInv
<1>3. ASSUME c.kind = "layer"
      PROVE  /\ v \in [Days -> Cell]
             /\ \A k \in Days : Stored(pump'.grid[c.at][k], v[k]) = pump'.grid[c.at][k]
  <2>1. Typed(c) = "layer" /\ IsRead(c) /\ c.kind # "write"
    BY <1>3 DEF Typed, IsRead
  <2>2. v = pump.grid[c.at] /\ v \in [Days -> Cell]
    <3>1. v = Received(c, Reply(c))
      BY <2>1
    <3> HIDE DEF v
    <3> QED BY <1>2, <2>1, <3>1, ReplyOk
  <2>3. pump'.grid = pump.grid
    BY <1>1, <1>2, <2>1, EffectOk DEF IInv
  <2>4. \A k \in Days : Stored(v[k], v[k]) = v[k]
    BY <2>2, StoredCell
  <2> HIDE DEF v
  <2> QED BY <2>2, <2>3, <2>4
<1>4. edited \subseteq edited' \/ c.kind = "layer"
  BY <1>1, VouchedOk
<1> HIDE DEF v
<1>5. /\ OpOk(op') /\ DOMAIN layers' = Layers /\ PumpOk' /\ \E S : queue' \in Seq(S)
      /\ QueueOk(queue', op', pump', edited')
  BY <1>1, <1>3, <1>4, EndOk
<1> QED BY <1>1, <1>5 DEF IInv, LateOk

LEMMA LostOk ==
  ASSUME IInv, Lost
  PROVE  IInv'
<1> DEFINE c == Head(queue)
<1>1. queue # <<>> /\ pump' = pump /\ Vouch(c, pump) /\ End(c, FALSE, NoData) /\ late' = late
  BY DEF Lost
<1>2. edited \subseteq edited' \/ c.kind = "layer"
  BY <1>1, VouchedOk
<1>3. /\ OpOk(op') /\ DOMAIN layers' = Layers /\ PumpOk' /\ \E S : queue' \in Seq(S)
      /\ QueueOk(queue', op', pump', edited')
  BY <1>1, <1>2, EndOk
<1> QED BY <1>1, <1>3 DEF IInv, LateOk

LEMMA IgnoredOk ==
  ASSUME IInv, Ignored
  PROVE  IInv'
<1> DEFINE c == Head(queue)
<1>1. queue # <<>> /\ pump' = pump /\ Vouch(c, pump) /\ End(c, TRUE, NoData) /\ late' = late
      /\ c.kind # "layer"
  BY DEF Ignored, IsRead
<1>2. edited \subseteq edited'
  BY <1>1, VouchedOk
<1>3. /\ OpOk(op') /\ DOMAIN layers' = Layers /\ PumpOk' /\ \E S : queue' \in Seq(S)
      /\ QueueOk(queue', op', pump', edited')
  BY <1>1, <1>2, EndOk
<1> QED BY <1>1, <1>3 DEF IInv, LateOk

LEMMA UnheardOk ==
  ASSUME IInv, Unheard
  PROVE  IInv'
<1> DEFINE c == Head(queue)
           r == [type |-> Typed(c), value |-> Reply(c)]
<1>1. queue # <<>> /\ pump' = Effect(c) /\ Vouch(c, pump') /\ End(c, FALSE, NoData)
      /\ (late' = late \/ late' = Append(late, r))
  BY DEF Unheard
<1>2. Shaped(c)
  BY <1>1, TailOk DEF IInv
<1>3. edited \subseteq edited' \/ c.kind = "layer"
  BY <1>1, VouchedOk
<1>4. r.type = "layer" => r.value \in [Days -> Cell]
  BY <1>2, ReplyOk
<1> HIDE DEF r
<1>5. LateOk'
  <2>1. PICK S : late \in Seq(S) /\ \A e \in S : e.type = "layer" => e.value \in [Days -> Cell]
    BY DEF IInv, LateOk
  <2> DEFINE T == S \cup {r}
  <2>2. late \in Seq(T) /\ r \in T /\ \A e \in T : e.type = "layer" => e.value \in [Days -> Cell]
    BY <1>4, <2>1
  <2> HIDE DEF T
  <2>3. late' \in Seq(T)
    BY <1>1, <2>2
  <2> QED BY <2>2, <2>3 DEF LateOk
<1>6. /\ OpOk(op') /\ DOMAIN layers' = Layers /\ PumpOk' /\ \E S : queue' \in Seq(S)
      /\ QueueOk(queue', op', pump', edited')
  BY <1>1, <1>3, EndOk
<1> QED BY <1>5, <1>6 DEF IInv

LEMMA MisansweredOk ==
  ASSUME IInv, Misanswered
  PROVE  IInv'
<1> DEFINE c == Head(queue)
           r == [type |-> Typed(c), value |-> Reply(c)]
<1>1. queue # <<>> /\ pump' = pump
      /\ edited' = edited \cup IF c.kind = "layer" THEN {c.at} \X Days ELSE {}
  BY DEF Misanswered
<1>2. PICK i \in Overdue(c) :
        /\ End(c, TRUE, Received(c, late[i].value))
        /\ late' = Append(SubSeq(late, 1, i - 1) \o SubSeq(late, i + 1, Len(late)), r)
  BY DEF Misanswered
<1>3. Shaped(c)
  BY <1>1, TailOk DEF IInv
<1>4. PICK S : late \in Seq(S) /\ \A e \in S : e.type = "layer" => e.value \in [Days -> Cell]
  BY DEF IInv, LateOk
<1>5. i \in 1..Len(late) /\ late[i].type = Typed(c) /\ late[i] \in S
  BY <1>4 DEF Overdue
<1>6. c.kind = "layer" =>
        /\ Received(c, late[i].value) \in [Days -> Cell]
        /\ \A k \in Days : <<c.at, k>> \in edited'
  BY <1>1, <1>4, <1>5 DEF Received, Typed
<1>7. r.type = "layer" => r.value \in [Days -> Cell]
  BY <1>3, ReplyOk
<1> HIDE DEF r
<1>8. LateOk'
  <2> DEFINE T == S \cup {r}
  <2>2. late \in Seq(T) /\ r \in T /\ \A e \in T : e.type = "layer" => e.value \in [Days -> Cell]
    BY <1>4, <1>7
  <2> HIDE DEF T
  <2>3. SubSeq(late, 1, i - 1) \in Seq(T) /\ SubSeq(late, i + 1, Len(late)) \in Seq(T)
    BY <1>5, <2>2
  <2>4. late' \in Seq(T)
    BY <1>2, <2>2, <2>3
  <2> QED BY <2>2, <2>4 DEF LateOk
<1>9. /\ OpOk(op') /\ DOMAIN layers' = Layers /\ PumpOk' /\ \E R : queue' \in Seq(R)
      /\ QueueOk(queue', op', pump', edited')
  BY <1>1, <1>2, <1>6, EndOk
<1> QED BY <1>8, <1>9 DEF IInv

LEMMA LateDroppedOk ==
  ASSUME IInv, LateDropped
  PROVE  IInv'
<1>1. late # <<>> /\ late' = Tail(late) /\ UNCHANGED <<layers, op, queue, pump, edited>>
  BY DEF LateDropped, caches, history
<1>2. LateOk'
  BY <1>1 DEF IInv, LateOk
<1> QED BY <1>1, <1>2 DEF IInv, PumpOk

\* The app changes a day, which then counts as edited, or something else.
LEMMA AppOk ==
  ASSUME IInv, App
  PROVE  IInv'
<1>1. UNCHANGED <<layers, op, queue, late>>
  BY DEF App, caches
<1>2. /\ DOMAIN pump' = DOMAIN pump /\ pump'.grid \in Grids
      /\ \A l \in Layers, k \in Days :
           <<l, k>> \in edited' \/ pump'.grid[l][k] = pump.grid[l][k]
      /\ edited \subseteq edited'
  <2>1. DOMAIN pump = {"on", "stop", "grid", "events"} /\ pump.grid \in Grids
    BY DEF IInv, PumpOk
  <2>2. ASSUME NEW l \in Layers, NEW d \in Days, NEW t \in Times,
               pump' = [pump EXCEPT !.grid[l][d] = [on |-> t # 0, at |-> t]],
               edited' = edited \cup {<<l, d>>}
        PROVE  /\ DOMAIN pump' = DOMAIN pump /\ pump'.grid \in Grids
               /\ \A m \in Layers, k \in Days :
                    <<m, k>> \in edited' \/ pump'.grid[m][k] = pump.grid[m][k]
               /\ edited \subseteq edited'
    <3>1. [on |-> t # 0, at |-> t] \in Cell
      BY DEF Cell
    <3> DEFINE cell == [on |-> t # 0, at |-> t]
    <3> HIDE DEF cell
    <3>2. pump' = [pump EXCEPT !.grid[l][d] = cell] /\ cell \in Cell
      BY <2>2, <3>1 DEF cell
    <3> QED BY <2>1, <2>2, <3>2 DEF Grids, Image
  <2>3. ASSUME pump' = [pump EXCEPT !.on = ~@] \/ \E s, e : pump' = [pump EXCEPT !.events[s] = e],
               edited' = edited
        PROVE  /\ DOMAIN pump' = DOMAIN pump /\ pump'.grid \in Grids
               /\ \A m \in Layers, k \in Days :
                    <<m, k>> \in edited' \/ pump'.grid[m][k] = pump.grid[m][k]
               /\ edited \subseteq edited'
    BY <2>1, <2>3
  <2> QED BY <2>2, <2>3 DEF App
<1>3. \A i \in 1..Len(queue) : Spares(queue[i], pump', edited')
  BY <1>2 DEF IInv, QueueOk, Spares, Shaped
<1>4. QueueOk(queue, op, pump', edited')
  BY <1>3, Weakened DEF IInv
<1> QED BY <1>1, <1>2, <1>4 DEF IInv, PumpOk, LateOk

LEMMA DropOk ==
  ASSUME IInv, Drop
  PROVE  IInv'
<1>1. /\ queue' = <<>> /\ late' = <<>> /\ DOMAIN layers' = Layers
      /\ op' = IF op.phase = "done" THEN op ELSE Finish(Here, "timeout").op
  BY DEF Drop
<1>2. OpOk(op')
  <2> DEFINE o == Finish(Here, "timeout").op
  <2>1. /\ DOMAIN o = OpFields /\ o.phase = "done" /\ o.seq = op.seq
        /\ o.written = op.written
    BY DEF IInv, OpOk, Finish, Here, OpFields
  <2> HIDE DEF o
  <2>2. OpOk(op) /\ OpOk(o)
    BY <2>1 DEF IInv, OpOk
  <2> QED BY <1>1, <2>2 DEF o
<1>3. PumpOk'
  <2>1. CASE pump' = pump
    BY <2>1 DEF IInv, PumpOk
  <2>2. CASE queue # <<>> /\ pump' = Effect(Head(queue))
    <3>1. Shaped(Head(queue))
      BY <2>2, TailOk DEF IInv
    <3> QED BY <2>2, <3>1, EffectOk DEF IInv, PumpOk
  <2> QED BY <2>1, <2>2 DEF Drop
<1>4. queue' \in Seq({}) /\ late' \in Seq({}) /\ Len(queue') = 0
  BY <1>1
<1>5. QueueOk(queue', op', pump', edited')
  BY <1>4 DEF QueueOk
<1>6. LateOk'
  BY <1>4 DEF LateOk
<1> QED BY <1>1, <1>2, <1>3, <1>4, <1>5, <1>6 DEF IInv

LEMMA Steps == IInv /\ [Next]_vars => IInv'
<1> SUFFICES ASSUME IInv, [Next]_vars PROVE IInv'
  OBVIOUS
<1>1. ASSUME NEW r \in Requests, Submit(r) PROVE IInv'
  BY <1>1, SubmitOk
<1>2. CASE ConfirmDue
  BY <1>2, ConfirmDueOk
<1>3. CASE Watchdog
  BY <1>3, WatchdogOk
<1>4. CASE Poll
  BY <1>4, BackgroundOk DEF Poll, caches, history
<1>5. CASE Reread
  BY <1>5, BackgroundOk DEF Reread, caches, history
<1>6. CASE ControlCommit
  BY <1>6, ControlCommitOk
<1>7. CASE Answered
  BY <1>7, AnsweredOk
<1>8. CASE Lost
  BY <1>8, LostOk
<1>9. CASE Unheard
  BY <1>9, UnheardOk
<1>10. CASE Ignored
  BY <1>10, IgnoredOk
<1>11. CASE Misanswered
  BY <1>11, MisansweredOk
<1>12. CASE LateDropped
  BY <1>12, LateDroppedOk
<1>13. CASE App
  BY <1>13, AppOk
<1>14. CASE Drop
  BY <1>14, DropOk
<1>15. CASE Reconnect \/ Tick \/ UNCHANGED vars
  <2>1. UNCHANGED <<layers, op, queue, late, pump, edited>>
    BY <1>15 DEF Reconnect, Tick, vars, caches, history
  <2> QED BY <2>1 DEF IInv, PumpOk, LateOk
<1> QED
  BY <1>1, <1>2, <1>3, <1>4, <1>5, <1>6, <1>7, <1>8, <1>9, <1>10, <1>11, <1>12, <1>13,
     <1>14, <1>15 DEF Next

\* While a write of one day is the oldest command, whatever becomes of it
\* leaves the other days of its layer to the app.
LEMMA WriteSpares ==
  ASSUME IInv, Next, NEW l \in Layers, NEW d \in Days, WritesDay(l, d),
         NEW k \in Days \ {d}, <<l, k>> \notin edited
  PROVE  pump'.grid[l][k] = pump.grid[l][k]
<1> DEFINE c == Head(queue)
<1>1. queue # <<>> /\ queue' # queue /\ c.kind = "write" /\ c.at = l /\ c.data.day = d
  BY DEF WritesDay
<1>2. Shaped(c) /\ Spares(c, pump, edited)
  BY <1>1, TailOk DEF IInv
<1>3. Stored(pump.grid[l][k], c.data.days[k]) = pump.grid[l][k]
  BY <1>1, <1>2, Constants DEF Spares
<1>4. CASE pump' = pump
  BY <1>4
<1>5. CASE pump' = Effect(c)
  <2> DEFINE row == [n \in Days |-> Stored(pump.grid[l][n], c.data.days[n])]
  <2>1. Effect(c) = [pump EXCEPT !.grid[l] = row]
    BY <1>1 DEF Effect
  <2>2. row[k] = pump.grid[l][k]
    BY <1>3
  <2> HIDE DEF row
  <2>3. Effect(c).grid[l] = row
    BY <2>1 DEF IInv, PumpOk, Grids
  <2> QED BY <1>5, <2>2, <2>3
<1>6. pump' = pump \/ pump' = Effect(c)
  <2>1. ASSUME App PROVE FALSE
    BY <1>1, <2>1 DEF App
  <2>2. CASE Drop
    BY <2>2 DEF Drop
  <2>3. CASE Answered \/ Unheard
    BY <2>3 DEF Answered, Unheard
  <2>4. CASE ~(App \/ Drop \/ Answered \/ Unheard)
    BY <2>4 DEF Next, Submit, ConfirmDue, Watchdog, Poll, Reread, ControlCommit, Lost,
                Ignored, Misanswered, LateDropped, Reconnect, Tick
  <2> QED BY <2>1, <2>2, <2>3, <2>4
<1> QED BY <1>4, <1>5, <1>6

\* The write of one day leaves every other day of its layer as it was, those
\* apart that the app changed, or that were misread, since the operation read
\* the layer: run_schedule_entry_() patches what it read last, and nothing
\* that it, a background read or a cut-short operation queues comes between
\* that read and the write.
THEOREM OtherDaysAreKept == Spec => OtherDaysKept
<1>1. IInv /\ [Next]_vars =>
        [\A l \in Layers, d \in Days : WritesDay(l, d) =>
           \A k \in Days \ {d} :
             <<l, k>> \notin edited => pump'.grid[l][k] = pump.grid[l][k]]_vars
  BY WriteSpares
<1> QED BY <1>1, Initially, Steps, PTL DEF Spec, OtherDaysKept
-----------------------------------------------------------------------------
(* The types: the parts of the state that a step of an operation works on. *)

World == [op : Operations, overview : Overviews, layers : LayerCaches, events : EventCaches,
          send : Seq(Command)]

LEMMA SlotFacts ==
  /\ SlotNumbers \subseteq Nat /\ SlotCounts \subseteq Nat \ {0}
  /\ \A ov : MaxSlots(ov) \in SlotCounts
  /\ \A n \in SlotCounts : \A s \in Nat : s < n => s \in SlotNumbers
<1>1. PumpSlots \in Nat \ {0} /\ FallbackSlots \in Nat \ {0} /\ SINGLE_EVENT_SLOT_LIMIT \in Nat \ {0}
  BY ScheduleAssumption
<1>2. SlotCounts \subseteq Nat \ {0}
  BY <1>1 DEF SlotCounts, Lesser
<1>3. \A n \in SlotCounts : \A s \in Nat : s < n => s \in SlotNumbers
  BY <1>2 DEF SlotNumbers
<1>4. \A ov : MaxSlots(ov) \in SlotCounts
  BY DEF MaxSlots, SlotCounts
<1>5. SlotNumbers \subseteq Nat
  BY <1>2 DEF SlotNumbers
<1> QED BY <1>2, <1>3, <1>4, <1>5

LEMMA FinishTyped ==
  ASSUME NEW w \in World, NEW status \in Statuses
  PROVE  Finish(w, status) \in World
  BY DEF World, Operations, Finish, Phases

LEMMA PhaseTyped ==
  ASSUME NEW w \in World, NEW phase \in Phases
  PROVE  Phase(w, phase) \in World
  BY DEF World, Operations, Phase

LEMMA RetryTyped ==
  ASSUME NEW w \in World, NEW status \in Statuses
  PROVE  Retry(w, status) \in World
<1> DEFINE x == [w EXCEPT !.op.tries = @ + 1, !.op.phase = "due"]
<1>1. ASSUME w.op.tries < SCHED_MAX_ATTEMPTS PROVE x \in World
  <2>1. SCHED_MAX_ATTEMPTS \in Nat /\ w.op.tries \in 0..SCHED_MAX_ATTEMPTS
    BY ScheduleAssumption DEF World, Operations
  <2>2. w.op.tries + 1 \in 0..SCHED_MAX_ATTEMPTS
    BY <1>1, <2>1
  <2> QED BY <2>2 DEF World, Operations, Phases
<1> QED BY <1>1, FinishTyped DEF Retry

LEMMA SendTyped ==
  ASSUME NEW w \in World, NEW kind, NEW at, NEW data,
         [kind |-> kind, seq |-> w.op.seq, at |-> at, data |-> data] \in Command
  PROVE  Send(w, kind, at, data) \in World
<1> DEFINE c == [kind |-> kind, seq |-> w.op.seq, at |-> at, data |-> data]
<1>1. Append(w.send, c) \in Seq(Command)
  <2>1. w.send \in Seq(Command)
    BY DEF World
  <2>2. c \in Command
    OBVIOUS
  <2> HIDE DEF c
  <2> QED BY <2>1, <2>2
<1>2. \A s \in Seq(Command) : [w EXCEPT !.send = s] \in World
  BY DEF World
<1>3. Send(w, kind, at, data) = [w EXCEPT !.send = Append(w.send, c)]
  BY DEF Send, World
<1> HIDE DEF c
<1> QED BY <1>1, <1>2, <1>3

\* A read-back names a slot of the range.
Named(o) ==
  IsEvent(o) /\ o.phase \in {"write", "due", "confirm"} => o.slot \in SlotNumbers
Proper(w) == w \in World /\ Named(w.op)

LEMMA Fields ==
  ASSUME NEW w \in World
  PROVE  /\ w.op \in Operations /\ w.overview \in Overviews /\ w.layers \in LayerCaches
         /\ w.events \in EventCaches /\ w.send \in Seq(Command)
         /\ w.op.seq \in Nat /\ w.op.seq \in 0..MaxOps
<1>1. MaxOps \in Nat
  BY ScheduleAssumption
<1>2. /\ w.op \in Operations /\ w.overview \in Overviews /\ w.layers \in LayerCaches
      /\ w.events \in EventCaches /\ w.send \in Seq(Command)
  BY DEF World
<1>3. w.op.seq \in 0..MaxOps
  BY <1>2 DEF Operations
<1> QED BY <1>1, <1>2, <1>3

LEMMA FinishNamed ==
  ASSUME NEW w \in World, NEW status \in Statuses
  PROVE  Proper(Finish(w, status))
<1>1. Finish(w, status).op.phase = "done"
  BY DEF Finish, World, Operations
<1> QED BY <1>1, FinishTyped DEF Proper, Named

\* Retry and Phase keep the slot.
LEMMA RetryNamed ==
  ASSUME NEW w, Proper(w), w.op.phase = "confirm" \/ ~IsEvent(w.op), NEW status \in Statuses
  PROVE  Proper(Retry(w, status))
<1>1. Retry(w, status).op.slot = w.op.slot /\ IsEvent(Retry(w, status).op) = IsEvent(w.op)
  BY DEF Proper, Retry, Finish, World, Operations, IsEvent
<1> QED BY <1>1, RetryTyped DEF Proper, Named

LEMMA PhaseFacts ==
  ASSUME NEW w \in World, NEW phase \in Phases
  PROVE  /\ Phase(w, phase) \in World /\ Phase(w, phase).op.phase = phase
         /\ Phase(w, phase).op.seq = w.op.seq /\ Phase(w, phase).op.cmd = w.op.cmd
         /\ Phase(w, phase).op.req = w.op.req /\ Phase(w, phase).op.slot = w.op.slot
         /\ Phase(w, phase).op.at = w.op.at /\ Phase(w, phase).op.cursor = w.op.cursor
         /\ Phase(w, phase).op.todo = w.op.todo /\ Phase(w, phase).op.written = w.op.written
         /\ Phase(w, phase).overview = w.overview /\ Phase(w, phase).layers = w.layers
         /\ Phase(w, phase).events = w.events /\ Phase(w, phase).send = w.send
  BY PhaseTyped DEF Phase, World, Operations

LEMMA SendFacts ==
  ASSUME NEW w \in World, NEW kind, NEW at, NEW data
  PROVE  /\ Send(w, kind, at, data).op = w.op
         /\ Send(w, kind, at, data).overview = w.overview
         /\ Send(w, kind, at, data).layers = w.layers
         /\ Send(w, kind, at, data).events = w.events
  BY DEF Send, World

\* A cache that counts holds something.
LEMMA Known ==
  ASSUME NEW T, NEW x \in {Unread} \cup T, x.known
  PROVE  x \in T
<1>1. ~Unread.known
  BY DEF Unread
<1> QED BY <1>1

LEMMA CommitTyped ==
  ASSUME NEW w \in World
  PROVE  /\ Commit(w) \in World /\ Commit(w).op = w.op
         /\ Commit(w).events = w.events /\ Commit(w).layers = w.layers
<1> DEFINE c == [kind |-> "commit", seq |-> 0, at |-> 0,
                 data |-> [on |-> w.overview.on, stop |-> TRUE]]
           ov == [w.overview EXCEPT !.stop = TRUE]
<1>1. CASE w.overview.known
  <2>0. w.overview \in Overviews
    BY Fields
  <2>1. w.overview \in [known : {TRUE}, on : BOOLEAN, stop : BOOLEAN]
    BY <1>1, <2>0, Known DEF Overviews
  <2>2. c \in Command /\ ov \in Overviews
    BY <2>1 DEF Command, Flags, Overviews
  <2> HIDE DEF c, ov
  <2>3. Append(w.send, c) \in Seq(Command)
    BY <2>2, Fields
  <2>4. \A q \in Seq(Command) :
          LET x == [w EXCEPT !.overview = ov, !.send = q]
          IN  x \in World /\ x.op = w.op /\ x.events = w.events /\ x.layers = w.layers
    BY <2>2 DEF World
  <2>5. Commit(w) = [w EXCEPT !.overview = ov, !.send = Append(w.send, c)]
    BY <1>1 DEF Commit, World, c, ov
  <2> DEFINE q == Append(w.send, c)
  <2>6. q \in Seq(Command)
    BY <2>3
  <2> HIDE DEF q
  <2>7. LET x == [w EXCEPT !.overview = ov, !.send = q]
        IN  x \in World /\ x.op = w.op /\ x.events = w.events /\ x.layers = w.layers
    BY <2>4, <2>6
  <2> QED BY <2>5, <2>7 DEF q
<1> QED BY <1>1 DEF Commit

LEMMA StateTyped ==
  ASSUME NEW w, Proper(w), NEW on \in BOOLEAN
  PROVE  Proper(SetState(w, on))
<1> DEFINE d == [on |-> on, stop |-> TRUE]
           x == Send(w, "state", 0, d)
           ov == [x.overview EXCEPT !.stop = TRUE]
<1>1. [kind |-> "state", seq |-> w.op.seq, at |-> 0, data |-> d] \in Command
  BY Fields DEF Command, Flags, Proper
<1> HIDE DEF d
<1>2. x \in World /\ x.op = w.op
  BY <1>1, SendTyped, SendFacts DEF Proper
<1> HIDE DEF x
<1>3. ov \in Overviews
  BY <1>2, Fields DEF Overviews, Unread
<1>4. [x EXCEPT !.overview = ov] \in World /\ [x EXCEPT !.overview = ov].op = x.op
  <2> HIDE DEF ov
  <2> QED BY <1>2, <1>3 DEF World
<1>5. SetState(w, on) = [x EXCEPT !.overview = ov]
  BY <1>2 DEF SetState, x, d, World
<1> QED BY <1>2, <1>4, <1>5 DEF Proper

LEMMA SlotsTyped ==
  ASSUME NEW w, Proper(w)
  PROVE  Proper(ReadSlots(w))
<1> DEFINE d == [got |-> <<>>, ok |-> TRUE, max |-> MaxSlots(w.overview)]
<1>1. 0 \in SlotNumbers
  <2>1. MaxSlots(w.overview) \in SlotCounts
    BY SlotFacts
  <2>2. MaxSlots(w.overview) \in Nat \ {0}
    BY <2>1, SlotFacts
  <2>3. 0 \in Nat /\ 0 < MaxSlots(w.overview)
    BY <2>2
  <2> QED BY <2>1, <2>3, SlotFacts
<1>2. <<>> \in Seq(CachedEvent) /\ MaxSlots(w.overview) \in SlotCounts
  BY SlotFacts
<1>3. [kind |-> "slots", seq |-> w.op.seq, at |-> 0, data |-> d] \in Command
  BY <1>1, <1>2, Fields DEF Command, Proper
<1> HIDE DEF d
<1>4. Send(w, "slots", 0, d) \in World /\ Send(w, "slots", 0, d).op = w.op
  BY <1>3, SendTyped, SendFacts DEF Proper
<1> QED BY <1>4 DEF ReadSlots, Proper, d

LEMMA WriteLayerTyped ==
  ASSUME NEW w \in World, ~IsEvent(w.op), NEW l \in Layers, NEW image \in Image,
         NEW day \in Days \cup {AllDays}
  PROVE  Proper(WriteLayer(w, l, image, day))
<1> DEFINE d == [days |-> image, day |-> day]
           y == Phase(w, "write")
           x == Send(y, "write", l, d)
           ls == [x.layers EXCEPT ![l].days = image]
<1>1. y \in World /\ y.op.cmd = w.op.cmd
  BY PhaseFacts DEF Phases
<1> HIDE DEF y
<1>2. [kind |-> "write", seq |-> y.op.seq, at |-> l, data |-> d] \in Command
  BY <1>1, Fields DEF Command
<1> HIDE DEF d
<1>3. x \in World /\ x.op = y.op
  BY <1>1, <1>2, SendTyped, SendFacts
<1> HIDE DEF x
<1>4. ls \in LayerCaches
  <2>1. x.layers \in LayerCaches
    BY <1>3, Fields
  <2>2. [x.layers[l] EXCEPT !.days = image] \in {Unread} \cup [known : {TRUE}, days : Image]
    BY <2>1 DEF LayerCaches, Unread
  <2> QED BY <2>1, <2>2 DEF LayerCaches
<1>5. [x EXCEPT !.layers = ls] \in World /\ [x EXCEPT !.layers = ls].op = x.op
  <2> HIDE DEF ls
  <2> QED BY <1>3, <1>4 DEF World
<1>6. WriteLayer(w, l, image, day) = [x EXCEPT !.layers = ls]
  BY <1>3 DEF WriteLayer, x, y, d, World
<1>7. ~IsEvent(x.op)
  BY <1>1, <1>3 DEF IsEvent
<1> QED BY <1>3, <1>5, <1>6, <1>7 DEF Proper, Named


\* A step of an operation in flight starts here.
Ready(w) == Proper(w) /\ WOk(w) /\ w.op.phase # "done"

LEMMA Wanted ==
  ASSUME NEW w, Ready(w)
  PROVE  /\ w \in World /\ w.op.req \in Requests /\ w.op.cmd = w.op.req.cmd
         /\ w.op.req.cmd \in Commands
  BY ProgramAssumption DEF Ready, Proper, WOk, OpOk

\* What was changed in the operation is no matter but to its own type.
LEMMA OpTyped ==
  ASSUME NEW w \in World, NEW o \in Operations, o.seq = w.op.seq
  PROVE  LET x == [w EXCEPT !.op = o]
         IN  /\ x \in World /\ x.op = o /\ x.send = w.send /\ x.overview = w.overview
             /\ x.layers = w.layers /\ x.events = w.events
  BY DEF World

LEMMA EventWritten ==
  ASSUME NEW w, Ready(w), IsEvent(w.op), NEW s \in Nat, NEW y, y \in World,
         y.op.slot = s, y.op.req = w.op.req, y.op.cmd = w.op.cmd
  PROVE  Proper(WriteEvent(y))
<1> DEFINE z == Phase(y, "write")
           r == w.op.req
           d == [ev |-> EventOf(y.op), chosen |-> y.op.cmd = "set_event" /\ y.op.req.slot = NoSlot]
<1>1. r \in Requests /\ r.cmd = y.op.cmd /\ y.op.req = r
  BY Wanted
<1>2. ASSUME s < MaxSlots(y.overview) PROVE Proper(Send(z, "event", s, d))
  <2>1. s \in SlotNumbers
    BY <1>2, SlotFacts
  <2>2. EventOf(y.op) \in Event /\ EventOf(y.op).index = s
    <3>1. CASE y.op.cmd = "set_event"
      <4>1. r.action \in {"run", "stop"} /\ r.begin \in Nat /\ r.end \in Nat
        BY <1>1, <3>1, ProgramAssumption
      <4> QED BY <1>1, <3>1, <4>1 DEF EventOf, Event
    <3>2. CASE y.op.cmd # "set_event"
      BY <3>2 DEF EventOf, Event, EmptySlot
    <3> QED BY <3>1, <3>2
  <2>3. d \in [ev : Event, chosen : BOOLEAN] /\ d.ev.index = s
    <3>1. (y.op.cmd = "set_event" /\ y.op.req.slot = NoSlot) \in BOOLEAN
      OBVIOUS
    <3> QED BY <2>2, <3>1
  <2> HIDE DEF d
  <2>4. z \in World /\ z.op.slot = s /\ z.op.cmd = y.op.cmd /\ z.op.phase = "write"
    BY PhaseFacts DEF Phases
  <2> HIDE DEF z
  <2>5. [kind |-> "event", seq |-> z.op.seq, at |-> s, data |-> d] \in Command
    <3>1. z.op.seq \in Nat
      BY <2>4, Fields
    <3> QED BY <2>1, <2>3, <3>1 DEF Command
  <2>6. Send(z, "event", s, d) \in World /\ Send(z, "event", s, d).op = z.op
    BY <2>4, <2>5, SendTyped, SendFacts
  <2> QED BY <2>1, <2>4, <2>6 DEF Proper, Named
<1> HIDE DEF d, z
<1>3. Proper(Finish(y, "rejected"))
  BY FinishNamed DEF Statuses
<1>4. s \in Nat /\ MaxSlots(y.overview) \in Nat
  BY SlotFacts
<1> QED BY <1>2, <1>3, <1>4 DEF WriteEvent, d, z

LEMMA HeldIs ==
  ASSUME NEW w \in World, w.events.known
  PROVE  w.events.held \in Seq(CachedEvent) /\ w.events.held \in Held
<1>1. w.events \in EventCaches
  BY Fields
<1>2. w.events \in [known : {TRUE}, held : Seq(CachedEvent)]
  BY <1>1, Known DEF EventCaches
<1>3. \A s \in Seq(CachedEvent) : s \in Seq(Event)
  BY DEF CachedEvent
<1> QED BY <1>2, <1>3 DEF Held

LEMMA NowIs == time \in 1..MaxTime => Now \in Nat
<1>1. MaxTime \in Nat
  BY ScheduleAssumption
<1> QED BY <1>1 DEF Now, NoClock

LEMMA FreeSlotIs ==
  ASSUME NEW held \in Held, NEW ov, Now \in Nat
  PROVE  FreeSlot(held, MaxSlots(ov), Now) \in Nat \cup {NoSlot}
<1> DEFINE max == MaxSlots(ov)
           s == FreeSlot(held, max, Now)
<1>1. max \in Nat
  BY SlotFacts
<1>2. \A i \in DOMAIN held : held[i].index \in Nat
  BY HeldTypes
<1>3. \A t \in 0..(max - 1) : t \in Nat
  BY <1>1
<1> HIDE DEF s, max
<1>4. \/ s \in 0..(max - 1)
      \/ \E i \in DOMAIN held : held[i].index = s
      \/ s = NoSlot
  BY <1>1, FreeSlotAnswers DEF s, max
<1>5. s \in Nat \cup {NoSlot}
  BY <1>2, <1>3, <1>4
<1> QED BY <1>5 DEF s, max

LEMMA ResolveTyped ==
  ASSUME NEW w, Ready(w), IsEvent(w.op), w.events.known, time \in 1..MaxTime
  PROVE  Proper(Resolve(w))
<1>0. w \in World /\ w.events.held \in Held /\ Now \in Nat
  BY HeldIs, NowIs DEF Ready, Proper
<1>1. Proper(ResolveVacation(w))
  <2> DEFINE slots == VacationSlots(w.events.held, Now)
             kept == SubSeq(slots, 1, Lesser(Len(slots), MAX_VACATIONS_PER_CLEAR))
             more == Len(slots) > Len(kept)
             y == [w EXCEPT !.op.todo = kept, !.op.slot = slots[1], !.op.unhandled = more]
  <2>1. slots \in Seq(Nat)
    <3>1. slots \in Seq(Indices(w.events.held))
      BY <1>0, VacationsMeant
    <3>2. Indices(w.events.held) \subseteq Nat
      BY <1>0, HeldTypes DEF Indices
    <3> HIDE DEF slots
    <3> QED BY <3>1, <3>2
  <2> HIDE DEF slots
  <2>2. ASSUME slots # <<>> PROVE Proper(WriteEvent(y))
    <3>1. kept \in Seq(Nat) /\ slots[1] \in Nat /\ more \in BOOLEAN
      <4>1. MAX_VACATIONS_PER_CLEAR \in Nat
        BY ScheduleAssumption
      <4>2. Lesser(Len(slots), MAX_VACATIONS_PER_CLEAR) \in 0..Len(slots)
        BY <2>1, <4>1 DEF Lesser
      <4> QED BY <2>1, <2>2, <4>2
    <3> HIDE DEF kept, more
    <3>2. y \in World /\ y.op.slot = slots[1] /\ y.op.req = w.op.req /\ y.op.cmd = w.op.cmd
      BY <1>0, <3>1 DEF World, Operations
    <3> HIDE DEF y
    <3> QED BY <3>1, <3>2, EventWritten
  <2>3. Proper(Finish(w, "accepted"))
    BY <1>0, FinishNamed DEF Statuses
  <2> HIDE DEF y
  <2> QED BY <2>2, <2>3 DEF ResolveVacation, slots, y, kept, more
<1>2. Proper(ResolveFree(w))
  <2> DEFINE s == FreeSlot(w.events.held, MaxSlots(w.overview), Now)
             y == [w EXCEPT !.op.slot = s]
  <2>1. s \in Nat \cup {NoSlot}
    BY <1>0, FreeSlotIs
  <2> HIDE DEF s
  <2>2. ASSUME s # NoSlot PROVE Proper(WriteEvent(y))
    <3>1. y \in World /\ y.op.slot = s /\ y.op.req = w.op.req /\ y.op.cmd = w.op.cmd
      BY <1>0, <2>1 DEF World, Operations
    <3> HIDE DEF y
    <3> QED BY <2>1, <2>2, <3>1, EventWritten
  <2>3. Proper(Finish(w, "rejected"))
    BY <1>0, FinishNamed DEF Statuses
  <2> HIDE DEF y
  <2> QED BY <2>2, <2>3 DEF ResolveFree, s, y
<1> QED BY <1>1, <1>2 DEF Resolve

-----------------------------------------------------------------------------
(* What each step of an operation makes of parts well typed.               *)

LEMMA LayerAsked ==
  ASSUME NEW w \in World, NEW phase \in {"read", "confirm"}, NEW at \in Layers,
         phase = "confirm" => ~IsEvent(w.op)
  PROVE  Proper(Send(Phase(w, phase), "layer", at, NoData))
<1> DEFINE y == Phase(w, phase)
<1>1. y \in World /\ y.op.phase = phase /\ y.op.cmd = w.op.cmd
  BY PhaseFacts DEF Phases
<1> HIDE DEF y
<1>2. [kind |-> "layer", seq |-> y.op.seq, at |-> at, data |-> NoData] \in Command
  BY <1>1, Fields DEF Command
<1>3. Send(y, "layer", at, NoData) \in World /\ Send(y, "layer", at, NoData).op = y.op
  BY <1>1, <1>2, SendTyped, SendFacts
<1>4. Proper(Send(y, "layer", at, NoData))
  BY <1>1, <1>3 DEF Proper, Named, IsEvent
<1> QED BY <1>4 DEF y

LEMMA GridTyped ==
  ASSUME NEW w \in World
  PROVE  Proper(ReadGrid(w))
<1> DEFINE y == Phase(w, "read")
           d == [ok |-> TRUE]
<1>1. y \in World /\ y.op.phase = "read" /\ y.op.cmd = w.op.cmd
  BY PhaseFacts DEF Phases
<1> HIDE DEF y
<1>2. [kind |-> "layers", seq |-> y.op.seq, at |-> 0, data |-> d] \in Command
  BY <1>1, Fields, Constants DEF Command
<1> HIDE DEF d
<1>3. Send(y, "layers", 0, d) \in World /\ Send(y, "layers", 0, d).op = y.op
  BY <1>1, <1>2, SendTyped, SendFacts
<1>4. Proper(Send(y, "layers", 0, d))
  BY <1>1, <1>3 DEF Proper, Named, IsEvent
<1> QED BY <1>4 DEF ReadGrid, y, d

LEMMA PollTyped ==
  ASSUME NEW w, Proper(w)
  PROVE  Proper(Send(w, "poll", 0, NoData))
<1>1. [kind |-> "poll", seq |-> w.op.seq, at |-> 0, data |-> NoData] \in Command
  BY Fields DEF Command, Proper
<1>2. Send(w, "poll", 0, NoData) \in World /\ Send(w, "poll", 0, NoData).op = w.op
  BY <1>1, SendTyped, SendFacts DEF Proper
<1> QED BY <1>2 DEF Proper

\* The next phase of an operation on no event, or on one that is named.
LEMMA PhaseNamed ==
  ASSUME NEW w, Proper(w), NEW phase \in Phases,
         ~IsEvent(w.op) \/ w.op.phase \in {"write", "due", "confirm"}
  PROVE  Proper(Phase(w, phase)) /\ Phase(w, phase).op.cmd = w.op.cmd
<1>1. /\ Phase(w, phase) \in World /\ Phase(w, phase).op.slot = w.op.slot
      /\ Phase(w, phase).op.cmd = w.op.cmd
  BY PhaseFacts DEF Proper
<1> QED BY <1>1 DEF Proper, Named, IsEvent

LEMMA ApplyTyped ==
  ASSUME NEW w, Proper(w), ~IsEvent(w.op)
  PROVE  Proper(ApplyEnabled(w))
<1> DEFINE y == Phase(w, "flag")
           z == Phase(w, "due")
           on == w.op.req.on = "on"
<1>1. Proper(y) /\ Proper(z) /\ z.op.cmd = w.op.cmd
  BY PhaseNamed DEF Phases
<1>2. on \in BOOLEAN
  OBVIOUS
<1> HIDE DEF y, z, on
<1>3. Proper(SetState(y, on))
  BY <1>1, <1>2, StateTyped
<1>4. Proper([z EXCEPT !.op.at = 0])
  <2>1. [z EXCEPT !.op.at = 0] \in World /\ [z EXCEPT !.op.at = 0].op.cmd = z.op.cmd
    BY <1>1 DEF Proper, World, Operations
  <2> QED BY <1>1, <2>1 DEF Proper, Named, IsEvent
<1> QED BY <1>3, <1>4 DEF ApplyEnabled, y, z, on

LEMMA UploadNextTyped ==
  ASSUME NEW w, Proper(w), ~IsEvent(w.op)
  PROVE  Proper(UploadNext(w))
<1> DEFINE y == [w EXCEPT !.op.at = @ + 1]
<1>1. y \in World /\ y.op.at = w.op.at + 1
  <2> DEFINE n == w.op.at + 1
  <2>1. w.op.at \in Nat
    BY DEF Proper, World, Operations
  <2>2. n \in Nat
    BY <2>1
  <2> HIDE DEF n
  <2>3. [w EXCEPT !.op.at = n] \in World /\ [w EXCEPT !.op.at = n].op.at = n
    BY <2>2 DEF Proper, World, Operations
  <2>4. y = [w EXCEPT !.op.at = n]
    BY DEF n, Proper, World, Operations
  <2> QED BY <2>3, <2>4 DEF n
<1> HIDE DEF y
<1>2. ~LastLayer(w) => Proper(ReadNext(y))
  BY <1>1, LayerAsked DEF LastLayer, ReadNext
<1> QED BY <1>2, ApplyTyped DEF UploadNext, y

LEMMA ConfirmUploadTyped ==
  ASSUME NEW w, Proper(w), ~IsEvent(w.op)
  PROVE  Proper(ConfirmUpload(w))
<1> DEFINE left == {l \in w.op.written : l >= w.op.at}
           l == CHOOSE l \in left : \A k \in left : l <= k
           y == [Phase(w, "confirm") EXCEPT !.op.at = l]
<1>1. ASSUME left # {} PROVE Proper(Send(y, "layer", l, NoData))
  <2>1. left \subseteq Layers /\ left \in SUBSET Nat
    BY Constants DEF Proper, World, Operations
  <2>2. l \in Layers /\ l \in Nat
    BY <1>1, <2>1, Least
  <2> DEFINE z == [w EXCEPT !.op.at = l]
  <2> HIDE DEF left, l
  <2>3. z \in World /\ z.op.cmd = w.op.cmd
    BY <2>2 DEF Proper, World, Operations
  <2>4. y = Phase(z, "confirm")
    BY DEF Phase, Proper, World, Operations
  <2> HIDE DEF y, z
  <2>5. Proper(Send(Phase(z, "confirm"), "layer", l, NoData))
    BY <2>2, <2>3, LayerAsked DEF IsEvent
  <2> QED BY <2>4, <2>5
<1>2. Proper(FinishUpload(w))
  BY FinishNamed DEF FinishUpload, Statuses, Proper
<1> HIDE DEF left, l, y
<1> QED BY <1>1, <1>2 DEF ConfirmUpload, left, l, y

LEMMA AfterOverviewTyped ==
  ASSUME NEW w, Ready(w), time \in 1..MaxTime, w.op.cmd = "upload" => w.op.at \in Layers,
         w.op.phase = "start"
  PROVE  Proper(AfterOverview(w))
<1> DEFINE y == Phase(w, "write")
           z == Phase(w, "slots")
<1>1. w \in World /\ w.op.req \in Requests /\ w.op.cmd = w.op.req.cmd /\ w.op.slot \in Nat \cup {NoSlot}
  BY Wanted DEF World, Operations
<1>2. ASSUME IsEntry(w.op) PROVE Proper(Send(Phase(w, "read"), "layer", w.op.req.layer, NoData))
  BY <1>1, <1>2, LayerAsked DEF Ready, WOk, OpOk
<1>3. ASSUME w.op.cmd = "set_enabled" PROVE Proper(SetState(y, w.op.req.on))
  <2>1. w.op.req.on \in BOOLEAN
    BY <1>1, <1>3, ProgramAssumption
  <2>2. Proper(y)
    BY <1>1, <1>3, PhaseNamed DEF Ready, Phases, IsEvent
  <2> HIDE DEF y
  <2> QED BY <2>1, <2>2, StateTyped
<1>4. ASSUME IsEvent(w.op), w.op.slot # NoSlot PROVE Proper(WriteEvent(w))
  BY <1>1, <1>4, EventWritten
<1>5. ASSUME IsEvent(w.op), w.events.known PROVE Proper(Resolve(w))
  BY <1>5, ResolveTyped
<1>6. ASSUME w.op.cmd = "upload" PROVE Proper(ReadNext(w))
  BY <1>1, <1>6, LayerAsked DEF ReadNext
<1>7. Proper(ReadSlots(z))
  <2>1. z \in World /\ z.op.phase = "slots"
    BY <1>1, PhaseFacts DEF Phases
  <2> HIDE DEF z
  <2>2. Proper(z)
    BY <2>1 DEF Proper, Named
  <2> QED BY <2>2, SlotsTyped
<1> QED BY <1>2, <1>3, <1>4, <1>5, <1>6, <1>7 DEF AfterOverview
-----------------------------------------------------------------------------
LEMMA OnPollTyped ==
  ASSUME NEW w, Ready(w), OfFlag(w.op), NEW ok \in BOOLEAN
  PROVE  Proper(OnPoll(w, ok))
<1>1. ~IsEvent(w.op) /\ Proper(w) /\ w \in World
  BY DEF OfFlag, IsEvent, Ready, Proper
<1>2. ASSUME NEW flag \in {"unreadable", "mismatch", "taken"}
      PROVE  Proper([Phase(w, "due") EXCEPT !.op.at = 0, !.op.flag = flag])
  <2> DEFINE z == Phase(w, "due")
             x == [z EXCEPT !.op.at = 0, !.op.flag = flag]
  <2>1. Proper(z) /\ z.op.cmd = w.op.cmd
    BY <1>1, PhaseNamed DEF Phases
  <2> HIDE DEF z
  <2>2. x \in World /\ x.op.cmd = z.op.cmd
    BY <2>1 DEF Proper, World, Operations
  <2> HIDE DEF x
  <2>3. Proper(x)
    BY <1>1, <2>1, <2>2 DEF Proper, Named, IsEvent
  <2> QED BY <2>3 DEF x, z
<1>3. \A s \in Statuses : Proper(Finish(w, s)) /\ Proper(Retry(w, s))
  BY <1>1, FinishNamed, RetryNamed
<1> QED BY <1>2, <1>3 DEF OnPoll, Statuses

LEMMA OnStateTyped ==
  ASSUME NEW w, Ready(w), OfFlag(w.op)
  PROVE  Proper(OnState(w))
<1>1. ~IsEvent(w.op) /\ Proper(w)
  BY DEF OfFlag, IsEvent, Ready
<1>2. Proper(Phase(w, "due"))
  BY <1>1, PhaseNamed DEF Phases
<1> QED BY <1>1, <1>2, PollTyped DEF OnState

LEMMA OnWrittenTyped ==
  ASSUME NEW w, Ready(w), w.op.phase = "write", w.op.cmd = "upload" => w.op.at \in Layers
  PROVE  Proper(OnWritten(w))
<1> DEFINE y == [w EXCEPT !.op.written = @ \cup {w.op.at}]
<1>1. Proper(w)
  BY DEF Ready
<1>2. ASSUME w.op.cmd = "upload" PROVE Proper(UploadNext(y))
  <2>1. y \in World /\ y.op.cmd = w.op.cmd
    BY <1>1, <1>2 DEF Proper, World, Operations
  <2> HIDE DEF y
  <2>2. ~IsEvent(y.op)
    BY <1>2, <2>1 DEF IsEvent
  <2> QED BY <2>1, <2>2, UploadNextTyped DEF Proper, Named
<1>3. Proper(Phase(w, "due"))
  BY <1>1, PhaseNamed DEF Phases
<1> QED BY <1>2, <1>3 DEF OnWritten

LEMMA OnSlotsTyped ==
  ASSUME NEW w, Ready(w), IsEvent(w.op) \/ w.op.cmd = "refresh_events", NEW ok \in BOOLEAN,
         ok => w.events.known, time \in 1..MaxTime
  PROVE  Proper(OnSlots(w, ok))
<1>1. \A s \in Statuses : Proper(Finish(w, s))
  BY FinishNamed DEF Ready, Proper
<1> QED BY <1>1, ResolveTyped DEF OnSlots, Statuses

LEMMA OnSlotTyped ==
  ASSUME NEW w, Ready(w), IsEvent(w.op), w.op.phase = "confirm", NEW ok, NEW ev
  PROVE  Proper(OnSlot(w, ok, ev))
<1> DEFINE o == w.op
           y == [w EXCEPT !.op.cursor = @ + 1, !.op.tries = 0,
                          !.op.slot = o.todo[o.cursor + 1]]
<1>1. ASSUME MoreVacations(o) PROVE Proper(WriteEvent(y))
  <2> DEFINE s == o.todo[o.cursor + 1]
  <2>1. o.todo \in Seq(Nat) /\ o.cursor \in Nat \ {0}
    BY DEF Ready, Proper, World, Operations
  <2>2. s \in Nat
    <3>1. o.cursor < Len(o.todo) /\ Len(o.todo) \in Nat
      BY <1>1, <2>1 DEF MoreVacations
    <3>2. o.cursor + 1 \in 1..Len(o.todo)
      BY <2>1, <3>1
    <3> HIDE DEF o
    <3> QED BY <2>1, <3>2
  <2>3. SCHED_MAX_ATTEMPTS \in Nat
    BY ScheduleAssumption
  <2> HIDE DEF s
  <2> DEFINE n == o.cursor + 1
             x == [w EXCEPT !.op.cursor = n, !.op.tries = 0, !.op.slot = s]
  <2>4. n \in Nat \ {0} /\ 0 \in 0..SCHED_MAX_ATTEMPTS
    BY <2>1, <2>3
  <2>5. y = x
    BY DEF Ready, Proper, World, Operations, s
  <2> HIDE DEF n
  <2>6. x \in World /\ x.op.slot = s /\ x.op.req = w.op.req /\ x.op.cmd = w.op.cmd
    BY <2>2, <2>4 DEF Ready, Proper, World, Operations
  <2>7. y \in World /\ y.op.slot = s /\ y.op.req = w.op.req /\ y.op.cmd = w.op.cmd
    BY <2>5, <2>6
  <2> HIDE DEF y
  <2> QED BY <2>2, <2>7, EventWritten
<1>2. \A s \in Statuses : Proper(Finish(w, s)) /\ Proper(Retry(w, s))
  BY FinishNamed, RetryNamed DEF Ready, Proper
<1> HIDE DEF y
<1> QED BY <1>1, <1>2 DEF OnSlot, Statuses, y

LEMMA OnLayerTyped ==
  ASSUME NEW w, Ready(w), IsEntry(w.op) \/ w.op.cmd = "upload", w.op.phase \in {"read", "confirm"},
         NEW ok \in BOOLEAN, NEW at \in Layers, IsEntry(w.op) => at = w.op.req.layer,
         w.op.cmd = "upload" => at = w.op.at, ok => w.layers[at].known
  PROVE  Proper(OnLayer(w, ok))
<1> DEFINE r == w.op.req
<1>1. /\ w \in World /\ Proper(w) /\ r \in Requests /\ r.cmd = w.op.cmd /\ ~IsEvent(w.op)
      /\ \A s \in Statuses : Proper(Finish(w, s)) /\ Proper(Retry(w, s))
  <2>1. w \in World /\ Proper(w) /\ r \in Requests /\ r.cmd = w.op.cmd /\ ~IsEvent(w.op)
    BY Wanted DEF Ready, IsEvent, IsEntry
  <2> QED BY <2>1, FinishNamed, RetryNamed
<1>2. ASSUME IsEntry(w.op) PROVE Proper(EntryRead(w, ok))
  <2>1. r.layer = at /\ r.day \in Days
    BY <1>2 DEF Ready, WOk, OpOk
  <2>2. ASSUME ok PROVE Proper(WriteLayer(w, at, Patched(w.layers[at].days, r), r.day))
    <3> DEFINE days == w.layers[at].days
               cell == IF r.cmd = "set_entry" THEN [on |-> TRUE, at |-> r.at] ELSE Off
    <3>1. w.layers[at] \in {Unread} \cup [known : {TRUE}, days : Image]
      BY <1>1, Fields DEF LayerCaches
    <3>2. days \in Image
      BY <2>2, <3>1, Known
    <3>3. cell \in Cell
      BY <1>1, ProgramAssumption, Constants DEF Cell, Off
    <3>4. Patched(days, r) = [days EXCEPT ![r.day] = cell]
      BY DEF Patched
    <3> HIDE DEF cell, days
    <3>5. Patched(days, r) \in Image
      BY <3>2, <3>3, <3>4 DEF Image
    <3> DEFINE image == Patched(days, r)
    <3>6. image \in Image
      BY <3>5
    <3> HIDE DEF image
    <3>7. Proper(WriteLayer(w, at, image, r.day))
      BY <1>1, <2>1, <3>6, WriteLayerTyped
    <3> QED BY <3>7 DEF image, days
  <2> QED BY <1>1, <2>1, <2>2 DEF EntryRead, Statuses
<1>3. Proper(EntryConfirmed(w, ok))
  BY <1>1 DEF EntryConfirmed, Statuses
<1>4. ASSUME w.op.cmd = "upload", w.op.phase = "read" PROVE Proper(UploadRead(w, ok))
  <2>1. w.op.at \in Layers
    BY <1>4 DEF Ready, WOk, OpOk
  <2>2. r.grid[w.op.at] \in Image
    BY <1>1, <1>4, <2>1, ProgramAssumption DEF Grids
  <2> DEFINE f == [w EXCEPT !.op.failed = @ \cup {w.op.at}]
             s == [w EXCEPT !.op.skipped = @ \cup {w.op.at}]
  <2>3. f \in World /\ f.op.cmd = "upload" /\ s \in World /\ s.op.cmd = "upload"
    BY <1>1, <1>4, <2>1 DEF World, Operations
  <2> HIDE DEF f, s
  <2>4. Proper(UploadNext(f)) /\ Proper(UploadNext(s))
    BY <2>3, UploadNextTyped DEF Proper, Named, IsEvent
  <2>5. Proper(WriteLayer(w, w.op.at, r.grid[w.op.at], AllDays))
    BY <1>1, <2>1, <2>2, WriteLayerTyped
  <2> QED BY <2>4, <2>5 DEF UploadRead, f, s
<1>5. ASSUME w.op.cmd = "upload", w.op.phase = "confirm", w.op.at \in Layers
      PROVE  Proper(UploadConfirmed(w, ok))
  <2> DEFINE l == w.op.at
             m == [w EXCEPT !.op.written = @ \ {l}, !.op.failed = @ \cup {l}]
  <2>1. m \in World /\ m.op.cmd = "upload"
    BY <1>1, <1>5 DEF World, Operations
  <2>2. ASSUME NEW x \in World, x.op.cmd = "upload"
        PROVE  Proper(ConfirmUpload([x EXCEPT !.op.at = l + 1]))
    <3> DEFINE y == [x EXCEPT !.op.at = l + 1]
    <3>0. l \in Nat
      BY <1>1 DEF World, Operations
    <3>1. l + 1 \in Nat
      BY <3>0
    <3>2. y \in World /\ y.op.cmd = "upload"
      <4> DEFINE n == l + 1
      <4>1. n \in Nat
        BY <3>1
      <4> HIDE DEF n
      <4>2. [x EXCEPT !.op.at = n] \in World /\ [x EXCEPT !.op.at = n].op.cmd = "upload"
        BY <2>2, <4>1 DEF World, Operations
      <4> QED BY <4>2 DEF n
    <3> HIDE DEF y
    <3>3. Proper(ConfirmUpload(y))
      BY <3>2, ConfirmUploadTyped DEF Proper, Named, IsEvent
    <3> QED BY <3>3 DEF y
  <2> HIDE DEF m
  <2>3. Proper(ConfirmUpload([m EXCEPT !.op.at = l + 1]))
        /\ Proper(ConfirmUpload([w EXCEPT !.op.at = l + 1]))
    BY <1>1, <1>5, <2>1, <2>2
  <2> QED BY <2>3 DEF UploadConfirmed, m
<1> QED BY <1>2, <1>3, <1>4, <1>5 DEF OnLayer

-----------------------------------------------------------------------------
(* The answers, and what a command brings and leaves behind.               *)

\* A command by its kind.
LEMMA CommandIs ==
  ASSUME NEW c \in Command
  PROVE  /\ DOMAIN c = {"kind", "seq", "at", "data"} /\ c.kind \in CommandKinds /\ c.seq \in Nat
         /\ c.kind \in {"layer", "layers", "write"} => c.at \in Layers
         /\ c.kind \in {"slot", "slots", "event"} => c.at \in SlotNumbers
         /\ c.kind = "write" => c.data.days \in Image /\ c.data.day \in Days \cup {AllDays}
         /\ c.kind = "layers" => c.data \in [ok : BOOLEAN]
         /\ c.kind = "slots" => c.data \in [got : Seq(CachedEvent), ok : BOOLEAN, max : SlotCounts]
         /\ c.kind = "event" => c.data.ev \in Event /\ c.data.ev.index = c.at
         /\ c.kind \in {"state", "commit"} => c.data \in Flags
  BY DEF Command, CommandKinds

LEMMA NextOf ==
  ASSUME NEW c \in Command, NEW data
  PROVE  /\ c.kind = "layers" /\ c.at + 1 \in Layers /\ data \in [ok : BOOLEAN] =>
              [c EXCEPT !.at = @ + 1, !.data = data] \in Command
         /\ c.kind = "slots" /\ c.at + 1 \in SlotNumbers
              /\ data \in [got : Seq(CachedEvent), ok : BOOLEAN, max : SlotCounts] =>
              [c EXCEPT !.at = @ + 1, !.data = data] \in Command
<1> DEFINE L == [kind : {"layers"}, seq : Nat, at : Layers, data : [ok : BOOLEAN]]
           S == [kind : {"slots"}, seq : Nat, at : SlotNumbers,
                 data : [got : Seq(CachedEvent), ok : BOOLEAN, max : SlotCounts]]
<1>1. (c.kind = "layers" => c \in L) /\ (c.kind = "slots" => c \in S)
  BY DEF Command
<1>2. L \subseteq Command /\ S \subseteq Command
  BY DEF Command
<1> DEFINE b == c.at + 1
<1> HIDE DEF b
<1>3. c \in L /\ b \in Layers /\ data \in [ok : BOOLEAN] => [c EXCEPT !.at = b, !.data = data] \in L
  OBVIOUS
<1>4. c \in S /\ b \in SlotNumbers /\ data \in [got : Seq(CachedEvent), ok : BOOLEAN, max : SlotCounts]
        => [c EXCEPT !.at = b, !.data = data] \in S
  OBVIOUS
<1>5. c \in L \/ c \in S => [c EXCEPT !.at = @ + 1, !.data = data] = [c EXCEPT !.at = b, !.data = data]
  BY DEF b
<1> HIDE DEF L, S
<1>6. ASSUME c.kind = "layers", c.at + 1 \in Layers, data \in [ok : BOOLEAN]
      PROVE  [c EXCEPT !.at = @ + 1, !.data = data] \in Command
  <2>1. c \in L /\ b \in Layers
    BY <1>1, <1>6 DEF b
  <2>2. [c EXCEPT !.at = b, !.data = data] \in Command
    BY <1>2, <1>3, <1>6, <2>1
  <2> QED BY <1>5, <2>1, <2>2, Zenon
<1>7. ASSUME c.kind = "slots", c.at + 1 \in SlotNumbers,
             data \in [got : Seq(CachedEvent), ok : BOOLEAN, max : SlotCounts]
      PROVE  [c EXCEPT !.at = @ + 1, !.data = data] \in Command
  <2>1. c \in S /\ b \in SlotNumbers
    BY <1>1, <1>7 DEF b
  <2>2. [c EXCEPT !.at = b, !.data = data] \in Command
    BY <1>2, <1>4, <1>7, <2>1
  <2> QED BY <1>5, <2>1, <2>2, Zenon
<1> QED BY <1>6, <1>7

\* What a read brings.
Brings(c, v) ==
  /\ c.kind = "poll" => v \in Flags
  /\ c.kind \in {"layer", "layers"} => v \in Image
  /\ c.kind = "slots" => v \in Event /\ v.index = c.at

\* A command is sent that no step of an operation asks for.
LEMMA SentOn ==
  ASSUME NEW w, Proper(w), NEW c \in Command
  PROVE  Proper([w EXCEPT !.send = Append(@, c)])
<1>1. Append(w.send, c) \in Seq(Command) /\ w \in World
  BY Fields DEF Proper
<1>2. \A q \in Seq(Command) : [w EXCEPT !.send = q] \in World /\ [w EXCEPT !.send = q].op = w.op
  BY <1>1 DEF World
<1>3. [w EXCEPT !.send = Append(@, c)] = [w EXCEPT !.send = Append(w.send, c)]
  BY <1>1 DEF World
<1> DEFINE q == Append(w.send, c)
<1> HIDE DEF q
<1>4. [w EXCEPT !.send = q] \in World /\ [w EXCEPT !.send = q].op = w.op
  BY <1>1, <1>2 DEF q
<1> QED BY <1>3, <1>4 DEF q, Proper

\* What is read into a cache.
LEMMA OverviewRead ==
  ASSUME NEW w \in World, NEW v \in Flags
  PROVE  LET x == [w EXCEPT !.overview = [known |-> TRUE, on |-> v.on, stop |-> v.stop]]
         IN  x \in World /\ x.op = w.op
  BY DEF World, Overviews, Flags

LEMMA LayerRead ==
  ASSUME NEW w \in World, NEW at \in Layers, NEW v \in Image
  PROVE  LET x == [w EXCEPT !.layers[at] = [known |-> TRUE, days |-> v]]
         IN  x \in World /\ x.op = w.op /\ x.layers[at].known
<1> DEFINE e == [known |-> TRUE, days |-> v]
           ls == [w.layers EXCEPT ![at] = e]
<1>1. e \in [known : {TRUE}, days : Image] /\ e.known
  OBVIOUS
<1> HIDE DEF e
<1>2. ls \in LayerCaches /\ ls[at] = e
  BY <1>1, Fields DEF LayerCaches
<1> HIDE DEF ls
<1>3. [w EXCEPT !.layers = ls] \in World /\ [w EXCEPT !.layers = ls].op = w.op
      /\ [w EXCEPT !.layers = ls].layers = ls
  BY <1>2 DEF World
<1>4. [w EXCEPT !.layers[at] = e] = [w EXCEPT !.layers = ls]
  BY DEF ls, World
<1> QED BY <1>1, <1>2, <1>3, <1>4 DEF e

LEMMA EventsRead ==
  ASSUME NEW w \in World, NEW held \in Seq(CachedEvent)
  PROVE  LET x == [w EXCEPT !.events = [known |-> TRUE, held |-> held]]
         IN  x \in World /\ x.op = w.op /\ x.events.known
<1> DEFINE e == [known |-> TRUE, held |-> held]
<1>1. e \in EventCaches /\ e.known
  BY DEF EventCaches
<1> HIDE DEF e
<1>2. [w EXCEPT !.events = e] \in World /\ [w EXCEPT !.events = e].op = w.op
      /\ [w EXCEPT !.events = e].events = e
  BY <1>1 DEF World
<1> QED BY <1>1, <1>2 DEF e

LEMMA RecachedTyped ==
  ASSUME NEW held \in Seq(CachedEvent), NEW ev \in Event, ev.index \in SlotNumbers
  PROVE  Recached(held, ev) \in Seq(CachedEvent)
<1> DEFINE I == {i \in DOMAIN held : held[i].index # ev.index}
<1>1. Kept(held, I) \in Seq(CachedEvent)
  BY KeptIs
<1> HIDE DEF I
<1>2. ev.on => ev \in CachedEvent
  BY DEF CachedEvent
<1> DEFINE k == Kept(held, I)
<1>3. k \in Seq(CachedEvent)
  BY <1>1
<1> HIDE DEF k
<1>4. ev.on => Append(k, ev) \in Seq(CachedEvent)
  BY <1>2, <1>3
<1> QED BY <1>3, <1>4 DEF Recached, k, I

LEMMA DoneTyped ==
  ASSUME Proper(Here), WOk(Here), time \in 1..MaxTime,
         NEW c \in Command, op.phase # "done" /\ c.seq = op.seq => op.phase # "due" /\ OwnOk(op, c),
         NEW ok \in BOOLEAN, NEW v, ok => Brings(c, v)
  PROVE  Proper(Done(Here, c, ok, v))
<1> DEFINE w == Here
<1>0. w.op = op /\ w.layers = layers /\ w.events = events /\ Proper(w) /\ WOk(w) /\ w \in World
  BY DEF Here, Proper
<1> HIDE DEF w
\* An operation in flight that waited for c goes on from x.
<1>1. ASSUME NEW x \in World, x.op = op, InFlight(x, c)
      PROVE  Ready(x) /\ op.phase \notin {"done", "due"} /\ OwnOk(op, c)
  <2>1. DOMAIN x = WFields /\ DOMAIN x.layers = Layers
    BY <1>1 DEF World, WFields, LayerCaches
  <2>2. OpOk(x.op) /\ Named(x.op)
    BY <1>0, <1>1 DEF WOk, Proper
  <2> QED BY <1>1, <2>1, <2>2 DEF Ready, Proper, WOk, InFlight
<1>2. ASSUME NEW x \in World, x.op = op PROVE Proper(x)
  BY <1>0, <1>2 DEF Proper
<1>6. CASE c.kind = "poll"
  <2> DEFINE x == IF ok THEN [w EXCEPT !.overview = [known |-> TRUE, on |-> v.on, stop |-> v.stop]] ELSE w
  <2>1. x \in World /\ x.op = op
    BY <1>0, <1>6, OverviewRead DEF Brings
  <2> HIDE DEF x
  <2>2. InFlight(x, c) => Proper(OnPoll(x, ok))
    BY <1>1, <1>6, <2>1, OnPollTyped DEF OwnOk
  <2>3. Done(w, c, ok, v) = PollDone(w, c, ok, v)
    BY <1>6 DEF Done
  <2> QED BY <1>2, <2>1, <2>2, <2>3 DEF PollDone, x, w
<1>7. CASE c.kind = "layer"
  <2> DEFINE x == IF ok THEN [w EXCEPT !.layers[c.at] = [known |-> TRUE, days |-> v]] ELSE w
  <2>0. c.at \in Layers
    BY <1>7, CommandIs
  <2>1. x \in World /\ x.op = op /\ (ok => x.layers[c.at].known)
    BY <1>0, <1>7, <2>0, LayerRead DEF Brings
  <2> HIDE DEF x
  <2>2. ASSUME InFlight(x, c) PROVE Proper(OnLayer(x, ok))
    <3>1. Ready(x) /\ OwnOk(x.op, c)
      BY <1>1, <2>1, <2>2
    <3>2. /\ IsEntry(x.op) \/ x.op.cmd = "upload"
          /\ IsEntry(x.op) => c.at = x.op.req.layer
          /\ x.op.cmd = "upload" => c.at = x.op.at
          /\ x.op.phase \in {"read", "confirm"}
      BY <1>7, <3>1 DEF OwnOk
    <3> QED BY <2>0, <2>1, <3>1, <3>2, OnLayerTyped
  <2>3. Done(w, c, ok, v) = LayerDone(w, c, ok, v)
    BY <1>7 DEF Done
  <2> QED BY <1>2, <2>1, <2>2, <2>3 DEF LayerDone, x, w
<1>8. CASE c.kind = "layers"
  <2> DEFINE x == IF ok THEN [w EXCEPT !.layers[c.at] = [known |-> TRUE, days |-> v]] ELSE w
             data == [ok |-> ok /\ c.data.ok]
             f == [c EXCEPT !.at = @ + 1, !.data = data]
  <2>0. c.at \in Layers /\ c.data \in [ok : BOOLEAN]
    BY <1>8, CommandIs
  <2>1. x \in World /\ x.op = op
    BY <1>0, <1>8, <2>0, LayerRead DEF Brings
  <2> HIDE DEF x
  <2>2. ASSUME c.at + 1 \in Layers PROVE f \in Command
    <3>1. data \in [ok : BOOLEAN]
      BY <2>0
    <3> HIDE DEF data
    <3> QED BY <1>8, <2>2, <3>1, NextOf
  <2> HIDE DEF f, data
  <2>3. c.at + 1 \in Layers => Proper([x EXCEPT !.send = Append(@, f)])
    BY <1>2, <2>1, <2>2, SentOn
  <2>4. \A s \in {"accepted", "timeout"} : Proper(Finish(x, s))
    BY <2>1, FinishNamed DEF Statuses
  <2>5. Done(w, c, ok, v) = LayersDone(w, c, ok, v)
    BY <1>8 DEF Done
  <2> QED BY <1>2, <2>1, <2>3, <2>4, <2>5 DEF LayersDone, x, f, data, w
<1>9. CASE c.kind = "write"
  <2> DEFINE x == Commit(w)
  <2>1. x \in World /\ x.op = op
    BY <1>0, CommitTyped
  <2> HIDE DEF x
  <2>2. ASSUME InFlight(x, c) PROVE Proper(OnWritten(x))
    <3>1. Ready(x) /\ OwnOk(x.op, c)
      BY <1>1, <2>1, <2>2
    <3>2. x.op.phase = "write" /\ (x.op.cmd = "upload" => x.op.at \in Layers)
      BY <1>9, <3>1 DEF OwnOk, Ready, WOk, OpOk
    <3> QED BY <3>1, <3>2, OnWrittenTyped
  <2>3. Done(w, c, ok, v) = WriteDone(w, c)
    BY <1>9 DEF Done
  <2> QED BY <1>2, <2>1, <2>2, <2>3 DEF WriteDone, x, w
<1>10. CASE c.kind = "state"
  <2>1. ASSUME InFlight(w, c) PROVE Proper(OnState(w))
    BY <1>0, <1>1, <1>10, <2>1, OnStateTyped DEF OwnOk
  <2>2. Done(w, c, ok, v) = StateDone(w, c)
    BY <1>10 DEF Done
  <2> QED BY <1>0, <1>2, <2>1, <2>2 DEF StateDone, w
<1>11. CASE c.kind = "slots"
  <2> DEFINE d == c.data
             got == IF ok /\ v.on THEN Append(d.got, v) ELSE d.got
             data == [d EXCEPT !.ok = ChainOk(ok, d),
                        !.got = IF ok /\ v.on THEN Append(@, v) ELSE @]
             all == IF data.ok THEN [w EXCEPT !.events = [known |-> TRUE, held |-> data.got]] ELSE w
             f == [c EXCEPT !.at = @ + 1, !.data = data]
  <2>0. c.at \in SlotNumbers /\ d \in [got : Seq(CachedEvent), ok : BOOLEAN, max : SlotCounts]
    BY <1>11, CommandIs
  <2>1. got \in Seq(CachedEvent)
    <3>1. ok /\ v.on => v \in CachedEvent
      BY <1>11, <2>0 DEF Brings, CachedEvent
    <3>2. d.got \in Seq(CachedEvent)
      BY <2>0
    <3> HIDE DEF d
    <3> QED BY <3>1, <3>2
  <2>2. data \in [got : Seq(CachedEvent), ok : BOOLEAN, max : SlotCounts]
        /\ data.got = got /\ data.max = d.max /\ (data.ok => ok)
    <3>1. ChainOk(ok, d) \in BOOLEAN
      BY DEF ChainOk
    <3>2. data = [d EXCEPT !.ok = ChainOk(ok, d), !.got = got]
      BY <2>0
    <3> HIDE DEF got, d
    <3>3. [d EXCEPT !.ok = ChainOk(ok, d), !.got = got]
             \in [got : Seq(CachedEvent), ok : BOOLEAN, max : SlotCounts]
          /\ [d EXCEPT !.ok = ChainOk(ok, d), !.got = got].got = got
          /\ [d EXCEPT !.ok = ChainOk(ok, d), !.got = got].max = d.max
          /\ [d EXCEPT !.ok = ChainOk(ok, d), !.got = got].ok = ChainOk(ok, d)
      BY <2>0, <2>1, <3>1
    <3> QED BY <3>2, <3>3 DEF ChainOk
  <2> HIDE DEF data, got
  <2>3. all \in World /\ all.op = op /\ (data.ok => all.events.known)
    BY <1>0, <2>2, EventsRead
  <2> HIDE DEF all
  <2>4. ASSUME c.at + 1 < data.max PROVE f \in Command
    <3>3. c.at + 1 \in Nat /\ data.max \in SlotCounts
      <4>1. c.at \in Nat
        BY <2>0, SlotFacts
      <4> QED BY <2>2, <4>1
    <3>4. c.at + 1 \in SlotNumbers
      BY <2>4, <3>3, SlotFacts
    <3> QED BY <1>11, <2>2, <3>4, NextOf
  <2> HIDE DEF f
  <2>5. c.at + 1 < data.max => Proper([w EXCEPT !.send = Append(@, f)])
    BY <1>0, <2>4, SentOn
  <2>6. ASSUME InFlight(all, c) PROVE Proper(OnSlots(all, data.ok))
    <3>1. Ready(all) /\ OwnOk(all.op, c)
      BY <1>1, <2>3, <2>6
    <3>2. IsEvent(all.op) \/ all.op.cmd = "refresh_events"
      BY <1>11, <3>1 DEF OwnOk
    <3>3. data.ok \in BOOLEAN
      BY <2>2
    <3> QED BY <2>3, <3>1, <3>2, <3>3, OnSlotsTyped
  <2>7. Done(w, c, ok, v) = SlotsDone(w, c, ok, v)
    BY <1>11 DEF Done
  <2> QED BY <1>2, <2>3, <2>5, <2>6, <2>7 DEF SlotsDone, all, f, data, d, w
<1>12. CASE c.kind = "slot"
  <2>1. ASSUME InFlight(w, c) PROVE Proper(OnSlot(w, ok, v))
    BY <1>0, <1>1, <1>12, <2>1, OnSlotTyped DEF OwnOk
  <2>2. Done(w, c, ok, v) = SlotDone(w, c, ok, v)
    BY <1>12 DEF Done
  <2> QED BY <1>0, <1>2, <2>1, <2>2 DEF SlotDone, w
<1>13. CASE c.kind = "event"
  <2> DEFINE y == Commit(w)
             x == IF y.events.known THEN [y EXCEPT !.events.held = Recached(@, c.data.ev)] ELSE y
  <2>1. y \in World /\ y.op = op
    BY <1>0, CommitTyped
  <2> HIDE DEF y
  <2>2. ASSUME y.events.known
        PROVE  [y EXCEPT !.events.held = Recached(@, c.data.ev)] \in World
               /\ [y EXCEPT !.events.held = Recached(@, c.data.ev)].op = y.op
    <3> DEFINE held == Recached(y.events.held, c.data.ev)
               e == [y.events EXCEPT !.held = held]
    <3>1. y.events \in [known : {TRUE}, held : Seq(CachedEvent)]
      BY <2>1, <2>2, Fields, Known DEF EventCaches
    <3>2. held \in Seq(CachedEvent)
      BY <1>13, <3>1, CommandIs, RecachedTyped
    <3> HIDE DEF held
    <3>3. e \in EventCaches
      BY <3>1, <3>2 DEF EventCaches
    <3> HIDE DEF e
    <3>4. [y EXCEPT !.events = e] \in World /\ [y EXCEPT !.events = e].op = y.op
      BY <2>1, <3>3 DEF World
    <3>5. [y EXCEPT !.events.held = Recached(@, c.data.ev)] = [y EXCEPT !.events = e]
      BY <2>1 DEF World, e, held
    <3> QED BY <3>4, <3>5
  <2>3. x \in World /\ x.op = op
    BY <2>1, <2>2
  <2> HIDE DEF x
  <2>4. ASSUME InFlight(x, c) PROVE Proper(Phase(x, "due"))
    <3>1. Ready(x) /\ x.op.phase = "write"
      BY <1>1, <1>13, <2>3, <2>4 DEF OwnOk
    <3> QED BY <3>1, PhaseNamed DEF Ready, Phases
  <2>5. Done(w, c, ok, v) = EventDone(w, c)
    BY <1>13 DEF Done
  <2> QED BY <1>2, <2>3, <2>4, <2>5 DEF EventDone, x, y, w
<1>14. CASE c.kind = "commit"
  <2>1. Done(w, c, ok, v) = w
    BY <1>14 DEF Done
  <2> QED BY <1>0, <2>1 DEF w
<1> QED
  BY <1>6, <1>7, <1>8, <1>9, <1>10, <1>11, <1>12, <1>13, <1>14, CommandIs DEF CommandKinds

-----------------------------------------------------------------------------
(* The end of the settle delay.                                            *)

LEMMA ConfirmTyped ==
  ASSUME NEW w, Ready(w), w.op.phase = "due"
  PROVE  Proper(Confirm(w))
<1> DEFINE x == Phase(w, "confirm")
<1>1. w \in World /\ Proper(w) /\ w.op.cmd \in Confirmable
  BY DEF Ready, Proper, WOk, OpOk
<1>2. Proper(x) /\ x.op.cmd = w.op.cmd /\ x.op.slot = w.op.slot /\ x.op.phase = "confirm"
  <2>1. Proper(x)
    BY <1>1, PhaseNamed DEF Phases, Ready
  <2> QED BY <1>1, <2>1, PhaseFacts DEF Phases
<1>3. ASSUME IsEntry(w.op) PROVE Proper(Send(x, "layer", w.op.req.layer, NoData))
  <2>1. w.op.req.layer \in Layers /\ ~IsEvent(w.op)
    BY <1>3 DEF Ready, WOk, OpOk, IsEntry, IsEvent
  <2> QED BY <1>1, <2>1, LayerAsked
<1>4. Proper(Send(x, "poll", 0, NoData))
  BY <1>2, PollTyped
<1>5. ASSUME IsEvent(w.op) PROVE Proper(Send(x, "slot", w.op.slot, NoData))
  <2>1. w.op.slot \in SlotNumbers /\ x.op.seq \in Nat /\ x \in World
    BY <1>2, <1>5, Fields DEF Ready, Proper, Named
  <2> DEFINE s == w.op.slot
  <2> HIDE DEF x, s
  <2>2. [kind |-> "slot", seq |-> x.op.seq, at |-> s, data |-> NoData] \in Command
    BY <2>1 DEF Command, s
  <2>3. Send(x, "slot", s, NoData) \in World /\ Send(x, "slot", s, NoData).op = x.op
    BY <2>1, <2>2, SendTyped, SendFacts
  <2> QED BY <1>2, <2>3 DEF Proper, s
<1>6. ~IsEvent(w.op) => Proper(ConfirmUpload(w))
  BY <1>1, ConfirmUploadTyped
<1> QED BY <1>3, <1>4, <1>5, <1>6 DEF Confirm
-----------------------------------------------------------------------------
(* Each action keeps the types.                                            *)

\* The operation, the caches and the queue.
Kernel ==
  /\ overview \in Overviews /\ layers \in LayerCaches /\ events \in EventCaches
  /\ op \in Operations /\ Named(op) /\ queue \in Seq(Command)

LEMMA KernelHere == TypeOK /\ Named(op) => Kernel /\ Proper(Here) /\ Here.op = op
<1> SUFFICES ASSUME TypeOK, Named(op) PROVE Kernel /\ Proper(Here) /\ Here.op = op
  OBVIOUS
<1>1. Kernel
  BY DEF Kernel, TypeOK
<1>2. <<>> \in Seq(Command)
  OBVIOUS
<1>3. Here \in World /\ Here.op = op
  BY <1>1, <1>2 DEF Here, World, Kernel
<1> QED BY <1>1, <1>3 DEF Proper, Kernel

LEMMA TakenTyped ==
  ASSUME NEW w, Proper(w), Take(w), NEW q \in Seq(Command), queue' = q \o w.send
  PROVE  Kernel'
<1>1. w.send \in Seq(Command)
  BY Fields DEF Proper
<1>2. queue' \in Seq(Command)
  BY <1>1
<1> QED BY <1>2 DEF Kernel, Take, Proper, World

\* The oldest command and what the pump answers to it.
LEMMA OldestTyped ==
  ASSUME TypeOK, queue # <<>>, NEW c, c = Head(queue)
  PROVE  /\ c \in Command /\ Tail(queue) \in Seq(Command) /\ link
         /\ Effect(c) \in Programs
         /\ Has(c) => /\ IsRead(c) => Brings(c, Received(c, Reply(c)))
                      /\ IsRead(c) => [type |-> Typed(c), value |-> Reply(c)] \in LateReply
<1>1. c \in Command /\ Tail(queue) \in Seq(Command) /\ link
  <2>1. queue \in Seq(Command)
    BY DEF TypeOK
  <2> QED BY <2>1 DEF TypeOK
<1>2. pump \in Programs /\ pump.events \in [0..(PumpSlots - 1) -> Event]
      /\ \A s \in 0..(PumpSlots - 1) : pump.events[s].index = s
  BY DEF TypeOK, Programs, PumpEvents
<1>3. Effect(c) \in Programs
  <2>1. CASE c.kind = "write"
    <3> DEFINE row == [d \in Days |-> Stored(pump.grid[c.at][d], c.data.days[d])]
    <3>1. c.at \in Layers /\ c.data.days \in Image
      BY <1>1, <2>1, CommandIs
    <3>2. row \in Image
      BY <1>2, <3>1, StoredCell DEF Programs, Grids, Image
    <3>3. Effect(c) = [pump EXCEPT !.grid[c.at] = row]
      BY <2>1 DEF Effect
    <3> HIDE DEF row
    <3> QED BY <1>2, <3>1, <3>2, <3>3 DEF Programs, Grids
  <2>2. CASE c.kind \in {"state", "commit"}
    <3>1. c.data \in Flags
      BY <1>1, <2>2, CommandIs
    <3> QED BY <1>2, <2>2, <3>1 DEF Effect, Programs, Flags
  <2>3. CASE c.kind = "event"
    <3> DEFINE ev == c.data.ev
               es == [pump.events EXCEPT ![c.at] = ev]
    <3>1. ev \in Event /\ ev.index = c.at
      BY <1>1, <2>3, CommandIs
    <3> HIDE DEF ev
    <3>2. es \in PumpEvents
      BY <1>2, <3>1 DEF PumpEvents
    <3> HIDE DEF es
    <3>3. [pump EXCEPT !.events = es] \in Programs
      BY <1>2, <3>2 DEF Programs
    <3>4. Effect(c) = [pump EXCEPT !.events = es]
      BY <1>2, <2>3 DEF Effect, es, ev, Programs
    <3> QED BY <3>3, <3>4
  <2>4. CASE c.kind \notin {"write", "state", "commit", "event"}
    BY <1>2, <2>4 DEF Effect
  <2> QED BY <2>1, <2>2, <2>3, <2>4
<1>4. ASSUME Has(c), IsRead(c)
      PROVE  /\ Brings(c, Received(c, Reply(c)))
             /\ [type |-> Typed(c), value |-> Reply(c)] \in LateReply
  <2>1. CASE c.kind = "poll"
    <3>1. Typed(c) = "poll" /\ Reply(c) \in Flags
      BY <1>2, <2>1 DEF Typed, Reply, Flags, Programs
    <3> QED BY <2>1, <3>1 DEF Brings, Received, LateReply
  <2>2. CASE c.kind \in {"layer", "layers"}
    <3>1. Typed(c) = "layer" /\ Reply(c) \in Image
      <4>1. c.at \in Layers
        BY <1>1, <2>2, CommandIs
      <4> QED BY <1>2, <2>2, <4>1 DEF Typed, Reply, Programs, Grids
    <3> QED BY <2>2, <3>1 DEF Brings, Received, LateReply
  <2>3. CASE c.kind \in {"slot", "slots"}
    <3>1. Typed(c) = "slot" /\ c.at \in Nat
      BY <1>1, <2>3, CommandIs, SlotFacts DEF Typed
    <3>2. c.at < PumpSlots /\ PumpSlots \in Nat
      BY <1>4, <3>1, ScheduleAssumption DEF Has
    <3>3. Reply(c) \in Event
      BY <1>2, <3>1, <3>2 DEF Reply
    <3>4. Received(c, Reply(c)) \in Event /\ Received(c, Reply(c)).index = c.at
      BY <3>1, <3>3 DEF Received, Event
    <3> QED BY <2>3, <3>1, <3>3, <3>4 DEF Brings, LateReply
  <2> QED BY <1>4, <2>1, <2>2, <2>3 DEF IsRead
<1> QED BY <1>1, <1>3, <1>4

\* What the properties remember.
LEMMA VouchTyped ==
  ASSUME TypeOK, queue # <<>>, NEW p, Vouch(Head(queue), p)
  PROVE  edited' \subseteq Layers \X Days /\ doubt' \subseteq Nat /\ touched' \in BOOLEAN
<1> DEFINE c == Head(queue)
<1>1. c \in Command
  BY OldestTyped
<1>2. c.kind = "event" => c.at \in Nat
  BY <1>1, CommandIs, SlotFacts
<1> HIDE DEF c
<1>3. edited' \subseteq Layers \X Days
  BY DEF Vouch, TypeOK, c
<1>4. doubt' \subseteq Nat
  BY <1>2 DEF Vouch, TypeOK, c
<1> QED BY <1>3, <1>4 DEF Vouch, TypeOK

\* The oldest command ends.
LEMMA EndTyped ==
  ASSUME TypeOK, Named(op), IInv, queue # <<>>, NEW ok \in BOOLEAN, NEW v, End(Head(queue), ok, v),
         ok => Brings(Head(queue), v)
  PROVE  Kernel'
<1> DEFINE c == Head(queue)
           t == Tail(queue)
<1>1. c \in Command /\ t \in Seq(Command)
  BY OldestTyped
<1>2. op.phase # "done" /\ c.seq = op.seq => op.phase # "due" /\ OwnOk(op, c)
  BY TailOk DEF IInv
<1>3. WOk(Here)
  BY DEF IInv, WOk, Here, WFields
<1>4. time \in 1..MaxTime
  BY DEF TypeOK
<1> HIDE DEF c, t
<1>5. Proper(Done(Here, c, ok, v))
  BY <1>1, <1>2, <1>3, <1>4, KernelHere, DoneTyped DEF c
<1>6. PICK w \in {Done(Here, c, ok, v)} : Take(w) /\ queue' = t \o w.send
  BY DEF End, c, t
<1> QED BY <1>1, <1>5, <1>6, TakenTyped
-----------------------------------------------------------------------------
TInv == TypeOK /\ Named(op) /\ IInv

\* A request becomes the operation in flight.
LEMMA Begun ==
  ASSUME TInv, NEW r \in Requests, Submit(r)
  PROVE  LET f == [Here EXCEPT !.op = Fresh(r)]
         IN  /\ f \in World /\ f.op = Fresh(r) /\ f.send = <<>> /\ f.overview = overview
             /\ f.events = events /\ f.layers = layers
             /\ f.op.cmd = r.cmd /\ f.op.req = r /\ f.op.phase = "start" /\ f.op.at = 0
             /\ f.op.seq = op.seq + 1
             /\ ~Invalid(r) => Ready(f)
<1> DEFINE f == [Here EXCEPT !.op = Fresh(r)]
           o == Fresh(r)
<1>1. /\ o \in Operations /\ o.cmd = r.cmd /\ o.req = r /\ o.phase = "start" /\ o.at = 0
      /\ o.seq = op.seq + 1
  <2>1. r.cmd \in {"set_event", "clear_event"} => r.slot \in Nat \cup {NoSlot}
    BY ProgramAssumption
  <2>2. op.seq + 1 \in 0..MaxOps
    <3>1. op.seq \in 0..MaxOps /\ op.seq < MaxOps /\ MaxOps \in Nat
      BY ScheduleAssumption DEF TInv, TypeOK, Operations, Submit
    <3> QED BY <3>1
  <2>3. /\ r \in Requests /\ r.cmd \in Commands /\ 0 \in 0..SCHED_MAX_ATTEMPTS
        /\ 1 \in Nat \ {0} /\ <<>> \in Seq(Nat)
    BY ProgramAssumption, ScheduleAssumption
  <2> DEFINE n == op.seq + 1
             s == IF r.cmd \in {"set_event", "clear_event"} THEN r.slot ELSE NoSlot
  <2>4. s \in Nat \cup {NoSlot} /\ n \in 0..MaxOps
    BY <2>1, <2>2
  <2> HIDE DEF n, s
  <2>5. NoOperation \in Operations
    BY <2>3, ScheduleAssumption DEF NoOperation, Operations, Phases, Statuses
  <2>6. LET x == [NoOperation EXCEPT !.seq = n, !.cmd = r.cmd, !.req = r, !.phase = "start", !.slot = s]
        IN  /\ x \in Operations /\ x.cmd = r.cmd /\ x.req = r /\ x.phase = "start"
            /\ x.at = NoOperation.at /\ x.seq = n
    <3> HIDE DEF NoOperation
    <3> QED BY <2>3, <2>4, <2>5 DEF Operations, Phases
  <2>7. NoOperation.at = 0
    BY DEF NoOperation
  <2> QED BY <2>6, <2>7 DEF Fresh, n, s
<1> HIDE DEF o
<1>2. f \in World /\ f.op = o /\ f.send = <<>> /\ f.overview = overview /\ f.events = events
      /\ f.layers = layers
  <2>1. Here \in World /\ Here.send = <<>> /\ Here.overview = overview /\ Here.events = events
        /\ Here.layers = layers
    BY KernelHere DEF TInv, Proper, Here
  <2>2. [Here EXCEPT !.op = o] \in World
    BY <1>1, <2>1 DEF World
  <2> QED BY <2>1, <2>2 DEF o, World
<1> HIDE DEF f
<1>4. ASSUME ~Invalid(r) PROVE Ready(f)
  <2>1. OpOk(o)
    <3>1. o.seq \in Nat /\ o.seq > 0
      <4>1. op.seq \in Nat
        BY DEF TInv, IInv, OpOk
      <4> QED BY <1>1, <4>1
    <3>2. IsEntry(o) => r.layer \in Layers /\ r.day \in Days
      BY <1>1, <1>4 DEF IsEntry, Invalid
    <3>3. DOMAIN o = OpFields /\ o.written \subseteq Layers
      BY <1>1 DEF Operations, OpFields
    <3> QED BY <1>1, <3>1, <3>2, <3>3 DEF OpOk
  <2>2. WOk(f)
    BY <1>2, <2>1 DEF WOk, World, WFields, LayerCaches
  <2> QED BY <1>1, <1>2, <2>2 DEF Ready, Proper, Named
<1> QED BY <1>1, <1>2, <1>4 DEF f, o

LEMMA SubmitTyped ==
  ASSUME TInv, NEW r \in Requests, Submit(r)
  PROVE  (TypeOK /\ Named(op))'
<1> DEFINE f == [Here EXCEPT !.op = Fresh(r)]
<1>2. /\ f \in World /\ f.send = <<>> /\ f.overview = overview /\ f.events = events
      /\ f.layers = layers /\ f.op.cmd = r.cmd /\ f.op.req = r /\ f.op.phase = "start"
      /\ f.op.at = 0 /\ (~Invalid(r) => Ready(f))
  BY Begun
<1> HIDE DEF f
<1>3. \A s \in Statuses : Proper(Finish(f, s))
  BY <1>2, FinishNamed
<1>4. ASSUME ~Invalid(r) PROVE Proper(Begin(f))
  <2>1. Ready(f) /\ f.op.at \in Layers /\ time \in 1..MaxTime
    BY <1>2, <1>4, Constants DEF TInv, TypeOK
  <2>2. Proper(AfterOverview(f)) /\ Proper(ReadGrid(f))
    BY <1>2, <2>1, AfterOverviewTyped, GridTyped
  <2> QED BY <1>2, <1>4, <2>2 DEF Begin
<1>5. PICK w \in {IF link /\ overview.known THEN Begin(f) ELSE Finish(f, "rejected")} :
        Take(w) /\ queue' = queue \o w.send
  BY DEF Submit, f
<1>6. Proper(w)
  BY <1>2, <1>3, <1>4, <1>5 DEF Begin, Statuses
<1>7. Kernel'
  BY <1>5, <1>6, TakenTyped DEF TInv, TypeOK
<1>8. ~link => /\ op'.phase = "done" /\ queue' = queue
               /\ overview' = overview /\ events' = events /\ layers' = layers
  <2>1. ASSUME ~link PROVE w = Finish(f, "rejected")
    BY <1>5, <2>1
  <2>2. /\ Finish(f, "rejected").op.phase = "done" /\ Finish(f, "rejected").send = <<>>
        /\ Finish(f, "rejected").overview = overview /\ Finish(f, "rejected").events = events
        /\ Finish(f, "rejected").layers = layers
    BY <1>2 DEF Finish, World, Operations
  <2>3. queue \o <<>> = queue
    BY DEF TInv, TypeOK
  <2> QED BY <1>5, <2>1, <2>2, <2>3 DEF Take
<1>9. /\ UNCHANGED <<link, late, time, synced, pump, faults, doubt>>
      /\ touched' = FALSE /\ edited' \subseteq edited
  BY DEF Submit
<1> QED BY <1>7, <1>8, <1>9 DEF Kernel, TInv, TypeOK

LEMMA ConfirmDueTyped ==
  ASSUME TInv, ConfirmDue
  PROVE  (TypeOK /\ Named(op))'
<1>1. op.phase = "due" /\ link
  BY DEF ConfirmDue, TInv, TypeOK
<1>2. Ready(Here)
  <2>1. WOk(Here)
    BY DEF TInv, IInv, WOk, Here, WFields
  <2> QED BY <1>1, <2>1, KernelHere DEF TInv, Ready
<1>3. Proper(Confirm(Here))
  BY <1>1, <1>2, KernelHere, ConfirmTyped DEF TInv
<1>4. Kernel'
  BY <1>3, TakenTyped DEF ConfirmDue, TInv, TypeOK
<1>5. UNCHANGED <<link, late, time, synced, pump, faults, history>>
  BY DEF ConfirmDue
<1> QED BY <1>1, <1>4, <1>5 DEF Kernel, TInv, TypeOK, history

LEMMA FaultTyped ==
  ASSUME TypeOK, NEW kind, Fault(kind)
  PROVE  faults' \in 0..MaxFaults
<1>1. MaxFaults \in Nat
  BY ScheduleAssumption
<1>2. faults \in 0..MaxFaults /\ faults < MaxFaults /\ faults' = faults + 1
  BY DEF TypeOK, Fault
<1> QED BY <1>1, <1>2

LEMMA WatchdogTyped ==
  ASSUME TInv, Watchdog
  PROVE  (TypeOK /\ Named(op))'
<1> DEFINE w == Finish(Here, "timeout")
<1>1. Proper(w) /\ w.overview = overview /\ w.layers = layers /\ w.events = events
      /\ w.op.phase = "done"
  <2>1. Here \in World
    BY KernelHere DEF TInv, Proper
  <2>2. Proper(w)
    BY <2>1, FinishNamed DEF Statuses
  <2>3. w.overview = Here.overview /\ w.layers = Here.layers /\ w.events = Here.events
        /\ w.op.phase = "done"
    BY <2>1 DEF Finish, World, Operations
  <2> QED BY <2>2, <2>3 DEF Here
<1> HIDE DEF w
<1>2. Take(w) /\ UNCHANGED <<link, queue, late, time, synced, pump, history>>
  BY DEF Watchdog, w
<1>3. op' \in Operations /\ Named(op)'
  BY <1>1, <1>2 DEF Take, Proper, World
<1>4. faults' \in 0..MaxFaults
  BY FaultTyped DEF Watchdog, TInv
<1> QED BY <1>1, <1>2, <1>3, <1>4 DEF TInv, TypeOK, Take, history

LEMMA BackgroundTyped ==
  ASSUME TInv, Poll \/ Reread
  PROVE  (TypeOK /\ Named(op))'
<1>1. PICK c \in Command : queue' = Append(queue, c)
  <2>1. CASE Poll
    <3>1. [kind |-> "poll", seq |-> 0, at |-> 0, data |-> NoData] \in Command
      BY DEF Command
    <3> QED BY <2>1, <3>1 DEF Poll, Background
  <2>2. CASE Reread
    <3> DEFINE d == [got |-> <<>>, ok |-> TRUE, max |-> MaxSlots(overview)]
    <3>1. 0 \in SlotNumbers /\ MaxSlots(overview) \in SlotCounts
      <4>1. MaxSlots(overview) \in SlotCounts
        BY SlotFacts
      <4>2. MaxSlots(overview) \in Nat \ {0}
        BY <4>1, SlotFacts
      <4>3. 0 \in Nat /\ 0 < MaxSlots(overview)
        BY <4>2
      <4> QED BY <4>1, <4>3, SlotFacts
    <3>2. [kind |-> "slots", seq |-> 0, at |-> 0, data |-> d] \in Command
      BY <3>1 DEF Command
    <3>3. [kind |-> "layers", seq |-> 0, at |-> 0, data |-> [ok |-> TRUE]] \in Command
      BY Constants DEF Command
    <3> QED BY <2>2, <3>2, <3>3 DEF Reread, Background
  <2> QED BY <2>1, <2>2
<1>2. queue \in Seq(Command) /\ link
  BY DEF TInv, TypeOK, Poll, Reread
<1>3. queue' \in Seq(Command)
  BY <1>1, <1>2
<1>4. faults' \in 0..MaxFaults
  BY FaultTyped DEF Poll, Reread, TInv, TypeOK
<1>5. UNCHANGED <<caches, op, link, late, time, synced, pump, history>>
  BY DEF Poll, Reread
<1> QED BY <1>2, <1>3, <1>4, <1>5 DEF TInv, TypeOK, caches, history

LEMMA ControlCommitTyped ==
  ASSUME TInv, ControlCommit
  PROVE  (TypeOK /\ Named(op))'
<1>1. Proper(Commit(Here)) /\ Commit(Here).op = op
  <2>1. Proper(Here) /\ Here.op = op
    BY KernelHere DEF TInv
  <2> QED BY <2>1, CommitTyped DEF Proper
<1>2. Kernel'
  BY <1>1, TakenTyped DEF ControlCommit, TInv, TypeOK
<1>3. link /\ UNCHANGED <<link, late, time, synced, pump, faults, history>>
  BY DEF ControlCommit
<1> QED BY <1>2, <1>3 DEF Kernel, TInv, TypeOK, history

LEMMA AnsweredTyped ==
  ASSUME TInv, Answered
  PROVE  (TypeOK /\ Named(op))'
<1> DEFINE c == Head(queue)
           v == IF IsRead(c) THEN Received(c, Reply(c)) ELSE NoData
<1>1. /\ queue # <<>> /\ Has(c) /\ pump' = Effect(c) /\ Vouch(c, pump')
      /\ End(c, TRUE, v) /\ UNCHANGED <<link, late, time, synced, faults>>
  BY DEF Answered
<1>2. c \in Command /\ link /\ Effect(c) \in Programs /\ Brings(c, v)
  <2>1. c \in Command /\ link /\ Effect(c) \in Programs
        /\ (IsRead(c) => Brings(c, Received(c, Reply(c))))
    BY <1>1, OldestTyped DEF TInv
  <2> QED BY <2>1 DEF Brings, IsRead
<1> HIDE DEF c, v
<1>3. Kernel'
  BY <1>1, <1>2, EndTyped DEF TInv, c
<1>4. edited' \subseteq Layers \X Days /\ doubt' \subseteq Nat /\ touched' \in BOOLEAN
  BY <1>1, VouchTyped DEF TInv, c
<1> QED BY <1>1, <1>2, <1>3, <1>4 DEF Kernel, TInv, TypeOK

\* A command that the pump did not answer.
LEMMA UnansweredTyped ==
  ASSUME TInv, queue # <<>>, NEW ok \in BOOLEAN, End(Head(queue), ok, NoData),
         ok => ~IsRead(Head(queue))
  PROVE  Kernel' /\ link
<1>1. ok => Brings(Head(queue), NoData)
  BY DEF Brings, IsRead
<1>2. link
  BY OldestTyped DEF TInv
<1> QED BY <1>1, <1>2, EndTyped DEF TInv

LEMMA LostTyped ==
  ASSUME TInv, Lost \/ Ignored
  PROVE  (TypeOK /\ Named(op))'
<1>1. Kernel' /\ link
  BY UnansweredTyped DEF Lost, Ignored
<1>2. edited' \subseteq Layers \X Days /\ doubt' \subseteq Nat /\ touched' \in BOOLEAN
  BY VouchTyped DEF Lost, Ignored, TInv
<1>3. faults' \in 0..MaxFaults
  BY FaultTyped DEF Lost, Ignored, TInv, TypeOK
<1>4. UNCHANGED <<link, late, time, synced, pump>>
  BY DEF Lost, Ignored
<1> QED BY <1>1, <1>2, <1>3, <1>4 DEF Kernel, TInv, TypeOK

LEMMA UnheardTyped ==
  ASSUME TInv, Unheard
  PROVE  (TypeOK /\ Named(op))'
<1> DEFINE c == Head(queue)
           e == [type |-> Typed(c), value |-> Reply(c)]
<1>1. /\ queue # <<>> /\ Has(c) /\ Fault("unheard") /\ pump' = Effect(c) /\ Vouch(c, pump')
      /\ End(c, FALSE, NoData) /\ UNCHANGED <<link, time, synced>>
      /\ late' = IF IsRead(c) /\ Len(late) < MaxLate THEN Append(late, e) ELSE late
  BY DEF Unheard
<1>2. Effect(c) \in Programs /\ (IsRead(c) => e \in LateReply)
  BY <1>1, OldestTyped DEF TInv
<1>3. Kernel' /\ link
  BY <1>1, UnansweredTyped
<1>4. edited' \subseteq Layers \X Days /\ doubt' \subseteq Nat /\ touched' \in BOOLEAN
  BY <1>1, VouchTyped DEF TInv
<1>5. faults' \in 0..MaxFaults
  BY <1>1, FaultTyped DEF TInv
<1> HIDE DEF c, e
<1>6. late' \in Seq(LateReply) /\ Len(late') <= MaxLate
  <2>1. late \in Seq(LateReply) /\ Len(late) <= MaxLate /\ MaxLate \in Nat
    BY ScheduleAssumption DEF TInv, TypeOK
  <2>2. CASE IsRead(c) /\ Len(late) < MaxLate
    <3>1. late' = Append(late, e) /\ e \in LateReply
      BY <1>1, <1>2, <2>2
    <3> QED BY <2>1, <2>2, <3>1
  <2> QED BY <1>1, <2>1, <2>2
<1> QED BY <1>1, <1>2, <1>3, <1>4, <1>5, <1>6 DEF Kernel, TInv, TypeOK

\* A late reply of the type that the oldest command waits for.
LEMMA LateTyped ==
  ASSUME TInv, queue # <<>>, NEW c, c = Head(queue), NEW i \in Overdue(c)
  PROVE  /\ i \in 1..Len(late) /\ late \in Seq(LateReply) /\ late[i] \in LateReply
         /\ Brings(c, Received(c, late[i].value))
<1>3. c \in Command
  BY OldestTyped DEF TInv
<1>4. i \in 1..Len(late) /\ late \in Seq(LateReply) /\ late[i] \in LateReply
      /\ late[i].type = Typed(c)
  <2>1. late \in Seq(LateReply)
    BY DEF TInv, TypeOK
  <2>2. i \in DOMAIN late /\ late[i].type = Typed(c)
    BY DEF Overdue
  <2> QED BY <2>1, <2>2
<1>5. Brings(c, Received(c, late[i].value))
  <2> DEFINE l == late[i]
  <2>1. l \in LateReply /\ l.type = Typed(c)
    BY <1>4
  <2>2. c.kind \in CommandKinds
    BY <1>3, CommandIs
  <2> HIDE DEF l
  <2>3. /\ Typed(c) = "poll" => l.value \in Flags
        /\ Typed(c) = "layer" => l.value \in Image
        /\ Typed(c) = "slot" => l.value \in Event
    BY <2>1 DEF LateReply
  <2>4. CASE Typed(c) = "slot"
    <3>1. c.kind \in {"slot", "slots"} /\ c.at \in Nat
      <4>1. c.kind \in {"slot", "slots"}
        BY <2>2, <2>4 DEF Typed, CommandKinds
      <4> QED BY <1>3, <4>1, CommandIs, SlotFacts
    <3>2. Received(c, l.value) \in Event /\ Received(c, l.value).index = c.at
      BY <2>3, <2>4, <3>1 DEF Received, Event
    <3> QED BY <3>1, <3>2 DEF Brings, l
  <2>5. CASE Typed(c) # "slot"
    BY <2>3, <2>5 DEF Received, Brings, Typed, l
  <2> QED BY <2>4, <2>5
<1> QED BY <1>4, <1>5

LEMMA MisansweredTyped ==
  ASSUME TInv, Misanswered
  PROVE  (TypeOK /\ Named(op))'
<1> DEFINE c == Head(queue)
<1>1. PICK i \in Overdue(c) :
        /\ queue # <<>> /\ IsRead(c) /\ Has(c) /\ End(c, TRUE, Received(c, late[i].value))
        /\ late' = Append(SubSeq(late, 1, i - 1) \o SubSeq(late, i + 1, Len(late)),
                          [type |-> Typed(c), value |-> Reply(c)])
  BY DEF Misanswered
<1>2. /\ edited' = edited \cup IF c.kind = "layer" THEN {c.at} \X Days ELSE {}
      /\ doubt' = doubt \cup IF Typed(c) = "slot" THEN {c.at} ELSE {}
      /\ touched' = TRUE /\ UNCHANGED <<link, time, synced, pump, faults>>
  BY DEF Misanswered
<1>3. c \in Command /\ link /\ [type |-> Typed(c), value |-> Reply(c)] \in LateReply
  BY <1>1, OldestTyped DEF TInv
<1>4. i \in 1..Len(late) /\ late \in Seq(LateReply) /\ late[i] \in LateReply
      /\ Len(late) <= MaxLate /\ MaxLate \in Nat
  BY <1>1, LateTyped, ScheduleAssumption DEF TInv, TypeOK
<1> DEFINE e == [type |-> Typed(c), value |-> Reply(c)]
<1>5. Brings(c, Received(c, late[i].value))
  BY <1>1, LateTyped
<1> HIDE DEF c
<1>6. Kernel'
  BY <1>1, <1>5, EndTyped DEF TInv, c
<1>7. late' \in Seq(LateReply) /\ Len(late') <= MaxLate
  <2> DEFINE s == SubSeq(late, 1, i - 1)
             t == SubSeq(late, i + 1, Len(late))
  <2>1. s \in Seq(LateReply) /\ Len(s) = i - 1 /\ t \in Seq(LateReply) /\ Len(t) = Len(late) - i
    BY <1>4
  <2>2. e \in LateReply /\ late' = Append(s \o t, e) /\ i \in Nat /\ Len(late) \in Nat
    BY <1>1, <1>3, <1>4
  <2> HIDE DEF s, t, e
  <2>3. s \o t \in Seq(LateReply) /\ Len(s \o t) = Len(late) - 1
    <3>1. s \o t \in Seq(LateReply) /\ Len(s \o t) = Len(s) + Len(t)
      BY <2>1
    <3> QED BY <2>1, <2>2, <3>1
  <2> DEFINE u == s \o t
  <2>4. u \in Seq(LateReply) /\ Len(u) = Len(late) - 1 /\ late' = Append(u, e)
    BY <2>2, <2>3
  <2> HIDE DEF u
  <2>5. late' \in Seq(LateReply) /\ Len(late') = Len(late)
    BY <2>2, <2>4
  <2> QED BY <1>4, <2>5
<1>8. edited' \subseteq Layers \X Days
  <2>1. c.kind = "layer" => c.at \in Layers
    BY <1>3, CommandIs
  <2> QED BY <1>2, <2>1 DEF TInv, TypeOK
<1>9. doubt' \subseteq Nat
  <2>1. Typed(c) = "slot" => c.kind \in {"slot", "slots"}
    BY <1>3, CommandIs DEF Typed
  <2>2. Typed(c) = "slot" => c.at \in Nat
    BY <1>3, <2>1, CommandIs, SlotFacts
  <2> QED BY <1>2, <2>2 DEF TInv, TypeOK
<1> QED BY <1>2, <1>3, <1>6, <1>7, <1>8, <1>9 DEF Kernel, TInv, TypeOK

LEMMA LateDroppedTyped ==
  ASSUME TInv, LateDropped
  PROVE  (TypeOK /\ Named(op))'
<1>1. late \in Seq(LateReply) /\ late # <<>> /\ late' = Tail(late) /\ Len(late) <= MaxLate
      /\ MaxLate \in Nat
  BY ScheduleAssumption DEF TInv, TypeOK, LateDropped
<1>2. late' \in Seq(LateReply) /\ Len(late') <= MaxLate
  BY <1>1
<1>3. UNCHANGED <<caches, op, link, queue, time, synced, pump, faults, history>>
  BY DEF LateDropped
<1> QED BY <1>2, <1>3 DEF TInv, TypeOK, caches, history

LEMMA AppTyped ==
  ASSUME TInv, App
  PROVE  (TypeOK /\ Named(op))'
<1>1. pump \in Programs
  BY DEF TInv, TypeOK
<1>2. pump' \in Programs /\ edited' \subseteq Layers \X Days /\ doubt' \subseteq Nat
  <2>1. ASSUME NEW l \in Layers, NEW d \in Days, NEW t \in Times,
               pump' = [pump EXCEPT !.grid[l][d] = [on |-> t # 0, at |-> t]],
               edited' = edited \cup {<<l, d>>}, doubt' = doubt
        PROVE  pump' \in Programs /\ edited' \subseteq Layers \X Days /\ doubt' \subseteq Nat
    <3> DEFINE cell == [on |-> t # 0, at |-> t]
    <3>1. cell \in Cell
      BY DEF Cell
    <3> HIDE DEF cell
    <3>2. pump' = [pump EXCEPT !.grid[l][d] = cell]
      BY <2>1 DEF cell
    <3>3. pump' \in Programs
      BY <1>1, <3>1, <3>2 DEF Programs, Grids, Image
    <3> QED BY <2>1, <3>3 DEF TInv, TypeOK
  <2>2. ASSUME pump' = [pump EXCEPT !.on = ~@], UNCHANGED <<edited, doubt>>
        PROVE  pump' \in Programs /\ edited' \subseteq Layers \X Days /\ doubt' \subseteq Nat
    BY <1>1, <2>2 DEF Programs, TInv, TypeOK
  <2>3. ASSUME NEW s \in 0..(PumpSlots - 1), NEW p \in InitialPumps,
               pump' = [pump EXCEPT !.events[s] = p.events[s]],
               doubt' = doubt \cup {s}, edited' = edited
        PROVE  pump' \in Programs /\ edited' \subseteq Layers \X Days /\ doubt' \subseteq Nat
    <3> DEFINE ev == p.events[s]
               es == [pump.events EXCEPT ![s] = ev]
    <3>1. ev \in Event /\ ev.index = s /\ s \in Nat
      <4>1. p \in Programs
        BY ProgramAssumption
      <4>2. p.events \in PumpEvents
        BY <4>1 DEF Programs
      <4>3. s \in Nat
        BY ScheduleAssumption
      <4>4. DOMAIN p.events = 0..(PumpSlots - 1) /\ p.events[s] \in Event
        BY <4>2 DEF PumpEvents
      <4> QED BY <4>2, <4>3, <4>4 DEF PumpEvents
    <3> HIDE DEF ev
    <3>2. es \in PumpEvents
      BY <1>1, <3>1 DEF Programs, PumpEvents
    <3> HIDE DEF es
    <3>3. [pump EXCEPT !.events = es] \in Programs
      BY <1>1, <3>2 DEF Programs
    <3>4. pump' = [pump EXCEPT !.events = es]
      BY <1>1, <2>3 DEF es, ev, Programs
    <3> QED BY <2>3, <3>1, <3>3, <3>4 DEF TInv, TypeOK
  <2> QED BY <2>1, <2>2, <2>3 DEF App
<1>3. faults' \in 0..MaxFaults
  BY FaultTyped DEF App, TInv
<1>4. touched' = TRUE /\ UNCHANGED <<caches, op, link, queue, late, time, synced>>
  BY DEF App
<1> QED BY <1>2, <1>3, <1>4 DEF TInv, TypeOK, caches

LEMMA DropTyped ==
  ASSUME TInv, Drop
  PROVE  (TypeOK /\ Named(op))'
<1> DEFINE w == Finish(Here, "timeout")
<1>1. Here.op = op /\ Proper(w) /\ w.op.phase = "done"
  <2>1. Here \in World /\ Here.op = op
    BY KernelHere DEF TInv, Proper
  <2>2. Proper(w)
    BY <2>1, FinishNamed DEF Statuses
  <2> QED BY <2>1, <2>2 DEF Finish, World, Operations
<1> HIDE DEF w
<1>2. op' \in Operations /\ Named(op)' /\ op'.phase = "done"
  BY <1>1 DEF Drop, w, Proper, World, TInv, TypeOK
<1>3. pump' \in Programs
  <2>1. CASE pump' = pump
    BY <2>1 DEF TInv, TypeOK
  <2>2. CASE queue # <<>> /\ pump' = Effect(Head(queue))
    BY <2>2, OldestTyped DEF TInv
  <2> QED BY <2>1, <2>2 DEF Drop
<1>4. /\ link' = FALSE /\ queue' = <<>> /\ late' = <<>> /\ overview' = Unread /\ events' = Unread
      /\ layers' = [l \in Layers |-> Unread] /\ UNCHANGED <<time, synced, edited, touched>>
      /\ doubt' = {}
  BY DEF Drop
<1>5. overview' \in Overviews /\ events' \in EventCaches /\ layers' \in LayerCaches
      /\ ~overview'.known /\ ~events'.known /\ \A l \in Layers : ~layers'[l].known
  BY <1>4 DEF Overviews, EventCaches, LayerCaches, Unread
<1>6. queue' \in Seq(Command) /\ late' \in Seq(LateReply) /\ Len(late') <= MaxLate
  BY <1>4, ScheduleAssumption
<1>7. faults' \in 0..MaxFaults
  BY FaultTyped DEF Drop, TInv
<1> QED BY <1>2, <1>3, <1>4, <1>5, <1>6, <1>7 DEF TInv, TypeOK

LEMMA TypedSteps == TInv /\ [Next]_vars => (TypeOK /\ Named(op))'
<1> SUFFICES ASSUME TInv, [Next]_vars PROVE (TypeOK /\ Named(op))'
  OBVIOUS
<1>1. CASE \E r \in Requests : Submit(r)
  BY <1>1, SubmitTyped
<1>2. CASE Reconnect
  BY <1>2 DEF Reconnect, TInv, TypeOK, caches, history
<1>3. CASE Tick
  <2>1. MaxTime \in Nat
    BY ScheduleAssumption
  <2>2. time' \in 1..MaxTime
    BY <1>3, <2>1 DEF Tick, TInv, TypeOK
  <2> QED BY <1>3, <2>2 DEF Tick, TInv, TypeOK, caches, history
<1>4. CASE UNCHANGED vars
  BY <1>4 DEF TInv, TypeOK, vars, caches, history
<1> QED
  BY <1>1, <1>2, <1>3, <1>4, ConfirmDueTyped, WatchdogTyped, BackgroundTyped, ControlCommitTyped,
     AnsweredTyped, LostTyped, UnheardTyped, MisansweredTyped, LateDroppedTyped, AppTyped,
     DropTyped DEF Next

LEMMA TypedFirst == Init => TypeOK /\ Named(op)
<1> SUFFICES ASSUME Init PROVE TypeOK /\ Named(op)
  OBVIOUS
<1>1. op \in Operations /\ op.phase = "done"
  <2>1. 0 \in 0..MaxOps /\ 0 \in 0..SCHED_MAX_ATTEMPTS /\ 1 \in Nat \ {0} /\ <<>> \in Seq(Nat)
    BY ScheduleAssumption
  <2> QED BY <2>1 DEF Init, NoOperation, Operations, Phases, Statuses
<1>2. 1 \in 1..MaxTime /\ 0 \in 0..MaxFaults /\ 0 <= MaxLate
  BY ScheduleAssumption
<1>3. overview \in Overviews /\ layers \in LayerCaches /\ events \in EventCaches
  BY DEF Init, Overviews, LayerCaches, EventCaches
<1>4. queue \in Seq(Command) /\ late \in Seq(LateReply) /\ Len(late) = 0
  BY DEF Init
<1>5. pump \in Programs /\ synced \in BOOLEAN
  BY ScheduleAssumption, ProgramAssumption DEF Init
<1> QED BY <1>1, <1>2, <1>3, <1>4, <1>5 DEF Init, TypeOK, Named

\* What every variable holds, whatever is lost or comes late: no slot past the
\* limit is ever named (issue #284), a read-back names a slot that is there, and
\* no cache, command or operation outlives the link.
THEOREM ScheduleTyped == Spec => []TypeOK
<1>1. Init => TInv
  BY TypedFirst, Initially DEF TInv
<1>2. TInv /\ [Next]_vars => TInv'
  BY TypedSteps, Steps DEF TInv
<1>3. TInv => TypeOK
  BY DEF TInv
<1> QED BY <1>1, <1>2, <1>3, PTL DEF Spec
-----------------------------------------------------------------------------
(* What an operation in flight has reached: it is accepted on no less.     *)

\* A layer is what the upload asks for, at the pump and in the cache.
Matching(l, w, p) ==
  /\ Canonical(p.grid[l]) = w.op.req.grid[l]
  /\ w.layers[l].known /\ Canonical(w.layers[l].days) = w.op.req.grid[l]
Handled(o) == o.written \cup o.skipped \cup o.failed
\* The layers of an upload that were read and found to match.
Settled(o) ==
  o.skipped \cup IF o.phase = "confirm" THEN {l \in o.written : l < o.at} ELSE {}

UploadReached(w, p, t) ==
  LET o == w.op
  IN  /\ o.phase \in {"read", "write", "flag", "due", "confirm"}
      /\ o.flag # "kept" => o.phase \in {"due", "confirm"}
      /\ o.phase \in {"read", "write"} =>
           (\A l \in Layers : l < o.at => l \in Handled(o)) /\ \A l \in o.skipped : l < o.at
      /\ o.phase \in {"flag", "due", "confirm"} => Layers \subseteq Handled(o)
      /\ o.phase = "flag" => o.req.on # "keep"
      /\ o.phase = "due" => o.at = 0
      /\ ~t => /\ \A l \in Settled(o) : Matching(l, w, p)
               /\ o.flag = "taken" => p.on = (o.req.on = "on")

\* Of the vacations to be cleared those before the cursor are off.
Cleared(o, n, p) == \A i \in 1..n : o.todo[i] \in 0..(PumpSlots - 1) /\ ~p.events[o.todo[i]].on
VacationReached(o, p, t) ==
  /\ o.phase = "slots" => o.cursor = 1 /\ o.todo = <<>>
  /\ o.phase # "slots" => o.cursor \in 1..Len(o.todo) /\ o.slot = o.todo[o.cursor]
  /\ ~t => Cleared(o, o.cursor - 1, p)

Reached(w, p, t) ==
  /\ w.overview.known
  /\ w.op.cmd # "upload" => w.op.flag = "kept"
  /\ w.op.cmd = "upload" => UploadReached(w, p, t)
  /\ w.op.cmd = "clear_vacation" => VacationReached(w.op, p, t)

\* The hash is that of the pump's own grid.
Hashed(w, p) ==
  /\ Hash(w.overview, w.layers).known
  /\ Hash(w.overview, w.layers).grid = [l \in Layers |-> Canonical(p.grid[l])]

\* What a step leaves: still in flight, or accepted on what the pump holds.
Honest(x, p, t) ==
  /\ x.op.phase # "done" => Reached(x, p, t)
  /\ x.op.phase = "done" /\ x.op.status = "accepted" /\ ~t =>
       Holds(x.op, p) /\ (x.op.cmd = "upload" => Hashed(x, p))

LEMMA Carried ==
  ASSUME NEW x, NEW y, NEW p, NEW t,
         x.op = y.op, x.layers = y.layers, x.overview.known = y.overview.known
  PROVE  /\ Reached(y, p, t) => Reached(x, p, t)
         /\ Honest(y, p, t) => Honest(x, p, t)
<1>1. Reached(y, p, t) => Reached(x, p, t)
  BY DEF Reached, UploadReached, Matching
<1>2. Hashed(y, p) => Hashed(x, p)
  BY DEF Hashed, Hash, Unread
<1> QED BY <1>1, <1>2 DEF Honest

LEMMA Sent ==
  ASSUME NEW w \in World, NEW kind, NEW at, NEW data, NEW p, NEW t, Honest(w, p, t)
  PROVE  Honest(Send(w, kind, at, data), p, t)
  BY SendFacts, Carried

\* An end that is not a success says nothing.
LEMMA Ended ==
  ASSUME NEW w \in World, NEW status, status # "accepted", NEW p, NEW t
  PROVE  Honest(Finish(w, status), p, t)
<1>1. Finish(w, status).op.phase = "done" /\ Finish(w, status).op.status = status
  BY DEF Finish, World, Operations
<1> QED BY <1>1 DEF Honest

\* What an end leaves of the operation.
LEMMA EndFacts ==
  ASSUME NEW w \in World, NEW status
  PROVE  LET x == Finish(w, status)
         IN  /\ x.op.phase = "done" /\ x.op.cmd = w.op.cmd /\ x.op.req = w.op.req
             /\ x.op.slot = w.op.slot /\ x.op.todo = w.op.todo /\ x.op.flag = w.op.flag
             /\ x.layers = w.layers /\ x.overview = w.overview
  BY DEF Finish, World, Operations

LEMMA Accepted ==
  ASSUME NEW w \in World, NEW p, NEW t, w.op.req.cmd = w.op.cmd, w.op.cmd # "upload",
         ~t => Holds(w.op, p)
  PROVE  Honest(Finish(w, "accepted"), p, t)
<1> DEFINE x == Finish(w, "accepted")
<1>1. /\ x.op.phase = "done" /\ x.op.cmd = w.op.cmd /\ x.op.req = w.op.req
      /\ x.op.slot = w.op.slot /\ x.op.todo = w.op.todo
  BY EndFacts
<1> HIDE DEF x
<1>2. ~t => Holds(x.op, p)
  BY <1>1 DEF Holds
<1>3. Honest(x, p, t)
  BY <1>1, <1>2 DEF Honest
<1> QED BY <1>3 DEF x

\* What a phase leaves of the operation, an upload's apart.
LEMMA PhaseReached ==
  ASSUME NEW w \in World, NEW phase \in Phases \ {"slots", "done"}, NEW p, NEW t,
         Reached(w, p, t), w.op.cmd # "upload",
         w.op.cmd = "clear_vacation" => w.op.phase # "slots"
  PROVE  Reached(Phase(w, phase), p, t) /\ Honest(Phase(w, phase), p, t)
<1> DEFINE x == Phase(w, phase)
<1>1. /\ x.op.phase = phase /\ x.op.cmd = w.op.cmd /\ x.op.slot = w.op.slot
      /\ x.op.cursor = w.op.cursor /\ x.op.todo = w.op.todo /\ x.overview = w.overview
  BY PhaseFacts
<1>2. x.op.flag = w.op.flag
  BY DEF Phase, World, Operations
<1> HIDE DEF x
<1>3. Reached(x, p, t)
  BY <1>1, <1>2 DEF Reached, VacationReached, Cleared
<1>4. Honest(x, p, t)
  BY <1>1, <1>3 DEF Honest
<1> QED BY <1>3, <1>4 DEF x

LEMMA RetryReached ==
  ASSUME NEW w \in World, NEW status, status # "accepted", NEW p, NEW t,
         Reached(w, p, t), w.op.cmd # "upload",
         w.op.cmd = "clear_vacation" => w.op.phase # "slots"
  PROVE  Honest(Retry(w, status), p, t)
<1> DEFINE n == w.op.tries + 1
           x == [w EXCEPT !.op.tries = n, !.op.phase = "due"]
<1>1. /\ x.op.phase = "due" /\ x.op.cmd = w.op.cmd /\ x.op.slot = w.op.slot
      /\ x.op.cursor = w.op.cursor /\ x.op.todo = w.op.todo /\ x.overview = w.overview
      /\ x.op.flag = w.op.flag
  BY DEF World, Operations
<1>2. [w EXCEPT !.op.tries = @ + 1, !.op.phase = "due"] = x
  BY DEF World, Operations
<1> HIDE DEF x
<1>3. Honest(x, p, t)
  BY <1>1 DEF Honest, Reached, VacationReached, Cleared
<1>4. Honest(Finish(w, status), p, t)
  BY Ended
<1> QED BY <1>2, <1>3, <1>4 DEF Retry

LEMMA WriteEventReached ==
  ASSUME NEW w \in World, NEW p, NEW t, w.overview.known, w.op.flag = "kept",
         w.op.cmd # "upload",
         w.op.cmd = "clear_vacation" =>
           /\ w.op.cursor \in 1..Len(w.op.todo) /\ w.op.slot = w.op.todo[w.op.cursor]
           /\ ~t => Cleared(w.op, w.op.cursor - 1, p)
  PROVE  Honest(WriteEvent(w), p, t)
<1> DEFINE y == Phase(w, "write")
<1>1. /\ y \in World /\ y.op.phase = "write" /\ y.op.cmd = w.op.cmd /\ y.op.slot = w.op.slot
      /\ y.op.cursor = w.op.cursor /\ y.op.todo = w.op.todo /\ y.overview = w.overview
  BY PhaseFacts DEF Phases
<1>2. y.op.flag = "kept"
  BY DEF Phase, World, Operations
<1> HIDE DEF y
<1>3. Honest(y, p, t)
  BY <1>1, <1>2 DEF Honest, Reached, VacationReached, Cleared
<1>4. \A data : Honest(Send(y, "event", w.op.slot, data), p, t)
  BY <1>1, <1>3, Sent
<1>5. Honest(Finish(w, "rejected"), p, t)
  BY Ended
<1> QED BY <1>4, <1>5 DEF WriteEvent, y

LEMMA ResolveReached ==
  ASSUME NEW w \in World, NEW p, NEW t, time \in 1..MaxTime, w.events.known,
         w.overview.known, w.op.flag = "kept", IsEvent(w.op), w.op.req.cmd = w.op.cmd,
         w.op.cmd = "clear_vacation" => w.op.cursor = 1 /\ w.op.todo = <<>>
  PROVE  Honest(Resolve(w), p, t)
<1>0. w.events.held \in Held /\ Now \in Nat /\ w.op.cmd # "upload"
  BY HeldIs, NowIs DEF IsEvent
<1>1. ASSUME w.op.cmd = "clear_vacation" PROVE Honest(ResolveVacation(w), p, t)
  <2> DEFINE slots == VacationSlots(w.events.held, Now)
             kept == SubSeq(slots, 1, Lesser(Len(slots), MAX_VACATIONS_PER_CLEAR))
             more == Len(slots) > Len(kept)
             y == [w EXCEPT !.op.todo = kept, !.op.slot = slots[1], !.op.unhandled = more]
  <2>1. slots \in Seq(Nat)
    <3>1. slots \in Seq(Indices(w.events.held))
      BY <1>0, VacationsMeant
    <3>2. Indices(w.events.held) \subseteq Nat
      BY <1>0, HeldTypes DEF Indices
    <3> HIDE DEF slots
    <3> QED BY <3>1, <3>2
  <2> HIDE DEF slots
  <2>2. ASSUME slots # <<>> PROVE Honest(WriteEvent(y), p, t)
    <3>1. kept \in Seq(Nat) /\ slots[1] \in Nat /\ more \in BOOLEAN
          /\ 1 \in 1..Len(kept) /\ kept[1] = slots[1]
      <4>1. MAX_VACATIONS_PER_CLEAR \in Nat \ {0}
        BY ScheduleAssumption
      <4>2. Lesser(Len(slots), MAX_VACATIONS_PER_CLEAR) \in 1..Len(slots)
        BY <2>1, <2>2, <4>1 DEF Lesser
      <4> QED BY <2>1, <2>2, <4>2
    <3> HIDE DEF kept, more
    <3>2. /\ y \in World /\ y.op.slot = slots[1] /\ y.op.todo = kept /\ y.op.cursor = w.op.cursor
          /\ y.op.cmd = w.op.cmd /\ y.op.flag = w.op.flag /\ y.overview = w.overview
      BY <3>1 DEF World, Operations
    <3> HIDE DEF y
    <3>3. y.op.cursor \in 1..Len(y.op.todo) /\ y.op.slot = y.op.todo[y.op.cursor]
          /\ Cleared(y.op, y.op.cursor - 1, p)
      BY <1>1, <3>1, <3>2 DEF Cleared
    <3> QED BY <1>1, <3>2, <3>3, WriteEventReached
  <2>3. Honest(Finish(w, "accepted"), p, t)
    <3>1. Holds(w.op, p)
      BY <1>1 DEF Holds
    <3> QED BY <1>0, <3>1, Accepted
  <2> HIDE DEF y
  <2> QED BY <2>2, <2>3 DEF ResolveVacation, slots, y, kept, more
<1>2. ASSUME w.op.cmd # "clear_vacation" PROVE Honest(ResolveFree(w), p, t)
  <2> DEFINE s == FreeSlot(w.events.held, MaxSlots(w.overview), Now)
             y == [w EXCEPT !.op.slot = s]
  <2>1. s \in Nat \cup {NoSlot}
    BY <1>0, FreeSlotIs
  <2> HIDE DEF s
  <2>2. /\ y \in World /\ y.op.cmd = w.op.cmd /\ y.op.flag = w.op.flag /\ y.overview = w.overview
    BY <2>1 DEF World, Operations
  <2> HIDE DEF y
  <2>3. Honest(WriteEvent(y), p, t)
    BY <1>0, <1>2, <2>2, WriteEventReached
  <2>4. Honest(Finish(w, "rejected"), p, t)
    BY Ended
  <2> QED BY <2>3, <2>4 DEF ResolveFree, s, y
<1> QED BY <1>1, <1>2 DEF Resolve

LEMMA OnSlotsReached ==
  ASSUME NEW w, Ready(w), NEW p, NEW t, Reached(w, p, t), time \in 1..MaxTime,
         w.op.phase = "slots", IsEvent(w.op) \/ w.op.cmd = "refresh_events",
         NEW ok \in BOOLEAN, ok => w.events.known
  PROVE  Honest(OnSlots(w, ok), p, t)
<1>1. w \in World /\ w.op.req.cmd = w.op.cmd
  BY Wanted
<1>2. ASSUME w.op.cmd = "refresh_events"
      PROVE  Honest(Finish(w, IF ok THEN "accepted" ELSE "timeout"), p, t)
  <2>1. Holds(w.op, p)
    BY <1>1, <1>2 DEF Holds
  <2> QED BY <1>1, <1>2, <2>1, Accepted, Ended
<1>3. ASSUME IsEvent(w.op), ok PROVE Honest(Resolve(w), p, t)
  <2>1. w.overview.known /\ w.op.flag = "kept"
    BY <1>3 DEF Reached, IsEvent
  <2>2. w.op.cmd = "clear_vacation" => w.op.cursor = 1 /\ w.op.todo = <<>>
    BY DEF Reached, VacationReached
  <2> QED BY <1>1, <1>3, <2>1, <2>2, ResolveReached
<1>4. Honest(Finish(w, "rejected"), p, t)
  BY <1>1, Ended
<1> QED BY <1>2, <1>3, <1>4 DEF OnSlots

\* The read-back of an event is the pump's.
LEMMA OnSlotReached ==
  ASSUME NEW w, Ready(w), NEW p \in Programs, NEW t, Reached(w, p, t), IsEvent(w.op),
         w.op.phase = "confirm", NEW ok, NEW ev,
         ok /\ ~t => w.op.slot \in 0..(PumpSlots - 1) /\ ev = p.events[w.op.slot]
  PROVE  Honest(OnSlot(w, ok, ev), p, t)
<1> DEFINE o == w.op
           s == o.todo[o.cursor + 1]
           y == [w EXCEPT !.op.cursor = @ + 1, !.op.tries = 0, !.op.slot = s]
<1>1. /\ w \in World /\ o.req.cmd = o.cmd /\ o.cmd # "upload" /\ o.phase = "confirm"
      /\ w.overview.known /\ o.flag = "kept"
  BY Wanted DEF IsEvent, Reached
<1>2. \A status \in {"timeout", "rejected"} :
        Honest(Retry(w, status), p, t) /\ Honest(Finish(w, status), p, t)
  BY <1>1, RetryReached, Ended
<1>3. ASSUME o.cmd = "clear_vacation", ok, EventMatches(ev, o)
      PROVE  /\ o.cursor \in 1..Len(o.todo) /\ o.slot = o.todo[o.cursor]
             /\ ~t => Cleared(o, o.cursor, p)
  <2>1. /\ o.cursor \in 1..Len(o.todo) /\ o.slot = o.todo[o.cursor]
        /\ ~t => Cleared(o, o.cursor - 1, p)
    BY <1>1, <1>3 DEF Reached, VacationReached
  <2>2. ~ev.on
    BY <1>3 DEF EventMatches
  <2>3. ~t => o.slot \in 0..(PumpSlots - 1) /\ ~p.events[o.slot].on
    BY <1>3, <2>2
  <2>4. o.cursor \in Nat /\ \A i \in 1..o.cursor : i \in 1..(o.cursor - 1) \/ i = o.cursor
    BY <1>1 DEF World, Operations
  <2> QED BY <2>1, <2>3, <2>4 DEF Cleared
<1>4. ASSUME ok, EventMatches(ev, o), MoreVacations(o) PROVE Honest(WriteEvent(y), p, t)
  <2>1. o.todo \in Seq(Nat) /\ o.cursor \in Nat \ {0} /\ o.cmd = "clear_vacation"
        /\ o.cursor < Len(o.todo)
    BY <1>1, <1>4 DEF World, Operations, MoreVacations
  <2>2. o.cursor + 1 \in 1..Len(o.todo) /\ s \in Nat
    <3> HIDE DEF o
    <3>1. o.cursor + 1 \in 1..Len(o.todo)
      BY <2>1
    <3> QED BY <2>1, <3>1
  <2>3. SCHED_MAX_ATTEMPTS \in Nat
    BY ScheduleAssumption
  <2> HIDE DEF s
  <2> DEFINE n == o.cursor + 1
             x == [w EXCEPT !.op.cursor = n, !.op.tries = 0, !.op.slot = s]
  <2>4. n \in Nat \ {0} /\ 0 \in 0..SCHED_MAX_ATTEMPTS /\ n - 1 = o.cursor
    BY <2>1, <2>3
  <2>5. y = x
    BY <1>1 DEF World, Operations
  <2>6. n \in 1..Len(o.todo) /\ s = o.todo[n]
    BY <2>2 DEF s
  <2> HIDE DEF n
  <2>7. /\ x \in World /\ x.op.slot = s /\ x.op.cmd = o.cmd /\ x.op.cursor = n
        /\ x.op.todo = o.todo /\ x.op.flag = o.flag /\ x.overview = w.overview
    BY <1>1, <2>2, <2>4 DEF World, Operations
  <2> HIDE DEF x, y
  <2>8. ~t => Cleared(x.op, n - 1, p)
    BY <1>3, <1>4, <2>1, <2>4, <2>7 DEF Cleared
  <2>9. Honest(WriteEvent(x), p, t)
    BY <1>1, <2>6, <2>7, <2>8, WriteEventReached
  <2> QED BY <2>5, <2>9
<1>5. ASSUME ok, EventMatches(ev, o), ~MoreVacations(o) PROVE Honest(Finish(w, "accepted"), p, t)
  <2>1. ASSUME ~t, o.cmd = "set_event" PROVE Holds(o, p)
    BY <1>1, <1>5, <2>1 DEF Holds, EventMatches, EventOf
  <2>2. ASSUME ~t, o.cmd = "clear_event" PROVE Holds(o, p)
    BY <1>1, <1>5, <2>2 DEF Holds, EventMatches
  <2>3. ASSUME ~t, o.cmd = "clear_vacation" PROVE Holds(o, p)
    <3>1. o.cursor \in 1..Len(o.todo) /\ Cleared(o, o.cursor, p) /\ ~(o.cursor < Len(o.todo))
      BY <1>3, <1>5, <2>3 DEF MoreVacations
    <3>2. o.todo \in Seq(Nat)
      BY <1>1 DEF World, Operations
    <3>3. DOMAIN o.todo = 1..o.cursor
      BY <3>1, <3>2
    <3> QED BY <1>1, <2>3, <3>1, <3>3 DEF Holds, Cleared
  <2>4. ~t => Holds(o, p)
    BY <2>1, <2>2, <2>3 DEF IsEvent
  <2> QED BY <1>1, <2>4, Accepted
<1> HIDE DEF y
<1> QED BY <1>2, <1>4, <1>5 DEF OnSlot, y
-----------------------------------------------------------------------------
(* An upload: each layer is read, written if it differs, and read back.    *)

LEMMA PhaseKeeps ==
  ASSUME NEW w \in World, NEW phase \in Phases
  PROVE  LET x == Phase(w, phase)
         IN  /\ x.op.skipped = w.op.skipped /\ x.op.failed = w.op.failed /\ x.op.flag = w.op.flag
             /\ Handled(x.op) = Handled(w.op)
             /\ \A p : \A l : Matching(l, x, p) <=> Matching(l, w, p)
<1> DEFINE x == Phase(w, phase)
<1>1. /\ x.op.skipped = w.op.skipped /\ x.op.failed = w.op.failed /\ x.op.flag = w.op.flag
  BY DEF Phase, World, Operations
<1>2. x.op.written = w.op.written /\ x.op.req = w.op.req /\ x.layers = w.layers
  BY PhaseFacts
<1> HIDE DEF x
<1>3. Handled(x.op) = Handled(w.op) /\ \A p : \A l : Matching(l, x, p) <=> Matching(l, w, p)
  BY <1>1, <1>2 DEF Handled, Matching
<1> QED BY <1>1, <1>3 DEF x

\* The cursor of an upload moves.
LEMMA AtFacts ==
  ASSUME NEW w \in World, NEW n \in Nat
  PROVE  LET x == [w EXCEPT !.op.at = n]
         IN  /\ x \in World /\ x.op.at = n /\ x.op.cmd = w.op.cmd /\ x.op.req = w.op.req
             /\ x.op.phase = w.op.phase /\ x.op.flag = w.op.flag /\ x.op.written = w.op.written
             /\ x.op.skipped = w.op.skipped /\ x.op.failed = w.op.failed
             /\ x.overview = w.overview /\ x.layers = w.layers
             /\ Handled(x.op) = Handled(w.op)
             /\ \A p : \A l : Matching(l, x, p) <=> Matching(l, w, p)
<1> DEFINE x == [w EXCEPT !.op.at = n]
<1>1. /\ x \in World /\ x.op.at = n /\ x.op.cmd = w.op.cmd /\ x.op.req = w.op.req
      /\ x.op.phase = w.op.phase /\ x.op.flag = w.op.flag /\ x.op.written = w.op.written
      /\ x.op.skipped = w.op.skipped /\ x.op.failed = w.op.failed
      /\ x.overview = w.overview /\ x.layers = w.layers
  BY DEF World, Operations
<1> HIDE DEF x
<1>2. Handled(x.op) = Handled(w.op) /\ \A p : \A l : Matching(l, x, p) <=> Matching(l, w, p)
  BY <1>1 DEF Handled, Matching
<1> QED BY <1>1, <1>2 DEF x

LEMMA StateFacts ==
  ASSUME NEW y \in World, y.overview.known, NEW on
  PROVE  LET x == SetState(y, on)
         IN  x.op = y.op /\ x.layers = y.layers /\ x.overview.known = y.overview.known
<1>1. y.overview \in [known : {TRUE}, on : BOOLEAN, stop : BOOLEAN]
  BY Known, Fields DEF Overviews
<1> DEFINE z == Send(y, "state", 0, [on |-> on, stop |-> TRUE])
<1>2. z.op = y.op /\ z.layers = y.layers /\ z.overview = y.overview
  BY SendFacts
<1>3. DOMAIN z = WFields
  BY DEF Send, World, WFields
<1> HIDE DEF z
<1>4. LET x == [z EXCEPT !.overview.stop = TRUE]
      IN  x.op = z.op /\ x.layers = z.layers /\ x.overview.known = z.overview.known
  BY <1>1, <1>2, <1>3 DEF WFields
<1> QED BY <1>2, <1>4 DEF SetState, z

LEMMA ApplyReached ==
  ASSUME NEW w \in World, NEW p, NEW t, w.overview.known, w.op.cmd = "upload",
         w.op.flag = "kept", Layers \subseteq Handled(w.op),
         ~t => \A l \in w.op.skipped : Matching(l, w, p)
  PROVE  Honest(ApplyEnabled(w), p, t)
<1>1. ASSUME w.op.req.on # "keep"
      PROVE  Honest(SetState(Phase(w, "flag"), w.op.req.on = "on"), p, t)
  <2> DEFINE y == Phase(w, "flag")
  <2>1. /\ y \in World /\ y.op.phase = "flag" /\ y.op.cmd = "upload" /\ y.overview = w.overview
        /\ y.op.req = w.op.req
    BY PhaseFacts DEF Phases
  <2>2. /\ y.op.skipped = w.op.skipped /\ y.op.flag = "kept" /\ Handled(y.op) = Handled(w.op)
        /\ \A l : Matching(l, y, p) <=> Matching(l, w, p)
    BY PhaseKeeps DEF Phases
  <2> HIDE DEF y
  <2>3. Honest(y, p, t)
    BY <1>1, <2>1, <2>2 DEF Honest, Reached, UploadReached, Settled
  <2>4. Honest(SetState(y, w.op.req.on = "on"), p, t)
    BY <2>1, <2>3, StateFacts, Carried
  <2> QED BY <2>4 DEF y
<1>2. Honest([Phase(w, "due") EXCEPT !.op.at = 0], p, t)
  <2> DEFINE y == Phase(w, "due")
             x == [y EXCEPT !.op.at = 0]
  <2>1. /\ y \in World /\ y.op.phase = "due" /\ y.op.cmd = "upload" /\ y.overview = w.overview
        /\ y.op.req = w.op.req
    BY PhaseFacts DEF Phases
  <2>2. /\ y.op.skipped = w.op.skipped /\ y.op.flag = "kept" /\ Handled(y.op) = Handled(w.op)
        /\ \A l : Matching(l, y, p) <=> Matching(l, w, p)
    BY PhaseKeeps DEF Phases
  <2> HIDE DEF y
  <2>3. /\ x.op.at = 0 /\ x.op.cmd = "upload" /\ x.op.phase = "due" /\ x.op.flag = "kept"
        /\ x.op.skipped = w.op.skipped /\ x.overview = w.overview
        /\ Handled(x.op) = Handled(w.op)
        /\ \A l : Matching(l, x, p) <=> Matching(l, w, p)
    BY <2>1, <2>2, AtFacts
  <2> HIDE DEF x
  <2>4. Honest(x, p, t)
    BY <2>3 DEF Honest, Reached, UploadReached, Settled
  <2> QED BY <2>4 DEF x, y
<1> QED BY <1>1, <1>2 DEF ApplyEnabled, FlagDiffers

LEMMA UploadNextReached ==
  ASSUME NEW w \in World, NEW p, NEW t, w.overview.known, w.op.cmd = "upload",
         w.op.flag = "kept", w.op.at \in Layers,
         \A l \in Layers : l <= w.op.at => l \in Handled(w.op),
         \A l \in w.op.skipped : l <= w.op.at,
         ~t => \A l \in w.op.skipped : Matching(l, w, p)
  PROVE  Honest(UploadNext(w), p, t)
<1> DEFINE n == w.op.at + 1
<1>0. w.op.at \in Nat /\ n \in Nat /\ Layers \subseteq Nat /\ w.op.skipped \subseteq Layers
  BY Constants DEF World, Operations
<1>1. \A l \in Nat : (l < n => l <= w.op.at) /\ (l <= w.op.at => l < n)
  BY <1>0
<1>2. n \notin Layers => Layers \subseteq Handled(w.op)
  <2>1. UPLOAD_LAYERS \in Nat
    BY ScheduleAssumption
  <2>2. n \notin Layers => \A l \in Layers : l <= w.op.at
    BY <1>0, <2>1 DEF Layers
  <2> QED BY <2>2
<1>3. n \notin Layers => Honest(ApplyEnabled(w), p, t)
  BY <1>2, ApplyReached
<1> HIDE DEF n
<1>4. Honest(ReadNext([w EXCEPT !.op.at = n]), p, t)
  <2> DEFINE y == [w EXCEPT !.op.at = n]
             x == Phase(y, "read")
  <2>1. /\ y \in World /\ y.op.at = n /\ y.op.cmd = "upload" /\ y.op.req = w.op.req
        /\ y.op.flag = "kept" /\ y.op.skipped = w.op.skipped
        /\ y.overview = w.overview /\ Handled(y.op) = Handled(w.op)
        /\ \A l : Matching(l, y, p) <=> Matching(l, w, p)
    <3>1. /\ y \in World /\ y.op.at = n /\ y.op.cmd = "upload" /\ y.op.req = w.op.req
          /\ y.op.flag = "kept" /\ y.op.skipped = w.op.skipped /\ y.overview = w.overview
      BY <1>0, AtFacts
    <3>2. Handled(y.op) = Handled(w.op) /\ \A l : Matching(l, y, p) <=> Matching(l, w, p)
      BY <1>0, AtFacts
    <3> HIDE DEF y
    <3> QED BY <3>1, <3>2
  <2> HIDE DEF y
  <2>2. /\ x \in World /\ x.op.phase = "read" /\ x.op.cmd = "upload" /\ x.overview = w.overview
        /\ x.op.at = n
    BY <2>1, PhaseFacts DEF Phases
  <2>3. /\ x.op.skipped = w.op.skipped /\ x.op.flag = "kept" /\ Handled(x.op) = Handled(w.op)
        /\ \A l : Matching(l, x, p) <=> Matching(l, w, p)
    BY <2>1, PhaseKeeps DEF Phases
  <2> HIDE DEF x
  <2>4. \A l \in Layers : l < x.op.at => l \in Handled(x.op)
    BY <1>0, <1>1, <2>2, <2>3
  <2>5. \A l \in x.op.skipped : l < x.op.at
    BY <1>0, <1>1, <2>2, <2>3
  <2>6. Honest(x, p, t)
    BY <2>2, <2>3, <2>4, <2>5 DEF Honest, Reached, UploadReached, Settled
  <2>7. Honest(Send(x, "layer", y.op.at, NoData), p, t)
    BY <2>2, <2>6, Sent
  <2> QED BY <2>7 DEF ReadNext, x, y
<1>5. [w EXCEPT !.op.at = n] = [w EXCEPT !.op.at = @ + 1]
  BY DEF n, World, Operations
<1> QED BY <1>3, <1>4, <1>5 DEF UploadNext, LastLayer, n

\* The hash of an upload that found every layer as it asked for.
LEMMA FinishUploadReached ==
  ASSUME NEW w \in World, NEW p, NEW t, w.overview.known, w.op.cmd = "upload",
         w.op.req.cmd = "upload", Layers \subseteq Handled(w.op),
         ~t => /\ \A l \in w.op.skipped \cup w.op.written : Matching(l, w, p)
               /\ w.op.flag = "taken" => p.on = (w.op.req.on = "on")
  PROVE  Honest(FinishUpload(w), p, t)
<1> DEFINE status == FinishUpload(w).op.status
           x == Finish(w, status)
<1>1. x = FinishUpload(w) /\ (status = "accepted" => w.op.failed = {})
  <2> DEFINE o == w.op
             confirmed == o.written \cup o.skipped
             s == CASE o.flag = "unreadable" -> "timeout"
                    [] o.flag = "mismatch" /\ o.failed = {} /\ confirmed # {} -> "partial"
                    [] o.flag = "mismatch" -> "rejected"
                    [] o.failed = {} -> "accepted"
                    [] confirmed # {} -> "partial"
                    [] OTHER -> "rejected"
  <2>1. FinishUpload(w) = Finish(w, s)
    BY DEF FinishUpload
  <2>2. s = "accepted" => o.failed = {}
    OBVIOUS
  <2> HIDE DEF s
  <2>3. Finish(w, s).op.status = s
    BY DEF Finish, World, Operations
  <2> QED BY <2>1, <2>2, <2>3
<1> HIDE DEF status
<1>2. /\ x.op.cmd = "upload" /\ x.op.req = w.op.req /\ x.op.flag = w.op.flag
      /\ x.op.phase = "done" /\ x.layers = w.layers /\ x.overview = w.overview
  BY EndFacts
<1>3. x.op.status = status
  BY DEF Finish, World, Operations
<1> HIDE DEF x
<1>4. ASSUME status = "accepted", ~t PROVE Holds(x.op, p) /\ Hashed(x, p)
  <2>1. \A l \in Layers : Matching(l, w, p)
    BY <1>1, <1>4 DEF Handled
  <2>2. Holds(x.op, p)
    BY <1>2, <1>4, <2>1 DEF Holds, Matching
  <2>3. Hash(x.overview, x.layers) =
          [known |-> TRUE, on |-> x.overview.on,
           grid |-> [l \in Layers |-> Canonical(x.layers[l].days)]]
    BY <1>2, <2>1 DEF Hash, Matching
  <2>4. [l \in Layers |-> Canonical(x.layers[l].days)] = [l \in Layers |-> Canonical(p.grid[l])]
    BY <1>2, <2>1 DEF Matching
  <2> QED BY <2>2, <2>3, <2>4 DEF Hashed
<1>5. Honest(x, p, t)
  BY <1>2, <1>3, <1>4 DEF Honest
<1> QED BY <1>1, <1>5

LEMMA ConfirmUploadReached ==
  ASSUME NEW w \in World, NEW p, NEW t, w.overview.known, w.op.cmd = "upload",
         w.op.req.cmd = "upload", Layers \subseteq Handled(w.op),
         ~t => /\ \A l \in w.op.skipped : Matching(l, w, p)
               /\ \A l \in w.op.written : l < w.op.at => Matching(l, w, p)
               /\ w.op.flag = "taken" => p.on = (w.op.req.on = "on")
  PROVE  Honest(ConfirmUpload(w), p, t)
<1> DEFINE left == {l \in w.op.written : l >= w.op.at}
           l == CHOOSE l \in left : \A k \in left : l <= k
           y == [Phase(w, "confirm") EXCEPT !.op.at = l]
<1>0. w.op.written \subseteq Layers /\ Layers \subseteq Nat /\ w.op.at \in Nat
  BY Constants DEF World, Operations
<1>1. ASSUME left = {} PROVE Honest(FinishUpload(w), p, t)
  <2>1. ASSUME NEW k \in w.op.written PROVE k < w.op.at
    <3>1. k \in Nat /\ ~(k >= w.op.at)
      BY <1>0, <1>1
    <3> QED BY <1>0, <3>1
  <2> QED BY <2>1, FinishUploadReached
<1>2. ASSUME left # {} PROVE Honest(Send(y, "layer", l, NoData), p, t)
  <2>1. left \in SUBSET Nat
    BY <1>0
  <2>2. l \in left /\ \A k \in left : l <= k
    BY <1>2, <2>1, Least
  <2>4. l \in Nat
    BY <2>1, <2>2
  <2> HIDE DEF l
  <2>3. ASSUME NEW k \in w.op.written, k < l PROVE k < w.op.at
    <3>0. k \in Nat
      BY <1>0
    <3>1. k \in Nat /\ ~(k \in left)
      <4> HIDE DEF left
      <4> QED BY <2>2, <2>3, <2>4, <3>0
    <3>2. k \in left <=> k >= w.op.at
      BY <2>3
    <3> QED BY <1>0, <3>1, <3>2
  <2> HIDE DEF left
  <2> DEFINE z == [w EXCEPT !.op.at = l]
             x == Phase(z, "confirm")
  <2>5. y = x
    BY DEF Phase, World, Operations
  <2> HIDE DEF y
  <2>6. /\ z \in World /\ z.op.at = l /\ z.op.cmd = "upload" /\ z.op.req = w.op.req
        /\ z.op.flag = w.op.flag /\ z.op.skipped = w.op.skipped /\ z.op.written = w.op.written
        /\ z.overview = w.overview /\ Handled(z.op) = Handled(w.op)
        /\ \A k : Matching(k, z, p) <=> Matching(k, w, p)
    BY <2>4, AtFacts
  <2> HIDE DEF z
  <2>7. /\ x \in World /\ x.op.phase = "confirm" /\ x.op.cmd = "upload" /\ x.overview = w.overview
        /\ x.op.at = l /\ x.op.written = w.op.written /\ x.op.req = w.op.req
    BY <2>6, PhaseFacts DEF Phases
  <2>8. /\ x.op.skipped = w.op.skipped /\ x.op.flag = w.op.flag /\ Handled(x.op) = Handled(w.op)
        /\ \A k : Matching(k, x, p) <=> Matching(k, w, p)
    BY <2>6, PhaseKeeps DEF Phases
  <2> HIDE DEF x
  <2>9. ~t => \A k \in Settled(x.op) : Matching(k, x, p)
    BY <2>3, <2>7, <2>8 DEF Settled
  <2>10. Honest(x, p, t)
    BY <2>7, <2>8, <2>9 DEF Honest, Reached, UploadReached
  <2> QED BY <2>5, <2>7, <2>10, Sent
<1> HIDE DEF left, l, y
<1> QED BY <1>1, <1>2 DEF ConfirmUpload, left, l, y
-----------------------------------------------------------------------------
(* What the callbacks of an operation in flight leave of it.               *)

LEMMA WriteLayerFacts ==
  ASSUME NEW w \in World, NEW l \in Layers, NEW image, NEW day
  PROVE  LET x == WriteLayer(w, l, image, day)
         IN  /\ x.op = Phase(w, "write").op /\ x.overview = w.overview
             /\ \A k \in Layers \ {l} : x.layers[k] = w.layers[k]
<1> DEFINE y == Phase(w, "write")
           z == Send(y, "write", l, [days |-> image, day |-> day])
<1>1. y \in World /\ y.overview = w.overview /\ y.layers = w.layers
  BY PhaseFacts DEF Phases
<1>2. z.op = y.op /\ z.overview = y.overview /\ z.layers = y.layers
  BY <1>1, SendFacts
<1>3. DOMAIN z = WFields /\ DOMAIN z.layers = Layers
  BY <1>1, <1>2 DEF Send, World, WFields, LayerCaches
<1> HIDE DEF z
<1>4. LET x == [z EXCEPT !.layers[l].days = image]
      IN  /\ x.op = z.op /\ x.overview = z.overview
          /\ \A k \in Layers \ {l} : x.layers[k] = z.layers[k]
  BY <1>3 DEF WFields
<1> QED BY <1>1, <1>2, <1>4 DEF WriteLayer, z

LEMMA OnPollReached ==
  ASSUME NEW w, Ready(w), NEW p, NEW t, Reached(w, p, t), OfFlag(w.op), NEW ok \in BOOLEAN,
         ok /\ ~t => w.overview.on = p.on
  PROVE  Honest(OnPoll(w, ok), p, t)
<1>1. w \in World /\ w.op.req.cmd = w.op.cmd /\ w.overview.known
  BY Wanted DEF Reached
<1>2. ASSUME w.op.cmd = "upload",
             NEW flag \in {"unreadable", "mismatch", "taken"},
             flag = "taken" => ok /\ ~FlagDiffers(w)
      PROVE  Honest([Phase(w, "due") EXCEPT !.op.at = 0, !.op.flag = flag], p, t)
  <2> DEFINE y == Phase(w, "due")
             x == [y EXCEPT !.op.at = 0, !.op.flag = flag]
  <2>1. /\ y \in World /\ y.op.phase = "due" /\ y.op.cmd = "upload" /\ y.overview = w.overview
        /\ y.op.req = w.op.req /\ y.op.written = w.op.written /\ y.layers = w.layers
    BY <1>1, <1>2, PhaseFacts DEF Phases
  <2>2. y.op.skipped = w.op.skipped /\ y.op.failed = w.op.failed
    BY <1>1, PhaseKeeps DEF Phases
  <2> HIDE DEF y
  <2>3. /\ x.op.at = 0 /\ x.op.cmd = "upload" /\ x.op.phase = "due" /\ x.op.flag = flag
        /\ x.op.req = y.op.req /\ x.op.written = y.op.written /\ x.op.failed = y.op.failed
        /\ x.op.skipped = y.op.skipped /\ x.overview = y.overview /\ x.layers = y.layers
    BY <2>1 DEF World, Operations
  <2> HIDE DEF x
  <2>4. Handled(x.op) = Handled(w.op) /\ \A l : Matching(l, x, p) <=> Matching(l, w, p)
    BY <2>1, <2>2, <2>3 DEF Handled, Matching
  <2>5. /\ w.op.phase = "flag" /\ UploadReached(w, p, t)
    BY <1>2 DEF OfFlag, Reached
  <2>6. w.op.req.on # "keep" /\ Layers \subseteq Handled(w.op)
        /\ (~t => \A l \in w.op.skipped : Matching(l, w, p))
    BY <2>5 DEF UploadReached, Settled
  <2>7. flag = "taken" /\ ~t => p.on = (w.op.req.on = "on")
    BY <1>2, <2>6 DEF FlagDiffers
  <2>8. UploadReached(x, p, t)
    BY <2>1, <2>2, <2>3, <2>4, <2>6, <2>7 DEF UploadReached, Settled
  <2>9. Honest(x, p, t)
    BY <1>1, <2>1, <2>3, <2>8 DEF Honest, Reached
  <2> QED BY <2>9 DEF x, y
<1>3. ASSUME w.op.cmd # "upload", ok, w.overview.on = w.op.req.on
      PROVE  Honest(Finish(w, "accepted"), p, t)
  <2>1. w.op.cmd = "set_enabled"
    BY <1>3 DEF OfFlag
  <2>2. ~t => Holds(w.op, p)
    BY <1>1, <1>3, <2>1 DEF Holds
  <2> QED BY <1>1, <1>3, <2>2, Accepted
<1>4. ASSUME w.op.cmd # "upload", NEW s \in {"rejected", "timeout"} PROVE Honest(Retry(w, s), p, t)
  BY <1>1, <1>4, RetryReached DEF OfFlag
<1>5. ASSUME w.op.cmd = "upload" PROVE Honest(OnPoll(w, ok), p, t)
  <2> DEFINE flag == CASE ~ok -> "unreadable" [] FlagDiffers(w) -> "mismatch" [] OTHER -> "taken"
  <2>1. flag \in {"unreadable", "mismatch", "taken"} /\ (flag = "taken" => ok /\ ~FlagDiffers(w))
    OBVIOUS
  <2> HIDE DEF flag
  <2>2. Honest([Phase(w, "due") EXCEPT !.op.at = 0, !.op.flag = flag], p, t)
    BY <1>2, <1>5, <2>1
  <2> QED BY <1>5, <2>2 DEF OnPoll, flag
<1> QED BY <1>3, <1>4, <1>5 DEF OnPoll

LEMMA OnStateReached ==
  ASSUME NEW w, Ready(w), NEW p, NEW t, Reached(w, p, t), OfFlag(w.op)
  PROVE  Honest(OnState(w), p, t)
<1>1. w \in World /\ Honest(w, p, t)
  BY Wanted DEF Honest, Ready
<1>2. Honest(Send(w, "poll", 0, NoData), p, t)
  BY <1>1, Sent
<1>3. w.op.cmd # "upload" => Honest(Phase(w, "due"), p, t)
  BY <1>1, PhaseReached DEF OfFlag, Phases
<1> QED BY <1>2, <1>3 DEF OnState

LEMMA OnWrittenReached ==
  ASSUME NEW w, Ready(w), NEW p, NEW t, Reached(w, p, t), w.op.phase = "write"
  PROVE  Honest(OnWritten(w), p, t)
<1>1. w \in World
  BY Wanted
<1>2. ASSUME w.op.cmd = "upload"
      PROVE  Honest(UploadNext([w EXCEPT !.op.written = @ \cup {w.op.at}]), p, t)
  <2> DEFINE x == [w EXCEPT !.op.written = @ \cup {w.op.at}]
  <2>1. w.op.at \in Layers /\ w.op.at \in Nat /\ Layers \subseteq Nat /\ w.op.skipped \subseteq Layers
    BY <1>1, <1>2, Constants DEF Ready, WOk, OpOk, World, Operations
  <2>2. /\ x \in World /\ x.op.cmd = "upload" /\ x.op.at = w.op.at /\ x.op.req = w.op.req
        /\ x.op.written = w.op.written \cup {w.op.at} /\ x.op.skipped = w.op.skipped
        /\ x.op.failed = w.op.failed /\ x.op.flag = w.op.flag
        /\ x.overview = w.overview /\ x.layers = w.layers
    BY <1>1, <1>2, <2>1 DEF World, Operations
  <2> HIDE DEF x
  <2>3. UploadReached(w, p, t) /\ w.overview.known
    BY <1>2 DEF Reached
  <2>4. /\ w.op.flag = "kept" /\ (\A l \in Layers : l < w.op.at => l \in Handled(w.op))
        /\ (\A l \in w.op.skipped : l < w.op.at)
        /\ (~t => \A l \in w.op.skipped : Matching(l, w, p))
    BY <2>3 DEF UploadReached, Settled
  <2>5. \A l \in Layers : l <= x.op.at => l \in Handled(x.op)
    BY <2>1, <2>2, <2>4 DEF Handled
  <2>6. ASSUME NEW l \in x.op.skipped PROVE l <= x.op.at
    <3>1. l < w.op.at /\ l \in Nat /\ x.op.at = w.op.at
      BY <2>1, <2>2, <2>4, <2>6
    <3> QED BY <2>1, <3>1
  <2>7. ~t => \A l \in x.op.skipped : Matching(l, x, p)
    BY <2>2, <2>4 DEF Matching
  <2>8. Honest(UploadNext(x), p, t)
    BY <2>1, <2>2, <2>3, <2>4, <2>5, <2>6, <2>7, UploadNextReached
  <2> QED BY <2>8 DEF x
<1>3. w.op.cmd # "upload" => Honest(Phase(w, "due"), p, t)
  BY <1>1, PhaseReached DEF Phases
<1> QED BY <1>2, <1>3 DEF OnWritten

\* An entry: nothing is reached before the read-back.
LEMMA EntryReached ==
  ASSUME NEW w, Ready(w), NEW p, NEW t, Reached(w, p, t), IsEntry(w.op), NEW ok \in BOOLEAN,
         ok /\ ~t => w.layers[w.op.req.layer].days = p.grid[w.op.req.layer]
  PROVE  Honest(EntryRead(w, ok), p, t) /\ Honest(EntryConfirmed(w, ok), p, t)
<1> DEFINE r == w.op.req
<1>1. /\ w \in World /\ r.cmd = w.op.cmd /\ r.layer \in Layers /\ w.op.cmd # "upload"
      /\ w.op.cmd # "clear_vacation" /\ w.overview.known /\ w.op.flag = "kept"
  BY Wanted DEF Ready, WOk, OpOk, IsEntry, Reached
<1>2. \A s \in {"timeout", "rejected"} : Honest(Finish(w, s), p, t) /\ Honest(Retry(w, s), p, t)
  BY <1>1, Ended, RetryReached
<1>3. ASSUME NEW image PROVE Honest(WriteLayer(w, r.layer, image, r.day), p, t)
  <2> DEFINE x == WriteLayer(w, r.layer, image, r.day)
             y == Phase(w, "write")
  <2>1. x.op = y.op /\ x.overview = w.overview
    BY <1>1, WriteLayerFacts
  <2>2. y.op.phase = "write" /\ y.op.cmd = w.op.cmd /\ y.op.flag = w.op.flag
    BY <1>1, PhaseFacts, PhaseKeeps DEF Phases
  <2> HIDE DEF x, y
  <2>3. Honest(x, p, t)
    BY <1>1, <2>1, <2>2 DEF Honest, Reached
  <2> QED BY <2>3 DEF x
<1>4. ASSUME ok, EntryMatches(w.layers[r.layer].days[r.day], r)
      PROVE  Honest(Finish(w, "accepted"), p, t)
  <2>1. ~t => Holds(w.op, p)
    BY <1>1, <1>4 DEF Holds, EntryMatches, IsEntry
  <2> QED BY <1>1, <2>1, Accepted
<1> QED BY <1>2, <1>3, <1>4 DEF EntryRead, EntryConfirmed

LEMMA UploadReadReached ==
  ASSUME NEW w, Ready(w), NEW p, NEW t, Reached(w, p, t), w.op.cmd = "upload",
         w.op.phase = "read", NEW ok \in BOOLEAN, ok => w.layers[w.op.at].known,
         ok /\ ~t => w.layers[w.op.at].days = p.grid[w.op.at]
  PROVE  Honest(UploadRead(w, ok), p, t)
<1> DEFINE l == w.op.at
<1>1. /\ w \in World /\ l \in Layers /\ l \in Nat /\ Layers \subseteq Nat
      /\ w.op.skipped \subseteq Layers
  BY Wanted, Constants DEF Ready, WOk, OpOk, World, Operations
<1>2. UploadReached(w, p, t) /\ w.overview.known
  BY DEF Reached
<1>3. /\ w.op.flag = "kept" /\ (\A k \in Layers : k < l => k \in Handled(w.op))
      /\ (\A k \in w.op.skipped : k < l)
      /\ (~t => \A k \in w.op.skipped : Matching(k, w, p))
  BY <1>2 DEF UploadReached, Settled
<1>4. Honest(UploadNext([w EXCEPT !.op.failed = @ \cup {l}]), p, t)
  <2> DEFINE x == [w EXCEPT !.op.failed = @ \cup {l}]
  <2>2. /\ x \in World /\ x.op.cmd = "upload" /\ x.op.at = l /\ x.op.req = w.op.req
        /\ x.op.written = w.op.written /\ x.op.skipped = w.op.skipped
        /\ x.op.failed = w.op.failed \cup {l} /\ x.op.flag = w.op.flag
        /\ x.overview = w.overview /\ x.layers = w.layers
    BY <1>1 DEF World, Operations
  <2> HIDE DEF x
  <2>5. \A k \in Layers : k <= x.op.at => k \in Handled(x.op)
    BY <1>1, <1>3, <2>2 DEF Handled
  <2>6. ASSUME NEW k \in x.op.skipped PROVE k <= x.op.at
    <3>1. (k < l \/ k = l) /\ k \in Nat /\ x.op.at = l
      BY <1>1, <1>3, <2>2, <2>6
    <3> HIDE DEF l
    <3> QED BY <1>1, <3>1
  <2>7. ~t => \A k \in x.op.skipped : Matching(k, x, p)
    BY <1>3, <2>2 DEF Matching
  <2>8. Honest(UploadNext(x), p, t)
    BY <1>1, <1>2, <1>3, <2>2, <2>5, <2>6, <2>7, UploadNextReached
  <2> QED BY <2>8 DEF x
<1>5. ASSUME ok, UploadMatches(w)
      PROVE  Honest(UploadNext([w EXCEPT !.op.skipped = @ \cup {l}]), p, t)
  <2> DEFINE x == [w EXCEPT !.op.skipped = @ \cup {l}]
  <2>1. ~t => Matching(l, w, p)
    BY <1>5 DEF UploadMatches, Matching
  <2>2. /\ x \in World /\ x.op.cmd = "upload" /\ x.op.at = l /\ x.op.req = w.op.req
        /\ x.op.written = w.op.written /\ x.op.skipped = w.op.skipped \cup {l}
        /\ x.op.failed = w.op.failed /\ x.op.flag = w.op.flag
        /\ x.overview = w.overview /\ x.layers = w.layers
    BY <1>1 DEF World, Operations
  <2> HIDE DEF x
  <2>5. \A k \in Layers : k <= x.op.at => k \in Handled(x.op)
    BY <1>1, <1>3, <2>2 DEF Handled
  <2>6. ASSUME NEW k \in x.op.skipped PROVE k <= x.op.at
    <3>1. (k < l \/ k = l) /\ k \in Nat /\ x.op.at = l
      BY <1>1, <1>3, <2>2, <2>6
    <3> HIDE DEF l
    <3> QED BY <1>1, <3>1
  <2>7. ~t => \A k \in x.op.skipped : Matching(k, x, p)
    BY <1>3, <2>1, <2>2 DEF Matching
  <2>8. Honest(UploadNext(x), p, t)
    BY <1>1, <1>2, <1>3, <2>2, <2>5, <2>6, <2>7, UploadNextReached
  <2> QED BY <2>8 DEF x
<1>6. ASSUME NEW image PROVE Honest(WriteLayer(w, l, image, AllDays), p, t)
  <2> DEFINE x == WriteLayer(w, l, image, AllDays)
             y == Phase(w, "write")
  <2>1. x.op = y.op /\ x.overview = w.overview /\ \A k \in Layers \ {l} : x.layers[k] = w.layers[k]
    BY <1>1, WriteLayerFacts
  <2>2. /\ y.op.phase = "write" /\ y.op.cmd = w.op.cmd /\ y.op.at = l /\ y.op.req = w.op.req
        /\ y.op.flag = w.op.flag /\ y.op.skipped = w.op.skipped /\ Handled(y.op) = Handled(w.op)
    <3>1. /\ y.op.phase = "write" /\ y.op.cmd = w.op.cmd /\ y.op.at = l /\ y.op.req = w.op.req
      BY <1>1, PhaseFacts DEF Phases
    <3>2. /\ y.op.flag = w.op.flag /\ y.op.skipped = w.op.skipped /\ Handled(y.op) = Handled(w.op)
      BY <1>1, PhaseKeeps DEF Phases
    <3> HIDE DEF y
    <3> QED BY <3>1, <3>2
  <2> HIDE DEF x, y
  <2>3. \A k \in w.op.skipped : k \in Layers \ {l}
    BY <1>1, <1>3
  <2>4. ~t => \A k \in w.op.skipped : Matching(k, x, p)
    BY <1>3, <2>1, <2>2, <2>3 DEF Matching
  <2>5. UploadReached(x, p, t)
    BY <1>3, <2>1, <2>2, <2>4 DEF UploadReached, Settled
  <2>6. Honest(x, p, t)
    BY <1>2, <2>1, <2>2, <2>5 DEF Honest, Reached
  <2> QED BY <2>6 DEF x
<1> QED BY <1>4, <1>5, <1>6 DEF UploadRead

LEMMA UploadConfirmedReached ==
  ASSUME NEW w, Ready(w), NEW p, NEW t, Reached(w, p, t), w.op.cmd = "upload",
         w.op.phase = "confirm", w.op.at \in Layers, NEW ok \in BOOLEAN,
         ok => w.layers[w.op.at].known,
         ok /\ ~t => w.layers[w.op.at].days = p.grid[w.op.at]
  PROVE  Honest(UploadConfirmed(w, ok), p, t)
<1> DEFINE l == w.op.at
           m == [w EXCEPT !.op.written = @ \ {l}, !.op.failed = @ \cup {l}]
<1>1. /\ w \in World /\ l \in Nat /\ w.op.written \subseteq Nat /\ l + 1 \in Nat
      /\ w.op.req.cmd = "upload"
  BY Wanted, Constants DEF World, Operations
<1>2. UploadReached(w, p, t) /\ w.overview.known
  BY DEF Reached
<1>3. /\ Layers \subseteq Handled(w.op)
      /\ ~t => /\ \A k \in w.op.skipped : Matching(k, w, p)
               /\ \A k \in w.op.written : k < l => Matching(k, w, p)
               /\ w.op.flag = "taken" => p.on = (w.op.req.on = "on")
  BY <1>2 DEF UploadReached, Settled
<1>4. ASSUME NEW x \in World, x.op.cmd = "upload", x.op.req = w.op.req, x.op.flag = w.op.flag,
             x.overview = w.overview, x.layers = w.layers, x.op.skipped = w.op.skipped,
             Handled(x.op) = Handled(w.op), x.op.written \subseteq w.op.written,
             \A k \in x.op.written : k = l /\ ~t => Matching(l, w, p)
      PROVE  Honest(ConfirmUpload([x EXCEPT !.op.at = l + 1]), p, t)
  <2> DEFINE n == l + 1
             y == [x EXCEPT !.op.at = n]
  <2>1. n \in Nat /\ \A k \in w.op.written : k < n => k < l \/ k = l
    BY <1>1
  <2> HIDE DEF n
  <2>2. /\ y \in World /\ y.op.at = n /\ y.op.cmd = "upload" /\ y.op.req = w.op.req
        /\ y.op.flag = w.op.flag /\ y.op.written = x.op.written /\ y.op.skipped = w.op.skipped
        /\ y.overview = w.overview /\ Handled(y.op) = Handled(w.op)
        /\ \A k : Matching(k, y, p) <=> Matching(k, x, p)
    BY <1>4, <2>1, AtFacts
  <2> HIDE DEF y
  <2>3. \A k : Matching(k, y, p) <=> Matching(k, w, p)
    BY <1>4, <2>2 DEF Matching
  <2>4. ~t => /\ \A k \in y.op.skipped : Matching(k, y, p)
              /\ \A k \in y.op.written : k < y.op.at => Matching(k, y, p)
    BY <1>3, <1>4, <2>1, <2>2, <2>3
  <2>5. Honest(ConfirmUpload(y), p, t)
    BY <1>1, <1>2, <1>3, <2>2, <2>4, ConfirmUploadReached
  <2> QED BY <2>5 DEF y, n
<1>5. ASSUME ok, UploadMatches(w) PROVE Honest(ConfirmUpload([w EXCEPT !.op.at = l + 1]), p, t)
  <2>1. ~t => Matching(l, w, p)
    BY <1>5 DEF UploadMatches, Matching
  <2> QED BY <1>1, <1>4, <2>1
<1>6. Honest(ConfirmUpload([m EXCEPT !.op.at = l + 1]), p, t)
  <2>1. /\ m \in World /\ m.op.cmd = "upload" /\ m.op.req = w.op.req /\ m.op.flag = w.op.flag
        /\ m.overview = w.overview /\ m.layers = w.layers /\ m.op.skipped = w.op.skipped
        /\ m.op.written = w.op.written \ {l} /\ m.op.failed = w.op.failed \cup {l}
    BY <1>1 DEF World, Operations
  <2> HIDE DEF m
  <2>2. Handled(m.op) = Handled(w.op) \cup {l} /\ l \in Handled(w.op)
    BY <1>3, <2>1 DEF Handled
  <2>3. Handled(m.op) = Handled(w.op)
    BY <2>2
  <2> QED BY <1>4, <2>1, <2>3
<1> HIDE DEF m
<1> QED BY <1>5, <1>6 DEF UploadConfirmed, m

LEMMA OnLayerReached ==
  ASSUME NEW w, Ready(w), NEW p, NEW t, Reached(w, p, t),
         IsEntry(w.op) \/ w.op.cmd = "upload", w.op.phase \in {"read", "confirm"},
         NEW ok \in BOOLEAN, NEW at \in Layers, IsEntry(w.op) => at = w.op.req.layer,
         w.op.cmd = "upload" => at = w.op.at, ok => w.layers[at].known,
         ok /\ ~t => w.layers[at].days = p.grid[at]
  PROVE  Honest(OnLayer(w, ok), p, t)
<1>1. CASE IsEntry(w.op)
  BY <1>1, EntryReached DEF OnLayer
<1>2. CASE w.op.cmd = "upload" /\ ~IsEntry(w.op)
  BY <1>2, UploadReadReached, UploadConfirmedReached DEF OnLayer
<1> QED BY <1>1, <1>2

\* A read brings what the pump holds, unless a late reply passed for it.
Told(c, v, p) ==
  /\ c.kind = "poll" => v.on = p.on
  /\ c.kind \in {"layer", "layers"} => v = p.grid[c.at]
  /\ c.kind = "slot" => c.at \in 0..(PumpSlots - 1) /\ v = p.events[c.at]

\* A cache that takes what the pump holds keeps what was found to match.
LEMMA LayerReached ==
  ASSUME NEW w \in World, NEW l \in Layers, NEW v \in Image, NEW p, NEW t,
         ~t => v = p.grid[l]
  PROVE  LET x == [w EXCEPT !.layers[l] = [known |-> TRUE, days |-> v]]
         IN  /\ x.layers[l].days = v /\ x.overview = w.overview
             /\ Reached(w, p, t) => Reached(x, p, t)
<1> DEFINE e == [known |-> TRUE, days |-> v]
           x == [w EXCEPT !.layers[l] = e]
<1>1. e.known /\ e.days = v
  OBVIOUS
<1> HIDE DEF e
<1>2. /\ x.op = w.op /\ x.overview = w.overview /\ x.layers[l] = e
      /\ \A k \in Layers \ {l} : x.layers[k] = w.layers[k]
  BY DEF World, LayerCaches
<1>3. w.op.skipped \subseteq Layers /\ w.op.written \subseteq Layers
  BY DEF World, Operations
<1> HIDE DEF x
<1>4. ASSUME ~t, NEW k \in Layers, Matching(k, w, p) PROVE Matching(k, x, p)
  BY <1>1, <1>2, <1>4 DEF Matching
<1>5. Settled(x.op) = Settled(w.op) /\ Settled(w.op) \subseteq Layers
  BY <1>2, <1>3 DEF Settled
<1>6. UploadReached(w, p, t) => UploadReached(x, p, t)
  BY <1>2, <1>4, <1>5 DEF UploadReached
<1>7. Reached(w, p, t) => Reached(x, p, t)
  BY <1>2, <1>6 DEF Reached
<1> QED BY <1>1, <1>2, <1>7 DEF x, e

LEMMA OverviewReached ==
  ASSUME NEW w \in World, NEW v \in Flags, NEW p, NEW t
  PROVE  LET x == [w EXCEPT !.overview = [known |-> TRUE, on |-> v.on, stop |-> v.stop]]
         IN  /\ x.overview.on = v.on
             /\ Reached(w, p, t) => Reached(x, p, t)
<1> DEFINE x == [w EXCEPT !.overview = [known |-> TRUE, on |-> v.on, stop |-> v.stop]]
<1>1. x.op = w.op /\ x.layers = w.layers /\ x.overview.known /\ x.overview.on = v.on
  BY DEF World
<1> HIDE DEF x
<1>2. Reached(w, p, t) => Reached(x, p, t)
  BY <1>1 DEF Reached, UploadReached, Matching
<1> QED BY <1>1, <1>2 DEF x

LEMMA CommitReached ==
  ASSUME NEW w \in World, NEW p, NEW t
  PROVE  Reached(w, p, t) => Reached(Commit(w), p, t)
<1> DEFINE x == Commit(w)
<1>1. x \in World /\ x.op = w.op /\ x.layers = w.layers
  BY CommitTyped
<1>2. w.overview.known => x.overview.known
  <2>1. SUFFICES ASSUME w.overview.known PROVE x.overview.known
    OBVIOUS
  <2>2. w.overview \in [known : {TRUE}, on : BOOLEAN, stop : BOOLEAN]
    BY <2>1, Known, Fields DEF Overviews
  <2> DEFINE f == [kind |-> "commit", seq |-> 0, at |-> 0,
                   data |-> [on |-> w.overview.on, stop |-> TRUE]]
             z == [w EXCEPT !.overview.stop = TRUE, !.send = Append(@, f)]
  <2>3. x = z
    BY <2>1 DEF Commit
  <2> HIDE DEF f
  <2>4. z.overview.known
    BY <2>2 DEF World
  <2> QED BY <2>3, <2>4
<1> HIDE DEF x
<1>3. Reached(w, p, t) => Reached(x, p, t)
  BY <1>1, <1>2 DEF Reached, UploadReached, Matching
<1> QED BY <1>3 DEF x

\* The callback of the oldest command keeps what the operation has reached, or
\* ends it honestly.
LEMMA DoneReached ==
  ASSUME Proper(Here), WOk(Here), time \in 1..MaxTime,
         NEW c \in Command, op.phase # "done" /\ c.seq = op.seq => op.phase # "due" /\ OwnOk(op, c),
         NEW ok \in BOOLEAN, NEW v, ok => Brings(c, v), NEW p \in Programs, NEW t,
         ok /\ ~t => Told(c, v, p), op.phase # "done" => Reached(Here, p, t)
  PROVE  /\ op.phase # "done" => Honest(Done(Here, c, ok, v), p, t)
         /\ op.phase = "done" => Done(Here, c, ok, v).op = op
<1> DEFINE w == Here
           Goes(x) == /\ op.phase # "done" => Honest(x, p, t)
                      /\ op.phase = "done" => x.op = op
<1>0. w.op = op /\ Proper(w) /\ WOk(w) /\ w \in World /\ (op.phase # "done" => Reached(w, p, t))
  BY DEF Here, Proper
<1> HIDE DEF w
\* An operation in flight that waited for c goes on from x.
<1>1. ASSUME NEW x \in World, x.op = op, InFlight(x, c)
      PROVE  Ready(x) /\ op.phase \notin {"done", "due"} /\ OwnOk(op, c)
  <2>1. DOMAIN x = WFields /\ DOMAIN x.layers = Layers
    BY <1>1 DEF World, WFields, LayerCaches
  <2>2. OpOk(x.op) /\ Named(x.op)
    BY <1>0, <1>1 DEF WOk, Proper
  <2> QED BY <1>1, <2>1, <2>2 DEF Ready, Proper, WOk, InFlight
\* One that did not has what it had.
<1>2. ASSUME NEW x, x.op = op, Reached(w, p, t) => Reached(x, p, t) PROVE Goes(x)
  BY <1>0, <1>2 DEF Honest
<1>3. ASSUME NEW x, x.op = op, NEW y, InFlight(x, c) => Honest(y, p, t),
             Reached(w, p, t) => Reached(x, p, t)
      PROVE  Goes(IF InFlight(x, c) THEN y ELSE x)
  <2>1. ASSUME InFlight(x, c) PROVE Goes(y)
    BY <1>3, <2>1 DEF InFlight
  <2>2. Goes(x)
    BY <1>2, <1>3
  <2> HIDE DEF Goes
  <2> QED BY <2>1, <2>2
<1>4. ASSUME NEW x \in World, x.op = op, Reached(w, p, t) => Reached(x, p, t), NEW f
      PROVE  Goes([x EXCEPT !.send = Append(@, f)])
  <2> DEFINE y == [x EXCEPT !.send = Append(@, f)]
  <2>1. y.op = x.op /\ y.layers = x.layers /\ y.overview = x.overview
    BY DEF World
  <2> HIDE DEF y, Goes
  <2>2. Reached(w, p, t) => Reached(y, p, t)
    BY <1>4, <2>1, Carried
  <2>3. Goes(y)
    BY <1>2, <1>4, <2>1, <2>2
  <2> QED BY <2>3 DEF y
<1>6. CASE c.kind = "poll"
  <2> DEFINE x == IF ok THEN [w EXCEPT !.overview = [known |-> TRUE, on |-> v.on, stop |-> v.stop]] ELSE w
  <2>1. /\ x \in World /\ x.op = op /\ (Reached(w, p, t) => Reached(x, p, t))
        /\ ok /\ ~t => x.overview.on = p.on
    BY <1>0, <1>6, OverviewRead, OverviewReached DEF Brings, Told
  <2> HIDE DEF x, Goes
  <2>2. ASSUME InFlight(x, c) PROVE Honest(OnPoll(x, ok), p, t)
    <3>1. Ready(x) /\ OfFlag(x.op) /\ Reached(x, p, t)
      BY <1>0, <1>1, <1>6, <2>1, <2>2 DEF OwnOk
    <3> QED BY <2>1, <3>1, OnPollReached
  <2>3. Goes(IF InFlight(x, c) THEN OnPoll(x, ok) ELSE x)
    BY <1>3, <2>1, <2>2
  <2>4. Done(w, c, ok, v) = PollDone(w, c, ok, v)
    BY <1>6 DEF Done
  <2>5. Goes(Done(w, c, ok, v))
    BY <2>3, <2>4 DEF PollDone, x
  <2> QED BY <2>5 DEF w, Goes
<1>7. CASE c.kind = "layer"
  <2> DEFINE x == IF ok THEN [w EXCEPT !.layers[c.at] = [known |-> TRUE, days |-> v]] ELSE w
  <2>0. c.at \in Layers
    BY <1>7, CommandIs
  <2>1. /\ x \in World /\ x.op = op /\ (ok => x.layers[c.at].known)
        /\ (Reached(w, p, t) => Reached(x, p, t))
        /\ ok /\ ~t => x.layers[c.at].days = p.grid[c.at]
    BY <1>0, <1>7, <2>0, LayerRead, LayerReached DEF Brings, Told
  <2> HIDE DEF x, Goes
  <2>2. ASSUME InFlight(x, c) PROVE Honest(OnLayer(x, ok), p, t)
    <3>1. Ready(x) /\ OwnOk(x.op, c) /\ Reached(x, p, t)
      BY <1>0, <1>1, <2>1, <2>2
    <3>2. /\ IsEntry(x.op) \/ x.op.cmd = "upload"
          /\ IsEntry(x.op) => c.at = x.op.req.layer
          /\ x.op.cmd = "upload" => c.at = x.op.at
          /\ x.op.phase \in {"read", "confirm"}
      BY <1>7, <3>1 DEF OwnOk
    <3> QED BY <2>0, <2>1, <3>1, <3>2, OnLayerReached
  <2>3. Goes(IF InFlight(x, c) THEN OnLayer(x, ok) ELSE x)
    BY <1>3, <2>1, <2>2
  <2>4. Done(w, c, ok, v) = LayerDone(w, c, ok, v)
    BY <1>7 DEF Done
  <2>5. Goes(Done(w, c, ok, v))
    BY <2>3, <2>4 DEF LayerDone, x
  <2> QED BY <2>5 DEF w, Goes
<1>8. CASE c.kind = "layers"
  <2> DEFINE x == IF ok THEN [w EXCEPT !.layers[c.at] = [known |-> TRUE, days |-> v]] ELSE w
             data == [ok |-> ok /\ c.data.ok]
             f == [c EXCEPT !.at = @ + 1, !.data = data]
             z == Finish(x, IF data.ok THEN "accepted" ELSE "timeout")
  <2>0. c.at \in Layers
    BY <1>8, CommandIs
  <2>1. x \in World /\ x.op = op /\ (Reached(w, p, t) => Reached(x, p, t))
    BY <1>0, <1>8, <2>0, LayerRead, LayerReached DEF Brings, Told
  <2> HIDE DEF x, Goes, data, f
  <2>3. Goes([x EXCEPT !.send = Append(@, f)])
    BY <1>4, <2>1
  <2>4. ASSUME InFlight(x, c) PROVE Honest(z, p, t)
    <3>1. Ready(x) /\ x.op.cmd = "refresh"
      BY <1>1, <1>8, <2>1, <2>4 DEF OwnOk
    <3>2. x.op.req.cmd = x.op.cmd /\ Holds(x.op, p)
      BY <3>1, Wanted DEF Holds
    <3> QED BY <2>1, <3>1, <3>2, Accepted, Ended
  <2> HIDE DEF z
  <2>5. Goes(IF InFlight(x, c) THEN z ELSE x)
    BY <1>3, <2>1, <2>4
  <2>6. Done(w, c, ok, v) = LayersDone(w, c, ok, v)
    BY <1>8 DEF Done
  <2>7. Goes(Done(w, c, ok, v))
    BY <2>3, <2>5, <2>6 DEF LayersDone, x, f, data, z
  <2> QED BY <2>7 DEF w, Goes
<1>9. CASE c.kind = "write"
  <2> DEFINE x == Commit(w)
  <2>1. x \in World /\ x.op = op /\ (Reached(w, p, t) => Reached(x, p, t))
    BY <1>0, CommitTyped, CommitReached
  <2> HIDE DEF x, Goes
  <2>2. ASSUME InFlight(x, c) PROVE Honest(OnWritten(x), p, t)
    <3>1. Ready(x) /\ x.op.phase = "write" /\ Reached(x, p, t)
      BY <1>0, <1>1, <1>9, <2>1, <2>2 DEF OwnOk
    <3> QED BY <3>1, OnWrittenReached
  <2>3. Goes(IF InFlight(x, c) THEN OnWritten(x) ELSE x)
    BY <1>3, <2>1, <2>2
  <2>4. Done(w, c, ok, v) = WriteDone(w, c)
    BY <1>9 DEF Done
  <2>5. Goes(Done(w, c, ok, v))
    BY <2>3, <2>4 DEF WriteDone, x
  <2> QED BY <2>5 DEF w, Goes
<1>10. CASE c.kind = "state"
  <2> HIDE DEF Goes
  <2>1. ASSUME InFlight(w, c) PROVE Honest(OnState(w), p, t)
    <3>1. Ready(w) /\ OfFlag(w.op) /\ Reached(w, p, t)
      BY <1>0, <1>1, <1>10, <2>1 DEF OwnOk
    <3> QED BY <3>1, OnStateReached
  <2>2. Goes(IF InFlight(w, c) THEN OnState(w) ELSE w)
    BY <1>0, <1>3, <2>1
  <2>3. Done(w, c, ok, v) = StateDone(w, c)
    BY <1>10 DEF Done
  <2>4. Goes(Done(w, c, ok, v))
    BY <2>2, <2>3 DEF StateDone
  <2> QED BY <2>4 DEF w, Goes
<1>11. CASE c.kind = "slots"
  <2> DEFINE d == c.data
             data == [d EXCEPT !.ok = ChainOk(ok, d),
                        !.got = IF ok /\ v.on THEN Append(@, v) ELSE @]
             all == IF data.ok THEN [w EXCEPT !.events = [known |-> TRUE, held |-> data.got]] ELSE w
             f == [c EXCEPT !.at = @ + 1, !.data = data]
  <2>0. d \in [got : Seq(CachedEvent), ok : BOOLEAN, max : SlotCounts] /\ c.at \in SlotNumbers
    BY <1>11, CommandIs
  <2>1. data.got \in Seq(CachedEvent) /\ data.ok \in BOOLEAN
    <3> DEFINE got == IF ok /\ v.on THEN Append(d.got, v) ELSE d.got
    <3>1. got \in Seq(CachedEvent)
      <4>1. ok /\ v.on => v \in CachedEvent
        BY <1>11, <2>0 DEF Brings, CachedEvent
      <4>2. d.got \in Seq(CachedEvent)
        BY <2>0
      <4> HIDE DEF d
      <4> QED BY <4>1, <4>2
    <3>2. data = [d EXCEPT !.ok = ChainOk(ok, d), !.got = got]
      BY <2>0
    <3> HIDE DEF got, d
    <3>3. /\ [d EXCEPT !.ok = ChainOk(ok, d), !.got = got].got = got
          /\ [d EXCEPT !.ok = ChainOk(ok, d), !.got = got].ok = ChainOk(ok, d)
      BY <2>0
    <3>4. ChainOk(ok, d) \in BOOLEAN
      BY DEF ChainOk
    <3> QED BY <3>1, <3>2, <3>3, <3>4
  <2> HIDE DEF data
  <2>2. all \in World /\ all.op = op /\ (data.ok => all.events.known)
        /\ all.layers = w.layers /\ all.overview = w.overview
    <3>1. \A e : [w EXCEPT !.events = e].layers = w.layers /\ [w EXCEPT !.events = e].overview = w.overview
      BY <1>0 DEF World
    <3> QED BY <1>0, <2>1, <3>1, EventsRead
  <2> HIDE DEF all, f, Goes
  <2>3. Reached(w, p, t) => Reached(all, p, t)
    BY <1>0, <2>2, Carried
  <2>4. Goes([w EXCEPT !.send = Append(@, f)])
    BY <1>0, <1>4
  <2>5. ASSUME InFlight(all, c) PROVE Honest(OnSlots(all, data.ok), p, t)
    <3>1. Ready(all) /\ OwnOk(all.op, c) /\ Reached(all, p, t)
      BY <1>0, <1>1, <2>2, <2>3, <2>5
    <3>2. (IsEvent(all.op) \/ all.op.cmd = "refresh_events") /\ all.op.phase = "slots"
      BY <1>11, <3>1 DEF OwnOk
    <3> QED BY <2>1, <2>2, <3>1, <3>2, OnSlotsReached
  <2>6. Goes(IF InFlight(all, c) THEN OnSlots(all, data.ok) ELSE all)
    BY <1>3, <2>2, <2>3, <2>5
  <2>7. Done(w, c, ok, v) = SlotsDone(w, c, ok, v)
    BY <1>11 DEF Done
  <2>8. Goes(Done(w, c, ok, v))
    BY <2>4, <2>6, <2>7 DEF SlotsDone, all, f, data, d
  <2> QED BY <2>8 DEF w, Goes
<1>12. CASE c.kind = "slot"
  <2> HIDE DEF Goes
  <2>1. ASSUME InFlight(w, c) PROVE Honest(OnSlot(w, ok, v), p, t)
    <3>1. Ready(w) /\ OwnOk(w.op, c) /\ Reached(w, p, t)
      BY <1>0, <1>1, <2>1
    <3>2. /\ IsEvent(w.op) /\ w.op.phase = "confirm"
          /\ ok /\ ~t => w.op.slot \in 0..(PumpSlots - 1) /\ v = p.events[w.op.slot]
      BY <1>12, <3>1 DEF OwnOk, Told
    <3> QED BY <3>1, <3>2, OnSlotReached
  <2>2. Goes(IF InFlight(w, c) THEN OnSlot(w, ok, v) ELSE w)
    BY <1>0, <1>3, <2>1
  <2>3. Done(w, c, ok, v) = SlotDone(w, c, ok, v)
    BY <1>12 DEF Done
  <2>4. Goes(Done(w, c, ok, v))
    BY <2>2, <2>3 DEF SlotDone
  <2> QED BY <2>4 DEF w, Goes
<1>13. CASE c.kind = "event"
  <2> DEFINE y == Commit(w)
             x == IF y.events.known THEN [y EXCEPT !.events.held = Recached(@, c.data.ev)] ELSE y
  <2>1. y \in World /\ y.op = op /\ (Reached(w, p, t) => Reached(y, p, t))
    BY <1>0, CommitTyped, CommitReached
  <2> HIDE DEF y
  <2>2. x.op = y.op /\ x.layers = y.layers /\ x.overview = y.overview
    BY <2>1 DEF World
  <2>3. x \in World
    <3>1. ASSUME y.events.known
          PROVE  [y EXCEPT !.events.held = Recached(@, c.data.ev)] \in World
      <4> DEFINE held == Recached(y.events.held, c.data.ev)
                 e == [y.events EXCEPT !.held = held]
      <4>1. y.events \in [known : {TRUE}, held : Seq(CachedEvent)]
        BY <2>1, <3>1, Fields, Known DEF EventCaches
      <4>2. held \in Seq(CachedEvent)
        BY <1>13, <4>1, CommandIs, RecachedTyped
      <4> HIDE DEF held
      <4>3. e \in EventCaches
        BY <4>1, <4>2 DEF EventCaches
      <4> HIDE DEF e
      <4>4. [y EXCEPT !.events = e] \in World
        BY <2>1, <4>3 DEF World
      <4>5. [y EXCEPT !.events.held = Recached(@, c.data.ev)] = [y EXCEPT !.events = e]
        BY <2>1 DEF World, e, held
      <4> QED BY <4>4, <4>5
    <3> QED BY <2>1, <3>1
  <2> HIDE DEF x, Goes
  <2>4. Reached(w, p, t) => Reached(x, p, t)
    BY <2>1, <2>2, Carried
  <2>5. ASSUME InFlight(x, c) PROVE Honest(Phase(x, "due"), p, t)
    <3>1. IsEvent(x.op) /\ x.op.phase = "write" /\ Reached(x, p, t)
      BY <1>0, <1>1, <1>13, <2>1, <2>2, <2>3, <2>4, <2>5 DEF OwnOk
    <3> QED BY <2>3, <3>1, PhaseReached DEF IsEvent, Phases
  <2>6. Goes(IF InFlight(x, c) THEN Phase(x, "due") ELSE x)
    BY <1>3, <2>1, <2>2, <2>4, <2>5
  <2>7. Done(w, c, ok, v) = EventDone(w, c)
    BY <1>13 DEF Done
  <2>8. Goes(Done(w, c, ok, v))
    BY <2>6, <2>7 DEF EventDone, x, y
  <2> QED BY <2>8 DEF w, Goes
<1>14. CASE c.kind = "commit"
  <2>1. Done(w, c, ok, v) = w
    BY <1>14 DEF Done
  <2> QED BY <1>0, <1>2, <2>1 DEF w
<1> QED
  BY <1>6, <1>7, <1>8, <1>9, <1>10, <1>11, <1>12, <1>13, <1>14, CommandIs DEF CommandKinds
-----------------------------------------------------------------------------
(* What is queued ahead of an operation's commands and behind them: once it*)
(* has verified something nothing left over by another changes the pump.   *)

\* Commands that change nothing at the pump and commit nothing.
Idle == {"poll", "layers", "slots"}
\* The operation has verified nothing yet.
First(o) ==
  IF o.cmd = "upload" THEN o.phase = "read" /\ o.at = 0
  ELSE o.phase \in {"read", "slots", "write"} /\ o.cursor = 1
Quiet(q, o) ==
  /\ \A i, j \in 1..Len(q) : q[i].seq = o.seq /\ i < j =>
       q[j].kind \in Idle \/ (First(o) /\ q[j].kind = "commit")
  /\ ~First(o) => \A i \in 1..Len(q) : q[i].seq = o.seq \/ q[i].kind \in Idle \cup {"commit"}
  /\ o.flag = "taken" => \A i \in 1..Len(q) : q[i].seq = o.seq \/ q[i].kind \in Idle

LEMMA EffectFacts ==
  ASSUME pump \in Programs, NEW c
  PROVE  LET p == Effect(c)
         IN  /\ c.kind \notin {"write", "state", "commit", "event"} => p = pump
             /\ c.kind # "write" => p.grid = pump.grid
             /\ c.kind # "event" => p.events = pump.events
             /\ c.kind \notin {"state", "commit"} => p.on = pump.on
             /\ c.kind = "write" => \A l \in Layers \ {c.at} : p.grid[l] = pump.grid[l]
             /\ c.kind = "event" => \A s \in 0..(PumpSlots - 1) :
                  p.events[s] = IF s = c.at THEN c.data.ev ELSE pump.events[s]
<1> DEFINE p == Effect(c)
<1>1. CASE c.kind = "write"
  <2> DEFINE row == [d \in Days |-> Stored(pump.grid[c.at][d], c.data.days[d])]
  <2>1. p = [pump EXCEPT !.grid[c.at] = row]
    BY <1>1 DEF Effect
  <2> HIDE DEF row
  <2> QED BY <1>1, <2>1 DEF Programs, Grids
<1>2. CASE c.kind \in {"state", "commit"}
  BY <1>2 DEF Effect, Programs
<1>3. CASE c.kind = "event"
  <2> DEFINE es == [pump.events EXCEPT ![c.at] = c.data.ev]
  <2>1. DOMAIN pump.events = 0..(PumpSlots - 1)
    BY DEF Programs, PumpEvents
  <2>2. \A s \in 0..(PumpSlots - 1) : es[s] = IF s = c.at THEN c.data.ev ELSE pump.events[s]
    BY <2>1
  <2>3. p = [pump EXCEPT !.events = es]
    BY <1>3 DEF Effect, Programs
  <2> HIDE DEF es
  <2> QED BY <1>3, <2>2, <2>3 DEF Programs
<1>4. CASE c.kind \notin {"write", "state", "commit", "event"}
  BY <1>4 DEF Effect
<1> QED BY <1>1, <1>2, <1>3, <1>4

\* What was reached, with another pump.
LEMMA StillReached ==
  ASSUME NEW w, NEW p, NEW p1, NEW t, Reached(w, p, t),
         w.op.cmd = "upload" =>
           /\ \A l \in Settled(w.op) : p1.grid[l] = p.grid[l]
           /\ w.op.flag = "taken" => p1.on = p.on,
         w.op.cmd = "clear_vacation" =>
           \A i \in 1..(w.op.cursor - 1) : w.op.todo[i] \in 0..(PumpSlots - 1) =>
             (p1.events[w.op.todo[i]].on => p.events[w.op.todo[i]].on)
  PROVE  Reached(w, p1, t)
<1>1. ASSUME w.op.cmd = "upload" PROVE UploadReached(w, p1, t)
  BY <1>1 DEF Reached, UploadReached, Matching
<1>2. ASSUME w.op.cmd = "clear_vacation" PROVE VacationReached(w.op, p1, t)
  BY <1>2 DEF Reached, VacationReached, Cleared
<1> QED BY <1>1, <1>2 DEF Reached

\* The pump acts on the oldest command.
LEMMA EffectReached ==
  ASSUME pump \in Programs, NEW w \in World, w.op = op, op.phase # "done", NEW t,
         Reached(w, pump, t), NEW c \in Command, c.seq = op.seq => OwnOk(op, c),
         c.seq # op.seq /\ ~First(op) => c.kind \in Idle \cup {"commit"},
         c.seq # op.seq /\ op.flag = "taken" => c.kind \in Idle
  PROVE  Reached(w, Effect(c), t)
<1> DEFINE p == Effect(c)
           Clears == \A i \in 1..(op.cursor - 1) : op.todo[i] \in 0..(PumpSlots - 1) =>
                       (p.events[op.todo[i]].on => pump.events[op.todo[i]].on)
<1>1. /\ c.kind \notin {"write", "state", "commit", "event"} => p = pump
      /\ c.kind # "write" => p.grid = pump.grid
      /\ c.kind # "event" => p.events = pump.events
      /\ c.kind \notin {"state", "commit"} => p.on = pump.on
      /\ c.kind = "write" => \A l \in Layers \ {c.at} : p.grid[l] = pump.grid[l]
      /\ c.kind = "event" => \A s \in 0..(PumpSlots - 1) :
           p.events[s] = IF s = c.at THEN c.data.ev ELSE pump.events[s]
  BY EffectFacts
<1>2. op.cursor \in Nat \ {0} /\ op.skipped \subseteq Layers /\ Layers \subseteq Nat
  BY Constants DEF World, Operations
<1> HIDE DEF p
<1>3. ASSUME op.cmd = "upload"
      PROVE  /\ \A l \in Settled(op) : p.grid[l] = pump.grid[l]
             /\ op.flag = "taken" => p.on = pump.on
  <2>1. UploadReached(w, pump, t)
    BY <1>3 DEF Reached
  <2>2. /\ op.flag # "kept" => op.phase \in {"due", "confirm"}
        /\ op.phase \in {"read", "write"} => \A l \in op.skipped : l < op.at
    BY <2>1 DEF UploadReached
  <2>3. CASE c.seq = op.seq
    <3>1. /\ c.kind = "write" => op.phase = "write" /\ c.at = op.at /\ op.at \in Layers
          /\ c.kind \in {"state", "commit"} => op.phase = "flag"
      BY <1>3, <2>3, CommandIs DEF OwnOk, OfFlag
    <3>2. ASSUME c.kind = "write" PROVE Settled(op) \subseteq Layers \ {c.at}
      <4>1. op.phase = "write" /\ c.at = op.at /\ Settled(op) = op.skipped
        BY <3>1, <3>2 DEF Settled
      <4>2. \A l \in op.skipped : l < op.at
        BY <2>2, <4>1
      <4>3. op.at \in Nat
        BY <1>2, <3>1, <3>2
      <4>4. \A l \in op.skipped : l \in Layers /\ l # op.at
        BY <1>2, <4>2, <4>3
      <4> QED BY <4>1, <4>4
    <3> QED BY <1>1, <2>2, <3>1, <3>2
  <2>4. CASE c.seq # op.seq /\ First(op)
    <3>1. op.phase = "read" /\ op.at = 0
      BY <1>3, <2>4 DEF First
    <3>2. \A l \in op.skipped : l < 0 /\ l \in Nat
      BY <1>2, <2>2, <3>1
    <3>3. Settled(op) = {}
      BY <3>1, <3>2 DEF Settled
    <3> QED BY <2>2, <3>1, <3>3
  <2>5. CASE c.seq # op.seq /\ ~First(op)
    BY <1>1, <2>5 DEF Idle
  <2> QED BY <2>3, <2>4, <2>5
<1>4. ASSUME op.cmd = "clear_vacation" PROVE Clears
  <2>1. CASE c.seq = op.seq
    <3>1. c.kind = "event" => ~c.data.ev.on
      BY <1>4, <2>1 DEF OwnOk
    <3> QED BY <1>1, <3>1
  <2>2. CASE c.seq # op.seq /\ First(op)
    <3>1. op.cursor = 1
      BY <1>4, <2>2 DEF First
    <3>2. 1..(op.cursor - 1) = {}
      BY <3>1
    <3> QED BY <3>2
  <2>3. CASE c.seq # op.seq /\ ~First(op)
    BY <1>1, <2>3 DEF Idle
  <2> QED BY <2>1, <2>2, <2>3
<1>5. Reached(w, p, t)
  BY <1>3, <1>4, StillReached
<1> QED BY <1>5 DEF p

\* An interference forgives what the operation found.
LEMMA Touched ==
  ASSUME NEW w, NEW p, NEW p1, NEW t, Reached(w, p, t)
  PROVE  Reached(w, p1, TRUE)
  BY DEF Reached, UploadReached, VacationReached

LEMMA QuietTail ==
  ASSUME NEW S, NEW q \in Seq(S), q # <<>>, NEW o, Quiet(q, o)
  PROVE  LET t == Tail(q)
             c == Head(q)
         IN  /\ Quiet(t, o)
             /\ c.seq = o.seq => \A i \in 1..Len(t) : t[i].kind \in Idle \/ (First(o) /\ t[i].kind = "commit")
             /\ c.seq # o.seq /\ ~First(o) => c.kind \in Idle \cup {"commit"}
             /\ c.seq # o.seq /\ o.flag = "taken" => c.kind \in Idle
<1> DEFINE t == Tail(q)
           c == Head(q)
<1>1. /\ Len(t) = Len(q) - 1 /\ Len(q) \in Nat /\ Len(q) > 0
      /\ \A i \in 1..Len(t) : t[i] = q[i + 1] /\ i + 1 \in 1..Len(q) /\ 1 < i + 1
      /\ c = q[1] /\ 1 \in 1..Len(q)
  OBVIOUS
<1> HIDE DEF t, c
<1>2. /\ \A i, j \in 1..Len(q) : q[i].seq = o.seq /\ i < j =>
           q[j].kind \in Idle \/ (First(o) /\ q[j].kind = "commit")
      /\ ~First(o) => \A i \in 1..Len(q) : q[i].seq = o.seq \/ q[i].kind \in Idle \cup {"commit"}
      /\ o.flag = "taken" => \A i \in 1..Len(q) : q[i].seq = o.seq \/ q[i].kind \in Idle
  BY DEF Quiet
<1> DEFINE Passes(j) == q[j].kind \in Idle \/ (First(o) /\ q[j].kind = "commit")
<1>3. ASSUME NEW i \in 1..Len(t), NEW j \in 1..Len(t), t[i].seq = o.seq, i < j PROVE Passes(j + 1)
  <2>1. i + 1 < j + 1 /\ i + 1 \in 1..Len(q) /\ j + 1 \in 1..Len(q) /\ q[i + 1].seq = o.seq
    BY <1>1, <1>3
  <2> QED BY <1>2, <2>1
<1>4. ASSUME c.seq = o.seq, NEW i \in 1..Len(t) PROVE Passes(i + 1)
  BY <1>1, <1>2, <1>4
<1>5. Quiet(t, o)
  BY <1>1, <1>2, <1>3 DEF Quiet
<1>6. c.seq = o.seq => \A i \in 1..Len(t) : t[i].kind \in Idle \/ (First(o) /\ t[i].kind = "commit")
  BY <1>1, <1>4
<1> QED BY <1>1, <1>2, <1>5, <1>6 DEF t, c

\* A command of none in flight goes to the end.
LEMMA QuietForeign ==
  ASSUME NEW S, NEW q \in Seq(S), NEW o, Quiet(q, o), NEW e, e.seq # o.seq,
         e.kind \in Idle \/ (e.kind = "commit" /\ First(o) /\ o.flag # "taken")
  PROVE  Quiet(Append(q, e), o)
<1> DEFINE r == Append(q, e)
<1>1. /\ Len(r) = Len(q) + 1 /\ Len(q) \in Nat
      /\ \A i \in 1..Len(q) : r[i] = q[i]
      /\ r[Len(q) + 1] = e
      /\ \A i \in 1..(Len(q) + 1) : i \in 1..Len(q) \/ i = Len(q) + 1
  OBVIOUS
<1> HIDE DEF r
<1>2. ASSUME NEW i \in 1..Len(r), NEW j \in 1..Len(r), r[i].seq = o.seq, i < j
      PROVE  r[j].kind \in Idle \/ (First(o) /\ r[j].kind = "commit")
  <2>1. CASE j = Len(q) + 1
    BY <1>1, <2>1
  <2>2. CASE j # Len(q) + 1
    <3>1. j \in 1..Len(q) /\ i \in 1..Len(q)
      BY <1>1, <1>2, <2>2
    <3> QED BY <1>1, <1>2, <3>1 DEF Quiet
  <2> QED BY <2>1, <2>2
<1>3. ~First(o) => \A i \in 1..Len(r) : r[i].seq = o.seq \/ r[i].kind \in Idle \cup {"commit"}
  BY <1>1 DEF Quiet
<1>4. o.flag = "taken" => \A i \in 1..Len(r) : r[i].seq = o.seq \/ r[i].kind \in Idle
  <2>1. o.flag = "taken" => e.kind \in Idle
    OBVIOUS
  <2> QED BY <1>1, <2>1 DEF Quiet
<1>5. Quiet(r, o)
  BY <1>2, <1>3, <1>4 DEF Quiet
<1> QED BY <1>5 DEF r

\* An operation with nothing queued asks for the next thing, or waits.
LEMMA QuietOwn ==
  ASSUME NEW S, NEW q \in Seq(S), NEW o, NoOwn(q, o),
         ~First(o) => \A i \in 1..Len(q) : q[i].kind \in Idle \cup {"commit"},
         o.flag = "taken" => \A i \in 1..Len(q) : q[i].kind \in Idle
  PROVE  /\ Quiet(q, o)
         /\ \A e : e.seq = o.seq => Quiet(Append(q, e), o)
<1>1. Quiet(q, o)
  BY DEF Quiet, NoOwn
<1>2. ASSUME NEW e, e.seq = o.seq PROVE Quiet(Append(q, e), o)
  <2> DEFINE r == Append(q, e)
  <2>1. /\ Len(r) = Len(q) + 1 /\ Len(q) \in Nat
        /\ \A i \in 1..Len(q) : r[i] = q[i]
        /\ r[Len(q) + 1] = e
        /\ \A i \in 1..(Len(q) + 1) : i \in 1..Len(q) \/ i = Len(q) + 1
    OBVIOUS
  <2> HIDE DEF r
  <2>2. ASSUME NEW i \in 1..Len(r), NEW j \in 1..Len(r), r[i].seq = o.seq, i < j PROVE FALSE
    <3>1. i \in 1..Len(q)
      BY <2>1, <2>2
    <3> QED BY <2>1, <2>2, <3>1 DEF NoOwn
  <2>3. \A i \in 1..Len(r) : r[i].seq = o.seq \/ \E j \in 1..Len(q) : r[i] = q[j]
    BY <1>2, <2>1
  <2>4. Quiet(r, o)
    BY <2>2, <2>3 DEF Quiet
  <2> QED BY <2>4 DEF r
<1> QED BY <1>1, <1>2

\* What the callback of command c sends beyond what its operation asks for.
Commits(c, s) ==
  s = <<>> \/ (c.kind \in {"write", "event"} /\ \E f : s = <<f>> /\ f.seq = 0 /\ f.kind = "commit")

LEMMA CommitSent ==
  ASSUME NEW w, WOk(w), w.send = <<>>, NEW c, c.kind \in {"write", "event"}
  PROVE  WOk(Commit(w)) /\ Commit(w).op = w.op /\ Commits(c, Commit(w).send)
  BY CommitOk DEF Commits

LEMMA ResultSent ==
  ASSUME NEW c, NEW w, Commits(c, w.send), NEW x, Result(w, x)
  PROVE  \E s : /\ Commits(c, s)
                /\ \/ x.send = s
                   \/ \E e : x.send = Append(s, e) /\ e.seq = w.op.seq
  BY DEF Result

LEMMA DoneSent ==
  ASSUME OpOk(op), DOMAIN layers = Layers, NEW c, Shaped(c),
         op.phase # "done" /\ c.seq = op.seq => op.phase # "due" /\ OwnOk(op, c),
         NEW ok \in BOOLEAN, NEW v, c.kind = "layer" /\ ok => v \in [Days -> Cell]
  PROVE  LET x == Done(Here, c, ok, v)
         IN  /\ ~InFlight(Here, c) =>
                  /\ x.op = op
                  /\ \/ Commits(c, x.send)
                     \/ c.kind \in Idle /\ \E f : x.send = <<f>> /\ f.seq = c.seq /\ f.kind = c.kind
             /\ InFlight(Here, c) => x.op.seq = op.seq /\ \E s : Commits(c, s) /\
                  (x.send = s \/ \E e : x.send = Append(s, e) /\ e.seq = op.seq)
<1> DEFINE w == Here
           Foreign(x) == /\ x.op = op
                         /\ \/ Commits(c, x.send)
                            \/ c.kind \in Idle /\ \E f : x.send = <<f>> /\ f.seq = c.seq /\ f.kind = c.kind
           Own(x) == x.op.seq = op.seq /\ \E s : Commits(c, s) /\
                       (x.send = s \/ \E e : x.send = Append(s, e) /\ e.seq = op.seq)
           Sends(x) == IF InFlight(w, c) THEN Own(x) ELSE Foreign(x)
<1>0. w.op = op /\ w.layers = layers /\ w.send = <<>> /\ DOMAIN w = WFields
  BY DEF Here, WFields
<1>w. WOk(w) /\ Commits(c, w.send)
  BY <1>0 DEF WOk, Commits
<1> HIDE DEF w, Own, Foreign
<1>1. ASSUME NEW x, x.op = op, Commits(c, x.send), NEW y, InFlight(x, c) => Result(x, y)
      PROVE  Sends(IF InFlight(x, c) THEN y ELSE x)
  <2>1. InFlight(x, c) = InFlight(w, c)
    BY <1>0, <1>1 DEF InFlight
  <2>2. ASSUME InFlight(x, c) PROVE Own(y)
    BY <1>1, <2>2, ResultSent DEF Own, Result
  <2>3. Foreign(x)
    BY <1>1 DEF Foreign
  <2> QED BY <2>1, <2>2, <2>3
<1>4. ASSUME NEW x, WOk(x), x.op = op, x.send = <<>>, c.kind \in {"layers", "slots"}, NEW data,
             NEW y, y = [x EXCEPT !.send = Append(@, [c EXCEPT !.at = @ + 1, !.data = data])]
      PROVE  Sends(y)
  <2> DEFINE f == [c EXCEPT !.at = @ + 1, !.data = data]
  <2>1. f.seq = c.seq /\ f.kind = c.kind
    BY DEF Shaped
  <2> HIDE DEF f
  <2>2. Append(<<>>, f) = <<f>>
    OBVIOUS
  <2>3. y.send = Append(<<>>, f) /\ y.op = op
    BY <1>4 DEF f, WOk, WFields
  <2>4. Foreign(y)
    BY <1>4, <2>1, <2>2, <2>3 DEF Foreign, Idle
  <2>5. ASSUME InFlight(w, c) PROVE Own(y)
    <3>1. f.seq = op.seq /\ Commits(c, <<>>)
      BY <1>0, <2>1, <2>5 DEF InFlight, Commits
    <3> QED BY <2>3, <3>1 DEF Own
  <2> QED BY <2>4, <2>5
<1>5. ASSUME NEW x, x.op = op, InFlight(x, c)
      PROVE  /\ x.op.phase \notin {"done", "due"} /\ OwnOk(x.op, c)
             /\ c.kind \notin {"layers", "slots"} => x.op.cmd \in Confirmable
  BY <1>5 DEF OwnOk, InFlight
<1> HIDE DEF Sends
<1>6. CASE c.kind = "poll"
  <2> DEFINE x == IF ok THEN [w EXCEPT !.overview = [known |-> TRUE, on |-> v.on, stop |-> v.stop]] ELSE w
  <2>1. WOk(x) /\ x.op = op /\ x.send = <<>>
    BY <1>0, <1>w DEF WOk, WFields
  <2> HIDE DEF x
  <2>2. InFlight(x, c) => Result(x, OnPoll(x, ok))
    BY <1>5, <1>6, <2>1, PollResult
  <2>3. Sends(IF InFlight(x, c) THEN OnPoll(x, ok) ELSE x)
    BY <1>1, <2>1, <2>2 DEF Commits
  <2>4. Done(w, c, ok, v) = PollDone(w, c, ok, v)
    BY <1>6 DEF Done
  <2>5. Sends(Done(w, c, ok, v))
    BY <2>3, <2>4 DEF PollDone, x
  <2> QED BY <2>5 DEF Sends, Own, Foreign, w
<1>7. CASE c.kind = "layer"
  <2>0. c.at \in Layers
    BY <1>7 DEF Shaped
  <2> DEFINE x == IF ok THEN [w EXCEPT !.layers[c.at] = [known |-> TRUE, days |-> v]] ELSE w
  <2>1. WOk(x) /\ x.op = op /\ x.send = <<>> /\ (ok => x.layers[c.at].days = v)
    BY <1>0, <1>w, <2>0 DEF WOk, WFields
  <2> HIDE DEF x
  <2>2. ASSUME InFlight(x, c) PROVE Result(x, OnLayer(x, ok))
    <3>1. /\ IsEntry(x.op) => c.at = x.op.req.layer
          /\ IsEntry(x.op) \/ x.op.cmd = "upload"
          /\ x.op.phase \in {"read", "confirm"}
      BY <1>7, <1>5, <2>1, <2>2 DEF OwnOk
    <3>2. ok => x.layers[c.at].days \in [Days -> Cell]
      BY <1>7, <2>1
    <3> QED BY <2>0, <2>1, <3>1, <3>2, LayerDoneResult
  <2>3. Sends(IF InFlight(x, c) THEN OnLayer(x, ok) ELSE x)
    BY <1>1, <2>1, <2>2 DEF Commits
  <2>4. Done(w, c, ok, v) = LayerDone(w, c, ok, v)
    BY <1>7 DEF Done
  <2>5. Sends(Done(w, c, ok, v))
    BY <2>3, <2>4 DEF LayerDone, x
  <2> QED BY <2>5 DEF Sends, Own, Foreign, w
<1>8. CASE c.kind = "layers"
  <2> DEFINE x == IF ok THEN [w EXCEPT !.layers[c.at] = [known |-> TRUE, days |-> v]] ELSE w
             data == [ok |-> ok /\ c.data.ok]
             y == [x EXCEPT !.send = Append(@, [c EXCEPT !.at = @ + 1, !.data = data])]
             z == Finish(x, IF data.ok THEN "accepted" ELSE "timeout")
  <2>1. WOk(x) /\ x.op = op /\ x.send = <<>>
    BY <1>0, <1>w DEF WOk, WFields
  <2> HIDE DEF x, data
  <2>2. Sends(y)
    BY <1>4, <1>8, <2>1
  <2>3. Result(x, z)
    BY <2>1, FinishResult
  <2> HIDE DEF y, z
  <2>4. Sends(IF InFlight(x, c) THEN z ELSE x)
    BY <1>1, <2>1, <2>3 DEF Commits
  <2>6. Done(w, c, ok, v) = LayersDone(w, c, ok, v)
    BY <1>8 DEF Done
  <2>7. Sends(Done(w, c, ok, v))
    BY <2>2, <2>4, <2>6 DEF LayersDone, x, y, z, data
  <2> QED BY <2>7 DEF Sends, Own, Foreign, w
<1>9. CASE c.kind = "write"
  <2> DEFINE x == Commit(w)
  <2>1. WOk(x) /\ x.op = op /\ Commits(c, x.send)
    BY <1>0, <1>w, <1>9, CommitSent
  <2> HIDE DEF x
  <2>2. InFlight(x, c) => Result(x, OnWritten(x))
    BY <1>5, <1>9, <2>1, WrittenResult DEF OwnOk
  <2>3. Sends(IF InFlight(x, c) THEN OnWritten(x) ELSE x)
    BY <1>1, <2>1, <2>2
  <2>4. Done(w, c, ok, v) = WriteDone(w, c)
    BY <1>9 DEF Done
  <2>5. Sends(Done(w, c, ok, v))
    BY <2>3, <2>4 DEF WriteDone, x
  <2> QED BY <2>5 DEF Sends, Own, Foreign, w
<1>10. CASE c.kind = "state"
  <2>1. InFlight(w, c) => Result(w, OnState(w))
    <3>1. InFlight(w, c) => w.op.phase # "read" /\ OfFlag(w.op)
      BY <1>0, <1>5, <1>10 DEF OwnOk
    <3> QED BY <1>0, <1>w, <1>5, <1>10, <3>1, StateDoneResult DEF OfFlag
  <2>2. Sends(IF InFlight(w, c) THEN OnState(w) ELSE w)
    BY <1>0, <1>w, <1>1, <2>1
  <2>3. Done(w, c, ok, v) = StateDone(w, c)
    BY <1>10 DEF Done
  <2>4. Sends(Done(w, c, ok, v))
    BY <2>2, <2>3 DEF StateDone
  <2> QED BY <2>4 DEF Sends, Own, Foreign, w
<1>11. CASE c.kind = "slots"
  <2> DEFINE data == [c.data EXCEPT !.ok = ChainOk(ok, c.data),
                        !.got = IF ok /\ v.on THEN Append(@, v) ELSE @]
             all == IF data.ok THEN [w EXCEPT !.events = [known |-> TRUE, held |-> data.got]] ELSE w
             y == [w EXCEPT !.send = Append(@, [c EXCEPT !.at = @ + 1, !.data = data])]
  <2>1. WOk(all) /\ all.op = op /\ all.send = <<>>
    BY <1>0, <1>w DEF WOk, WFields
  <2> HIDE DEF all, data
  <2>2. Sends(y)
    BY <1>0, <1>w, <1>4, <1>11
  <2>3. InFlight(all, c) => Result(all, OnSlots(all, data.ok))
    <3>1. InFlight(all, c) => (IsEvent(all.op) \/ all.op.cmd = "refresh_events") /\ all.op.phase # "done"
      BY <1>5, <1>11, <2>1 DEF OwnOk
    <3> QED BY <2>1, <3>1, SlotsResult
  <2> HIDE DEF y
  <2>4. Sends(IF InFlight(all, c) THEN OnSlots(all, data.ok) ELSE all)
    BY <1>1, <2>1, <2>3 DEF Commits
  <2>5. Done(w, c, ok, v) = SlotsDone(w, c, ok, v)
    BY <1>11 DEF Done
  <2>6. Sends(Done(w, c, ok, v))
    BY <2>2, <2>4, <2>5 DEF SlotsDone, all, y, data
  <2> QED BY <2>6 DEF Sends, Own, Foreign, w
<1>12. CASE c.kind = "slot"
  <2>1. InFlight(w, c) => Result(w, OnSlot(w, ok, v))
    <3>1. InFlight(w, c) => IsEvent(w.op) /\ w.op.phase # "done"
      BY <1>0, <1>5, <1>12 DEF OwnOk
    <3> QED BY <1>0, <1>w, <3>1, SlotResult
  <2>2. Sends(IF InFlight(w, c) THEN OnSlot(w, ok, v) ELSE w)
    BY <1>0, <1>w, <1>1, <2>1
  <2>3. Done(w, c, ok, v) = SlotDone(w, c, ok, v)
    BY <1>12 DEF Done
  <2>4. Sends(Done(w, c, ok, v))
    BY <2>2, <2>3 DEF SlotDone
  <2> QED BY <2>4 DEF Sends, Own, Foreign, w
<1>13. CASE c.kind = "event"
  <2> DEFINE y == Commit(w)
             x == IF y.events.known THEN [y EXCEPT !.events.held = Recached(@, c.data.ev)] ELSE y
  <2>1. WOk(y) /\ y.op = op /\ Commits(c, y.send)
    BY <1>0, <1>w, <1>13, CommitSent
  <2> HIDE DEF y
  <2>2. x.send = y.send /\ x.op = y.op /\ WOk(x)
    BY <2>1 DEF WOk, WFields
  <2> HIDE DEF x
  <2>3. InFlight(x, c) => Result(x, Phase(x, "due"))
    BY <1>5, <1>13, <2>1, <2>2, DueResult
  <2>4. Sends(IF InFlight(x, c) THEN Phase(x, "due") ELSE x)
    BY <1>1, <2>1, <2>2, <2>3
  <2>5. Done(w, c, ok, v) = EventDone(w, c)
    BY <1>13 DEF Done
  <2>6. Sends(Done(w, c, ok, v))
    BY <2>4, <2>5 DEF EventDone, x, y
  <2> QED BY <2>6 DEF Sends, Own, Foreign, w
<1>14. CASE c.kind = "commit"
  <2>1. ~InFlight(w, c)
    BY <1>0, <1>5, <1>14 DEF OwnOk
  <2>2. Done(w, c, ok, v) = w
    BY <1>14 DEF Done
  <2> QED BY <1>0, <1>w, <2>1, <2>2 DEF w
<1> QED
  BY <1>6, <1>7, <1>8, <1>9, <1>10, <1>11, <1>12, <1>13, <1>14 DEF Shaped, CommandKinds
-----------------------------------------------------------------------------
(* The outcome of an upload's flag, and what an operation queues.          *)

\* No step of an operation but the poll's decides what became of the flag, and
\* none but a callback of ScheduleService's own changes the cached events.
Framed(w) == DOMAIN w = WFields /\ DOMAIN w.op = OpFields
Unflagged(w, x) == Framed(x) /\ x.op.flag = w.op.flag /\ x.op.cmd = w.op.cmd
Steady(w, x) ==
  Framed(x) /\ x.op.flag = w.op.flag /\ x.op.cmd = w.op.cmd /\ x.events = w.events

LEMMA SteadyBasic ==
  ASSUME NEW w, Framed(w)
  PROVE  /\ \A status : Steady(w, Finish(w, status)) /\ Steady(w, Retry(w, status))
         /\ \A phase : Steady(w, Phase(w, phase))
         /\ \A kind, at, data : Steady(w, Send(w, kind, at, data))
         /\ \A on : Steady(w, SetState(w, on))
<1>1. \A status : Steady(w, Finish(w, status))
  BY DEF Framed, Steady, Finish, WFields, OpFields
<1>2. \A status : Steady(w, Retry(w, status))
  BY <1>1 DEF Framed, Steady, Retry, WFields, OpFields
<1>3. \A phase : Steady(w, Phase(w, phase))
  BY DEF Framed, Steady, Phase, WFields, OpFields
<1>4. ASSUME NEW kind, NEW at, NEW data PROVE Steady(w, Send(w, kind, at, data))
  BY DEF Framed, Steady, Send, WFields, OpFields
<1>5. ASSUME NEW on PROVE Steady(w, SetState(w, on))
  <2> DEFINE x == Send(w, "state", 0, [on |-> on, stop |-> TRUE])
  <2>1. Steady(w, x)
    BY <1>4
  <2> HIDE DEF x
  <2>2. Steady(w, [x EXCEPT !.overview.stop = TRUE])
    BY <2>1 DEF Framed, Steady, WFields
  <2> QED BY <2>2 DEF SetState, x
<1> QED BY <1>1, <1>2, <1>3, <1>4, <1>5

LEMMA SteadyTrans ==
  ASSUME NEW w, NEW x, NEW y, Steady(w, x), Framed(x) => Steady(x, y)
  PROVE  Steady(w, y)
  BY DEF Steady

LEMMA SteadyEvent ==
  ASSUME NEW w, Framed(w)
  PROVE  Steady(w, WriteEvent(w)) /\ Steady(w, Resolve(w))
<1>1. ASSUME NEW y, Framed(y) PROVE Steady(y, WriteEvent(y))
  <2> DEFINE z == Phase(y, "write")
  <2>1. Steady(y, z) /\ Steady(y, Finish(y, "rejected"))
    BY <1>1, SteadyBasic
  <2> HIDE DEF z
  <2>2. \A at, data : Steady(y, Send(z, "event", at, data))
    BY <2>1, SteadyBasic, SteadyTrans
  <2> QED BY <2>1, <2>2 DEF WriteEvent, z
<1>2. ASSUME NEW todo, NEW slot, NEW more
      PROVE  Steady(w, WriteEvent([w EXCEPT !.op.todo = todo, !.op.slot = slot, !.op.unhandled = more]))
  <2> DEFINE y == [w EXCEPT !.op.todo = todo, !.op.slot = slot, !.op.unhandled = more]
  <2>1. Steady(w, y)
    BY DEF Framed, Steady, WFields, OpFields
  <2> HIDE DEF y
  <2>2. Steady(w, WriteEvent(y))
    BY <1>1, <2>1, SteadyTrans
  <2> QED BY <2>2 DEF y
<1>3. ASSUME NEW slot PROVE Steady(w, WriteEvent([w EXCEPT !.op.slot = slot]))
  <2> DEFINE y == [w EXCEPT !.op.slot = slot]
  <2>1. Steady(w, y)
    BY DEF Framed, Steady, WFields, OpFields
  <2> HIDE DEF y
  <2>2. Steady(w, WriteEvent(y))
    BY <1>1, <2>1, SteadyTrans
  <2> QED BY <2>2 DEF y
<1>4. \A s : Steady(w, Finish(w, s))
  BY SteadyBasic
<1>5. Steady(w, ResolveVacation(w))
  BY <1>2, <1>4 DEF ResolveVacation
<1>6. Steady(w, ResolveFree(w))
  BY <1>3, <1>4 DEF ResolveFree
<1> QED BY <1>1, <1>5, <1>6 DEF Resolve

LEMMA SteadyLayer ==
  ASSUME NEW w, Framed(w), DOMAIN w.layers = Layers
  PROVE  \A l \in Layers : \A image, day : Steady(w, WriteLayer(w, l, image, day))
<1> SUFFICES ASSUME NEW l \in Layers, NEW image, NEW day PROVE Steady(w, WriteLayer(w, l, image, day))
  OBVIOUS
<1> DEFINE y == Phase(w, "write")
           z == Send(y, "write", l, [days |-> image, day |-> day])
<1>1. Steady(w, y)
  BY SteadyBasic
<1>2. Steady(w, z)
  BY <1>1, SteadyBasic, SteadyTrans
<1> HIDE DEF z
<1>3. Steady(w, [z EXCEPT !.layers[l].days = image])
  BY <1>2 DEF Framed, Steady, WFields
<1> QED BY <1>3 DEF WriteLayer, z

LEMMA SteadyUpload ==
  ASSUME NEW w, Framed(w)
  PROVE  Steady(w, UploadNext(w)) /\ Steady(w, ConfirmUpload(w)) /\ Steady(w, ReadNext(w))
<1>0. ASSUME NEW y, Framed(y), NEW n PROVE Steady(y, [y EXCEPT !.op.at = n])
  BY <1>0 DEF Framed, Steady, WFields, OpFields
<1>1. ASSUME NEW y, Framed(y) PROVE Steady(y, ReadNext(y))
  <2> DEFINE z == Phase(y, "read")
  <2>1. Steady(y, z)
    BY <1>1, SteadyBasic
  <2> HIDE DEF z
  <2>2. \A at : Steady(y, Send(z, "layer", at, NoData))
    BY <2>1, SteadyBasic, SteadyTrans
  <2> QED BY <2>2 DEF ReadNext, z
<1>2. Steady(w, ApplyEnabled(w))
  <2> DEFINE y == Phase(w, "flag")
             z == Phase(w, "due")
  <2>1. Steady(w, y) /\ Steady(w, z)
    BY SteadyBasic
  <2> HIDE DEF y, z
  <2>2. \A on : Steady(w, SetState(y, on))
    BY <2>1, SteadyBasic, SteadyTrans
  <2>3. Steady(w, [z EXCEPT !.op.at = 0])
    BY <1>0, <2>1, SteadyTrans
  <2> QED BY <2>2, <2>3 DEF ApplyEnabled, y, z
<1>3. Steady(w, UploadNext(w))
  <2> DEFINE n == w.op.at + 1
             y == [w EXCEPT !.op.at = n]
  <2>1. y = [w EXCEPT !.op.at = @ + 1]
    BY DEF Framed, WFields, OpFields
  <2>2. Steady(w, y)
    BY <1>0
  <2> HIDE DEF y
  <2>3. Steady(w, ReadNext(y))
    BY <1>1, <2>2, SteadyTrans
  <2> QED BY <1>2, <2>1, <2>3 DEF UploadNext
<1>4. Steady(w, FinishUpload(w))
  BY SteadyBasic DEF FinishUpload
<1>5. ASSUME NEW l PROVE Steady(w, Send([Phase(w, "confirm") EXCEPT !.op.at = l], "layer", l, NoData))
  <2> DEFINE y == Phase(w, "confirm")
             z == [y EXCEPT !.op.at = l]
  <2>1. Steady(w, y)
    BY SteadyBasic
  <2> HIDE DEF y
  <2>2. Steady(w, z)
    BY <1>0, <2>1, SteadyTrans
  <2> HIDE DEF z
  <2>3. Steady(w, Send(z, "layer", l, NoData))
    BY <2>2, SteadyBasic, SteadyTrans
  <2> QED BY <2>3 DEF y, z
<1>6. Steady(w, ConfirmUpload(w))
  BY <1>4, <1>5 DEF ConfirmUpload
<1> QED BY <1>1, <1>3, <1>6

\* The callbacks but the poll's, and the end of the settle delay.
LEMMA SteadyCallbacks ==
  ASSUME NEW w, Framed(w), DOMAIN w.layers = Layers, w.op.cmd = w.op.req.cmd,
         IsEntry(w.op) => w.op.req.layer \in Layers,
         w.op.cmd = "upload" /\ w.op.phase = "read" => w.op.at \in Layers
  PROVE  /\ IsEntry(w.op) \/ w.op.cmd = "upload" => \A ok : Steady(w, OnLayer(w, ok))
         /\ \A ok : Steady(w, OnSlots(w, ok))
         /\ \A ok, ev : Steady(w, OnSlot(w, ok, ev))
         /\ Steady(w, OnWritten(w)) /\ Steady(w, OnState(w)) /\ Steady(w, Confirm(w))
         /\ w.op.cmd # "upload" => \A ok : Steady(w, OnPoll(w, ok))
<1>0. ASSUME NEW y, Framed(y)
      PROVE  /\ \A a : Steady(y, [y EXCEPT !.op.written = a])
             /\ \A a : Steady(y, [y EXCEPT !.op.failed = a])
             /\ \A a : Steady(y, [y EXCEPT !.op.skipped = a])
             /\ \A a : Steady(y, [y EXCEPT !.op.at = a])
             /\ \A a, b : Steady(y, [y EXCEPT !.op.written = a, !.op.failed = b])
             /\ \A a, b, c : Steady(y, [y EXCEPT !.op.cursor = a, !.op.tries = b, !.op.slot = c])
  <2>1. /\ \A a : Steady(y, [y EXCEPT !.op.written = a])
        /\ \A a : Steady(y, [y EXCEPT !.op.failed = a])
    BY <1>0 DEF Framed, Steady, WFields, OpFields
  <2>2. \A a : Steady(y, [y EXCEPT !.op.skipped = a])
    BY <1>0 DEF Framed, Steady, WFields, OpFields
  <2>3. \A a : Steady(y, [y EXCEPT !.op.at = a])
    BY <1>0 DEF Framed, Steady, WFields, OpFields
  <2>4. ASSUME NEW a, NEW b PROVE Steady(y, [y EXCEPT !.op.written = a, !.op.failed = b])
    <3> DEFINE x == [y EXCEPT !.op.written = a, !.op.failed = b]
    <3>1. DOMAIN x = WFields /\ DOMAIN x.op = OpFields
      BY <1>0 DEF Framed, WFields, OpFields
    <3>2. x.op.flag = y.op.flag /\ x.op.cmd = y.op.cmd /\ x.events = y.events
      BY <1>0 DEF Framed, WFields, OpFields
    <3> HIDE DEF x
    <3>3. Steady(y, x)
      BY <3>1, <3>2 DEF Framed, Steady
    <3> QED BY <3>3 DEF x
  <2>5. ASSUME NEW a, NEW b, NEW c
        PROVE  Steady(y, [y EXCEPT !.op.cursor = a, !.op.tries = b, !.op.slot = c])
    <3> DEFINE x == [y EXCEPT !.op.cursor = a, !.op.tries = b, !.op.slot = c]
    <3>1. DOMAIN x = WFields /\ DOMAIN x.op = OpFields
      BY <1>0 DEF Framed, WFields, OpFields
    <3>2. x.op.flag = y.op.flag /\ x.op.cmd = y.op.cmd /\ x.events = y.events
      BY <1>0 DEF Framed, WFields, OpFields
    <3> HIDE DEF x
    <3>3. Steady(y, x)
      BY <3>1, <3>2 DEF Framed, Steady
    <3> QED BY <3>3 DEF x
  <2> QED BY <2>1, <2>2, <2>3, <2>4, <2>5
<1>1. /\ \A status : Steady(w, Finish(w, status)) /\ Steady(w, Retry(w, status))
      /\ \A phase : Steady(w, Phase(w, phase))
      /\ \A kind, at, data : Steady(w, Send(w, kind, at, data))
  BY SteadyBasic
<1>2. \A ok : IsEntry(w.op) => Steady(w, EntryRead(w, ok)) /\ Steady(w, EntryConfirmed(w, ok))
  BY <1>1, SteadyLayer DEF EntryRead, EntryConfirmed
<1>3. ASSUME NEW ok, w.op.cmd = "upload", w.op.phase = "read" PROVE Steady(w, UploadRead(w, ok))
  <2> DEFINE f == [w EXCEPT !.op.failed = @ \cup {w.op.at}]
             s == [w EXCEPT !.op.skipped = @ \cup {w.op.at}]
  <2>1. f = [w EXCEPT !.op.failed = w.op.failed \cup {w.op.at}]
        /\ s = [w EXCEPT !.op.skipped = w.op.skipped \cup {w.op.at}]
    BY DEF Framed, WFields, OpFields
  <2>2. Steady(w, f) /\ Steady(w, s)
    BY <1>0, <2>1
  <2> HIDE DEF f, s
  <2>3. Steady(w, UploadNext(f)) /\ Steady(w, UploadNext(s))
    BY <2>2, SteadyUpload, SteadyTrans
  <2>4. \A image : Steady(w, WriteLayer(w, w.op.at, image, AllDays))
    BY <1>3, SteadyLayer
  <2> QED BY <2>3, <2>4 DEF UploadRead, f, s
<1>4. ASSUME NEW ok PROVE Steady(w, UploadConfirmed(w, ok))
  <2> DEFINE l == w.op.at
             n == l + 1
             m == [w EXCEPT !.op.written = @ \ {l}, !.op.failed = @ \cup {l}]
  <2>1. m = [w EXCEPT !.op.written = w.op.written \ {l}, !.op.failed = w.op.failed \cup {l}]
    BY DEF Framed, WFields, OpFields
  <2>2. Steady(w, m)
    BY <1>0, <2>1
  <2> HIDE DEF m
  <2> DEFINE a == [w EXCEPT !.op.at = n]
             b == [m EXCEPT !.op.at = n]
  <2> HIDE DEF n
  <2>3. Steady(w, a) /\ Steady(w, b)
    <3>1. Steady(w, a)
      BY <1>0
    <3>2. Framed(m) => Steady(m, b)
      BY <1>0
    <3> HIDE DEF b
    <3> QED BY <2>2, <3>1, <3>2, SteadyTrans
  <2> HIDE DEF a, b
  <2>4. Steady(w, ConfirmUpload(a)) /\ Steady(w, ConfirmUpload(b))
    BY <2>3, SteadyUpload, SteadyTrans
  <2> QED BY <2>4 DEF UploadConfirmed, a, b, m, n
<1>5. ASSUME IsEntry(w.op) \/ w.op.cmd = "upload", NEW ok PROVE Steady(w, OnLayer(w, ok))
  <2>1. CASE IsEntry(w.op)
    BY <1>2, <2>1 DEF OnLayer
  <2>2. CASE w.op.cmd = "upload" /\ w.op.phase # "read"
    BY <1>4, <2>2 DEF OnLayer, IsEntry
  <2>3. CASE w.op.cmd = "upload" /\ w.op.phase = "read"
    BY <1>3, <2>3 DEF OnLayer, IsEntry
  <2> QED BY <1>5, <2>1, <2>2, <2>3
<1>6. \A ok : Steady(w, OnSlots(w, ok))
  BY <1>1, SteadyEvent DEF OnSlots
<1>7. ASSUME NEW ok, NEW ev PROVE Steady(w, OnSlot(w, ok, ev))
  <2> DEFINE n == w.op.cursor + 1
             s == w.op.todo[w.op.cursor + 1]
             x == [w EXCEPT !.op.cursor = n, !.op.tries = 0, !.op.slot = s]
  <2>1. [w EXCEPT !.op.cursor = @ + 1, !.op.tries = 0, !.op.slot = s] = x
    BY DEF Framed, WFields, OpFields
  <2> HIDE DEF s
  <2>2. Steady(w, x)
    BY <1>0
  <2> HIDE DEF x
  <2>3. Steady(w, WriteEvent(x))
    BY <2>2, SteadyEvent, SteadyTrans
  <2> QED BY <1>1, <2>1, <2>3 DEF OnSlot, s
<1>8. Steady(w, OnWritten(w))
  <2> DEFINE x == [w EXCEPT !.op.written = @ \cup {w.op.at}]
  <2>1. x = [w EXCEPT !.op.written = w.op.written \cup {w.op.at}]
    BY DEF Framed, WFields, OpFields
  <2>2. Steady(w, x)
    BY <1>0, <2>1
  <2> HIDE DEF x
  <2>3. Steady(w, UploadNext(x))
    BY <2>2, SteadyUpload, SteadyTrans
  <2> QED BY <1>1, <2>3 DEF OnWritten, x
<1>9. Steady(w, OnState(w))
  BY <1>1 DEF OnState
<1>10. Steady(w, Confirm(w))
  <2> DEFINE x == Phase(w, "confirm")
  <2>1. Steady(w, x)
    BY <1>1
  <2> HIDE DEF x
  <2>2. \A kind, at, data : Steady(w, Send(x, kind, at, data))
    BY <2>1, SteadyBasic, SteadyTrans
  <2> QED BY <2>2, SteadyUpload DEF Confirm, x
<1>11. ASSUME w.op.cmd # "upload", NEW ok PROVE Steady(w, OnPoll(w, ok))
  BY <1>1, <1>11 DEF OnPoll
<1> QED BY <1>5, <1>6, <1>7, <1>8, <1>9, <1>10, <1>11

LEMMA DoneSteady ==
  ASSUME OpOk(op), DOMAIN layers = Layers, NEW c, Shaped(c), InFlight(Here, c), OwnOk(op, c),
         NEW ok, NEW v, ~(c.kind = "poll" /\ op.cmd = "upload")
  PROVE  Unflagged(Here, Done(Here, c, ok, v))
<1> DEFINE w == Here
           Good(x) == Framed(x) /\ x.op = op /\ DOMAIN x.layers = Layers
<1>0. w.op = op /\ Good(w) /\ op.phase # "done" /\ c.seq = op.seq /\ w.layers = layers
  BY DEF Here, WFields, OpOk, Framed, InFlight
<1> HIDE DEF w
<1>1. ASSUME NEW x, Good(x)
      PROVE  /\ InFlight(x, c) /\ Unflagged(w, x)
             /\ IsEntry(x.op) \/ x.op.cmd = "upload" => \A k : Steady(x, OnLayer(x, k))
             /\ \A k : Steady(x, OnSlots(x, k))
             /\ \A k, ev : Steady(x, OnSlot(x, k, ev))
             /\ Steady(x, OnWritten(x)) /\ Steady(x, OnState(x))
             /\ x.op.cmd # "upload" => \A k : Steady(x, OnPoll(x, k))
             /\ (\A s : Steady(x, Finish(x, s))) /\ (\A phase : Steady(x, Phase(x, phase)))
  <2>1. InFlight(x, c) /\ Unflagged(w, x)
    BY <1>0, <1>1 DEF InFlight, Unflagged
  <2>2. /\ x.op.cmd = x.op.req.cmd /\ (IsEntry(x.op) => x.op.req.layer \in Layers)
        /\ (x.op.cmd = "upload" /\ x.op.phase = "read" => x.op.at \in Layers)
    BY <1>0, <1>1 DEF OpOk
  <2> QED BY <1>1, <2>1, <2>2, SteadyCallbacks, SteadyBasic
<1>2. ASSUME NEW x, Good(x), NEW y, Steady(x, y) PROVE Unflagged(w, y)
  BY <1>1, <1>2 DEF Steady, Unflagged
<1>3. ASSUME NEW x, Good(x) PROVE \A f : Unflagged(w, [x EXCEPT !.send = Append(@, f)])
  BY <1>0, <1>3 DEF Unflagged, Framed, WFields
<1>4. Good(Commit(w))
  BY <1>0 DEF Commit, Framed, WFields
<1> HIDE DEF Good
<1>6. CASE c.kind = "poll"
  <2> DEFINE x == IF ok THEN [w EXCEPT !.overview = [known |-> TRUE, on |-> v.on, stop |-> v.stop]] ELSE w
  <2>1. Good(x)
    BY <1>0 DEF Good, Framed, WFields
  <2> HIDE DEF x
  <2>2. InFlight(x, c) /\ Unflagged(w, OnPoll(x, ok))
    BY <1>0, <1>1, <1>2, <1>6, <2>1 DEF Good
  <2>4. Done(w, c, ok, v) = PollDone(w, c, ok, v)
    BY <1>6 DEF Done
  <2> QED BY <2>2, <2>4 DEF PollDone, x, w
<1>7. CASE c.kind = "layer"
  <2> DEFINE x == IF ok THEN [w EXCEPT !.layers[c.at] = [known |-> TRUE, days |-> v]] ELSE w
  <2>1. Good(x)
    BY <1>0 DEF Good, Framed, WFields
  <2> HIDE DEF x
  <2>2. IsEntry(x.op) \/ x.op.cmd = "upload"
    BY <1>7, <2>1 DEF OwnOk, Good
  <2>3. InFlight(x, c) /\ Unflagged(w, OnLayer(x, ok))
    BY <1>1, <1>2, <2>1, <2>2
  <2>4. Done(w, c, ok, v) = LayerDone(w, c, ok, v)
    BY <1>7 DEF Done
  <2> QED BY <2>3, <2>4 DEF LayerDone, x, w
<1>8. CASE c.kind = "layers"
  <2> DEFINE x == IF ok THEN [w EXCEPT !.layers[c.at] = [known |-> TRUE, days |-> v]] ELSE w
             data == [ok |-> ok /\ c.data.ok]
             f == [c EXCEPT !.at = @ + 1, !.data = data]
             z == Finish(x, IF data.ok THEN "accepted" ELSE "timeout")
  <2>1. Good(x)
    BY <1>0 DEF Good, Framed, WFields
  <2> HIDE DEF x, data, f
  <2>2. Unflagged(w, [x EXCEPT !.send = Append(@, f)]) /\ InFlight(x, c) /\ Unflagged(w, z)
    BY <1>1, <1>2, <1>3, <2>1
  <2>4. Done(w, c, ok, v) = LayersDone(w, c, ok, v)
    BY <1>8 DEF Done
  <2> HIDE DEF z
  <2>5. Unflagged(w, Done(w, c, ok, v))
    BY <2>2, <2>4 DEF LayersDone, x, f, data, z
  <2> QED BY <2>5 DEF w
<1>9. CASE c.kind = "write"
  <2>1. InFlight(Commit(w), c) /\ Unflagged(w, OnWritten(Commit(w)))
    BY <1>1, <1>2, <1>4
  <2>2. Done(w, c, ok, v) = WriteDone(w, c)
    BY <1>9 DEF Done
  <2> QED BY <2>1, <2>2 DEF WriteDone, w
<1>10. CASE c.kind = "state"
  <2>1. InFlight(w, c) /\ Unflagged(w, OnState(w))
    BY <1>0, <1>1, <1>2
  <2>2. Done(w, c, ok, v) = StateDone(w, c)
    BY <1>10 DEF Done
  <2> QED BY <2>1, <2>2 DEF StateDone, w
<1>11. CASE c.kind = "slots"
  <2> DEFINE data == [c.data EXCEPT !.ok = ChainOk(ok, c.data),
                        !.got = IF ok /\ v.on THEN Append(@, v) ELSE @]
             all == IF data.ok THEN [w EXCEPT !.events = [known |-> TRUE, held |-> data.got]] ELSE w
             f == [c EXCEPT !.at = @ + 1, !.data = data]
  <2>1. Good(all)
    BY <1>0 DEF Good, Framed, WFields
  <2> HIDE DEF all, data, f
  <2>2. Unflagged(w, [w EXCEPT !.send = Append(@, f)]) /\ InFlight(all, c) /\ Unflagged(w, OnSlots(all, data.ok))
    BY <1>0, <1>1, <1>2, <1>3, <2>1
  <2>4. Done(w, c, ok, v) = SlotsDone(w, c, ok, v)
    BY <1>11 DEF Done
  <2>5. Unflagged(w, Done(w, c, ok, v))
    BY <2>2, <2>4 DEF SlotsDone, all, f, data
  <2> QED BY <2>5 DEF w
<1>12. CASE c.kind = "slot"
  <2>1. InFlight(w, c) /\ Unflagged(w, OnSlot(w, ok, v))
    BY <1>0, <1>1, <1>2
  <2>2. Done(w, c, ok, v) = SlotDone(w, c, ok, v)
    BY <1>12 DEF Done
  <2> QED BY <2>1, <2>2 DEF SlotDone, w
<1>13. CASE c.kind = "event"
  <2> DEFINE y == Commit(w)
             x == IF y.events.known THEN [y EXCEPT !.events.held = Recached(@, c.data.ev)] ELSE y
  <2> HIDE DEF y
  <2>1. Good(x)
    BY <1>4 DEF Good, Framed, WFields, y
  <2> HIDE DEF x
  <2>2. InFlight(x, c) /\ Unflagged(w, Phase(x, "due"))
    BY <1>1, <1>2, <2>1
  <2>4. Done(w, c, ok, v) = EventDone(w, c)
    BY <1>13 DEF Done
  <2> QED BY <2>2, <2>4 DEF EventDone, x, y, w
<1>14. CASE c.kind = "commit"
  BY <1>14 DEF OwnOk
<1> QED
  BY <1>6, <1>7, <1>8, <1>9, <1>10, <1>11, <1>12, <1>13, <1>14 DEF Shaped, CommandKinds

\* An operation that ends is no matter; one in flight has what it queued behind
\* commands that change nothing.
LEMMA DoneQuiet ==
  ASSUME OpOk(op), DOMAIN layers = Layers, NEW S, NEW q \in Seq(S), q # <<>>,
         Quiet(q, op), op.phase # "done", NEW t, NEW p, Reached(Here, p, t),
         NEW c, c = Head(q), Shaped(c), \A i \in 1..Len(Tail(q)) : Shaped(Tail(q)[i]),
         c.seq = op.seq => op.phase # "due" /\ OwnOk(op, c) /\ NoOwn(Tail(q), op),
         NEW ok \in BOOLEAN, NEW v, c.kind = "layer" /\ ok => v \in [Days -> Cell]
  PROVE  LET x == Done(Here, c, ok, v)
         IN  x.op.phase # "done" => Quiet(Tail(q) \o x.send, x.op)
<1> DEFINE x == Done(Here, c, ok, v)
           r == Tail(q)
<1>0. r \in Seq(S) /\ op.seq \in Nat /\ op.seq > 0 /\ Here.op = op /\ Here.layers = layers
  BY DEF OpOk, Here
<1>1. /\ Quiet(r, op)
      /\ c.seq = op.seq => \A i \in 1..Len(r) : r[i].kind \in Idle \/ (First(op) /\ r[i].kind = "commit")
      /\ c.seq # op.seq /\ ~First(op) => c.kind \in Idle \cup {"commit"}
      /\ c.seq # op.seq /\ op.flag = "taken" => c.kind \in Idle
  BY QuietTail
<1>2. InFlight(Here, c) <=> c.seq = op.seq
  BY <1>0 DEF InFlight
<1>3. /\ c.seq # op.seq =>
           /\ x.op = op
           /\ \/ Commits(c, x.send)
              \/ c.kind \in Idle /\ \E f : x.send = <<f>> /\ f.seq = c.seq /\ f.kind = c.kind
      /\ c.seq = op.seq => x.op.seq = op.seq /\ \E s : Commits(c, s) /\
           (x.send = s \/ \E e : x.send = Append(s, e) /\ e.seq = op.seq)
  BY <1>2, DoneSent
<1>4. c.seq = op.seq => Unflagged(Here, x) \/ (c.kind = "poll" /\ op.cmd = "upload")
  BY <1>2, DoneSteady
<1>5. /\ op.flag = "taken" => op.cmd = "upload" /\ op.phase \in {"due", "confirm"}
      /\ op.flag = "taken" /\ c.seq = op.seq => c.kind \notin {"write", "event"}
  <2>1. ASSUME op.flag = "taken" PROVE op.cmd = "upload" /\ op.phase \in {"due", "confirm"}
    BY <1>0, <2>1 DEF Reached, UploadReached
  <2> QED BY <2>1 DEF OwnOk
<1> HIDE DEF x, r
<1>6. CASE c.seq # op.seq
  <2>1. ASSUME NEW f, x.send = <<f>>, f.seq # op.seq,
               f.kind \in Idle \/ (f.kind = "commit" /\ First(op) /\ op.flag # "taken")
        PROVE  Quiet(r \o x.send, op)
    <3>1. r \o <<f>> = Append(r, f)
      <4> DEFINE T == S \cup {f}
      <4>1. r \in Seq(T) /\ f \in T
        BY <1>0
      <4> HIDE DEF T
      <4> QED BY <4>1
    <3>2. Quiet(Append(r, f), op)
      BY <1>0, <1>1, <2>1, QuietForeign
    <3> QED BY <2>1, <3>1, <3>2
  <2>2. ASSUME x.send = <<>> PROVE Quiet(r \o x.send, op)
    <3>1. r \o <<>> = r
      BY <1>0
    <3> QED BY <1>1, <2>2, <3>1
  <2>3. ASSUME NEW f, x.send = <<f>>, f.seq = 0, f.kind = "commit", c.kind \in {"write", "event"}
        PROVE  Quiet(r \o x.send, op)
    <3>1. First(op) /\ op.flag # "taken" /\ f.seq # op.seq
      BY <1>0, <1>1, <1>6, <2>3 DEF Idle
    <3> QED BY <2>1, <2>3, <3>1
  <2>4. Quiet(r \o x.send, op)
    BY <1>3, <1>6, <2>1, <2>2, <2>3 DEF Commits
  <2> QED BY <1>3, <1>6, <2>4 DEF x, r
<1>7. ASSUME c.seq = op.seq, x.op.phase # "done" PROVE Quiet(r \o x.send, x.op)
  <2>1. /\ NoOwn(r, x.op) /\ x.op.seq = op.seq
        /\ \A i \in 1..Len(r) : r[i].kind \in Idle \cup {"commit"}
    BY <1>1, <1>3, <1>7 DEF NoOwn, r
  <2>2. ASSUME x.op.flag = "taken"
        PROVE  c.kind \notin {"write", "event"} /\ \A i \in 1..Len(r) : r[i].kind \in Idle
    <3>1. CASE c.kind = "poll" /\ op.cmd = "upload"
      <4>1. op.phase = "flag"
        BY <1>7, <3>1 DEF OwnOk, OfFlag
      <4>2. ~First(op)
        BY <3>1, <4>1 DEF First
      <4> QED BY <1>1, <1>7, <3>1, <4>2
    <3>2. CASE Unflagged(Here, x)
      <4>1. op.flag = "taken"
        BY <1>0, <2>2, <3>2 DEF Unflagged
      <4>2. ~First(op)
        BY <1>5, <4>1 DEF First
      <4> QED BY <1>1, <1>5, <1>7, <4>1, <4>2
    <3> QED BY <1>4, <1>7, <3>1, <3>2
  <2>3. PICK s : Commits(c, s) /\ (x.send = s \/ \E e : x.send = Append(s, e) /\ e.seq = op.seq)
    BY <1>3, <1>7
  <2> DEFINE m == r \o s
  \* The commit of a write joins the rest.
  <2>4. /\ NoOwn(m, x.op) /\ \E T : m \in Seq(T) /\ r \in Seq(T) /\ s \in Seq(T)
        /\ \A i \in 1..Len(m) : m[i].kind \in Idle \cup {"commit"}
        /\ x.op.flag = "taken" => \A i \in 1..Len(m) : m[i].kind \in Idle
    <3>1. ASSUME s = <<>>
          PROVE  m = r /\ \E T : m \in Seq(T) /\ r \in Seq(T) /\ s \in Seq(T)
      BY <1>0, <3>1
    <3>2. ASSUME NEW f, s = <<f>>, f.seq = 0, f.kind = "commit", c.kind \in {"write", "event"}
          PROVE  <2>4
      <4> DEFINE T == S \cup {f}
      <4>1. r \in Seq(T) /\ f \in T /\ s \in Seq(T)
        BY <1>0, <3>2
      <4> HIDE DEF T
      <4>2. m = Append(r, f) /\ m \in Seq(T)
        BY <3>2, <4>1
      <4> HIDE DEF m
      <4>3. /\ Len(m) = Len(r) + 1 /\ Len(r) \in Nat
            /\ \A i \in 1..Len(r) : m[i] = r[i]
            /\ m[Len(r) + 1] = f
            /\ \A i \in 1..(Len(r) + 1) : i \in 1..Len(r) \/ i = Len(r) + 1
        BY <4>1, <4>2
      <4>4. NoOwn(m, x.op)
        BY <1>0, <2>1, <3>2, <4>3 DEF NoOwn
      <4>5. \A i \in 1..Len(m) : m[i].kind \in Idle \cup {"commit"}
        BY <2>1, <3>2, <4>3
      <4>6. x.op.flag # "taken"
        BY <2>2, <3>2
      <4> QED BY <4>1, <4>2, <4>4, <4>5, <4>6
    <3> QED BY <2>1, <2>2, <2>3, <3>1, <3>2 DEF Commits
  <2>5. PICK T : m \in Seq(T) /\ r \in Seq(T) /\ s \in Seq(T)
    BY <2>4
  <2>6. Quiet(m, x.op) /\ \A e : e.seq = x.op.seq => Quiet(Append(m, e), x.op)
    <3> HIDE DEF m
    <3> QED BY <2>4, <2>5, QuietOwn
  <2>7. ASSUME NEW e, x.send = Append(s, e), e.seq = op.seq PROVE Quiet(r \o x.send, x.op)
    <3> DEFINE U == T \cup {e}
    <3>1. r \in Seq(U) /\ s \in Seq(U) /\ e \in U
      BY <2>5
    <3> HIDE DEF U
    <3>2. r \o Append(s, e) = Append(r \o s, e)
      BY <3>1
    <3> QED BY <2>1, <2>6, <2>7, <3>2
  <2> QED BY <2>3, <2>6, <2>7
<1> QED BY <1>6, <1>7 DEF x, r

\* The write of an event begins it.
LEMMA EventFirst ==
  ASSUME NEW w, Framed(w), w.op.cmd # "upload", w.op.cursor = 1
  PROVE  LET x == WriteEvent(w)
             z == Resolve(w)
         IN  (x.op.phase # "done" => First(x.op)) /\ (z.op.phase # "done" => First(z.op))
<1> DEFINE Starts(x) == x.op.phase # "done" => First(x.op)
<1>1. ASSUME NEW y, Framed(y), y.op.cmd # "upload", y.op.cursor = 1
      PROVE  Starts(WriteEvent(y)) /\ \A status : Starts(Finish(y, status))
  <2> DEFINE u == Phase(y, "write")
  <2>1. u.op.phase = "write" /\ u.op.cmd # "upload" /\ u.op.cursor = 1 /\ Framed(u)
    BY <1>1 DEF Phase, Framed, WFields, OpFields
  <2> HIDE DEF u
  <2>2. \A kind, at, data : Send(u, kind, at, data).op = u.op
    BY <2>1 DEF Send, Framed, WFields
  <2>3. First(u.op)
    BY <2>1 DEF First
  <2>4. \A kind, at, data : Starts(Send(u, kind, at, data))
    BY <2>2, <2>3
  <2>5. \A status : Finish(y, status).op.phase = "done"
    BY <1>1 DEF Finish, Framed, WFields, OpFields
  <2>6. \A status : Starts(Finish(y, status))
    BY <2>5
  <2> HIDE DEF Starts
  <2> QED BY <2>4, <2>6 DEF WriteEvent, u
<1> HIDE DEF Starts
<1>2. ASSUME NEW todo, NEW slot, NEW more
      PROVE  /\ Starts(WriteEvent([w EXCEPT !.op.todo = todo, !.op.slot = slot, !.op.unhandled = more]))
             /\ Starts(WriteEvent([w EXCEPT !.op.slot = slot]))
  <2> DEFINE y == [w EXCEPT !.op.todo = todo, !.op.slot = slot, !.op.unhandled = more]
             z == [w EXCEPT !.op.slot = slot]
  <2>1. Framed(y) /\ y.op.cmd # "upload" /\ y.op.cursor = 1
    BY DEF Framed, WFields, OpFields
  <2>2. Framed(z) /\ z.op.cmd # "upload" /\ z.op.cursor = 1
    BY DEF Framed, WFields, OpFields
  <2> HIDE DEF y, z
  <2>3. Starts(WriteEvent(y)) /\ Starts(WriteEvent(z))
    BY <1>1, <2>1, <2>2
  <2> QED BY <2>3 DEF y, z
<1>3. Starts(Resolve(w))
  BY <1>1, <1>2 DEF Resolve, ResolveVacation, ResolveFree
<1>4. Starts(WriteEvent(w))
  BY <1>1
<1> QED BY <1>3, <1>4 DEF Starts

\* An operation begins with nothing reached.
LEMMA BeginReached ==
  ASSUME NEW w, Ready(w), time \in 1..MaxTime, w.overview.known, w.op.phase = "start",
         w.op.flag = "kept", w.op.cursor = 1, w.op.todo = <<>>, w.op.at = 0, w.op.skipped = {},
         w.op.cmd = "clear_vacation" => w.op.slot = NoSlot, NEW p, NEW t
  PROVE  LET x == IF w.op.cmd = "refresh" THEN ReadGrid(w) ELSE AfterOverview(w)
         IN  Honest(x, p, t) /\ (x.op.phase # "done" => First(x.op))
<1> DEFINE Starts(x) == Honest(x, p, t) /\ (x.op.phase # "done" => First(x.op))
<1>0. w \in World /\ w.op.req.cmd = w.op.cmd /\ Framed(w)
  BY Wanted DEF Framed, World, Operations, WFields, OpFields
<1>1. ASSUME NEW phase \in {"read", "slots", "write"}, w.op.cmd = "upload" => phase = "read",
             w.op.cmd = "clear_vacation" => phase = "slots"
      PROVE  /\ Phase(w, phase) \in World /\ Phase(w, phase).overview.known
             /\ Starts(Phase(w, phase))
  <2> DEFINE y == Phase(w, phase)
  <2>1. /\ y \in World /\ y.op.phase = phase /\ y.op.cmd = w.op.cmd /\ y.op.at = 0
        /\ y.op.cursor = 1 /\ y.op.todo = <<>> /\ y.overview = w.overview
    BY <1>0, PhaseFacts DEF Phases
  <2>2. y.op.skipped = {} /\ y.op.flag = "kept"
    BY <1>0, PhaseKeeps DEF Phases
  <2> HIDE DEF y
  <2>3. First(y.op)
    BY <1>1, <2>1 DEF First
  <2>4. y.op.cmd = "upload" => UploadReached(y, p, t)
    <3>1. Layers \subseteq Nat
      BY Constants
    <3>2. \A l \in Nat : ~(l < 0)
      OBVIOUS
    <3> QED BY <1>1, <2>1, <2>2, <3>1, <3>2 DEF UploadReached, Settled
  <2>5. y.op.cmd = "clear_vacation" => VacationReached(y.op, p, t)
    BY <1>1, <2>1 DEF VacationReached, Cleared
  <2>6. Reached(y, p, t) /\ y.op.phase # "done"
    BY <1>1, <2>1, <2>2, <2>4, <2>5 DEF Reached
  <2> QED BY <2>1, <2>3, <2>6 DEF Honest, y
<1>2. ASSUME NEW y \in World, Starts(y), NEW kind, NEW at, NEW data
      PROVE  Starts(Send(y, kind, at, data))
  BY <1>2, Sent, SendFacts
<1>3. ASSUME NEW y \in World, Starts(y), y.overview.known, NEW on PROVE Starts(SetState(y, on))
  BY <1>3, StateFacts, Carried
<1>4. ASSUME IsEvent(w.op), w.op.slot # NoSlot PROVE Starts(WriteEvent(w))
  BY <1>0, <1>4, EventFirst, WriteEventReached DEF IsEvent
<1>5. ASSUME IsEvent(w.op), w.events.known PROVE Starts(Resolve(w))
  BY <1>0, <1>5, EventFirst, ResolveReached DEF IsEvent
<1> HIDE DEF Starts
<1>6. ASSUME IsEntry(w.op) PROVE \A at : Starts(Send(Phase(w, "read"), "layer", at, NoData))
  BY <1>1, <1>2, <1>6 DEF IsEntry
<1>7. ASSUME w.op.cmd = "set_enabled" PROVE \A on : Starts(SetState(Phase(w, "write"), on))
  BY <1>1, <1>3, <1>7
<1>8. ASSUME w.op.cmd = "upload" PROVE Starts(ReadNext(w))
  BY <1>1, <1>2, <1>8 DEF ReadNext
<1>9. ASSUME w.op.cmd = "refresh" PROVE Starts(ReadGrid(w))
  BY <1>1, <1>2, <1>9 DEF ReadGrid
<1>10. ASSUME w.op.cmd # "upload" PROVE Starts(ReadSlots(Phase(w, "slots")))
  BY <1>1, <1>2, <1>10 DEF ReadSlots
<1>11. w.op.cmd # "refresh" => Starts(AfterOverview(w))
  BY <1>4, <1>5, <1>6, <1>7, <1>8, <1>10 DEF AfterOverview
<1> QED BY <1>9, <1>11 DEF Starts
-----------------------------------------------------------------------------
(* Each action keeps what an acceptance rests on.                          *)

\* The inductive invariant of an acceptance.
Sound == op.phase # "done" => Quiet(queue, op) /\ Reached(Here, pump, touched)
\* What every step makes of it.
Lawful ==
  Settles("accepted") /\ ~touched' =>
    /\ Holds(op', pump')
    /\ op'.cmd = "upload" =>
         /\ Hash(overview', layers').known
         /\ Hash(overview', layers').grid = [l \in Layers |-> Canonical(pump'.grid[l])]

LEMMA Landed ==
  ASSUME NEW w, Take(w), Honest(w, pump', touched'), w.op.phase # "done" => Quiet(queue', w.op)
  PROVE  Sound' /\ Lawful
<1>1. op' = w.op /\ overview' = w.overview /\ layers' = w.layers
  BY DEF Take
<1>2. Lawful
  BY <1>1 DEF Lawful, Honest, Settles, Hashed
<1> DEFINE x == Here'
<1>3. x.op = w.op /\ x.layers = w.layers /\ x.overview.known = w.overview.known
  BY <1>1 DEF Here
<1> HIDE DEF x
<1>4. w.op.phase # "done" => Reached(x, pump', touched')
  BY <1>3, Carried DEF Honest
<1> QED BY <1>1, <1>2, <1>4 DEF Sound, x

\* An operation begins behind what others left.
LEMMA SubmitSound ==
  ASSUME TInv, NEW r \in Requests, Submit(r)
  PROVE  Sound' /\ Lawful
<1> DEFINE f == [Here EXCEPT !.op = Fresh(r)]
           x == IF r.cmd = "refresh" THEN ReadGrid(f) ELSE AfterOverview(f)
<1>1. /\ f \in World /\ f.op = Fresh(r) /\ f.send = <<>> /\ f.overview = overview
      /\ f.op.cmd = r.cmd /\ f.op.req = r /\ f.op.phase = "start" /\ f.op.at = 0
      /\ f.op.seq = op.seq + 1 /\ (~Invalid(r) => Ready(f))
  BY Begun
<1> HIDE DEF f
<1>2. /\ f.op.flag = "kept" /\ f.op.cursor = 1 /\ f.op.todo = <<>> /\ f.op.skipped = {}
      /\ f.op.cmd = "clear_vacation" => f.op.slot = NoSlot
  BY <1>1 DEF Fresh, NoOperation
<1>3. /\ queue \in Seq(Command) /\ time \in 1..MaxTime /\ op.seq \in Nat
      /\ \A i \in 1..Len(queue) : queue[i].seq \in 0..op.seq
  BY DEF TInv, TypeOK, IInv, QueueOk, OpOk
<1>4. \A status : status # "accepted" =>
        Honest(Finish(f, status), pump', touched') /\ Finish(f, status).op.phase = "done"
  BY <1>1, Ended, EndFacts
<1>5. ASSUME ~Invalid(r), overview.known
      PROVE  /\ Honest(x, pump', touched')
             /\ x.op.phase # "done" => Quiet(queue \o x.send, x.op)
  <2>1. Honest(x, pump', touched') /\ (x.op.phase # "done" => First(x.op))
    BY <1>1, <1>2, <1>3, <1>5, BeginReached
  <2>2. Result(f, x)
    BY <1>1, <1>5, Constants, BeginResult DEF Ready
  <2>3. ASSUME x.op.phase # "done" PROVE x.op.flag # "taken"
    BY <2>1, <2>3 DEF Honest, Reached, UploadReached, First
  <2> HIDE DEF x
  <2>4. x.op.seq = op.seq + 1 /\ NoOwn(queue, x.op)
    <3>1. x.op.seq = op.seq + 1
      BY <1>1, <2>2 DEF Result
    <3> QED BY <1>3, <3>1 DEF NoOwn
  <2>5. ASSUME x.op.phase # "done"
        PROVE  /\ Quiet(queue, x.op)
               /\ \A e : e.seq = x.op.seq => Quiet(Append(queue, e), x.op)
    BY <1>3, <2>1, <2>3, <2>4, <2>5, QuietOwn
  <2>6. queue \o <<>> = queue
    BY <1>3
  <2>7. ASSUME NEW e, x.send = Append(<<>>, e), e.seq = x.op.seq
        PROVE  queue \o x.send = Append(queue, e)
    <3> DEFINE T == Command \cup {e}
    <3>1. queue \in Seq(T) /\ e \in T
      BY <1>3
    <3> HIDE DEF T
    <3> QED BY <2>7, <3>1
  <2> QED BY <1>1, <2>1, <2>2, <2>5, <2>6, <2>7 DEF Result
<1>6. PICK w \in {IF link /\ overview.known THEN Begin(f) ELSE Finish(f, "rejected")} :
        Take(w) /\ queue' = queue \o w.send
  BY DEF Submit, f
<1>7. Honest(w, pump', touched') /\ (w.op.phase # "done" => Quiet(queue', w.op))
  BY <1>1, <1>4, <1>5, <1>6 DEF Begin
<1> QED BY <1>6, <1>7, Landed

LEMMA ConfirmReached ==
  ASSUME NEW w, Ready(w), NEW p, NEW t, Reached(w, p, t), w.op.phase = "due"
  PROVE  Honest(Confirm(w), p, t)
<1> DEFINE x == Phase(w, "confirm")
<1>1. w \in World /\ w.op.cmd \in Confirmable /\ w.op.req.cmd = w.op.cmd /\ x \in World
  BY Wanted, PhaseFacts DEF Ready, WOk, OpOk, Phases
<1>2. w.op.cmd # "upload" => \A kind, at, data : Honest(Send(x, kind, at, data), p, t)
  BY <1>1, PhaseReached, Sent DEF Phases
<1>3. ASSUME w.op.cmd = "upload" PROVE Honest(ConfirmUpload(w), p, t)
  <2>1. UploadReached(w, p, t) /\ w.overview.known
    BY <1>3 DEF Reached
  <2>2. Layers \subseteq Handled(w.op) /\ w.op.at = 0
    BY <2>1 DEF UploadReached
  <2>3. ~t => /\ \A l \in w.op.skipped : Matching(l, w, p)
              /\ w.op.flag = "taken" => p.on = (w.op.req.on = "on")
    BY <2>1 DEF UploadReached, Settled
  <2>4. w.op.written \subseteq Layers /\ Layers \subseteq Nat
    BY <1>1, Constants DEF World, Operations
  <2>5. \A l \in w.op.written : ~(l < w.op.at)
    <3>1. \A l \in Nat : ~(l < 0)
      OBVIOUS
    <3> QED BY <2>2, <2>4, <3>1
  <2> QED BY <1>1, <1>3, <2>1, <2>2, <2>3, <2>5, ConfirmUploadReached
<1> HIDE DEF x
<1> QED BY <1>1, <1>2, <1>3 DEF Confirm, IsEntry, IsEvent, Confirmable, Commands, x

\* The settle delay is over: the read-back is asked for.
LEMMA ConfirmDueSound ==
  ASSUME TInv, Sound, ConfirmDue
  PROVE  Sound' /\ Lawful
<1> DEFINE w == Confirm(Here)
<1>1. /\ op.phase = "due" /\ Here.op = op /\ Here.send = <<>> /\ Here.layers = layers
      /\ Quiet(queue, op) /\ Reached(Here, pump, touched)
  BY DEF ConfirmDue, Sound, Here
<1>2. Ready(Here) /\ Framed(Here) /\ DOMAIN layers = Layers
  <2>1. WOk(Here)
    BY DEF TInv, IInv, WOk, Here, WFields
  <2>2. Ready(Here)
    BY <1>1, <2>1, KernelHere DEF TInv, Ready
  <2> QED BY <2>1, <2>2 DEF Framed, WOk, OpOk, TInv, IInv
<1>3. /\ op.cmd \in Confirmable /\ op.cmd = op.req.cmd /\ (IsEntry(op) => op.req.layer \in Layers)
      /\ op.seq \in Nat
  BY <1>1 DEF TInv, IInv, OpOk
<1>4. Honest(w, pump, touched)
  BY <1>1, <1>2, ConfirmReached
<1>5. Steady(Here, w) /\ Result(Here, w)
  BY <1>1, <1>2, <1>3, SteadyCallbacks, ConfirmResult DEF Ready
<1>6. queue \in Seq(Command) /\ NoOwn(queue, op)
  BY <1>1 DEF TInv, TypeOK, IInv, QueueOk, NoOwn
<1>7. ~First(op)
  BY <1>1 DEF First
<1>8. /\ \A i \in 1..Len(queue) : queue[i].kind \in Idle \cup {"commit"}
      /\ op.flag = "taken" => \A i \in 1..Len(queue) : queue[i].kind \in Idle
  BY <1>1, <1>6, <1>7 DEF Quiet, NoOwn
<1> HIDE DEF w
<1>9. /\ Quiet(queue, w.op)
      /\ \A e : e.seq = w.op.seq => Quiet(Append(queue, e), w.op)
  <2>1. w.op.seq = op.seq /\ w.op.flag = op.flag
    BY <1>1, <1>5 DEF Result, Steady
  <2>2. NoOwn(queue, w.op)
    BY <1>6, <2>1 DEF NoOwn
  <2> QED BY <1>6, <1>8, <2>1, <2>2, QuietOwn
<1>10. queue \o <<>> = queue
  BY <1>6
<1>11. ASSUME NEW e, w.send = Append(<<>>, e) PROVE queue \o w.send = Append(queue, e)
  <2> DEFINE T == Command \cup {e}
  <2>1. queue \in Seq(T) /\ e \in T
    BY <1>6
  <2> HIDE DEF T
  <2> QED BY <1>11, <2>1
<1>12. Quiet(queue \o w.send, w.op)
  BY <1>1, <1>5, <1>9, <1>10, <1>11 DEF Result
<1>13. Take(w) /\ queue' = queue \o w.send /\ pump' = pump /\ touched' = touched
  BY DEF ConfirmDue, w, history
<1> QED BY <1>4, <1>12, <1>13, Landed

\* The oldest command ends, heard by the pump or not.
LEMMA EndSound ==
  ASSUME TInv, Sound, queue # <<>>, NEW c, c = Head(queue), NEW ok \in BOOLEAN, NEW v,
         End(c, ok, v), ok => Brings(c, v), pump' = pump \/ pump' = Effect(c),
         touched' = touched \/ touched' = TRUE, ok /\ ~touched' => Told(c, v, pump')
  PROVE  Sound' /\ Lawful
<1> DEFINE x == Done(Here, c, ok, v)
           r == Tail(queue)
<1>1. /\ c \in Command /\ pump \in Programs /\ pump' \in Programs
      /\ queue \in Seq(Command) /\ time \in 1..MaxTime
  BY OldestTyped DEF TInv, TypeOK
<1>2. /\ QueueOk(r, op, pump, edited) /\ Shaped(c)
      /\ op.phase # "done" /\ c.seq = op.seq => op.phase # "due" /\ OwnOk(op, c) /\ NoOwn(r, op)
  BY TailOk DEF TInv, IInv
<1>3. Proper(Here) /\ Here \in World /\ Here.op = op /\ WOk(Here) /\ OpOk(op) /\ DOMAIN layers = Layers
  <2>1. WOk(Here)
    BY DEF TInv, IInv, WOk, Here, WFields
  <2> QED BY <2>1, KernelHere DEF TInv, IInv, Proper
<1>4. PICK w \in {x} : Take(w) /\ queue' = r \o w.send
  BY DEF End
<1> HIDE DEF x, r
<1>5. ASSUME op.phase = "done" PROVE Sound' /\ Lawful
  <2>1. x.op = op
    BY <1>1, <1>2, <1>3, <1>5, DoneReached DEF x
  <2>2. op' = op
    BY <1>4, <2>1 DEF Take
  <2> QED BY <1>5, <2>2 DEF Sound, Lawful, Settles
<1>6. ASSUME op.phase # "done" PROVE Sound' /\ Lawful
  <2>1. Quiet(queue, op) /\ Reached(Here, pump, touched)
    BY <1>6 DEF Sound
  <2>2. /\ c.seq # op.seq /\ ~First(op) => c.kind \in Idle \cup {"commit"}
        /\ c.seq # op.seq /\ op.flag = "taken" => c.kind \in Idle
    BY <1>1, <2>1, QuietTail
  <2>3. c.seq = op.seq => OwnOk(op, c)
    BY <1>2, <1>6
  <2>4. Reached(Here, pump', touched)
    BY <1>1, <1>3, <1>6, <2>1, <2>2, <2>3, EffectReached
  <2>5. Reached(Here, pump', touched')
    BY <2>4, Touched
  <2>6. Honest(x, pump', touched')
    BY <1>1, <1>2, <1>3, <1>6, <2>5, DoneReached DEF x
  <2>7. \A i \in 1..Len(r) : Shaped(r[i])
    BY <1>2 DEF QueueOk
  <2>8. c.kind = "layer" /\ ok => v \in [Days -> Cell]
    BY DEF Brings, Image
  <2>9. x.op.phase # "done" => Quiet(r \o x.send, x.op)
    BY <1>1, <1>2, <1>3, <1>6, <2>1, <2>7, <2>8, DoneQuiet DEF x, r
  <2> QED BY <1>4, <2>6, <2>9, Landed
<1> QED BY <1>5, <1>6

\* What the pump answers is what it holds.
LEMMA ToldTruly ==
  ASSUME TInv, queue # <<>>, NEW c, c = Head(queue), Has(c),
         NEW v, v = IF IsRead(c) THEN Received(c, Reply(c)) ELSE NoData
  PROVE  Told(c, v, Effect(c))
<1>1. c \in Command /\ pump \in Programs
  BY OldestTyped DEF TInv, TypeOK
<1>2. IsRead(c) => Effect(c) = pump
  BY <1>1, EffectFacts DEF IsRead
<1>3. CASE c.kind = "poll"
  BY <1>2, <1>3 DEF Told, IsRead, Received, Reply, Typed
<1>4. CASE c.kind \in {"layer", "layers"}
  BY <1>2, <1>4 DEF Told, IsRead, Received, Reply, Typed
<1>5. CASE c.kind = "slot"
  <2>1. c.at \in SlotNumbers /\ c.at < PumpSlots /\ Typed(c) = "slot"
    BY <1>1, <1>5, CommandIs DEF Has, Typed
  <2>2. c.at \in 0..(PumpSlots - 1)
    <3>1. c.at \in Nat /\ PumpSlots \in Nat
      BY <2>1, SlotFacts, ScheduleAssumption
    <3> QED BY <2>1, <3>1
  <2> DEFINE e == pump.events[c.at]
  <2>3. e \in Event /\ e.index = c.at
    BY <1>1, <2>2 DEF Programs, PumpEvents
  <2> HIDE DEF e
  <2>4. [e EXCEPT !.index = c.at] = e
    BY <2>3 DEF Event
  <2>5. v = [e EXCEPT !.index = c.at]
    BY <1>5, <2>1 DEF IsRead, Received, Reply, e
  <2> QED BY <1>2, <1>5, <2>2, <2>4, <2>5 DEF Told, IsRead, e
<1> QED BY <1>3, <1>4, <1>5 DEF Told

\* Each end of the oldest command is one of these.
LEMMA EndsSound ==
  ASSUME TInv, Sound, Answered \/ Lost \/ Unheard \/ Ignored \/ Misanswered
  PROVE  Sound' /\ Lawful
<1> DEFINE c == Head(queue)
<1>1. CASE Answered
  <2> DEFINE v == IF IsRead(c) THEN Received(c, Reply(c)) ELSE NoData
  <2>1. /\ queue # <<>> /\ Has(c) /\ pump' = Effect(c) /\ touched' = touched /\ End(c, TRUE, v)
    BY <1>1 DEF Answered, Vouch
  <2>2. Brings(c, v)
    BY <2>1, OldestTyped DEF TInv, Brings, IsRead
  <2>3. Told(c, v, pump')
    BY <2>1, ToldTruly
  <2> HIDE DEF c, v
  <2> QED BY <2>1, <2>2, <2>3, EndSound DEF c
<1>2. CASE Lost
  <2>1. queue # <<>> /\ pump' = pump /\ touched' = touched /\ End(c, FALSE, NoData)
    BY <1>2 DEF Lost, Vouch
  <2> HIDE DEF c
  <2> QED BY <2>1, EndSound DEF c
<1>3. CASE Unheard
  <2>1. queue # <<>> /\ pump' = Effect(c) /\ touched' = touched /\ End(c, FALSE, NoData)
    BY <1>3 DEF Unheard, Vouch
  <2> HIDE DEF c
  <2> QED BY <2>1, EndSound DEF c
<1>4. CASE Ignored
  <2>1. /\ queue # <<>> /\ pump' = pump /\ touched' = touched /\ End(c, TRUE, NoData)
        /\ ~IsRead(c)
    BY <1>4 DEF Ignored, Vouch
  <2>2. Brings(c, NoData) /\ Told(c, NoData, pump')
    BY <2>1 DEF Brings, Told, IsRead
  <2> HIDE DEF c
  <2> QED BY <2>1, <2>2, EndSound DEF c
<1>5. CASE Misanswered
  <2>1. PICK i \in Overdue(c) : queue # <<>> /\ End(c, TRUE, Received(c, late[i].value))
    BY <1>5 DEF Misanswered
  <2>2. pump' = pump /\ touched' = TRUE
    BY <1>5 DEF Misanswered
  <2>3. Brings(c, Received(c, late[i].value))
    BY <2>1, LateTyped
  <2> HIDE DEF c
  <2> QED BY <2>1, <2>2, <2>3, EndSound DEF c
<1> QED BY <1>1, <1>2, <1>3, <1>4, <1>5

\* Nobody's command joins the queue.
LEMMA BackgroundSound ==
  ASSUME TInv, Sound, Poll \/ Reread
  PROVE  Sound' /\ Lawful
<1>1. PICK e : queue' = Append(queue, e) /\ e.seq = 0 /\ e.kind \in Idle
  BY DEF Poll, Reread, Background, Idle
<1>2. UNCHANGED <<caches, op, pump, touched>>
  BY DEF Poll, Reread, history
<1>3. Lawful
  BY <1>2 DEF Lawful, Settles
<1>4. ASSUME op.phase # "done" PROVE Quiet(queue', op)
  <2>1. op.seq > 0
    BY <1>4 DEF TInv, IInv, OpOk
  <2>2. queue \in Seq(Command) /\ Quiet(queue, op)
    BY <1>4 DEF TInv, TypeOK, Sound
  <2> QED BY <1>1, <2>1, <2>2, QuietForeign
<1> QED BY <1>2, <1>3, <1>4 DEF Sound, Here, caches

\* The app edits the pump.
LEMMA AppSound ==
  ASSUME Sound, App
  PROVE  Sound' /\ Lawful
<1>1. touched' = TRUE /\ UNCHANGED <<caches, op, queue>>
  BY DEF App
<1>2. op.phase # "done" => Reached(Here, pump', touched')
  BY <1>1, Touched DEF Sound
<1> QED BY <1>1, <1>2 DEF Sound, Here, Lawful, Settles, caches

\* The operation is cut short, or is none.
LEMMA CutSound ==
  ASSUME TInv, Watchdog \/ Drop \/ ControlCommit
  PROVE  Sound' /\ Lawful
<1> DEFINE w == Finish(Here, "timeout")
<1>1. w.op.phase = "done" /\ w.op.status = "timeout"
  <2>1. Here \in World
    BY KernelHere DEF TInv, Proper
  <2> QED BY <2>1 DEF Finish, World, Operations
<1> HIDE DEF w
<1>2. (op.phase = "done" /\ op' = op) \/ op' = w.op
  <2>1. ControlCommit => op.phase = "done" /\ op' = op
    <3>1. Commit(Here).op = op
      BY KernelHere, CommitTyped DEF TInv, Proper
    <3> QED BY <3>1 DEF ControlCommit, Take
  <2> QED BY <2>1 DEF Watchdog, Take, Drop, w
<1> QED BY <1>1, <1>2 DEF Sound, Lawful, Settles

LEMMA SoundSteps == TInv /\ Sound /\ [Next]_vars => Sound' /\ Lawful
<1> SUFFICES ASSUME TInv, Sound, [Next]_vars PROVE Sound' /\ Lawful
  OBVIOUS
<1>1. CASE \E r \in Requests : Submit(r)
  BY <1>1, SubmitSound
<1>2. CASE LateDropped \/ Reconnect \/ Tick \/ UNCHANGED vars
  <2>1. UNCHANGED <<caches, op, queue, pump, touched>>
    BY <1>2 DEF LateDropped, Reconnect, Tick, vars, history
  <2> QED BY <2>1 DEF Sound, Here, Lawful, Settles, caches
<1> QED
  BY <1>1, <1>2, ConfirmDueSound, BackgroundSound, CutSound, EndsSound, AppSound DEF Next

LEMMA SoundAlways == Spec => [](TInv /\ Sound)
<1>1. Init => TInv /\ Sound
  <2>1. Init => op.phase = "done"
    BY DEF Init, NoOperation
  <2> QED BY <2>1, TypedFirst, Initially DEF TInv, Sound
<1>2. TInv /\ Sound /\ [Next]_vars => (TInv /\ Sound)'
  BY TypedSteps, Steps, SoundSteps DEF TInv
<1> QED BY <1>1, <1>2, PTL DEF Spec

\* An operation is accepted only on a read-back of what the pump holds then: no
\* acknowledgement, lost, refused or late, nothing a cut-short operation left at
\* the transport, and no later command of the operation itself undoes what was
\* verified before the verdict; the app apart, and a late reply passing for the
\* read-back (confirm_schedule_entry_, confirm_single_event_, confirm_upload_).
THEOREM AcceptedIsHeldAlways == Spec => AcceptedIsHeld
<1>1. TInv /\ Sound /\ [Next]_vars => [Settles("accepted") /\ ~touched' => Holds(op', pump')]_vars
  BY SoundSteps DEF Lawful
<1> QED BY <1>1, SoundAlways, PTL DEF Spec, AcceptedIsHeld

\* The hash that an accepted upload reports is that of the pump's own grid: every
\* layer was read back, or found to match, with no write behind it (current_hash,
\* finish_upload_).
THEOREM HashIsPumpsAlways == Spec => HashIsPumps
<1>1. TInv /\ Sound /\ [Next]_vars =>
        [Settles("accepted") /\ op'.cmd = "upload" /\ ~touched' =>
           /\ Hash(overview', layers').known
           /\ Hash(overview', layers').grid = [l \in Layers |-> Canonical(pump'.grid[l])]]_vars
  BY SoundSteps DEF Lawful
<1> QED BY <1>1, SoundAlways, PTL DEF Spec, HashIsPumps
-----------------------------------------------------------------------------
(* The slot of a new event: what the cached events show of the pump's, and *)
(* what is queued that was decided from them.                              *)

\* The slots that every read of the events goes through.
EventCount == Lesser(PumpSlots, SINGLE_EVENT_SLOT_LIMIT)

\* No pump holds more single events than the component reads of one whose
\* overview it has not seen.
SlotsAssumption == EventCount <= FallbackSlots

\* Of the first n slots, those in du apart, held are the pump's enabled events.
Shown(held, n, p, du) ==
  \A s \in Nat : s < n /\ s < PumpSlots /\ s \notin du =>
    /\ \A i \in DOMAIN held : held[i].index = s => held[i] = p.events[s]
    /\ p.events[s].on => s \in Indices(held)

\* What is cached, and what a read has found up to the slot it asks for.
CacheSure(ev, p, du) == ev.known => Shown(ev.held, EventCount, p, du)
Found(got, n, p, du) == Shown(got, n, p, du) /\ \A i \in DOMAIN got : got[i].index < n
ReadSure(c, p, du) == c.kind = "slots" /\ c.data.ok => Found(c.data.got, c.at, p, du)
\* A chosen slot has no live event.
ChoiceSure(c, p, t, du) ==
  c.kind = "event" /\ c.data.chosen /\ c.at < PumpSlots /\ c.at \notin du =>
    ~(p.events[c.at].on /\ p.events[c.at].end >= t)
Sure(q, p, t, du) ==
  \A i \in 1..Len(q) : ReadSure(q[i], p, du) /\ ChoiceSure(q[i], p, t, du)

KeptInv == CacheSure(events, pump, doubt) /\ Sure(queue, pump, time, doubt)

LEMMA CountFacts ==
  /\ PumpSlots \in Nat /\ SINGLE_EVENT_SLOT_LIMIT \in Nat /\ EventCount \in Nat
  /\ EventCount <= PumpSlots
  /\ \A s \in SlotNumbers : s < PumpSlots => s < EventCount
  /\ SlotsAssumption => \A n \in SlotCounts : EventCount <= n
<1>1. PumpSlots \in Nat /\ FallbackSlots \in Nat /\ SINGLE_EVENT_SLOT_LIMIT \in Nat
  BY ScheduleAssumption
<1>2. EventCount \in Nat /\ EventCount <= PumpSlots /\ EventCount <= SINGLE_EVENT_SLOT_LIMIT
      /\ (EventCount = PumpSlots \/ EventCount = SINGLE_EVENT_SLOT_LIMIT)
  BY <1>1 DEF EventCount, Lesser
<1>3. \A n \in SlotCounts : n \in Nat /\ n <= SINGLE_EVENT_SLOT_LIMIT
  BY <1>1 DEF SlotCounts, Lesser
<1>4. ASSUME NEW s \in SlotNumbers, s < PumpSlots PROVE s < EventCount
  <2>1. PICK n \in SlotCounts : s \in 0..(n - 1)
    BY DEF SlotNumbers
  <2> QED BY <1>1, <1>2, <1>3, <1>4, <2>1
<1>5. ASSUME SlotsAssumption PROVE \A n \in SlotCounts : EventCount <= n
  BY <1>1, <1>2, <1>5 DEF SlotsAssumption, SlotCounts, Lesser
<1> QED BY <1>1, <1>2, <1>4, <1>5

\* What is sure stays so where no slot gains a record or loses its doubt.
Same(p, du, p1, du1) ==
  \A s \in Nat : s < PumpSlots /\ s \notin du1 => s \notin du /\ p1.events[s] = p.events[s]

LEMMA ShownOn ==
  ASSUME NEW p, NEW du, NEW p1, NEW du1, Same(p, du, p1, du1), NEW held, NEW n, Shown(held, n, p, du)
  PROVE  Shown(held, n, p1, du1)
  BY DEF Same, Shown

LEMMA StaySure ==
  ASSUME NEW p, NEW du, NEW p1, NEW du1, Same(p, du, p1, du1), NEW t \in Nat, NEW t1 \in Nat, t <= t1,
         p \in Programs
  PROVE  /\ \A ev : CacheSure(ev, p, du) => CacheSure(ev, p1, du1)
         /\ \A q \in Seq(Command) : Sure(q, p, t, du) => Sure(q, p1, t1, du1)
<1>1. \A ev : CacheSure(ev, p, du) => CacheSure(ev, p1, du1)
  BY ShownOn DEF CacheSure
<1>2. ASSUME NEW c \in Command, ReadSure(c, p, du) PROVE ReadSure(c, p1, du1)
  BY <1>2, ShownOn DEF ReadSure, Found
<1>3. ASSUME NEW c \in Command, ChoiceSure(c, p, t, du) PROVE ChoiceSure(c, p1, t1, du1)
  <2> SUFFICES ASSUME c.kind = "event", c.data.chosen, c.at < PumpSlots, c.at \notin du1,
                      p1.events[c.at].on, p1.events[c.at].end >= t1
               PROVE  FALSE
    BY DEF ChoiceSure
  <2>1. c.at \in Nat
    BY CommandIs, SlotFacts
  <2>2. p1.events[c.at] = p.events[c.at] /\ c.at \notin du
    BY <2>1 DEF Same
  <2>3. p.events[c.at].end \in Nat
    <3>1. p.events[c.at] \in Event
      BY <2>1, CountFacts DEF Programs, PumpEvents
    <3> QED BY <3>1 DEF Event
  <2>4. p.events[c.at].end >= t
    BY <2>2, <2>3
  <2> QED BY <1>3, <2>2, <2>4 DEF ChoiceSure
<1>4. ASSUME NEW q \in Seq(Command), Sure(q, p, t, du) PROVE Sure(q, p1, t1, du1)
  <2>1. \A i \in 1..Len(q) : q[i] \in Command
    BY <1>4
  <2> QED BY <1>2, <1>3, <1>4, <2>1 DEF Sure
<1> QED BY <1>1, <1>4

\* The queue moves on.
LEMMA SureJoined ==
  ASSUME NEW p, NEW t, NEW du, NEW S, NEW q \in Seq(S), NEW r \in Seq(S), Sure(q, p, t, du), Sure(r, p, t, du)
  PROVE  Sure(q \o r, p, t, du)
<1>1. /\ Len(q \o r) = Len(q) + Len(r) /\ Len(q) \in Nat /\ Len(r) \in Nat
      /\ \A i \in 1..Len(q) : (q \o r)[i] = q[i]
      /\ \A i \in 1..Len(r) : (q \o r)[Len(q) + i] = r[i]
  OBVIOUS
<1> DEFINE s == q \o r
<1> HIDE DEF s
<1>2. ASSUME NEW i \in 1..Len(s) PROVE ReadSure(s[i], p, du) /\ ChoiceSure(s[i], p, t, du)
  <2>1. CASE i \in 1..Len(q)
    BY <1>1, <2>1 DEF Sure, s
  <2>2. CASE i \notin 1..Len(q)
    <3>1. i - Len(q) \in 1..Len(r) /\ Len(q) + (i - Len(q)) = i
      BY <1>1, <2>2 DEF s
    <3>2. s[i] = r[i - Len(q)]
      BY <1>1, <3>1 DEF s
    <3> QED BY <3>1, <3>2 DEF Sure
  <2> QED BY <2>1, <2>2
<1> QED BY <1>2 DEF Sure, s

LEMMA SureTail ==
  ASSUME NEW p, NEW t, NEW du, NEW S, NEW q \in Seq(S), q # <<>>, Sure(q, p, t, du)
  PROVE  Sure(Tail(q), p, t, du) /\ ReadSure(Head(q), p, du) /\ ChoiceSure(Head(q), p, t, du)
<1>1. /\ Len(Tail(q)) = Len(q) - 1 /\ Len(q) \in Nat /\ Len(q) > 0 /\ Head(q) = q[1]
      /\ \A i \in 1..Len(Tail(q)) : Tail(q)[i] = q[i + 1] /\ i + 1 \in 1..Len(q)
  OBVIOUS
<1> QED BY <1>1 DEF Sure

LEMMA SureAppended ==
  ASSUME NEW p, NEW t, NEW du, NEW S, NEW q \in Seq(S), NEW e \in S, Sure(q, p, t, du),
         ReadSure(e, p, du), ChoiceSure(e, p, t, du)
  PROVE  Sure(Append(q, e), p, t, du)
<1>1. /\ Len(Append(q, e)) = Len(q) + 1 /\ Len(q) \in Nat
      /\ \A i \in 1..Len(q) : Append(q, e)[i] = q[i]
      /\ Append(q, e)[Len(q) + 1] = e
      /\ \A i \in 1..(Len(q) + 1) : i \in 1..Len(q) \/ i = Len(q) + 1
  OBVIOUS
<1> QED BY <1>1 DEF Sure

\* A read of all the slots has found nothing before the first.
LEMMA SureStart ==
  ASSUME NEW c, c.kind = "slots" => c.at = 0 /\ c.data.got = <<>>, NEW p, NEW du
  PROVE  ReadSure(c, p, du)
<1>1. \A s \in Nat : ~(s < 0)
  OBVIOUS
<1>2. DOMAIN <<>> = {}
  OBVIOUS
<1> QED BY <1>1, <1>2 DEF ReadSure, Found, Shown

\* What a step from w to x asks for: a read of all the slots begins with the
\* first, and a slot is chosen from the cached events.
Asked(w, e) ==
  /\ e.kind = "slots" => e.at = 0 /\ e.data.got = <<>>
  /\ e.kind = "event" /\ e.data.chosen =>
       /\ w.events.known /\ e.at # NoSlot
       /\ e.at = FreeSlot(w.events.held, MaxSlots(w.overview), Now)
Fetched(w, x) ==
  /\ x.events = w.events
  /\ x.send = w.send \/ \E e : x.send = Append(w.send, e) /\ Asked(w, e)

\* What is chosen from a cache that shows the pump's events has no live one.
LEMMA ChoiceMade ==
  ASSUME NEW held \in Seq(CachedEvent), NEW p \in Programs, NEW du, Shown(held, EventCount, p, du),
         time \in Nat, NEW ov, NEW e \in Command, e.kind = "event", e.at # NoSlot,
         e.at = FreeSlot(held, MaxSlots(ov), Now)
  PROVE  ChoiceSure(e, p, time, du)
<1> DEFINE s == e.at
<1>1. held \in Held /\ MaxSlots(ov) \in Nat /\ Now \in Nat /\ (Now > NoClock => Now = time)
  <2>1. \A r \in Seq(CachedEvent) : r \in Seq(Event)
    BY DEF CachedEvent
  <2>2. Now \in Nat /\ (Now > NoClock => Now = time)
    BY DEF Now, NoClock
  <2>3. MaxSlots(ov) \in Nat
    BY SlotFacts
  <2> QED BY <2>1, <2>2, <2>3 DEF Held
<1>2. s \in SlotNumbers /\ s \in Nat
  BY CommandIs, SlotFacts
<1> SUFFICES ASSUME s < PumpSlots, s \notin du, p.events[s].on, p.events[s].end >= time PROVE FALSE
  BY DEF ChoiceSure
<1>3. s < EventCount
  BY <1>2, CountFacts
<1>4. s \in Indices(held) /\ \A i \in DOMAIN held : held[i].index = s => held[i] = p.events[s]
  BY <1>2, <1>3 DEF Shown
<1> HIDE DEF s
<1>5. \E i \in DOMAIN held : held[i].index = s /\ Expired(held[i], Now)
  BY <1>1, <1>4, FreeSlotAnswers DEF s
<1>6. PICK i \in DOMAIN held : held[i].index = s /\ Expired(held[i], Now)
  BY <1>5
<1>7. held[i] = p.events[s] /\ held[i].end \in Nat
  BY <1>1, <1>4, <1>6, HeldTypes
<1> QED BY <1>1, <1>6, <1>7 DEF Expired

LEMMA FetchedSure ==
  ASSUME NEW w \in World, NEW x \in World, Fetched(w, x), NEW p \in Programs, NEW du, time \in Nat,
         CacheSure(w.events, p, du), Sure(w.send, p, time, du)
  PROVE  CacheSure(x.events, p, du) /\ Sure(x.send, p, time, du)
<1>1. w.send \in Seq(Command) /\ x.send \in Seq(Command)
  BY Fields
<1>2. ASSUME NEW e, x.send = Append(w.send, e), Asked(w, e) PROVE Sure(x.send, p, time, du)
  <2>1. e \in Command
    <3>1. Len(x.send) = Len(w.send) + 1 /\ x.send[Len(w.send) + 1] = e /\ Len(w.send) \in Nat
      BY <1>1, <1>2
    <3>2. Len(w.send) + 1 \in DOMAIN x.send
      BY <1>1, <3>1
    <3> QED BY <1>1, <3>1, <3>2
  <2>2. ReadSure(e, p, du)
    BY <1>2, SureStart DEF Asked
  <2>3. ChoiceSure(e, p, time, du)
    <3>1. CASE e.kind = "event" /\ e.data.chosen
      <4>1. w.events.held \in Seq(CachedEvent) /\ Shown(w.events.held, EventCount, p, du)
        BY <1>2, <3>1, HeldIs DEF Asked, CacheSure
      <4> DEFINE held == w.events.held
                 ov == w.overview
      <4>2. e.at # NoSlot /\ e.at = FreeSlot(held, MaxSlots(ov), Now)
        BY <1>2, <3>1 DEF Asked
      <4> HIDE DEF held, ov
      <4> QED BY <2>1, <3>1, <4>1, <4>2, ChoiceMade DEF held
    <3> QED BY <3>1 DEF ChoiceSure
  <2> QED BY <1>1, <1>2, <2>1, <2>2, <2>3, SureAppended
<1> QED BY <1>2 DEF Fetched

\* A write of an event.
LEMMA EventAsked ==
  ASSUME NEW y, Framed(y)
  PROVE  LET x == WriteEvent(y)
         IN  /\ x.events = y.events
             /\ \/ x.send = y.send
                \/ \E e : /\ x.send = Append(y.send, e) /\ e.kind = "event" /\ e.at = y.op.slot
                          /\ e.data.chosen = (y.op.cmd = "set_event" /\ y.op.req.slot = NoSlot)
<1> DEFINE z == Phase(y, "write")
           d == [ev |-> EventOf(y.op), chosen |-> y.op.cmd = "set_event" /\ y.op.req.slot = NoSlot]
           e == [kind |-> "event", seq |-> z.op.seq, at |-> y.op.slot, data |-> d]
<1>1. WriteEvent(y).events = y.events
  BY SteadyEvent DEF Steady
<1>2. Finish(y, "rejected").send = y.send /\ z.send = y.send /\ DOMAIN z = WFields
  BY DEF Framed, Finish, Phase, WFields
<1> HIDE DEF z
<1>3. Send(z, "event", y.op.slot, d).send = Append(y.send, e)
  BY <1>2 DEF Send, WFields
<1>4. e.kind = "event" /\ e.at = y.op.slot
      /\ e.data.chosen = (y.op.cmd = "set_event" /\ y.op.req.slot = NoSlot)
  OBVIOUS
<1> HIDE DEF e
<1> QED BY <1>1, <1>2, <1>3, <1>4 DEF WriteEvent, z

LEMMA ResolveFetched ==
  ASSUME NEW w, Framed(w), w.events.known
  PROVE  Fetched(w, Resolve(w))
<1>1. Resolve(w).events = w.events
  BY SteadyEvent DEF Steady
<1>2. \A status : Finish(w, status).send = w.send
  BY DEF Framed, Finish, WFields
<1>3. ASSUME w.op.cmd = "clear_vacation" PROVE Fetched(w, ResolveVacation(w))
  <2> DEFINE Good(z) == z.send = w.send \/ \E e : z.send = Append(w.send, e) /\ Asked(w, e)
  <2>1. ASSUME NEW todo, NEW slot, NEW more
        PROVE  Good(WriteEvent([w EXCEPT !.op.todo = todo, !.op.slot = slot, !.op.unhandled = more]))
    <3> DEFINE y == [w EXCEPT !.op.todo = todo, !.op.slot = slot, !.op.unhandled = more]
    <3>1. Framed(y) /\ y.send = w.send /\ y.op.cmd = "clear_vacation"
      BY <1>3 DEF Framed, WFields, OpFields
    <3> HIDE DEF y
    <3>2. Good(WriteEvent(y))
      BY <3>1, EventAsked DEF Asked
    <3> HIDE DEF Good
    <3> QED BY <3>2 DEF y
  <2> DEFINE slots == VacationSlots(w.events.held, Now)
             kept == SubSeq(slots, 1, Lesser(Len(slots), MAX_VACATIONS_PER_CLEAR))
             more == Len(slots) > Len(kept)
             first == slots[1]
             x == WriteEvent([w EXCEPT !.op.todo = kept, !.op.slot = first, !.op.unhandled = more])
  <2>2. ResolveVacation(w) = IF slots = <<>> THEN Finish(w, "accepted") ELSE x
    BY DEF ResolveVacation
  <2>3. Good(x)
    <3> HIDE DEF kept, first, more, Good
    <3> QED BY <2>1
  <2>4. ResolveVacation(w).events = w.events
    BY <1>1, <1>3 DEF Resolve
  <2> HIDE DEF slots, x
  <2> QED BY <1>2, <2>2, <2>3, <2>4 DEF Fetched
<1>4. Fetched(w, ResolveFree(w)) \/ w.op.cmd = "clear_vacation"
  <2> DEFINE s == FreeSlot(w.events.held, MaxSlots(w.overview), Now)
             y == [w EXCEPT !.op.slot = s]
  <2>1. Framed(y) /\ y.send = w.send /\ y.op.slot = s
    <3> HIDE DEF s
    <3> QED BY DEF Framed, WFields, OpFields
  <2> HIDE DEF y
  <2>2. ASSUME s # NoSlot
        PROVE  WriteEvent(y).send = w.send \/ \E e : WriteEvent(y).send = Append(w.send, e) /\ Asked(w, e)
    BY <2>1, <2>2, EventAsked DEF Asked
  <2> HIDE DEF s
  <2>3. ASSUME w.op.cmd # "clear_vacation" PROVE Fetched(w, ResolveFree(w))
    <3>1. ResolveFree(w) = IF s = NoSlot THEN Finish(w, "rejected") ELSE WriteEvent(y)
      BY DEF ResolveFree, s, y
    <3>2. ResolveFree(w).events = w.events
      BY <1>1, <2>3 DEF Resolve
    <3> QED BY <1>2, <2>2, <3>1, <3>2 DEF Fetched
  <2> QED BY <2>3
<1> QED BY <1>3, <1>4 DEF Resolve

\* No other operation asks for an event.
LEMMA OthersFetched ==
  ASSUME NEW w, ~IsEvent(w.op), w.op.cmd # "refresh_events", NEW x, Result(w, x), x.op.cmd = w.op.cmd,
         x.events = w.events
  PROVE  Fetched(w, x)
<1>1. ASSUME NEW e, OwnOk(x.op, e) PROVE Asked(w, e)
  BY <1>1 DEF OwnOk, IsEvent, Asked
<1> QED BY <1>1 DEF Result, Fetched

\* A step that sends nothing and leaves the cached events asks for nothing.
LEMMA StillFetched ==
  ASSUME NEW w, Framed(w)
  PROVE  /\ \A status : Fetched(w, Finish(w, status)) /\ Fetched(w, Retry(w, status))
         /\ \A phase : Fetched(w, Phase(w, phase))
<1>1. \A status : Fetched(w, Finish(w, status))
  BY DEF Framed, Fetched, Finish, WFields
<1>2. \A status : Fetched(w, Retry(w, status))
  BY <1>1 DEF Framed, Fetched, Retry, WFields
<1>3. \A phase : Fetched(w, Phase(w, phase))
  BY DEF Framed, Fetched, Phase, WFields
<1> QED BY <1>1, <1>2, <1>3

LEMMA PhaseSent ==
  ASSUME NEW w, Framed(w), NEW phase, NEW kind, NEW at, NEW data
  PROVE  LET x == Send(Phase(w, phase), kind, at, data)
             e == [kind |-> kind, seq |-> w.op.seq, at |-> at, data |-> data]
         IN  x.events = w.events /\ x.send = Append(w.send, e)
<1> DEFINE z == Phase(w, phase)
           e == [kind |-> kind, seq |-> w.op.seq, at |-> at, data |-> data]
<1>1. z.events = w.events /\ z.send = w.send /\ DOMAIN z = WFields /\ z.op.seq = w.op.seq
  BY DEF Framed, Phase, WFields, OpFields
<1> HIDE DEF z
<1>2. Send(z, kind, at, data).events = w.events /\ Send(z, kind, at, data).send = Append(w.send, e)
  BY <1>1 DEF Send, WFields
<1> QED BY <1>2 DEF z

\* The sends of an operation that are no event's write.
LEMMA SendFetched ==
  ASSUME NEW w, Framed(w), NEW phase
  PROVE  /\ \A kind, at, data : kind \notin {"slots", "event"} =>
              Fetched(w, Send(Phase(w, phase), kind, at, data))
         /\ Fetched(w, ReadSlots(Phase(w, phase)))
         /\ \A on : Fetched(w, SetState(Phase(w, phase), on))
<1>1. ASSUME NEW kind, NEW at, NEW data, kind \notin {"slots", "event"}
      PROVE  Fetched(w, Send(Phase(w, phase), kind, at, data))
  <2> DEFINE e == [kind |-> kind, seq |-> w.op.seq, at |-> at, data |-> data]
  <2>1. Asked(w, e)
    BY <1>1 DEF Asked
  <2> HIDE DEF e
  <2> QED BY <2>1, PhaseSent DEF Fetched, e
<1>2. Fetched(w, ReadSlots(Phase(w, phase)))
  <2> DEFINE d == [got |-> <<>>, ok |-> TRUE, max |-> MaxSlots(Phase(w, phase).overview)]
             e == [kind |-> "slots", seq |-> w.op.seq, at |-> 0, data |-> d]
  <2>1. Asked(w, e)
    BY DEF Asked
  <2>2. ReadSlots(Phase(w, phase)) = Send(Phase(w, phase), "slots", 0, d)
    BY DEF ReadSlots
  <2> HIDE DEF e, d
  <2> QED BY <2>1, <2>2, PhaseSent DEF Fetched, e
<1>3. ASSUME NEW on PROVE Fetched(w, SetState(Phase(w, phase), on))
  <2> DEFINE d == [on |-> on, stop |-> TRUE]
             x == Send(Phase(w, phase), "state", 0, d)
             y == [x EXCEPT !.overview.stop = TRUE]
  <2>1. Fetched(w, x)
    BY <1>1
  <2> HIDE DEF x
  <2>2. y.events = x.events /\ y.send = x.send
    <3>1. DOMAIN x = WFields
      <4>1. Framed(Phase(w, phase))
        BY SteadyBasic DEF Steady
      <4> QED BY <4>1, SteadyBasic DEF Steady, Framed, x
    <3> QED BY <3>1 DEF WFields
  <2>3. y = SetState(Phase(w, phase), on)
    BY DEF SetState, x
  <2> HIDE DEF y
  <2>4. Fetched(w, y)
    BY <2>1, <2>2 DEF Fetched, Asked
  <2> QED BY <2>3, <2>4
<1> QED BY <1>1, <1>2, <1>3

LEMMA SlotsFetched ==
  ASSUME NEW w, Framed(w), NEW ok, ok => w.events.known
  PROVE  Fetched(w, OnSlots(w, ok))
  BY StillFetched, ResolveFetched DEF OnSlots

LEMMA SlotFetched ==
  ASSUME NEW w, Framed(w), NEW ok, NEW ev
  PROVE  Fetched(w, OnSlot(w, ok, ev))
<1> DEFINE n == w.op.cursor + 1
           s == w.op.todo[w.op.cursor + 1]
           y == [w EXCEPT !.op.cursor = n, !.op.tries = 0, !.op.slot = s]
<1>1. [w EXCEPT !.op.cursor = @ + 1, !.op.tries = 0, !.op.slot = s] = y
  BY DEF Framed, WFields, OpFields
<1>2. Framed(y) /\ y.send = w.send /\ y.events = w.events /\ y.op.cmd = w.op.cmd
  <2> HIDE DEF n, s
  <2> QED BY DEF Framed, WFields, OpFields
<1> HIDE DEF y, s
<1>3. ASSUME w.op.cmd = "clear_vacation" PROVE Fetched(w, WriteEvent(y))
  BY <1>2, <1>3, EventAsked DEF Fetched, Asked
<1> QED BY <1>1, <1>3, StillFetched DEF OnSlot, MoreVacations, s

LEMMA OnPollFetched ==
  ASSUME NEW w, Framed(w), NEW ok
  PROVE  Fetched(w, OnPoll(w, ok))
<1> DEFINE f == CASE ~ok -> "unreadable" [] FlagDiffers(w) -> "mismatch" [] OTHER -> "taken"
           y == [Phase(w, "due") EXCEPT !.op.at = 0, !.op.flag = f]
<1>1. y.events = w.events /\ y.send = w.send
  <2> HIDE DEF f
  <2> QED BY DEF Framed, Phase, WFields
<1>2. OnPoll(w, ok) = y \/ w.op.cmd # "upload"
  BY DEF OnPoll
<1> HIDE DEF y
<1>3. Fetched(w, y)
  BY <1>1 DEF Fetched
<1>4. w.op.cmd # "upload" => Fetched(w, OnPoll(w, ok))
  BY StillFetched DEF OnPoll
<1> QED BY <1>2, <1>3, <1>4

LEMMA ConfirmFetched ==
  ASSUME NEW w, WOk(w), w.op.phase = "due"
  PROVE  Fetched(w, Confirm(w))
<1>1. /\ Framed(w) /\ w.op.cmd = w.op.req.cmd /\ w.op.cmd \in Confirmable
      /\ IsEntry(w.op) => w.op.req.layer \in Layers
  BY DEF WOk, OpOk, Framed
<1>2. CASE IsEvent(w.op)
  <2>1. Confirm(w) = Send(Phase(w, "confirm"), "slot", w.op.slot, NoData)
    BY <1>2 DEF Confirm, IsEvent, IsEntry
  <2> QED BY <1>1, <2>1, SendFetched
<1>3. CASE ~IsEvent(w.op)
  <2>1. Result(w, Confirm(w))
    BY <1>1, ConfirmResult
  <2>2. Confirm(w).op.cmd = w.op.cmd /\ Confirm(w).events = w.events
    BY <1>1, SteadyCallbacks DEF Steady, WOk
  <2> QED BY <1>1, <1>3, <2>1, <2>2, OthersFetched DEF Confirmable
<1> QED BY <1>2, <1>3

LEMMA BeginFetched ==
  ASSUME NEW w, Framed(w), w.op.cmd = "set_event" => w.op.slot = w.op.req.slot
  PROVE  Fetched(w, Begin(w))
<1>1. ASSUME IsEvent(w.op), w.op.slot # NoSlot PROVE Fetched(w, WriteEvent(w))
  BY <1>1, EventAsked DEF Fetched, Asked
<1>2. IsEvent(w.op) /\ w.events.known => Fetched(w, Resolve(w))
  BY ResolveFetched
<1>3. /\ Fetched(w, ReadGrid(w)) /\ Fetched(w, ReadNext(w)) /\ Fetched(w, ReadSlots(Phase(w, "slots")))
      /\ Fetched(w, SetState(Phase(w, "write"), w.op.req.on))
      /\ Fetched(w, Send(Phase(w, "read"), "layer", w.op.req.layer, NoData))
  BY SendFetched DEF ReadGrid, ReadNext
<1>4. Fetched(w, AfterOverview(w))
  BY <1>1, <1>2, <1>3 DEF AfterOverview
<1> QED BY <1>3, <1>4, StillFetched DEF Begin

\* Other commands rest on no event.
LEMMA SurePlain ==
  ASSUME NEW q, \A i \in 1..Len(q) : q[i].kind \notin {"slots", "event"}, NEW p, NEW t, NEW du
  PROVE  Sure(q, p, t, du)
  BY DEF Sure, ReadSure, ChoiceSure

\* The same of the commit that follows a write.
LEMMA SureCommit ==
  ASSUME NEW w, WOk(w), w.send = <<>>, NEW p, NEW t, NEW du
  PROVE  Sure(Commit(w).send, p, t, du)
<1> DEFINE q == Commit(w).send
<1>1. q = <<>> \/ \E e : q = <<e>> /\ e.kind = "commit"
  BY CommitOk
<1> HIDE DEF q
<1>2. \A i \in 1..Len(q) : q[i].kind \notin {"slots", "event"}
  BY <1>1
<1>3. Sure(q, p, t, du)
  BY <1>2, SurePlain
<1> QED BY <1>3 DEF q

\* The cache takes an event that is written.
LEMMA RecachedShown ==
  ASSUME NEW held \in Seq(CachedEvent), NEW ev \in Event, NEW n, NEW p, NEW du,
         Shown(held, n, p, du \cup {ev.index}),
         ev.index < PumpSlots /\ ev.index \notin du => p.events[ev.index] = ev
  PROVE  Shown(Recached(held, ev), n, p, du)
<1> DEFINE I == {i \in DOMAIN held : held[i].index # ev.index}
           k == Kept(held, I)
           r == Recached(held, ev)
<1>1. I \in SUBSET DOMAIN held
  OBVIOUS
<1>2. /\ k \in Seq(CachedEvent)
      /\ \A j \in DOMAIN k : \E i \in I : k[j] = held[i]
      /\ \A i \in I : \E j \in DOMAIN k : k[j] = held[i]
  <2> HIDE DEF I
  <2> QED BY <1>1, KeptIs
<1>3. r = IF ev.on THEN Append(k, ev) ELSE k
  BY DEF Recached
<1> HIDE DEF k, r
<1>4. /\ \A j \in DOMAIN r : (\E i \in DOMAIN k : r[j] = k[i]) \/ (ev.on /\ r[j] = ev)
      /\ \A i \in DOMAIN k : \E j \in DOMAIN r : r[j] = k[i]
      /\ ev.on => \E j \in DOMAIN r : r[j] = ev
  <2>1. CASE ~ev.on
    BY <1>3, <2>1
  <2>2. CASE ev.on
    <3>1. r = Append(k, ev)
      BY <1>3, <2>2
    <3>2. /\ Len(k) \in Nat /\ DOMAIN k = 1..Len(k)
          /\ DOMAIN r = 1..(Len(k) + 1) /\ r[Len(k) + 1] = ev
          /\ \A i \in 1..Len(k) : r[i] = k[i]
      BY <1>2, <3>1
    <3>3. \A j \in DOMAIN r : j \in DOMAIN k \/ j = Len(k) + 1
      BY <3>2
    <3>4. Len(k) + 1 \in DOMAIN r /\ \A i \in DOMAIN k : i \in DOMAIN r
      BY <3>2
    <3> QED BY <2>2, <3>2, <3>3, <3>4
  <2> QED BY <2>1, <2>2
<1>5. ASSUME NEW s \in Nat, s < n, s < PumpSlots, s \notin du, s # ev.index
      PROVE  /\ \A j \in DOMAIN r : r[j].index = s => r[j] = p.events[s]
             /\ p.events[s].on => s \in Indices(r)
  <2>1. /\ \A i \in DOMAIN held : held[i].index = s => held[i] = p.events[s]
        /\ p.events[s].on => s \in Indices(held)
    BY <1>5 DEF Shown
  <2>2. \A j \in DOMAIN r : r[j].index = s => r[j] = p.events[s]
    <3>1. \A j \in DOMAIN r : r[j].index = s => \E i \in I : r[j] = held[i]
      BY <1>2, <1>4, <1>5
    <3> QED BY <2>1, <3>1
  <2>3. ASSUME p.events[s].on PROVE s \in Indices(r)
    <3>1. PICK i \in DOMAIN held : held[i].index = s
      BY <2>1, <2>3 DEF Indices
    <3>2. i \in I
      BY <1>5, <3>1
    <3>3. \E j \in DOMAIN r : r[j] = held[i]
      BY <1>2, <1>4, <3>2
    <3> QED BY <3>1, <3>3 DEF Indices
  <2> QED BY <2>2, <2>3
<1>6. ASSUME ev.index < PumpSlots, ev.index \notin du
      PROVE  /\ \A j \in DOMAIN r : r[j].index = ev.index => r[j] = p.events[ev.index]
             /\ p.events[ev.index].on => ev.index \in Indices(r)
  <2>1. p.events[ev.index] = ev
    BY <1>6
  <2>2. \A j \in DOMAIN r : r[j].index = ev.index => r[j] = ev
    <3>1. \A j \in DOMAIN k : k[j].index # ev.index
      BY <1>2
    <3> QED BY <1>4, <3>1
  <2>3. ev.on => ev.index \in Indices(r)
    BY <1>4 DEF Indices
  <2> QED BY <2>1, <2>2, <2>3
<1>7. Shown(r, n, p, du)
  BY <1>5, <1>6 DEF Shown
<1> QED BY <1>7 DEF r

\* A read of all the slots has gone through one more.
LEMMA GotShown ==
  ASSUME NEW got \in Seq(CachedEvent), NEW n \in Nat, NEW p, NEW du, Found(got, n, p, du),
         NEW v \in Event, v.index = n, n < PumpSlots /\ n \notin du => v = p.events[n],
         NEW r, r = IF v.on THEN Append(got, v) ELSE got
  PROVE  Found(r, n + 1, p, du)
<1>1. /\ \A j \in DOMAIN r : (j \in DOMAIN got /\ r[j] = got[j]) \/ (v.on /\ r[j] = v)
      /\ \A i \in DOMAIN got : i \in DOMAIN r /\ r[i] = got[i]
      /\ v.on => \E j \in DOMAIN r : r[j] = v
  <2>1. CASE ~v.on
    BY <2>1
  <2>2. CASE v.on
    <3>1. r = Append(got, v)
      BY <2>2
    <3>2. /\ Len(got) \in Nat /\ DOMAIN got = 1..Len(got)
          /\ DOMAIN r = 1..(Len(got) + 1) /\ r[Len(got) + 1] = v
          /\ \A i \in 1..Len(got) : r[i] = got[i]
      BY <3>1
    <3>3. \A j \in DOMAIN r : j \in DOMAIN got \/ j = Len(got) + 1
      BY <3>2
    <3>4. Len(got) + 1 \in DOMAIN r /\ \A i \in DOMAIN got : i \in DOMAIN r
      BY <3>2
    <3> QED BY <2>2, <3>2, <3>3, <3>4
  <2> QED BY <2>1, <2>2
<1>2. \A i \in DOMAIN got : got[i].index \in Nat /\ got[i].index < n
  BY DEF Found, CachedEvent, Event
<1>3. \A j \in DOMAIN r : r[j].index < n + 1
  BY <1>1, <1>2
<1>4. ASSUME NEW s \in Nat, s < n, s < PumpSlots, s \notin du
      PROVE  /\ \A j \in DOMAIN r : r[j].index = s => r[j] = p.events[s]
             /\ p.events[s].on => s \in Indices(r)
  <2>1. /\ \A i \in DOMAIN got : got[i].index = s => got[i] = p.events[s]
        /\ p.events[s].on => s \in Indices(got)
    BY <1>4 DEF Found, Shown
  <2>2. \A j \in DOMAIN r : r[j].index = s => j \in DOMAIN got /\ r[j] = got[j]
    BY <1>1, <1>4
  <2>3. \A j \in DOMAIN r : r[j].index = s => r[j] = p.events[s]
    BY <2>1, <2>2
  <2>4. s \in Indices(got) => s \in Indices(r)
    BY <1>1 DEF Indices
  <2> QED BY <2>1, <2>3, <2>4
<1>5. ASSUME n < PumpSlots, n \notin du
      PROVE  /\ \A j \in DOMAIN r : r[j].index = n => r[j] = p.events[n]
             /\ p.events[n].on => n \in Indices(r)
  <2>1. \A j \in DOMAIN r : r[j].index = n => r[j] = v
    BY <1>1, <1>2
  <2>2. v.on => n \in Indices(r)
    BY <1>1 DEF Indices
  <2> QED BY <1>5, <2>1, <2>2
<1>6. \A s \in Nat : s < n + 1 => s < n \/ s = n
  OBVIOUS
<1> QED BY <1>3, <1>4, <1>5, <1>6 DEF Found, Shown

Yields(x, p, du) == CacheSure(x.events, p, du) /\ Sure(x.send, p, time, du)

\* What the end of a command leaves cached and asks for: of an event, where the
\* pump holds it; of a read of all the slots, what the slot it asked for holds.
LEMMA DoneSure ==
  ASSUME SlotsAssumption, Proper(Here), WOk(Here), time \in 1..MaxTime,
         NEW c \in Command, op.phase # "done" /\ c.seq = op.seq => op.phase # "due" /\ OwnOk(op, c),
         NEW ok \in BOOLEAN, NEW v, ok => Brings(c, v), NEW p \in Programs, NEW du,
         CacheSure(events, p, IF c.kind = "event" THEN du \cup {c.at} ELSE du), ReadSure(c, p, du),
         c.kind = "slots" /\ ok /\ c.at < PumpSlots /\ c.at \notin du => v = p.events[c.at],
         c.kind = "event" /\ c.at < PumpSlots /\ c.at \notin du => p.events[c.at] = c.data.ev
  PROVE  Yields(Done(Here, c, ok, v), p, du)
<1> DEFINE w == Here
           z == Done(w, c, ok, v)
           G(x) == x \in World /\ WOk(x) /\ x.op = op /\ Yields(x, p, du)
<1>0. /\ w.op = op /\ w.layers = layers /\ w.events = events /\ w.send = <<>>
      /\ Proper(w) /\ WOk(w) /\ w \in World
  BY DEF Here, Proper
<1>w. z \in World /\ time \in Nat
  BY DoneTyped DEF Proper
<1> HIDE DEF w
<1>e. Sure(<<>>, p, time, du)
  BY SurePlain
<1>1. ASSUME NEW x, G(x), Fetched(x, z) PROVE Yields(z, p, du)
  BY <1>1, <1>w, FetchedSure DEF Yields
<1> HIDE DEF z
<1>2. ASSUME NEW x, G(x), InFlight(x, c)
      PROVE  /\ Framed(x) /\ DOMAIN x.layers = Layers /\ OwnOk(x.op, c)
             /\ x.op.phase \notin {"done", "due"} /\ x.op.cmd = x.op.req.cmd
             /\ IsEntry(x.op) => x.op.req.layer \in Layers
             /\ x.op.cmd = "upload" /\ x.op.phase = "read" => x.op.at \in Layers
  <2>1. WOk(x) /\ x.op.phase # "done" /\ OwnOk(x.op, c) /\ x.op.phase # "due"
    BY <1>2 DEF InFlight
  <2> QED BY <2>1 DEF WOk, OpOk, Framed
<1>3. c.kind # "event" => G(w)
  BY <1>0, <1>e DEF Yields
<1>4. ASSUME NEW x \in World, x.op = op PROVE WOk(x)
  <2>1. DOMAIN x = WFields /\ DOMAIN x.layers = Layers
    BY <1>4 DEF World, WFields, LayerCaches
  <2> QED BY <1>0, <1>4, <2>1 DEF WOk
<1>5. ASSUME NEW x, G(x), InFlight(x, c), NEW y, Result(x, y), Steady(x, y), ~IsEvent(op), op.cmd # "refresh_events"
      PROVE  Fetched(x, y)
  BY <1>5, OthersFetched DEF Steady
<1>6. CASE c.kind = "poll"
  <2> DEFINE x == IF ok THEN [w EXCEPT !.overview = [known |-> TRUE, on |-> v.on, stop |-> v.stop]] ELSE w
  <2>1. x \in World /\ x.op = op
    BY <1>0, <1>6, OverviewRead DEF Brings
  <2>2. x.events = w.events /\ x.send = w.send
    BY <1>0 DEF WOk, WFields
  <2> HIDE DEF x
  <2>3. G(x)
    BY <1>3, <1>4, <1>6, <2>1, <2>2 DEF Yields
  <2>4. InFlight(x, c) => Fetched(x, OnPoll(x, ok))
    BY <1>2, <2>3, OnPollFetched
  <2>5. z = IF InFlight(x, c) THEN OnPoll(x, ok) ELSE x
    BY <1>6 DEF z, Done, PollDone, x
  <2> QED BY <1>1, <2>3, <2>4, <2>5 DEF z, w
<1>7. CASE c.kind = "layer"
  <2> DEFINE x == IF ok THEN [w EXCEPT !.layers[c.at] = [known |-> TRUE, days |-> v]] ELSE w
  <2>0. c.at \in Layers
    BY <1>7, CommandIs
  <2>1. x \in World /\ x.op = op
    BY <1>0, <1>7, <2>0, LayerRead DEF Brings
  <2>2. x.events = w.events /\ x.send = w.send /\ (ok => x.layers[c.at].days = v)
    BY <1>0, <2>0 DEF WOk, WFields
  <2> HIDE DEF x
  <2>3. G(x)
    BY <1>3, <1>4, <1>7, <2>1, <2>2 DEF Yields
  <2>4. ASSUME InFlight(x, c) PROVE Fetched(x, OnLayer(x, ok))
    <3>1. /\ IsEntry(x.op) \/ x.op.cmd = "upload"
          /\ IsEntry(x.op) => c.at = x.op.req.layer
          /\ x.op.phase \in {"read", "confirm"}
      BY <1>2, <1>7, <2>3, <2>4 DEF OwnOk
    <3>2. ok => x.layers[c.at].days \in [Days -> Cell]
      BY <1>7, <2>2 DEF Brings, Image
    <3>3. Result(x, OnLayer(x, ok))
      BY <2>0, <2>3, <3>1, <3>2, LayerDoneResult
    <3>4. Steady(x, OnLayer(x, ok))
      BY <1>2, <2>3, <2>4, <3>1, SteadyCallbacks
    <3> QED BY <1>5, <2>3, <2>4, <3>1, <3>3, <3>4 DEF IsEntry, IsEvent
  <2>5. z = IF InFlight(x, c) THEN OnLayer(x, ok) ELSE x
    BY <1>7 DEF z, Done, LayerDone, x
  <2> QED BY <1>1, <2>3, <2>4, <2>5 DEF z, w
<1>8. CASE c.kind = "layers"
  <2> DEFINE x == IF ok THEN [w EXCEPT !.layers[c.at] = [known |-> TRUE, days |-> v]] ELSE w
             data == [ok |-> ok /\ c.data.ok]
             f == [c EXCEPT !.at = @ + 1, !.data = data]
             y == [x EXCEPT !.send = Append(@, f)]
             s == IF data.ok THEN "accepted" ELSE "timeout"
  <2>0. c.at \in Layers
    BY <1>8, CommandIs
  <2>1. x \in World /\ x.op = op
    BY <1>0, <1>8, <2>0, LayerRead DEF Brings
  <2>2. x.events = w.events /\ x.send = w.send
    BY <1>0 DEF WOk, WFields
  <2> HIDE DEF x, data
  <2>3. G(x)
    BY <1>3, <1>4, <1>8, <2>1, <2>2 DEF Yields
  <2>4. f.kind = "layers"
    BY <1>8, CommandIs
  <2>5. z = IF c.at + 1 \in Layers THEN y ELSE IF InFlight(x, c) THEN Finish(x, s) ELSE x
    BY <1>8 DEF z, Done, LayersDone, x, data
  <2> HIDE DEF f, s
  <2>6. Fetched(x, y)
    <3>1. y.events = x.events /\ y.send = Append(x.send, f)
      BY <2>3 DEF WOk, WFields
    <3> HIDE DEF y
    <3> QED BY <2>4, <3>1 DEF Fetched, Asked
  <2>7. InFlight(x, c) => Fetched(x, Finish(x, s))
    BY <1>2, <2>3, StillFetched
  <2> HIDE DEF y
  <2> QED BY <1>1, <2>3, <2>5, <2>6, <2>7 DEF z, w
<1>9. CASE c.kind = "write"
  <2> DEFINE x == Commit(w)
  <2>1. x \in World /\ x.op = op /\ x.events = w.events
    BY <1>0, CommitTyped
  <2>2. Sure(x.send, p, time, du)
    BY <1>0, SureCommit
  <2> HIDE DEF x
  <2>3. G(x)
    BY <1>3, <1>4, <1>9, <2>1, <2>2 DEF Yields
  <2>4. ASSUME InFlight(x, c) PROVE Fetched(x, OnWritten(x))
    <3>1. x.op.phase = "write" /\ x.op.cmd \in Confirmable
      BY <1>2, <1>9, <2>3, <2>4 DEF OwnOk
    <3>2. CASE IsEvent(x.op)
      BY <1>2, <2>3, <2>4, <3>2, StillFetched DEF OnWritten, IsEvent
    <3>3. CASE ~IsEvent(x.op)
      <4>1. Result(x, OnWritten(x))
        BY <2>3, <3>1, WrittenResult
      <4>2. Steady(x, OnWritten(x))
        BY <1>2, <2>3, <2>4, SteadyCallbacks
      <4> QED BY <1>5, <2>3, <2>4, <3>1, <3>3, <4>1, <4>2 DEF Confirmable
    <3> QED BY <3>2, <3>3
  <2>5. z = IF InFlight(x, c) THEN OnWritten(x) ELSE x
    BY <1>9 DEF z, Done, WriteDone, x
  <2> QED BY <1>1, <2>3, <2>4, <2>5 DEF z, w
<1>10. CASE c.kind = "state"
  <2>1. ASSUME InFlight(w, c) PROVE Fetched(w, OnState(w))
    <3>1. OfFlag(w.op) /\ w.op.cmd \in Confirmable /\ w.op.phase \notin {"done", "due", "read"}
      BY <1>2, <1>3, <1>10, <2>1 DEF OwnOk
    <3>2. Result(w, OnState(w))
      BY <1>0, <3>1, StateDoneResult
    <3>3. Steady(w, OnState(w))
      BY <1>2, <1>3, <1>10, <2>1, SteadyCallbacks
    <3> QED BY <1>0, <1>3, <1>5, <1>10, <2>1, <3>1, <3>2, <3>3 DEF OfFlag, IsEvent
  <2>2. z = IF InFlight(w, c) THEN OnState(w) ELSE w
    BY <1>10 DEF z, Done, StateDone
  <2> QED BY <1>1, <1>3, <1>10, <2>1, <2>2 DEF z, w
<1>11. CASE c.kind = "slots"
  <2> DEFINE d == c.data
             got == IF ok /\ v.on THEN Append(d.got, v) ELSE d.got
             data == [d EXCEPT !.ok = ChainOk(ok, d),
                        !.got = IF ok /\ v.on THEN Append(@, v) ELSE @]
             all == IF data.ok THEN [w EXCEPT !.events = [known |-> TRUE, held |-> data.got]] ELSE w
             f == [c EXCEPT !.at = @ + 1, !.data = data]
             y == [w EXCEPT !.send = Append(@, f)]
  <2>0. /\ c.at \in SlotNumbers /\ c.at \in Nat
        /\ d \in [got : Seq(CachedEvent), ok : BOOLEAN, max : SlotCounts]
    BY <1>11, CommandIs, SlotFacts
  <2>1. d.got \in Seq(CachedEvent) /\ got \in Seq(CachedEvent)
    <3>1. ok /\ v.on => v \in CachedEvent
      BY <1>11, <2>0 DEF Brings, CachedEvent
    <3>2. d.got \in Seq(CachedEvent)
      BY <2>0
    <3> HIDE DEF d
    <3> QED BY <3>1, <3>2
  <2>2. data \in [got : Seq(CachedEvent), ok : BOOLEAN, max : SlotCounts]
        /\ data.got = got /\ data.max = d.max /\ (data.ok => ok /\ d.ok)
    <3>1. ChainOk(ok, d) \in BOOLEAN /\ (ChainOk(ok, d) => ok /\ d.ok)
      BY <2>0 DEF ChainOk
    <3>2. data = [d EXCEPT !.ok = ChainOk(ok, d), !.got = got]
      BY <2>0
    <3> HIDE DEF got, d
    <3>3. [d EXCEPT !.ok = ChainOk(ok, d), !.got = got]
             \in [got : Seq(CachedEvent), ok : BOOLEAN, max : SlotCounts]
          /\ [d EXCEPT !.ok = ChainOk(ok, d), !.got = got].got = got
          /\ [d EXCEPT !.ok = ChainOk(ok, d), !.got = got].max = d.max
          /\ [d EXCEPT !.ok = ChainOk(ok, d), !.got = got].ok = ChainOk(ok, d)
      BY <2>0, <2>1, <3>1
    <3> QED BY <3>1, <3>2, <3>3
  <2>3. data.ok => Found(got, c.at + 1, p, du)
    <3> SUFFICES ASSUME data.ok PROVE Found(got, c.at + 1, p, du)
      OBVIOUS
    <3>1. ok /\ d.ok /\ v \in Event /\ v.index = c.at
      BY <1>11, <2>2 DEF Brings
    <3>2. Found(d.got, c.at, p, du)
      BY <1>11, <3>1 DEF ReadSure
    <3>3. got = IF v.on THEN Append(d.got, v) ELSE d.got
      BY <3>1
    <3>4. c.at < PumpSlots /\ c.at \notin du => v = p.events[c.at]
      BY <1>11, <3>1
    <3> DEFINE g == d.got
               n == c.at
    <3> HIDE DEF got
    <3>5. g \in Seq(CachedEvent) /\ n \in Nat /\ v \in Event /\ v.index = n /\ Found(g, n, p, du)
      BY <2>0, <2>1, <3>1, <3>2
    <3>6. got = (IF v.on THEN Append(g, v) ELSE g) /\ (n < PumpSlots /\ n \notin du => v = p.events[n])
      BY <3>3, <3>4
    <3> HIDE DEF g, n, d
    <3>7. Found(got, n + 1, p, du)
      BY <3>5, <3>6, GotShown
    <3> QED BY <3>7 DEF n
  <2> HIDE DEF data, got
  <2>4. all \in World /\ all.op = op /\ (data.ok => all.events.known) /\ all.send = w.send
        /\ all.events = IF data.ok THEN [known |-> TRUE, held |-> got] ELSE w.events
    <3>1. all \in World /\ all.op = op /\ (data.ok => all.events.known)
      BY <1>0, <2>1, <2>2, EventsRead
    <3>2. all.send = w.send /\ all.events = IF data.ok THEN [known |-> TRUE, held |-> data.got] ELSE w.events
      BY <1>0 DEF WOk, WFields
    <3> QED BY <2>2, <3>1, <3>2
  <2>5. z = IF c.at + 1 < data.max THEN y ELSE IF InFlight(all, c) THEN OnSlots(all, data.ok) ELSE all
    BY <1>11 DEF z, Done, SlotsDone, all, data
  <2> HIDE DEF all
  <2>6. ASSUME ~(c.at + 1 < data.max) PROVE Yields(z, p, du)
    <3>1. EventCount <= c.at + 1 /\ EventCount \in Nat
      <4>1. data.max \in SlotCounts /\ data.max \in Nat
        BY <2>2, SlotFacts
      <4> QED BY <2>0, <2>6, <4>1, CountFacts
    <3>2. data.ok => Shown(got, EventCount, p, du)
      <4> SUFFICES ASSUME data.ok PROVE Shown(got, EventCount, p, du)
        OBVIOUS
      <4>1. \A s \in Nat : s < EventCount => s < c.at + 1
        BY <2>0, <3>1
      <4> QED BY <2>3, <4>1 DEF Found, Shown
    <3>3. CacheSure(all.events, p, du)
      <4>1. CASE data.ok
        <5>1. all.events.held = got
          BY <2>4, <4>1
        <5> QED BY <3>2, <4>1, <5>1 DEF CacheSure
      <4>2. CASE ~data.ok
        BY <1>0, <1>11, <2>4, <4>2
      <4> QED BY <4>1, <4>2
    <3>4. G(all)
      BY <1>0, <1>e, <1>4, <2>4, <3>3 DEF Yields
    <3>5. InFlight(all, c) => Fetched(all, OnSlots(all, data.ok))
      BY <1>2, <2>4, <3>4, SlotsFetched
    <3> QED BY <1>1, <2>5, <2>6, <3>4, <3>5
  <2>7. ASSUME c.at + 1 < data.max PROVE Yields(z, p, du)
    <3>1. f \in Command
      <4>3. c.at + 1 \in Nat /\ data.max \in SlotCounts
        BY <2>0, <2>2
      <4>4. c.at + 1 \in SlotNumbers
        BY <2>7, <4>3, SlotFacts
      <4> QED BY <1>11, <2>2, <4>4, NextOf
    <3>2. f.kind = "slots" /\ f.at = c.at + 1 /\ f.data = data
      BY <1>11, CommandIs
    <3> HIDE DEF f
    <3>3. ReadSure(f, p, du) /\ ChoiceSure(f, p, time, du)
      BY <2>2, <2>3, <3>2 DEF ReadSure, ChoiceSure
    <3>4. y.events = events /\ y.send = Append(<<>>, f)
      BY <1>0 DEF WOk, WFields
    <3> HIDE DEF y
    <3>5. <<>> \in Seq(Command)
      OBVIOUS
    <3>6. Sure(y.send, p, time, du)
      BY <1>e, <3>1, <3>3, <3>4, <3>5, SureAppended
    <3> QED BY <1>11, <2>5, <2>7, <3>4, <3>6 DEF Yields
  <2> QED BY <2>6, <2>7 DEF z, w
<1>12. CASE c.kind = "slot"
  <2>1. InFlight(w, c) => Fetched(w, OnSlot(w, ok, v))
    BY <1>2, <1>3, <1>12, SlotFetched
  <2>2. z = IF InFlight(w, c) THEN OnSlot(w, ok, v) ELSE w
    BY <1>12 DEF z, Done, SlotDone
  <2> QED BY <1>1, <1>3, <1>12, <2>1, <2>2 DEF z, w
<1>13. CASE c.kind = "event"
  <2> DEFINE y == Commit(w)
             x == IF y.events.known THEN [y EXCEPT !.events.held = Recached(@, c.data.ev)] ELSE y
  <2>0. c.data.ev \in Event /\ c.data.ev.index = c.at /\ c.at \in SlotNumbers
    BY <1>13, CommandIs
  <2>1. y \in World /\ y.op = op /\ y.events = events
    BY <1>0, CommitTyped
  <2>2. Sure(y.send, p, time, du)
    BY <1>0, SureCommit
  <2> HIDE DEF y
  <2>3. /\ x \in World /\ x.op = op /\ x.send = y.send
        /\ y.events.known => x.events.held = Recached(y.events.held, c.data.ev)
        /\ x.events.known = y.events.known
    <3>1. CASE ~y.events.known
      BY <2>1, <3>1
    <3>2. CASE y.events.known
      <4> DEFINE held == Recached(y.events.held, c.data.ev)
                 e == [y.events EXCEPT !.held = held]
      <4>1. y.events \in [known : {TRUE}, held : Seq(CachedEvent)]
        BY <2>1, <3>2, Fields, Known DEF EventCaches
      <4>2. held \in Seq(CachedEvent)
        BY <2>0, <4>1, RecachedTyped
      <4> HIDE DEF held
      <4>3. e \in EventCaches /\ e.held = held /\ e.known
        BY <4>1, <4>2 DEF EventCaches
      <4> HIDE DEF e
      <4>4. LET u == [y EXCEPT !.events = e]
            IN  u \in World /\ u.op = y.op /\ u.events = e /\ u.send = y.send
        BY <2>1, <4>3 DEF World
      <4>5. x = [y EXCEPT !.events = e]
        BY <2>1, <3>2 DEF World, e, held
      <4> HIDE DEF x
      <4>6. x \in World /\ x.op = y.op /\ x.events = e /\ x.send = y.send
        BY <4>4, <4>5
      <4>7. e.held = Recached(y.events.held, c.data.ev)
        BY <4>3 DEF held
      <4>8. e.known = y.events.known
        BY <4>1, <4>3
      <4> QED BY <2>1, <4>6, <4>7, <4>8
    <3> QED BY <3>1, <3>2
  <2>4. CacheSure(x.events, p, du)
    <3> HIDE DEF x
    <3> SUFFICES ASSUME x.events.known PROVE Shown(x.events.held, EventCount, p, du)
      BY DEF CacheSure
    <3>1. y.events.held \in Seq(CachedEvent)
      BY <2>1, <2>3, HeldIs
    <3>2. Shown(y.events.held, EventCount, p, du \cup {c.at})
      BY <1>13, <2>1, <2>3 DEF CacheSure
    <3> DEFINE ev == c.data.ev
               h == y.events.held
    <3>3. /\ h \in Seq(CachedEvent) /\ ev \in Event /\ Shown(h, EventCount, p, du \cup {ev.index})
          /\ ev.index < PumpSlots /\ ev.index \notin du => p.events[ev.index] = ev
      BY <1>13, <2>0, <3>1, <3>2
    <3>4. x.events.held = Recached(h, ev)
      BY <2>3
    <3> HIDE DEF ev, h
    <3> QED BY <3>3, <3>4, RecachedShown
  <2>5. z = IF InFlight(x, c) THEN Phase(x, "due") ELSE x
    BY <1>13 DEF z, Done, EventDone, x, y
  <2> HIDE DEF x
  <2>6. G(x)
    BY <1>4, <2>2, <2>3, <2>4 DEF Yields
  <2>7. InFlight(x, c) => Fetched(x, Phase(x, "due"))
    BY <1>2, <2>6, StillFetched
  <2> QED BY <1>1, <2>5, <2>6, <2>7 DEF z, w
<1>14. CASE c.kind = "commit"
  <2>1. z = w
    BY <1>14 DEF z, Done
  <2> QED BY <1>3, <1>14, <2>1 DEF z, w
<1> QED
  BY <1>6, <1>7, <1>8, <1>9, <1>10, <1>11, <1>12, <1>13, <1>14, CommandIs DEF CommandKinds

\* What becomes of the doubt about the slot of an event's write that ends.
LEMMA Vouched ==
  ASSUME TypeOK, queue # <<>>, NEW c, c = Head(queue), NEW p, Vouch(c, p), p = pump \/ p = Effect(c)
  PROVE  /\ c.kind # "event" => doubt' = doubt /\ p.events = pump.events
         /\ c.kind = "event" =>
              /\ Same(pump, doubt, p, doubt' \cup {c.at})
              /\ c.at \notin doubt' =>
                   /\ p.events[c.at] = c.data.ev
                   /\ \A i \in 1..Len(Tail(queue)) :
                        /\ Tail(queue)[i].kind # "slots"
                        /\ Tail(queue)[i].kind = "event" => Tail(queue)[i].at # c.at
<1>1. pump \in Programs /\ queue \in Seq(Command) /\ PumpSlots \in Nat
  BY CountFacts DEF TypeOK
<1>2. ASSUME c.kind # "event" PROVE doubt' = doubt /\ p.events = pump.events
  BY <1>1, <1>2, EffectFacts DEF Vouch
<1>3. ASSUME c.kind = "event", NEW s \in Nat, s < PumpSlots, s \notin doubt' \cup {c.at}
      PROVE  s \notin doubt /\ p.events[s] = pump.events[s]
  <2>1. s \in 0..(PumpSlots - 1)
    BY <1>1, <1>3
  <2>2. p.events[s] = pump.events[s]
    BY <1>1, <1>3, <2>1, EffectFacts
  <2>3. doubt' = doubt \ {c.at} \/ doubt' = doubt \cup {c.at}
    BY <1>3 DEF Vouch
  <2> QED BY <1>3, <2>2, <2>3
<1>4. ASSUME c.kind = "event", c.at \notin doubt'
      PROVE  /\ p.events[c.at] = c.data.ev
             /\ \A i \in 1..Len(Tail(queue)) :
                  /\ Tail(queue)[i].kind # "slots"
                  /\ Tail(queue)[i].kind = "event" => Tail(queue)[i].at # c.at
  <2>1. /\ p.events[c.at] = c.data.ev
        /\ \A i \in 2..Len(queue) : /\ queue[i].kind # "slots"
                                    /\ queue[i].kind = "event" => queue[i].at # c.at
    BY <1>4 DEF Vouch
  <2>2. \A i \in 1..Len(Tail(queue)) : Tail(queue)[i] = queue[i + 1] /\ i + 1 \in 2..Len(queue)
    BY <1>1
  <2> QED BY <2>1, <2>2
<1> QED BY <1>2, <1>3, <1>4 DEF Same

\* What is queued behind a write of an event, when it ends.
LEMMA SureBehind ==
  ASSUME NEW q, NEW p, NEW t, NEW du, NEW s, Sure(q, p, t, du \cup {s}),
         s \notin du => \A i \in 1..Len(q) : /\ q[i].kind # "slots"
                                             /\ q[i].kind = "event" => q[i].at # s
  PROVE  Sure(q, p, t, du)
<1>1. CASE s \in du
  <2>1. du \cup {s} = du
    BY <1>1
  <2> QED BY <2>1
<1>2. CASE s \notin du
  <2>1. \A i \in 1..Len(q) : ReadSure(q[i], p, du)
    BY <1>2 DEF ReadSure
  <2>2. ASSUME NEW i \in 1..Len(q) PROVE ChoiceSure(q[i], p, t, du)
    BY <1>2 DEF Sure, ChoiceSure
  <2> QED BY <2>1, <2>2 DEF Sure
<1> QED BY <1>1, <1>2

\* The oldest command ends.
LEMMA EndKept ==
  ASSUME SlotsAssumption, TInv, KeptInv, queue # <<>>, NEW c, c = Head(queue), NEW ok \in BOOLEAN, NEW v,
         End(c, ok, v), ok => Brings(c, v), time' = time, pump' = pump \/ pump' = Effect(c),
         c.kind # "event" => Same(pump, doubt, pump', doubt'),
         c.kind = "event" =>
           /\ Same(pump, doubt, pump', doubt' \cup {c.at})
           /\ c.at \notin doubt' =>
                /\ pump'.events[c.at] = c.data.ev
                /\ \A i \in 1..Len(Tail(queue)) :
                     /\ Tail(queue)[i].kind # "slots"
                     /\ Tail(queue)[i].kind = "event" => Tail(queue)[i].at # c.at,
         c.kind = "slots" /\ ok /\ c.at < PumpSlots /\ c.at \notin doubt' => v = pump'.events[c.at]
  PROVE  KeptInv'
<1> DEFINE x == Done(Here, c, ok, v)
           r == Tail(queue)
           p == pump'
           du == doubt'
<1>1. /\ c \in Command /\ pump \in Programs /\ p \in Programs
      /\ queue \in Seq(Command) /\ r \in Seq(Command) /\ time \in 1..MaxTime /\ time \in Nat
  <2>1. c \in Command /\ r \in Seq(Command) /\ Effect(c) \in Programs
    BY OldestTyped DEF TInv
  <2>2. pump \in Programs /\ queue \in Seq(Command) /\ time \in 1..MaxTime
    BY DEF TInv, TypeOK
  <2> QED BY <2>1, <2>2
<1>2. op.phase # "done" /\ c.seq = op.seq => op.phase # "due" /\ OwnOk(op, c)
  BY TailOk DEF TInv, IInv
<1>3. Proper(Here) /\ WOk(Here)
  <2>1. WOk(Here)
    BY DEF TInv, IInv, WOk, Here, WFields
  <2> QED BY <2>1, KernelHere DEF TInv
<1>4. PICK w \in {x} : Take(w) /\ queue' = r \o w.send
  BY DEF End
<1>5. CacheSure(events, pump, doubt) /\ Sure(r, pump, time, doubt) /\ ReadSure(c, pump, doubt)
  BY <1>1, SureTail DEF KeptInv
<1> HIDE DEF x, r
<1>6. /\ CacheSure(events, p, IF c.kind = "event" THEN du \cup {c.at} ELSE du)
      /\ Sure(r, p, time, du) /\ ReadSure(c, p, du)
  <2>1. CASE c.kind # "event"
    <3> HIDE DEF p, du
    <3>1. Same(pump, doubt, p, du) /\ time <= time
      BY <1>1, <2>1 DEF p, du
    <3>2. CacheSure(events, p, du) /\ Sure(r, p, time, du)
      BY <1>1, <1>5, <3>1, StaySure
    <3>3. ReadSure(c, p, du)
      BY <1>5, <3>1, ShownOn DEF ReadSure, Found
    <3> QED BY <2>1, <3>2, <3>3
  <2>2. CASE c.kind = "event"
    <3> HIDE DEF p
    <3> DEFINE du1 == du \cup {c.at}
    <3>1. Same(pump, doubt, p, du1) /\ time <= time
      BY <1>1, <2>2 DEF p
    <3> HIDE DEF du1
    <3>2. CacheSure(events, p, du1) /\ Sure(r, p, time, du1)
      BY <1>1, <1>5, <3>1, StaySure
    <3>3. Sure(r, p, time, du)
      <4> DEFINE s == c.at
      <4>1. Sure(r, p, time, du \cup {s})
        BY <3>2 DEF du1
      <4>2. s \notin du => \A i \in 1..Len(r) : r[i].kind # "slots" /\ (r[i].kind = "event" => r[i].at # s)
        BY <2>2 DEF r
      <4> HIDE DEF s, du
      <4> QED BY <4>1, <4>2, SureBehind
    <3>4. ReadSure(c, p, du)
      BY <2>2 DEF ReadSure
    <3> QED BY <2>2, <3>2, <3>3, <3>4 DEF du1
  <2> QED BY <2>1, <2>2
<1>7. Yields(x, p, du)
  <2>1. /\ c.kind = "slots" /\ ok /\ c.at < PumpSlots /\ c.at \notin du => v = p.events[c.at]
        /\ c.kind = "event" /\ c.at < PumpSlots /\ c.at \notin du => p.events[c.at] = c.data.ev
    OBVIOUS
  <2> HIDE DEF p, du
  <2> QED BY <1>1, <1>2, <1>3, <1>6, <2>1, DoneSure DEF x
<1>8. x.send \in Seq(Command)
  <2>1. Proper(x)
    BY <1>1, <1>2, <1>3, DoneTyped DEF x
  <2> QED BY <2>1, Fields DEF Proper
<1>9. Sure(r \o x.send, p, time, du)
  <2> DEFINE s == x.send
  <2>1. Sure(s, p, time, du) /\ s \in Seq(Command)
    BY <1>7, <1>8 DEF Yields
  <2> HIDE DEF s, p, du
  <2>2. Sure(r \o s, p, time, du)
    BY <1>1, <1>6, <2>1, SureJoined
  <2> QED BY <2>2 DEF s
<1>10. events' = x.events /\ queue' = r \o x.send
  BY <1>4 DEF Take
<1> QED BY <1>7, <1>9, <1>10 DEF KeptInv, Yields

\* A reply that is the slot's own.
LEMMA SlotTold ==
  ASSUME TInv, queue # <<>>, NEW c, c = Head(queue), c.kind = "slots", Has(c)
  PROVE  Received(c, Reply(c)) = Effect(c).events[c.at]
<1>1. c \in Command /\ pump \in Programs
  BY OldestTyped DEF TInv, TypeOK
<1>2. c.at \in SlotNumbers /\ c.at < PumpSlots /\ Typed(c) = "slot"
  BY <1>1, CommandIs DEF Has, Typed
<1>3. c.at \in 0..(PumpSlots - 1)
  <2>1. c.at \in Nat /\ PumpSlots \in Nat
    BY <1>2, SlotFacts, CountFacts
  <2> QED BY <1>2, <2>1
<1> DEFINE e == pump.events[c.at]
<1>4. e \in Event /\ e.index = c.at
  BY <1>1, <1>3 DEF Programs, PumpEvents
<1>5. Received(c, Reply(c)) = [e EXCEPT !.index = c.at] /\ Effect(c).events[c.at] = e
  BY <1>1, <1>2, EffectFacts DEF Received, Reply
<1> HIDE DEF e
<1>6. [e EXCEPT !.index = c.at] = e
  BY <1>4 DEF Event
<1> QED BY <1>5, <1>6

LEMMA AnsweredKept ==
  ASSUME SlotsAssumption, TInv, KeptInv, Answered
  PROVE  KeptInv'
<1> DEFINE c == Head(queue)
           v == IF IsRead(c) THEN Received(c, Reply(c)) ELSE NoData
<1>1. queue # <<>> /\ Has(c) /\ pump' = Effect(c) /\ Vouch(c, pump') /\ End(c, TRUE, v) /\ time' = time
  BY DEF Answered
<1>2. Brings(c, v)
  BY <1>1, OldestTyped DEF TInv, Brings, IsRead
<1>3. c.kind = "slots" => v = pump'.events[c.at]
  BY <1>1, SlotTold DEF IsRead
<1> HIDE DEF c, v
<1>4. c = Head(queue)
  BY DEF c
<1>5. Same(pump, doubt, pump', doubt') \/ c.kind = "event"
  BY <1>1, <1>4, Vouched DEF Same, TInv
<1>6. /\ c.kind # "event" => Same(pump, doubt, pump', doubt')
      /\ c.kind = "event" =>
           /\ Same(pump, doubt, pump', doubt' \cup {c.at})
           /\ c.at \notin doubt' =>
                /\ pump'.events[c.at] = c.data.ev
                /\ \A i \in 1..Len(Tail(queue)) :
                     /\ Tail(queue)[i].kind # "slots"
                     /\ Tail(queue)[i].kind = "event" => Tail(queue)[i].at # c.at
  <2>1. TypeOK
    BY DEF TInv
  <2> QED BY <1>1, <1>4, <1>5, <2>1, Vouched
<1> QED BY <1>1, <1>2, <1>3, <1>4, <1>6, EndKept

LEMMA UnansweredKept ==
  ASSUME SlotsAssumption, TInv, KeptInv, Lost \/ Unheard \/ Ignored
  PROVE  KeptInv'
<1> DEFINE c == Head(queue)
<1>1. /\ queue # <<>> /\ Vouch(c, pump') /\ time' = time /\ (pump' = pump \/ pump' = Effect(c))
      /\ \E ok \in BOOLEAN : End(c, ok, NoData) /\ (ok => ~IsRead(c))
  BY DEF Lost, Unheard, Ignored
<1>2. PICK ok \in BOOLEAN : End(c, ok, NoData) /\ (ok => ~IsRead(c))
  BY <1>1
<1>3. /\ ok => Brings(c, NoData)
      /\ c.kind = "slots" => ~ok
  BY <1>2 DEF Brings, IsRead
<1> HIDE DEF c
<1>4. c = Head(queue)
  BY DEF c
<1>5. Same(pump, doubt, pump', doubt') \/ c.kind = "event"
  BY <1>1, <1>4, Vouched DEF Same, TInv
<1>6. /\ c.kind # "event" => Same(pump, doubt, pump', doubt')
      /\ c.kind = "event" =>
           /\ Same(pump, doubt, pump', doubt' \cup {c.at})
           /\ c.at \notin doubt' =>
                /\ pump'.events[c.at] = c.data.ev
                /\ \A i \in 1..Len(Tail(queue)) :
                     /\ Tail(queue)[i].kind # "slots"
                     /\ Tail(queue)[i].kind = "event" => Tail(queue)[i].at # c.at
  <2>1. TypeOK
    BY DEF TInv
  <2> QED BY <1>1, <1>4, <1>5, <2>1, Vouched
<1> QED BY <1>1, <1>2, <1>3, <1>4, <1>6, EndKept

LEMMA MisansweredKept ==
  ASSUME SlotsAssumption, TInv, KeptInv, Misanswered
  PROVE  KeptInv'
<1> DEFINE c == Head(queue)
<1>1. PICK i \in Overdue(c) : End(c, TRUE, Received(c, late[i].value))
  BY DEF Misanswered
<1> DEFINE v == Received(c, late[i].value)
<1>2. /\ queue # <<>> /\ IsRead(c) /\ time' = time /\ pump' = pump
      /\ doubt' = doubt \cup IF Typed(c) = "slot" THEN {c.at} ELSE {}
  BY DEF Misanswered
<1>3. Brings(c, v)
  BY <1>2, LateTyped
<1>4. c.kind # "event" /\ (c.kind = "slots" => c.at \in doubt')
  BY <1>2 DEF IsRead, Typed
<1> HIDE DEF c, v
<1>5. c = Head(queue) /\ End(c, TRUE, v)
  BY <1>1 DEF c, v
<1>6. Same(pump, doubt, pump', doubt')
  BY <1>2 DEF Same
<1> QED BY <1>2, <1>3, <1>4, <1>5, <1>6, EndKept

LEMMA SubmitKept ==
  ASSUME TInv, KeptInv, NEW r \in Requests, Submit(r)
  PROVE  KeptInv'
<1> DEFINE f == [Here EXCEPT !.op = Fresh(r)]
<1>1. /\ f \in World /\ f.op = Fresh(r) /\ f.send = <<>> /\ f.overview = overview /\ f.events = events
      /\ f.op.req = r /\ f.op.cmd = r.cmd /\ f.op.phase = "start" /\ f.op.at = 0
      /\ ~Invalid(r) => Ready(f)
  BY Begun
<1> HIDE DEF f
<1>2. Framed(f) /\ (f.op.cmd = "set_event" => f.op.slot = f.op.req.slot)
  <2>1. Fresh(r).slot = IF r.cmd \in {"set_event", "clear_event"} THEN r.slot ELSE NoSlot
    BY DEF Fresh, NoOperation
  <2>2. DOMAIN f = WFields /\ DOMAIN f.op = OpFields
    BY <1>1 DEF World, WFields, Operations, OpFields
  <2> QED BY <1>1, <2>1, <2>2 DEF Framed
<1>3. PICK w \in {IF link /\ overview.known THEN Begin(f) ELSE Finish(f, "rejected")} :
        Take(w) /\ queue' = queue \o w.send
  BY DEF Submit, f
<1>4. Fetched(f, w)
  BY <1>2, <1>3, BeginFetched, StillFetched
<1>5. w \in World
  <2>1. \A s \in Statuses : Finish(f, s) \in World
    BY <1>1, FinishTyped
  <2>2. ASSUME ~Invalid(r) PROVE Begin(f) \in World
    <3>1. Ready(f) /\ f.op.at \in Layers /\ time \in 1..MaxTime
      BY <1>1, <2>2, Constants DEF TInv, TypeOK
    <3>2. Proper(AfterOverview(f)) /\ Proper(ReadGrid(f))
      BY <1>1, <3>1, AfterOverviewTyped, GridTyped
    <3> QED BY <1>1, <2>2, <3>2 DEF Begin, Proper
  <2>3. Invalid(r) => Begin(f) = Finish(f, "invalid")
    BY <1>1 DEF Begin
  <2> QED BY <1>3, <2>1, <2>2, <2>3 DEF Statuses
<1>6. /\ UNCHANGED <<time, pump, doubt>> /\ pump \in Programs /\ queue \in Seq(Command)
      /\ time \in Nat /\ CacheSure(events, pump, doubt) /\ Sure(queue, pump, time, doubt)
  BY DEF Submit, TInv, TypeOK, KeptInv
<1>7. CacheSure(w.events, pump, doubt) /\ Sure(w.send, pump, time, doubt)
  <2>1. CacheSure(f.events, pump, doubt) /\ Sure(f.send, pump, time, doubt)
    <3>1. Sure(<<>>, pump, time, doubt)
      BY SurePlain
    <3> QED BY <1>1, <1>6, <3>1
  <2> QED BY <1>1, <1>4, <1>5, <1>6, <2>1, FetchedSure
<1>8. Sure(queue \o w.send, pump, time, doubt)
  <2> DEFINE s == w.send
  <2>1. s \in Seq(Command) /\ Sure(s, pump, time, doubt)
    BY <1>5, <1>7, Fields
  <2> HIDE DEF s
  <2>2. Sure(queue \o s, pump, time, doubt)
    BY <1>6, <2>1, SureJoined
  <2> QED BY <2>2 DEF s
<1> QED BY <1>3, <1>6, <1>7, <1>8 DEF KeptInv, Take

LEMMA ConfirmDueKept ==
  ASSUME TInv, KeptInv, ConfirmDue
  PROVE  KeptInv'
<1> DEFINE w == Here
           x == Confirm(w)
<1>1. WOk(w) /\ w.op = op /\ op.phase = "due" /\ w.events = events /\ w.send = <<>> /\ w \in World
  <2>1. WOk(w)
    BY DEF TInv, IInv, WOk, Here, WFields
  <2> QED BY <2>1, KernelHere DEF TInv, ConfirmDue, Here, Proper
<1>2. x \in World /\ Fetched(w, x)
  <2>1. Ready(w)
    BY <1>1, KernelHere DEF TInv, Ready
  <2>2. Proper(x)
    BY <1>1, <2>1, ConfirmTyped
  <2> QED BY <1>1, <2>2, ConfirmFetched DEF Proper
<1>3. Take(x) /\ queue' = queue \o x.send
  BY DEF ConfirmDue
<1>4. /\ UNCHANGED <<time, pump, doubt>> /\ pump \in Programs /\ queue \in Seq(Command)
      /\ time \in Nat /\ CacheSure(events, pump, doubt) /\ Sure(queue, pump, time, doubt)
  BY DEF ConfirmDue, TInv, TypeOK, KeptInv, history
<1> HIDE DEF w, x
<1>5. CacheSure(x.events, pump, doubt) /\ Sure(x.send, pump, time, doubt)
  <2>1. CacheSure(w.events, pump, doubt) /\ Sure(w.send, pump, time, doubt)
    <3>1. Sure(<<>>, pump, time, doubt)
      BY SurePlain
    <3> QED BY <1>1, <1>4, <3>1
  <2> QED BY <1>1, <1>2, <1>4, <2>1, FetchedSure
<1>6. Sure(queue \o x.send, pump, time, doubt)
  <2> DEFINE s == x.send
  <2>1. s \in Seq(Command) /\ Sure(s, pump, time, doubt)
    BY <1>2, <1>5, Fields
  <2> HIDE DEF s
  <2>2. Sure(queue \o s, pump, time, doubt)
    BY <1>4, <2>1, SureJoined
  <2> QED BY <2>2 DEF s
<1> QED BY <1>3, <1>4, <1>5, <1>6 DEF KeptInv, Take

LEMMA BackgroundKept ==
  ASSUME TInv, KeptInv, Poll \/ Reread
  PROVE  KeptInv'
<1>1. PICK e : queue' = Append(queue, e) /\ e.kind \in {"poll", "slots", "layers"}
                 /\ (e.kind = "slots" => e.at = 0 /\ e.data.got = <<>>)
  <2>1. \A kind, data : Background(kind, data) /\ kind \in {"poll", "slots", "layers"}
                          /\ (kind = "slots" => data.got = <<>>) =>
          \E e : queue' = Append(queue, e) /\ e.kind \in {"poll", "slots", "layers"}
                   /\ (e.kind = "slots" => e.at = 0 /\ e.data.got = <<>>)
    BY DEF Background
  <2> QED BY <2>1 DEF Poll, Reread
<1>2. UNCHANGED <<events, time, pump, doubt>> /\ queue \in Seq(Command) /\ queue' \in Seq(Command)
  <2>1. queue' \in Seq(Command)
    BY BackgroundTyped DEF TypeOK
  <2> QED BY <2>1 DEF Poll, Reread, caches, history, TInv, TypeOK
<1>3. e \in Command
  <2>1. Len(queue') = Len(queue) + 1 /\ queue'[Len(queue) + 1] = e /\ Len(queue) \in Nat
    BY <1>1, <1>2
  <2>2. Len(queue) + 1 \in DOMAIN queue'
    BY <1>2, <2>1
  <2> QED BY <1>2, <2>1, <2>2
<1>4. ReadSure(e, pump, doubt) /\ ChoiceSure(e, pump, time, doubt)
  BY <1>1, SureStart DEF ChoiceSure
<1>5. Sure(Append(queue, e), pump, time, doubt)
  BY <1>2, <1>3, <1>4, SureAppended DEF KeptInv
<1> QED BY <1>1, <1>2, <1>5 DEF KeptInv

LEMMA ControlCommitKept ==
  ASSUME TInv, KeptInv, ControlCommit
  PROVE  KeptInv'
<1> DEFINE w == Here
           x == Commit(w)
<1>1. WOk(w) /\ w.send = <<>> /\ w.events = events /\ w \in World
  <2>1. WOk(w)
    BY DEF TInv, IInv, WOk, Here, WFields
  <2> QED BY <2>1, KernelHere DEF TInv, Here, Proper
<1>2. Take(x) /\ queue' = queue \o x.send /\ UNCHANGED <<time, pump, doubt>> /\ queue \in Seq(Command)
  BY DEF ControlCommit, history, TInv, TypeOK
<1> HIDE DEF w
<1>3. x.events = events /\ x.send \in Seq(Command)
  BY <1>1, CommitTyped, Fields
<1> DEFINE s == x.send
<1>5. s \in Seq(Command) /\ Sure(s, pump, time, doubt)
  BY <1>1, <1>3, SureCommit
<1> HIDE DEF s
<1>6. Sure(queue \o s, pump, time, doubt)
  BY <1>2, <1>5, SureJoined DEF KeptInv
<1> QED BY <1>2, <1>3, <1>6 DEF KeptInv, Take, s

LEMMA AppKept ==
  ASSUME TInv, KeptInv, App
  PROVE  KeptInv'
<1>1. pump \in Programs /\ time \in Nat /\ queue \in Seq(Command) /\ time <= time
  BY DEF TInv, TypeOK
<1>2. UNCHANGED <<events, queue, time>>
  BY DEF App, caches
<1>3. Same(pump, doubt, pump', doubt')
  <2>1. DOMAIN pump = {"on", "stop", "grid", "events"} /\ pump.events \in [0..(PumpSlots - 1) -> Event]
    BY <1>1 DEF Programs, PumpEvents
  <2>2. CASE pump'.events = pump.events /\ doubt' = doubt
    BY <2>2 DEF Same
  <2>3. ASSUME NEW s \in 0..(PumpSlots - 1), NEW p \in InitialPumps,
               pump' = [pump EXCEPT !.events[s] = p.events[s]], doubt' = doubt \cup {s}
        PROVE  Same(pump, doubt, pump', doubt')
    <3>1. \A n \in 0..(PumpSlots - 1) : n # s => pump'.events[n] = pump.events[n]
      BY <2>1, <2>3
    <3>2. \A n \in Nat : n < PumpSlots => n \in 0..(PumpSlots - 1)
      BY CountFacts
    <3> QED BY <2>3, <3>1, <3>2 DEF Same
  <2> QED BY <2>1, <2>2, <2>3 DEF App
<1>4. CacheSure(events, pump', doubt') /\ Sure(queue, pump', time, doubt')
  BY <1>1, <1>3, StaySure DEF KeptInv
<1> QED BY <1>2, <1>4 DEF KeptInv

LEMMA DropKept ==
  ASSUME Drop
  PROVE  KeptInv'
<1>1. Sure(<<>>, pump', time', doubt')
  BY SurePlain
<1>2. events' = Unread /\ queue' = <<>>
  BY DEF Drop
<1> QED BY <1>1, <1>2 DEF KeptInv, CacheSure, Unread

LEMMA TickKept ==
  ASSUME TInv, KeptInv, Tick
  PROVE  KeptInv'
<1>1. pump \in Programs /\ time \in Nat /\ time' \in Nat /\ time <= time' /\ queue \in Seq(Command)
  BY DEF TInv, TypeOK, Tick
<1>2. UNCHANGED <<events, queue, pump, doubt>>
  BY DEF Tick, caches, history
<1>3. Same(pump, doubt, pump, doubt)
  BY DEF Same
<1>4. CacheSure(events, pump, doubt) /\ Sure(queue, pump, time', doubt)
  BY <1>1, <1>3, StaySure DEF KeptInv
<1> QED BY <1>2, <1>4 DEF KeptInv

LEMMA KeptSteps == SlotsAssumption /\ TInv /\ KeptInv /\ [Next]_vars => KeptInv'
<1> SUFFICES ASSUME SlotsAssumption, TInv, KeptInv, [Next]_vars PROVE KeptInv'
  OBVIOUS
<1>1. CASE Watchdog
  <2>1. Finish(Here, "timeout").events = events
    <3>1. Here \in World
      BY KernelHere DEF TInv, Proper
    <3> QED BY <3>1 DEF Finish, World, Here
  <2>2. UNCHANGED <<events, queue, pump, time, doubt>>
    BY <1>1, <2>1 DEF Watchdog, Take, history
  <2> QED BY <2>2 DEF KeptInv
<1>2. CASE LateDropped \/ Reconnect \/ UNCHANGED vars
  <2>1. UNCHANGED <<events, queue, pump, time, doubt>>
    BY <1>2 DEF LateDropped, Reconnect, vars, caches, history
  <2> QED BY <2>1 DEF KeptInv
<1> QED
  BY <1>1, <1>2, SubmitKept, ConfirmDueKept, BackgroundKept, ControlCommitKept, AnsweredKept,
     UnansweredKept, MisansweredKept, AppKept, DropKept, TickKept DEF Next

LEMMA KeptAlways ==
  ASSUME SlotsAssumption
  PROVE  Spec => [](TInv /\ KeptInv)
<1>1. Init => TInv /\ KeptInv
  <2>1. Init => Sure(queue, pump, time, doubt) /\ ~events.known
    <3>1. Sure(<<>>, pump, time, doubt)
      BY SurePlain
    <3> QED BY <3>1 DEF Init, Unread
  <2> QED BY <2>1, TypedFirst, Initially DEF TInv, KeptInv, CacheSure
<1>2. TInv /\ KeptInv /\ [Next]_vars => (TInv /\ KeptInv)'
  BY TypedSteps, Steps, KeptSteps DEF TInv
<1> QED BY <1>1, <1>2, PTL DEF Spec

\* The event that the oldest command overwrites was chosen as no live one.
LEMMA ChosenIsOver ==
  ASSUME TInv, KeptInv, NEW s \in 0..(PumpSlots - 1), Overwrites(s), s \notin doubt
  PROVE  ~Live(pump.events[s])
<1> DEFINE c == Head(queue)
<1>1. queue \in Seq(Command) /\ queue # <<>> /\ c.kind = "event" /\ c.data.chosen /\ c.at = s
  BY DEF Overwrites, TInv, TypeOK
<1>2. ChoiceSure(c, pump, time, doubt)
  BY <1>1, SureTail DEF KeptInv
<1> HIDE DEF c
<1>3. s < PumpSlots
  BY CountFacts
<1> QED BY <1>1, <1>2, <1>3 DEF ChoiceSure, Live

\* A slot the code chose for a new event holds no live one, however reads,
\* writes, timers and faults interleave: but for slots nobody can vouch for, and
\* on pumps with no more events than are read while the overview is unknown.
\* (find_free_single_event_slot, read_single_events_async,
\* write_single_event_async).
THEOREM KnownEventsKeptAlways ==
  ASSUME SlotsAssumption
  PROVE  Spec => KnownEventsKept
<1>1. TInv /\ KeptInv /\ [Next]_vars =>
        [\A s \in 0..(PumpSlots - 1) :
           Overwrites(s) /\ s \notin doubt => ~Live(pump.events[s])]_vars
  BY ChosenIsOver
<1>2. Spec => [](TInv /\ KeptInv)
  BY KeptAlways
<1> QED BY <1>1, <1>2, PTL DEF Spec, KnownEventsKept
=============================================================================
