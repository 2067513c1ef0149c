---------------------------- MODULE WritePromise ----------------------------
(***************************************************************************)
(* What WriteOperationService promises its clients                          *)
(* (write_operation_service.h, "Invariants"), with nothing of how a write   *)
(* is carried out: one operation runs at a time, in submission order; a new *)
(* one replaces those still waiting for the same resource; each settles     *)
(* once, and one that has begun is never superseded.                        *)
(***************************************************************************)
EXTENDS Selection

CONSTANTS
  Ops,           \* identities of the operations
  Collides(_,_), \* do two operations write the same resource
  NoOp

VARIABLES
  waiting,  \* submitted, not begun, oldest first
  running,  \* the one in flight, or NoOp
  status    \* [Ops -> what each operation settled as]

vars == <<waiting, running, status>>

Unsettled == "none"
Verdicts  == {"accepted", "clamped", "rejected", "timeout"}
Waiting   == {waiting[i] : i \in 1..Len(waiting)}

Init ==
  /\ waiting = <<>> /\ running = NoOp
  /\ status = [o \in Ops |-> Unsettled]

Submit(o) ==
  LET Kept == {i \in 1..Len(waiting) : ~Collides(waiting[i], o)} IN
  /\ o \notin Waiting \cup {running} /\ status[o] = Unsettled
  /\ \E f \in Listings(Len(waiting), Kept) : waiting' = Append(Pick(waiting, f), o)
  /\ status' = [w \in Ops |-> IF w \in Waiting /\ Collides(w, o) THEN "superseded"
                              ELSE status[w]]
  /\ running' = running

Begin ==
  /\ running = NoOp /\ waiting # <<>>
  /\ running' = Head(waiting)
  /\ waiting' = Tail(waiting)
  /\ status' = status

\* Turned away before anything is sent.
Refuse ==
  /\ running = NoOp /\ waiting # <<>>
  /\ waiting' = Tail(waiting)
  /\ \E s \in {"rejected", "invalid"} : status' = [status EXCEPT ![Head(waiting)] = s]
  /\ running' = running

Settle ==
  /\ running # NoOp
  /\ \E s \in Verdicts : status' = [status EXCEPT ![running] = s]
  /\ running' = NoOp
  /\ waiting' = waiting

\* The link is gone: the one in flight times out, the others are refused.
Drop ==
  /\ status' = [o \in Ops |-> IF o = running THEN "timeout"
                              ELSE IF o \in Waiting THEN "rejected" ELSE status[o]]
  /\ running' = NoOp
  /\ waiting' = <<>>

Next == (\E o \in Ops : Submit(o)) \/ Begin \/ Refuse \/ Settle \/ Drop

Spec == Init /\ [][Next]_vars
=============================================================================
