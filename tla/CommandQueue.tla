---------------------------- MODULE CommandQueue ----------------------------
(***************************************************************************)
(* What the transport promises the services that queue commands            *)
(* (transport.h: send_command(), reset()), with nothing of how it keeps it: *)
(* commands end in the order they were queued, each one's caller is told    *)
(* once, a caller may queue its next command while it is being told, and    *)
(* only a queue given up as a whole leaves callers untold.                  *)
(***************************************************************************)
EXTENDS Naturals, Sequences

CONSTANTS
  Cmds,    \* identities of the commands
  Silent   \* those queued without a callback

VARIABLES
  pending,  \* queued and not yet ended, oldest first
  known,    \* ever queued
  told,     \* how often each command's caller was told of its end
  lost      \* given up without a word

vars == <<pending, known, told, lost>>

Members(s) == {s[i] : i \in 1..Len(s)}

Init ==
  /\ pending = <<>> /\ known = {} /\ lost = {}
  /\ told = [c \in Cmds |-> 0]

Queue(c) ==
  /\ c \notin known
  /\ pending' = Append(pending, c)
  /\ known' = known \cup {c}
  /\ UNCHANGED <<told, lost>>

\* The oldest command ends; its caller may queue the next one of its chain.
End(next) ==
  /\ pending # <<>>
  /\ Members(next) \subseteq Cmds \ known
  /\ Len(next) <= 1
  /\ Head(pending) \in Silent => next = <<>>
  /\ pending' = Tail(pending) \o next
  /\ known' = known \cup Members(next)
  /\ told' = IF Head(pending) \in Silent THEN told
             ELSE [told EXCEPT ![Head(pending)] = @ + 1]
  /\ lost' = lost

GiveUp ==
  /\ lost' = lost \cup Members(pending)
  /\ pending' = <<>>
  /\ UNCHANGED <<known, told>>

Next ==
  \/ \E c \in Cmds : Queue(c)
  \/ \E next \in {<<>>} \cup {<<c>> : c \in Cmds} : End(next)
  \/ GiveUp

Spec == Init /\ [][Next]_vars
=============================================================================
