--------------------------- MODULE AtMostOnceSend ---------------------------
(***************************************************************************)
(* What sending promises to the owner of a mailbox, without queue, locks   *)
(* or threads.  A message is delivered at most once; "sent" is only said   *)
(* of a delivered message, "failed" only of one that was not and never     *)
(* will be; when the truth is not known the message is "uncertain", for    *)
(* ever, and a delivery in flight may still arrive then.                   *)
(***************************************************************************)
EXTENDS Integers

CONSTANT Messages

VARIABLES phase, delivered

vars == <<phase, delivered>>

Init ==
  /\ phase = [m \in Messages |-> "absent"]
  /\ delivered = [m \in Messages |-> 0]

Say(m, from, to) == phase[m] = from /\ phase' = [phase EXCEPT ![m] = to]

\* The owner sends the message.
Accept(m) == Say(m, "absent", "pending") /\ UNCHANGED delivered

\* The message reaches the SMTP server.
Deliver(m) ==
  /\ phase[m] \in {"pending", "uncertain"}
  /\ delivered[m] = 0
  /\ delivered' = [delivered EXCEPT ![m] = 1]
  /\ UNCHANGED phase

Confirm(m) == delivered[m] = 1 /\ Say(m, "pending", "sent") /\ UNCHANGED delivered

Refuse(m) == delivered[m] = 0 /\ Say(m, "pending", "failed") /\ UNCHANGED delivered

GiveUp(m) == Say(m, "pending", "uncertain") /\ UNCHANGED delivered

Next ==
  \E m \in Messages : Accept(m) \/ Deliver(m) \/ Confirm(m) \/ Refuse(m) \/ GiveUp(m)

Spec == Init /\ [][Next]_vars
=============================================================================
