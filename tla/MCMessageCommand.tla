-------------------------- MODULE MCMessageCommand --------------------------
(***************************************************************************)
(* MessageCommand on a small instance: one thing goes wrong in a behaviour, *)
(* and where two commands meet it is a fault: readiness is lost before.     *)
(***************************************************************************)
EXTENDS MessageCommand

CONSTANT Second  \* the worker that takes a job only while the other one has one

Alone == \E c \in Commands : \A d \in Commands \ {c} : cstatus[d] = "absent"

Wanted ==
  /\ (faults + lost + remote + restores)' <= 1
  /\ Alone' \/ ((lost + remote + restores)' = 0 /\ ready' = ready)
  /\ pc[Second] = "idle" /\ pc'[Second] # "idle" => \E w \in Workers : pc[w] # "idle"

BoundedNext == Next /\ Wanted
BoundedFairSpec == Init /\ [][BoundedNext]_vars /\ Fairness
=============================================================================
