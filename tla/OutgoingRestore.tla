--------------------------- MODULE OutgoingRestore ---------------------------
(***************************************************************************)
(* Delivery across a backup and its restore.  The database goes back to    *)
(* the day of the backup, the mail that left since then does not come      *)
(* back: maintenance declares restored queued mail uncertain before the    *)
(* instance is opened again.                                               *)
(***************************************************************************)
EXTENDS OutgoingMessage

CONSTANT MaxRestores  \* bound: restores of the backup

RestoreAssumption == MaxRestores \in Nat

VARIABLES
  backup,   \* the tables as they were saved, or None
  used,     \* history: messages that existed when the database went back
  restores  \* restores so far

saved == <<row, jobs, copyJobs>>
rvars == <<vars, backup, used, restores>>

RInit == Init /\ backup = None /\ used = {} /\ restores = 0

\* One consistent dump, at any time.
Backup ==
  /\ backup = None
  /\ backup' = [status |-> status, attempts |-> attempts, due |-> due, copy |-> copy,
                jobs |-> jobs, copyJobs |-> copyJobs]
  /\ UNCHANGED <<vars, used, restores>>

\* What maintenance makes of the status of a restored message and of its copy.
FencedSending(s) == IF s = "sending" THEN "uncertain" ELSE s
Fenced(s) == IF s \in {"queued", "sending"} THEN "uncertain" ELSE s
FencedCopy(s) == IF s \in {"pending", "saving"} THEN "uncertain" ELSE s

\* With every process stopped: the dump is loaded and maintenance runs.
Restore ==
  /\ backup # None /\ restores < MaxRestores /\ restores' = restores + 1
  /\ \A t \in Threads : pc[t] = "idle"
  /\ status' = [m \in Messages |-> Fenced(backup.status[m])]
  /\ copy' = [m \in Messages |-> FencedCopy(backup.copy[m])]
  /\ attempts' = backup.attempts /\ due' = backup.due
  /\ jobs' = backup.jobs /\ copyJobs' = backup.copyJobs
  /\ used' = used \cup {m \in Messages : status[m] # "absent"}
  /\ UNCHANGED <<policy, usable, lock, pc, local, sweep, trouble, smtp, backup>>

\* Delivery goes on; an id that the restore forgot is random and never comes back.
Deliver ==
  /\ Next
  /\ \A m \in used : status[m] = "absent" => status'[m] = "absent"
  /\ UNCHANGED <<backup, used, restores>>

RNext == Deliver \/ Backup \/ Restore

RSpec == RInit /\ [][RNext]_rvars

-----------------------------------------------------------------------------
\* Only a restore takes a final outcome back, and then never to one from which
\* the message could be sent: a message that left the queue does not return to it.
NeverRequeued ==
  [][\A m \in Messages : status[m] \in Terminal => status'[m] \in Terminal \cup {"absent"}]_rvars
=============================================================================
