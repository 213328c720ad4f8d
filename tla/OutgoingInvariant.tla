------------------------- MODULE OutgoingInvariant --------------------------
(***************************************************************************)
(* Why OutgoingMessage is correct: the inductive invariant behind its      *)
(* safety properties, and the mapping under which it implements            *)
(* AtMostOnceSend.                                                         *)
(***************************************************************************)
EXTENDS OutgoingMessage

\* A pending message of the promise is queued or sending.
Phase(s) == IF s \in {"queued", "sending"} THEN "pending" ELSE s

Promise == INSTANCE AtMostOnceSend
  WITH phase <- [m \in Messages |-> Phase(status[m])], delivered <- accepted

\* The row implements the promise: every step of every thread is a step of
\* AtMostOnceSend or changes nothing in it.
ImplementsPromise == Promise!Spec

-----------------------------------------------------------------------------
Holding == WorkerPCs \ {"resolve", "lock"}

\* A thread that works knows its message.
Employed ==
  \A t \in Threads : pc[t] \in WorkerPCs \cup {"recover", "release"} => job[t] \in Messages

\* Only handlers deliver; the poller never does.
PollerNeverDelivers == pc[Poller] \notin WorkerPCs

\* The claim is a compare-and-set on the row, so one thread at a time is
\* between its claim and its record of one message, with or without the lock.
OneDeliverer ==
  \A t, u \in Threads : Delivering(t) /\ Delivering(u) /\ job[t] = job[u] => t = u

\* That thread's message is sending, or was given up by a recovery after the
\* thread lost its session; its attempt is the row's last one.
DelivererOwnsRow ==
  \A t \in Threads : Delivering(t) =>
    /\ status[job[t]] \in {"sending", "uncertain"}
    /\ claim[t] = attempts[job[t]]

\* Where the thread is tells what the SMTP server saw.
DelivererKnows ==
  \A t \in Threads :
    /\ pc[t] = "verify" => submissions[job[t]] = 0 /\ accepted[job[t]] = 0
    /\ pc[t] = "submitted" => submissions[job[t]] = 1 /\ accepted[job[t]] = 0
    /\ pc[t] = "record" =>
         /\ result[t] # "none"
         /\ result[t] = "retryable" => submissions[job[t]] = 0
         /\ result[t] = "permanent" => accepted[job[t]] = 0
         /\ result[t] = "accepted" => accepted[job[t]] = 1

\* What the row alone tells.  A message that is `gone` is one that a restored backup
\* does not know: its row is absent, whatever was sent before.
RowTells(gone) ==
  \A m \in Messages :
    /\ accepted[m] <= submissions[m] /\ submissions[m] <= 1
    /\ status[m] \in {"absent", "queued"} => attempts[m] < MaxAttempts /\ (m \notin gone => submissions[m] = 0)
    /\ status[m] = "absent" => attempts[m] = 0
    /\ m \in gone => status[m] = "absent"
    /\ status[m] = "sent" => accepted[m] = 1
    /\ status[m] = "failed" => accepted[m] = 0

\* A thread past the lock has the lock, unless a session was lost; a lock has a
\* holder that works on that message.
LockProtects ==
  /\ lost = 0 => \A t \in Threads :
       pc[t] \in Holding \cup {"recover", "release"} => lock[job[t]] = t
  /\ \A m \in Messages : lock[m] # None =>
       job[lock[m]] = m /\ pc[lock[m]] \in Holding \cup {"recover", "release"}

IInvBut(gone) ==
  /\ TypeOK
  /\ Employed
  /\ PollerNeverDelivers
  /\ OneDeliverer
  /\ DelivererOwnsRow
  /\ DelivererKnows
  /\ RowTells(gone)
  /\ LockProtects
  /\ LiveAttemptStands

\* Without a restore no message is gone.
IInv == IInvBut({})
=============================================================================
