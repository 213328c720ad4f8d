--------------------------- MODULE OutgoingMessage ---------------------------
(***************************************************************************)
(* Delivery of outgoing mail: OutgoingMessageService (create, repair, run),*)
(* the pg-boss queue that feeds it, the PostgreSQL session advisory lock   *)
(* around one message, and the SMTP conversation of deliverMessage.        *)
(*                                                                         *)
(* A row of outgoing_messages is the only durable truth.  Jobs may be      *)
(* duplicated or lost, a worker may die anywhere, and the session that     *)
(* carries the lock may drop while SMTP is still talking.                  *)
(***************************************************************************)
EXTENDS Integers, FiniteSets

CONSTANTS
  Messages,      \* ids of outgoing_messages rows
  Workers,       \* concurrent job handlers (localConcurrency, processes)
  Poller,        \* the OutgoingPoller timer
  None,          \* no thread, no message
  Policies,      \* sentCopyPolicy values in use: "server", "maildock"
  MaxAttempts,   \* the literal 3 of run() and of the CHECK on attempts
  RepairLimit,   \* the LIMIT 100 of repair()
  MaxJobs,       \* bound: waiting jobs of one message told apart
  MaxFaults,     \* bound: queue outages and dead threads
  MaxLost        \* bound: lost database sessions

Threads == Workers \cup {Poller}

ASSUME ThreadAssumption == Poller \notin Workers
ASSUME NoneAssumption == None \notin Threads \cup Messages
ASSUME PolicyAssumption == Policies \subseteq {"server", "maildock"}
ASSUME AttemptsAssumption == MaxAttempts \in Nat \ {0}
ASSUME LimitAssumption == RepairLimit \in Nat \ {0}
ASSUME JobsAssumption == MaxJobs \in Nat \ {0}
ASSUME FaultsAssumption == MaxFaults \in Nat /\ MaxLost \in Nat

VARIABLES
  status,       \* outgoing_messages.status; "absent" before the insert
  attempts,     \* outgoing_messages.attempts
  due,          \* nextAttemptAt <= now()
  policy,       \* outgoing_messages.sentCopyPolicy
  copy,         \* outgoing_messages.sentCopyStatus
  usable,       \* the account is enabled, has SMTP, is connected
  jobs,         \* waiting jobs of OUTGOING_QUEUE, per message
  copyJobs,     \* waiting jobs of the sent-copy queue, per message
  lock,         \* holder of the advisory lock "outgoing:<id>"
  pc,           \* what a thread does next
  job,          \* the message a thread works on
  cred,         \* what run() knows of the account before it locks
  claim,        \* claimed.attempts of the thread's own claim
  result,       \* SmtpDeliveryResult of the thread
  sweep,        \* rows of repair() not handled yet
  faults,       \* queue outages and dead threads so far
  lost,         \* database sessions lost so far
  submissions,  \* history: sendMail calls, per message
  accepted      \* history: mails the SMTP server took, per message

row == <<status, attempts, due, policy, copy>>
queues == <<jobs, copyJobs>>
local == <<job, cred, claim, result>>
trouble == <<faults, lost>>
smtp == <<submissions, accepted>>
vars == <<row, usable, queues, lock, pc, local, sweep, trouble, smtp>>

Terminal == {"sent", "failed", "uncertain"}
Statuses == {"absent", "queued", "sending"} \cup Terminal
CopyStatuses == {"not_required", "pending", "saving", "saved", "failed", "uncertain"}
Results == {"none", "accepted", "retryable", "permanent", "uncertain"}
WorkerPCs == {"resolve", "lock", "examine", "account", "reject", "claim",
              "verify", "submitted", "record", "notify"}
PCs == WorkerPCs \cup {"idle", "sweep", "recover", "release"}

TypeOK ==
  /\ status \in [Messages -> Statuses]
  /\ attempts \in [Messages -> 0..MaxAttempts]   \* outgoing_messages CHECK
  /\ due \in [Messages -> BOOLEAN]
  /\ policy \in [Messages -> Policies]
  /\ copy \in [Messages -> CopyStatuses]
  /\ usable \in [Messages -> BOOLEAN]
  /\ jobs \in [Messages -> 0..MaxJobs]
  /\ copyJobs \in [Messages -> 0..MaxJobs]
  /\ lock \in [Messages -> Threads \cup {None}]
  /\ pc \in [Threads -> PCs]
  /\ job \in [Threads -> Messages \cup {None}]
  /\ cred \in [Threads -> {"unread", "ok", "failed"}]
  /\ claim \in [Threads -> 0..MaxAttempts]
  /\ result \in [Threads -> Results]
  /\ sweep \subseteq Messages \X {"queued", "sending"}
  /\ faults \in 0..MaxFaults
  /\ lost \in 0..MaxLost
  /\ submissions \in [Messages -> Nat]
  /\ accepted \in [Messages -> Nat]

Init ==
  /\ status = [m \in Messages |-> "absent"]
  /\ attempts = [m \in Messages |-> 0]
  /\ due = [m \in Messages |-> TRUE]
  /\ policy \in [Messages -> Policies]
  /\ copy = [m \in Messages |-> "not_required"]
  /\ usable = [m \in Messages |-> TRUE]
  /\ jobs = [m \in Messages |-> 0]
  /\ copyJobs = [m \in Messages |-> 0]
  /\ lock = [m \in Messages |-> None]
  /\ pc = [t \in Threads |-> "idle"]
  /\ job = [t \in Threads |-> None]
  /\ cred = [t \in Threads |-> "unread"]
  /\ claim = [t \in Threads |-> 0]
  /\ result = [t \in Threads |-> "none"]
  /\ sweep = {}
  /\ faults = 0
  /\ lost = 0
  /\ submissions = [m \in Messages |-> 0]
  /\ accepted = [m \in Messages |-> 0]

-----------------------------------------------------------------------------
(* Building blocks.                                                        *)

\* A fault is budgeted: after MaxFaults of them the environment behaves.
Fault == faults < MaxFaults /\ faults' = faults + 1

\* One more waiting job; beyond MaxJobs duplicates are not told apart.
More(queue, m) ==
  [queue EXCEPT ![m] = IF @ < MaxJobs THEN @ + 1 ELSE @]

\* boss.send: the job is stored, or the queue is down and the caller's
\* .catch(() => undefined) drops it.
EnqueueOutgoing(m) ==
  \/ jobs' = More(jobs, m) /\ UNCHANGED faults
  \/ UNCHANGED jobs /\ Fault

EnqueueSentCopy(m) ==
  \/ copyJobs' = More(copyJobs, m) /\ UNCHANGED faults
  \/ UNCHANGED copyJobs /\ Fault

Goto(t, l) == pc' = [pc EXCEPT ![t] = l]

\* What pg_try_advisory_lock finds.
FreeAlways(m) == TRUE
Free(m) == lock[m] = None

\* The lock t gave back, if it still had it.
Unlocked(t) == [m \in Messages |-> IF lock[m] = t THEN None ELSE lock[m]]

\* The thread's handler is over: its locals are gone.
Forget(t) ==
  /\ job' = [job EXCEPT ![t] = None]
  /\ cred' = [cred EXCEPT ![t] = "unread"]
  /\ claim' = [claim EXCEPT ![t] = 0]
  /\ result' = [result EXCEPT ![t] = "none"]

-----------------------------------------------------------------------------
(* The web process and the outside world.                                  *)

\* create(): one transaction inserts the row and consumes the draft; only
\* after the commit is the job sent.
Create(m) ==
  /\ status[m] = "absent"
  /\ usable[m]
  /\ status' = [status EXCEPT ![m] = "queued"]
  /\ EnqueueOutgoing(m)
  /\ UNCHANGED <<attempts, due, policy, copy, usable, copyJobs, lock, pc, local, sweep, lost, smtp>>

\* create() on a draft that is consumed already: no new row, one more job.
CreateAgain(m) ==
  /\ status[m] # "absent"
  /\ EnqueueOutgoing(m)
  /\ UNCHANGED <<row, usable, copyJobs, lock, pc, local, sweep, lost, smtp>>

\* The owner disables, enables, disconnects or reconnects the account.
ToggleAccount(m) ==
  /\ usable' = [usable EXCEPT ![m] = ~@]
  /\ UNCHANGED <<row, queues, lock, pc, local, sweep, trouble, smtp>>

\* The delay of a retry elapses.
Tick(m) ==
  /\ ~due[m]
  /\ due' = [due EXCEPT ![m] = TRUE]
  /\ UNCHANGED <<status, attempts, policy, copy, usable, queues, lock, pc, local, sweep, trouble, smtp>>

-----------------------------------------------------------------------------
(* run(id): one job handler.                                               *)

\* A handler gets a job and reads the candidate row outside the lock.
Take(w, m) ==
  /\ pc[w] = "idle"
  /\ jobs[m] > 0
  /\ jobs' = [jobs EXCEPT ![m] = @ - 1]
  /\ IF status[m] \in {"queued", "sending"}
       THEN /\ Goto(w, IF status[m] = "queued" THEN "resolve" ELSE "lock")
            /\ job' = [job EXCEPT ![w] = m]
       ELSE UNCHANGED <<pc, job>>
  /\ UNCHANGED <<row, usable, copyJobs, lock, cred, claim, result, sweep, trouble, smtp>>

\* getProviderSmtpAccountForWork: decrypts or refreshes the credentials, and
\* throws when the account is unusable or the refresh does not work.
Resolve(w) ==
  /\ pc[w] = "resolve"
  /\ \E c \in {"ok", "failed"} :
       /\ c = "ok" => usable[job[w]]
       /\ cred' = [cred EXCEPT ![w] = c]
  /\ Goto(w, "lock")
  /\ UNCHANGED <<row, usable, queues, lock, job, claim, result, sweep, trouble, smtp>>

\* pg_try_advisory_lock: when it is busy the handler returns and its job is done.
Lock(w) ==
  /\ pc[w] = "lock"
  /\ IF Free(job[w])
       THEN /\ lock' = [lock EXCEPT ![job[w]] = w]
            /\ Goto(w, "examine")
            /\ UNCHANGED local
       ELSE /\ Goto(w, "idle")
            /\ Forget(w)
            /\ UNCHANGED lock
  /\ UNCHANGED <<row, usable, queues, sweep, trouble, smtp>>

\* The row is read again under the lock.
Examine(w) ==
  /\ pc[w] = "examine"
  /\ Goto(w, CASE status[job[w]] = "sending" -> "recover"
               [] status[job[w]] = "queued" -> "account"
               [] OTHER -> "release")
  /\ UNCHANGED <<row, usable, queues, lock, local, sweep, trouble, smtp>>

\* The account is read again, then the MIME snapshot is loaded, which may fail.
CheckAccount(w) ==
  /\ pc[w] = "account"
  /\ \E mimeLoads \in BOOLEAN :
       Goto(w, CASE cred[w] = "failed" \/ ~usable[job[w]] -> "reject"
                 [] cred[w] = "unread" /\ usable[job[w]] -> "release"
                 [] OTHER -> IF mimeLoads THEN "claim" ELSE "reject")
  /\ UNCHANGED <<row, usable, queues, lock, local, sweep, trouble, smtp>>

\* UPDATE ... SET status = 'failed' WHERE status = 'queued'.
Reject(w) ==
  /\ pc[w] = "reject"
  /\ status' = [status EXCEPT ![job[w]] = IF @ = "queued" THEN "failed" ELSE @]
  /\ Goto(w, "release")
  /\ UNCHANGED <<attempts, due, policy, copy, usable, queues, lock, local, sweep, trouble, smtp>>

\* WHERE status = 'queued' AND nextAttemptAt <= now().
ClaimableAlways(m) == due[m]
Claimable(m) == status[m] = "queued" /\ due[m]

\* The durable claim, before any network delivery: UPDATE ... SET status =
\* 'sending', attempts = attempts + 1, if the row is still claimable.
Claim(w) ==
  /\ pc[w] = "claim"
  /\ LET m == job[w] IN
       IF Claimable(m)
         THEN /\ status' = [status EXCEPT ![m] = "sending"]
              /\ attempts' = [attempts EXCEPT ![m] = @ + 1]
              /\ claim' = [claim EXCEPT ![w] = attempts[m] + 1]
              /\ Goto(w, "verify")
         ELSE /\ Goto(w, "release")
              /\ UNCHANGED <<status, attempts, claim>>
  /\ UNCHANGED <<due, policy, copy, usable, queues, lock, job, cred, result, sweep, trouble, smtp>>

\* transport.verify() fails: nothing was submitted, some failures may be retried.
VerifyFails(w) ==
  /\ pc[w] = "verify"
  /\ \E r \in {"retryable", "permanent"} : result' = [result EXCEPT ![w] = r]
  /\ Goto(w, "record")
  /\ UNCHANGED <<row, usable, queues, lock, job, cred, claim, sweep, trouble, smtp>>

\* transport.sendMail() is called.
Submit(w) ==
  /\ pc[w] = "verify"
  /\ submissions' = [submissions EXCEPT ![job[w]] = @ + 1]
  /\ Goto(w, "submitted")
  /\ UNCHANGED <<row, usable, queues, lock, local, sweep, trouble, accepted>>

\* What deliverMessage returns for what the server did: a list of accepted
\* recipients; a 5xx to MAIL FROM or RCPT TO; anything else is uncertain.
Reply(w) ==
  /\ pc[w] = "submitted"
  /\ \E r \in {"accepted", "permanent", "uncertain"}, taken \in 0..1 :
       /\ r = "accepted" => taken = 1
       /\ r = "permanent" => taken = 0
       /\ result' = [result EXCEPT ![w] = r]
       /\ accepted' = [accepted EXCEPT ![job[w]] = @ + taken]
  /\ Goto(w, "record")
  /\ UNCHANGED <<row, usable, queues, lock, job, cred, claim, sweep, trouble, submissions>>

\* The status run() computes from the result and from its own claim.
OutcomeRetriesUnknown(w) ==
  CASE result[w] = "accepted" -> "sent"
    [] result[w] \in {"uncertain", "retryable"} /\ claim[w] < MaxAttempts -> "queued"
    [] OTHER -> "failed"
OutcomeFailsUnknown(w) ==
  CASE result[w] = "accepted" -> "sent"
    [] result[w] = "retryable" /\ claim[w] < MaxAttempts -> "queued"
    [] OTHER -> "failed"
OutcomeOneTooMany(w) ==
  CASE result[w] = "accepted" -> "sent"
    [] result[w] = "uncertain" -> "uncertain"
    [] result[w] = "retryable" /\ claim[w] <= MaxAttempts -> "queued"
    [] OTHER -> "failed"
Outcome(w) ==
  CASE result[w] = "accepted" -> "sent"
    [] result[w] = "uncertain" -> "uncertain"
    [] result[w] = "retryable" /\ claim[w] < MaxAttempts -> "queued"
    [] OTHER -> "failed"

\* WHERE status = 'sending'.
RecordableAlways(m) == TRUE
Recordable(m) == status[m] = "sending"

\* UPDATE ... SET an outcome, if the row is still recordable.  The result of a definite
\* failure also moves nextAttemptAt, by attempts * 30 seconds.
Record(w) ==
  /\ pc[w] = "record"
  /\ LET m == job[w] IN
       IF Recordable(m)
         THEN /\ status' = [status EXCEPT ![m] = Outcome(w)]
              /\ due' = IF result[w] \in {"retryable", "permanent"}
                          THEN [due EXCEPT ![m] = FALSE] ELSE due
              /\ copy' = IF Outcome(w) = "sent" /\ policy[m] = "maildock"
                           THEN [copy EXCEPT ![m] = "pending"] ELSE copy
         ELSE UNCHANGED <<status, due, copy>>
  /\ Goto(w, IF result[w] = "accepted" /\ policy[job[w]] = "maildock" THEN "notify" ELSE "release")
  /\ UNCHANGED <<attempts, policy, usable, queues, lock, local, sweep, trouble, smtp>>

\* enqueueSentCopy, still inside the lock.
Notify(w) ==
  /\ pc[w] = "notify"
  /\ EnqueueSentCopy(job[w])
  /\ Goto(w, "release")
  /\ UNCHANGED <<row, usable, jobs, lock, local, sweep, lost, smtp>>

-----------------------------------------------------------------------------
(* Steps that the worker and the poller share.                             *)

\* recoverSending: UPDATE ... SET status = 'uncertain' WHERE status = 'sending'.
Recover(t) ==
  /\ pc[t] = "recover"
  /\ status' = [status EXCEPT ![job[t]] = IF @ = "sending" THEN "uncertain" ELSE @]
  /\ Goto(t, "release")
  /\ UNCHANGED <<attempts, due, policy, copy, usable, queues, lock, local, sweep, trouble, smtp>>

\* finally: pg_advisory_unlock, and the handler (or the sweep's round) ends.
Release(t) ==
  /\ pc[t] = "release"
  /\ lock' = Unlocked(t)
  /\ Goto(t, IF t = Poller THEN "sweep" ELSE "idle")
  /\ Forget(t)
  /\ UNCHANGED <<row, usable, queues, sweep, trouble, smtp>>

-----------------------------------------------------------------------------
(* repair(): the poller, one sweep at a time (the polling flag).           *)

DueQueued == {m \in Messages : status[m] = "queued" /\ due[m]}
Due == {m \in Messages : status[m] \in {"queued", "sending"} /\ due[m]}

\* SELECT ... WHERE status IN (queued, sending) AND due LIMIT 100, unordered.
SweepBegin ==
  /\ pc[Poller] = "idle"
  /\ Due # {}
  /\ \E rows \in SUBSET Due :
       /\ Cardinality(rows) <= RepairLimit
       /\ rows = Due \/ Cardinality(rows) = RepairLimit
       /\ sweep' = {<<m, status[m]>> : m \in rows}
  /\ Goto(Poller, "sweep")
  /\ UNCHANGED <<row, usable, queues, lock, local, trouble, smtp>>

\* A row that was queued when it was selected: enqueue it, whatever it is now.
SweepQueued(m) ==
  /\ pc[Poller] = "sweep"
  /\ <<m, "queued">> \in sweep
  /\ sweep' = sweep \ {<<m, "queued">>}
  /\ EnqueueOutgoing(m)
  /\ UNCHANGED <<row, usable, copyJobs, lock, pc, local, lost, smtp>>

\* A row that was sending: recover it under the lock, skip it when busy.
SweepSending(m) ==
  /\ pc[Poller] = "sweep"
  /\ <<m, "sending">> \in sweep
  /\ sweep' = sweep \ {<<m, "sending">>}
  /\ IF Free(m)
       THEN /\ lock' = [lock EXCEPT ![m] = Poller]
            /\ job' = [job EXCEPT ![Poller] = m]
            /\ Goto(Poller, "recover")
       ELSE UNCHANGED <<lock, job, pc>>
  /\ UNCHANGED <<row, usable, queues, cred, claim, result, trouble, smtp>>

SweepEnd ==
  /\ pc[Poller] = "sweep"
  /\ sweep = {}
  /\ Goto(Poller, "idle")
  /\ UNCHANGED <<row, usable, queues, lock, local, sweep, trouble, smtp>>

-----------------------------------------------------------------------------
(* Faults.                                                                 *)

\* The process dies or a statement throws: the session ends and its lock with
\* it, the job is not retried (retryLimit 0), the SMTP server may still have
\* taken a mail that was being submitted.
Abort(t) ==
  /\ pc[t] # "idle"
  /\ Fault
  /\ lock' = Unlocked(t)
  /\ Goto(t, "idle")
  /\ Forget(t)
  /\ sweep' = IF t = Poller THEN {} ELSE sweep
  /\ \E taken \in 0..1 :
       /\ taken = 1 => pc[t] = "submitted"
       /\ accepted' = [m \in Messages |-> IF m = job[t] THEN accepted[m] + taken ELSE accepted[m]]
  /\ UNCHANGED <<row, usable, queues, lost, submissions>>

\* The database session of the lock drops (network, failover) while the thread
\* goes on, in the middle of SMTP for example.  Whether its next statement fails
\* (Abort) or runs on a new connection is left open.
LoseSession(t) ==
  /\ \E m \in Messages : lock[m] = t
  /\ lost < MaxLost
  /\ lost' = lost + 1
  /\ lock' = Unlocked(t)
  /\ UNCHANGED <<row, usable, queues, pc, local, sweep, faults, smtp>>

-----------------------------------------------------------------------------
RunStep(w) ==
  \/ Resolve(w) \/ Lock(w) \/ Examine(w) \/ CheckAccount(w) \/ Reject(w) \/ Claim(w)
  \/ VerifyFails(w) \/ Submit(w) \/ Reply(w) \/ Record(w) \/ Notify(w)
  \/ Recover(w) \/ Release(w)

Sweep == \/ \E m \in Messages : SweepQueued(m) \/ SweepSending(m)
         \/ SweepEnd \/ Recover(Poller) \/ Release(Poller)

WebStep == \E m \in Messages : Create(m) \/ CreateAgain(m) \/ ToggleAccount(m) \/ Tick(m)

Next ==
  \/ WebStep
  \/ \E w \in Workers : RunStep(w) \/ \E m \in Messages : Take(w, m)
  \/ SweepBegin
  \/ Sweep
  \/ \E t \in Threads : Abort(t) \/ LoseSession(t)

Spec == Init /\ [][Next]_vars

\* pg-boss hands out waiting jobs in order, so a job is not passed over for
\* ever; a handler runs to its end; the interval timer of the poller fires and
\* its sweep goes on; the clock reaches nextAttemptAt.  Queue outages need no
\* fairness: there are only MaxFaults of them.
Fairness ==
  /\ \A m \in Messages : SF_vars(\E w \in Workers : Take(w, m)) /\ WF_vars(Tick(m))
  /\ \A w \in Workers : WF_vars(RunStep(w))
  /\ WF_vars(SweepBegin)
  /\ WF_vars(Sweep)

FairSpec == Spec /\ Fairness

-----------------------------------------------------------------------------
(* Properties.                                                             *)

Delivering(t) == pc[t] \in {"verify", "submitted", "record"}

\* No message is handed to sendMail twice, whatever jobs are duplicated,
\* retried or run at the same time and whichever thread or session dies:
\* uncertain outcomes are recorded "instead of blindly retrying them".
AtMostOneSubmission == \A m \in Messages : submissions[m] <= 1

\* A queued message was never submitted and still has an attempt left: a retry
\* (status back to queued) can neither send twice nor run into the CHECK on
\* attempts, which would leave the message queued for ever.
QueuedMayBeSent ==
  \A m \in Messages : status[m] = "queued" => submissions[m] = 0 /\ attempts[m] < MaxAttempts

\* What the owner is told is true of the SMTP server: "sent" was taken, exactly
\* once, and "failed" was not, also when two threads worked on the message.
HonestOutcome ==
  \A m \in Messages : /\ status[m] = "sent" => accepted[m] = 1
                      /\ status[m] = "failed" => accepted[m] = 0

\* As long as no database session is lost, the row of a message that is being
\* delivered says sending: neither the poller nor a duplicated job declares a
\* live attempt uncertain, so its result will be recorded.
LiveAttemptStands ==
  lost = 0 => \A w \in Workers : Delivering(w) => status[job[w]] = "sending"

\* sent, failed and uncertain are final: no late thread overwrites them.
OutcomeIsFinal ==
  [][\A m \in Messages : status[m] \in Terminal => status'[m] = status[m]]_vars

\* A message that was created ends up sent, failed or uncertain, although jobs
\* are lost (queue outage, busy lock, dead handler) and attempts are abandoned.
Settles ==
  \A m \in Messages : status[m] \in {"queued", "sending"} ~> status[m] \in Terminal
=============================================================================
