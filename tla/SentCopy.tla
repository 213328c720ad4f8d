------------------------------ MODULE SentCopy ------------------------------
(***************************************************************************)
(* The copy in the Sent folder: SentCopyService (repair, run) for messages *)
(* whose policy is "maildock".  It starts when delivery records "sent",    *)
(* shares the advisory lock "outgoing:<id>" with delivery, writes a claim  *)
(* before the IMAP APPEND, and never appends again: a copy that was left   *)
(* "saving" is looked for where it was going.                              *)
(***************************************************************************)
EXTENDS Integers, FiniteSets

CONSTANTS
  Messages,     \* ids, numbered in the order of createdAt
  Workers,      \* concurrent job handlers
  Boxes,        \* local ids of mailboxes
  Paths,        \* remote paths
  None,         \* no thread, message, mailbox or path
  Delivery,     \* the delivery of the same message, as a holder of the lock
  RepairLimit,  \* the LIMIT 100 of repair()
  MaxFaults,    \* bound: queue outages, dead threads
  MaxLost,      \* bound: lost database sessions
  MaxMoves      \* bound: changes of mailboxes, roles and accounts

ASSUME CopyAssumption ==
  /\ Messages \subseteq Nat /\ Delivery \notin Workers
  /\ None \notin Workers \cup {Delivery} \cup Messages \cup Boxes \cup Paths \cup (Boxes \X Paths)
  /\ RepairLimit \in Nat \ {0} /\ {MaxFaults, MaxLost, MaxMoves} \subseteq Nat

VARIABLES
  copy,      \* sentCopyStatus; "none" before delivery recorded "sent"
  dest,      \* <<sentCopyMailboxId, sentCopyPath>>, or None
  marker,    \* sentCopySyncPending
  enabled,   \* the account of the message is enabled
  role,      \* the mailbox mapped to the role "sent", or None
  path,      \* remotePath of an active and selectable mailbox, or None
  jobs,      \* messages with a waiting job of SENT_COPY_QUEUE
  batch,     \* rows that repair() selected and has not enqueued yet
  lock,      \* holder of the advisory lock "outgoing:<id>"
  pc,        \* what a handler does next
  job,       \* the message it works on
  cred,      \* it has the account's IMAP credentials
  seen,      \* the row it read under the lock: copy, dest, marker
  ending,   \* the status that finish() writes
  faults, lost, moves,  \* budgets used
  appends,   \* history: APPEND commands, per message
  stored,    \* history: copies on the IMAP server, per message and path
  synced     \* history: messages whose mailbox sync was queued once stored

row == <<copy, dest, marker>>
env == <<enabled, role, path, moves>>
queue == <<jobs, batch>>
local == <<job, cred, seen, ending>>
trouble == <<faults, lost>>
imap == <<appends, stored, synced>>
vars == <<row, env, queue, lock, pc, local, trouble, imap>>

Destinations == (Boxes \X Paths) \cup {None}
Settled == {"saved", "failed", "uncertain"}
Rows == [copy : {"none", "pending", "saving"} \cup Settled, dest : Destinations, marker : BOOLEAN]
Blank == [copy |-> "none", dest |-> None, marker |-> FALSE]
PCs == {"idle", "resolve", "lock", "examine", "recheck", "find", "choose", "claim", "append",
        "appending", "save", "finish", "sync", "clear", "release"}

RowType ==
  /\ copy \in [Messages -> {"none", "pending", "saving"} \cup Settled]
  /\ dest \in [Messages -> Destinations]
  /\ marker \in [Messages -> BOOLEAN]
EnvType ==
  /\ enabled \in [Messages -> BOOLEAN]
  /\ role \in Boxes \cup {None}
  /\ path \in [Boxes -> Paths \cup {None}]
  /\ moves \in 0..MaxMoves
ThreadType ==
  /\ jobs \subseteq Messages /\ batch \subseteq Messages
  /\ lock \in [Messages -> Workers \cup {None, Delivery}]
  /\ pc \in [Workers -> PCs]
  /\ job \in [Workers -> Messages \cup {None}]
  /\ cred \in [Workers -> BOOLEAN]
  /\ seen \in [Workers -> Rows]
  /\ ending \in [Workers -> {"failed", "uncertain"}]
TroubleType == faults \in 0..MaxFaults /\ lost \in 0..MaxLost
ImapType ==
  /\ appends \in [Messages -> Nat]
  /\ stored \in [Messages -> [Paths -> Nat]]
  /\ synced \subseteq Messages

\* outgoing_messages CHECK: only a saved copy waits for its sync.
MarkerOfSaved == \A m \in Messages : marker[m] => copy[m] = "saved"

TypeOK == RowType /\ EnvType /\ ThreadType /\ TroubleType /\ ImapType /\ MarkerOfSaved

Init ==
  /\ copy = [m \in Messages |-> "none"]
  /\ dest = [m \in Messages |-> None]
  /\ marker = [m \in Messages |-> FALSE]
  /\ enabled = [m \in Messages |-> TRUE]
  /\ role \in Boxes
  /\ path \in [Boxes -> Paths]
  /\ \A b, c \in Boxes : path[b] = path[c] => b = c
  /\ jobs = {} /\ batch = {}
  /\ lock = [m \in Messages |-> None]
  /\ pc = [w \in Workers |-> "idle"]
  /\ job = [w \in Workers |-> None]
  /\ cred = [w \in Workers |-> FALSE]
  /\ seen = [w \in Workers |-> Blank]
  /\ ending = [w \in Workers |-> "failed"]
  /\ faults = 0 /\ lost = 0 /\ moves = 0
  /\ appends = [m \in Messages |-> 0]
  /\ stored = [m \in Messages |-> [p \in Paths |-> 0]]
  /\ synced = {}

-----------------------------------------------------------------------------
(* Building blocks.                                                        *)

Fault == faults < MaxFaults /\ faults' = faults + 1 /\ UNCHANGED lost
Calm == UNCHANGED trouble

\* boss.send, or an outage that the caller's .catch drops.  A message has at
\* most one waiting job here: a second one only runs the handler once more.
Enqueue(m) == \/ jobs' = jobs \cup {m} /\ Calm
              \/ UNCHANGED jobs /\ Fault

Goto(w, l) == pc' = [pc EXCEPT ![w] = l]
FreeAlways(m) == TRUE
Free(m) == lock[m] = None
Unlocked(t) == [m \in Messages |-> IF lock[m] = t THEN None ELSE lock[m]]
Forget(w) ==
  /\ job' = [job EXCEPT ![w] = None]
  /\ cred' = [cred EXCEPT ![w] = FALSE]
  /\ seen' = [seen EXCEPT ![w] = Blank]
  /\ ending' = [ending EXCEPT ![w] = "failed"]

\* The row as it was read, or as run() completes it with what it wrote itself.
RowOf(m) == [copy |-> copy[m], dest |-> dest[m], marker |-> marker[m]]

\* attemptedDestination: the mailbox of the attempt is still there, under the
\* path of the attempt.
Attempted(d) == d # None /\ path[d[1]] = d[2]

-----------------------------------------------------------------------------
(* Around the service.                                                     *)

\* Delivery records "sent" and "pending" while it holds the lock ...
Deliver(m) ==
  /\ copy[m] = "none" /\ lock[m] = None
  /\ \A n \in Messages : n < m => copy[n] # "none"
  /\ copy' = [copy EXCEPT ![m] = "pending"]
  /\ lock' = [lock EXCEPT ![m] = Delivery]
  /\ UNCHANGED <<dest, marker, env, queue, pc, local, trouble, imap>>

\* ... asks for the copy, still inside the lock ...
DeliverNotify(m) ==
  /\ lock[m] = Delivery
  /\ jobs' = jobs \cup {m}
  /\ UNCHANGED <<row, env, batch, lock, pc, local, trouble, imap>>

\* ... and lets go, or dies first; asking again is a duplicated job.
DeliverEnd(m) ==
  /\ lock[m] = Delivery
  /\ lock' = [lock EXCEPT ![m] = None]
  /\ UNCHANGED <<row, env, queue, pc, local, trouble, imap>>

\* Discovery loses, renames or finds a mailbox, the owner maps the role to
\* another one, an account is disabled or enabled.
Move ==
  /\ moves < MaxMoves /\ moves' = moves + 1
  /\ \/ \E b \in Boxes, p \in Paths \cup {None} :
          /\ \A c \in Boxes : path[c] # p \/ p = None
          /\ path' = [path EXCEPT ![b] = p] /\ UNCHANGED <<enabled, role>>
     \/ \E b \in Boxes \cup {None} : b # role /\ role' = b /\ UNCHANGED <<enabled, path>>
     \/ \E m \in Messages : enabled' = [enabled EXCEPT ![m] = ~@] /\ UNCHANGED <<role, path>>
  /\ UNCHANGED <<row, queue, lock, pc, local, trouble, imap>>

-----------------------------------------------------------------------------
(* repair(): the poller only enqueues.                                     *)

UnfinishedButSaving == {m \in Messages : copy[m] = "pending" \/ marker[m]}
UnfinishedButSync == {m \in Messages : copy[m] \in {"pending", "saving"}}
Unfinished == {m \in Messages : copy[m] \in {"pending", "saving"} \/ marker[m]}

\* SELECT ... ORDER BY createdAt LIMIT 100.
Repair ==
  /\ batch = {}
  /\ Unfinished # {}
  /\ batch' = {m \in Unfinished : Cardinality({n \in Unfinished : n < m}) < RepairLimit}
  /\ UNCHANGED <<row, env, jobs, lock, pc, local, trouble, imap>>

RepairNext(m) ==
  /\ m \in batch
  /\ batch' = batch \ {m}
  /\ Enqueue(m)
  /\ UNCHANGED <<row, env, lock, pc, local, imap>>

-----------------------------------------------------------------------------
(* run(id).                                                                *)

\* A handler takes a job; the candidate is read outside the lock, and only an
\* unsaved one needs credentials.
Take(w, m) ==
  /\ pc[w] = "idle" /\ m \in jobs
  /\ jobs' = jobs \ {m}
  /\ IF copy[m] \in {"pending", "saving", "saved"}
       THEN /\ job' = [job EXCEPT ![w] = m]
            /\ Goto(w, IF copy[m] = "saved" THEN "lock" ELSE "resolve")
       ELSE UNCHANGED <<job, pc>>
  /\ UNCHANGED <<row, env, batch, lock, cred, seen, ending, trouble, imap>>

\* getProviderImapAccountForWork, which throws for a disabled account and when
\* credentials cannot be had.
Resolve(w) ==
  /\ pc[w] = "resolve"
  /\ \E c \in BOOLEAN : (c => enabled[job[w]]) /\ cred' = [cred EXCEPT ![w] = c]
  /\ Goto(w, "lock")
  /\ UNCHANGED <<row, env, queue, lock, job, seen, ending, trouble, imap>>

\* A busy lock ends the handler: delivery or another copy worker has the message.
Lock(w) ==
  /\ pc[w] = "lock"
  /\ IF Free(job[w])
       THEN lock' = [lock EXCEPT ![job[w]] = w] /\ Goto(w, "examine") /\ UNCHANGED local
       ELSE UNCHANGED lock /\ Goto(w, "idle") /\ Forget(w)
  /\ UNCHANGED <<row, env, queue, trouble, imap>>

\* The row and its owner are read under the lock.
Examine(w) ==
  /\ pc[w] = "examine"
  /\ LET m == job[w]
         usable == cred[w] /\ enabled[m]
     IN /\ seen' = [seen EXCEPT ![w] = RowOf(m)]
        /\ Goto(w, CASE copy[m] = "saved" -> "sync"
                     [] copy[m] = "saving" -> IF usable THEN "recheck" ELSE "finish"
                     [] copy[m] = "pending" -> IF usable THEN "choose" ELSE "finish"
                     [] OTHER -> "release")
        /\ ending' = [ending EXCEPT ![w] = IF copy[m] = "saving" THEN "uncertain" ELSE "failed"]
  /\ UNCHANGED <<row, env, queue, lock, job, cred, trouble, imap>>

\* A copy that was left saving is only looked for at its own destination.
Recheck(w) ==
  /\ pc[w] = "recheck"
  /\ Goto(w, IF Attempted(seen[w].dest) THEN "find" ELSE "finish")
  /\ UNCHANGED <<row, env, queue, lock, local, trouble, imap>>

\* findSentCopy: an exact Message-ID hit is proof; everything else is not.
Find(w) ==
  /\ pc[w] = "find"
  /\ \/ stored[job[w]][seen[w].dest[2]] > 0 /\ Goto(w, "save")
     \/ Goto(w, "finish")
  /\ UNCHANGED <<row, env, queue, lock, local, trouble, imap>>

\* resolveMappedMailbox and loadOutgoingMime; both may fail.
Choose(w) ==
  /\ pc[w] = "choose"
  /\ \/ /\ role # None /\ path[role] # None
        /\ seen' = [seen EXCEPT ![w].dest = <<role, path[role]>>]
        /\ Goto(w, "claim")
     \/ Goto(w, "finish") /\ UNCHANGED seen
  /\ UNCHANGED <<row, env, queue, lock, job, cred, ending, trouble, imap>>

\* WHERE sentCopyStatus = 'pending'.
ClaimableAgain(m) == copy[m] \in {"pending", "saving"}
Claimable(m) == copy[m] = "pending"

\* UPDATE ... SET 'saving' and the destination, if the row is still claimable.
Claim(w) ==
  /\ pc[w] = "claim"
  /\ LET m == job[w] IN
       IF Claimable(m)
         THEN /\ copy' = [copy EXCEPT ![m] = "saving"]
              /\ dest' = [dest EXCEPT ![m] = seen[w].dest]
              /\ seen' = [seen EXCEPT ![w].copy = "saving"]
              /\ Goto(w, "append")
         ELSE Goto(w, "release") /\ UNCHANGED <<copy, dest, seen>>
  /\ UNCHANGED <<marker, env, queue, lock, job, cred, ending, trouble, imap>>

\* appendMessage cannot connect or select: nothing was appended.
AppendFails(w) ==
  /\ pc[w] = "append"
  /\ ending' = [ending EXCEPT ![w] = "failed"]
  /\ Goto(w, "finish")
  /\ UNCHANGED <<row, env, queue, lock, job, cred, seen, trouble, imap>>

Append(w) ==
  /\ pc[w] = "append"
  /\ appends' = [appends EXCEPT ![job[w]] = @ + 1]
  /\ Goto(w, "appending")
  /\ UNCHANGED <<row, env, queue, lock, local, trouble, stored, synced>>

\* What the server did with the APPEND of w: n copies more at its destination.
Stores(w, n) == stored' = [stored EXCEPT ![job[w]][seen[w].dest[2]] = @ + n]

\* A positive answer is "saved", any other end of the APPEND is "uncertain".
AppendReply(w) ==
  /\ pc[w] = "appending"
  /\ \/ Stores(w, 1) /\ Goto(w, "save") /\ UNCHANGED ending
     \/ \E n \in 0..1 : Stores(w, n) /\ Goto(w, "finish")
                        /\ ending' = [ending EXCEPT ![w] = "uncertain"]
  /\ UNCHANGED <<row, env, queue, lock, job, cred, seen, trouble, appends, synced>>

\* saved(): UPDATE ... SET 'saved', sentCopySyncPending WHERE 'saving'; then
\* requestSync is called with the row as run() has it.
Save(w) ==
  /\ pc[w] = "save"
  /\ LET m == job[w] IN
       IF copy[m] = "saving"
         THEN copy' = [copy EXCEPT ![m] = "saved"] /\ marker' = [marker EXCEPT ![m] = TRUE]
         ELSE UNCHANGED <<copy, marker>>
  /\ seen' = [seen EXCEPT ![w].copy = "saved", ![w].marker = TRUE]
  /\ Goto(w, "sync")
  /\ UNCHANGED <<dest, env, queue, lock, job, cred, ending, trouble, imap>>

\* WHERE sentCopyStatus is the one in hand.
AsReadOrNot(w) == TRUE
AsRead(w) == copy[job[w]] = seen[w].copy

\* finish(): UPDATE ... SET ending, if the row still is as it was read.
Finish(w) ==
  /\ pc[w] = "finish"
  /\ copy' = IF AsRead(w) THEN [copy EXCEPT ![job[w]] = ending[w]] ELSE copy
  /\ Goto(w, "release")
  /\ UNCHANGED <<dest, marker, env, queue, lock, local, trouble, imap>>

\* requestSync: marker, destination and owner are checked, then the sync of
\* that mailbox is queued, which may fail or be refused.
RequestSyncRegardless(w) ==
  /\ pc[w] = "sync"
  /\ \/ synced' = synced \cup {job[w]}
     \/ UNCHANGED synced
  /\ Goto(w, "clear")
  /\ UNCHANGED <<row, env, queue, lock, local, trouble, appends, stored>>
RequestSync(w) ==
  /\ pc[w] = "sync"
  /\ \/ /\ seen[w].marker /\ Attempted(seen[w].dest) /\ enabled[job[w]]
        /\ synced' = synced \cup {job[w]}
        /\ Goto(w, "clear")
     \/ Goto(w, "release") /\ UNCHANGED synced
  /\ UNCHANGED <<row, env, queue, lock, local, trouble, appends, stored>>

\* UPDATE ... SET sentCopySyncPending = false WHERE 'saved'.
ClearMarker(w) ==
  /\ pc[w] = "clear"
  /\ marker' = IF copy[job[w]] = "saved" THEN [marker EXCEPT ![job[w]] = FALSE] ELSE marker
  /\ Goto(w, "release")
  /\ UNCHANGED <<copy, dest, env, queue, lock, local, trouble, imap>>

Release(w) ==
  /\ pc[w] = "release"
  /\ lock' = Unlocked(w)
  /\ Goto(w, "idle") /\ Forget(w)
  /\ UNCHANGED <<row, env, queue, trouble, imap>>

-----------------------------------------------------------------------------
(* Faults.                                                                 *)

\* The thread dies or a statement throws; the server may have stored the copy.
Abort(w) ==
  /\ pc[w] # "idle"
  /\ Fault
  /\ lock' = Unlocked(w)
  /\ Goto(w, "idle") /\ Forget(w)
  /\ \/ pc[w] = "appending" /\ Stores(w, 1)
     \/ UNCHANGED stored
  /\ UNCHANGED <<row, env, queue, appends, synced>>

\* The session of the lock drops, the thread goes on.
LoseSession(w) ==
  /\ \E m \in Messages : lock[m] = w
  /\ lost < MaxLost /\ lost' = lost + 1
  /\ lock' = Unlocked(w)
  /\ UNCHANGED <<row, env, queue, pc, local, faults, imap>>

-----------------------------------------------------------------------------
RunStep(w) ==
  \/ Resolve(w) \/ Lock(w) \/ Examine(w) \/ Recheck(w) \/ Find(w) \/ Choose(w) \/ Claim(w)
  \/ AppendFails(w) \/ Append(w) \/ AppendReply(w) \/ Save(w) \/ Finish(w)
  \/ RequestSync(w) \/ ClearMarker(w) \/ Release(w)

Next ==
  \/ \E m \in Messages : Deliver(m) \/ DeliverNotify(m) \/ DeliverEnd(m) \/ RepairNext(m)
  \/ Move \/ Repair
  \/ \E w \in Workers : RunStep(w) \/ Abort(w) \/ LoseSession(w) \/ \E m \in Messages : Take(w, m)

Spec == Init /\ [][Next]_vars

\* Jobs are handed out in order, handlers run to their end, delivery lets go of
\* its lock, the poller's timer fires, and queueing a sync that keeps being
\* possible succeeds at last.
Fairness ==
  /\ \A m \in Messages : /\ SF_vars(\E w \in Workers : Take(w, m))
                         /\ WF_vars(DeliverEnd(m)) /\ WF_vars(RepairNext(m))
  /\ \A w \in Workers : WF_vars(RunStep(w)) /\ SF_vars(RequestSync(w) /\ pc'[w] = "clear")
  /\ WF_vars(Repair)

FairSpec == Spec /\ Fairness

-----------------------------------------------------------------------------
(* Properties.                                                             *)

\* A message is appended at most once, so the owner never finds it twice in the
\* Sent folder, whatever is repaired, duplicated or lost.
AppendAtMostOnce ==
  \A m \in Messages : appends[m] <= 1

\* What the owner is told of the copy is true: saved means it is in the folder
\* the row names, failed means that no APPEND was ever begun.
HonestCopy ==
  \A m \in Messages :
    /\ copy[m] = "saved" => dest[m] # None /\ stored[m][dest[m][2]] = 1
    /\ copy[m] = "failed" => appends[m] = 0

\* A copy that needs no sync any more was queued for one: the marker outlives
\* queue outages, dead threads and stale handlers.
MarkerHonest ==
  \A m \in Messages : copy[m] = "saved" /\ ~marker[m] => m \in synced

\* As long as no session is lost nobody judges an APPEND that is under way.
LiveAppendStands ==
  lost = 0 => \A w \in Workers : pc[w] \in {"append", "appending"} => copy[job[w]] = "saving"

\* The destination of an attempt is never resolved again, and a settled copy
\* stays settled.
AttemptIsFinal ==
  [][\A m \in Messages : /\ dest[m] # None => dest'[m] = dest[m]
                         /\ copy[m] \in Settled => copy'[m] = copy[m]]_vars

\* Every copy is settled in the end, although its job may have met the busy
\* lock of the delivery that queued it, or was never queued.
CopySettles ==
  \A m \in Messages : copy[m] \in {"pending", "saving"} ~> copy[m] \in Settled

\* A saved copy whose mailbox and account stay available is synchronized.
SyncFollows ==
  \A m \in Messages :
    <>[](Attempted(dest[m]) /\ enabled[m]) => (copy[m] = "saved" ~> ~marker[m])
=============================================================================
