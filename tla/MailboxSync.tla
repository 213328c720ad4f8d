----------------------------- MODULE MailboxSync -----------------------------
(***************************************************************************)
(* Synchronization of one mailbox: the recent window                       *)
(* (MessageService.runRecentSync), the delta run (DeltaSyncService.run) and *)
(* the historical backfill (BackfillSyncService.run), each with its queue, *)
(* under the advisory lock "mailbox-sync:<id>", against an IMAP server     *)
(* whose messages arrive, change, disappear and are renumbered meanwhile.  *)
(*                                                                         *)
(* A set of flags is named by the MODSEQ of the change that made it, so    *)
(* the flags and the MODSEQ of a message on the server are one number.     *)
(***************************************************************************)
EXTENDS Integers, FiniteSets, FiniteSetsExt

CONSTANTS
  MaxUid,       \* bound: UIDs that the server assigns, in all epochs together
  MaxEpoch,     \* bound: values of UIDVALIDITY are 1..MaxEpoch
  OldDated,     \* UIDs whose INTERNALDATE lies before the cutoff of the window
  OldArrives,   \* such messages may also be moved in later by another client
  Condstore,    \* the server keeps MODSEQ
  MayOmit,      \* fetches whose answer may leave out a message that exists
  BatchSize,    \* messageFetchBatchSize
  ChunkSize,    \* backfillChunkSize
  MaxRequests,  \* bound: requests, and changes of the mailbox's availability
  MaxEvents,    \* bound: flag changes and expunges on the server, failed
                \* operations, dead workers, exhausted retries, lost sessions,
  MaxLost       \* bound: the lost database sessions among them

Kinds == {"recent", "delta", "backfill"}
Fetches == {"recent", "empty", "delta", "backfill"}
Uids == 1..MaxUid
Epochs == 1..MaxEpoch

ASSUME BoundAssumption ==
  /\ MaxUid \in Nat \ {0} /\ MaxEpoch \in Nat \ {0}
  /\ {MaxRequests, MaxEvents, MaxLost} \subseteq Nat
  /\ BatchSize \in Nat \ {0} /\ ChunkSize \in Nat \ {0}
ASSUME ServerAssumption ==
  OldDated \subseteq Uids /\ {OldArrives, Condstore} \subseteq BOOLEAN /\ MayOmit \subseteq Fetches

VARIABLES
  server,   \* the mailbox on the IMAP server
  box,      \* the row of mailboxes, and whether the account can be used
  local,    \* mailbox_messages: (UIDVALIDITY, UID) -> flags and MODSEQ
  queued,   \* kinds with a waiting job
  lock,     \* holder of the mailbox lock
  pc,       \* what a handler, or the web request, does next
  run,      \* locals of the handlers
  alerts,   \* notification_events: placements announced as new
  window,   \* history: up to the newest message of the first recent window
  budget    \* what the bounds have left

vars == <<server, box, local, queued, lock, pc, run, alerts, window, budget>>

Processes == Kinds \cup {"web"}
NoRun == [epoch |-> 0, todo |-> {}, got |-> <<>>, any |-> FALSE, complete |-> 0, base |-> 0,
          top |-> 0, seen |-> 0, known |-> {}, gap |-> 0, empty |-> FALSE, frontier |-> 0]
NewBox == [ready |-> TRUE, recent |-> "not_started", epoch |-> 0, none |-> TRUE,
           delta |-> "not_started", deltaEpoch |-> 0, seen |-> 0, modseq |-> 0,
           backfill |-> "not_started", backfillEpoch |-> 0, frontier |-> 0]

MaxModseq == MaxUid * MaxEpoch + MaxEvents + 1
Flags == 1..MaxModseq
Placement == [flags : Flags, known : BOOLEAN]

Steps == {"idle", "start", "select", "search", "fetch", "store", "flags", "removed", "complete",
          "follow", "more", "request", "pending", "throw", "caught"}

ServerType ==
  /\ server.epoch \in Epochs /\ server.next \in 1..MaxUid + 1 /\ server.modseq \in Flags
  /\ DOMAIN server.mail \subseteq 1..server.next - 1
  /\ \A u \in DOMAIN server.mail : server.mail[u] \in 1..server.modseq
BoxType ==
  /\ box.ready \in BOOLEAN /\ box.none \in BOOLEAN
  /\ box.recent \in {"not_started", "pending", "running", "success", "failed"}
  /\ box.delta \in {"not_started", "running", "success", "failed"}
  /\ box.backfill \in {"not_started", "pending", "running", "complete", "failed"}
  /\ \A e \in {box.epoch, box.deltaEpoch, box.backfillEpoch} : e \in Epochs \cup {0}
  /\ \A u \in {box.seen, box.frontier} : u \in Uids \cup {0}
  /\ box.modseq \in Flags \cup {0}
LocalType ==
  /\ DOMAIN local \subseteq Epochs \X Uids
  /\ \A p \in DOMAIN local : local[p] \in Placement
RunType ==
  /\ DOMAIN run = Kinds
  /\ \A k \in Kinds :
       /\ \A e \in {run[k].epoch, run[k].complete} : e \in Epochs \cup {0}
       /\ \A s \in {run[k].todo, run[k].known, DOMAIN run[k].got} : s \subseteq Uids
       /\ \A u \in DOMAIN run[k].got : run[k].got[u] \in Flags
       /\ \A m \in {run[k].base, run[k].top} : m \in Flags \cup {0}
       /\ \A u \in {run[k].seen, run[k].gap, run[k].frontier} : u \in Uids \cup {0}
       /\ run[k].any \in BOOLEAN /\ run[k].empty \in BOOLEAN
ProcessType ==
  /\ queued \subseteq Kinds /\ lock \in Kinds \cup {"none"}
  /\ pc \in [Processes -> Steps]
HistoryType == alerts \subseteq Epochs \X Uids /\ window \subseteq Epochs \X Uids
TypeOK == ServerType /\ BoxType /\ LocalType /\ RunType /\ ProcessType /\ HistoryType

\* Unless old mail can still arrive, it is there when the mailbox is first seen.
Starts(n) == OldArrives \/ OldDated \subseteq 1..n - 1

Init ==
  /\ \E n \in 1..MaxUid : \E present \in SUBSET (1..n - 1) :
       /\ Starts(n)
       /\ server = [epoch |-> 1, next |-> n, modseq |-> 1, mail |-> [u \in present |-> 1]]
       /\ budget = [uids |-> MaxUid - n + 1, events |-> MaxEvents, requests |-> MaxRequests, lost |-> 0]
  /\ box = NewBox
  /\ local = <<>>
  /\ queued = {} /\ lock = "none"
  /\ pc = [p \in Processes |-> "idle"]
  /\ run = [k \in Kinds |-> NoRun]
  /\ alerts = {} /\ window = {}

-----------------------------------------------------------------------------
(* The IMAP server and the account, outside the program.                   *)

program == <<local, queued, lock, pc, run, alerts, window>>

Spend(b) == budget[b] > 0 /\ budget' = [budget EXCEPT ![b] = @ - 1]

Arrive ==
  /\ Spend("uids")
  /\ server' = [server EXCEPT !.next = @ + 1, !.modseq = @ + 1,
       !.mail = [u \in DOMAIN @ \cup {server.next} |->
                   IF u = server.next THEN server.modseq + 1 ELSE @[u]]]
  /\ UNCHANGED <<box, program>>

ChangeFlags ==
  /\ Spend("events")
  /\ \E u \in DOMAIN server.mail :
       server' = [server EXCEPT !.modseq = @ + 1, !.mail[u] = server.modseq + 1]
  /\ UNCHANGED <<box, program>>

Expunge ==
  /\ Spend("events")
  /\ \E u \in DOMAIN server.mail :
       server' = [server EXCEPT !.mail = [v \in DOMAIN @ \ {u} |-> @[v]]]
  /\ UNCHANGED <<box, program>>

\* The mailbox is deleted and made again: another UIDVALIDITY, UIDs from 1.
Renumber ==
  /\ server.epoch < MaxEpoch
  /\ \E n \in {i \in 1..2 : i <= budget.uids + 1} :
       /\ Starts(n)
       /\ server' = [epoch |-> server.epoch + 1, next |-> n, modseq |-> server.modseq,
                     mail |-> [u \in 1..n - 1 |-> server.modseq]]
       /\ budget' = [budget EXCEPT !.uids = @ - n + 1]
  /\ UNCHANGED <<box, program>>

\* The account is disabled or enabled, discovery loses or finds the mailbox.
Toggle ==
  /\ Spend("requests")
  /\ box' = [box EXCEPT !.ready = ~@]
  /\ UNCHANGED <<server, program>>

-----------------------------------------------------------------------------
(* Queues, lock and failures.                                              *)

Goto(p, l) == pc' = [pc EXCEPT ![p] = l]
Enqueue(k) == queued' = queued \cup {k}

\* A handler ends: the job is done, or it threw and waits for its next try
\* unless its retries are used up.
Leave(k) ==
  /\ Goto(k, "idle")
  /\ run' = [run EXCEPT ![k] = NoRun]
  /\ lock' = IF lock = k THEN "none" ELSE lock
Done(k) == Leave(k) /\ UNCHANGED <<queued, budget>>
Retry(k) == \/ Enqueue(k) /\ UNCHANGED budget
            \/ UNCHANGED queued /\ Spend("events")

Busy == lock # "none"

\* registerRecentSyncWorker, registerDeltaWorker: take a job and the lock.
Take(k) ==
  /\ k \in {"recent", "delta"} /\ k \in queued /\ pc[k] = "idle"
  /\ IF Busy
     THEN /\ UNCHANGED <<lock, pc>>
          /\ queued' = queued \ {k} /\ Spend("events")
     ELSE /\ lock' = k /\ Goto(k, "start")
          /\ queued' = queued \ {k} /\ UNCHANGED budget
  /\ UNCHANGED <<server, box, local, run, alerts, window>>

Urgent == queued \cap {"recent", "delta"} # {}

\* registerBackfillWorker: give way to waiting recent and delta jobs.
TakeBackfill ==
  /\ "backfill" \in queued /\ pc["backfill"] = "idle"
  /\ queued' = queued \ {"backfill"}
  /\ IF Urgent
     THEN UNCHANGED <<lock, pc, budget>>
     ELSE IF Busy
          THEN UNCHANGED <<lock, pc>> /\ Spend("events")
          ELSE lock' = "backfill" /\ Goto("backfill", "start") /\ UNCHANGED budget
  /\ UNCHANGED <<server, box, local, run, alerts, window>>

\* An exception: connection, statement, or the session of another epoch.
Throws(k) == pc' = [pc EXCEPT ![k] = "caught"]
Working(k) == pc[k] \notin {"idle", "caught", "request", "pending", "throw"}
Cut(k) == run[k].epoch # 0 /\ run[k].epoch # server.epoch
Fail(k) ==
  /\ Working(k) /\ pc[k] # "start"
  /\ IF Cut(k) THEN UNCHANGED budget ELSE Spend("events")
  /\ Throws(k)
  /\ UNCHANGED <<server, box, local, queued, lock, run, alerts, window>>

\* The worker process dies: its lock goes, its job comes back.
Crash(k) ==
  /\ pc[k] # "idle" /\ Spend("events")
  /\ Leave(k) /\ Enqueue(k)
  /\ UNCHANGED <<server, box, local, alerts, window>>

\* The reserved connection that holds the lock is lost; the work goes on.
LoseSession ==
  /\ Busy /\ budget.events > 0 /\ budget.lost < MaxLost
  /\ budget' = [budget EXCEPT !.events = @ - 1, !.lost = @ + 1]
  /\ lock' = "none"
  /\ UNCHANGED <<server, box, local, queued, pc, run, alerts, window>>

-----------------------------------------------------------------------------
(* Reading the mailbox and storing what was read.                          *)

InWindow == DOMAIN server.mail \ OldDated
Lowest(s, n) == {u \in s : Cardinality({v \in s : v < u}) < n}
Batch(k) == Lowest(run[k].todo, BatchSize)
Highest(s) == Max(s \cup {0})
LocalUids(e) == {u \in Uids : <<e, u>> \in DOMAIN local}
Live(k) == run[k].epoch = server.epoch

\* FETCH answers with what exists and, if the server may, leaves something out.
Answers(kind, asked) ==
  LET there == asked \cap DOMAIN server.mail
  IN {[u \in there \ left |-> server.mail[u]] : left \in IF kind \in MayOmit THEN SUBSET there ELSE {{}}}

Without(f, s) == [p \in DOMAIN f \ s |-> f[p]]
Stale(old, flags, known) == known /\ old.known /\ flags < old.flags

\* persistBatch: update the placements there are, insert the others.
Stored(e, got, known) ==
  [p \in DOMAIN local \cup {<<e, u>> : u \in DOMAIN got} |->
     IF p[1] # e \/ p[2] \notin DOMAIN got THEN local[p]
     ELSE IF p \in DOMAIN local /\ Stale(local[p], got[p[2]], known) THEN local[p]
     ELSE [flags |-> got[p[2]], known |-> known]]

\* persistBatch: inserted placements of a delta run are announced, unless it is
\* the empty bootstrap.  Moved and sent messages are left out.
Announced(r) ==
  IF ~r.empty /\ box.recent = "success" /\ box.epoch = r.epoch /\ box.deltaEpoch = r.epoch
  THEN {<<r.epoch, u>> : u \in DOMAIN r.got} \ DOMAIN local ELSE {}

\* A new epoch: everything that was known of the old one goes.
ForgottenButBackfill(b, e) ==
  [b EXCEPT !.epoch = e, !.delta = "not_started", !.deltaEpoch = 0, !.seen = 0, !.modseq = 0]
Forgotten(b, e) ==
  [b EXCEPT !.epoch = e, !.delta = "not_started", !.deltaEpoch = 0, !.seen = 0, !.modseq = 0,
            !.backfill = "not_started", !.backfillEpoch = 0, !.frontier = 0]

-----------------------------------------------------------------------------
(* The recent window.                                                      *)

\* requestRecentSync: schedule first, then write pending.  The web process, and
\* the handlers that find another epoch, both call it.
Request(p) ==
  /\ pc[p] = "request" /\ box.ready
  /\ Enqueue("recent") /\ Goto(p, "pending")
  /\ UNCHANGED <<server, box, local, lock, run, alerts, window, budget>>

RequestFails(p) ==
  /\ pc[p] = "request"
  /\ IF box.ready THEN Spend("events") /\ box' = [box EXCEPT !.recent = "failed"]
                  ELSE UNCHANGED <<box, budget>>
  /\ Goto(p, IF p = "web" THEN "idle" ELSE "throw")
  /\ UNCHANGED <<server, local, queued, lock, run, alerts, window>>

Pending(p) ==
  /\ pc[p] = "pending"
  /\ box' = [box EXCEPT !.recent = "pending"]
  /\ IF p = "web" THEN Goto(p, "idle") /\ UNCHANGED <<queued, lock, run, budget>> ELSE Done(p)
  /\ UNCHANGED <<server, local, alerts, window>>

Throw(k) ==
  /\ pc[k] = "throw" /\ Leave(k) /\ Retry(k)
  /\ UNCHANGED <<server, box, local, alerts, window>>

\* requestSync of a mailbox that is not synchronized, from the web or discovery.
WebRequest ==
  /\ pc["web"] = "idle" /\ box.ready /\ Spend("requests")
  /\ box.recent # "success" \/ box.epoch = 0
  /\ Goto("web", "request")
  /\ UNCHANGED <<server, box, local, queued, lock, run, alerts, window>>

\* A saved copy or an attachment asks for the job without touching the row.
OtherRequest ==
  /\ Spend("requests") /\ Enqueue("recent")
  /\ UNCHANGED <<server, box, local, lock, pc, run, alerts, window>>

RecentStart ==
  /\ pc["recent"] = "start"
  /\ IF box.ready
     THEN /\ box' = [box EXCEPT !.recent = "running"]
          /\ run' = [run EXCEPT !["recent"].complete =
                       IF box.backfill = "complete" THEN box.backfillEpoch ELSE 0]
          /\ Goto("recent", "select")
     ELSE UNCHANGED <<box, run>> /\ Throws("recent")
  /\ UNCHANGED <<server, local, queued, lock, alerts, window, budget>>

\* SELECT, the transaction of selected, SEARCH SINCE cutoff.
RecentSelect ==
  /\ pc["recent"] = "select"
  /\ LET e == server.epoch
         changed == box.epoch # 0 /\ box.epoch # e
     IN /\ local' = IF changed THEN <<>> ELSE local
        /\ box' = IF changed THEN Forgotten(box, e) ELSE [box EXCEPT !.epoch = e]
        /\ run' = [run EXCEPT !["recent"].epoch = e, !["recent"].todo = InWindow]
  /\ Goto("recent", "fetch")
  /\ UNCHANGED <<server, queued, lock, alerts, window, budget>>

\* FETCH of one batch of k's UIDs.
Fetch(k, kind) ==
  /\ pc[k] = "fetch" /\ run[k].todo # {} /\ Live(k)
  /\ \E got \in Answers(kind, Batch(k)) : run' = [run EXCEPT ![k].got = got]
  /\ Goto(k, "store")
  /\ UNCHANGED <<server, box, local, queued, lock, alerts, window, budget>>

RecentFetch == Fetch("recent", "recent")

\* persistBatch; the window is read without MODSEQ.
RecentStore ==
  /\ pc["recent"] = "store"
  /\ LET r == run["recent"]
     IN /\ local' = Stored(r.epoch, r.got, FALSE)
        /\ run' = [run EXCEPT !["recent"].todo = @ \ Batch("recent"), !["recent"].got = <<>>,
                              !["recent"].any = @ \/ r.got # <<>>]
  /\ Goto("recent", "fetch")
  /\ UNCHANGED <<server, box, queued, lock, alerts, window, budget>>

\* The backfill of the epoch was complete when the run began.
StillComplete(r) == r.complete = r.epoch

RecentFinish ==
  /\ pc["recent"] = "fetch" /\ run["recent"].todo = {} /\ Live("recent")
  /\ box' = [box EXCEPT !.recent = "success", !.none = ~run["recent"].any,
       !.backfill = IF StillComplete(run["recent"]) THEN "complete" ELSE "pending"]
  /\ window' = LET e == run["recent"].epoch
               IN IF box.deltaEpoch = e THEN window
                  ELSE window \cup {<<e, u>> : u \in 1..Highest(LocalUids(e))}
  /\ Goto("recent", "follow")
  /\ UNCHANGED <<server, local, queued, lock, run, alerts, budget>>

RecentFollow ==
  /\ pc["recent"] = "follow"
  /\ Enqueue("backfill") /\ Leave("recent")
  /\ UNCHANGED <<server, box, local, alerts, window, budget>>

RecentCaught ==
  /\ pc["recent"] = "caught"
  /\ box' = [box EXCEPT !.recent = "failed"]
  /\ Leave("recent") /\ Retry("recent")
  /\ UNCHANGED <<server, local, alerts, window>>

-----------------------------------------------------------------------------
(* The delta run.                                                          *)

DeltaStart ==
  /\ pc["delta"] = "start"
  /\ IF box.ready /\ box.recent = "success"
     THEN /\ box' = [box EXCEPT !.delta = "running"] /\ Goto("delta", "select")
          /\ UNCHANGED <<queued, lock, run, budget>>
     ELSE UNCHANGED box /\ Done("delta")
  /\ UNCHANGED <<server, local, alerts, window>>

\* SELECT and selected: another epoch forgets the mailbox, a mailbox without a
\* checkpoint gets one from what is stored, or reads the window once more if the
\* recent run stored nothing.
FirstSeenNone(e) == 0
FirstSeen(e) == Highest(LocalUids(e))

DeltaSelect ==
  /\ pc["delta"] = "select"
  /\ LET e == server.epoch
         first == box.deltaEpoch = 0
         empty == first /\ box.none
         seen == IF first THEN FirstSeen(e) ELSE box.seen
     IN IF box.epoch # e \/ (~first /\ box.deltaEpoch # e)
        THEN /\ local' = <<>>
             /\ box' = [Forgotten(box, e) EXCEPT !.recent = "not_started"]
             /\ Goto("delta", "request") /\ UNCHANGED run
        ELSE /\ UNCHANGED local
             /\ box' = IF first /\ ~empty
                       THEN [box EXCEPT !.deltaEpoch = e, !.seen = seen, !.modseq = 0] ELSE box
             /\ run' = [run EXCEPT !["delta"] =
                  [NoRun EXCEPT !.epoch = e, !.seen = seen, !.known = LocalUids(e),
                                !.base = IF first THEN 0 ELSE box.modseq, !.top = server.modseq,
                                !.empty = empty, !.frontier = server.next - 1,
                                !.todo = IF empty THEN InWindow ELSE {}]]
             /\ Goto("delta", IF empty THEN "fetch" ELSE "search")
  /\ UNCHANGED <<server, queued, lock, alerts, window, budget>>

\* The empty bootstrap is over: everything below UIDNEXT counts as seen.
DeltaAdvance ==
  /\ pc["delta"] = "fetch" /\ run["delta"].empty /\ run["delta"].todo = {}
  /\ LET r == run["delta"]
     IN /\ box' = [box EXCEPT !.deltaEpoch = r.epoch, !.seen = r.frontier]
        /\ run' = [run EXCEPT !["delta"].seen = r.frontier, !["delta"].empty = FALSE]
  /\ Goto("delta", "search")
  /\ UNCHANGED <<server, local, queued, lock, alerts, window, budget>>

DeltaSearch ==
  /\ pc["delta"] = "search" /\ Live("delta")
  /\ run' = [run EXCEPT !["delta"].todo = {u \in DOMAIN server.mail : u > run["delta"].seen}]
  /\ Goto("delta", "fetch")
  /\ UNCHANGED <<server, box, local, queued, lock, alerts, window, budget>>

DeltaFetch == Fetch("delta", IF run["delta"].empty THEN "empty" ELSE "delta")

\* The checkpoint follows the fetched UIDs up to the first gap.
ThroughAll(r, gap) == Highest({r.seen} \cup DOMAIN r.got)
Through(r, gap) == Highest({r.seen} \cup {u \in DOMAIN r.got : gap = 0 \/ u < gap})

\* newBatch.
DeltaStore ==
  /\ pc["delta"] = "store"
  /\ LET r == run["delta"]
         left == Batch("delta") \ DOMAIN r.got
         gap == IF r.gap = 0 /\ left # {} THEN Min(left) ELSE r.gap
         through == Through(r, gap)
     IN /\ local' = Stored(r.epoch, r.got, Condstore)
        /\ alerts' = alerts \cup Announced(r)
        /\ box' = IF ~r.empty /\ r.got # <<>> /\ box.deltaEpoch = r.epoch
                  THEN [box EXCEPT !.seen = through] ELSE box
        /\ run' = [run EXCEPT !["delta"] =
             [r EXCEPT !.todo = @ \ Batch("delta"), !.got = <<>>,
                       !.gap = IF r.empty THEN 0 ELSE gap,
                       !.seen = IF r.empty \/ r.got = <<>> THEN @ ELSE through]]
  /\ Goto("delta", "fetch")
  /\ UNCHANGED <<server, queued, lock, window, budget>>

\* Flags changed since the checkpoint, or without one those of all known UIDs.
DeltaFetchFlags ==
  /\ pc["delta"] = "fetch" /\ ~run["delta"].empty /\ run["delta"].todo = {} /\ Live("delta")
  /\ LET r == run["delta"]
         asked == IF Condstore /\ r.base # 0
                  THEN {u \in DOMAIN server.mail : server.mail[u] > r.base}
                  ELSE r.known \cap DOMAIN server.mail
     IN run' = [run EXCEPT !["delta"].got = [u \in asked |-> server.mail[u]]]
  /\ Goto("delta", "flags")
  /\ UNCHANGED <<server, box, local, queued, lock, alerts, window, budget>>

DeltaStoreFlags ==
  /\ pc["delta"] = "flags"
  /\ LET r == run["delta"]
     IN local' = [p \in DOMAIN local |->
          IF p[1] = r.epoch /\ p[2] \in DOMAIN r.got /\ ~Stale(local[p], r.got[p[2]], Condstore)
          THEN [flags |-> r.got[p[2]], known |-> Condstore] ELSE local[p]]
  /\ Goto("delta", "removed")
  /\ UNCHANGED <<server, box, queued, lock, run, alerts, window, budget>>

DeltaRemove ==
  /\ pc["delta"] = "removed" /\ Live("delta")
  /\ local' = Without(local, {<<server.epoch, u>> : u \in run["delta"].known \ DOMAIN server.mail})
  /\ Goto("delta", "complete")
  /\ UNCHANGED <<server, box, queued, lock, run, alerts, window, budget>>

\* The MODSEQ of SELECT is the new checkpoint: a later one could hide a change.
CheckpointNow(r) == IF Condstore THEN server.modseq ELSE 0
Checkpoint(r) == IF Condstore THEN r.top ELSE 0

\* completed; a connection that was lost by then fails the run all the same.
DeltaComplete ==
  /\ pc["delta"] = "complete"
  /\ box' = IF box.deltaEpoch = run["delta"].epoch
            THEN [box EXCEPT !.delta = "success", !.modseq = Checkpoint(run["delta"])]
            ELSE box
  /\ \/ Done("delta")
     \/ Throws("delta") /\ Spend("events") /\ UNCHANGED <<queued, lock, run>>
  /\ UNCHANGED <<server, local, alerts, window>>

DeltaCaught ==
  /\ pc["delta"] = "caught"
  /\ box' = [box EXCEPT !.delta = "failed"]
  /\ Leave("delta") /\ Retry("delta")
  /\ UNCHANGED <<server, local, alerts, window>>

\* DeltaPoller, IDLE watchers, a manual refresh.
DeltaPoll ==
  /\ box.ready /\ box.recent = "success"
  /\ Enqueue("delta")
  /\ UNCHANGED <<server, box, local, lock, pc, run, alerts, window, budget>>

-----------------------------------------------------------------------------
(* The backfill.                                                           *)

Eligible == box.ready /\ box.recent = "success" /\ box.epoch # 0

\* Under the lock: the queues again, then the row.
BackfillStart ==
  /\ pc["backfill"] = "start"
  /\ IF Urgent \/ ~Eligible \/ (box.backfillEpoch = box.epoch /\ box.backfill = "complete")
     THEN Done("backfill")
     ELSE /\ run' = [run EXCEPT !["backfill"].epoch = box.epoch,
                  !["backfill"].seen = IF box.backfillEpoch = box.epoch THEN 1 ELSE 0,
                  !["backfill"].frontier = IF box.backfillEpoch = box.epoch THEN box.frontier ELSE 0]
          /\ Goto("backfill", "select") /\ UNCHANGED <<queued, lock, budget>>
  /\ UNCHANGED <<server, box, local, alerts, window>>

\* The first UID of the chunk that ends at a frontier.
LowerUnbounded(from) == from - ChunkSize + 1
Lower(from) == Highest({1, from - ChunkSize + 1})

\* SELECT and selected; the range below the frontier is searched.
BackfillSelect ==
  /\ pc["backfill"] = "select"
  /\ LET r == run["backfill"]
         from == IF r.seen = 1 THEN r.frontier ELSE server.next - 1
         lower == Lower(from)
     IN IF server.epoch # r.epoch
        THEN /\ box' = [box EXCEPT !.backfill = "not_started", !.backfillEpoch = 0, !.frontier = 0]
             /\ Goto("backfill", "request") /\ UNCHANGED run
        ELSE /\ box' = IF box.epoch = r.epoch
                       THEN [box EXCEPT !.backfill = "running", !.backfillEpoch = r.epoch, !.frontier = from]
                       ELSE box
             /\ run' = [run EXCEPT !["backfill"].frontier = from, !["backfill"].seen = lower - 1,
                                   !["backfill"].todo = DOMAIN server.mail \cap lower..from]
             /\ Goto("backfill", "fetch")
  /\ UNCHANGED <<server, local, queued, lock, alerts, window, budget>>

\* A message of the range that FETCH leaves out and SEARCH still finds fails the run.
BackfillFetch ==
  /\ pc["backfill"] = "fetch" /\ Live("backfill")
  /\ \E got \in Answers("backfill", run["backfill"].todo) :
       /\ run' = [run EXCEPT !["backfill"].got = got]
       /\ Goto("backfill", IF run["backfill"].todo \cap DOMAIN server.mail \subseteq DOMAIN got
                           THEN "store" ELSE "caught")
  /\ UNCHANGED <<server, box, local, queued, lock, alerts, window, budget>>

UnmovedAlways(r) == TRUE
Unmoved(r) == box.backfillEpoch = r.epoch /\ box.frontier = r.frontier /\ box.epoch = r.epoch

\* persistBatch with the frontier: compared and set in the transaction that stores.
BackfillStore ==
  /\ pc["backfill"] = "store"
  /\ LET r == run["backfill"]
     IN IF Unmoved(r)
        THEN /\ local' = Stored(r.epoch, r.got, Condstore)
             /\ box' = [box EXCEPT !.frontier = r.seen,
                                   !.backfill = IF r.seen = 0 THEN "complete" ELSE "pending"]
             /\ Goto("backfill", "more")
        ELSE UNCHANGED <<local, box>> /\ Throws("backfill")
  /\ UNCHANGED <<server, queued, lock, run, alerts, window, budget>>

\* The lock is released, then the next chunk gets a job of its own.
BackfillMore ==
  /\ pc["backfill"] = "more" /\ Leave("backfill")
  /\ IF run["backfill"].seen = 0 THEN UNCHANGED queued ELSE Enqueue("backfill")
  /\ UNCHANGED <<server, box, local, alerts, window, budget>>

BackfillCaught ==
  /\ pc["backfill"] = "caught"
  /\ box' = IF box.backfillEpoch = run["backfill"].epoch THEN [box EXCEPT !.backfill = "failed"] ELSE box
  /\ Leave("backfill") /\ Retry("backfill")
  /\ UNCHANGED <<server, local, alerts, window>>

UnfilledPending == box.backfill \in {"not_started", "pending"}
Unfilled == box.backfill # "complete"

BackfillPoll ==
  /\ Eligible /\ Unfilled
  /\ Enqueue("backfill")
  /\ UNCHANGED <<server, box, local, lock, pc, run, alerts, window, budget>>

-----------------------------------------------------------------------------
Environment == Arrive \/ ChangeFlags \/ Expunge \/ Renumber \/ Toggle
Recent == \/ RecentStart \/ RecentSelect \/ RecentFetch \/ RecentStore \/ RecentFinish
          \/ RecentFollow \/ RecentCaught
Delta == \/ DeltaStart \/ DeltaSelect \/ DeltaAdvance \/ DeltaSearch \/ DeltaFetch \/ DeltaStore
         \/ DeltaFetchFlags \/ DeltaStoreFlags \/ DeltaRemove \/ DeltaComplete \/ DeltaCaught
Backfill == \/ BackfillStart \/ BackfillSelect \/ BackfillFetch \/ BackfillStore
            \/ BackfillMore \/ BackfillCaught
Requests == \E p \in Processes : Request(p) \/ RequestFails(p) \/ Pending(p)
Polls == DeltaPoll \/ BackfillPoll
Faults == (\E k \in Kinds : Fail(k) \/ Crash(k)) \/ LoseSession

Next == \/ Environment \/ Recent \/ Delta \/ Backfill \/ Requests \/ Polls \/ Faults
        \/ (\E k \in Kinds : Take(k) \/ Throw(k)) \/ TakeBackfill
        \/ WebRequest \/ OtherRequest

Spec == Init /\ [][Next]_vars

\* A worker goes on with what it has begun, jobs wait until the lock is free, and
\* the pollers come back.  A delta job comes once a minute and its run takes
\* seconds, so now and then a waiting backfill finds the lock free and no other job.
Moment == "backfill" \in queued /\ ~Urgent /\ ~Busy
Fairness ==
  /\ WF_vars(Recent) /\ WF_vars(Delta) /\ WF_vars(Backfill) /\ WF_vars(Requests)
  /\ \A k \in Kinds : WF_vars(Throw(k))
  /\ \A k \in {"recent", "delta"} : SF_vars(Take(k) /\ lock' = k)
  /\ SF_vars(TakeBackfill /\ lock' = "backfill") /\ SF_vars(BackfillStart /\ pc'["backfill"] = "select")
  /\ WF_vars(DeltaPoll) /\ WF_vars(BackfillPoll)
  /\ []<>(Eligible /\ Unfilled => Moment)
  /\ \A k \in Kinds : WF_vars(Cut(k) /\ Fail(k))

LiveSpec == Spec /\ Fairness

-----------------------------------------------------------------------------
(* Properties.                                                             *)

\* The synchronization state of the mailbox that the server holds now.
Current == box.epoch = server.epoch /\ box.deltaEpoch = server.epoch

\* No message is skipped: below the delta checkpoint a message is stored or lies
\* below the frontier that the backfill has still to reach.
NothingSkipped ==
  Current => \A u \in DOMAIN server.mail :
    \/ <<server.epoch, u>> \in DOMAIN local
    \/ u > box.seen
    \/ box.backfillEpoch # server.epoch \/ u <= box.frontier

\* A backfill that is called complete has reached the first UID of the epoch that
\* is shown; and placements, the delta checkpoint and the backfill frontier are of
\* one epoch, as long as the lock keeps the runs apart.
OneEpoch ==
  /\ TypeOK
  /\ box.backfill = "complete" => box.backfillEpoch = box.epoch /\ box.frontier = 0
  /\ budget.lost = 0 =>
       /\ \A p \in DOMAIN local : p[1] = box.epoch
       /\ {box.deltaEpoch, box.backfillEpoch} \subseteq {0, box.epoch}

\* Flags that differ from the server's are newer there than the checkpoint, as
\* long as the lock keeps the runs apart.
FlagsWillFollow ==
  budget.lost = 0 /\ Current /\ Condstore /\ box.modseq # 0 => \A u \in DOMAIN server.mail :
    <<server.epoch, u>> \in DOMAIN local /\ local[<<server.epoch, u>>].flags # server.mail[u] =>
      server.mail[u] > box.modseq

\* What is as old as the newest message of the first recent window is never
\* announced as new, as long as the lock keeps the runs apart.
AlertsAreArrivals == budget.lost = 0 => alerts \cap window = {}

\* A mailbox that stays available and had its first synchronization ends up as a
\* copy of what the server holds, once the server is quiet.
Mirrored ==
  /\ box.epoch = server.epoch
  /\ DOMAIN local = {<<server.epoch, u>> : u \in DOMAIN server.mail}
  /\ \A u \in DOMAIN server.mail : local[<<server.epoch, u>>].flags = server.mail[u]
Converges == <>[](box.ready /\ box.recent = "success") => <>[]Mirrored
=============================================================================
