-------------------------- MODULE MailboxDiscovery --------------------------
(***************************************************************************)
(* Which mailboxes an account has, and which of them has a role (Sent,      *)
(* Archive...): a request in the web process, the stately queue             *)
(* mailbox-discovery-v1, MailboxDiscoveryService.run, reconcile() and the    *)
(* roles, while mailboxes are renamed, removed and created on the server.   *)
(* A handler that outlives the expiry of its job runs beside the next one.   *)
(***************************************************************************)
EXTENDS Integers, FiniteSets

CONSTANTS
  Special,      \* mailboxes that the server marks for the role
  RetryLimit,   \* retryLimit of the queue
  MaxPaths,     \* bound: paths
  MaxBoxes,     \* bound: mailboxes that ever exist on the server
  MaxRows,      \* bound: rows of mailboxes
  MaxChanges,   \* bound: changes on the server
  MaxAsks,      \* bound: requests, and changes of the account
  MaxChoices,   \* bound: changes of the role by the owner
  MaxFaults,    \* bound: failed listings and sends, dead workers
  MaxOutlived   \* bound: handlers that outlive their job

DiscoveryAssumption ==
  /\ {MaxPaths, MaxBoxes, MaxRows} \subseteq Nat \ {0}
  /\ {RetryLimit, MaxChanges, MaxAsks, MaxChoices, MaxFaults, MaxOutlived} \subseteq Nat

Paths == 1..MaxPaths
Boxes == 1..MaxBoxes
Rows == 1..MaxRows
None == 0
Handlers == {"current", "outlived"}

VARIABLES
  server,    \* path -> mailbox, and whether the server tells mailbox ids
  created,   \* mailboxes created so far
  row,       \* mailboxes: provider id, path, active, marked for the role
  stands,    \* history: the mailbox that a row stood for when it was last seen
  blind,     \* history: a listing without ids was applied to rows that had some
  role,      \* mailbox_roles: the row, and where the mapping comes from
  chosen,    \* history: the mailbox, known by its id, that the owner chose
  enabled,   \* mail_accounts.enabled
  status,    \* mailboxDiscoveryStatus
  job,       \* a job that waits, the tries of one to repeat and of one that runs
  work,      \* the handlers: step, listing, and whether it is younger than the request
  web,       \* a request: what it does next
  asked,     \* history: a request that no listing has answered
  spent,     \* history: a worker died on the last try
  budget     \* what the bounds have left

vars == <<server, created, row, stands, blind, role, chosen, enabled, status, job, work, web, asked, spent, budget>>
remote == <<server, created>>
local == <<row, stands, blind>>
mapping == <<role, chosen>>
queue == <<job, web, asked, spent>>

Unused == [id |-> None, path |-> None, active |-> FALSE, special |-> FALSE]
NoListing == [at |-> [p \in {} |-> None], ids |-> FALSE]
NoWork == [pc |-> "idle", listing |-> NoListing, young |-> FALSE]
NoRole == [row |-> None, source |-> "none"]

Init ==
  /\ server = [at |-> [p \in {1} |-> 1], ids |-> FALSE] \/ server = [at |-> [p \in {1} |-> 1], ids |-> TRUE]
  /\ created = 1
  /\ row = [r \in Rows |-> Unused] /\ stands = [r \in Rows |-> None] /\ blind = FALSE
  /\ role = NoRole /\ chosen = None
  /\ enabled = TRUE /\ status = "not_started"
  /\ job = [waits |-> FALSE, again |-> 0, runs |-> 0]
  /\ work = [h \in Handlers |-> NoWork]
  /\ web = "none" /\ asked = FALSE /\ spent = FALSE
  /\ budget = [changes |-> MaxChanges, asks |-> MaxAsks, choices |-> MaxChoices, faults |-> MaxFaults, outlived |-> MaxOutlived]

Spend(what) == budget[what] > 0 /\ budget' = [budget EXCEPT ![what] = @ - 1]

-----------------------------------------------------------------------------
(* The server *)

\* Another client renames, removes or creates a mailbox, or the server is
\* upgraded and tells the ids of its mailboxes from now on.
ServerChanges ==
  /\ Spend("changes")
  /\ LET at == server.at
         used == DOMAIN at
     IN \/ \E p \in used, q \in Paths \ used :
             /\ server' = [server EXCEPT !.at = [x \in (used \ {p}) \cup {q} |-> at[IF x = q THEN p ELSE x]]]
             /\ UNCHANGED created
        \/ \E p \in used : /\ server' = [server EXCEPT !.at = [x \in used \ {p} |-> at[x]]]
                           /\ UNCHANGED created
        \/ \E q \in Paths \ used :
             /\ created < MaxBoxes /\ created' = created + 1
             /\ server' = [server EXCEPT !.at = [x \in used \cup {q} |-> IF x = q THEN created' ELSE at[x]]]
        \/ ~server.ids /\ server' = [server EXCEPT !.ids = TRUE] /\ UNCHANGED created
  /\ UNCHANGED <<local, mapping, enabled, status, queue, work>>

-----------------------------------------------------------------------------
(* Requests: AccountsService *)

\* setEnabled(false)
Disable ==
  /\ enabled /\ enabled' = FALSE /\ Spend("asks")
  /\ UNCHANGED <<remote, local, mapping, status, queue, work>>

\* create, update and setEnabled(true) of an enabled account, and
\* requestMailboxDiscovery: what they write themselves comes first.
Ask ==
  /\ web = "none" /\ web' = "send" /\ enabled' = TRUE /\ Spend("asks")
  /\ UNCHANGED <<remote, local, mapping, status, job, asked, spent, work>>

\* scheduleDiscovery(): the job first; there may be one that waits already.
Send ==
  /\ web = "send"
  /\ \/ /\ web' = IF job.waits THEN "coalesced" ELSE "sent"
        /\ job' = [job EXCEPT !.waits = TRUE]
        /\ asked' = TRUE
        /\ work' = [h \in Handlers |-> [work[h] EXCEPT !.young = FALSE]]
        /\ UNCHANGED budget
     \/ web' = "refused" /\ Spend("faults") /\ UNCHANGED <<job, asked, work>>
  /\ UNCHANGED <<remote, local, mapping, enabled, status, spent>>

\* Then the row, whatever a worker has written meanwhile.
Mark ==
  /\ web \in {"sent", "coalesced", "refused"}
  /\ status' = CASE web = "sent" -> "pending"
                 [] web = "refused" -> "failed"
                 [] web = "coalesced" -> IF status = "failed" THEN "pending" ELSE status
  /\ web' = "none"
  /\ UNCHANGED <<remote, local, mapping, enabled, job, asked, spent, work, budget>>

-----------------------------------------------------------------------------
(* The worker: MailboxDiscoveryService.run *)

\* The worker takes a job while none of the account's runs.
Take ==
  /\ work["current"] = NoWork /\ job.runs = 0
  /\ \/ job.waits /\ job' = [job EXCEPT !.waits = FALSE, !.runs = 1]
     \/ job.again > 0 /\ job' = [job EXCEPT !.again = 0, !.runs = job.again + 1]
  /\ work' = [work EXCEPT !["current"] = [NoWork EXCEPT !.pc = "start"]]
  /\ UNCHANGED <<remote, local, mapping, enabled, status, web, asked, spent, budget>>

Goto(h, pc) == work' = [work EXCEPT ![h].pc = pc]
Start(h) ==
  /\ work[h].pc = "start"
  /\ status' = "running" /\ Goto(h, "list")
  /\ UNCHANGED <<remote, local, mapping, enabled, queue, budget>>

\* getProviderImapAccountForWork, and listMailboxes
List(h) ==
  /\ work[h].pc = "list"
  /\ \/ /\ enabled
        /\ work' = [work EXCEPT ![h] = [pc |-> "reconcile", listing |-> server, young |-> asked]]
        /\ UNCHANGED budget
     \/ ~enabled /\ Goto(h, "fail") /\ UNCHANGED budget
     \/ enabled /\ Goto(h, "fail") /\ Spend("faults")
  /\ UNCHANGED <<remote, local, mapping, enabled, status, queue>>

\* reconcile(): a listed mailbox is the row with its id; failing that the active
\* row at its path, if the mailbox has an id only one that has none.  (No two
\* mailboxes of a listing match one row, so the set of used rows plays no part.)
ByPathAny(l, p) == {r \in Rows : row[r].active /\ row[r].path = p}
ByPath(l, p) == {r \in Rows : row[r].active /\ row[r].path = p /\ (l.ids => row[r].id = None)}
ById(l, p) == {r \in Rows : l.ids /\ row[r].id = l.at[p]}
Match(l, p) == IF ById(l, p) # {} THEN ById(l, p) ELSE ByPath(l, p)

Known == {r \in Rows : row[r] # Unused}
New(l) == {p \in DOMAIN l.at : Match(l, p) = {}}
NewRow(l, p) == Cardinality(Known) + Cardinality({q \in New(l) : q <= p})
Target(l, p) == IF p \in New(l) THEN {NewRow(l, p)} ELSE Match(l, p)

Observed(l, p, r) ==
  [id |-> IF l.ids THEN l.at[p] ELSE row[r].id, path |-> p, active |-> TRUE, special |-> l.at[p] \in Special]

Reconcile(h) ==
  LET l == work[h].listing
      at(r) == {p \in DOMAIN l.at : r \in Target(l, p)}
  IN /\ work[h].pc = "reconcile"
     /\ Cardinality(Known) + Cardinality(New(l)) <= MaxRows
     /\ row' = [r \in Rows |-> IF at(r) # {} THEN Observed(l, CHOOSE p \in at(r) : TRUE, r)
                                             ELSE [row[r] EXCEPT !.active = FALSE]]
     /\ stands' = [r \in Rows |-> IF at(r) # {} THEN l.at[CHOOSE p \in at(r) : TRUE] ELSE stands[r]]
     /\ blind' = (blind \/ (~l.ids /\ \E r \in Rows : row[r].id # None))
     /\ asked' = (asked /\ ~work[h].young)
     /\ Goto(h, "detect")
     /\ UNCHANGED <<remote, mapping, enabled, status, job, web, spent, budget>>

\* autodetectMissing(): a role without a mapping, one mailbox marked for it.
Marked == {r \in Rows : row[r].active /\ row[r].special}
Detected == IF role = NoRole /\ Cardinality(Marked) = 1
            THEN [row |-> CHOOSE r \in Marked : TRUE, source |-> "special_use"] ELSE role
Detect(h) ==
  /\ work[h].pc = "detect"
  /\ role' = Detected
  /\ Goto(h, "success")
  /\ UNCHANGED <<remote, local, chosen, enabled, status, queue, budget>>

Succeed(h) ==
  /\ work[h].pc = "success"
  /\ status' = "success"
  /\ work' = [work EXCEPT ![h] = NoWork]
  /\ job' = IF h = "current" THEN [job EXCEPT !.runs = 0] ELSE job
  /\ UNCHANGED <<remote, local, mapping, enabled, web, asked, spent, budget>>

\* The catch block; the job is tried again while it has tries left.
RepeatNever == [job EXCEPT !.runs = 0]
Repeat == [job EXCEPT !.runs = 0, !.again = IF job.runs <= RetryLimit THEN job.runs ELSE job.again]
Over == job.runs > RetryLimit /\ ~job.waits /\ job.again = 0
Fail(h) ==
  /\ work[h].pc = "fail"
  /\ status' = "failed"
  /\ work' = [work EXCEPT ![h] = NoWork]
  /\ job' = IF h = "current" THEN Repeat ELSE job
  /\ asked' = (asked /\ ~(h = "current" /\ Over))
  /\ UNCHANGED <<remote, local, mapping, enabled, web, spent, budget>>

Run(h) == Start(h) \/ List(h) \/ Reconcile(h) \/ Detect(h) \/ Succeed(h) \/ Fail(h)

\* The worker dies, and pg-boss tries the expired job again.
Die ==
  /\ work["current"] # NoWork /\ Spend("faults")
  /\ work' = [h \in Handlers |-> NoWork]
  /\ job' = Repeat
  /\ spent' = (spent \/ Over)
  /\ UNCHANGED <<remote, local, mapping, enabled, status, web, asked>>

\* A handler is slower than the 120 seconds of its job.
Outlive ==
  /\ work["current"] # NoWork /\ work["outlived"] = NoWork /\ Spend("outlived")
  /\ work' = [work EXCEPT !["outlived"] = work["current"], !["current"] = NoWork]
  /\ job' = Repeat
  /\ spent' = (spent \/ Over)
  /\ UNCHANGED <<remote, local, mapping, enabled, status, web, asked>>

-----------------------------------------------------------------------------
(* Roles: MailboxRoleService *)

SetManual ==
  /\ Spend("choices")
  /\ \E r \in Rows : /\ row[r].active
                     /\ role' = [row |-> r, source |-> "manual"]
                     /\ chosen' = row[r].id
  /\ UNCHANGED <<remote, local, enabled, status, queue, work>>

ClearManual ==
  /\ role.source = "manual"
  /\ role' = IF Cardinality(Marked) = 1
             THEN [row |-> CHOOSE r \in Marked : TRUE, source |-> "special_use"] ELSE NoRole
  /\ chosen' = None
  /\ UNCHANGED <<remote, local, enabled, status, queue, work, budget>>

\* resolveMappedMailbox(): a manual mapping to an active row, or a detected one
\* that is still the only one marked.
Resolved ==
  IF role.row # None /\ row[role.row].active /\ (role.source = "special_use" => Marked = {role.row})
  THEN role.row ELSE None

-----------------------------------------------------------------------------
Worker == Take \/ Run("current")
Web == Send \/ Mark

Next == \/ ServerChanges \/ Disable \/ Ask \/ Web
        \/ Worker \/ Run("outlived") \/ Die \/ Outlive
        \/ SetManual \/ ClearManual

Spec == Init /\ [][Next]_vars

\* The worker takes jobs and goes on with them, and so does a request.
FairSpec == Spec /\ WF_vars(Worker) /\ WF_vars(Web)

-----------------------------------------------------------------------------
MailboxRow == [id : Boxes \cup {None}, path : Paths \cup {None}, active : BOOLEAN, special : BOOLEAN]
RoleRow == [row : Rows \cup {None}, source : {"none", "special_use", "manual"}]
Statuses == {"not_started", "pending", "running", "success", "failed"}
JobState == [waits : BOOLEAN, again : 0..RetryLimit, runs : 0..RetryLimit + 1]

TypeOK ==
  /\ DOMAIN server.at \subseteq Paths /\ server.ids \in BOOLEAN /\ created \in Boxes
  /\ row \in [Rows -> MailboxRow]
  /\ stands \in [Rows -> Boxes \cup {None}] /\ blind \in BOOLEAN
  /\ role \in RoleRow
  /\ status \in Statuses
  /\ job \in JobState
  /\ web \in {"none", "send", "sent", "coalesced", "refused"}

\* The mailbox that the owner chose for a role, once the server had told its id,
\* is the one that the role resolves to, or there is none: not another mailbox
\* that was given its name, whatever is renamed, removed, created and listed in
\* an order nobody expects.  But for a listing that is older than the ids and is
\* applied after one that told them: its mailboxes go to the rows at their paths.
ChosenStays == ~blind /\ chosen # None /\ Resolved # None => stands[Resolved] = chosen

\* What was asked for is listed, by a listing that is younger than the request,
\* or has failed as often as the queue tries: requests that coalesce, tries that
\* fail and workers that die lose none, but for a death on the last try.
ListingFollows == asked ~> (~asked \/ spent)
=============================================================================
