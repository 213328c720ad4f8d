--------------------------- MODULE MessageContent ---------------------------
(***************************************************************************)
(* The text of one message: the reader that opens the message and polls    *)
(* (mail-client.tsx), MessageContentService.request in the web process,     *)
(* the queue message-content-fetch-v1, and MessageContentService.run in the *)
(* worker.  No poller repairs what this chain loses.                       *)
(*                                                                         *)
(* The queue is stately with the key mailbox:message, so each mailbox that *)
(* holds the message has at most one job that waits, one that waits to be   *)
(* tried again and one that runs.                                          *)
(***************************************************************************)
EXTENDS Integers

CONSTANTS
  Boxes,        \* mailboxes that hold the message
  None,         \* no mailbox
  RetryLimit,   \* retryLimit of the queue
  MaxChanges,   \* bound: changes of the account and of the placements
  MaxFaults,    \* bound: failed fetches, failed sends, dead processes
  MaxOutlived   \* bound: handlers that outlive the expiry of their job

Handlers == {"current", "outlived"}
Statuses == {"not_fetched", "pending", "fetching", "ready", "failed"}

ContentAssumption ==
  /\ None \notin Boxes
  /\ {RetryLimit, MaxChanges, MaxFaults, MaxOutlived} \subseteq Nat

VARIABLES
  content,   \* the row of message_contents; body is the sanitized text and its policy
  usable,    \* mailboxes whose placement, account and UIDVALIDITY allow a fetch
  jobs,      \* per mailbox: a job that waits, the tries of one to repeat and of one that runs
  work,      \* the handlers of the worker
  boss,      \* the queue client of the web process
  request,   \* a request in the web process: its mailbox, and whether row or job is next
  spent,     \* history: a process died whose part in the fetch nobody repeats
  reader,    \* the open message: its mailbox, and the status it shows
  budget     \* what the bounds have left

vars == <<content, usable, jobs, work, boss, request, spent, reader, budget>>

NoRequest == [box |-> None, pc |-> "none"]
NoWork == [box |-> None, pc |-> "idle", try |-> 0]
JobState == [waits : BOOLEAN, again : 0..RetryLimit, runs : 0..RetryLimit + 1]
Boss == {"new", "started", "broken"}
Pane == [box : Boxes \cup {None}, shows : Statuses \cup {"loading", "error"}]

TypeOK ==
  /\ content \in [status : Statuses, body : {"none", "old", "new"}]
  /\ content.status = "ready" => content.body # "none"
  /\ usable \subseteq Boxes
  /\ jobs \in [Boxes -> JobState]
  /\ work \in [Handlers -> [box : Boxes \cup {None},
                            pc : {"idle", "read", "mark", "fetch", "write", "fail"}, try : 0..RetryLimit + 1]]
  /\ boss \in Boss
  /\ request \in [box : Boxes \cup {None}, pc : {"none", "row", "job"}]
  /\ reader \in Pane

Init ==
  /\ content \in {[status |-> "not_fetched", body |-> "none"], [status |-> "ready", body |-> "old"]}
  /\ usable = Boxes
  /\ jobs = [b \in Boxes |-> [waits |-> FALSE, again |-> 0, runs |-> 0]]
  /\ work = [h \in Handlers |-> NoWork]
  /\ boss = "new"
  /\ request = NoRequest
  /\ spent = FALSE
  /\ reader = [box |-> None, shows |-> "loading"]
  /\ budget = [changes |-> MaxChanges, faults |-> MaxFaults, outlived |-> MaxOutlived]

Spend(what) == budget[what] > 0 /\ budget' = [budget EXCEPT ![what] = @ - 1]
SetStatus(s) == content' = [content EXCEPT !.status = s]

-----------------------------------------------------------------------------
(* The reader *)

Open(b) ==
  /\ reader.box = None
  /\ reader' = [box |-> b, shows |-> "loading"]
  /\ UNCHANGED <<content, usable, jobs, work, boss, request, spent, budget>>

Close ==
  /\ reader.box # None
  /\ reader' = [box |-> None, shows |-> "loading"]
  /\ UNCHANGED <<content, usable, jobs, work, boss, request, spent, budget>>

Current == content.status = "ready" /\ content.body = "new"
UnderWay == content.status \in {"pending", "fetching"}

\* MessageContentService.request: the row is read here and written later.
Ask(b) ==
  IF b \notin usable
  THEN reader' = [reader EXCEPT !.shows = "error"] /\ UNCHANGED request
  ELSE /\ reader' = [reader EXCEPT !.shows = "pending"]
       /\ request' = IF Current \/ UnderWay THEN NoRequest ELSE [box |-> b, pc |-> "row"]

\* A poll: the status that detail() reports; unfetched text, and text of an
\* older sanitizer policy, is asked for.
Poll ==
  /\ reader.box # None /\ request = NoRequest
  /\ reader.shows \in {"loading", "pending", "fetching"}
  /\ IF content.status = "not_fetched" \/ (content.status = "ready" /\ content.body = "old")
     THEN Ask(reader.box)
     ELSE reader' = [reader EXCEPT !.shows = content.status] /\ UNCHANGED request
  /\ UNCHANGED <<content, usable, jobs, work, boss, spent, budget>>

\* "Retry" in the reader.
Retry ==
  /\ reader.box # None /\ request = NoRequest /\ reader.shows \in {"failed", "error"}
  /\ Ask(reader.box)
  /\ UNCHANGED <<content, usable, jobs, work, boss, spent, budget>>

-----------------------------------------------------------------------------
(* The web process *)

WriteRow ==
  /\ request.pc = "row"
  /\ SetStatus("pending")
  /\ request' = [request EXCEPT !.pc = "job"]
  /\ UNCHANGED <<usable, jobs, work, boss, spent, reader, budget>>

\* schedule(): the queue client is started once; a start that failed is kept.
Scheduled ==
  /\ request.pc = "job" /\ boss # "broken"
  /\ boss' = "started"
  /\ jobs' = [jobs EXCEPT ![request.box].waits = TRUE]
  /\ request' = NoRequest
  /\ UNCHANGED <<content, usable, work, spent, reader, budget>>

UnscheduledForgotten == UNCHANGED content
Unscheduled == IF content.status = "pending" THEN SetStatus("failed") ELSE UNCHANGED content
NotScheduled ==
  /\ request.pc = "job"
  /\ \/ boss = "broken" /\ UNCHANGED <<boss, budget>>
     \/ boss # "broken" /\ boss' = (IF boss = "new" THEN "broken" ELSE boss) /\ Spend("faults")
  /\ Unscheduled
  /\ request' = NoRequest
  /\ reader' = [reader EXCEPT !.shows = IF reader.box = None THEN "loading" ELSE "error"]
  /\ UNCHANGED <<usable, jobs, work, spent>>

WebCrash ==
  /\ boss # "new" \/ request # NoRequest
  /\ boss' = "new" /\ request' = NoRequest
  /\ spent' = (spent \/ request.pc = "job")
  /\ Spend("faults")
  /\ UNCHANGED <<content, usable, jobs, work, reader>>

-----------------------------------------------------------------------------
(* The worker *)

Goto(h, pc) == work' = [work EXCEPT ![h].pc = pc]

\* The worker takes a job of a mailbox that has none running.
Take(b) ==
  /\ work["current"] = NoWork /\ jobs[b].runs = 0
  /\ \/ /\ jobs[b].waits
        /\ jobs' = [jobs EXCEPT ![b].waits = FALSE, ![b].runs = 1]
     \/ /\ jobs[b].again > 0
        /\ jobs' = [jobs EXCEPT ![b].again = 0, ![b].runs = jobs[b].again + 1]
  /\ work' = [work EXCEPT !["current"] = [box |-> b, pc |-> "read", try |-> jobs'[b].runs]]
  /\ UNCHANGED <<content, usable, boss, request, spent, reader, budget>>

\* The end of a handler; the job is only its own while it has not expired.
Finish(h) ==
  /\ work' = [work EXCEPT ![h] = NoWork]
  /\ jobs' = IF h = "current" THEN [jobs EXCEPT ![work[h].box].runs = 0] ELSE jobs
TriesForEver(b) == TRUE
Tries(b) == jobs[b].runs <= RetryLimit
RepeatNever(b) == [jobs EXCEPT ![b].runs = 0]
Repeat(b) ==
  [jobs EXCEPT ![b].runs = 0, ![b].again = IF Tries(b) THEN jobs[b].runs ELSE 0]
Throw(h) ==
  /\ work' = [work EXCEPT ![h] = NoWork]
  /\ jobs' = IF h = "current" THEN Repeat(work[h].box) ELSE jobs

\* run(): the placement and the text as they are.
FetchedIgnored(h) == FALSE
Fetched(h) == Current
Read(h) ==
  /\ work[h].pc = "read"
  /\ \/ Fetched(h) /\ Finish(h)
     \/ ~Fetched(h) /\ work[h].box \in usable /\ Goto(h, "mark") /\ UNCHANGED jobs
     \/ work[h].box \notin usable /\ Goto(h, "fail") /\ UNCHANGED jobs
  /\ UNCHANGED <<content, usable, boss, request, spent, reader, budget>>
Mark(h) ==
  /\ work[h].pc = "mark"
  /\ SetStatus("fetching")
  /\ Goto(h, "fetch")
  /\ UNCHANGED <<usable, jobs, boss, request, spent, reader, budget>>
Fetch(h) ==
  /\ work[h].pc = "fetch"
  /\ \/ work[h].box \in usable /\ Goto(h, "write") /\ UNCHANGED budget
     \/ work[h].box \notin usable /\ Goto(h, "fail") /\ UNCHANGED budget
     \/ Goto(h, "fail") /\ Spend("faults")
  /\ UNCHANGED <<content, usable, jobs, boss, request, spent, reader>>
Write(h) ==
  /\ work[h].pc = "write"
  /\ content' = [status |-> "ready", body |-> "new"]
  /\ Finish(h)
  /\ UNCHANGED <<usable, boss, request, spent, reader, budget>>

\* The catch block spares a text that is ready; the job is tried again.
Fail(h) ==
  /\ work[h].pc = "fail"
  /\ IF content.status = "ready" THEN UNCHANGED content ELSE SetStatus("failed")
  /\ Throw(h)
  /\ UNCHANGED <<usable, boss, request, spent, reader, budget>>

WorkerCrash ==
  /\ \E h \in Handlers : work[h] # NoWork
  /\ work' = [h \in Handlers |-> NoWork]
  /\ spent' = (spent \/ work["outlived"] # NoWork)
  /\ Spend("faults")
  /\ UNCHANGED <<content, usable, jobs, boss, request, reader>>

\* expireInSeconds: the job of a dead worker, or of one that takes too long.
Expire(b) ==
  /\ jobs[b].runs > 0
  /\ \/ /\ work["current"].box # b
        /\ UNCHANGED <<work, budget>>
     \/ /\ work["current"].box = b /\ work["outlived"] = NoWork
        /\ work' = [work EXCEPT !["outlived"] = work["current"], !["current"] = NoWork]
        /\ Spend("outlived")
  /\ jobs' = Repeat(b)
  /\ spent' = (spent \/ ~Tries(b))
  /\ UNCHANGED <<content, usable, boss, request, reader>>

\* The account is disabled, the message moved or expunged, UIDVALIDITY changed; or the reverse.
Change ==
  /\ \E b \in Boxes : usable' = IF b \in usable THEN usable \ {b} ELSE usable \cup {b}
  /\ Spend("changes")
  /\ UNCHANGED <<content, jobs, work, boss, request, spent, reader>>

Web == WriteRow \/ Scheduled \/ NotScheduled
Worker == \/ \E b \in Boxes : Take(b) \/ Expire(b)
          \/ \E h \in Handlers : Read(h) \/ Mark(h) \/ Fetch(h) \/ Write(h) \/ Fail(h)
Next ==
  \/ \E b \in Boxes : Open(b)
  \/ Close \/ Poll \/ Retry
  \/ Web \/ WebCrash
  \/ Worker \/ WorkerCrash
  \/ Change

Spec == Init /\ [][Next]_vars

\* The reader polls on a timer, the web process and the worker go on, and
\* pg-boss expires what its handler has left.
FairSpec == Spec /\ WF_vars(Poll) /\ WF_vars(Web) /\ WF_vars(Worker)

-----------------------------------------------------------------------------
(* What message content promises *)

\* While no handler outlives its job, the worker never takes away text that
\* was fetched for the present policy: not by the job of another mailbox, not
\* by a job that is tried again after a newer one has done its work.
WorkerKeepsText ==
  [][(Current /\ budget.outlived = MaxOutlived /\ request' = request) => content' = content]_vars

\* Work under way is somebody's work: a row that says pending or fetching has
\* a job, a handler, or a request that is about to make one, unless the web
\* process died between the two or the worker on the last try.  Nothing
\* repairs the row otherwise, and request() turns every later request away.
Owned == \/ request # NoRequest
         \/ \E b \in Boxes : jobs[b].waits \/ jobs[b].again > 0 \/ jobs[b].runs > 0
         \/ \E h \in Handlers : work[h] # NoWork
NeverStranded == UnderWay /\ ~spent => Owned

\* A reader that waits is answered: it comes to show the text or a failure.
Waiting == reader.box # None /\ reader.shows \in {"loading", "pending", "fetching"}
ReaderAnswered == Waiting ~> (~Waiting \/ spent)

\* The text of a message is fetched on demand: what is being fetched comes to
\* an end, whatever fails on the way.
OnDemand == UnderWay ~> ~UnderWay
=============================================================================
