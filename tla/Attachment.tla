----------------------------- MODULE Attachment -----------------------------
(***************************************************************************)
(* Files of messages.  An incoming attachment is requested, fetched from   *)
(* IMAP into a blob by one of the worker's handlers and published           *)
(* (AttachmentService.request, run and repair); an uploaded file is staged, *)
(* claimed by the draft that saves it, or removed (upload, removeStaged,    *)
(* DraftService.attachments); a draft that is sent hands the blobs of its   *)
(* files over to the message (OutgoingMessageService.create).              *)
(*                                                                         *)
(* There is one attachment, "in", of the message that the drafts forward,   *)
(* and one uploaded file, "up", whose blob is UpBlob.                       *)
(***************************************************************************)
EXTENDS Integers, FiniteSets

CONSTANTS
  Workers,     \* handlers that run at once (localConcurrency)
  Drafts,      \* drafts that forward the message
  None,        \* nobody
  MaxBlobs,    \* bound: blobs written for the attachment
  MaxAsks,     \* bound: requests, and saves, removals and uploads
  MaxFaults    \* bound: failures, dead workers, lost sessions, damaged files, changes

NoBlob == 0
UpBlob == MaxBlobs + 1
Blobs == 1..UpBlob
Files == {"in", "up"}

AttachmentAssumption ==
  None \notin Workers \cup Drafts /\ {MaxBlobs, MaxAsks, MaxFaults} \subseteq Nat

VARIABLES
  row,      \* the row of message_attachments
  disk,     \* the blob files: absent, intact or damaged
  jobs,     \* jobs in the queue attachment-fetch-v1
  lock,     \* holder of the advisory lock of the attachment
  worker,   \* handlers: what each does next, and the blob it has written
  ask,      \* a request in the web process: the row that it read
  usable,   \* account enabled, placement there, mailbox active, UIDVALIDITY unchanged
  staged,   \* the row of staged_attachments
  draft,    \* drafts: whether active, and the blobs of draft_attachments
  message,  \* outgoing messages: the blobs of their attachments
  direct,   \* a message sent without a draft has the uploaded file
  budget    \* what the bounds have left

fetching == <<row, jobs, lock, worker, ask>>
composing == <<staged, draft, message, direct>>
vars == <<row, disk, jobs, lock, worker, ask, usable, staged, draft, message, direct, budget>>

NoAsk == [pc |-> "none", status |-> "none", blob |-> NoBlob]
NoFile == -1    \* the draft does not have the file; NoBlob: it has, but no blob yet
AttachmentRow == [status : {"not_fetched", "pending", "fetching", "ready", "failed"}, blob : 0..MaxBlobs]
BlobState == {"absent", "intact", "damaged"}
StagedRow == [status : {"none", "ready", "removed", "consumed"}, owner : Drafts \cup {None}, expired : BOOLEAN]
DraftFiles == [active : BOOLEAN, blob : [Files -> {NoFile, NoBlob} \cup Blobs]]

TypeOK ==
  /\ row \in AttachmentRow
  /\ (row.status = "ready") = (row.blob # NoBlob)
  /\ row.blob # NoBlob => disk[row.blob] # "absent"
  /\ disk \in [Blobs -> BlobState]
  /\ jobs \in 0..2
  /\ lock \in Workers \cup {None}
  /\ worker \in [Workers -> [pc : {"idle", "lock", "check", "fetch", "publish", "pin", "fail", "release"},
                             blob : 0..MaxBlobs, session : BOOLEAN]]
  /\ ask.pc \in {"none", "read", "enqueue"}
  /\ staged \in StagedRow
  /\ draft \in [Drafts -> DraftFiles]
  /\ message \in [Drafts -> SUBSET Blobs]

Init ==
  /\ row = [status |-> "not_fetched", blob |-> NoBlob]
  /\ disk = [b \in Blobs |-> "absent"]
  /\ jobs = 0
  /\ lock = None
  /\ worker = [w \in Workers |-> [pc |-> "idle", blob |-> NoBlob, session |-> TRUE]]
  /\ ask = NoAsk
  /\ usable = TRUE
  /\ staged = [status |-> "none", owner |-> None, expired |-> FALSE]
  /\ draft = [d \in Drafts |-> [active |-> TRUE, blob |-> [f \in Files |-> NoFile]]]
  /\ message = [d \in Drafts |-> {}]
  /\ direct = FALSE
  /\ budget = [asks |-> MaxAsks, faults |-> MaxFaults]

Spend(what) == budget[what] > 0 /\ budget' = [budget EXCEPT ![what] = @ - 1]
Intact(b) == b # NoBlob /\ disk[b] = "intact"
Enqueued == jobs' = IF jobs < 2 THEN jobs + 1 ELSE jobs

-----------------------------------------------------------------------------
(* Requests and repair *)

\* request(): the row is read; intact bytes end the request.
Ask ==
  /\ ask = NoAsk /\ usable
  /\ ~(row.status = "ready" /\ Intact(row.blob))
  /\ ask' = [pc |-> "read", status |-> row.status, blob |-> row.blob]
  /\ Spend("asks")
  /\ UNCHANGED <<row, disk, jobs, lock, worker, usable, composing>>

\* The update applies only to the row that was read, and not to a fetch under way.
UnchangedAssumed == row.status \in {"not_fetched", "failed", "ready"}
Unchanged == /\ row.status = ask.status /\ row.blob = ask.blob
             /\ row.status \in {"not_fetched", "failed", "ready"}
Reset ==
  /\ ask.pc = "read"
  /\ row' = IF Unchanged THEN [status |-> "pending", blob |-> NoBlob] ELSE row
  /\ ask' = [ask EXCEPT !.pc = "enqueue"]
  /\ UNCHANGED <<disk, jobs, lock, worker, usable, composing, budget>>

Enqueue ==
  /\ ask.pc = "enqueue"
  /\ \/ Enqueued /\ UNCHANGED budget
     \/ Spend("faults") /\ UNCHANGED jobs
  /\ ask' = NoAsk
  /\ UNCHANGED <<row, disk, lock, worker, usable, composing>>

\* The web process dies with the request.
WebCrash ==
  /\ ask # NoAsk /\ ask' = NoAsk
  /\ Spend("faults")
  /\ UNCHANGED <<row, disk, jobs, lock, worker, usable, composing>>

\* AttachmentPoller: every 30 seconds.
UnderWay == row.status \in {"pending", "fetching"}
DueOnlyPending == row.status = "pending"
Due == UnderWay
Repair ==
  /\ Due /\ jobs = 0
  /\ Enqueued
  /\ UNCHANGED <<row, disk, lock, worker, ask, usable, composing, budget>>

-----------------------------------------------------------------------------
(* AttachmentService.run *)

At(w, pc) == worker[w].pc = pc
Goto(w, pc) == worker' = [worker EXCEPT ![w].pc = pc]

\* The candidate is read without the lock.
Take(w) ==
  /\ At(w, "idle") /\ jobs > 0
  /\ jobs' = jobs - 1
  /\ worker' = [worker EXCEPT ![w] = [pc |-> IF UnderWay THEN "lock" ELSE "idle",
                                      blob |-> NoBlob, session |-> TRUE]]
  /\ UNCHANGED <<row, disk, lock, ask, usable, composing, budget>>

\* pg_try_advisory_lock: a handler that does not get the lock ends.
Lock(w) ==
  /\ At(w, "lock")
  /\ IF lock = None THEN lock' = w /\ Goto(w, "check") ELSE Goto(w, "idle") /\ UNCHANGED lock
  /\ UNCHANGED <<row, disk, jobs, ask, usable, composing, budget>>

\* Every statement after the lock uses the session of the lock.
Alive(w) == worker[w].session
Lost(w) ==
  /\ worker[w].pc \in {"check", "publish", "pin", "fail", "release"} /\ ~Alive(w)
  /\ Goto(w, "idle")
  /\ UNCHANGED <<row, disk, jobs, lock, ask, usable, composing, budget>>

Check(w) ==
  /\ At(w, "check") /\ Alive(w)
  /\ IF ~UnderWay THEN Goto(w, "release") /\ UNCHANGED row
     ELSE IF usable THEN Goto(w, "fetch") /\ row' = [row EXCEPT !.status = "fetching"]
     ELSE Goto(w, "fail") /\ UNCHANGED row
  /\ UNCHANGED <<disk, jobs, lock, ask, usable, composing, budget>>

\* fetchAttachment streams into storage.put, which renames a complete file;
\* registerBlob.  A failure leaves at most a blob that nothing refers to.
NextBlob == 1 + Cardinality({b \in 1..MaxBlobs : disk[b] # "absent"})
Fetch(w) ==
  /\ At(w, "fetch")
  /\ \/ /\ usable /\ NextBlob <= MaxBlobs
        /\ disk' = [disk EXCEPT ![NextBlob] = "intact"]
        /\ worker' = [worker EXCEPT ![w].pc = "publish", ![w].blob = NextBlob]
        /\ UNCHANGED budget
     \/ ~(usable /\ NextBlob <= MaxBlobs) /\ Goto(w, "fail") /\ UNCHANGED <<disk, budget>>
     \/ Spend("faults") /\ Goto(w, "fail") /\ UNCHANGED disk
  /\ UNCHANGED <<row, jobs, lock, ask, usable, composing>>

Publish(w) ==
  /\ At(w, "publish") /\ Alive(w)
  /\ row' = [status |-> "ready", blob |-> worker[w].blob]
  /\ Goto(w, "pin")
  /\ UNCHANGED <<disk, jobs, lock, ask, usable, composing, budget>>

\* The drafts that wait for the attachment get its blob; a failing statement fails the fetch.
Pin(w) ==
  /\ At(w, "pin") /\ Alive(w)
  /\ \/ /\ draft' = [d \in Drafts |-> IF draft[d].blob["in"] # NoBlob THEN draft[d]
                                      ELSE [draft[d] EXCEPT !.blob["in"] = worker[w].blob]]
        /\ Goto(w, "release") /\ UNCHANGED budget
     \/ Goto(w, "fail") /\ Spend("faults") /\ UNCHANGED draft
  /\ UNCHANGED <<row, disk, jobs, lock, ask, usable, staged, message, direct>>

Fail(w) ==
  /\ At(w, "fail") /\ Alive(w)
  /\ row' = [status |-> "failed", blob |-> NoBlob]
  /\ Goto(w, "release")
  /\ UNCHANGED <<disk, jobs, lock, ask, usable, composing, budget>>

Release(w) ==
  /\ At(w, "release") /\ Alive(w)
  /\ lock' = None
  /\ Goto(w, "idle")
  /\ UNCHANGED <<row, disk, jobs, ask, usable, composing, budget>>

\* The database session of a handler ends, and its lock with it.
LoseSession(w) ==
  /\ lock = w /\ Alive(w)
  /\ lock' = None
  /\ worker' = [worker EXCEPT ![w].session = FALSE]
  /\ Spend("faults")
  /\ UNCHANGED <<row, disk, jobs, ask, usable, composing>>

WorkerCrash ==
  /\ \E w \in Workers : ~At(w, "idle")
  /\ worker' = [w \in Workers |-> [pc |-> "idle", blob |-> NoBlob, session |-> TRUE]]
  /\ lock' = None
  /\ Spend("faults")
  /\ UNCHANGED <<row, disk, jobs, ask, usable, composing>>

\* The account, the placement or UIDVALIDITY changes; a blob file is damaged or lost.
Change ==
  /\ usable' = ~usable
  /\ Spend("faults")
  /\ UNCHANGED <<fetching, disk, composing>>
Damage ==
  /\ \E b \in Blobs : disk[b] = "intact" /\ disk' = [disk EXCEPT ![b] = "damaged"]
  /\ Spend("faults")
  /\ UNCHANGED <<fetching, usable, composing>>

-----------------------------------------------------------------------------
(* Uploads, drafts and messages *)

\* The composer names its draft with the file.
Upload(d) ==
  /\ staged.status = "none" /\ draft[d].active
  /\ \E owner \in {d, None} : staged' = [status |-> "ready", owner |-> owner, expired |-> FALSE]
  /\ disk' = [disk EXCEPT ![UpBlob] = "intact"]
  /\ Spend("asks")
  /\ UNCHANGED <<fetching, usable, draft, message, direct>>

Remove ==
  /\ staged.status = "ready"
  /\ staged' = [staged EXCEPT !.status = "removed"]
  /\ Spend("asks")
  /\ UNCHANGED <<fetching, disk, usable, draft, message, direct>>

Expire ==
  /\ staged.status # "none" /\ ~staged.expired
  /\ staged' = [staged EXCEPT !.expired = TRUE]
  /\ UNCHANGED <<fetching, disk, usable, draft, message, direct, budget>>

\* DraftService.attachments: a file that the draft has a blob of is kept as it
\* is; an upload is claimed in the same transaction.
ClaimableTwice(d) == staged.status # "removed" /\ ~staged.expired
Claimable(d) == staged.status = "ready" /\ ~staged.expired /\ staged.owner \in {None, d}
Has(d, f) == draft[d].blob[f] \notin {NoFile, NoBlob}
Save(d) ==
  /\ draft[d].active
  /\ \E files \in SUBSET Files :
       /\ files # {f \in Files : draft[d].blob[f] # NoFile}
       /\ "up" \in files => Has(d, "up") \/ Claimable(d)
       /\ draft' = [draft EXCEPT ![d].blob =
            [f \in Files |-> IF f \notin files THEN NoFile
                             ELSE IF Has(d, f) THEN draft[d].blob[f]
                             ELSE IF f = "up" THEN UpBlob ELSE row.blob]]
       /\ staged' = IF "up" \in files /\ ~Has(d, "up")
                    THEN [staged EXCEPT !.status = "consumed", !.owner = d] ELSE staged
  /\ Spend("asks")
  /\ UNCHANGED <<fetching, disk, usable, message, direct>>

\* DraftService.read promotes a blob that has become ready.
Reopen(d) ==
  /\ draft[d].active /\ draft[d].blob["in"] = NoBlob /\ row.blob # NoBlob
  /\ draft' = [draft EXCEPT ![d].blob["in"] = row.blob]
  /\ UNCHANGED <<fetching, disk, usable, staged, message, direct, budget>>

\* create() from a draft: every file must have verified bytes.
Source(d, f) == IF Has(d, f) THEN draft[d].blob[f] ELSE row.blob
Carried(d) == {f \in Files : draft[d].blob[f] # NoFile}
VerifiedAssumed(d) == \A f \in Carried(d) : Source(d, f) # NoBlob
Verified(d) == \A f \in Carried(d) : Intact(Source(d, f))
Send(d) ==
  /\ draft[d].active /\ Carried(d) # {}
  /\ Verified(d)
  /\ message' = [message EXCEPT ![d] = {Source(d, f) : f \in Carried(d)}]
  /\ draft' = [draft EXCEPT ![d].active = FALSE]
  /\ UNCHANGED <<fetching, disk, usable, staged, direct, budget>>

\* create() without a draft takes the staged file itself.
SendDirect ==
  /\ staged.status = "ready" /\ ~staged.expired /\ Intact(UpBlob)
  /\ staged' = [staged EXCEPT !.status = "consumed"]
  /\ direct' = TRUE
  /\ UNCHANGED <<fetching, disk, usable, draft, message, budget>>

Web == Reset \/ Enqueue
Run(w) == \/ Take(w) \/ Lock(w) \/ Lost(w) \/ Check(w) \/ Fetch(w) \/ Publish(w) \/ Pin(w)
          \/ Fail(w) \/ Release(w)
Next ==
  \/ Ask \/ Web \/ WebCrash \/ Repair
  \/ \E w \in Workers : Run(w) \/ LoseSession(w)
  \/ WorkerCrash \/ Change \/ Damage
  \/ Remove \/ Expire \/ SendDirect
  \/ \E d \in Drafts : Upload(d) \/ Save(d) \/ Reopen(d) \/ Send(d)

Spec == Init /\ [][Next]_vars

\* The poller's timer, and the handlers of a worker that is restarted when it dies.
FairSpec == Spec /\ WF_vars(Repair) /\ WF_vars(Web) /\ \A w \in Workers : WF_vars(Run(w))

-----------------------------------------------------------------------------
(* What files promise *)

\* An uploaded file goes to one place: one draft, the message of that draft,
\* or one message sent without a draft, whichever of the tabs comes first.
Holders == {d \in Drafts : draft[d].blob["up"] = UpBlob}
OnePlace ==
  /\ Cardinality(Holders) <= 1
  /\ direct => Holders = {}
  /\ staged.status \in {"ready", "removed"} => Holders = {} /\ ~direct

\* A request never undoes what a worker has done since the request read the
\* row: bytes that are there and intact are not fetched again for it.
RequestKeepsBytes ==
  [][ask.pc = "read" /\ ask'.pc = "enqueue" /\ Intact(row.blob) =>
       row' = row \/ (ask.status = "ready" /\ ask.blob = row.blob)]_vars

\* What was asked for comes to an end: the attachment is prepared, or failed.
AttachmentSettles == UnderWay ~> ~UnderWay

\* "Missing/corrupt cache is repairable": when the attachment has been fetched
\* again, the drafts that carry it have intact bytes too.
RepairReachesDrafts ==
  \A d \in Drafts :
    (/\ draft[d].active /\ draft[d].blob["in"] # NoFile
     /\ Intact(row.blob) /\ \A w \in Workers : At(w, "idle"))
      => draft[d].blob["in"] = NoBlob \/ Intact(draft[d].blob["in"])
=============================================================================
