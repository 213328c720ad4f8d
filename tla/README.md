# Verification of the Maildock mail client

Maildock is a self-hosted web mail client for one owner. A Next.js process serves
the browser and writes PostgreSQL; a worker process runs pg-boss jobs, pollers and
IDLE connections that talk IMAP and SMTP to the owner's accounts. Almost every
operation that matters crosses systems that fail independently: the database
(transactions, row locks, session advisory locks), the job queue (at least once,
sometimes lost), the mail server (side effects that cannot be undone or, after a lost
answer, even observed) and the browser (answers that come late, tabs that go away).
The modules here are about those crossings.

Contents: 1 inventory, 2 modules, 3 runs and bounds, 4 fairness, 5 proofs, 6 findings
and observations, 7 abstractions and what is not modelled, 8 plan.

## 1. Inventory

Paths are below `src/modules` unless they begin with another directory.

| Component | State it keeps | Operations | What must be right |
|---|---|---|---|
| Outgoing delivery (`mail/application/outgoing-message-service.ts`, `mail/infrastructure/outgoing-jobs.ts`, `outgoing-lock.ts`) | status, attempts and due time of `outgoing_messages`, the queue, the lock of a message | create, run, repair, poller | a message is submitted at most once; its outcome is true and final; nothing stays queued for ever |
| Sent copy (`sent-copy-service.ts`, `sent-copy-jobs.ts`) | status and destination of the copy, its synchronization marker | run, repair | one APPEND; the destination of an attempt is never resolved again; a saved copy is synchronized |
| Message commands (`message-command-service.ts`, `message-command-jobs.ts`, `mailbox-lock.ts`) | `message_commands`, optimistic flags and `actionHidden` of a placement, the lock of the mailbox | create, run, fail, poller | a MOVE is tried once; a success was done; what is hidden will be shown or moved; every command ends |
| Mailbox synchronization (`message-service.ts`, `delta-sync-service.ts`, `backfill-sync-service.ts`, `coalesced-sync-job.ts`) | UIDVALIDITY, delta checkpoint, backfill frontier, statuses, placements, arrivals to announce | recent, delta and backfill runs | no message is skipped; one epoch at a time; flags converge; old mail is not announced as new |
| IDLE watchers (`idle-watchers.ts`) | one loop and one connection of an eligible inbox | refresh, start, stop, the loop | one connection; a change that was heard or missed leads to a delta run |
| Mailbox discovery and roles (`mailbox-discovery-service.ts`, `mailbox-service.ts`, `mailbox-role-service.ts`) | mailboxes, their identity, roles | ask, list, reconcile, detect, choose, clear | a chosen role stays with its mailbox; what was asked for is listed |
| Drafts (`draft-service.ts`, `draft-api.ts`, `src/components/mail-composer.tsx`, `draft-list.tsx`) | revisions of a row, composers of tabs, a recovery copy in the browser | save, send, discard, resume | sent once, as it was shown; no edit is lost; nobody's text is replaced unseen |
| Attachments and blobs (`attachment-service.ts`, `local-blob-storage.ts`) | content status, staged uploads, files | request, fetch, repair, attach | a request keeps the bytes there are; an upload goes to one place; what was asked for ends |
| Message content (`message-content-service.ts`, `content-jobs.ts`) | content status, job, lease | request, handler, retry | work under way is somebody's work; a reader is answered |
| Notifications (`notification-service.ts`, `src/components/desktop-notifications.tsx`) | the feed, cursor and generation, a browser's checkpoint | publish, poll, settings | an arrival is shown at most once, and only what is new and wanted |
| OAuth (`accounts/infrastructure/google-oauth.ts`, `microsoft-oauth.ts`) | the grant of an account, flows | begin, callback, refresh, revoke | a stale refusal marks no newer grant |
| Owner authentication (`auth/application/instance-auth.ts`, `initial-mfa.ts`, `mfa-login.ts`, `mfa-management.ts`, `session-validation.ts`) | owner, factor, ceremonies, sessions, bootstrap lease | setup, enrol, sign in, replace, recover, authorize | the owner is never locked out; a request is allowed only when fully proved |
| Owner recovery and restore (`auth/application/restore-security-state.ts`, `src/composition/recovery-process.ts`) | restored database, receipts, recovery codes | maintain, resume, complete, verify | what is opened again is clean; no mail is sent a second time |
| Conversations (`mail/application/conversation-service.ts`, `db/migrations/0017_conversations.sql`) | groups, references, redirects | insert, delete | threads do not depend on the order of arrival |
| Signatures (`signature-service.ts`, `src/components/signature-settings.tsx`, `rich-composer.tsx`) | templates, images, the automatic signature of a composer | edit in tabs, copy into drafts, insert, undo | a text has its images; what the user edited is not replaced |
| Jobs runtime and composition (`jobs/infrastructure/job-runtime.ts`, `src/composition/worker-process.ts`) | timers, watchers, consumers, the supervisor | start, pause, shut down | nothing is left running |
| Web client (`src/components/mail-client.tsx`) | open message, list, pending actions | select, poll, page, refresh, act, prepare an answer | the pane shows what is selected; the list follows; feedback adds up |
| Accounts, mail provider, configuration, database | credentials, connections, constraints | forms, IMAP and SMTP calls | as far as the components above depend on them |
| Rendering and sanitizing, diagnostics, thin routes, layout | none or append-only | text and DOM transformation | not state machines; left out |

How they interact. The web process writes rows and sends jobs; workers and pollers share
the rows, the queue and the advisory locks. Delivery and the Sent copy use one lock per
message (`outgoing:ID`); synchronization and message commands one per mailbox
(`mailbox-sync:ID`). Delivery asks for the Sent copy, which takes its destination from
discovery and roles and asks synchronization to show the result. IDLE watchers and
pollers ask for delta runs, delta runs publish arrivals, the browser polls them. The
supervisor starts and stops whatever runs in the worker; the owner's factor decides
whether it may. Recovery fences what a restored backup brings back.

The hazards of each component, at the lines where they bite, are in `PROJECT.json`.

## 2. Modules

Each component is a module of its own. Its variables are the rows, locks, queues and
program counters of the code; an action is one transaction, one statement outside a
transaction, one remote call or one turn of an event loop, the grain at which something
else can come between. The budgets (`MaxFaults`, `MaxLost`, ...) are the bounds.

| Module | Models | State and actions |
|---|---|---|
| `OutgoingMessage` | delivery | a row is `status`, `attempts`, `due`, `policy`, `copy`; workers go through the statements of `run` (`Take` ... `Record`, `Notify`, `Release`), the poller through its sweep, whose selection is stale when it is used; `Abort` and `LoseSession` strike anywhere; `submissions` and `accepted` are what SMTP saw |
| `AtMostOnceSend` | what delivery promises, without any mechanism | `phase` and `delivered` of a message |
| `OutgoingInvariant` | the inductive invariant and the refinement mapping | |
| `OutgoingRestore` | delivery with a backup, a restore and maintenance | extends `OutgoingMessage`; loading and fencing are one step since the instance must stay closed between them |
| `SentCopy` | the copy, from the delivery that asks for it | workers under the same lock; `Move` is the rest of the system: mailboxes vanish and are renamed, roles remapped, accounts disabled; `stored` is what each path has |
| `MessageCommand` | commands on the messages of a mailbox | `Check` and `Insert` are the two halves of `create`, which takes no lock; `run` step by step; `Synchronize` is a whole delta run on the same rows |
| `MailboxSync` | the three kinds of synchronization of one mailbox | SELECT, FETCH of a batch and the storing transaction are steps; the server's mailbox changes between them and may be renumbered; `Answers` leaves out what FETCH may leave out |
| `MailboxDiscovery` | discovery, identity of mailboxes, roles | the queue with its `stately` policy, the handler, one that outlived its job, `reconcile`, manual roles |
| `IdleWatcher` | the watchers of one inbox | the map of the manager, loops that still unwind, the refresh and what it awaits |
| `WorkerProcess` | the supervisor | start-up in its order, `Unguarded` pollers, `StopBusiness`, `Drained`, a signal at any step |
| `Draft` | a draft, its tabs, the recovery copy and the hand-over to sending | one request per tab under way, or left in the network by a tab that went away; the owner writes on while it waits, unless it sends (`Editable`) |
| `Attachment` | one attachment, its blob, uploads staged for drafts | request, fetch, repair, attach, discard |
| `MessageContent` | contents on demand | request, schedule, handler, lease, what a reader is told |
| `Notifications` | the feed and browsers that poll it | sequence, cursor, checkpoint, generation, strays of closed tabs |
| `Conversation` | grouping by message ids | `group` and `reference` as the triggers keep them, redirects of merged groups |
| `SignatureTemplates` | signatures, images, default, snapshots into drafts | saves and deletions of several tabs |
| `SignatureInsertion` | the automatic signature in a composer | From, catalog, insertion, edits, Undo |
| `OAuthGrant` | grants of one account | refresh under the row lock, flows, revocation; Google and Microsoft |
| `OwnerAccess` | setup, enrolment, sign-in, replacement, recovery, authorization | each transaction under the session lock is one action; a request reads in two steps |
| `OfflineRecovery` | backup, restore, the recovery command | the fence, codes, receipt and their delivery; deaths in between; the counts of wrong proofs, which the running instance (`Manage`, `Ceremony`) and the command share and a restore puts back |
| `MailList` | the list of a mailbox in a tab | first page, older pages, refresh, moves |
| `MailActions` | marking messages in a tab | optimistic rows, badge, polls, feedback |
| `MessageReader` | the open message in a tab | selection in the list or by a notification (`Notified`), content polls, retry, prepared answers, composer |
| `...Proofs` | theorems of the module they extend and of those they INSTANCE | see section 5 |

The `MC` modules compose components. `MCTab`, `MCOnce`, `MCServicesSafe`,
`MCServicesLive` and `MCWorker` EXTEND one component and INSTANCE the others; a variable
`focus` says which one moves in a behaviour, so the states are the union of those of the
components and not their product; what is true of every state is asked of a component where
it moves, since elsewhere it is as it began. Components are put together in this way when they do
not share state; where components do share it, the sharing is inside a module (the lock,
row and queue of delivery in `SentCopy`, synchronization in `MessageCommand`, all
three runs in `MailboxSync`, sending in `Draft`, restore in `OutgoingRestore`).

## 3. Runs and bounds

| Run | Instance | Shows |
|---|---|---|
| `outgoing_safety` | 1 message, 2 workers and the poller, 3 attempts, 2 faults, 1 lost session | the inductive invariant, at most one submission, refinement of `AtMostOnceSend` |
| `outgoing_live` | 1 message, 2 workers, 2 attempts, 1 fault, 1 lost session | `Settles` |
| `once` | copy: 2 workers, 2 mailboxes, 2 paths; command: 2 workers, two of fault, lost session, foreign change and restore; draft: 2 tabs, 3 edits, 2 reopenings, 2 faults | APPEND, MOVE and Send happen once and what is told of them is true |
| `command_pair` | 2 commands of one message, 2 workers | every command ends while its placement exists; `HonestCommand` |
| `sync_safety` | 3 UIDs, 2 epochs, chunks and batches of 2, one event, one request, one lost session, FETCH may omit | `NothingSkipped`, `OneEpoch`, `FlagsWillFollow`, `AlertsAreArrivals` |
| `worker` | the supervisor with 2 changes of readiness and a failure; synchronization of 2 UIDs | nothing left running, a shutdown ends, the mailbox converges |
| `services_live` | IDLE watchers, contents, attachments, Sent copy, discovery | what is asked for comes to an end |
| `services_safety` | owner access, restored delivery, OAuth, roles, conversations, signatures, offline recovery (3 output files, one wrong proof of a stage allowed) | ten safety properties, at least one of each |
| `tab` | reader, list and actions of one tab; notifications with 2 arrivals, 2 openings of 2 tabs, 2 changes of the preferences | the pane, the list and the feedback follow; an arrival is shown once, and only news is told |
| `sync_missed`, `draft_two_tabs`, `signature_undo` | the smallest instance that shows it | violated: section 6 |

Why the bounds are enough. Safety of delivery, copies and commands relates the threads
of one message, which meet in its row, lock and queue only; the proofs remove the bound.
Two workers and the poller give every pair of roles that can meet. A fault budget lets
a job be lost or a worker die at every step; a thread after an abort is an idle one, so
a third fault adds no meeting. One lost session is the first case in which two threads
are inside one lock. `MCMessageCommand` narrows its instance by `Wanted`: one thing goes
wrong in a behaviour, two commands meet either a fault or nothing, and the second
worker takes a job only while the first one has one; what is left out is the
combination of two troubles, which `once` has with one command, and the proof has for
all. `MaxAttempts` of commands is 1 instead of 3: the comparison is made
at the first and at the last attempt either way. In `MailboxSync` three UIDs are a batch
that is full, one that is not and a gap between them; two epochs are one renumbering,
after which nothing of the first is kept; the window is told from the history by one
old-dated UID. In the tab, two messages are the selected one and another.
In the composed runs every component keeps the bounds of its own analysis; the smallest
numbers that let its hazard happen are in the `MC` module. Notifications: with one change of
the preferences there is something to deliver, and then two openings are two tabs that poll at
once, a tab that is reloaded, or a new tab beside the stray poll of a closed one.
Recovery: with one wrong proof allowed, the three output files are two attempts more than may
be examined, so a proof that is not counted is seen; the three changes are a wrong proof on the
running instance, a restore, and a backup or a step of the instance between them. What is under way is one thing that another factor ends, and
one that it does not.

Deadlock checking is off in all runs: when everything is settled and no budget is left,
the system legitimately has nothing to do.

## 4. Fairness

Every assumption is of scheduling the code has: a handler, request or event loop goes on
(weak fairness of its steps); a poller's interval fires; a job that waits is taken
although workers or locks are busy again and again (strong fairness of `Take`: pg-boss
fetches in order and retries, the pollers enqueue again). Crashes, outages, lost
sessions and the owner's own steps are bounded and not fair: a liveness property says
that things settle once trouble stops. `Converges` also assumes
`[]<>(Eligible /\ Unfilled => Moment)`: now and then a waiting backfill finds the lock
free and no delta job waiting, since a delta job comes once a minute and takes seconds;
without it the code's rule that backfills give way could starve them. In `WorkerProcess` the fairness is of the
supervisor's successful steps: a failure is always possible and never forced.
`SettlesIfPlaced`
speaks only of commands whose placement exists, `SyncFollows` only of mailboxes and
accounts that stay available, `ChangeHeard` of inboxes that stay eligible.

## 5. Proofs

Every theorem holds for all values of the constants that satisfy the named assumptions
(sets of any size, any bounds). Each proof module names its inductive invariant `IInv`,
proves that the initial states satisfy it and that every action keeps it, one lemma per
action, and combines them with PTL. TLC checked each `IInv` on a small instance
before it was proved. The assumptions are the `ASSUME`s of the component's module:
bounds are natural numbers, `None` is no element of the sets it marks the absence in, the poller or
the delivery is not a worker; the code's limits are positive.

| Module | Theorems | Why the property is not inductive, and what carries it |
|---|---|---|
| `OutgoingProofs` | `TypeCorrect`, `NeverSubmittedTwice`, `QueuedIsSafe`, `OutcomeIsTrue`, `LockIsEnough`, `OutcomeStays`, `KeepsPromise` (refinement) | says nothing of the thread about to submit. *The claim and not the lock protects a message*: a compare-and-set from `queued`, to which nothing leads back but the record of the same attempt, so at most one thread is between claim and record (`OneDeliverer`), its row is `sending` or was declared `uncertain` (`DelivererOwnsRow`), its position tells what the server has seen (`DelivererKnows`), a queued row was never submitted (`RowTells`). The lock (`LockProtects`) is needed for `LiveAttemptStands` alone, hence only there `lost = 0` |
| `OutgoingProofs`, on `OutgoingRestore` | `RestoredNeverSubmittedTwice`, `RestoredOutcomeIsTrue`, `NeverBackInQueue` | a restored row may contradict what SMTP saw after the backup. `RInv` is the invariant of delivery for all messages but the forgotten ones (`IInvBut`): the id of a message that the restore took away is never created again, maintenance leaves none queued or sending before a worker runs, and an outcome the backup has is still that of the row, so loading it changes nothing |
| `SentCopyProofs` | `TypeCorrect`, `AppendedAtMostOnce`, `CopyIsHonest`, `MarkerIsHonest`, `LiveAppendIsLeftAlone`, `AttemptsAreFinal` | a second APPEND is excluded by there being one claimant ever (`Claims`, `OneClaimant`) and no append before the claim (`Unclaimed`). That "saved" is true rests on the handler having the destination of the row (`Reads`, `Destined`) and on the copy being there before it is recorded (`Found`, `StoredByAppend`); that a saved copy is synchronized, on `Queued`; the lock (`Locked`) again only matters for a live APPEND |
| `MessageCommandProofs` | `TypeCorrect`, `CommandsAreHonest`, `OutcomeStands` | that a MOVE is tried once rests on the lock (`Alone`, as long as no session is lost) and on the row being `executing` before the server is asked (`NotBegun`, `Untried`); that a success is true, on `AppliedFirst`; that what is hidden has a command to show it, on a handler having the present target or one deleted since (`SeesTarget`) |
| `MessageCommandProofs`, on `MessageContent` | `FetchIsOwned`, `FetchedTextStays` | `NeverStranded` takes any request for an owner, also one that goes on to mark the row pending and one whose row is pending for another job. What carries it: before a job or a handler has the work (`InHand`) only the request that marked the row and is about to make the job may have it, and a row that is being fetched is in hand (`HasOwner`); a handler's job runs (`WorksForBox`), so what expires or throws with tries left waits again. `WorkerKeepsText` says nothing of a handler between its reading of the row and its writing: until a handler has outlived its job, the one there is has not seen present text (`SeesText`), and no other can bring it |
| `MessageCommandProofs`, on `Attachment` | `FileGoesToOnePlace`, `RequestUndoesNothing` | that an upload has at most one holder says nothing of its next taker: who has it took it while it was not consumed, and it has been consumed since (`OneTaker`). That a request undoes nothing rests on its comparison of the whole row, and on a row with a blob being ready (`RowHasBlob`), which holds because a worker publishes only a blob that it has written (`PublishesBlob`) |
| `OwnerAccessProofs` | `TypeCorrect`, `OwnerNeverLockedOut`, `AllowedIsFullyProved`, `OwnerHasPresentSecret` | rows of a ceremony are never taken for "no ceremony" because they name a factor (`CeremonyHasFactor`); the first owner finds nothing of an earlier one (`NoOwner`, `LeaseIsOver`); whatever lives was proved with the present password and factor, because whoever changes one revokes what was proved with the other |
| `MessageReaderProofs` | `TypeCorrect`, `PaneShowsSelected`, `PreparedAnswersSelected` | a late answer is dropped because a load is of the open message (`LoadsSelected`); a prepared answer takes the place of no composer, although its guard does not look, because whatever opens one ends the preparation (`OneAtATime`) |
| `MessageReaderProofs`, on `SignatureInsertion` | `ReadySignatureIsSettled`, `UserEditsWin` | a filling is decided before it is carried out. Until Undo is used, what it saw was untouched, and nothing to see means that nothing was there (`Unchanged`, which `Place` compares with what is there then); a signature that is gone was taken out by somebody who is known (`TakenOut`). While nothing was chosen from a list that had stayed open, one thing at a time is done, for the account in From (`InTurn`) |
| `MessageReaderProofs`, on `SignatureTemplates` | `SignatureHasItsImages`, `NoTextReplacedUnread` | a snapshot reads the document and its images in two statements; the share lock keeps the row in between (`LockedRow`), and an image is of the one signature that consumed its upload (`OwnsImages`). A revision is compared and not the text: while no id is used again, the row is as old as any editor of it, and an editor with the row's revision has read its text (`ReadsText`, from `BornFirst`) |
| `MessageReaderProofs`, on `MailList` | `ListIsOfItsMailbox` | what is shown says nothing of the answers under way. Each has no message twice and is of the mailbox that it was asked for (`AnswersOwn`), which for the first and the older pages is the open one, because navigation cancels them; a row that was taken out is of the mailbox it was taken from, or the list had strayed (`MovesOwn`). Merging keeps a sequence without repetition because the old rows pass a filter (`WithoutKeeps`, by induction on its length), and putting a row back because it is looked for first (`InsertAtIs`) |
| `MessageReaderProofs`, on `MailActions` | `FeedbackIsTrue` | that the numbers add up says nothing of polls that overlap. A message waits for one command at a time (`OneWaits`); what a poll asks about was pending, and an end that it tells is final (`PollsTell`), so what two polls tell is freed and counted once; of every press, what remains is what still waits, and no more are counted as succeeded than did (`Counted`). Presses are numbered in order (`InOrder`), so a new one finds nothing of its own |
| `WorkerProofs`, on `WorkerProcess` | `TypeCorrect`, `NothingRunsWhilePaused` | says nothing of the way from a start to a pause: a poller ticks only if its timer can be cleared (`Owned`), a start finds later pollers stopped (`NotYet`), the teardown stops all before the runtime is drained (`Quiet`, `Settled`) |
| `WorkerProofs`, on `IdleWatcher` | `IdlingTypeCorrect`, `AtMostOneConnection` | says nothing of loops that have not connected yet: every loop outside the map is cancelled or over (`OthersCancelled`), and a cancelled one opens no client (`CancelledCloses`) |
| `WorkerProofs`, on `MailboxDiscovery` | `ChosenMailboxStays` | that a row stands for the chosen mailbox says nothing of the next listing, which finds rows by id first and by path second. The known rows are the first ones (`InOrder`) and have a path (`SeenAtPath`), so a new mailbox gets a row that is none of them; an active row with an id stands for the mailbox of that id (`StandsForId`, from two mailboxes never having one id); the choice is the mapping to the row with the id of the chosen mailbox (`ChoiceIsMapped`) |
| `MailboxSyncProofs` | `TypeCorrect`, `EpochsAgree`, `ArrivalsAnnounced`, `FlagsFollow`, `NothingIsSkipped` | the row says nothing of a run that is between SELECT, FETCH and its transaction. One run at a time (`Alone`), so what it found in the row still holds (`Epochal`: its epoch, checkpoint and frontier are the row's) and only the server has moved. UIDs in hand were assigned (`Assigned`), so an arrival is above them all; answers are true or outdated by a MODSEQ above the one to be set (`Followed`); what a batch leaves out is above the gap, and what is in no batch is stored, above the batch or below the frontier (`Covered`); the window lies below the checkpoint (`Told`) |
| `MailboxSyncProofs`, on `Notifications` | `ArrivalIsShownOnce`, `OnlyNewsIsTold` | that a tab shows something once says nothing of the answers under way. Every answer moves the checkpoint past what it tells, so no two answers tell the same (`ToldOnce`); a tab polls only after a start that passed what was there when it was opened (`StartedLater`); what was unwanted once is below the checkpoint or still unwanted (`NotWanted`) |
| `MailboxSyncProofs`, on `Conversation` | `OrderOfArrivalIsForgotten` | that the groups of the present rows are right says nothing of the references that were noted for rows to come. `Evidenced`: rows in one conversation are in every set of rows that is closed under shared evidence (`Linked`), and what is noted for a conversation is in the headers of a row in it; `Complete`: what a row refers to is noted for its conversation, with the owner of the id in it; `Led`: every row is where the redirect of its id leads, one redirect away. A join keeps the first and the last and completes its row (`JoinKeepsGood`, `JoinCompletes`). A Message-ID that appears again takes evidence away: the rows outside the conversations it touches keep theirs (`StayLinked`, `TakenApart`), and those inside are completed one by one, in any order of the uuids (`TogetherCompletes`). The component that `OrderIsForgotten` computes grows until it is closed (`ComponentIs`) |
| `OwnerAccessProofs`, on `OfflineRecovery` | `ReopenedIsSafe`, `EveryProofCounts` | a file of codes says nothing of the database it is compared with later. Every receipt number has been given out (`Issued`) and is given out once, because it does not come from the rows that a backup brings back: rows and backup that name one receipt have the same one (`OneReceipt`), and a file with its number has its codes (`FilesAgree`). What `verify` accepted holds until something is begun (`AcceptedHolds`); what a backup brought back is under way only until the fence, which comes before the instance is opened (`Brought`); every examined proof is in the count that the refusal keeps, unless a restore took it off (`Counts`) |
| `OwnerAccessProofs`, on `OAuthGrant` | `RefusedGrantIsThePresent`, `GrantIsOfTheMailbox` | a refusal is recorded after the request. While a process has the row, the account keeps the grant that was sent (`WorkerKnows`), and a mark outside the lock is Microsoft's only; a renewed grant is of the mailbox of the one that was sent, and a reconnection reaches the row only with a grant of the account's mailbox |
| `DraftProofs` | `ConsumedOnce`, `SentIsWhatWasShown`, `LastEditIsKept`, `NothingOverwrittenUnseen` | a compare-and-swap says nothing of what its caller knows. That a draft is handed over once needs only the row (`Once`). The rest is about requests answered late, or after their tab went away. Revisions never run backwards: who has one is behind the row or has its content (`Informed`), so a Send that is accepted sends the text it showed. A request without a revision can only come from a writer who has learned none (`Unlearned`, `Learned`, `OneOpen`), so a late POST or PATCH never takes the last edit out: the recovery copy goes, and a tab believes its text saved, only once the row is `Safe` from every request under way (`LastKept`, `WriterHasKept`; edits are told apart by their numbers, `Numbered`). Who has the row's revision has seen its text (`Sighted`), and who has none has seen the first text there can be (`SeesFirst`, `OneFresh`) |

`InvariantHolds` is `Spec => []IInv` in each (`DraftInvariantHolds` in `DraftProofs`; `RestoredInvariantHolds`,
`IdlingInvariantHolds`, `NewsInvariantHolds`, `GrantInvariantHolds`, `RecoveryInvariantHolds`,
`InsertionInvariantHolds`, `TemplateInvariantHolds`, `ListInvariantHolds`, `ActionsInvariantHolds`,
`ContentInvariantHolds`, `AttachmentInvariantHolds`, `DiscoveryInvariantHolds` and `ThreadInvariantHolds` for the further specifications of
their modules, which are instances with the variables renamed where the names would clash; their assumptions
are a hypothesis: `NotificationsAssumption`, `OAuthAssumption`, `RecoveryAssumption`, ..., and the run
`services_safety`, `services_live` and `tab` assume them of their instances). `IdlingTypeCorrect` is the type invariant of `IdleWatcher`. `MarkerIsHonest`,
`LiveAppendIsLeftAlone`, `OutcomeStands` and `NeverBackInQueue` state properties that no run lists, of which TLC found no violation
either.

What the proof of `ChosenMailboxStays` found: `ChosenStays` was first stated without an
exception, and TLC agreed with two changes on the server. The invariant was not inductive
at one place, and three changes show why: a listing from before the server had mailbox ids,
applied by a handler that outlived its job after a listing that told the ids, gives the row at
its path to another mailbox, which has the role until the next discovery. `blind` remembers
that this happened, `ChosenStays` excepts it, and the run has three changes since.

What the proof of `ListIsOfItsMailbox` found: `OwnMailbox` was first stated without the
history of moves, and TLC agreed as long as a tab opened one further mailbox. With three, a
refresh that is answered late puts a row of A into the list of B, the owner moves that row, goes away
and comes back, and the move is refused: the row of A is put back into a list of B that nothing had been
wrong with. `move` remembers that the row came from a list that had `strayed`; the
run `tab` has three visits since. The proof of the list also needed its sequences without
`SelectSeq` and `SetToSortSeq`, which the prover cannot look into: `Without` and
`NewestFirst` say the same.

The theorems of `DraftProofs` take `DraftAssumption` as a hypothesis, which is what the
run `once` assumes of its instance. `ConsumedOnce` needs no more. The others also have
the hypothesis `~Reborn`: no create that was under way, or was not answered, comes after
the draft was discarded, whose revisions would begin again at 1. The last one has
`~TwoTabsNew`: a draft that the server has not yet answered for is not opened in a second
tab. The run `once` has both; what the code does without them is in section 6
(`draft_two_tabs` is the counterexample without `~TwoTabsNew`). Together they are the
conjuncts of `SentOnceAsShown` and `NoSilentOverwrite` of `MCOnce`.

Only model-checked:
* all liveness (`Settles`, `CopyEnds`, `Converges`, `ProcessFollows`, ...): fairness and
  ENABLED are out of the prover's reach;
* `OneEpoch` and `NothingSkipped` after one lost session (`sync_safety` has one): then
  two runs may interleave and `Alone`, which all of `MailboxSync`'s argument rests on,
  is gone. `NothingIsSkipped` also assumes `Plain`, that is `OldArrives = FALSE`
  (section 6 has what happens otherwise) and a window that FETCH answers in full.

## 6. Findings and observations

Three runs violate what the repository says of itself; `PROJECT.json` quotes it.

* `sync_missed`: the first delta run of a mailbox whose recent window is empty sets its
  frontier to UIDNEXT - 1; an old-dated message moved in after the backfill passed is
  never stored. With `OldArrives = FALSE` nothing is skipped.
* `draft_two_tabs`: opening a draft adopts a recovery copy of an unanswered first save
  with the present revision, and its save replaces what another tab wrote since.
* `signature_undo`: after Undo brought an automatic signature back, an edited signature
  is replaced when From changes.

Observed while modelling, without a run of their own (each is a definition of its module
that TLC violates, or a remark on the code):

* Commands: a pending command whose placement was deleted is never settled, because a
  uuid column is compared with `''` (`CommandSettles`); two concurrent requests create
  two active commands (`OneActive`); maintenance fails a pending move and leaves its
  message hidden (`HiddenHasMove`); a failing command writes back flags of the moment of
  its creation over newer ones (`FlagsReconciled`).
* Signatures: `ReadyMeansSettled` fails when a list is left open while From changes;
  a POST or PATCH repeated after a lost answer is told of a conflict; a POST repeated
  after a deletion creates the signature again.
* IDLE: the entry of a watch that ended stays in the map when a refresh is answered
  while the manager is stopped; the inbox is not watched after the resume until it is
  ineligible once. Delta polling covers it.
* Conversations: the new row of a moved message collides with its old row and the thread
  falls apart (`PlacementKeepsGroup`; compare `tests/conversations.integration.test.ts:537`).
* List: a refresh applies its answer without checking that its mailbox is still open.
  Actions: a message marked unread by hand is marked read again by its automatic
  reading. Reader: `mail-client.tsx:408` leaves `preparingState` set (`PreparingIsTrue`).
* Reader: a click on the notification of the message that is open, in a mailbox that is open, clears the
  pane and sets it loading (`mail-client.tsx:1332-1343`), `navigate` returns early (1288-1293), and
  nothing that the effect of the load depends on has changed (1160-1221). If the load is over, the
  pane stays a skeleton, without the failure and its button if there was one, until another
  message is selected. `ReaderSettles` excepts it (`load.pc = "cleared"`); without the
  exception TLC finds it in a few steps.
* Drafts: the fields are disabled only while the composer sends (`mail-composer.tsx:553`), so the
  owner can write while Discard waits. `discard` has stopped the composer (317), `backup` and
  `save` return (181, 206), and when the DELETE fails (333-335) the edit is in the tab alone until the
  next edit or save. `LastEditKept` excepts it (`kept`); without the exception TLC finds it.
* Drafts: the revision starts again at 1 after a discard; a discard after a lost create
  leaves the row; a tab whose PATCH answer was lost conflicts with itself; a client that
  repeats a draftless POST creates a second message.
* Contents and attachments: content is also fetched without being asked for
  (`OnDemand`); repair does not reach attachments of drafts (`RepairReachesDrafts`).
* Recovery: the counts of wrong proofs are rows of the database (`auth-admission.ts:31-88`), and
  nothing raises them after a restore: a backup from before the wrong proofs gives the attempts back within
  one window. Only the host's operator can restore; `ProofsAreCounted` adds what was taken off
  (`rolled`), and without it TLC finds more than the limit.
* OAuth: Microsoft's revocation marks an account outside the row lock
  (`MicrosoftGrantStands`). A grant of another mailbox is compared outside the lock as
  well, but never stored (`GrantIsOfTheMailbox`).
* Discovery: scheduling writes "pending" after a quick worker's success; a connection
  test stores the result of settings that were replaced since; a listing without ids that is applied
  after one with ids moves the rows at its paths to other mailboxes (`blind`, section 5).
* Worker: a handler that outlives the 30 seconds of the runtime's stop keeps running
  while "paused" is logged; a runtime whose stop fails twice keeps the process alive.

## 7. Abstractions, and what is not modelled

* Messages, mailboxes, paths, tabs are model values; MIME is "loads or not"; flags of a
  synchronized message are named by the MODSEQ that made them; the content of a draft is
  the number of its last edit.
* Time is a Boolean (due, expired) or a fair step; timeouts of SMTP and IMAP are the
  uncertain and failing outcomes.
* Waiting jobs of one Sent copy, command or kind of synchronization are a set: another
  one runs the handler once more, which the pollers do anyway.
* Drafts: a second button pressed while Close or Discard waits for its request, and a composer
  that goes away (by a click on a notification) while its own discard or send goes on.
  Reader: opening a draft from the search view, which does not move the generation of the prepared
  answers (`mail-client.tsx:1549-1554`).
* Throttling and cookies of `OwnerAccess`, wording, layout, validation
  of forms, parsing of mail, sanitizing and rendering, search, diagnostics and thin
  routes are not modelled. Attachments: the MIME files of outgoing mail. Conversations:
  later edits of headers. Notifications are at most once by design: a lost one is lost.
* The page size of `repair` (100 rows without an order) is in `OutgoingMessage` and
  `SentCopy` as `RepairLimit`, without a property: rows that hide others need more
  candidates than the instances have.

## 8. Plan

1. `MailboxSync` after a lost session: what two interleaved runs can still not do.
