----------------------------- MODULE MCServicesLive -----------------------------
(***************************************************************************)
(* IdleWatcher on a small instance, and beside it services that share      *)
(* nothing with it but the process: `focus` names the one that moves in a  *)
(* behaviour, the others stay in their initial state.  The states are the  *)
(* union of those of the components, not their product.                    *)
(***************************************************************************)
EXTENDS IdleWatcher

CONSTANTS b1, b2, w1, w2, d1, d2, p1, delivery, none

VARIABLES
  focus,
  content, contentUsable, contentJobs, contentWork, boss, request, contentSpent,
  reader, contentBudget,
  fileRow, disk, fileJobs, fileLock, worker, ask, fileUsable, staged, draft, message,
  direct, fileBudget,
  copy, dest, marker, copyEnabled, copyRole, path, copyJobs, batch, copyLock, pc,
  copyJob, cred, seen, ending, faults, lost, moves, appends, stored, synced,
  server, created, boxesRow, stands, blind, boxesRole, chosen, boxesEnabled, status, boxesJob,
  boxesWork, web, asked, boxesSpent, boxesBudget

Content == INSTANCE MessageContent WITH
  Boxes <- {b1, b2}, None <- none, RetryLimit <- 1, MaxChanges <- 0, MaxFaults <- 1,
  MaxOutlived <- 1, usable <- contentUsable, jobs <- contentJobs, work <- contentWork,
  spent <- contentSpent, budget <- contentBudget

File == INSTANCE Attachment WITH
  Workers <- {w1, w2}, Drafts <- {d1, d2}, None <- none, MaxBlobs <- 2, MaxAsks <- 2,
  MaxFaults <- 1, row <- fileRow, jobs <- fileJobs, lock <- fileLock,
  usable <- fileUsable, budget <- fileBudget

Copy == INSTANCE SentCopy WITH
  Messages <- {1}, Workers <- {w1}, Boxes <- {b1}, Paths <- {p1}, None <- none,
  Delivery <- delivery, RepairLimit <- 1, MaxFaults <- 1, MaxLost <- 1, MaxMoves <- 2,
  enabled <- copyEnabled, role <- copyRole, jobs <- copyJobs, lock <- copyLock,
  job <- copyJob

Discovery == INSTANCE MailboxDiscovery WITH
  Special <- {1}, RetryLimit <- 1, MaxPaths <- 1, MaxBoxes <- 1, MaxRows <- 1,
  MaxChanges <- 0, MaxAsks <- 2, MaxChoices <- 0, MaxFaults <- 2, MaxOutlived <- 1,
  row <- boxesRow, role <- boxesRole, enabled <- boxesEnabled, job <- boxesJob,
  work <- boxesWork, spent <- boxesSpent, budget <- boxesBudget

ASSUME Content!ContentAssumption /\ File!AttachmentAssumption /\ Discovery!DiscoveryAssumption

contentVars ==
  <<content, contentUsable, contentJobs, contentWork, boss, request, contentSpent,
    reader, contentBudget>>
fileVars ==
  <<fileRow, disk, fileJobs, fileLock, worker, ask, fileUsable, staged, draft, message,
    direct, fileBudget>>
copyVars ==
  <<copy, dest, marker, copyEnabled, copyRole, path, copyJobs, batch, copyLock, pc,
    copyJob, cred, seen, ending, faults, lost, moves, appends, stored, synced>>
boxesVars ==
  <<server, created, boxesRow, stands, blind, boxesRole, chosen, boxesEnabled, status,
    boxesJob, boxesWork, web, asked, boxesSpent, boxesBudget>>
all == <<focus, vars, contentVars, fileVars, copyVars, boxesVars>>

AllInit ==
  /\ focus \in {"idle", "content", "file", "copy", "boxes"}
  /\ Init
  /\ Content!Init /\ (focus # "content" => content.status = "ready")
  /\ File!Init
  /\ Copy!Init
  /\ Discovery!Init /\ (focus # "boxes" => server.ids)

IdleNext ==
  focus = "idle" /\ Next /\ UNCHANGED <<contentVars, fileVars, copyVars, boxesVars>>
ContentNext ==
  focus = "content" /\ Content!Next /\ UNCHANGED <<vars, fileVars, copyVars, boxesVars>>
FileNext ==
  focus = "file" /\ File!Next /\ UNCHANGED <<vars, contentVars, copyVars, boxesVars>>
CopyNext ==
  focus = "copy" /\ Copy!Next /\ UNCHANGED <<vars, contentVars, fileVars, boxesVars>>
DiscoveryNext ==
  focus = "boxes" /\ Discovery!Next /\ UNCHANGED <<vars, contentVars, fileVars, copyVars>>

AllNext == UNCHANGED focus /\ (IdleNext \/ ContentNext \/ FileNext \/ CopyNext \/ DiscoveryNext)

AllSpec == AllInit /\ [][AllNext]_all

\* The fairness of each component, of the one that moves.
AllFairSpec ==
  /\ AllSpec
  /\ WF_vars(focus = "idle" /\ Refresh)
  /\ \A w \in Watches :
       /\ WF_vars(focus = "idle" /\ Loop(w))
       /\ WF_vars(focus = "idle" /\ Hear(w))
       /\ WF_vars(focus = "idle" /\ Wake(w))
  /\ WF_boxesVars(focus = "boxes" /\ Discovery!Worker)
  /\ WF_boxesVars(focus = "boxes" /\ Discovery!Web)
  /\ WF_contentVars(focus = "content" /\ Content!Poll)
  /\ WF_contentVars(focus = "content" /\ Content!Web)
  /\ WF_contentVars(focus = "content" /\ Content!Worker)
  /\ WF_fileVars(focus = "file" /\ File!Repair)
  /\ WF_fileVars(focus = "file" /\ File!Web)
  /\ \A w \in {w1, w2} : WF_fileVars(focus = "file" /\ File!Run(w))
  /\ SF_copyVars(focus = "copy" /\ Copy!Take(w1, 1))
  /\ WF_copyVars(focus = "copy" /\ Copy!DeliverEnd(1))
  /\ WF_copyVars(focus = "copy" /\ Copy!Repair)
  /\ WF_copyVars(focus = "copy" /\ Copy!RepairNext(1))
  /\ WF_copyVars(focus = "copy" /\ Copy!RunStep(w1))
  /\ SF_copyVars(focus = "copy" /\ Copy!RequestSync(w1) /\ pc'[w1] = "clear")

-----------------------------------------------------------------------------
(* The properties of the components, which state them. *)

\* Stated in MessageContent: work under way is somebody's work, the worker takes away no
\* text that was fetched, and a reader that waits is answered.
ReaderAnswered == [](Content!TypeOK /\ Content!NeverStranded) /\ Content!WorkerKeepsText /\ Content!ReaderAnswered
\* Stated in Attachment: an uploaded file goes to one place, a request does not undo
\* what a worker has done, and what was asked for comes to an end.
AttachmentServed == [](File!TypeOK /\ File!OnePlace) /\ File!RequestKeepsBytes /\ File!AttachmentSettles
\* Stated in SentCopy: a copy is settled, and a saved one is synchronized.
CopyEnds == Copy!CopySettles /\ Copy!SyncFollows
\* Stated in MailboxDiscovery: what was asked for is listed.
ListingFollows == Discovery!ListingFollows
=============================================================================
