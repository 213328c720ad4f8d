----------------------------- MODULE MCServicesSafe -----------------------------
(***************************************************************************)
(* OwnerAccess on a small instance, and beside it services that share      *)
(* nothing with it but the process: `focus` names the one that moves in a  *)
(* behaviour, the others stay in their initial state.                      *)
(***************************************************************************)
EXTENDS OwnerAccess

CONSTANTS m1, w1, w2, f1, f2, t1, t2, poller, none

VARIABLES
  focus,
  restoredStatus, attempts, due, policy, copy, usable, jobs, copyJobs, restoredLock,
  pc, restoredJob, cred, claim, result, sweep, restoredFaults, lost, submissions,
  restoredAccepted, restoredBackup, used, restores,
  issuer, account, issued, own, valid, oauthLock, oauthWork, flow, oauthBudget,
  server, created, boxesRow, stands, blind, role, chosen, boxesEnabled, boxesStatus, boxesJob,
  boxesWork, web, asked, spent, boxesBudget,
  threadRow, group, reference, merged,
  tplRow, resources, upload, default, edit, saving, deleting, snapshot, texts, born,
  reborn, broken, tplFaults,
  alive, defaults, from, initialize, ready, busy, failed, loading, catalog, previous,
  emptied, node, past, fill, late, menu, insert, removed, undone, strayed, signBudget,
  db, set, recBackup, old, files, recLast, run, fails, recWork, guessed, rolled, online, must,
  recAccepted, recBudget

Restored == INSTANCE OutgoingRestore WITH
  Messages <- {m1}, Workers <- {w1, w2}, Poller <- poller, None <- none,
  Policies <- {"maildock"}, MaxAttempts <- 2, RepairLimit <- 1, MaxJobs <- 1,
  MaxFaults <- 0, MaxLost <- 0, MaxRestores <- 1, status <- restoredStatus,
  lock <- restoredLock, job <- restoredJob, faults <- restoredFaults,
  accepted <- restoredAccepted, backup <- restoredBackup

OAuth == INSTANCE OAuthGrant WITH
  Workers <- {w1, w2}, Flows <- {f1, f2}, None <- none,
  Issuers <- {"google", "microsoft"}, MaxGrants <- 3, MaxFaults <- 1,
  lock <- oauthLock, work <- oauthWork, budget <- oauthBudget

Discovery == INSTANCE MailboxDiscovery WITH
  Special <- {1, 3}, RetryLimit <- 1, MaxPaths <- 2, MaxBoxes <- 2, MaxRows <- 5,
  MaxChanges <- 3, MaxAsks <- 1, MaxChoices <- 1, MaxFaults <- 0, MaxOutlived <- 1,
  row <- boxesRow, enabled <- boxesEnabled, status <- boxesStatus, job <- boxesJob,
  work <- boxesWork, budget <- boxesBudget

\* A mail, an answer, an answer to that one which names a mail that never comes,
\* and a mail without an id that names two of them.
Thread ==
  [a |-> [own |-> {"a"}, refs |-> {}],
   b |-> [own |-> {"b"}, refs |-> {"a"}],
   c |-> [own |-> {"c"}, refs |-> {"b", "x"}],
   d |-> [own |-> {}, refs |-> {"c", "x"}]]

Threads == INSTANCE Conversation WITH
  Mails <- {"a", "b", "c", "d"}, Headers <- Thread, MaxRows <- 4, MaxLeaves <- 1,
  row <- threadRow

Templates == INSTANCE SignatureTemplates WITH
  Tabs <- {t1, t2}, Ids <- {"s"}, Files <- {"f", "g"}, None <- none, MaxTexts <- 2,
  MaxFaults <- 1, row <- tplRow, faults <- tplFaults

Insertion == INSTANCE SignatureInsertion WITH
  Accounts <- {"a", "b"}, Signatures <- {"s", "t"}, None <- none, MaxEdits <- 1,
  MaxUndos <- 1, MaxFaults <- 1, MaxSettings <- 1, MaxStrays <- 1, budget <- signBudget

Recovery == INSTANCE OfflineRecovery WITH
  MaxFiles <- 3, MaxCodes <- 3, MaxReceipts <- 3, MaxChanges <- 3, MaxFaults <- 1,
  MaxWork <- 1, MaxProofs <- 1, backup <- recBackup, last <- recLast, work <- recWork,
  accepted <- recAccepted, budget <- recBudget

ASSUME
  /\ Restored!RestoreAssumption /\ OAuth!OAuthAssumption /\ Threads!ConversationAssumption
  /\ Discovery!DiscoveryAssumption /\ Templates!TemplatesAssumption /\ Insertion!InsertionAssumption /\ Recovery!RecoveryAssumption

restoredVars ==
  <<restoredStatus, attempts, due, policy, copy, usable, jobs, copyJobs, restoredLock,
    pc, restoredJob, cred, claim, result, sweep, restoredFaults, lost, submissions,
    restoredAccepted, restoredBackup, used, restores>>
oauthVars ==
  <<issuer, account, issued, own, valid, oauthLock, oauthWork, flow, oauthBudget>>
boxesVars ==
  <<server, created, boxesRow, stands, blind, role, chosen, boxesEnabled, boxesStatus,
    boxesJob, boxesWork, web, asked, spent, boxesBudget>>
threadVars ==
  <<threadRow, group, reference, merged>>
tplVars ==
  <<tplRow, resources, upload, default, edit, saving, deleting, snapshot, texts, born,
    reborn, broken, tplFaults>>
signVars ==
  <<alive, defaults, from, initialize, ready, busy, failed, loading, catalog, previous,
    emptied, node, past, fill, late, menu, insert, removed, undone, strayed, signBudget>>
recVars ==
  <<db, set, recBackup, old, files, recLast, run, fails, recWork, guessed, rolled,
    online, must, recAccepted, recBudget>>
all == <<focus, vars, restoredVars, oauthVars, boxesVars, threadVars, tplVars, signVars, recVars>>

AllInit ==
  /\ focus \in {"access", "restored", "oauth", "boxes", "thread", "tpl", "sign", "rec"}
  /\ Init
  /\ Restored!RInit
  /\ OAuth!Init /\ (focus # "oauth" => issuer = "google")
  /\ Discovery!Init /\ (focus # "boxes" => server.ids)
  /\ Threads!Init
  /\ Templates!Init
  /\ Insertion!Init /\ (focus # "sign" => initialize /\ defaults["b"] = none /\ defaults["a"] = none) /\ from = "a" /\ defaults["a"] # "t" /\ defaults["b"] # "s"
  /\ Recovery!Init

AccessNext ==
  focus = "access" /\ Next /\ UNCHANGED <<restoredVars, oauthVars, boxesVars, threadVars, tplVars, signVars, recVars>>
RestoredNext ==
  focus = "restored" /\ Restored!RNext /\ UNCHANGED <<vars, oauthVars, boxesVars, threadVars, tplVars, signVars, recVars>>
OAuthNext ==
  focus = "oauth" /\ OAuth!Next /\ UNCHANGED <<vars, restoredVars, boxesVars, threadVars, tplVars, signVars, recVars>>
DiscoveryNext ==
  focus = "boxes" /\ Discovery!Next /\ UNCHANGED <<vars, restoredVars, oauthVars, threadVars, tplVars, signVars, recVars>>
ThreadsNext ==
  focus = "thread" /\ Threads!Next /\ UNCHANGED <<vars, restoredVars, oauthVars, boxesVars, tplVars, signVars, recVars>>
TemplatesNext ==
  focus = "tpl" /\ Templates!Next /\ UNCHANGED <<vars, restoredVars, oauthVars, boxesVars, threadVars, signVars, recVars>>
InsertionNext ==
  focus = "sign" /\ Insertion!Next
  /\ (signBudget.edits + signBudget.undos + signBudget.faults + signBudget.settings)' >= 2
  /\ UNCHANGED <<vars, restoredVars, oauthVars, boxesVars, threadVars, tplVars, recVars>>
\* Of what another factor ends, and of what it does not end, one thing each.
RecoveryNext ==
  focus = "rec" /\ Recovery!Next /\ db'.left \subseteq {"session", "outgoing"} /\ UNCHANGED <<vars, restoredVars, oauthVars, boxesVars, threadVars, tplVars, signVars>>

AllNext == UNCHANGED focus /\ (AccessNext \/ RestoredNext \/ OAuthNext \/ DiscoveryNext \/ ThreadsNext \/ TemplatesNext \/ InsertionNext \/ RecoveryNext)

AllSpec == AllInit /\ [][AllNext]_all

-----------------------------------------------------------------------------
(* The properties of the components, which state them.  What is true of every   *)
(* state is asked where the component moves: elsewhere it is as it began.        *)

\* Stated in OutgoingMessage: no message is handed over twice, nor after a restore.
AtMostOneSubmission == focus = "restored" => Restored!TypeOK /\ Restored!AtMostOneSubmission
\* Stated in OAuthGrant: a stale refusal marks no newer grant.
GrantStands == [](focus = "oauth" => OAuth!TypeOK) /\ OAuth!GrantStands
\* Stated in MailboxDiscovery: a chosen mailbox is not exchanged for another.
ChosenStays == focus = "boxes" => Discovery!TypeOK /\ Discovery!ChosenStays
\* Stated in Conversation: the threads do not depend on the order in which mail
\* came, and old ids lead to them.
ThreadsAreRight == focus = "thread" => Threads!TypeOK /\ Threads!OrderIsForgotten /\ Threads!RedirectsFollow
\* Stated in SignatureTemplates: a signature has the images of its document, and a
\* save replaces a text its editor has read.
TextIsWhole == [](focus = "tpl" => Templates!TypeOK /\ Templates!ImagesComplete) /\ Templates!NoUnseenText
\* Stated in SignatureInsertion: a composer that is ready has the right signature,
\* one that is not becomes ready or offers to try again, and what the user changed
\* is not replaced.
SignatureIsRight == [](focus = "sign" => Insertion!TypeOK /\ Insertion!ReadyIsSettled /\ Insertion!NeverStuck) /\ Insertion!EditsWin
\* Stated in SignatureInsertion: what the user changed is not replaced, after Undo too.
UserEditsAlwaysWin == Insertion!UserEditsAlwaysWin
\* Stated in OfflineRecovery: what is opened again is clean, and every wrong proof
\* counts.
RecoveryIsSafe == focus = "rec" => Recovery!TypeOK /\ Recovery!ReopenedSafely /\ Recovery!ProofsAreCounted
=============================================================================
