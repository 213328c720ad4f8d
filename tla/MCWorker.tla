----------------------------- MODULE MCWorker -----------------------------
(***************************************************************************)
(* WorkerProcess on a small instance, and beside it the synchronization of *)
(* a mailbox.  `focus` names the component that moves in a behaviour, the  *)
(* others stay in their initial state.                                     *)
(***************************************************************************)
EXTENDS WorkerProcess

VARIABLES
  focus,
  server, box, local, queued, lock, syncPc, run, alerts, window, syncBudget

Sync == INSTANCE MailboxSync WITH
  MaxUid <- 2, MaxEpoch <- 1, OldDated <- {1}, OldArrives <- FALSE, Condstore <- TRUE,
  MayOmit <- {}, BatchSize <- 1, ChunkSize <- 1, MaxRequests <- 1, MaxEvents <- 1,
  MaxLost <- 0, pc <- syncPc, budget <- syncBudget

syncVars ==
  <<server, box, local, queued, lock, syncPc, run, alerts, window, syncBudget>>
all == <<focus, vars, syncVars>>

AllInit ==
  /\ focus \in {"worker", "sync"}
  /\ Init /\ (focus # "worker" => ready)
  /\ Sync!Init /\ (focus # "sync" => server.mail = <<>>)

ProcessNext ==
  focus = "worker" /\ Next /\ UNCHANGED <<syncVars>>
SyncNext ==
  focus = "sync" /\ Sync!Next /\ UNCHANGED <<vars>>

AllNext == UNCHANGED focus /\ (ProcessNext \/ SyncNext)

AllSpec == AllInit /\ [][AllNext]_all

\* The fairness of each component, of the one that moves.
AllFairSpec ==
  /\ AllSpec
  /\ WF_vars(focus = "worker" /\ Succeeding)
  /\ WF_vars(focus = "worker" /\ HandlerEnds)
  /\ \A p \in Pollers : WF_vars(focus = "worker" /\ PollEnds(p))
  /\ WF_syncVars(focus = "sync" /\ Sync!Recent)
  /\ WF_syncVars(focus = "sync" /\ Sync!Delta)
  /\ WF_syncVars(focus = "sync" /\ Sync!Backfill)
  /\ WF_syncVars(focus = "sync" /\ Sync!Requests)
  /\ \A k \in Sync!Kinds :
       /\ WF_syncVars(focus = "sync" /\ Sync!Throw(k))
       /\ WF_syncVars(focus = "sync" /\ Sync!Cut(k) /\ Sync!Fail(k))
  /\ \A k \in {"recent", "delta"} : SF_syncVars(focus = "sync" /\ Sync!Take(k) /\ lock' = k)
  /\ SF_syncVars(focus = "sync" /\ Sync!TakeBackfill /\ lock' = "backfill")
  /\ SF_syncVars(focus = "sync" /\ Sync!BackfillStart /\ syncPc'["backfill"] = "select")
  /\ WF_syncVars(focus = "sync" /\ Sync!DeltaPoll)
  /\ WF_syncVars(focus = "sync" /\ Sync!BackfillPoll)
  /\ []<>(focus = "sync" /\ Sync!Eligible /\ Sync!Unfilled => Sync!Moment)

-----------------------------------------------------------------------------
(* The properties of the components, which state them. *)

\* Stated in WorkerProcess: a shutdown ends, and the worker runs while the instance
\* is ready.
ProcessFollows == focus = "worker" => ShutdownEnds /\ FollowsReadiness
\* Stated in MailboxSync: the local mailbox comes to what the server has.
Converges == focus = "sync" => Sync!Converges
=============================================================================
