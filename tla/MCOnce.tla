----------------------------- MODULE MCOnce -----------------------------
(***************************************************************************)
(* SentCopy on a small instance, and beside it what else is done once: the *)
(* MOVE of a message and the sending of a draft.  `focus` names the        *)
(* component that moves in a behaviour, the others stay in their initial   *)
(* state.                                                                  *)
(***************************************************************************)
EXTENDS SentCopy, TLC

CONSTANTS m1, c1, t1, t2, mark

VARIABLES
  focus,
  cstatus, action, origin, target, original, attempts, here, flags, hidden, checkpoint,
  noticed, ready, rhere, rflags, rmod, highest, renewed, commandJobs, commandLock,
  commandPc, commandJob, commandSeen, error, commandFaults, commandLost, remote,
  restores, commandMoves, applied,
  draft, sent, tab, backup, dropped, strays, alone, kept, budget

Command == INSTANCE MessageCommand WITH
  Placements <- {m1}, Commands <- {c1}, Workers <- Workers, None <- None,
  Flags <- {mark}, MaxAttempts <- 1, MaxFaults <- 1, MaxLost <- 1, MaxRemote <- 1,
  MaxRestores <- 1, jobs <- commandJobs, lock <- commandLock, pc <- commandPc,
  job <- commandJob, seen <- commandSeen, faults <- commandFaults, lost <- commandLost,
  moves <- commandMoves

Drafts == INSTANCE Draft WITH
  Tabs <- {t1, t2}, MaxEdits <- 3, MaxOpens <- 2, MaxFaults <- 2, Large <- {2},
  TwoTabsNew <- FALSE, Reborn <- FALSE

ASSUME Drafts!DraftAssumption

commandVars ==
  <<cstatus, action, origin, target, original, attempts, here, flags, hidden,
    checkpoint, noticed, ready, rhere, rflags, rmod, highest, renewed, commandJobs,
    commandLock, commandPc, commandJob, commandSeen, error, commandFaults, commandLost,
    remote, restores, commandMoves, applied>>
draftVars ==
  <<draft, sent, tab, backup, dropped, strays, alone, kept, budget>>
all == <<focus, vars, commandVars, draftVars>>

AllInit ==
  /\ focus \in {"copy", "command", "draft"}
  /\ Init
  /\ Command!Init
  /\ Drafts!Init

CopyNext ==
  focus = "copy" /\ Next /\ UNCHANGED <<commandVars, draftVars>>
CommandNext ==
  focus = "command" /\ Command!Next
  /\ (commandFaults + commandLost + remote + restores)' <= 2
  /\ UNCHANGED <<vars, draftVars>>
DraftsNext ==
  focus = "draft" /\ Drafts!Next /\ UNCHANGED <<vars, commandVars>>

AllNext == UNCHANGED focus /\ (CopyNext \/ CommandNext \/ DraftsNext)

AllSpec == AllInit /\ [][AllNext]_all

Symmetric == Permutations(Workers) \cup Permutations(Boxes) \cup Permutations(Paths) \cup Permutations({t1, t2})

-----------------------------------------------------------------------------
(* The properties of the components, which state them.  What is true of every   *)
(* state is asked where the component moves: elsewhere it is as it began.        *)

\* Stated in MessageCommand: a MOVE is tried once, what succeeded was done, what is
\* hidden will be shown or moved, and what has ended stays as it ended.
CommandIsHonest == [](focus = "command" => Command!TypeOK /\ Command!MoveOnce /\ Command!SucceededWasApplied
                                           /\ Command!HiddenUntilRestore)
                   /\ Command!OutcomeIsFinal
\* Stated in Draft: a draft is sent once and as it was shown, and the last edit is
\* on the server or in the browser.
SentOnceAsShown == focus = "draft" => Drafts!SentOnceAsShown /\ Drafts!LastEditKept
\* Stated in Draft: a text is replaced by one whose writer had it in view.
NoSilentOverwrite == Drafts!NoSilentOverwrite
=============================================================================
