----------------------------- MODULE MCTab -----------------------------
(***************************************************************************)
(* MessageReader on a small instance, and beside it the list and the       *)
(* actions of the same tab, and two tabs that show notifications: `focus`  *)
(* names the part that moves in a behaviour, the others stay in their      *)
(* initial state.                                                          *)
(***************************************************************************)
EXTENDS MessageReader

CONSTANTS t1, t2

VARIABLES
  focus,
  stored, hidden, open, list, cursor, more, error, loaded, first, listPage,
  listLoading, refresh, move, strayed, listBudget,
  seen, remote, command, unseen, shown, acts, active, ask, pending, rendered,
  reconciled, polls, groups, adjust, count, folder, actsPage, faults,
  sequence, checkpoint, wanted, event, newsTab, stray, told, opened, excluded, newsBudget

\* The mailbox of each message of the list.
Where == [m \in {1, 2, 3} |-> IF m = 3 THEN "B" ELSE "A"]

List == INSTANCE MailList WITH
  Messages <- {1, 2, 3}, Mailboxes <- {"A", "B"}, Home <- Where, None <- None,
  PageSize <- 1, MaxChanges <- 0, MaxVisits <- 3, MaxMoves <- 1, MaxFaults <- 1,
  page <- listPage, loading <- listLoading, budget <- listBudget

Acts == INSTANCE MailActions WITH
  Messages <- {1}, MaxActs <- 2, MaxFaults <- 1, page <- actsPage

News == INSTANCE Notifications WITH
  Tabs <- {t1, t2}, Kinds <- {"inbox"}, Page <- 1, MaxEvents <- 2, MaxMounts <- 2, MaxAsks <- 2,
  MaxFaults <- 1, tab <- newsTab, shown <- told, budget <- newsBudget

ASSUME List!ListAssumption /\ Acts!ActionsAssumption /\ News!NotificationsAssumption

listVars ==
  <<stored, hidden, open, list, cursor, more, error, loaded, first, listPage,
    listLoading, refresh, move, strayed, listBudget>>
actsVars ==
  <<seen, remote, command, unseen, shown, acts, active, ask, pending, rendered,
    reconciled, polls, groups, adjust, count, folder, actsPage, faults>>
newsVars ==
  <<sequence, checkpoint, wanted, event, newsTab, stray, told, opened, excluded,
    newsBudget>>
all == <<focus, vars, listVars, actsVars, newsVars>>

\* The list begins in A: what begins in B is what goes there first, with one visit less.
AllInit ==
  /\ focus \in {"reader", "list", "acts", "news"}
  /\ Init /\ (focus # "reader" => content = [m \in Messages |-> "ready"] /\ image = [m \in Messages |-> "done"])
  /\ List!Init /\ open = "A" /\ (focus # "list" => stored = {})
  /\ Acts!Init
  /\ News!Init

ReaderNext ==
  focus = "reader" /\ Next /\ UNCHANGED <<listVars, actsVars, newsVars>>
ListNext ==
  focus = "list" /\ List!Next /\ UNCHANGED <<vars, actsVars, newsVars>>
ActsNext ==
  focus = "acts" /\ Acts!Next /\ UNCHANGED <<vars, listVars, newsVars>>
NewsNext ==
  focus = "news" /\ News!Next /\ UNCHANGED <<vars, listVars, actsVars>>

AllNext == UNCHANGED focus /\ (ReaderNext \/ ListNext \/ ActsNext \/ NewsNext)

AllSpec == AllInit /\ [][AllNext]_all

\* The fairness of each component, of the one that moves.
AllFairSpec ==
  /\ AllSpec
  /\ WF_vars(focus = "reader" /\ Load)
  /\ WF_vars(focus = "reader" /\ Answer)
  /\ WF_vars(focus = "reader" /\ (RetryAnswer \/ RetryEnds))
  /\ \A m \in Messages : WF_vars(focus = "reader" /\ Fetch(m))
  /\ WF_listVars(focus = "list" /\ List!First)
  /\ WF_listVars(focus = "list" /\ List!Older)
  /\ WF_listVars(focus = "list" /\ List!Refreshing)
  /\ \A m \in {1, 2, 3} : WF_listVars(focus = "list" /\ List!Moving(m))
  /\ \A id \in Acts!Ids :
       /\ WF_actsVars(focus = "acts" /\ Acts!Answer(id))
       /\ WF_actsVars(focus = "acts" /\ Acts!Execute(id))
  /\ WF_actsVars(focus = "acts" /\ Acts!Render)
  /\ WF_actsVars(focus = "acts" /\ Acts!Poll(1))
  /\ WF_actsVars(focus = "acts" /\ Acts!Folder)
  /\ WF_actsVars(focus = "acts" /\ Acts!Page)
  /\ WF_actsVars(focus = "acts" /\ Acts!Delta)

-----------------------------------------------------------------------------
(* The properties of the components, which state them.  What is true of every   *)
(* state is asked where the component moves: elsewhere it is as it began.        *)

\* Stated in MailList: no row twice, of the open mailbox, pages can be asked for, and
\* the list comes to begin with the present first page.
ListFollows == [](focus = "list" => List!TypeOK /\ List!NoDuplicate /\ List!OwnMailbox /\ List!NeverStuck) /\ List!HeadFollows
\* Stated in MailActions: a message waits exactly for its own action, the owner is
\* told once what came of a press, and badge and rows come to what the server has.
ActionsAddUp == [](focus = "acts" => Acts!TypeOK /\ Acts!KeptWhileUnderWay /\ Acts!FeedbackAddsUp) /\ Acts!TabFollows
\* Stated in Notifications: an arrival is shown at most once, and only new and
\* wanted mail is told.
NewsOnce == [](focus = "news" => News!TypeOK /\ News!ShownOnce) /\ News!NoOldNews
=============================================================================
