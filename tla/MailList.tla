------------------------------ MODULE MailList ------------------------------
(***************************************************************************)
(* The list of the open mailbox in a browser tab (mail-client.tsx): the     *)
(* first page is asked for again and again, older pages are added below,    *)
(* Refresh and moves of the owner change it, and the owner goes from one   *)
(* mailbox to another while the answers are on their way.                  *)
(***************************************************************************)
EXTENDS Naturals, SequencesExt

CONSTANTS
  Messages,    \* placements; the greater number is the newer message
  Mailboxes,
  Home,        \* the mailbox of a message: a move makes a new one elsewhere
  None,        \* no message
  PageSize,    \* the 50 of the requests
  MaxChanges,  \* bound: messages that come or go by other hands
  MaxVisits,   \* bound: mailboxes opened
  MaxMoves,    \* bound: messages the owner moves
  MaxFaults    \* bound: requests that fail

ListAssumption ==
  /\ Messages \subseteq Nat \ {0} /\ IsFiniteSet(Messages) /\ None \notin Messages
  /\ Home \in [Messages -> Mailboxes]
  /\ PageSize \in Nat \ {0}
  /\ {MaxChanges, MaxVisits, MaxMoves, MaxFaults} \subseteq Nat

VARIABLES
  stored,    \* mailbox_messages that list() shows: there and not actionHidden
  hidden,    \* rows with actionHidden
  open,      \* accountId and mailboxId
  list,      \* messages
  cursor,    \* nextCursor: the message that the next page comes after
  more,      \* loadedMoreRef
  error,     \* paginationError
  loaded,    \* not loadingMessages: a first page has come, or failed
  first,     \* the request of the first page that is not cancelled
  page,      \* the request of an older page whose id is pageRequestIdRef
  loading,   \* loadingPageRef
  refresh,   \* refresh(): its request, and the mailbox it was made in
  move,      \* act(): per message, what it does next, where the row was, and whether in a list that had strayed
  strayed,   \* history: an answer for another mailbox, or a row of such a list, was put into this one
  budget     \* what the bounds have left

server == <<stored, hidden>>
older == <<cursor, more, error, loaded, page, loading>>
vars == <<server, open, list, older, first, refresh, move, strayed, budget>>

Answers == [items : Seq(Messages), next : Messages \cup {None}]
NoAnswer == [items |-> <<>>, next |-> None]
NoFirst == [pc |-> "none", answer |-> NoAnswer]
NoPage == [pc |-> "none", cursor |-> None, live |-> FALSE, answer |-> NoAnswer]
NoRefresh(box) == [pc |-> "none", of |-> box, answer |-> NoAnswer]
Unmoved == [pc |-> "none", index |-> 0, of |-> None, astray |-> FALSE]

TypeOK ==
  /\ stored \subseteq Messages /\ hidden \subseteq Messages \ stored
  /\ open \in Mailboxes
  /\ list \in Seq(Messages)
  /\ cursor \in Messages \cup {None} /\ {more, error, loaded, loading, strayed} \subseteq BOOLEAN
  /\ first.pc \in {"none", "asked", "answered"} /\ first.answer \in Answers
  /\ page.pc \in {"none", "asked", "answered"} /\ page.cursor \in Messages \cup {None}
  /\ page.live \in BOOLEAN /\ page.answer \in Answers
  /\ refresh.pc \in {"none", "asked", "answered"} /\ refresh.of \in Mailboxes
  /\ DOMAIN move = Messages
  /\ \A m \in Messages : move[m].pc \in {"none", "asking", "pending", "applied", "failed", "lost", "refused"}
                                /\ move[m].of \in Mailboxes \cup {None} /\ move[m].astray \in BOOLEAN
  /\ budget \in [{"changes", "visits", "moves", "faults"} -> Nat]

Init ==
  /\ stored \in SUBSET Messages /\ hidden = {}
  /\ open \in Mailboxes
  /\ list = <<>> /\ cursor = None /\ more = FALSE /\ error = FALSE /\ loaded = FALSE /\ strayed = FALSE
  /\ first = NoFirst /\ page = NoPage /\ loading = FALSE /\ refresh = NoRefresh(open)
  /\ move = [m \in Messages |-> Unmoved]
  /\ budget = [changes |-> MaxChanges, visits |-> MaxVisits, moves |-> MaxMoves, faults |-> MaxFaults]

Spend(what) == budget[what] > 0 /\ budget' = [budget EXCEPT ![what] = @ - 1]

-----------------------------------------------------------------------------
(* The server.                                                             *)

NewestFirst(rows) == CHOOSE s \in [1..Cardinality(rows) -> rows] : \A i, j \in DOMAIN s : i < j => s[i] > s[j]

\* list(): a page of a mailbox after a cursor, and the cursor of the next one if
\* there are more rows.
Listed(box, after) ==
  LET all == NewestFirst({m \in stored : Home[m] = box /\ (after = None \/ m < after)})
      items == IF Len(all) > PageSize THEN SubSeq(all, 1, PageSize) ELSE all
  IN [items |-> items, next |-> IF Len(all) > PageSize THEN Last(items) ELSE None]

\* Synchronization brings a message or takes one away.
Change(m) ==
  /\ Spend("changes") /\ m \notin hidden /\ move[m].pc = "none"
  /\ stored' = IF m \in stored THEN stored \ {m} ELSE stored \cup {m}
  /\ UNCHANGED <<hidden, open, list, older, first, refresh, move, strayed>>

-----------------------------------------------------------------------------
(* The first page.                                                         *)

\* A change of what the effect of the older pages depends on cancels its request.
Cancelled(request) == [request EXCEPT !.live = FALSE]
Watched(c, e) == IF c # cursor \/ e # error THEN Cancelled(page) ELSE page

Without(s, gone) ==
  LET kept[i \in 0..Len(s)] ==
        IF i = 0 THEN <<>> ELSE IF s[i] \in gone THEN kept[i - 1] ELSE Append(kept[i - 1], s[i])
  IN kept[Len(s)]

\* applyFirstPage(): older pages that were loaded stay below it.
MergePlainly(items) == items \o list                              \* mutant
MergeBelow(items) == list \o Without(items, ToSet(list))   \* mutant
Merge(items) == items \o Without(list, ToSet(items))
Apply(answer) ==
  /\ list' = IF more THEN Merge(answer.items) ELSE answer.items
  /\ cursor' = IF more THEN cursor ELSE answer.next
  /\ page' = Watched(cursor', error)
  /\ UNCHANGED <<more, error, loading>>

\* load(): on a timer, when the tab is seen, and when the effect begins.
AskFirst ==
  /\ first.pc = "none" /\ first' = [first EXCEPT !.pc = "asked"]
  /\ UNCHANGED <<server, open, list, older, refresh, move, strayed, budget>>

AnswerFirst ==
  /\ first.pc = "asked" /\ first' = [pc |-> "answered", answer |-> Listed(open, None)]
  /\ UNCHANGED <<server, open, list, older, refresh, move, strayed, budget>>

ApplyFirst ==
  /\ first.pc = "answered" /\ Apply(first.answer)
  /\ first' = NoFirst /\ loaded' = TRUE
  /\ UNCHANGED <<server, open, refresh, move, strayed, budget>>

FailFirst ==
  /\ first.pc # "none" /\ Spend("faults") /\ first' = NoFirst /\ loaded' = TRUE
  /\ UNCHANGED <<server, open, list, cursor, more, error, page, loading, refresh, move, strayed>>

-----------------------------------------------------------------------------
(* Older pages.                                                            *)

\* The end of the list comes into view, after the mailbox is loaded.
Reach ==
  /\ cursor # None /\ loaded /\ ~error /\ ~loading
  /\ loading' = TRUE
  /\ page' = [NoPage EXCEPT !.pc = "asked", !.cursor = cursor, !.live = TRUE]
  /\ UNCHANGED <<server, open, list, cursor, more, error, loaded, first, refresh, move, strayed, budget>>

AnswerPage ==
  /\ page.pc = "asked" /\ page' = [page EXCEPT !.pc = "answered", !.answer = Listed(open, page.cursor)]
  /\ UNCHANGED <<server, open, list, cursor, more, error, loaded, loading, first, refresh, move, strayed, budget>>

\* finally: the request with the present id makes room for the next one, also if
\* it was cancelled.
StillLoadingIfCancelled(request) == ~request.live                 \* mutant
StillLoading(request) == FALSE

ApplyPage ==
  /\ page.pc = "answered"
  /\ IF page.live
     THEN /\ more' = TRUE
          /\ list' = list \o Without(page.answer.items, ToSet(list))
          /\ cursor' = page.answer.next
     ELSE UNCHANGED <<more, list, cursor>>
  /\ loading' = StillLoading(page) /\ page' = NoPage
  /\ UNCHANGED <<server, open, error, loaded, first, refresh, move, strayed, budget>>

FailPage ==
  /\ page.pc # "none" /\ Spend("faults")
  /\ error' = (error \/ page.live)
  /\ loading' = StillLoading(page) /\ page' = NoPage
  /\ UNCHANGED <<server, open, list, cursor, more, loaded, first, refresh, move, strayed>>

\* The owner asks for the page again.
Retry ==
  /\ error /\ error' = FALSE
  /\ UNCHANGED <<server, open, list, cursor, more, loaded, page, loading, first, refresh, move, strayed, budget>>

-----------------------------------------------------------------------------
(* The owner.                                                              *)

\* navigate(): everything of the mailbox goes, and no request of the effects
\* has a say any more; a refresh has.
Navigate(box) ==
  /\ box # open /\ Spend("visits")
  /\ open' = box
  /\ list' = <<>> /\ cursor' = None /\ more' = FALSE /\ error' = FALSE /\ loaded' = FALSE /\ strayed' = FALSE
  /\ page' = NoPage /\ loading' = FALSE /\ first' = NoFirst
  /\ UNCHANGED <<server, refresh, move>>

\* refresh(): a synchronization is requested, then the first page is read.
AskRefresh ==
  /\ refresh.pc = "none" /\ refresh' = [NoRefresh(open) EXCEPT !.pc = "asked"]
  /\ UNCHANGED <<server, open, list, older, first, move, strayed, budget>>

AnswerRefresh ==
  /\ refresh.pc = "asked" /\ refresh' = [refresh EXCEPT !.pc = "answered", !.answer = Listed(refresh.of, None)]
  /\ UNCHANGED <<server, open, list, older, first, move, strayed, budget>>

ApplyRefresh ==
  /\ refresh.pc = "answered" /\ Apply(refresh.answer)
  /\ strayed' = (strayed \/ refresh.of # open)
  /\ refresh' = NoRefresh(open)
  /\ UNCHANGED <<server, open, loaded, first, move, budget>>

FailRefresh ==
  /\ refresh.pc # "none" /\ Spend("faults")
  /\ refresh' = NoRefresh(open)
  /\ UNCHANGED <<server, open, list, older, first, move, strayed>>

-----------------------------------------------------------------------------
(* A move: the row goes at once and comes back if it fails.                *)

Act(m) ==
  /\ m \in ToSet(list) /\ move[m].pc = "none" /\ Spend("moves")
  /\ move' = [move EXCEPT ![m] = [pc |-> "asking", index |-> CHOOSE i \in DOMAIN list : list[i] = m,
                                  of |-> open, astray |-> strayed]]
  /\ list' = Without(list, {m})
  /\ UNCHANGED <<server, open, older, first, refresh, strayed>>

\* MessageCommandService.create(), and its answer, which may get lost.
Enqueue(m) ==
  /\ move[m].pc = "asking"
  /\ IF m \in stored /\ Home[m] = move[m].of
     THEN /\ stored' = stored \ {m} /\ hidden' = hidden \cup {m}
          /\ \/ move' = [move EXCEPT ![m].pc = "pending"] /\ UNCHANGED budget
             \/ move' = [move EXCEPT ![m].pc = "lost"] /\ Spend("faults")
     ELSE UNCHANGED <<server, budget>> /\ move' = [move EXCEPT ![m].pc = "refused"]
  /\ UNCHANGED <<open, list, older, first, refresh, strayed>>

\* The command ends: the row is deleted, or shown again.
Execute(m) ==
  /\ m \in hidden /\ hidden' = hidden \ {m}
  /\ \/ /\ UNCHANGED <<stored, budget>>
        /\ move' = IF move[m].pc = "pending" THEN [move EXCEPT ![m].pc = "applied"] ELSE move
     \/ /\ stored' = stored \cup {m} /\ Spend("faults")
        /\ move' = IF move[m].pc = "pending" THEN [move EXCEPT ![m].pc = "failed"] ELSE move
  /\ UNCHANGED <<open, list, older, first, refresh, strayed>>

\* Only this row is put back where it was, unless it is there already.
At(m) == IF move[m].index > Len(list) + 1 THEN Len(list) + 1 ELSE move[m].index
RestoredTwice(m) == InsertAt(list, At(m), m)                      \* mutant
Restored(m) == IF m \in ToSet(list) THEN list ELSE InsertAt(list, At(m), m)

\* Rows are put back into the list they were taken from.
BackAnywhere(m) == TRUE                                           \* mutant
Back(m) == open = move[m].of

\* The answer to act(): not queued.  The row may be of another mailbox if it was
\* taken from a list that had strayed.
Refused(m) ==
  /\ move[m].pc \in {"refused", "lost"}
  /\ list' = IF Back(m) THEN Restored(m) ELSE list
  /\ strayed' = (strayed \/ (Back(m) /\ move[m].astray))
  /\ move' = [move EXCEPT ![m] = Unmoved]
  /\ UNCHANGED <<server, open, older, first, refresh, budget>>

\* The commands are polled: one has succeeded.
Done(m) ==
  /\ move[m].pc = "applied" /\ move' = [move EXCEPT ![m] = Unmoved]
  /\ UNCHANGED <<server, open, list, older, first, refresh, strayed, budget>>

\* One has failed: the row comes back, and the first page is asked for anew.
Failed(m) ==
  /\ move[m].pc = "failed"
  /\ list' = IF Back(m) THEN Restored(m) ELSE list
  /\ first' = NoFirst
  /\ move' = [move EXCEPT ![m] = Unmoved]
  /\ UNCHANGED <<server, open, older, refresh, strayed, budget>>

First == AskFirst \/ AnswerFirst \/ ApplyFirst
Older == AnswerPage \/ ApplyPage
Refreshing == AnswerRefresh \/ ApplyRefresh
Moving(m) == Enqueue(m) \/ Execute(m) \/ Refused(m) \/ Done(m) \/ Failed(m)

Next ==
  \/ First \/ FailFirst \/ Reach \/ Older \/ FailPage \/ Retry
  \/ AskRefresh \/ Refreshing \/ FailRefresh
  \/ \E m \in Messages : Change(m) \/ Act(m) \/ Moving(m)
  \/ \E box \in Mailboxes : Navigate(box)

Spec == Init /\ [][Next]_vars

\* The tab is seen and its requests are answered; commands end.
Fairness ==
  /\ WF_vars(First) /\ WF_vars(Older) /\ WF_vars(Refreshing)
  /\ \A m \in Messages : WF_vars(Moving(m))

FairSpec == Spec /\ Fairness

-----------------------------------------------------------------------------
(* Properties.                                                             *)

\* No message is in the list twice, although pages, refreshes and rows that are
\* put back come in any order.
NoDuplicate == \A i, j \in DOMAIN list : list[i] = list[j] => i = j

\* The list shows the open mailbox, whatever answers are still on their way: but
\* for a refresh, whose answer is put into any list, and a row that was moved away
\* from such a list and is put back.
OwnMailbox == ~strayed => \A i \in DOMAIN list : Home[list[i]] = open

\* The pages below never come to rest: a list that waits for a page has asked
\* for it.
NeverStuck == loading => page.pc # "none"

\* Once nothing changes any more, the list begins with the first page of the
\* open mailbox: what was shown too early or put back is corrected.
HeadFollows ==
  <>[](LET now == Listed(open, None).items
       IN Len(list) >= Len(now) /\ SubSeq(list, 1, Len(now)) = now)
=============================================================================
