-------------------------------- MODULE Draft --------------------------------
(***************************************************************************)
(* One Maildock draft: its row (DraftService, and the hand-over to          *)
(* OutgoingMessageService.create), the composers of several browser tabs    *)
(* that edit, save, send and discard it (mail-composer.tsx), the list they  *)
(* reopen it from (draft-list.tsx), and the recovery copy that the tabs     *)
(* share in localStorage.                                                  *)
(*                                                                         *)
(* The content of a draft is the number of the edit that made it.  A tab   *)
(* has at most one request under way, since save, send and discard wait for *)
(* each other; a tab that goes away leaves its request in the network.      *)
(* `seen` is a history: the contents that the writer of a tab has had in    *)
(* front of them.                                                          *)
(***************************************************************************)
EXTENDS Integers, Sequences

CONSTANTS
  Tabs,        \* browser tabs
  MaxEdits,    \* bound: edits, in all tabs together
  MaxOpens,    \* bound: composers opened
  MaxFaults,   \* bound: requests refused or lost, answers lost, tabs that go away
  Large,       \* edits whose recovery copy would exceed a megabyte
  TwoTabsNew,  \* a draft the server has not answered for may be opened in a second tab
  Reborn       \* a create that was under way, or unanswered, may come after a discard

Contents == 1..MaxEdits
Blank == 0
Revisions == Nat
Gone == [status |-> "none", rev |-> 0, content |-> Blank]
NoCopy == [content |-> Blank, rev |-> 0, seen |-> {}]
NoCall == [kind |-> "none", rev |-> 0, content |-> Blank, seen |-> {}, answer |-> "none", got |-> Gone]
Closed == [step |-> "closed", wish |-> "none", latest |-> Blank, saved |-> Blank, rev |-> 0,
           conflict |-> FALSE, stopped |-> FALSE, copy |-> NoCopy, seen |-> {}, call |-> NoCall]

DraftAssumption ==
  /\ {MaxEdits, MaxOpens, MaxFaults} \subseteq Nat
  /\ Large \subseteq Contents /\ {TwoTabsNew, Reborn} \subseteq BOOLEAN

VARIABLES
  draft,    \* the row of drafts, or Gone
  sent,     \* outgoing_messages created from the draft: their content, and what the tab showed
  tab,      \* the composers, or what the draft list of the tab is doing
  backup,   \* localStorage["maildock-draft:<id>"]
  dropped,  \* history: the draft was discarded
  strays,   \* requests of tabs that went away
  alone,    \* history: no two tabs have had the draft at once
  kept,     \* history: the last edit, unless the writer gave it up or made it while a
            \* discard was waiting; then the one of the next save
  budget    \* what the bounds have left

vars == <<draft, sent, tab, backup, dropped, strays, alone, kept, budget>>
DraftRow == [status : {"active", "consumed"}, rev : Revisions \ {0}, content : Contents]

TypeOK ==
  /\ draft \in {Gone} \cup DraftRow
  /\ \A i \in DOMAIN sent : sent[i] \in [content : Contents, shown : Contents]
  /\ \A t \in Tabs :
       /\ tab[t].step \in {"closed", "loading", "stale", "dropping", "edit"}
       /\ tab[t].wish \in {"none", "send", "discard", "close"}
       /\ tab[t].latest \in {Blank} \cup Contents /\ tab[t].saved \in {Blank} \cup Contents
       /\ tab[t].rev \in Revisions /\ tab[t].seen \subseteq Contents
       /\ tab[t].call.kind \in {"none", "POST", "PATCH", "SEND", "DELETE"}
       /\ tab[t].call.answer \in {"none", "ok", "conflict", "failed"}
       /\ tab[t].stopped => tab[t].wish = "discard"
       /\ tab[t].step = "closed" => tab[t] = Closed
  /\ backup.content \in {Blank} \cup Contents /\ backup.rev \in Revisions
  /\ kept \in {Blank} \cup Contents

Init ==
  /\ draft = Gone
  /\ dropped = FALSE
  /\ sent = <<>>
  /\ tab = [t \in Tabs |-> Closed]
  /\ backup = NoCopy
  /\ strays = {}
  /\ alone = TRUE
  /\ kept = Blank
  /\ budget = [edits |-> MaxEdits, opens |-> MaxOpens, faults |-> MaxFaults]

Spend(what) == budget[what] > 0 /\ budget' = [budget EXCEPT ![what] = @ - 1]

-----------------------------------------------------------------------------
(* The composer *)

Meaningful(c) == c.rev > 0 \/ c.latest # Blank

\* What backup() leaves in localStorage.
Backup(c) ==
  CASE ~Meaningful(c) -> NoCopy
    [] Meaningful(c) /\ c.saved # c.latest /\ ~c.stopped ->
         IF c.latest \in Large THEN NoCopy
         ELSE [content |-> c.latest, rev |-> c.rev, seen |-> c.seen]
    [] OTHER -> backup

Unsaved(c) == ~c.stopped /\ ~c.conflict /\ Meaningful(c) /\ c.saved # c.latest
Request(c, kind) ==
  [kind |-> kind, rev |-> c.rev, content |-> c.latest, seen |-> c.seen, answer |-> "none", got |-> Gone]
SaveRequest(c) == Request(c, IF c.rev > 0 THEN "PATCH" ELSE "POST")
Saving(c) == c.call.kind \in {"POST", "PATCH"}
Editing(t) == tab[t].step = "edit"
Idle(t) == Editing(t) /\ tab[t].wish = "none" /\ tab[t].call = NoCall

\* "New message": the composer draws the id of the draft.
Compose(t) ==
  /\ budget.opens = MaxOpens
  /\ tab' = [tab EXCEPT ![t] = [Closed EXCEPT !.step = "edit"]]
  /\ Spend("opens")
  /\ UNCHANGED <<draft, dropped, sent, backup, strays, alone, kept>>

\* The fields can be edited unless the composer sends: also while Close or Discard
\* waits for a request.
Editable(c) == c.wish = "none" \/ (c.wish \in {"discard", "close"} /\ c.call # NoCall)

\* An edit; the effect on the new snapshot writes the recovery copy at once, but
\* not while a discard waits: then the edit is in the tab alone.
Edit(t) ==
  /\ Editing(t) /\ Editable(tab[t])
  /\ LET n == MaxEdits - budget.edits + 1
         c == [tab[t] EXCEPT !.latest = n, !.seen = @ \cup {n}]
     IN /\ tab' = [tab EXCEPT ![t] = c]
        /\ backup' = Backup(c)
        /\ kept' = IF c.stopped THEN Blank ELSE n
  /\ Spend("edits")
  /\ UNCHANGED <<draft, dropped, sent, strays, alone>>

\* save(): a second after the last edit, when the tab is hidden, or on "Retry save".
Save(t) ==
  /\ Idle(t) /\ Unsaved(tab[t])
  /\ tab' = [tab EXCEPT ![t].call = SaveRequest(tab[t])]
  /\ backup' = Backup(tab[t])
  /\ kept' = tab[t].latest
  /\ UNCHANGED <<draft, dropped, sent, strays, alone, budget>>

\* Send, Discard or Close: each waits for the save that is running; send and close begin one.
Click(t) ==
  /\ Editing(t) /\ tab[t].wish = "none"
  /\ \E wish \in {"send", "discard", "close"} :
       /\ wish = "send" => tab[t].latest # Blank
       /\ LET c == [tab[t] EXCEPT !.wish = wish, !.stopped = wish = "discard"]
              saves == c.call = NoCall /\ Unsaved(c)
          IN /\ tab' = [tab EXCEPT ![t] = IF saves THEN [c EXCEPT !.call = SaveRequest(c)] ELSE c]
             /\ backup' = IF saves THEN Backup(c) ELSE backup
       /\ kept' = IF wish = "discard" THEN Blank ELSE kept
  /\ UNCHANGED <<draft, dropped, sent, strays, alone, budget>>

\* What was clicked goes on once no save is running.
Proceed(t) ==
  /\ Editing(t) /\ tab[t].call = NoCall
  /\ LET c == tab[t] IN
     \/ /\ c.wish = "send"
        /\ tab' = [tab EXCEPT ![t] = IF c.rev = 0 \/ c.conflict THEN [c EXCEPT !.wish = "none"]
                                     ELSE [c EXCEPT !.call = Request(c, "SEND")]]
        /\ UNCHANGED <<backup, kept>>
     \/ /\ c.wish = "discard" /\ c.rev > 0
        /\ tab' = [tab EXCEPT ![t].call = Request(c, "DELETE")]
        /\ UNCHANGED <<backup, kept>>
     \/ /\ c.wish = "discard" /\ c.rev = 0
        /\ tab' = [tab EXCEPT ![t] = Closed]
        /\ backup' = NoCopy /\ kept' = Blank
     \/ /\ c.wish = "close"
        /\ tab' = [tab EXCEPT ![t] = Closed]
        /\ backup' = Backup(c)
        /\ UNCHANGED kept
  /\ UNCHANGED <<draft, dropped, sent, strays, alone, budget>>

\* A save that threw: Send and Close are given up, Discard goes on.
GiveUp(c) == [c EXCEPT !.call = NoCall, !.wish = IF @ = "discard" THEN @ ELSE "none"]

\* sameContent: the answer carries what was asked for, not an older content.
SameAssumed(c) == TRUE
Same(c) == c.call.got.content = c.call.content

\* The answer to a first save shows that another tab has gone on with the draft.
ForeignIgnored(c) == FALSE
Foreign(c) == c.rev = 0 /\ c.call.got.rev > 1 /\ ~Same(c)

\* The answer to a save: the loop goes round until the latest snapshot is saved.
SaveAnswered(t) ==
  LET c == tab[t]
      adopted == [c EXCEPT !.rev = c.call.got.rev, !.saved = IF Same(c) THEN c.call.content ELSE Blank]
      again == ~c.stopped /\ adopted.saved # c.latest
  IN
  /\ Editing(t) /\ Saving(c)
  /\ \/ /\ c.call.answer = "failed"
        /\ tab' = [tab EXCEPT ![t] = GiveUp(c)]
        /\ UNCHANGED backup
     \/ /\ \/ c.call.answer = "conflict"
           \/ c.call.answer = "ok" /\ Foreign(c)
        /\ tab' = [tab EXCEPT ![t] = [GiveUp(c) EXCEPT !.conflict = TRUE]]
        /\ UNCHANGED backup
     \/ /\ c.call.answer = "ok" /\ ~Foreign(c)
        /\ tab' = [tab EXCEPT ![t] = [adopted EXCEPT !.call = IF again THEN SaveRequest(adopted) ELSE NoCall]]
        /\ backup' = IF again THEN Backup(adopted) ELSE NoCopy
  /\ UNCHANGED <<draft, dropped, sent, strays, alone, kept, budget>>

\* Send or Discard failed: the composer goes on.
StayStopped(c) == [c EXCEPT !.call = NoCall, !.wish = "none"]
GoOn(c) == [c EXCEPT !.call = NoCall, !.wish = "none", !.stopped = FALSE]

\* The answer to Send or Discard.
Answered(t) ==
  /\ Editing(t) /\ tab[t].call.kind \in {"SEND", "DELETE"} /\ tab[t].call.answer # "none"
  /\ IF tab[t].call.answer = "ok"
     THEN /\ tab' = [tab EXCEPT ![t] = Closed]
          /\ backup' = NoCopy
          /\ kept' = IF tab[t].call.kind = "DELETE" THEN Blank ELSE kept
     ELSE /\ tab' = [tab EXCEPT ![t] = GoOn(tab[t])]
          /\ UNCHANGED <<backup, kept>>
  /\ UNCHANGED <<draft, dropped, sent, strays, alone, budget>>

\* The tab is left: pagehide writes the copy and starts a last save, which outlives the tab.
Leave(t) ==
  /\ Editing(t)
  /\ LET c == tab[t]
         last == IF c.call = NoCall /\ Unsaved(c) THEN SaveRequest(c) ELSE c.call
     IN strays' = strays \cup (IF last.kind # "none" /\ last.answer = "none" THEN {last} ELSE {})
  /\ backup' = Backup(tab[t])
  /\ tab' = [tab EXCEPT ![t] = Closed]
  /\ Spend("faults")
  /\ UNCHANGED <<draft, dropped, sent, alone, kept>>

\* The tab dies without a word; the server may still get its request.
Crash(t) ==
  /\ tab[t].step # "closed"
  /\ strays' = strays \cup {c \in {tab[t].call} : c.kind # "none" /\ c.answer = "none"}
  /\ tab' = [tab EXCEPT ![t] = Closed]
  /\ Spend("faults")
  /\ UNCHANGED <<draft, dropped, sent, backup, alone, kept>>

-----------------------------------------------------------------------------
(* The list of drafts *)

OthersOpen(t) == \E u \in Tabs \ {t} : tab[u].step \in {"edit", "loading", "stale"}

\* resume(): the recovery copy is read before the server is asked.
Resume(t) ==
  /\ tab[t].step = "closed"
  /\ draft.status = "active" \/ backup # NoCopy
  /\ backup # NoCopy /\ backup.rev = 0 => TwoTabsNew \/ ~OthersOpen(t)
  /\ tab' = [tab EXCEPT ![t] = [Closed EXCEPT !.step = "loading", !.copy = backup]]
  /\ alone' = (alone /\ ~OthersOpen(t))
  /\ Spend("opens")
  /\ UNCHANGED <<draft, dropped, sent, backup, strays, kept>>

OpenCopy(copy) ==
  [Closed EXCEPT !.step = "edit", !.latest = copy.content, !.rev = copy.rev, !.seen = copy.seen]
OpenRow ==
  [Closed EXCEPT !.step = "edit", !.latest = draft.content, !.saved = draft.content,
                 !.rev = draft.rev, !.seen = {draft.content}]

Resumed(t) ==
  /\ tab[t].step = "loading"
  /\ LET copy == tab[t].copy IN
     tab' = [tab EXCEPT ![t] =
       CASE copy # NoCopy /\ draft.status = "active" ->
              IF copy.rev # draft.rev /\ copy.rev # 0 THEN [Closed EXCEPT !.step = "stale"]
              ELSE OpenCopy(copy)
         [] copy # NoCopy /\ draft.status # "active" -> IF copy.rev > 0 THEN Closed ELSE OpenCopy(copy)
         [] copy = NoCopy -> IF draft.status = "active" THEN OpenRow ELSE Closed]
  /\ UNCHANGED <<draft, dropped, sent, backup, strays, alone, kept, budget>>

\* "Reopen saved draft" replaces the recovery copy, which the writer thereby gives up.
ReopenSaved(t) ==
  /\ tab[t].step = "stale"
  /\ IF draft.status = "active"
     THEN tab' = [tab EXCEPT ![t] = OpenRow] /\ backup' = NoCopy /\ kept' = Blank
     ELSE tab' = [tab EXCEPT ![t] = Closed] /\ UNCHANGED <<backup, kept>>
  /\ UNCHANGED <<draft, dropped, sent, strays, alone, budget>>

\* discard() of the list: the revision to delete is asked for first.
Drop(t) ==
  /\ tab[t].step = "closed"
  /\ draft.status = "active" \/ backup # NoCopy
  /\ IF draft.status = "active"
     THEN /\ tab' = [tab EXCEPT ![t] = [Closed EXCEPT !.step = "dropping", !.rev = draft.rev]]
          /\ UNCHANGED <<backup, kept>>
     ELSE backup' = NoCopy /\ kept' = Blank /\ UNCHANGED tab
  /\ Spend("opens")
  /\ UNCHANGED <<draft, dropped, sent, strays, alone>>

DeletableAlways(rev) == draft # Gone /\ draft.rev = rev
Deletable(rev) == draft.status = "active" /\ draft.rev = rev

Dropped(t) ==
  /\ tab[t].step = "dropping"
  /\ IF Deletable(tab[t].rev)
     THEN draft' = Gone /\ dropped' = TRUE /\ backup' = NoCopy /\ kept' = Blank
     ELSE UNCHANGED <<draft, dropped, backup, kept>>
  /\ tab' = [tab EXCEPT ![t] = Closed]
  /\ UNCHANGED <<sent, strays, alone, budget>>

-----------------------------------------------------------------------------
(* The server: each request is one transaction on the locked row *)

WritableAlways(rev) == draft.status = "active"
Writable(rev) == draft.status = "active" /\ draft.rev = rev

\* DraftService.create: a row that exists is returned as it is.
Create(r) ==
  /\ r.kind = "POST"
  /\ draft = Gone => ~dropped \/ Reborn
  /\ draft' = IF draft = Gone THEN [status |-> "active", rev |-> 1, content |-> r.content] ELSE draft
  /\ UNCHANGED <<sent, dropped>>
\* DraftService.update
Update(r) ==
  /\ r.kind = "PATCH"
  /\ draft' = IF Writable(r.rev) THEN [draft EXCEPT !.rev = @ + 1, !.content = r.content] ELSE draft
  /\ UNCHANGED <<sent, dropped>>
\* OutgoingMessageService.create from the draft; a consumed draft answers with its message.
Handover(r) ==
  /\ r.kind = "SEND"
  /\ IF Writable(r.rev)
     THEN /\ draft' = [draft EXCEPT !.status = "consumed"]
          /\ sent' = Append(sent, [content |-> draft.content, shown |-> r.content])
     ELSE UNCHANGED <<draft, sent>>
  /\ UNCHANGED dropped
\* DraftService.discard
Discard(r) ==
  /\ r.kind = "DELETE"
  /\ draft' = IF Deletable(r.rev) THEN Gone ELSE draft
  /\ dropped' = (dropped \/ Deletable(r.rev))
  /\ UNCHANGED sent

Serve(r) == Create(r) \/ Update(r) \/ Handover(r) \/ Discard(r)

Ok(r) ==
  CASE r.kind = "POST" -> draft.status # "consumed"
    [] r.kind = "PATCH" -> Writable(r.rev)
    [] r.kind = "SEND" -> Writable(r.rev) \/ draft.status = "consumed"
    [] r.kind = "DELETE" -> Deletable(r.rev)

ServeTab(t) ==
  LET r == tab[t].call IN
  /\ r.kind # "none" /\ r.answer = "none"
  /\ Serve(r)
  /\ tab' = [tab EXCEPT ![t].call.answer = IF Ok(r) THEN "ok" ELSE "conflict", ![t].call.got = draft']
  /\ UNCHANGED <<backup, strays, alone, kept, budget>>

ServeStray ==
  /\ \E r \in strays : Serve(r) /\ strays' = strays \ {r}
  /\ UNCHANGED <<tab, backup, alone, kept, budget>>

\* The request never arrives or is refused, or its answer never arrives.
Lose(t) ==
  /\ tab[t].call.kind # "none" /\ tab[t].call.answer # "failed"
  /\ tab' = [tab EXCEPT ![t].call.answer = "failed"]
  /\ Spend("faults")
  /\ UNCHANGED <<draft, dropped, sent, backup, strays, alone, kept>>

Next ==
  \/ \E t \in Tabs :
       \/ Compose(t) \/ Edit(t) \/ Save(t) \/ Click(t) \/ Proceed(t)
       \/ SaveAnswered(t) \/ Answered(t) \/ Leave(t) \/ Crash(t)
       \/ Resume(t) \/ Resumed(t) \/ ReopenSaved(t) \/ Drop(t) \/ Dropped(t)
       \/ ServeTab(t) \/ Lose(t)
  \/ ServeStray

Spec == Init /\ [][Next]_vars

-----------------------------------------------------------------------------
(* What the drafts promise *)

\* A draft is handed over once, however often Send is repeated after lost
\* answers and from however many tabs, and what is handed over is what the
\* tab that sent it was showing.
SentOnceAsShown ==
  /\ TypeOK
  /\ Len(sent) = IF draft.status = "consumed" THEN 1 ELSE 0
  /\ \A i \in DOMAIN sent : sent[i].content = sent[i].shown

\* While one tab at a time has the draft, the writer's last edit is never in
\* the tab alone: the recovery copy holds it until the server does, through
\* crashes, lost answers and late requests.  The exception is an edit made while
\* a discard waits, which nothing keeps before the next save or edit.
LastEditKept ==
  alone /\ kept # Blank /\ kept \notin Large =>
    backup.content = kept \/ (draft # Gone /\ draft.content = kept)

\* A content on the server is replaced only by one whose writer had it in
\* front of them: a tab that is behind is stopped, whatever the other tabs,
\* the list and the recovery copy do.
Overwrites(r) == draft.status = "active" /\ draft'.status = "active" /\ draft'.content # draft.content
                 => draft.content \in r.seen
NoSilentOverwrite ==
  [][/\ \A t \in Tabs : ServeTab(t) => Overwrites(tab[t].call)
     /\ \A r \in strays : r \notin strays' => Overwrites(r)]_vars
=============================================================================
