------------------------------ MODULE DraftProofs ------------------------------
(***************************************************************************)
(* Theorems of Draft.                                                      *)
(*                                                                         *)
(* 1. A draft is consumed once, and its row, composers, requests and copies *)
(*    keep their types.  Nothing is assumed of the environment.            *)
(* 2. What is sent is what the tab showed.  A revision names one content:  *)
(*    whoever has seen a revision is behind the row, or has its content.   *)
(*    That needs revisions not to begin again (~Reborn).                   *)
(* 3. The last edit is in the recovery copy or on the server, while one tab *)
(*    at a time has the draft.                                             *)
(* 4. No text is replaced unseen, if a draft the server has not answered   *)
(*    for is open in one tab only (~TwoTabsNew).                           *)
(***************************************************************************)
EXTENDS Draft, TLAPS

-----------------------------------------------------------------------------
(* Types *)

Texts == {Blank} \cup Contents
Rows == {Gone} \cup DraftRow
Copies == [content : Texts, rev : Nat, seen : SUBSET Contents]
Requests ==
  [kind : {"none", "POST", "PATCH", "SEND", "DELETE"}, rev : Nat, content : Texts,
   seen : SUBSET Contents, answer : {"none", "ok", "conflict", "failed"}, got : Rows]
Composers ==
  [step : {"closed", "loading", "stale", "dropping", "edit"},
   wish : {"none", "send", "discard", "close"}, latest : Texts, saved : Texts, rev : Nat,
   conflict : BOOLEAN, stopped : BOOLEAN, copy : Copies, seen : SUBSET Contents, call : Requests]

Typed ==
  /\ draft \in Rows /\ backup \in Copies /\ strays \subseteq Requests
  /\ tab \in [Tabs -> Composers]
  /\ sent \in Seq([content : Contents, shown : Contents])
  /\ dropped \in BOOLEAN /\ alone \in BOOLEAN /\ kept \in Texts
  /\ budget \in [edits : 0..MaxEdits, opens : 0..MaxOpens, faults : 0..MaxFaults]

\* A copy or a request has a text.
WholeCopy(k) == k = NoCopy \/ k.content # Blank
WholeTab(c) ==
  /\ c.step = "closed" => c = Closed
  /\ c.stopped => c.wish = "discard"
  /\ c.wish = "discard" => c.stopped
  /\ c.call.kind = "none" => c.call = NoCall
  /\ c.call.kind # "none" => c.step = "edit" /\ c.call.content # Blank /\ c.latest # Blank
  /\ c.call.kind = "POST" => c.rev = 0
  /\ c.call.kind = "DELETE" => c.wish = "discard"
  /\ c.wish = "send" => c.latest # Blank
  /\ c.wish = "send" /\ c.call.kind \in {"none", "SEND"} => c.conflict \/ c.rev = 0 \/ c.saved = c.latest
  /\ c.call.kind = "SEND" => c.wish = "send" /\ ~c.conflict /\ c.rev > 0
  /\ c.step = "edit" /\ c.rev > 0 => c.latest # Blank
  /\ WholeCopy(c.copy)

Whole ==
  /\ WholeCopy(backup)
  /\ \A r \in strays : r.kind # "none" /\ r.content # Blank
  /\ \A t \in Tabs : WholeTab(tab[t])

Once == Len(sent) = IF draft.status = "consumed" THEN 1 ELSE 0

-----------------------------------------------------------------------------
(* Revisions *)

\* A revision that somebody has seen is not ahead of the row.
Behind(rev) ==
  /\ draft # Gone => rev <= draft.rev
  /\ draft = Gone /\ ~dropped => rev = 0
\* Whoever has seen the revision of the row has its content.
Known(rev, content) ==
  /\ Behind(rev)
  /\ draft # Gone /\ rev = draft.rev => content = draft.content

SavedIn(r) == r.answer = "ok" /\ r.kind \in {"POST", "PATCH"}
RequestKnows(r) ==
  /\ Behind(r.rev)
  /\ r.kind = "SEND" => Known(r.rev, r.content)
  /\ SavedIn(r) => r.got # Gone /\ Known(r.got.rev, r.got.content)
TabKnows(c) ==
  /\ Behind(c.rev) /\ Behind(c.copy.rev)
  /\ c.saved # Blank => Known(c.rev, c.saved)
  /\ RequestKnows(c.call)

Informed ==
  /\ Behind(backup.rev)
  /\ \A r \in strays : RequestKnows(r)
  /\ \A t \in Tabs : TabKnows(tab[t])
AsShown == \A i \in DOMAIN sent : sent[i].content = sent[i].shown

-----------------------------------------------------------------------------
(* The last edit *)

\* Contents are numbered in the order of the edits.
Used == MaxEdits - budget.edits
Within(c, n) ==
  /\ c.latest <= n /\ c.saved <= n /\ c.copy.content <= n
  /\ c.call.content <= n /\ c.call.got.content <= n
Numbered ==
  /\ draft.content <= Used /\ backup.content <= Used
  /\ \A r \in strays : r.content <= Used
  /\ \A t \in Tabs : Within(tab[t], Used)

Open(t) == tab[t].step \in {"edit", "loading", "stale"}
OneOpen == alone => \A t, u \in Tabs : Open(t) /\ Open(u) => t = u

Waiting(r) == r.kind # "none" /\ r.answer = "none"
Pending == strays \cup {r \in {tab[t].call : t \in Tabs} : Waiting(r)}

\* The last edit is one to be kept.
Kept == alone /\ kept # Blank /\ kept \notin Large
\* It is in the row, and nothing under way can take it out.
Safe ==
  /\ draft # Gone /\ draft.content = kept
  /\ \A r \in Pending : draft.status = "active" /\ r.rev = draft.rev =>
       r.kind # "DELETE" /\ (r.kind = "PATCH" => r.content = kept)

\* A composer that has not learned a revision, or will be one.
Fresh(c) ==
  \/ c.step = "edit" /\ c.rev = 0
  \/ c.step = "loading" /\ c.copy # NoCopy /\ c.copy.rev = 0
AnyFresh == (backup # NoCopy /\ backup.rev = 0) \/ \E t \in Tabs : Fresh(tab[t])
Unlearned == alone /\ AnyFresh => \A r \in Pending : r.kind = "POST"
\* Once a tab has learned a revision, so has the recovery copy.
TabLearned(c) ==
  /\ c.step = "edit" /\ c.rev > 0 => backup = NoCopy \/ backup.rev > 0
  /\ c.step = "loading" => backup \in {c.copy, NoCopy}
Learned == alone => \A t \in Tabs : TabLearned(tab[t])

HasKept(c) ==
  /\ c.step = "edit" => c.latest = kept /\ c.wish # "discard"
  /\ c.step = "loading" => backup = c.copy
WriterHasKept == Kept => \A t \in Tabs : HasKept(tab[t])

\* The recovery copy goes, and a tab believes that it has saved, only when the edit is safe.
CopyKept == IF backup = NoCopy THEN Safe ELSE backup.content = kept
TabSafe(c) ==
  /\ c.step = "edit" /\ c.rev > 0 /\ c.saved = kept /\ ~c.conflict => Safe
  /\ SavedIn(c.call) /\ Same(c) /\ c.call.content = kept => Safe
LastKept == Kept => CopyKept /\ \A t \in Tabs : TabSafe(tab[t])

-----------------------------------------------------------------------------
(* No text is replaced unseen *)

\* Whoever has the revision of the row has seen its text.
Seen(rev, seen) == draft # Gone /\ rev = draft.rev => draft.content \in seen
\* The first text of the draft is one of these.
SeesFirst(seen) ==
  /\ \A r \in Pending : r.kind = "POST" => r.content \in seen
  /\ draft.status = "active" /\ draft.rev = 1 => draft.content \in seen

TabSees(c) ==
  /\ c.step = "edit" => Seen(c.rev, c.seen)
  /\ Seen(c.copy.rev, c.copy.seen)
  /\ c.latest \in {Blank} \cup c.seen /\ c.copy.content \in {Blank} \cup c.copy.seen
  /\ c.call.kind = "PATCH" => Seen(c.call.rev, c.call.seen)
  /\ c.call.kind \in {"POST", "PATCH"} => c.call.content \in c.seen
  /\ SavedIn(c.call) /\ (c.call.kind = "PATCH" \/ c.call.got.rev = 1) => c.call.got.content \in c.seen
TabSeesFirst(c) == Fresh(c) => SeesFirst(IF c.step = "edit" THEN c.seen ELSE c.copy.seen)
CopySees ==
  /\ Seen(backup.rev, backup.seen)
  /\ backup.content \in {Blank} \cup backup.seen
  /\ backup # NoCopy /\ backup.rev = 0 => SeesFirst(backup.seen)
Sighted ==
  /\ CopySees
  /\ \A r \in strays : r.kind = "PATCH" => Seen(r.rev, r.seen)
  /\ \A t \in Tabs : TabSees(tab[t]) /\ TabSeesFirst(tab[t])
OneFresh == \A t, u \in Tabs : Fresh(tab[t]) /\ Fresh(tab[u]) => t = u
Pristine ==
  budget.opens = MaxOpens =>
    draft = Gone /\ backup = NoCopy /\ strays = {} /\ kept = Blank /\ \A t \in Tabs : tab[t] = Closed

IInv ==
  /\ Typed /\ Whole /\ Once
  /\ Pristine
  /\ ~Reborn =>
       /\ Informed /\ AsShown
       /\ Numbered /\ OneOpen /\ Unlearned /\ Learned /\ WriterHasKept /\ LastKept
       /\ ~TwoTabsNew => Sighted /\ OneFresh
-----------------------------------------------------------------------------
(* 1. Types, and that a draft is consumed once *)

Based == DraftAssumption /\ Typed /\ Whole

\* What Backup leaves is what was there, nothing, or the text of the composer.
LEMMA BackupCases ==
  ASSUME NEW c \in Composers
  PROVE  \/ Backup(c) = NoCopy /\ (~Meaningful(c) \/ c.latest \in Large)
         \/ /\ Backup(c) = backup /\ Meaningful(c)
            /\ c.saved = c.latest \/ c.stopped
         \/ /\ Backup(c) = [content |-> c.latest, rev |-> c.rev, seen |-> c.seen]
            /\ Meaningful(c) /\ c.saved # c.latest /\ ~c.stopped /\ c.latest \notin Large
BY DEF Backup

LEMMA SmallTypes == Gone \in Rows /\ NoCopy \in Copies /\ NoCall \in Requests /\ Closed \in Composers
BY DEF Rows, Gone, Copies, NoCopy, Requests, NoCall, Composers, Closed, Texts

LEMMA BackupType ==
  ASSUME Based, NEW c \in Composers, c.rev > 0 => c.latest # Blank
  PROVE  Backup(c) \in Copies /\ WholeCopy(Backup(c))
<1>1. NoCopy \in Copies /\ backup \in Copies /\ WholeCopy(backup) /\ WholeCopy(NoCopy)
  BY SmallTypes DEF Based, Typed, Whole, WholeCopy
<1>2. CASE Backup(c) = [content |-> c.latest, rev |-> c.rev, seen |-> c.seen] /\ Meaningful(c)
  BY <1>2 DEF Copies, Composers, WholeCopy, Meaningful
<1> QED BY <1>1, <1>2, BackupCases

LEMMA RequestType ==
  ASSUME NEW c \in Composers, NEW k \in {"none", "POST", "PATCH", "SEND", "DELETE"}
  PROVE  /\ Request(c, k) \in Requests
         /\ Request(c, k).kind = k /\ Request(c, k).rev = c.rev /\ Request(c, k).content = c.latest
         /\ Request(c, k).seen = c.seen /\ Request(c, k).answer = "none" /\ Request(c, k).got = Gone
BY SmallTypes DEF Request, Requests, Composers

LEMMA SaveRequestType ==
  ASSUME NEW c \in Composers
  PROVE  /\ SaveRequest(c) \in Requests
         /\ SaveRequest(c).kind = IF c.rev > 0 THEN "PATCH" ELSE "POST"
         /\ SaveRequest(c).rev = c.rev /\ SaveRequest(c).content = c.latest
         /\ SaveRequest(c).seen = c.seen /\ SaveRequest(c).answer = "none" /\ SaveRequest(c).got = Gone
         /\ SaveRequest(c).kind \in {"POST", "PATCH"}
         /\ SaveRequest(c).kind = "POST" => c.rev = 0
<1>1. c.rev \in Nat
  BY DEF Composers
<1> QED BY <1>1, RequestType DEF SaveRequest

\* A step of a tab changes its composer, and perhaps the recovery copy and the strays.
LEMMA TabStep ==
  ASSUME Based, NEW t \in Tabs, NEW c \in Composers, WholeTab(c), tab' = [tab EXCEPT ![t] = c],
         backup' \in Copies, WholeCopy(backup'), strays' \subseteq Requests,
         \A r \in strays' \ strays : r.kind # "none" /\ r.content # Blank,
         UNCHANGED <<draft, sent, dropped>>, alone' \in BOOLEAN, kept' \in Texts,
         budget' \in [edits : 0..MaxEdits, opens : 0..MaxOpens, faults : 0..MaxFaults]
  PROVE  Typed' /\ Whole'
BY DEF Based, Typed, Whole

LEMMA SpendType ==
  ASSUME Based, NEW what \in {"edits", "opens", "faults"}, Spend(what)
  PROVE  /\ budget' \in [edits : 0..MaxEdits, opens : 0..MaxOpens, faults : 0..MaxFaults]
         /\ budget[what] > 0 /\ budget' = [budget EXCEPT ![what] = @ - 1]
BY DEF Based, DraftAssumption, Typed, Spend

LEMMA ComposeTypes ==
  ASSUME Based, NEW t \in Tabs, Compose(t)
  PROVE  Typed' /\ Whole'
<1> DEFINE c == [Closed EXCEPT !.step = "edit"]
<1>1. c \in Composers
  BY SmallTypes DEF Composers
<1>2. WholeTab(c)
  BY DEF Closed, WholeTab, WholeCopy, NoCall, NoCopy
<1> QED BY <1>1, <1>2, TabStep, SpendType DEF Compose, Based, Typed, Whole

LEMMA EditTypes ==
  ASSUME Based, NEW t \in Tabs, Edit(t)
  PROVE  Typed' /\ Whole'
<1> DEFINE n == MaxEdits - budget.edits + 1
           c == [tab[t] EXCEPT !.latest = n, !.seen = @ \cup {n}]
<1>1. n \in Contents /\ n # Blank /\ n \in Texts
  <2>1. MaxEdits \in Nat /\ budget.edits \in 1..MaxEdits
    BY DEF Edit, Spend, Based, DraftAssumption, Typed
  <2> QED BY <2>1 DEF Contents, Texts, Blank
<1>2. c \in Composers /\ WholeTab(c)
  <2>1. tab[t] \in Composers /\ WholeTab(tab[t]) /\ tab[t].step = "edit" /\ tab[t].wish # "send"
    BY DEF Based, Typed, Whole, Edit, Editing, Editable
  <2>2. c \in Composers /\ c.step = "edit" /\ c.wish = tab[t].wish /\ c.latest = n /\ c.saved = tab[t].saved
        /\ c.rev = tab[t].rev /\ c.conflict = tab[t].conflict /\ c.stopped = tab[t].stopped
        /\ c.copy = tab[t].copy /\ c.call = tab[t].call
    BY <1>1, <2>1 DEF Composers
  <2> QED BY <1>1, <2>1, <2>2 DEF WholeTab, Closed
<1>3. tab' = [tab EXCEPT ![t] = c] /\ backup' = Backup(c) /\ kept' \in {Blank, n}
  BY DEF Edit
<1>4. Backup(c) \in Copies /\ WholeCopy(Backup(c))
  BY <1>1, <1>2, BackupType DEF Composers, Based, Typed
<1>5. kept' \in Texts
  BY <1>1, <1>3 DEF Texts
<1> QED BY <1>1, <1>2, <1>3, <1>4, <1>5, TabStep, SpendType DEF Edit, Based, Typed

LEMMA SaveTypes ==
  ASSUME Based, NEW t \in Tabs, Save(t)
  PROVE  Typed' /\ Whole'
<1> DEFINE c == [tab[t] EXCEPT !.call = SaveRequest(tab[t])]
<1>1. tab[t] \in Composers /\ WholeTab(tab[t]) /\ tab[t].latest # Blank
  BY DEF Based, Typed, Whole, Save, Idle, Editing, Unsaved, Meaningful, WholeTab
<1>2. c \in Composers /\ WholeTab(c)
  BY <1>1, SaveRequestType DEF Composers, WholeTab, Save, Idle, Editing, Unsaved, Closed
<1>3. tab' = [tab EXCEPT ![t] = c] /\ backup' = Backup(tab[t])
  BY DEF Save, Based, Typed
<1>4. kept' \in Texts
  BY <1>1 DEF Save, Composers
<1> QED BY <1>1, <1>2, <1>3, <1>4, BackupType, TabStep DEF Save, Based, Typed

LEMMA ClickTypes ==
  ASSUME Based, NEW t \in Tabs, Click(t)
  PROVE  Typed' /\ Whole'
<1>1. PICK wish \in {"send", "discard", "close"} :
        /\ wish = "send" => tab[t].latest # Blank
        /\ LET c == [tab[t] EXCEPT !.wish = wish, !.stopped = wish = "discard"]
               saves == c.call = NoCall /\ Unsaved(c)
           IN /\ tab' = [tab EXCEPT ![t] = IF saves THEN [c EXCEPT !.call = SaveRequest(c)] ELSE c]
              /\ backup' = IF saves THEN Backup(c) ELSE backup
        /\ kept' = IF wish = "discard" THEN Blank ELSE kept
  BY DEF Click
<1> DEFINE c == [tab[t] EXCEPT !.wish = wish, !.stopped = wish = "discard"]
           saves == c.call = NoCall /\ Unsaved(c)
           d == IF saves THEN [c EXCEPT !.call = SaveRequest(c)] ELSE c
<1>2. tab[t] \in Composers /\ WholeTab(tab[t]) /\ tab[t].step = "edit" /\ tab[t].wish = "none"
  BY DEF Click, Editing, Based, Typed, Whole
<1>3. c \in Composers /\ (c.rev > 0 => c.latest # Blank)
  BY <1>1, <1>2 DEF Composers, WholeTab
<1>4. CASE saves
  <2>1. c.latest # Blank /\ ~c.conflict /\ c.wish # "discard"
    BY <1>2, <1>3, <1>4 DEF Unsaved, Meaningful, WholeTab, Composers
  <2>2. /\ d = [c EXCEPT !.call = SaveRequest(c)] /\ SaveRequest(c).kind \in {"POST", "PATCH"}
        /\ SaveRequest(c).kind = "POST" => c.rev = 0
        /\ SaveRequest(c).content = c.latest
    <3>1. c \in Composers
      BY <1>3
    <3> HIDE DEF c
    <3> QED BY <3>1, <1>4, SaveRequestType
  <2>3. d \in Composers
    <3>1. SaveRequest(c) \in Requests
      BY <1>3, SaveRequestType
    <3> HIDE DEF c
    <3> QED BY <1>3, <2>2, <3>1 DEF Composers
  <2>4. WholeTab(d)
    <3>1. /\ d.step = "edit" /\ ~d.stopped /\ d.wish = c.wish /\ d.latest = c.latest
          /\ d.copy = c.copy /\ d.rev = c.rev /\ d.call = SaveRequest(c)
      BY <1>2, <1>3, <2>1, <2>2 DEF Composers
    <3>2. c.copy = tab[t].copy
      BY <1>2
    <3> QED BY <1>2, <2>1, <2>2, <3>1, <3>2 DEF WholeTab
  <2> QED BY <1>1, <1>3, <1>4, <2>3, <2>4, BackupType, TabStep DEF Click, Based, Typed, Texts
<1>5. CASE ~saves
  <2>1. d = c /\ c.wish = wish /\ (wish = "discard" => c.stopped) /\ (c.stopped => wish = "discard")
    BY <1>2, <1>5 DEF Composers
  <2>2. /\ c.step = "edit" /\ c.latest = tab[t].latest /\ c.saved = tab[t].saved /\ c.rev = tab[t].rev
        /\ c.conflict = tab[t].conflict /\ c.copy = tab[t].copy /\ c.call = tab[t].call
    BY <1>2 DEF Composers
  <2>3. c.rev \in Nat /\ WholeTab(tab[t])
    BY <1>2, <1>3 DEF Composers
  <2> HIDE DEF c, saves
  <2>4. c.wish = "send" /\ c.call.kind \in {"none", "SEND"} => c.conflict \/ c.rev = 0 \/ c.saved = c.latest
    <3>1. ASSUME c.wish = "send" PROVE ~c.stopped /\ c.latest # Blank
      BY <1>1, <2>1, <2>2, <3>1
    <3>2. c.call.kind # "SEND" /\ (c.call.kind = "none" => c.call = NoCall)
      BY <1>2, <2>2, <2>3 DEF WholeTab
    <3> QED BY <1>5, <3>1, <3>2 DEF saves, Unsaved, Meaningful
  <2>5. WholeTab(c)
    BY <1>1, <1>2, <1>3, <2>1, <2>2, <2>3, <2>4 DEF WholeTab
  <2>6. d \in Composers /\ WholeTab(d)
    BY <1>3, <2>1, <2>5
  <2> QED BY <1>1, <1>5, <2>1, <2>6, TabStep DEF Click, Based, Typed, Whole, Texts, saves, c
<1> QED BY <1>4, <1>5

LEMMA CloseType == Closed \in Composers /\ WholeTab(Closed) /\ Closed.call = NoCall /\ Closed.copy = NoCopy
BY SmallTypes DEF Closed, WholeTab, WholeCopy, NoCall, NoCopy

\* A tab that is closed leaves nothing but the copy.
LEMMA CloseStep ==
  ASSUME Based, NEW t \in Tabs, tab' = [tab EXCEPT ![t] = Closed],
         backup' \in Copies, WholeCopy(backup'), strays' = strays,
         UNCHANGED <<draft, sent, dropped>>, alone' = alone, kept' \in {kept, Blank}, budget' = budget
  PROVE  Typed' /\ Whole'
BY CloseType, TabStep DEF Based, Typed, Texts

LEMMA ProceedTypes ==
  ASSUME Based, NEW t \in Tabs, Proceed(t)
  PROVE  Typed' /\ Whole'
<1> DEFINE c == tab[t]
<1>1. c \in Composers /\ WholeTab(c) /\ c.step = "edit" /\ c.call = NoCall /\ (c.rev > 0 => c.latest # Blank)
  BY DEF Proceed, Editing, Based, Typed, Whole, WholeTab
<1>2. /\ UNCHANGED <<draft, dropped, sent, strays, alone, budget>>
      /\ backup \in Copies /\ WholeCopy(backup) /\ kept \in Texts /\ strays \subseteq Requests
      /\ alone \in BOOLEAN /\ budget \in [edits : 0..MaxEdits, opens : 0..MaxOpens, faults : 0..MaxFaults]
  BY DEF Proceed, Based, Typed, Whole
<1>3. CASE /\ c.wish = "send" /\ UNCHANGED <<backup, kept>>
           /\ tab' = [tab EXCEPT ![t] = IF c.rev = 0 \/ c.conflict THEN [c EXCEPT !.wish = "none"]
                                        ELSE [c EXCEPT !.call = Request(c, "SEND")]]
  <2>1. CASE c.rev = 0 \/ c.conflict
    <3> DEFINE d == [c EXCEPT !.wish = "none"]
    <3>1. d \in Composers /\ WholeTab(d)
      BY <1>1, <1>3 DEF Composers, WholeTab, Closed, NoCall
    <3> QED BY <1>2, <1>3, <2>1, <3>1, TabStep
  <2>2. CASE ~(c.rev = 0 \/ c.conflict)
    <3> DEFINE d == [c EXCEPT !.call = Request(c, "SEND")]
    <3>1. d \in Composers /\ WholeTab(d)
      BY <1>1, <1>3, <2>2, RequestType DEF Composers, WholeTab, Closed, NoCall
    <3> QED BY <1>2, <1>3, <2>2, <3>1, TabStep
  <2> QED BY <2>1, <2>2
<1>4. CASE c.wish = "discard" /\ c.rev > 0 /\ UNCHANGED <<backup, kept>> /\
           tab' = [tab EXCEPT ![t].call = Request(c, "DELETE")]
  <2> DEFINE d == [c EXCEPT !.call = Request(c, "DELETE")]
  <2>1. d \in Composers /\ WholeTab(d)
    BY <1>1, <1>4, RequestType DEF Composers, WholeTab, Closed
  <2>2. tab' = [tab EXCEPT ![t] = d]
    BY <1>4 DEF Based, Typed
  <2> QED BY <1>2, <1>4, <2>1, <2>2, TabStep
<1>5. CASE c.wish = "discard" /\ c.rev = 0 /\ tab' = [tab EXCEPT ![t] = Closed] /\ backup' = NoCopy /\ kept' = Blank
  BY <1>2, <1>5, CloseStep, SmallTypes DEF WholeCopy
<1>6. CASE c.wish = "close" /\ tab' = [tab EXCEPT ![t] = Closed] /\ backup' = Backup(c) /\ UNCHANGED kept
  BY <1>1, <1>2, <1>6, CloseStep, BackupType
<1> QED BY <1>2, <1>3, <1>4, <1>5, <1>6 DEF Proceed

LEMMA SaveAnsweredTypes ==
  ASSUME Based, NEW t \in Tabs, SaveAnswered(t)
  PROVE  Typed' /\ Whole'
<1> DEFINE c == tab[t]
           adopted == [c EXCEPT !.rev = c.call.got.rev, !.saved = IF Same(c) THEN c.call.content ELSE Blank]
           again == ~c.stopped /\ adopted.saved # c.latest
<1>1. c \in Composers /\ WholeTab(c) /\ c.step = "edit" /\ c.latest # Blank /\ c.call.kind \in {"POST", "PATCH"}
  BY DEF SaveAnswered, Editing, Saving, Based, Typed, Whole, WholeTab
<1>2. /\ UNCHANGED <<draft, dropped, sent, strays, alone, kept, budget>>
      /\ backup \in Copies /\ WholeCopy(backup) /\ kept \in Texts /\ strays \subseteq Requests
      /\ alone \in BOOLEAN /\ budget \in [edits : 0..MaxEdits, opens : 0..MaxOpens, faults : 0..MaxFaults]
  BY DEF SaveAnswered, Based, Typed, Whole
<1>3. GiveUp(c) \in Composers /\ WholeTab(GiveUp(c)) /\ [GiveUp(c) EXCEPT !.conflict = TRUE] \in Composers
      /\ WholeTab([GiveUp(c) EXCEPT !.conflict = TRUE])
  BY <1>1, SmallTypes DEF GiveUp, Composers, WholeTab, NoCall, Closed
<1>4. CASE tab' = [tab EXCEPT ![t] = GiveUp(c)] /\ UNCHANGED backup
  BY <1>2, <1>3, <1>4, TabStep
<1>5. CASE tab' = [tab EXCEPT ![t] = [GiveUp(c) EXCEPT !.conflict = TRUE]] /\ UNCHANGED backup
  BY <1>2, <1>3, <1>5, TabStep
<1>6. CASE /\ tab' = [tab EXCEPT ![t] = [adopted EXCEPT !.call = IF again THEN SaveRequest(adopted) ELSE NoCall]]
           /\ backup' = IF again THEN Backup(adopted) ELSE NoCopy
  <2>1. adopted \in Composers /\ (adopted.rev > 0 => adopted.latest # Blank)
    <3>1. c.call.got \in Rows /\ c.call.content \in Texts /\ Blank \in Texts
      BY <1>1 DEF Composers, Requests, Texts
    <3>2. c.call.got.rev \in Nat
      BY <3>1 DEF Rows, DraftRow, Revisions, Gone
    <3>3. (IF Same(c) THEN c.call.content ELSE Blank) \in Texts
      BY <3>1
    <3> QED BY <1>1, <3>2, <3>3 DEF Composers
  <2> DEFINE d == [adopted EXCEPT !.call = IF again THEN SaveRequest(adopted) ELSE NoCall]
  <2>2. d \in Composers
    BY <2>1, SaveRequestType, SmallTypes DEF Composers
  <2>3. WholeTab(d)
    <3>1. /\ d.step = "edit" /\ d.stopped = c.stopped /\ d.wish = c.wish /\ d.latest = c.latest
          /\ d.conflict = c.conflict /\ d.copy = c.copy /\ d.rev = adopted.rev /\ d.saved = adopted.saved
          /\ d.call = IF again THEN SaveRequest(adopted) ELSE NoCall
      BY <1>1, <2>1 DEF Composers
    <3>2. adopted.latest = c.latest /\ adopted.rev \in Nat
      BY <1>1, <2>1 DEF Composers
    <3>3. CASE again
      <4>1. /\ SaveRequest(adopted).kind \in {"POST", "PATCH"}
            /\ SaveRequest(adopted).kind = "POST" => adopted.rev = 0
            /\ SaveRequest(adopted).content = c.latest
        <5>1. adopted \in Composers
          BY <2>1
        <5> HIDE DEF adopted
        <5> QED BY <5>1, <3>2, SaveRequestType
      <4> QED BY <1>1, <3>1, <3>3, <4>1 DEF WholeTab
    <3>4. CASE ~again
      BY <1>1, <3>1, <3>4 DEF WholeTab, NoCall
    <3> QED BY <3>3, <3>4
  <2>4. backup' \in Copies /\ WholeCopy(backup')
    BY <1>6, <2>1, BackupType, SmallTypes DEF WholeCopy
  <2> QED BY <1>2, <1>6, <2>2, <2>3, <2>4, TabStep
<1> QED BY <1>4, <1>5, <1>6 DEF SaveAnswered

LEMMA AnsweredTypes ==
  ASSUME Based, NEW t \in Tabs, Answered(t)
  PROVE  Typed' /\ Whole'
<1>1. tab[t] \in Composers /\ WholeTab(tab[t]) /\ tab[t].step = "edit"
  BY DEF Answered, Editing, Based, Typed, Whole
<1>2. CASE tab' = [tab EXCEPT ![t] = Closed] /\ backup' = NoCopy /\ kept' \in {kept, Blank}
  BY <1>2, CloseStep, SmallTypes DEF Answered, WholeCopy
<1>3. CASE tab' = [tab EXCEPT ![t] = GoOn(tab[t])] /\ UNCHANGED <<backup, kept>>
  <2>1. GoOn(tab[t]) \in Composers /\ WholeTab(GoOn(tab[t]))
    BY <1>1, SmallTypes DEF GoOn, Composers, WholeTab, NoCall, Closed
  <2> QED BY <1>3, <2>1, TabStep DEF Answered, Based, Typed, Whole
<1> QED BY <1>2, <1>3 DEF Answered

LEMMA LeaveTypes ==
  ASSUME Based, NEW t \in Tabs, Leave(t)
  PROVE  Typed' /\ Whole'
<1> DEFINE c == tab[t]
           last == IF c.call = NoCall /\ Unsaved(c) THEN SaveRequest(c) ELSE c.call
<1>1. c \in Composers /\ WholeTab(c) /\ c.step = "edit" /\ (c.rev > 0 => c.latest # Blank)
  BY DEF Leave, Editing, Based, Typed, Whole, WholeTab
<1>2. last \in Requests /\ (last.kind # "none" => last.content # Blank)
  BY <1>1, SaveRequestType DEF WholeTab, Unsaved, Meaningful, Composers
<1>3. /\ strays' = strays \cup (IF last.kind # "none" /\ last.answer = "none" THEN {last} ELSE {})
      /\ backup' = Backup(c) /\ tab' = [tab EXCEPT ![t] = Closed]
  BY DEF Leave
<1> QED BY <1>1, <1>2, <1>3, CloseType, BackupType, TabStep, SpendType DEF Leave, Based, Typed

LEMMA CrashTypes ==
  ASSUME Based, NEW t \in Tabs, Crash(t)
  PROVE  Typed' /\ Whole'
<1>1. tab[t] \in Composers /\ WholeTab(tab[t]) /\ tab[t].call \in Requests
  BY DEF Based, Typed, Whole, Composers
<1>2. strays' \subseteq Requests /\ \A r \in strays' \ strays : r.kind # "none" /\ r.content # Blank
  BY <1>1 DEF Crash, WholeTab, Based, Typed
<1> QED BY <1>2, CloseType, TabStep, SpendType DEF Crash, Based, Typed, Whole

LEMMA OpenRowType ==
  ASSUME Based, draft.status = "active"
  PROVE  /\ OpenRow \in Composers /\ WholeTab(OpenRow)
         /\ OpenRow.step = "edit" /\ OpenRow.latest = draft.content /\ OpenRow.saved = draft.content
         /\ OpenRow.rev = draft.rev /\ OpenRow.seen = {draft.content} /\ OpenRow.call = NoCall
         /\ OpenRow.copy = NoCopy /\ OpenRow.wish = "none" /\ ~OpenRow.conflict /\ ~OpenRow.stopped
<1>1. draft \in DraftRow
  BY DEF Based, Typed, Rows, Gone
<1>2. draft.content \in Contents /\ draft.rev \in Nat /\ draft.content # Blank
  BY <1>1 DEF DraftRow, Revisions, Contents, Blank
<1>3. OpenRow \in Composers
  BY <1>2, SmallTypes DEF OpenRow, Composers, Texts
<1> QED BY <1>2, <1>3 DEF OpenRow, Closed, WholeTab, WholeCopy, NoCall, NoCopy

LEMMA OpenCopyType ==
  ASSUME NEW k \in Copies, k # NoCopy, WholeCopy(k)
  PROVE  /\ OpenCopy(k) \in Composers /\ WholeTab(OpenCopy(k))
         /\ OpenCopy(k).step = "edit" /\ OpenCopy(k).latest = k.content /\ OpenCopy(k).saved = Blank
         /\ OpenCopy(k).rev = k.rev /\ OpenCopy(k).seen = k.seen /\ OpenCopy(k).call = NoCall
         /\ OpenCopy(k).copy = NoCopy /\ OpenCopy(k).wish = "none" /\ ~OpenCopy(k).conflict
         /\ ~OpenCopy(k).stopped
<1>1. OpenCopy(k) \in Composers
  BY SmallTypes DEF OpenCopy, Composers, Copies
<1> QED BY <1>1 DEF OpenCopy, Closed, WholeTab, WholeCopy, NoCall, NoCopy

LEMMA StaleType ==
  LET c == [Closed EXCEPT !.step = "stale"] IN c \in Composers /\ WholeTab(c)
<1> DEFINE c == [Closed EXCEPT !.step = "stale"]
<1>1. c \in Composers
  BY SmallTypes DEF Composers
<1> QED BY <1>1 DEF Closed, WholeTab, WholeCopy, NoCall, NoCopy

LEMMA ResumeTypes ==
  ASSUME Based, NEW t \in Tabs, Resume(t)
  PROVE  Typed' /\ Whole'
<1> DEFINE c == [Closed EXCEPT !.step = "loading", !.copy = backup]
<1>1. c \in Composers
  BY SmallTypes DEF Composers, Based, Typed
<1>2. WholeTab(c)
  BY DEF Closed, WholeTab, Based, Whole, NoCall
<1>3. alone' \in BOOLEAN
  BY DEF Resume
<1> QED BY <1>1, <1>2, <1>3, TabStep, SpendType DEF Resume, Based, Typed, Whole

\* What a composer is after "loading".
LEMMA ResumedCases ==
  ASSUME Based, NEW t \in Tabs, Resumed(t)
  PROVE  \/ tab' = [tab EXCEPT ![t] = Closed]
         \/ tab' = [tab EXCEPT ![t] = [Closed EXCEPT !.step = "stale"]]
         \/ /\ tab' = [tab EXCEPT ![t] = OpenRow]
            /\ draft.status = "active" /\ tab[t].copy = NoCopy
         \/ /\ tab' = [tab EXCEPT ![t] = OpenCopy(tab[t].copy)]
            /\ tab[t].copy # NoCopy
            /\ draft.status = "active" => tab[t].copy.rev \in {0, draft.rev}
            /\ draft.status # "active" => tab[t].copy.rev = 0
<1>1. tab[t].copy.rev \in Nat
  BY DEF Based, Typed, Composers, Copies
<1>2. CASE tab[t].copy # NoCopy /\ draft.status = "active"
  BY <1>2 DEF Resumed
<1>3. CASE tab[t].copy # NoCopy /\ draft.status # "active"
  <2>1. tab' = [tab EXCEPT ![t] = IF tab[t].copy.rev > 0 THEN Closed ELSE OpenCopy(tab[t].copy)]
    BY <1>3 DEF Resumed
  <2>2. CASE tab[t].copy.rev > 0
    BY <2>1, <2>2
  <2>3. CASE ~(tab[t].copy.rev > 0)
    <3>1. tab[t].copy.rev = 0
      BY <1>1, <2>3
    <3> QED BY <1>3, <2>1, <3>1
  <2> QED BY <2>2, <2>3
<1>4. CASE tab[t].copy = NoCopy
  BY <1>4 DEF Resumed
<1> QED BY <1>2, <1>3, <1>4

LEMMA ResumedTypes ==
  ASSUME Based, NEW t \in Tabs, Resumed(t)
  PROVE  Typed' /\ Whole'
<1>1. tab[t].copy \in Copies /\ WholeCopy(tab[t].copy)
  BY DEF Based, Typed, Whole, WholeTab, Composers
<1>2. PICK c \in Composers : WholeTab(c) /\ tab' = [tab EXCEPT ![t] = c]
  BY <1>1, ResumedCases, CloseType, StaleType, OpenRowType, OpenCopyType
<1> QED BY <1>2, TabStep DEF Resumed, Based, Typed, Whole

LEMMA ReopenSavedTypes ==
  ASSUME Based, NEW t \in Tabs, ReopenSaved(t)
  PROVE  Typed' /\ Whole'
<1>1. CASE draft.status = "active"
  BY <1>1, OpenRowType, TabStep, SmallTypes DEF ReopenSaved, Based, Typed, Whole, WholeCopy, Texts
<1>2. CASE draft.status # "active"
  BY <1>2, CloseStep DEF ReopenSaved, Based, Typed, Whole
<1> QED BY <1>1, <1>2

LEMMA DropTypes ==
  ASSUME Based, NEW t \in Tabs, Drop(t)
  PROVE  Typed' /\ Whole'
<1>1. CASE draft.status = "active"
  <2> DEFINE c == [Closed EXCEPT !.step = "dropping", !.rev = draft.rev]
  <2>1. draft.rev \in Nat
    BY DEF Based, Typed, Rows, DraftRow, Gone, Revisions
  <2>2. c \in Composers
    BY <2>1, SmallTypes DEF Composers
  <2>3. WholeTab(c)
    BY DEF Closed, WholeTab, WholeCopy, NoCall, NoCopy
  <2> QED BY <1>1, <2>2, <2>3, TabStep, SpendType DEF Drop, Based, Typed, Whole
<1>2. CASE draft.status # "active"
  <2>1. budget' \in [edits : 0..MaxEdits, opens : 0..MaxOpens, faults : 0..MaxFaults]
    BY SpendType DEF Drop
  <2> QED BY <1>2, <2>1, SmallTypes DEF Drop, Based, Typed, Whole, WholeCopy, Texts
<1> QED BY <1>1, <1>2

LEMMA DroppedTypes ==
  ASSUME Based, NEW t \in Tabs, Dropped(t)
  PROVE  Typed' /\ Whole'
<1>1. draft' \in Rows /\ backup' \in Copies /\ WholeCopy(backup') /\ kept' \in Texts /\ dropped' \in BOOLEAN
  BY SmallTypes DEF Dropped, Based, Typed, Whole, WholeCopy, Texts
<1>2. tab' \in [Tabs -> Composers] /\ \A u \in Tabs : WholeTab(tab'[u])
  BY CloseType DEF Dropped, Based, Typed, Whole
<1> QED BY <1>1, <1>2 DEF Dropped, Based, Typed, Whole

LEMMA LoseTypes ==
  ASSUME Based, NEW t \in Tabs, Lose(t)
  PROVE  Typed' /\ Whole'
<1> DEFINE c == [tab[t] EXCEPT !.call = [@ EXCEPT !.answer = "failed"]]
<1>1. tab[t] \in Composers /\ WholeTab(tab[t]) /\ tab[t].call \in Requests
  BY DEF Based, Typed, Whole, Composers
<1>2. tab' = [tab EXCEPT ![t] = c]
  BY <1>1 DEF Lose, Based, Typed
<1>3. [tab[t].call EXCEPT !.answer = "failed"] \in Requests
  BY <1>1 DEF Requests
<1>4. c \in Composers
  BY <1>1, <1>3 DEF Composers
<1>5. WholeTab(c)
  BY <1>1, <1>3 DEF WholeTab, Lose, NoCall, Composers, Requests, Closed
<1> QED BY <1>2, <1>4, <1>5, TabStep, SpendType DEF Lose, Based, Typed, Whole

\* What a request does to the row.
LEMMA ServeTypes ==
  ASSUME Based, Once, NEW r \in Requests, r.content # Blank, Serve(r)
  PROVE  /\ draft' \in Rows /\ dropped' \in BOOLEAN
         /\ sent' \in Seq([content : Contents, shown : Contents])
         /\ Once'
<1>1. /\ draft \in Rows /\ dropped \in BOOLEAN /\ sent \in Seq([content : Contents, shown : Contents])
      /\ r.content \in Contents /\ draft.rev \in Nat
  BY DEF Based, Typed, Requests, Texts, Blank, Rows, DraftRow, Gone, Revisions
<1>2. CASE Create(r)
  <2>1. [status |-> "active", rev |-> 1, content |-> r.content] \in DraftRow
    BY <1>1 DEF DraftRow, Revisions
  <2> QED BY <1>1, <1>2, <2>1 DEF Create, Once, Rows, Gone
<1>3. CASE Update(r)
  <2>1. CASE Writable(r.rev)
    <3>1. draft \in DraftRow /\ draft.status = "active"
      BY <1>1, <2>1 DEF Writable, Rows, Gone
    <3>2. draft' = [draft EXCEPT !.rev = @ + 1, !.content = r.content]
      BY <1>3, <2>1 DEF Update
    <3>3. draft.rev + 1 \in Revisions \ {0}
      BY <1>1 DEF Revisions
    <3>4. draft' \in DraftRow /\ draft'.status = "active"
      BY <1>1, <3>1, <3>2, <3>3 DEF DraftRow
    <3> QED BY <1>1, <1>3, <3>1, <3>4 DEF Update, Once, Rows
  <2> QED BY <1>1, <1>3, <2>1 DEF Update, Once
<1>4. CASE Handover(r)
  <2>1. CASE Writable(r.rev)
    <3>1. draft \in DraftRow /\ draft.status = "active"
      BY <1>1, <2>1 DEF Writable, Rows, Gone
    <3>2. draft' = [draft EXCEPT !.status = "consumed"]
          /\ sent' = Append(sent, [content |-> draft.content, shown |-> r.content])
      BY <1>4, <2>1 DEF Handover
    <3>3. draft' \in DraftRow /\ draft'.status = "consumed"
      BY <3>1, <3>2 DEF DraftRow
    <3>4. [content |-> draft.content, shown |-> r.content] \in [content : Contents, shown : Contents]
      BY <1>1, <3>1 DEF DraftRow
    <3>5. Len(sent') = 1 /\ sent' \in Seq([content : Contents, shown : Contents])
      BY <1>1, <3>1, <3>2, <3>4 DEF Once
    <3> QED BY <1>1, <1>4, <3>3, <3>5 DEF Handover, Once, Rows
  <2> QED BY <1>1, <1>4, <2>1 DEF Handover, Once
<1>5. CASE Discard(r)
  BY <1>1, <1>5 DEF Discard, Deletable, Once, Rows, Gone
<1> QED BY <1>2, <1>3, <1>4, <1>5 DEF Serve

\* The composer after an answer.
LEMMA ServedTab ==
  ASSUME Based, Once, NEW t \in Tabs, ServeTab(t)
  PROVE  /\ tab[t].call \in Requests /\ tab[t].call.content # Blank /\ tab[t].step = "edit"
         /\ Serve(tab[t].call) /\ draft' \in Rows
         /\ tab[t].call.kind # "none" /\ tab[t].call.answer = "none"
         /\ LET a == IF Ok(tab[t].call) THEN "ok" ELSE "conflict"
                d == [tab[t].call EXCEPT !.answer = a, !.got = draft']
            IN /\ d \in Requests
               /\ tab' = [tab EXCEPT ![t] = [tab[t] EXCEPT !.call = d]]
               /\ [tab[t] EXCEPT !.call = d] \in Composers
<1>1. /\ tab[t].call \in Requests /\ tab[t].call.content # Blank /\ tab[t].step = "edit"
      /\ Serve(tab[t].call) /\ tab[t].call.kind # "none" /\ tab[t].call.answer = "none"
  BY DEF ServeTab, Based, Typed, Whole, WholeTab, Composers
<1>2. draft' \in Rows
  BY <1>1, ServeTypes
<1> DEFINE a == IF Ok(tab[t].call) THEN "ok" ELSE "conflict"
           d == [tab[t].call EXCEPT !.answer = a, !.got = draft']
<1>3. tab' = [tab EXCEPT ![t].call.answer = a, ![t].call.got = draft']
  BY DEF ServeTab
<1>4. d \in Requests
  <2>1. a \in {"ok", "conflict"}
    OBVIOUS
  <2> HIDE DEF a
  <2> QED BY <1>1, <1>2, <2>1 DEF Requests
<1>5. tab[t] \in Composers /\ tab \in [Tabs -> Composers]
  BY DEF Based, Typed
<1>6. tab' = [tab EXCEPT ![t] = [tab[t] EXCEPT !.call = d]]
  <2> HIDE DEF a
  <2> QED BY <1>3, <1>5, <1>1 DEF Composers, Requests
<1>7. [tab[t] EXCEPT !.call = d] \in Composers
  <2> HIDE DEF d
  <2> QED BY <1>4, <1>5 DEF Composers
<1> QED BY <1>1, <1>2, <1>4, <1>6, <1>7

LEMMA ServedTabBy ==
  ASSUME Based, Once, NEW t \in Tabs, ServeTab(t)
  PROVE  \E a \in {"ok", "conflict"}, d \in Requests, c \in Composers :
           /\ a = IF Ok(tab[t].call) THEN "ok" ELSE "conflict"
           /\ d = [tab[t].call EXCEPT !.answer = a, !.got = draft']
           /\ c = [tab[t] EXCEPT !.call = d] /\ tab' = [tab EXCEPT ![t] = c]
<1> DEFINE a == IF Ok(tab[t].call) THEN "ok" ELSE "conflict"
           d == [tab[t].call EXCEPT !.answer = a, !.got = draft']
           c == [tab[t] EXCEPT !.call = d]
<1>1. d \in Requests /\ c \in Composers /\ tab' = [tab EXCEPT ![t] = c]
  BY ServedTab
<1>2. a \in {"ok", "conflict"}
  OBVIOUS
<1> USE <1>1, <1>2
<1> WITNESS a \in {"ok", "conflict"}, d \in Requests, c \in Composers
<1> QED BY <1>1

LEMMA ServeTabTypes ==
  ASSUME Based, Once, NEW t \in Tabs, ServeTab(t)
  PROVE  Typed' /\ Whole' /\ Once'
<1> DEFINE d == [tab[t].call EXCEPT !.answer = IF Ok(tab[t].call) THEN "ok" ELSE "conflict", !.got = draft']
           c == [tab[t] EXCEPT !.call = d]
<1>1. c \in Composers /\ tab' = [tab EXCEPT ![t] = c]
  BY ServedTab
<1>2. /\ d.kind = tab[t].call.kind /\ d.content = tab[t].call.content /\ d.kind # "none"
      /\ tab[t] \in Composers /\ WholeTab(tab[t]) /\ tab[t].step = "edit"
  BY ServedTab DEF Requests, Based, Typed, Whole
<1>3. WholeTab(c)
  <2>1. /\ c.step = tab[t].step /\ c.stopped = tab[t].stopped /\ c.wish = tab[t].wish /\ c.latest = tab[t].latest
        /\ c.conflict = tab[t].conflict /\ c.copy = tab[t].copy /\ c.rev = tab[t].rev /\ c.saved = tab[t].saved
        /\ c.call = d
    BY <1>2 DEF Composers
  <2> HIDE DEF c, d
  <2> QED BY <1>2, <2>1 DEF WholeTab
<1>4. draft' \in Rows /\ dropped' \in BOOLEAN /\ sent' \in Seq([content : Contents, shown : Contents]) /\ Once'
  BY ServedTab, ServeTypes
<1>5. UNCHANGED <<backup, strays, alone, kept, budget>>
  BY DEF ServeTab
<1> HIDE DEF c
<1> QED BY <1>1, <1>3, <1>4, <1>5 DEF Based, Typed, Whole

LEMMA ServeStrayTypes ==
  ASSUME Based, Once, ServeStray
  PROVE  Typed' /\ Whole' /\ Once'
<1>1. PICK r \in strays : Serve(r) /\ strays' = strays \ {r}
  BY DEF ServeStray
<1>2. r \in Requests /\ r.content # Blank
  BY DEF Based, Typed, Whole
<1>3. draft' \in Rows /\ dropped' \in BOOLEAN /\ sent' \in Seq([content : Contents, shown : Contents]) /\ Once'
  BY <1>1, <1>2, ServeTypes
<1> QED BY <1>1, <1>3 DEF ServeStray, Based, Typed, Whole

LEMMA OnceKept ==
  ASSUME Once, UNCHANGED sent, draft' = draft \/ (draft.status = "active" /\ draft' = Gone)
  PROVE  Once'
BY DEF Once, Gone

LEMMA TypesKept ==
  ASSUME Based, Once, [Next]_vars
  PROVE  Typed' /\ Whole' /\ Once'
<1>1. ASSUME NEW t \in Tabs,
             Compose(t) \/ Edit(t) \/ Save(t) \/ Click(t) \/ Proceed(t) \/ SaveAnswered(t) \/ Answered(t)
             \/ Leave(t) \/ Crash(t) \/ Resume(t) \/ Resumed(t) \/ ReopenSaved(t) \/ Drop(t) \/ Lose(t)
      PROVE  Typed' /\ Whole' /\ Once'
  <2>1. UNCHANGED <<sent, draft>>
    BY <1>1 DEF Compose, Edit, Save, Click, Proceed, SaveAnswered, Answered, Leave, Crash, Resume,
                Resumed, ReopenSaved, Drop, Lose
  <2>2. Once'
    BY <2>1, OnceKept
  <2> QED BY <1>1, <2>2, ComposeTypes, EditTypes, SaveTypes, ClickTypes, ProceedTypes,
             SaveAnsweredTypes, AnsweredTypes, LeaveTypes, CrashTypes, ResumeTypes, ResumedTypes,
             ReopenSavedTypes, DropTypes, LoseTypes
<1>2. ASSUME NEW t \in Tabs, Dropped(t) PROVE Typed' /\ Whole' /\ Once'
  <2>1. UNCHANGED sent /\ (draft' = draft \/ (draft.status = "active" /\ draft' = Gone))
    BY <1>2 DEF Dropped, Deletable
  <2> QED BY <1>2, <2>1, OnceKept, DroppedTypes
<1>3. ASSUME NEW t \in Tabs, ServeTab(t) PROVE Typed' /\ Whole' /\ Once'
  BY <1>3, ServeTabTypes
<1>4. CASE ServeStray
  BY <1>4, ServeStrayTypes
<1>5. CASE UNCHANGED vars
  BY <1>5 DEF vars, Based, Typed, Whole, Once
<1> QED BY <1>1, <1>2, <1>3, <1>4, <1>5 DEF Next

-----------------------------------------------------------------------------
(* 2. A revision names one content *)

\* What a step may do to the row: create it once, write it, hand it over, delete it.
RowMoves ==
  \/ UNCHANGED <<draft, dropped>>
  \/ /\ draft = Gone /\ ~dropped /\ ~dropped'
     /\ draft'.status = "active" /\ draft'.rev = 1
  \/ /\ draft.status = "active" /\ draft'.status = "active" /\ dropped' = dropped
     /\ draft'.rev = draft.rev + 1
  \/ /\ draft.status = "active" /\ draft'.status = "consumed" /\ dropped' = dropped
     /\ draft'.rev = draft.rev /\ draft'.content = draft.content
  \/ /\ draft.status = "active" /\ draft' = Gone /\ dropped'

LEMMA RowTypes ==
  ASSUME NEW d \in Rows
  PROVE  /\ d.rev \in Nat /\ d.content \in Texts /\ d.status \in {"none", "active", "consumed"}
         /\ d = Gone <=> d.status = "none"
         /\ d # Gone => d.rev > 0 /\ d.content \in Contents
BY DEF Rows, DraftRow, Revisions, Gone, Texts

LEMMA ServeMoves ==
  ASSUME Based, ~Reborn, NEW r \in Requests, Serve(r)
  PROVE  RowMoves
<1>1. draft \in Rows
  BY DEF Based, Typed
<1>2. CASE Create(r)
  BY <1>2 DEF Create, RowMoves
<1>3. CASE Update(r)
  <2>1. CASE Writable(r.rev)
    <3>1. draft \in DraftRow /\ draft.status = "active"
      BY <1>1, <2>1 DEF Writable, Rows, Gone
    <3> QED BY <1>3, <2>1, <3>1 DEF Update, RowMoves, DraftRow
  <2> QED BY <1>3, <2>1 DEF Update, RowMoves
<1>4. CASE Handover(r)
  <2>1. CASE Writable(r.rev)
    <3>1. draft \in DraftRow /\ draft.status = "active"
      BY <1>1, <2>1 DEF Writable, Rows, Gone
    <3> QED BY <1>4, <2>1, <3>1 DEF Handover, RowMoves, DraftRow
  <2> QED BY <1>4, <2>1 DEF Handover, RowMoves
<1>5. CASE Discard(r)
  <2>1. dropped \in BOOLEAN
    BY DEF Based, Typed
  <2>2. CASE Deletable(r.rev)
    <3>1. dropped' = TRUE /\ draft' = Gone /\ draft.status = "active"
      BY <1>5, <2>2 DEF Discard, Deletable
    <3> QED BY <3>1 DEF RowMoves
  <2>3. CASE ~Deletable(r.rev)
    <3>1. dropped' = dropped /\ draft' = draft
      BY <1>5, <2>1, <2>3 DEF Discard
    <3> QED BY <3>1 DEF RowMoves
  <2> QED BY <2>2, <2>3
<1> QED BY <1>2, <1>3, <1>4, <1>5 DEF Serve

\* What has been known stays true, whatever happens to the row.
LEMMA Lasting ==
  ASSUME Typed, Typed', RowMoves
  PROVE  /\ \A rev \in Nat : Behind(rev) => Behind(rev)'
         /\ \A rev \in Nat : \A content : Known(rev, content) => Known(rev, content)'
<1>1. draft \in Rows /\ draft' \in Rows
  BY DEF Typed
<1>2. \A d \in {draft, draft'} :
        /\ d.rev \in Nat /\ (d = Gone <=> d.status = "none") /\ (d # Gone => d.rev > 0)
  BY <1>1, RowTypes
<1>3. \A rev \in Nat : Behind(rev) => Behind(rev)'
  BY <1>2 DEF RowMoves, Behind
<1>4. \A rev \in Nat : \A content : Known(rev, content) => Known(rev, content)'
  BY <1>2, <1>3 DEF RowMoves, Behind, Known
<1> QED BY <1>3, <1>4

LEMMA TabTypes ==
  ASSUME NEW c \in Composers
  PROVE  /\ c.rev \in Nat /\ c.copy \in Copies /\ c.copy.rev \in Nat /\ c.call \in Requests
         /\ c.call.rev \in Nat /\ c.call.got \in Rows /\ c.call.got.rev \in Nat
BY RowTypes DEF Composers, Copies, Requests

LEMMA KnowledgeLasts ==
  ASSUME Typed, Typed', RowMoves
  PROVE  /\ \A c \in Composers : TabKnows(c) => TabKnows(c)'
         /\ \A r \in Requests : RequestKnows(r) => RequestKnows(r)'
<1>1. \A r \in Requests : r.rev \in Nat /\ r.got.rev \in Nat
  BY RowTypes DEF Requests
<1>2. \A r \in Requests : RequestKnows(r) => RequestKnows(r)'
  <2> SUFFICES ASSUME NEW r \in Requests, RequestKnows(r)
               PROVE  RequestKnows(r)'
    OBVIOUS
  <2>1. Behind(r.rev)' /\ (r.kind = "SEND" => Known(r.rev, r.content)')
    BY <1>1, Lasting DEF RequestKnows
  <2>2. SavedIn(r) => r.got # Gone /\ Known(r.got.rev, r.got.content)'
    BY <1>1, Lasting DEF RequestKnows
  <2> QED BY <2>1, <2>2 DEF RequestKnows, SavedIn
<1>3. \A c \in Composers : TabKnows(c) => TabKnows(c)'
  <2> SUFFICES ASSUME NEW c \in Composers, TabKnows(c)
               PROVE  TabKnows(c)'
    OBVIOUS
  <2>1. c.rev \in Nat /\ c.copy.rev \in Nat /\ c.call \in Requests
    BY TabTypes
  <2>2. Behind(c.rev)' /\ Behind(c.copy.rev)' /\ (c.saved # Blank => Known(c.rev, c.saved)')
    BY <2>1, Lasting DEF TabKnows
  <2>3. RequestKnows(c.call)'
    BY <1>2, <2>1 DEF TabKnows
  <2> QED BY <2>2, <2>3 DEF TabKnows
<1> QED BY <1>2, <1>3

\* A step of a tab, at which the row stands still.
LEMMA InformedStep ==
  ASSUME Typed, Typed', Informed, UNCHANGED <<draft, dropped>>,
         NEW t \in Tabs, NEW c \in Composers, tab' = [tab EXCEPT ![t] = c], TabKnows(c),
         Behind(backup'.rev), \A r \in strays' \ strays : RequestKnows(r)
  PROVE  Informed'
<1>1. RowMoves
  BY DEF RowMoves
<1>2. Behind(backup.rev)'
  BY DEF Behind
<1>3. \A r \in strays' : RequestKnows(r)'
  <2>1. \A r \in strays' : r \in Requests /\ RequestKnows(r)
    BY DEF Typed, Informed
  <2> QED BY <1>1, <2>1, KnowledgeLasts
<1>4. \A u \in Tabs : TabKnows(tab[u])'
  <2> SUFFICES ASSUME NEW u \in Tabs PROVE TabKnows(tab[u])'
    OBVIOUS
  <2>1. PICK d \in Composers : d = tab'[u]
    BY DEF Typed
  <2>2. TabKnows(d)
    BY <2>1 DEF Typed, Informed
  <2>3. TabKnows(d)'
    BY <1>1, <2>2, KnowledgeLasts
  <2> QED BY <2>1, <2>3 DEF TabKnows, RequestKnows, Known, Behind, SavedIn
<1> QED BY <1>2, <1>3, <1>4 DEF Informed

Told == Based /\ Once /\ ~Reborn /\ Informed

LEMMA ClosedKnows ==
  ASSUME Typed
  PROVE  /\ Behind(0) /\ TabKnows(Closed) /\ RequestKnows(NoCall)
         /\ NoCall.answer = "none" /\ Closed.call = NoCall /\ NoCopy.rev = 0
BY RowTypes DEF Typed, TabKnows, RequestKnows, Behind, Known, Closed, NoCall, NoCopy, SavedIn

LEMMA BackupKnows ==
  ASSUME Told, NEW c \in Composers, Behind(c.rev)
  PROVE  Behind(Backup(c).rev)
<1>1. Behind(backup.rev) /\ Behind(NoCopy.rev)
  BY ClosedKnows DEF Told, Based, Informed
<1> QED BY <1>1, BackupCases

\* A composer whose row and saved text are as before, and its call is new.
LEMMA SameKnowledge ==
  ASSUME NEW c, TabKnows(c), NEW d, d.rev = c.rev, d.copy = c.copy, d.saved = c.saved, RequestKnows(d.call)
  PROVE  TabKnows(d)
BY DEF TabKnows

LEMMA SaveRequestKnows ==
  ASSUME NEW c \in Composers, Behind(c.rev)
  PROVE  RequestKnows(SaveRequest(c))
BY SaveRequestType DEF RequestKnows, SavedIn

LEMMA EditingInformed ==
  ASSUME Told, Typed', NEW t \in Tabs, Compose(t) \/ Edit(t) \/ Save(t) \/ Click(t)
  PROVE  Informed'
<1>1. Typed /\ Informed /\ tab[t] \in Composers /\ TabKnows(tab[t]) /\ Behind(tab[t].rev)
  BY DEF Told, Based, Typed, Informed, TabKnows
<1>2. RequestKnows(tab[t].call) /\ Behind(backup.rev)
  BY <1>1 DEF TabKnows, Informed
<1>3. CASE Compose(t)
  <2> DEFINE d == [Closed EXCEPT !.step = "edit"]
  <2>1. d \in Composers
    BY SmallTypes DEF Composers
  <2>2. TabKnows(d)
    BY <1>1, ClosedKnows, SameKnowledge DEF Closed
  <2> QED BY <1>1, <1>2, <1>3, <2>1, <2>2, InformedStep DEF Compose
<1>4. CASE Edit(t)
  <2> DEFINE n == MaxEdits - budget.edits + 1
             c == [tab[t] EXCEPT !.latest = n, !.seen = @ \cup {n}]
  <2>1. tab' = [tab EXCEPT ![t] = c] /\ backup' = Backup(c) /\ UNCHANGED <<draft, dropped, strays>>
    BY <1>4 DEF Edit
  <2>2. c \in Composers
    BY <2>1 DEF Typed, Told, Based
  <2>3. c.rev = tab[t].rev /\ c.copy = tab[t].copy /\ c.saved = tab[t].saved /\ c.call = tab[t].call
    BY <1>1 DEF Composers
  <2> HIDE DEF c
  <2>4. TabKnows(c)
    BY <1>1, <1>2, <2>3, SameKnowledge
  <2>5. Behind(backup'.rev)
    BY <1>1, <2>1, <2>2, <2>3, BackupKnows
  <2> QED BY <1>1, <2>1, <2>2, <2>4, <2>5, InformedStep
<1>5. CASE Save(t)
  <2> DEFINE c == [tab[t] EXCEPT !.call = SaveRequest(tab[t])]
  <2>1. tab' = [tab EXCEPT ![t] = c] /\ backup' = Backup(tab[t]) /\ UNCHANGED <<draft, dropped, strays>>
    BY <1>1, <1>5 DEF Save, Typed
  <2>2. c \in Composers
    BY <2>1 DEF Typed, Told, Based
  <2>3. c.rev = tab[t].rev /\ c.copy = tab[t].copy /\ c.saved = tab[t].saved /\ c.call = SaveRequest(tab[t])
    BY <1>1 DEF Composers
  <2> HIDE DEF c
  <2>4. TabKnows(c)
    BY <1>1, <2>3, SaveRequestKnows, SameKnowledge
  <2> QED BY <1>1, <2>1, <2>2, <2>4, BackupKnows, InformedStep
<1>6. CASE Click(t)
  <2>1. PICK wish \in {"send", "discard", "close"} :
        /\ wish = "send" => tab[t].latest # Blank
        /\ LET c == [tab[t] EXCEPT !.wish = wish, !.stopped = wish = "discard"]
               saves == c.call = NoCall /\ Unsaved(c)
           IN /\ tab' = [tab EXCEPT ![t] = IF saves THEN [c EXCEPT !.call = SaveRequest(c)] ELSE c]
              /\ backup' = IF saves THEN Backup(c) ELSE backup
    BY <1>6 DEF Click
  <2> DEFINE c == [tab[t] EXCEPT !.wish = wish, !.stopped = wish = "discard"]
             saves == c.call = NoCall /\ Unsaved(c)
             d == IF saves THEN [c EXCEPT !.call = SaveRequest(c)] ELSE c
  <2>2. c \in Composers
    BY <1>1, <2>1 DEF Composers
  <2>3. /\ c.rev = tab[t].rev /\ c.copy = tab[t].copy /\ c.saved = tab[t].saved /\ c.call = tab[t].call
        /\ tab' = [tab EXCEPT ![t] = d] /\ backup' = IF saves THEN Backup(c) ELSE backup
    BY <1>1, <2>1 DEF Composers
  <2> HIDE DEF c
  <2>4. d \in Composers /\ d.rev = c.rev /\ d.copy = c.copy /\ d.saved = c.saved /\ d.call \in {c.call, SaveRequest(c)}
    BY <2>2, SaveRequestType DEF Composers
  <2> HIDE DEF d
  <2>5. TabKnows(d)
    BY <1>1, <1>2, <2>2, <2>3, <2>4, SaveRequestKnows, SameKnowledge
  <2>6. Behind(backup'.rev)
    BY <1>1, <1>2, <2>2, <2>3, BackupKnows
  <2> QED BY <1>1, <1>6, <2>3, <2>4, <2>5, <2>6, InformedStep DEF Click
<1> QED BY <1>3, <1>4, <1>5, <1>6

LEMMA ProceedInformed ==
  ASSUME Told, Typed', NEW t \in Tabs, Proceed(t)
  PROVE  Informed'
<1> DEFINE c == tab[t]
<1>1. /\ Typed /\ Informed /\ c \in Composers /\ TabKnows(c) /\ Behind(c.rev) /\ WholeTab(c)
      /\ RequestKnows(c.call) /\ Behind(backup.rev) /\ c.call = NoCall
      /\ UNCHANGED <<draft, dropped, strays>>
  BY DEF Told, Based, Typed, Whole, Informed, TabKnows, Proceed
<1>2. CASE /\ c.wish = "send" /\ UNCHANGED backup
           /\ tab' = [tab EXCEPT ![t] = IF c.rev = 0 \/ c.conflict THEN [c EXCEPT !.wish = "none"]
                                        ELSE [c EXCEPT !.call = Request(c, "SEND")]]
  <2>1. CASE c.rev = 0 \/ c.conflict
    <3> DEFINE d == [c EXCEPT !.wish = "none"]
    <3>1. d \in Composers /\ d.rev = c.rev /\ d.copy = c.copy /\ d.saved = c.saved /\ d.call = c.call
      BY <1>1 DEF Composers
    <3> QED BY <1>1, <1>2, <2>1, <3>1, SameKnowledge, InformedStep
  <2>2. CASE ~(c.rev = 0 \/ c.conflict)
    <3> DEFINE d == [c EXCEPT !.call = Request(c, "SEND")]
    <3>1. d \in Composers /\ d.rev = c.rev /\ d.copy = c.copy /\ d.saved = c.saved /\ d.call = Request(c, "SEND")
      BY <1>1, RequestType DEF Composers
    <3>2. Known(c.rev, c.latest)
      BY <1>1, <1>2, <2>2 DEF WholeTab, TabKnows, NoCall
    <3>3. RequestKnows(Request(c, "SEND"))
      BY <1>1, <3>2, RequestType DEF RequestKnows, SavedIn
    <3>4. tab' = [tab EXCEPT ![t] = d]
      BY <1>2, <2>2
    <3> HIDE DEF d
    <3>5. TabKnows(d)
      BY <1>1, <3>1, <3>3, SameKnowledge
    <3> QED BY <1>1, <1>2, <3>1, <3>4, <3>5, InformedStep
  <2> QED BY <2>1, <2>2
<1>3. CASE UNCHANGED backup /\ tab' = [tab EXCEPT ![t].call = Request(c, "DELETE")]
  <2> DEFINE d == [c EXCEPT !.call = Request(c, "DELETE")]
  <2>1. d \in Composers /\ d.rev = c.rev /\ d.copy = c.copy /\ d.saved = c.saved /\ d.call = Request(c, "DELETE")
        /\ tab' = [tab EXCEPT ![t] = d]
    BY <1>1, <1>3, RequestType DEF Composers, Typed
  <2>2. RequestKnows(Request(c, "DELETE"))
    BY <1>1, RequestType DEF RequestKnows, SavedIn
  <2> HIDE DEF d
  <2>3. TabKnows(d)
    BY <1>1, <2>1, <2>2, SameKnowledge
  <2> QED BY <1>1, <1>3, <2>1, <2>3, InformedStep
<1>4. CASE tab' = [tab EXCEPT ![t] = Closed] /\ backup' \in {NoCopy, Backup(c)}
  BY <1>1, <1>4, ClosedKnows, SmallTypes, BackupKnows, InformedStep
<1> QED BY <1>2, <1>3, <1>4 DEF Proceed

LEMMA SaveAnsweredInformed ==
  ASSUME Told, Typed', NEW t \in Tabs, SaveAnswered(t)
  PROVE  Informed'
<1> DEFINE c == tab[t]
           adopted == [c EXCEPT !.rev = c.call.got.rev, !.saved = IF Same(c) THEN c.call.content ELSE Blank]
           again == ~c.stopped /\ adopted.saved # c.latest
<1>1. /\ Typed /\ Informed /\ c \in Composers /\ TabKnows(c) /\ Behind(c.rev) /\ Behind(c.copy.rev)
      /\ RequestKnows(c.call) /\ Behind(backup.rev) /\ Saving(c)
      /\ UNCHANGED <<draft, dropped, strays>>
  BY DEF Told, Based, Typed, Informed, TabKnows, SaveAnswered
<1>2. ASSUME NEW d \in {GiveUp(c), [GiveUp(c) EXCEPT !.conflict = TRUE]}, tab' = [tab EXCEPT ![t] = d], UNCHANGED backup
      PROVE  Informed'
  <2>1. d \in Composers /\ d.rev = c.rev /\ d.copy = c.copy /\ d.saved = c.saved /\ d.call = NoCall
    BY <1>1, SmallTypes DEF GiveUp, Composers
  <2> QED BY <1>1, <1>2, <2>1, ClosedKnows, SameKnowledge, InformedStep
<1>3. CASE /\ c.call.answer = "ok"
           /\ tab' = [tab EXCEPT ![t] = [adopted EXCEPT !.call = IF again THEN SaveRequest(adopted) ELSE NoCall]]
           /\ backup' = IF again THEN Backup(adopted) ELSE NoCopy
  <2>1. Known(c.call.got.rev, c.call.got.content)
    BY <1>1, <1>3 DEF RequestKnows, SavedIn, Saving
  <2>2. c.call.got.rev \in Nat /\ c.call.content \in Texts /\ Blank \in Texts
    BY <1>1, TabTypes DEF Composers, Requests, Texts
  <2>3. adopted \in Composers
    <3>1. (IF Same(c) THEN c.call.content ELSE Blank) \in Texts
      BY <2>2
    <3> QED BY <1>1, <2>2, <3>1 DEF Composers
  <2>4. /\ adopted.rev = c.call.got.rev /\ adopted.copy = c.copy
        /\ adopted.saved # Blank => adopted.saved = c.call.got.content
    BY <1>1 DEF Composers, Same
  <2> DEFINE d == [adopted EXCEPT !.call = IF again THEN SaveRequest(adopted) ELSE NoCall]
  <2>5. /\ tab' = [tab EXCEPT ![t] = d] /\ backup' \in {Backup(adopted), NoCopy}
    BY <1>3
  <2> HIDE DEF adopted, again
  <2>6. /\ d \in Composers /\ d.rev = adopted.rev /\ d.copy = adopted.copy /\ d.saved = adopted.saved
        /\ d.call \in {SaveRequest(adopted), NoCall}
    BY <2>3, SaveRequestType, SmallTypes DEF Composers
  <2> HIDE DEF d
  <2>7. Behind(adopted.rev)
    BY <2>1, <2>4 DEF Known
  <2>8. TabKnows(d)
    BY <1>1, <2>1, <2>3, <2>4, <2>6, <2>7, SaveRequestKnows, ClosedKnows DEF TabKnows
  <2>9. Behind(backup'.rev)
    BY <1>1, <2>3, <2>5, <2>7, BackupKnows, ClosedKnows
  <2> QED BY <1>1, <2>5, <2>6, <2>8, <2>9, InformedStep
<1> QED BY <1>2, <1>3 DEF SaveAnswered

LEMMA EndingInformed ==
  ASSUME Told, Typed', NEW t \in Tabs, Answered(t) \/ Leave(t) \/ Crash(t) \/ Lose(t)
  PROVE  Informed'
<1> DEFINE c == tab[t]
<1>1. /\ Typed /\ Informed /\ c \in Composers /\ TabKnows(c) /\ Behind(c.rev)
      /\ RequestKnows(c.call) /\ Behind(backup.rev) /\ c.call \in Requests
      /\ UNCHANGED <<draft, dropped>>
  BY DEF Told, Based, Typed, Informed, TabKnows, Answered, Leave, Crash, Lose, Composers
<1>2. CASE Answered(t)
  <2>1. CASE tab' = [tab EXCEPT ![t] = Closed] /\ backup' = NoCopy
    BY <1>1, <1>2, <2>1, ClosedKnows, SmallTypes, InformedStep DEF Answered
  <2>2. CASE tab' = [tab EXCEPT ![t] = GoOn(c)] /\ UNCHANGED backup
    <3>1. /\ GoOn(c) \in Composers /\ GoOn(c).rev = c.rev /\ GoOn(c).copy = c.copy
          /\ GoOn(c).saved = c.saved /\ GoOn(c).call = NoCall
      BY <1>1, SmallTypes DEF GoOn, Composers
    <3>2. TabKnows(GoOn(c))
      BY <1>1, <3>1, ClosedKnows, SameKnowledge
    <3> QED BY <1>1, <1>2, <2>2, <3>1, <3>2, InformedStep DEF Answered
  <2> QED BY <1>2, <2>1, <2>2 DEF Answered
<1>3. CASE Leave(t)
  <2>1. \A r \in strays' \ strays : r \in {c.call, SaveRequest(c)}
    BY <1>3 DEF Leave
  <2> QED BY <1>1, <1>3, <2>1, SaveRequestKnows, BackupKnows, ClosedKnows, SmallTypes, InformedStep DEF Leave
<1>4. CASE Crash(t)
  <2>1. \A r \in strays' \ strays : r = c.call
    BY <1>4 DEF Crash
  <2> QED BY <1>1, <1>4, <2>1, ClosedKnows, SmallTypes, InformedStep DEF Crash
<1>5. CASE Lose(t)
  <2> DEFINE r == [c.call EXCEPT !.answer = "failed"]
             d == [c EXCEPT !.call = r]
  <2>1. r \in Requests /\ r.answer = "failed" /\ r.kind = c.call.kind /\ r.rev = c.call.rev /\ r.content = c.call.content
    BY <1>1 DEF Requests
  <2>2. RequestKnows(r)
    BY <1>1, <2>1 DEF RequestKnows, SavedIn
  <2>3. tab' = [tab EXCEPT ![t] = d]
    BY <1>1, <1>5 DEF Lose, Typed
  <2> HIDE DEF r
  <2>4. d \in Composers /\ d.rev = c.rev /\ d.copy = c.copy /\ d.saved = c.saved /\ d.call = r
    BY <1>1, <2>1 DEF Composers
  <2> HIDE DEF d
  <2>5. TabKnows(d)
    BY <1>1, <2>2, <2>4, SameKnowledge
  <2> QED BY <1>1, <1>5, <2>3, <2>4, <2>5, InformedStep DEF Lose
<1> QED BY <1>2, <1>3, <1>4, <1>5

LEMMA ListInformed ==
  ASSUME Told, Typed', NEW t \in Tabs, Resume(t) \/ Resumed(t) \/ ReopenSaved(t) \/ Drop(t)
  PROVE  Informed'
<1>1. /\ Typed /\ Informed /\ Behind(backup.rev) /\ UNCHANGED <<draft, dropped, strays>>
      /\ backup \in Copies /\ tab[t].copy \in Copies /\ Behind(tab[t].copy.rev) /\ WholeCopy(tab[t].copy)
      /\ draft \in Rows /\ Based
  BY DEF Told, Based, Typed, Informed, TabKnows, Resume, Resumed, ReopenSaved, Drop, Composers, Whole, WholeTab
<1>2. ASSUME NEW s, NEW k \in Copies, NEW rev \in Nat, Behind(k.rev), Behind(rev)
      PROVE  TabKnows([Closed EXCEPT !.step = s, !.copy = k, !.rev = rev])
  <2> DEFINE d == [Closed EXCEPT !.step = s, !.copy = k, !.rev = rev]
  <2>1. d.rev = rev /\ d.copy = k /\ d.saved = Blank /\ d.call = NoCall
    BY DEF Closed
  <2> QED BY <1>1, <1>2, <2>1, ClosedKnows DEF TabKnows
<1>3. CASE Resume(t)
  <2> DEFINE d == [Closed EXCEPT !.step = "loading", !.copy = backup]
  <2>1. d \in Composers
    BY <1>1, SmallTypes DEF Composers
  <2>2. d.rev = 0 /\ d.copy = backup /\ d.saved = Blank /\ d.call = NoCall
    BY DEF Closed
  <2>3. tab' = [tab EXCEPT ![t] = d] /\ UNCHANGED backup
    BY <1>3 DEF Resume
  <2> HIDE DEF d
  <2>4. TabKnows(d)
    BY <1>1, <2>2, ClosedKnows DEF TabKnows
  <2> QED BY <1>1, <2>1, <2>3, <2>4, InformedStep
<1>4. draft.status = "active" => TabKnows(OpenRow)
  <2> SUFFICES ASSUME draft.status = "active" PROVE TabKnows(OpenRow)
    OBVIOUS
  <2>1. /\ OpenRow.rev = draft.rev /\ OpenRow.copy = NoCopy /\ OpenRow.saved = draft.content /\ OpenRow.call = NoCall
    BY <1>1, OpenRowType
  <2>2. Known(draft.rev, draft.content)
    BY <1>1, RowTypes DEF Known, Behind
  <2> QED BY <1>1, <2>1, <2>2, ClosedKnows DEF TabKnows, Known
<1>5. tab[t].copy # NoCopy => TabKnows(OpenCopy(tab[t].copy))
  BY <1>1, OpenCopyType, ClosedKnows DEF TabKnows
<1>6. TabKnows([Closed EXCEPT !.step = "stale"])
  <2> DEFINE d == [Closed EXCEPT !.step = "stale"]
  <2>1. d.rev = 0 /\ d.copy = NoCopy /\ d.saved = Blank /\ d.call = NoCall
    BY DEF Closed
  <2> HIDE DEF d
  <2> QED BY <1>1, <2>1, ClosedKnows DEF TabKnows
<1>7. CASE Resumed(t)
  <2>1. PICK d \in Composers : TabKnows(d) /\ tab' = [tab EXCEPT ![t] = d]
    BY <1>1, <1>4, <1>5, <1>6, <1>7, ResumedCases, OpenRowType, OpenCopyType, StaleType, CloseType, ClosedKnows
  <2> QED BY <1>1, <1>7, <2>1, InformedStep DEF Resumed
<1>8. CASE ReopenSaved(t)
  <2>1. PICK d \in Composers : TabKnows(d) /\ tab' = [tab EXCEPT ![t] = d] /\ backup' \in {backup, NoCopy}
    BY <1>1, <1>4, <1>8, OpenRowType, CloseType, ClosedKnows DEF ReopenSaved
  <2> QED BY <1>1, <2>1, ClosedKnows, InformedStep
<1>9. CASE Drop(t)
  <2>1. CASE draft.status = "active"
    <3> DEFINE d == [Closed EXCEPT !.step = "dropping", !.rev = draft.rev]
    <3>1. d \in Composers
      BY <1>1, RowTypes, SmallTypes DEF Composers
    <3>2. d.rev = draft.rev /\ d.copy = NoCopy /\ d.saved = Blank /\ d.call = NoCall
      BY DEF Closed
    <3>3. tab' = [tab EXCEPT ![t] = d] /\ UNCHANGED backup
      BY <1>9, <2>1 DEF Drop
    <3> HIDE DEF d
    <3>4. Behind(draft.rev)
      BY <1>1, <2>1, RowTypes DEF Behind, Gone
    <3>5. TabKnows(d)
      BY <1>1, <3>2, <3>4, ClosedKnows DEF TabKnows
    <3> QED BY <1>1, <3>1, <3>3, <3>5, InformedStep
  <2>2. CASE draft.status # "active"
    <3>1. backup' = NoCopy /\ tab' = [tab EXCEPT ![t] = tab[t]]
      BY <1>1, <1>9, <2>2 DEF Drop, Typed
    <3>2. tab[t] \in Composers /\ TabKnows(tab[t])
      BY <1>1 DEF Typed, Informed
    <3> QED BY <1>1, <3>1, <3>2, ClosedKnows, InformedStep
  <2> QED BY <2>1, <2>2
<1> QED BY <1>3, <1>7, <1>8, <1>9

\* The steps that change the row.
LEMMA RowStep ==
  ASSUME Typed, Typed', Informed, RowMoves, strays' \subseteq strays, backup' \in {backup, NoCopy},
         NEW t \in Tabs, \A u \in Tabs \ {t} : tab'[u] = tab[u], TabKnows(tab[t])'
  PROVE  Informed'
<1>1. Behind(backup.rev)'
  <2>1. PICK rev \in Nat : rev = backup'.rev
    BY DEF Typed, Copies
  <2>2. Behind(rev)
    BY <2>1, ClosedKnows DEF Informed
  <2> QED BY <2>1, <2>2, Lasting DEF Behind
<1>2. \A r \in strays' : RequestKnows(r)'
  BY KnowledgeLasts DEF Typed, Informed
<1>3. \A u \in Tabs : TabKnows(tab[u])'
  <2> SUFFICES ASSUME NEW u \in Tabs, u # t PROVE TabKnows(tab[u])'
    OBVIOUS
  <2>1. PICK d \in Composers : d = tab'[u]
    BY DEF Typed
  <2>2. TabKnows(d)'
    BY <2>1, KnowledgeLasts DEF Typed, Informed
  <2> QED BY <2>1, <2>2 DEF TabKnows, RequestKnows, Known, Behind, SavedIn
<1> QED BY <1>1, <1>2, <1>3 DEF Informed

LEMMA DroppedInformed ==
  ASSUME Told, Typed', NEW t \in Tabs, Dropped(t)
  PROVE  Informed'
<1>1. Typed /\ Informed
  BY DEF Told, Based
<1>2. RowMoves /\ backup' \in {backup, NoCopy} /\ strays' = strays
  BY DEF Dropped, Deletable, RowMoves
<1>3. tab'[t] = Closed /\ \A u \in Tabs \ {t} : tab'[u] = tab[u]
  BY <1>1 DEF Dropped, Typed
<1>4. TabKnows(tab[t])'
  <2>1. TabKnows(Closed)'
    BY <1>1, <1>2, ClosedKnows, KnowledgeLasts, SmallTypes
  <2> QED BY <1>3, <2>1 DEF TabKnows, RequestKnows, Known, Behind, SavedIn
<1> QED BY <1>1, <1>2, <1>3, <1>4, RowStep

LEMMA ServeTabInformed ==
  ASSUME Told, Typed', NEW t \in Tabs, ServeTab(t)
  PROVE  Informed'
<1>1. Typed /\ Informed /\ Based /\ Once /\ ~Reborn /\ tab[t] \in Composers /\ TabKnows(tab[t])
  BY DEF Told, Based, Typed, Informed
<1>2. /\ tab[t].call \in Requests /\ tab[t].call.content # Blank /\ Serve(tab[t].call)
      /\ draft' \in Rows
  BY <1>1, ServedTab
<1>3. RowMoves /\ UNCHANGED <<backup, strays>>
  BY <1>1, <1>2, ServeMoves DEF ServeTab
<1>4. PICK a \in {"ok", "conflict"}, d \in Requests, c \in Composers :
        /\ a = IF Ok(tab[t].call) THEN "ok" ELSE "conflict"
        /\ d = [tab[t].call EXCEPT !.answer = a, !.got = draft']
        /\ c = [tab[t] EXCEPT !.call = d] /\ tab' = [tab EXCEPT ![t] = c]
  BY <1>1, ServedTabBy
<1>5. /\ d.answer = a /\ d.got = draft' /\ d.kind = tab[t].call.kind /\ d.rev = tab[t].call.rev
      /\ d.content = tab[t].call.content
  BY <1>2, <1>4 DEF Requests
<1>6. c.rev = tab[t].rev /\ c.copy = tab[t].copy /\ c.saved = tab[t].saved /\ c.call = d
  BY <1>1, <1>4 DEF Composers
<1>7. SavedIn(d) => draft' # Gone
  <2> SUFFICES ASSUME a = "ok", d.kind \in {"POST", "PATCH"} PROVE draft' # Gone
    BY <1>5 DEF SavedIn
  <2>1. Ok(tab[t].call)
    BY <1>4
  <2>2. CASE d.kind = "POST"
    BY <1>2, <1>5, <2>2 DEF Serve, Create, Update, Handover, Discard, Gone
  <2>3. CASE d.kind = "PATCH"
    <3>1. Writable(tab[t].call.rev) /\ draft \in DraftRow
      BY <1>1, <1>5, <2>1, <2>3 DEF Ok, Writable, Typed, Rows, Gone
    <3>2. Update(tab[t].call)
      BY <1>2, <1>5, <2>3 DEF Serve, Create, Handover, Discard
    <3>3. draft' = [draft EXCEPT !.rev = @ + 1, !.content = tab[t].call.content]
      BY <3>1, <3>2 DEF Update
    <3> QED BY <3>1, <3>3 DEF Gone, Writable, DraftRow
  <2> QED BY <2>2, <2>3
<1>8. Known(draft.rev, draft.content)'
  BY <1>2, RowTypes DEF Known, Behind, Gone
<1>9. PICK e \in Requests : e = tab[t].call /\ RequestKnows(e)
  BY <1>1, <1>2 DEF TabKnows
<1>10. RequestKnows(e)'
  BY <1>1, <1>3, <1>9, KnowledgeLasts
<1>11. RequestKnows(d)'
  BY <1>5, <1>7, <1>8, <1>9, <1>10 DEF RequestKnows, SavedIn, Known, Behind
<1>12. PICK b \in Composers : b = tab[t] /\ TabKnows(b)
  BY <1>1
<1>13. TabKnows(b)'
  BY <1>1, <1>3, <1>12, KnowledgeLasts
<1>14. TabKnows(c)'
  BY <1>6, <1>11, <1>12, <1>13 DEF TabKnows
<1>15. tab'[t] = c /\ \A u \in Tabs \ {t} : tab'[u] = tab[u]
  BY <1>1, <1>4 DEF Typed
<1>16. TabKnows(tab[t])'
  BY <1>14, <1>15 DEF TabKnows, RequestKnows, Known, Behind, SavedIn
<1> QED BY <1>1, <1>3, <1>15, <1>16, RowStep

LEMMA ServeStrayInformed ==
  ASSUME Told, Typed', ServeStray
  PROVE  Informed'
<1>1. PICK r \in strays : Serve(r) /\ strays' = strays \ {r}
  BY DEF ServeStray
<1>2. Typed /\ Informed /\ Based /\ ~Reborn /\ r \in Requests /\ UNCHANGED <<tab, backup>>
  BY DEF Told, Based, Typed, ServeStray
<1>3. RowMoves
  BY <1>1, <1>2, ServeMoves
<1>4. Behind(backup.rev)'
  <2>1. PICK rev \in Nat : rev = backup.rev
    BY <1>2 DEF Typed, Copies
  <2> QED BY <1>2, <1>3, <2>1, Lasting DEF Informed, Behind
<1>5. \A s \in strays' : RequestKnows(s)'
  BY <1>1, <1>2, <1>3, KnowledgeLasts DEF Typed, Informed
<1>6. \A u \in Tabs : TabKnows(tab[u])'
  <2> SUFFICES ASSUME NEW u \in Tabs PROVE TabKnows(tab[u])'
    OBVIOUS
  <2>1. PICK d \in Composers : d = tab[u]
    BY <1>2 DEF Typed
  <2>2. TabKnows(d)'
    BY <1>2, <1>3, <2>1, KnowledgeLasts DEF Informed
  <2> QED BY <1>2, <2>1, <2>2 DEF TabKnows, RequestKnows, Known, Behind, SavedIn
<1> QED BY <1>4, <1>5, <1>6 DEF Informed

LEMMA InformedKept ==
  ASSUME Told, [Next]_vars
  PROVE  Informed'
<1>1. Typed'
  BY TypesKept DEF Told
<1>2. CASE UNCHANGED vars
  BY <1>2 DEF vars, Told, Informed, TabKnows, RequestKnows, Known, Behind, SavedIn
<1> QED BY <1>1, <1>2, EditingInformed, ProceedInformed, SaveAnsweredInformed, EndingInformed,
           ListInformed, DroppedInformed, ServeTabInformed, ServeStrayInformed DEF Next

\* A message is made of the text that its tab showed.
LEMMA AsShownKept ==
  ASSUME Told, AsShown, [Next]_vars
  PROVE  AsShown'
<1>1. Based /\ Once /\ Typed /\ Informed
  BY DEF Told, Based
<1>2. ASSUME NEW r \in Requests, RequestKnows(r), Serve(r) PROVE AsShown'
  <2>1. CASE Handover(r) /\ Writable(r.rev)
    <3>1. draft.content = r.content
      BY <1>2, <2>1 DEF RequestKnows, Known, Writable, Handover, Gone
    <3>2. sent \in Seq([content : Contents, shown : Contents]) /\ Len(sent) = 0
      BY <1>1, <2>1 DEF Typed, Once, Writable
    <3>3. sent' = Append(sent, [content |-> draft.content, shown |-> r.content])
      BY <2>1 DEF Handover
    <3>4. \A i \in DOMAIN sent' : sent'[i] = [content |-> draft.content, shown |-> r.content]
      BY <3>2, <3>3
    <3> QED BY <3>1, <3>4 DEF AsShown
  <2>2. CASE UNCHANGED sent
    BY <2>2 DEF Told, AsShown
  <2> QED BY <1>2, <2>1, <2>2 DEF Serve, Create, Update, Handover, Discard
<1>3. ASSUME NEW t \in Tabs, ServeTab(t) PROVE AsShown'
  <2>1. tab[t].call \in Requests /\ RequestKnows(tab[t].call) /\ Serve(tab[t].call)
    BY <1>1, <1>3, ServedTab DEF Informed, TabKnows
  <2> QED BY <1>2, <2>1
<1>4. CASE ServeStray
  <2>1. PICK r \in strays : Serve(r)
    BY <1>4 DEF ServeStray
  <2>2. r \in Requests /\ RequestKnows(r)
    BY <1>1, <2>1 DEF Typed, Informed
  <2> QED BY <1>2, <2>1, <2>2
<1>5. CASE UNCHANGED sent
  BY <1>5 DEF AsShown
<1>6. ASSUME NEW t \in Tabs,
             Compose(t) \/ Edit(t) \/ Save(t) \/ Click(t) \/ Proceed(t) \/ SaveAnswered(t) \/ Answered(t)
             \/ Leave(t) \/ Crash(t) \/ Resume(t) \/ Resumed(t) \/ ReopenSaved(t) \/ Drop(t) \/ Dropped(t) \/ Lose(t)
      PROVE  UNCHANGED sent
  BY <1>6 DEF Compose, Edit, Save, Click, Proceed, SaveAnswered, Answered, Leave, Crash, Resume,
              Resumed, ReopenSaved, Drop, Dropped, Lose
<1> QED BY <1>3, <1>4, <1>5, <1>6 DEF Next, vars

-----------------------------------------------------------------------------
(* What the steps do to the tabs, the copy and the requests under way *)

Others(t) == tab' \in [Tabs -> Composers] /\ \A u \in Tabs \ {t} : tab'[u] = tab[u]

\* A text that somebody asks the server to write is in the recovery copy, unless it is large.
CopyOf(c) == IF c.latest \in Large THEN NoCopy ELSE [content |-> c.latest, rev |-> c.rev, seen |-> c.seen]
IsSave(r, c) ==
  /\ r.kind = IF c.rev > 0 THEN "PATCH" ELSE "POST"
  /\ r.rev = c.rev /\ r.content = c.latest /\ r.seen = c.seen /\ r.answer = "none" /\ r.got = Gone
\* What stays of a composer.
Like(c, d) == c.step = d.step /\ c.latest = d.latest /\ c.seen = d.seen /\ c.copy = d.copy

LEMMA PendingFrom ==
  ASSUME NEW t \in Tabs, NEW X, Others(t), strays' \subseteq strays \cup X,
         Waiting(tab'[t].call) => tab'[t].call \in Pending \cup X
  PROVE  Pending' \subseteq Pending \cup X
<1> SUFFICES ASSUME NEW r \in Pending' PROVE r \in Pending \cup X
  OBVIOUS
<1>1. CASE r \in strays'
  BY <1>1 DEF Pending
<1>2. CASE r \notin strays'
  <2>1. PICK u \in Tabs : r = tab'[u].call /\ Waiting(r)
    BY <1>2 DEF Pending, Waiting
  <2>2. CASE u = t
    BY <2>1, <2>2 DEF Waiting
  <2>3. CASE u # t
    BY <2>1, <2>3 DEF Others, Pending, Waiting
  <2> QED BY <2>2, <2>3
<1> QED BY <1>1, <1>2

LEMMA PendingShrinks ==
  ASSUME NEW t \in Tabs, Others(t), strays' \subseteq strays,
         Waiting(tab'[t].call) => tab'[t].call \in Pending
  PROVE  Pending' \subseteq Pending
<1>1. strays' \subseteq strays \cup {} /\ (Waiting(tab'[t].call) => tab'[t].call \in Pending \cup {})
  OBVIOUS
<1> QED BY <1>1, PendingFrom

LEMMA NotWaiting == ~Waiting(NoCall)
BY DEF Waiting, NoCall

LEMMA PendingHas ==
  /\ \A r \in strays : r \in Pending
  /\ \A t \in Tabs : Waiting(tab[t].call) => tab[t].call \in Pending
BY DEF Pending, Waiting

LEMMA BackupOfUnsaved ==
  ASSUME NEW c, Meaningful(c), c.saved # c.latest, ~c.stopped
  PROVE  Backup(c) = CopyOf(c)
BY DEF Backup, CopyOf

LEMMA SaveRequestIs ==
  ASSUME NEW c \in Composers
  PROVE  IsSave(SaveRequest(c), c)
BY SaveRequestType DEF IsSave

LEMMA ComposeDoes ==
  ASSUME Based, Typed', NEW t \in Tabs, Compose(t)
  PROVE  /\ Others(t) /\ UNCHANGED <<draft, dropped, backup, strays, alone, kept>>
         /\ budget.opens = MaxOpens /\ budget'.edits = budget.edits /\ budget'.opens # MaxOpens
         /\ tab'[t].step = "edit" /\ tab'[t].latest = Blank /\ tab'[t].saved = Blank
         /\ tab'[t].rev = 0 /\ tab'[t].call = NoCall /\ tab'[t].seen = {} /\ tab'[t].copy = NoCopy
         /\ tab'[t].wish = "none"
         /\ Pending' \subseteq Pending
<1>1. tab \in [Tabs -> Composers] /\ tab' \in [Tabs -> Composers] /\ budget.opens \in Int
  BY DEF Based, Typed, DraftAssumption
<1>2. tab'[t] = [Closed EXCEPT !.step = "edit"] /\ Others(t)
  BY <1>1 DEF Compose, Others
<1>3. /\ tab'[t].step = "edit" /\ tab'[t].latest = Blank /\ tab'[t].saved = Blank
      /\ tab'[t].rev = 0 /\ tab'[t].call = NoCall /\ tab'[t].seen = {} /\ tab'[t].copy = NoCopy
      /\ tab'[t].wish = "none"
  BY <1>2 DEF Closed
<1>4. Pending' \subseteq Pending
  BY <1>2, <1>3, PendingShrinks, NotWaiting DEF Compose
<1>5. budget.opens = MaxOpens /\ budget'.edits = budget.edits /\ budget'.opens # MaxOpens
  BY <1>1, SpendType DEF Compose, Based, Typed
<1> QED BY <1>2, <1>3, <1>4, <1>5 DEF Compose

LEMMA EditDoes ==
  ASSUME Based, Typed', NEW t \in Tabs, Edit(t)
  PROVE  /\ Others(t) /\ UNCHANGED <<draft, dropped, strays, alone>>
         /\ budget'.opens = budget.opens
         /\ Used \in Nat /\ Used' = Used + 1
         /\ kept' = (IF tab[t].stopped THEN Blank ELSE Used + 1)
         /\ tab[t].step = "edit" /\ tab[t].wish # "send"
         /\ tab'[t].step = "edit" /\ tab'[t].wish = tab[t].wish /\ tab'[t].stopped = tab[t].stopped
         /\ tab[t].wish = "discard" => tab[t].stopped
         /\ tab'[t].latest = Used + 1 /\ tab'[t].seen = tab[t].seen \cup {Used + 1}
         /\ tab'[t].saved = tab[t].saved /\ tab'[t].rev = tab[t].rev /\ tab'[t].conflict = tab[t].conflict
         /\ tab'[t].copy = tab[t].copy /\ tab'[t].call = tab[t].call
         /\ ~tab[t].stopped /\ tab[t].saved # Used + 1 => backup' = CopyOf(tab'[t])
         /\ backup' \in {backup, CopyOf(tab'[t])}
         /\ Pending' \subseteq Pending
<1> DEFINE n == MaxEdits - budget.edits + 1
           c == [tab[t] EXCEPT !.latest = n, !.seen = @ \cup {n}]
<1>1. tab \in [Tabs -> Composers] /\ tab' \in [Tabs -> Composers] /\ tab[t] \in Composers /\ WholeTab(tab[t])
  BY DEF Based, Typed, Whole
<1>2. tab'[t] = c /\ Others(t) /\ backup' = Backup(c)
  BY <1>1 DEF Edit, Others
<1>3. /\ budget.edits \in 0..MaxEdits /\ budget'.edits = budget.edits - 1 /\ budget'.opens = budget.opens
      /\ MaxEdits \in Nat
  BY SpendType DEF Edit, Based, Typed, DraftAssumption
<1>4. /\ Used \in Nat /\ Used' = Used + 1 /\ n = Used + 1
  BY <1>3 DEF Used
<1>5. /\ tab[t].step = "edit" /\ tab[t].wish # "send" /\ (tab[t].wish = "discard" => tab[t].stopped)
  BY <1>1 DEF Edit, Editing, Editable, WholeTab
<1>6. /\ tab'[t].step = "edit" /\ tab'[t].wish = tab[t].wish /\ tab'[t].stopped = tab[t].stopped
      /\ tab'[t].latest = n /\ tab'[t].seen = tab[t].seen \cup {n}
      /\ tab'[t].saved = tab[t].saved /\ tab'[t].rev = tab[t].rev /\ tab'[t].conflict = tab[t].conflict
      /\ tab'[t].copy = tab[t].copy /\ tab'[t].call = tab[t].call
  BY <1>1, <1>2, <1>5 DEF Composers
<1>7. /\ ~tab[t].stopped /\ tab[t].saved # n => backup' = CopyOf(tab'[t])
      /\ backup' \in {backup, CopyOf(tab'[t])}
  <2>1. Meaningful(tab'[t])
    BY <1>4, <1>6 DEF Meaningful, Blank
  <2> HIDE DEF c, n
  <2>2. backup' = Backup(tab'[t])
    BY <1>2
  <2>3. ~tab[t].stopped /\ tab[t].saved # n => backup' = CopyOf(tab'[t])
    BY <1>6, <2>1, <2>2, BackupOfUnsaved
  <2>4. backup' \in {backup, CopyOf(tab'[t])}
    BY <2>1, <2>2 DEF Backup, CopyOf
  <2> QED BY <2>3, <2>4
<1>8. Pending' \subseteq Pending
  <2>1. Waiting(tab'[t].call) => tab'[t].call \in Pending
    BY <1>6, PendingHas
  <2> QED BY <1>2, <2>1, PendingShrinks DEF Edit
<1>9. kept' = IF tab[t].stopped THEN Blank ELSE n
  <2>1. c.stopped = tab[t].stopped
    BY <1>1 DEF Composers
  <2> QED BY <2>1 DEF Edit
<1> HIDE DEF c, n
<1> QED BY <1>2, <1>3, <1>4, <1>5, <1>6, <1>7, <1>8, <1>9 DEF Edit

\* A composer asks for a save, at once or after what was clicked, or goes round again.
Asks(t) ==
  /\ IsSave(tab'[t].call, tab'[t]) /\ backup' = CopyOf(tab'[t])
  /\ ~tab'[t].stopped /\ tab'[t].saved # tab'[t].latest /\ tab'[t].latest # Blank
  /\ tab'[t].step = "edit"
  /\ Pending' \subseteq Pending \cup {tab'[t].call}

LEMMA SaveDoes ==
  ASSUME Based, Typed', NEW t \in Tabs, Save(t)
  PROVE  /\ Others(t) /\ UNCHANGED <<draft, dropped, strays, alone, budget>>
         /\ tab[t].step = "edit" /\ Like(tab'[t], tab[t]) /\ Asks(t)
         /\ tab'[t].rev = tab[t].rev /\ tab'[t].saved = tab[t].saved /\ tab'[t].conflict = tab[t].conflict
         /\ tab'[t].wish = tab[t].wish /\ tab[t].wish = "none" /\ kept' = tab[t].latest
<1> DEFINE c == [tab[t] EXCEPT !.call = SaveRequest(tab[t])]
<1>1. /\ tab \in [Tabs -> Composers] /\ tab' \in [Tabs -> Composers] /\ tab[t] \in Composers
      /\ tab[t].step = "edit" /\ Unsaved(tab[t]) /\ WholeTab(tab[t])
  BY DEF Based, Typed, Whole, Save, Idle, Editing
<1>2. tab'[t] = c /\ Others(t) /\ backup' = Backup(tab[t])
  BY <1>1 DEF Save, Others
<1>3. /\ Like(tab'[t], tab[t]) /\ tab'[t].rev = tab[t].rev /\ tab'[t].saved = tab[t].saved
      /\ tab'[t].stopped = tab[t].stopped
      /\ tab'[t].conflict = tab[t].conflict /\ tab'[t].call = SaveRequest(tab[t]) /\ tab'[t].wish = tab[t].wish
  BY <1>1, <1>2 DEF Composers, Like
<1>4. backup' = CopyOf(tab'[t]) /\ IsSave(tab'[t].call, tab'[t])
  BY <1>1, <1>2, <1>3, BackupOfUnsaved, SaveRequestIs DEF Unsaved, CopyOf, Like, IsSave
<1>5. Pending' \subseteq Pending \cup {tab'[t].call}
  BY <1>2, PendingFrom DEF Save
<1>6. tab[t].latest # Blank /\ tab[t].wish = "none" /\ kept' = tab[t].latest
  BY <1>1 DEF Unsaved, Meaningful, WholeTab, Save, Idle
<1> HIDE DEF c
<1> QED BY <1>1, <1>2, <1>3, <1>4, <1>5, <1>6 DEF Save, Asks, Unsaved, Like

LEMMA ClickDoes ==
  ASSUME Based, Typed', NEW t \in Tabs, Click(t)
  PROVE  /\ Others(t) /\ UNCHANGED <<draft, dropped, strays, alone, budget>>
         /\ tab[t].step = "edit" /\ Like(tab'[t], tab[t])
         /\ tab'[t].rev = tab[t].rev /\ tab'[t].saved = tab[t].saved /\ tab'[t].conflict = tab[t].conflict
         /\ kept' = IF tab'[t].wish = "discard" THEN Blank ELSE kept
         /\ \/ Asks(t)
            \/ tab'[t].call = tab[t].call /\ UNCHANGED backup /\ Pending' \subseteq Pending
<1>1. PICK wish \in {"send", "discard", "close"} :
        /\ wish = "send" => tab[t].latest # Blank
        /\ LET c == [tab[t] EXCEPT !.wish = wish, !.stopped = wish = "discard"]
               saves == c.call = NoCall /\ Unsaved(c)
           IN /\ tab' = [tab EXCEPT ![t] = IF saves THEN [c EXCEPT !.call = SaveRequest(c)] ELSE c]
              /\ backup' = IF saves THEN Backup(c) ELSE backup
        /\ kept' = IF wish = "discard" THEN Blank ELSE kept
  BY DEF Click
<1> DEFINE c == [tab[t] EXCEPT !.wish = wish, !.stopped = wish = "discard"]
           saves == c.call = NoCall /\ Unsaved(c)
           d == IF saves THEN [c EXCEPT !.call = SaveRequest(c)] ELSE c
<1>2. /\ tab \in [Tabs -> Composers] /\ tab' \in [Tabs -> Composers] /\ tab[t] \in Composers
      /\ tab[t].step = "edit" /\ WholeTab(tab[t])
  BY DEF Based, Typed, Whole, Click, Editing
<1>3. /\ c \in Composers
      /\ c.step = tab[t].step /\ c.latest = tab[t].latest /\ c.seen = tab[t].seen /\ c.copy = tab[t].copy
      /\ c.rev = tab[t].rev /\ c.saved = tab[t].saved /\ c.conflict = tab[t].conflict /\ c.call = tab[t].call
      /\ c.wish = wish
  BY <1>1, <1>2 DEF Composers
<1>4. tab'[t] = d /\ Others(t) /\ backup' = IF saves THEN Backup(c) ELSE backup
  BY <1>1, <1>2 DEF Others
<1> HIDE DEF c
<1>5. Like(d, c) /\ d.rev = c.rev /\ d.saved = c.saved /\ d.conflict = c.conflict /\ d.wish = c.wish
      /\ d.stopped = c.stopped /\ (saves => d.call = SaveRequest(c)) /\ (~saves => d.call = c.call)
  BY <1>3 DEF Composers, Like
<1>6. CASE saves
  <2> HIDE DEF d
  <2>1. c.latest # Blank
    BY <1>2, <1>3, <1>6 DEF Unsaved, Meaningful, WholeTab
  <2>2. backup' = CopyOf(tab'[t]) /\ IsSave(tab'[t].call, tab'[t])
    BY <1>3, <1>4, <1>5, <1>6, BackupOfUnsaved, SaveRequestIs DEF Unsaved, CopyOf, Like, IsSave
  <2>3. Pending' \subseteq Pending \cup {tab'[t].call}
    BY <1>4, PendingFrom DEF Click
  <2>4. Asks(t)
    BY <1>2, <1>3, <1>4, <1>5, <1>6, <2>1, <2>2, <2>3 DEF Asks, Unsaved, Like
  <2> QED BY <1>1, <1>2, <1>3, <1>4, <1>5, <2>4 DEF Click, Like
<1>7. CASE ~saves
  <2> HIDE DEF d
  <2>1. tab'[t].call = tab[t].call
    BY <1>3, <1>4, <1>5, <1>7
  <2>2. Pending' \subseteq Pending
    BY <1>4, <2>1, PendingShrinks, PendingHas DEF Click
  <2> QED BY <1>1, <1>2, <1>3, <1>4, <1>5, <1>7, <2>1, <2>2 DEF Click, Like
<1> QED BY <1>6, <1>7

LEMMA ProceedDoes ==
  ASSUME Based, Typed', NEW t \in Tabs, Proceed(t)
  PROVE  /\ Others(t) /\ UNCHANGED <<draft, dropped, strays, alone, budget>>
         /\ tab[t].step = "edit" /\ tab[t].call = NoCall
         /\ \/ tab'[t] = Closed /\ kept' = Blank /\ backup' = NoCopy /\ Pending' \subseteq Pending
            \/ /\ tab'[t] = Closed /\ UNCHANGED kept /\ backup' = Backup(tab[t]) /\ Pending' \subseteq Pending
               /\ tab[t].wish = "close"
            \/ /\ Like(tab'[t], tab[t]) /\ tab'[t].rev = tab[t].rev /\ tab'[t].saved = tab[t].saved
               /\ tab'[t].conflict = tab[t].conflict /\ UNCHANGED <<kept, backup>>
               /\ \/ tab'[t].call = NoCall /\ tab'[t].wish = "none" /\ Pending' \subseteq Pending
                  \/ /\ tab'[t].wish = tab[t].wish /\ tab[t].rev > 0
                     /\ tab'[t].call.rev = tab[t].rev /\ tab'[t].call.content = tab[t].latest
                     /\ tab'[t].call.got = Gone
                     /\ tab'[t].call.answer = "none" /\ Pending' \subseteq Pending \cup {tab'[t].call}
                     /\ \/ tab'[t].call.kind = "SEND" /\ tab[t].wish = "send"
                        \/ tab'[t].call.kind = "DELETE" /\ tab[t].wish = "discard"
<1> DEFINE c == tab[t]
<1>1. /\ tab \in [Tabs -> Composers] /\ tab' \in [Tabs -> Composers] /\ tab[t] \in Composers
      /\ tab[t].step = "edit" /\ WholeTab(tab[t]) /\ tab[t].call = NoCall
      /\ UNCHANGED <<draft, dropped, strays, alone, budget>> /\ c.rev \in Nat
  BY DEF Based, Typed, Whole, Proceed, Editing, Composers
<1>2. CASE /\ c.wish = "send" /\ UNCHANGED <<backup, kept>>
           /\ tab' = [tab EXCEPT ![t] = IF c.rev = 0 \/ c.conflict THEN [c EXCEPT !.wish = "none"]
                                        ELSE [c EXCEPT !.call = Request(c, "SEND")]]
  <2>1. Others(t)
    BY <1>1, <1>2 DEF Others
  <2>2. CASE c.rev = 0 \/ c.conflict
    <3>1. tab'[t] = [c EXCEPT !.wish = "none"]
      BY <1>1, <1>2, <2>2
    <3>2. /\ Like(tab'[t], c) /\ tab'[t].rev = c.rev /\ tab'[t].saved = c.saved /\ tab'[t].conflict = c.conflict
          /\ tab'[t].call = NoCall /\ tab'[t].wish = "none"
      BY <1>1, <3>1 DEF Composers, Like
    <3>3. Pending' \subseteq Pending
      BY <1>1, <2>1, <3>2, PendingShrinks, NotWaiting
    <3> QED BY <1>1, <1>2, <2>1, <3>2, <3>3
  <2>3. CASE ~(c.rev = 0 \/ c.conflict)
    <3>1. tab'[t] = [c EXCEPT !.call = Request(c, "SEND")]
      BY <1>1, <1>2, <2>3
    <3>2. /\ Like(tab'[t], c) /\ tab'[t].rev = c.rev /\ tab'[t].saved = c.saved /\ tab'[t].conflict = c.conflict
          /\ tab'[t].call = Request(c, "SEND") /\ tab'[t].wish = c.wish /\ c.rev > 0
      BY <1>1, <2>3, <3>1 DEF Composers, Like
    <3>3. Pending' \subseteq Pending \cup {tab'[t].call}
      BY <1>1, <2>1, PendingFrom
    <3> QED BY <1>1, <1>2, <2>1, <3>2, <3>3, RequestType
  <2> QED BY <2>2, <2>3
<1>3. CASE /\ c.wish = "discard" /\ c.rev > 0 /\ UNCHANGED <<backup, kept>>
           /\ tab' = [tab EXCEPT ![t].call = Request(c, "DELETE")]
  <2>1. tab'[t] = [c EXCEPT !.call = Request(c, "DELETE")] /\ Others(t)
    BY <1>1, <1>3 DEF Others
  <2>2. /\ Like(tab'[t], c) /\ tab'[t].rev = c.rev /\ tab'[t].saved = c.saved /\ tab'[t].conflict = c.conflict
        /\ tab'[t].call = Request(c, "DELETE") /\ tab'[t].wish = c.wish
    BY <1>1, <2>1 DEF Composers, Like
  <2>3. Pending' \subseteq Pending \cup {tab'[t].call}
    BY <1>1, <2>1, PendingFrom
  <2> QED BY <1>1, <1>3, <2>1, <2>2, <2>3, RequestType
<1>4. CASE c.wish = "discard" /\ c.rev = 0 /\ tab' = [tab EXCEPT ![t] = Closed] /\ backup' = NoCopy /\ kept' = Blank
  <2>1. Others(t) /\ tab'[t] = Closed
    BY <1>1, <1>4 DEF Others
  <2>2. Pending' \subseteq Pending
    BY <1>1, <2>1, PendingShrinks, NotWaiting, CloseType
  <2> QED BY <1>1, <1>4, <2>1, <2>2
<1>5. CASE c.wish = "close" /\ tab' = [tab EXCEPT ![t] = Closed] /\ backup' = Backup(c) /\ UNCHANGED kept
  <2>1. Others(t) /\ tab'[t] = Closed
    BY <1>1, <1>5 DEF Others
  <2>2. Pending' \subseteq Pending
    BY <1>1, <2>1, PendingShrinks, NotWaiting, CloseType
  <2> QED BY <1>1, <1>5, <2>1, <2>2
<1> QED BY <1>2, <1>3, <1>4, <1>5 DEF Proceed

LEMMA SaveAnsweredDoes ==
  ASSUME Based, Typed', NEW t \in Tabs, SaveAnswered(t)
  PROVE  /\ Others(t) /\ UNCHANGED <<draft, dropped, strays, alone, kept, budget>>
         /\ tab[t].step = "edit" /\ Saving(tab[t]) /\ Like(tab'[t], tab[t])
         /\ \/ /\ tab'[t].rev = tab[t].rev /\ tab'[t].saved = tab[t].saved /\ UNCHANGED backup
               /\ tab'[t].conflict \in {tab[t].conflict, TRUE} /\ tab'[t].wish \in {tab[t].wish, "none"}
               /\ tab'[t].call = NoCall /\ Pending' \subseteq Pending
            \/ /\ SavedIn(tab[t].call) /\ ~Foreign(tab[t])
               /\ tab'[t].rev = tab[t].call.got.rev /\ tab'[t].conflict = tab[t].conflict
               /\ tab'[t].saved = IF Same(tab[t]) THEN tab[t].call.content ELSE Blank
               /\ tab'[t].wish = tab[t].wish
               /\ \/ Asks(t)
                  \/ /\ tab[t].stopped \/ tab'[t].saved = tab[t].latest
                     /\ tab'[t].call = NoCall /\ backup' = NoCopy /\ Pending' \subseteq Pending
<1> DEFINE c == tab[t]
           adopted == [c EXCEPT !.rev = c.call.got.rev, !.saved = IF Same(c) THEN c.call.content ELSE Blank]
           again == ~c.stopped /\ adopted.saved # c.latest
<1>1. /\ tab \in [Tabs -> Composers] /\ tab' \in [Tabs -> Composers] /\ tab[t] \in Composers
      /\ tab[t].step = "edit" /\ WholeTab(tab[t]) /\ Saving(c) /\ c.latest # Blank
      /\ UNCHANGED <<draft, dropped, strays, alone, kept, budget>>
  BY DEF Based, Typed, Whole, WholeTab, SaveAnswered, Editing, Saving
<1>2. ASSUME NEW d \in {GiveUp(c), [GiveUp(c) EXCEPT !.conflict = TRUE]}, tab' = [tab EXCEPT ![t] = d], UNCHANGED backup
      PROVE  /\ Others(t) /\ Like(tab'[t], c) /\ tab'[t].rev = c.rev /\ tab'[t].saved = c.saved
             /\ tab'[t].conflict \in {c.conflict, TRUE} /\ tab'[t].wish \in {c.wish, "none"}
             /\ tab'[t].call = NoCall /\ Pending' \subseteq Pending
  <2>1. tab'[t] = d /\ Others(t)
    BY <1>1, <1>2 DEF Others
  <2>2. /\ Like(tab'[t], c) /\ tab'[t].rev = c.rev /\ tab'[t].saved = c.saved /\ tab'[t].call = NoCall
        /\ tab'[t].conflict \in {c.conflict, TRUE} /\ tab'[t].wish \in {c.wish, "none"}
    <3>1. /\ c \in Composers
          /\ \/ tab'[t] = GiveUp(c)
             \/ tab'[t] = [GiveUp(c) EXCEPT !.conflict = TRUE]
      BY <1>1, <1>2, <2>1
    <3> HIDE DEF c
    <3>2. /\ tab'[t].call = NoCall /\ tab'[t].rev = c.rev /\ tab'[t].saved = c.saved
          /\ tab'[t].conflict \in {c.conflict, TRUE} /\ tab'[t].wish \in {c.wish, "none"}
      <4>1. CASE tab'[t] = GiveUp(c)
        BY <3>1, <4>1 DEF GiveUp, Composers
      <4>2. CASE tab'[t] = [GiveUp(c) EXCEPT !.conflict = TRUE]
        BY <3>1, <4>2 DEF GiveUp, Composers
      <4> QED BY <3>1, <4>1, <4>2
    <3>3. Like(tab'[t], c)
      <4>1. CASE tab'[t] = GiveUp(c)
        BY <3>1, <4>1 DEF GiveUp, Composers, Like
      <4>2. CASE tab'[t] = [GiveUp(c) EXCEPT !.conflict = TRUE]
        BY <3>1, <4>2 DEF GiveUp, Composers, Like
      <4> QED BY <3>1, <4>1, <4>2
    <3> QED BY <3>2, <3>3
  <2> QED BY <1>1, <2>1, <2>2, PendingShrinks, NotWaiting
<1>3. CASE /\ c.call.answer = "ok" /\ ~Foreign(c)
           /\ tab' = [tab EXCEPT ![t] = [adopted EXCEPT !.call = IF again THEN SaveRequest(adopted) ELSE NoCall]]
           /\ backup' = IF again THEN Backup(adopted) ELSE NoCopy
  <2>1. c.call.got.rev \in Nat /\ c.call.content \in Texts /\ Blank \in Texts
    BY <1>1, TabTypes DEF Composers, Requests, Texts
  <2>2. adopted \in Composers
    <3>1. (IF Same(c) THEN c.call.content ELSE Blank) \in Texts
      BY <2>1
    <3> QED BY <1>1, <2>1, <3>1 DEF Composers
  <2>3. /\ Like(adopted, c) /\ adopted.rev = c.call.got.rev /\ adopted.conflict = c.conflict
        /\ adopted.saved = (IF Same(c) THEN c.call.content ELSE Blank) /\ adopted.wish = c.wish
        /\ adopted.stopped = c.stopped
    BY <1>1 DEF Composers, Like
  <2> DEFINE d == [adopted EXCEPT !.call = IF again THEN SaveRequest(adopted) ELSE NoCall]
  <2>4. tab'[t] = d /\ Others(t) /\ backup' = IF again THEN Backup(adopted) ELSE NoCopy
    BY <1>1, <1>3 DEF Others
  <2>5. again <=> ~c.stopped /\ adopted.saved # c.latest
    OBVIOUS
  <2> HIDE DEF adopted, again
  <2>6. /\ Like(d, adopted) /\ d.rev = adopted.rev /\ d.saved = adopted.saved /\ d.conflict = adopted.conflict
        /\ d.wish = adopted.wish /\ d.stopped = adopted.stopped
        /\ d.call = IF again THEN SaveRequest(adopted) ELSE NoCall
    BY <2>2 DEF Composers, Like
  <2> HIDE DEF d
  <2>7. SavedIn(c.call)
    BY <1>1, <1>3 DEF SavedIn, Saving
  <2>8. CASE again
    <3>1. Meaningful(adopted) /\ adopted.saved # adopted.latest /\ ~adopted.stopped
      BY <1>1, <2>3, <2>5, <2>8 DEF Meaningful, Like
    <3>2. backup' = CopyOf(tab'[t]) /\ IsSave(tab'[t].call, tab'[t])
      BY <2>2, <2>4, <2>6, <2>8, <3>1, BackupOfUnsaved, SaveRequestIs DEF CopyOf, Like, IsSave
    <3>3. Pending' \subseteq Pending \cup {tab'[t].call}
      BY <1>1, <2>4, PendingFrom
    <3>4. Asks(t)
      BY <1>1, <2>3, <2>4, <2>6, <3>1, <3>2, <3>3 DEF Asks, Like
    <3> QED BY <1>1, <1>3, <2>3, <2>4, <2>6, <2>7, <3>4 DEF Like
  <2>9. CASE ~again
    <3>1. tab'[t].call = NoCall /\ backup' = NoCopy
      BY <2>4, <2>6, <2>9
    <3>2. Pending' \subseteq Pending
      BY <1>1, <2>4, <3>1, PendingShrinks, NotWaiting
    <3>3. c.stopped \/ tab'[t].saved = c.latest
      BY <2>4, <2>5, <2>6, <2>9
    <3> QED BY <1>1, <1>3, <2>3, <2>4, <2>6, <2>7, <3>1, <3>2, <3>3 DEF Like
  <2> QED BY <2>8, <2>9
<1>4. CASE tab' = [tab EXCEPT ![t] = GiveUp(c)] /\ UNCHANGED backup
  BY <1>1, <1>2, <1>4
<1>5. CASE tab' = [tab EXCEPT ![t] = [GiveUp(c) EXCEPT !.conflict = TRUE]] /\ UNCHANGED backup
  BY <1>1, <1>2, <1>5
<1> QED BY <1>3, <1>4, <1>5 DEF SaveAnswered

\* A tab is closed and leaves nothing.
Closes(t) == Others(t) /\ tab'[t] = Closed /\ Pending' \subseteq Pending

LEMMA ClosesBy ==
  ASSUME Based, Typed', NEW t \in Tabs, tab' = [tab EXCEPT ![t] = Closed], strays' \subseteq strays
  PROVE  Closes(t)
<1>1. Others(t) /\ tab'[t] = Closed
  BY DEF Based, Typed, Others
<1> QED BY <1>1, PendingShrinks, NotWaiting, CloseType DEF Closes

LEMMA AnsweredDoes ==
  ASSUME Based, Typed', NEW t \in Tabs, Answered(t)
  PROVE  /\ Others(t) /\ UNCHANGED <<draft, dropped, strays, alone, budget>> /\ Pending' \subseteq Pending
         /\ tab[t].step = "edit" /\ tab[t].call.kind \in {"SEND", "DELETE"}
         /\ \/ tab'[t] = Closed /\ backup' = NoCopy /\ (kept' = Blank \/ (UNCHANGED kept /\ tab[t].call.kind = "SEND"))
            \/ /\ Like(tab'[t], tab[t]) /\ tab'[t].rev = tab[t].rev /\ tab'[t].saved = tab[t].saved
               /\ tab'[t].conflict = tab[t].conflict /\ tab'[t].call = NoCall /\ tab'[t].wish = "none"
               /\ UNCHANGED <<backup, kept>>
<1> DEFINE c == tab[t]
<1>1. /\ tab \in [Tabs -> Composers] /\ tab' \in [Tabs -> Composers] /\ tab[t] \in Composers
      /\ tab[t].step = "edit" /\ c.call.kind \in {"SEND", "DELETE"}
      /\ UNCHANGED <<draft, dropped, strays, alone, budget>>
  BY DEF Based, Typed, Answered, Editing
<1>2. CASE tab' = [tab EXCEPT ![t] = Closed] /\ backup' = NoCopy /\
           kept' = IF c.call.kind = "DELETE" THEN Blank ELSE kept
  BY <1>1, <1>2, ClosesBy DEF Closes
<1>3. CASE tab' = [tab EXCEPT ![t] = GoOn(c)] /\ UNCHANGED <<backup, kept>>
  <2>1. tab'[t] = GoOn(c) /\ Others(t)
    BY <1>1, <1>3 DEF Others
  <2>2. /\ Like(tab'[t], c) /\ tab'[t].rev = c.rev /\ tab'[t].saved = c.saved
        /\ tab'[t].conflict = c.conflict /\ tab'[t].call = NoCall /\ tab'[t].wish = "none"
    BY <1>1, <2>1 DEF GoOn, Composers, Like
  <2>3. Pending' \subseteq Pending
    BY <1>1, <2>1, <2>2, PendingShrinks, NotWaiting
  <2> QED BY <1>1, <1>3, <2>1, <2>2, <2>3
<1> QED BY <1>2, <1>3 DEF Answered

\* The requests that a tab leaves in the network when it goes away.
LEMMA LeaveDoes ==
  ASSUME Based, Typed', NEW t \in Tabs, Leave(t)
  PROVE  /\ Others(t) /\ tab'[t] = Closed /\ UNCHANGED <<draft, dropped, alone, kept>>
         /\ tab[t].step = "edit" /\ backup' = Backup(tab[t])
         /\ budget'.opens = budget.opens /\ budget'.edits = budget.edits
         /\ \/ Pending' \subseteq Pending /\ strays' \subseteq Pending
            \/ \E r \in Requests :
                 /\ IsSave(r, tab[t]) /\ backup' = CopyOf(tab[t]) /\ tab[t].latest # Blank
                 /\ tab[t].saved # tab[t].latest
                 /\ Pending' \subseteq Pending \cup {r} /\ strays' \subseteq strays \cup {r}
<1> DEFINE c == tab[t]
           last == IF c.call = NoCall /\ Unsaved(c) THEN SaveRequest(c) ELSE c.call
<1>1. /\ tab \in [Tabs -> Composers] /\ tab' \in [Tabs -> Composers] /\ tab[t] \in Composers
      /\ tab[t].step = "edit" /\ UNCHANGED <<draft, dropped, alone, kept>> /\ backup' = Backup(c)
      /\ WholeTab(c) /\ tab' = [tab EXCEPT ![t] = Closed]
  BY DEF Based, Typed, Whole, Leave, Editing
<1>2. tab'[t] = Closed /\ Others(t)
  BY <1>1 DEF Others
<1>3. strays' = strays \cup (IF last.kind # "none" /\ last.answer = "none" THEN {last} ELSE {})
  BY DEF Leave
<1>4. budget'.opens = budget.opens /\ budget'.edits = budget.edits
  BY SpendType DEF Leave, Based, Typed
<1>5. ~Waiting(tab'[t].call)
  BY <1>2, CloseType, NotWaiting
<1>6. CASE c.call = NoCall /\ Unsaved(c)
  <2>1. Pending' \subseteq Pending \cup {SaveRequest(c)} /\ strays' \subseteq strays \cup {SaveRequest(c)}
    BY <1>2, <1>3, <1>5, <1>6, PendingFrom
  <2>2. IsSave(SaveRequest(c), c) /\ backup' = CopyOf(c) /\ c.latest # Blank /\ c.saved # c.latest
    BY <1>1, <1>6, SaveRequestIs, BackupOfUnsaved DEF Unsaved, Meaningful, WholeTab
  <2>3. SaveRequest(c) \in Requests
    BY <1>1, SaveRequestType
  <2> QED BY <1>1, <1>2, <1>4, <2>1, <2>2, <2>3
<1>7. CASE ~(c.call = NoCall /\ Unsaved(c))
  <2>1. strays' \subseteq strays \cup {r \in {c.call} : Waiting(r)}
    BY <1>3, <1>7 DEF Waiting
  <2>2. {r \in {c.call} : Waiting(r)} \subseteq Pending
    BY PendingHas
  <2>3. Pending' \subseteq Pending \cup {r \in {c.call} : Waiting(r)}
    BY <1>2, <1>5, <2>1, PendingFrom
  <2> QED BY <1>1, <1>2, <1>4, <2>1, <2>2, <2>3, PendingHas
<1> QED BY <1>6, <1>7

LEMMA CrashDoes ==
  ASSUME Based, Typed', NEW t \in Tabs, Crash(t)
  PROVE  /\ Closes(t) /\ UNCHANGED <<draft, dropped, backup, alone, kept>>
         /\ tab[t].step # "closed" /\ strays' \subseteq Pending
         /\ budget'.opens = budget.opens /\ budget'.edits = budget.edits
<1>1. /\ tab \in [Tabs -> Composers] /\ tab' \in [Tabs -> Composers]
      /\ tab' = [tab EXCEPT ![t] = Closed] /\ UNCHANGED <<draft, dropped, backup, alone, kept>>
      /\ tab[t].step # "closed"
  BY DEF Based, Typed, Crash
<1>2. tab'[t] = Closed /\ Others(t)
  BY <1>1 DEF Others
<1>3. strays' \subseteq strays \cup {r \in {tab[t].call} : Waiting(r)}
  BY DEF Crash, Waiting
<1>4. {r \in {tab[t].call} : Waiting(r)} \subseteq Pending
  BY PendingHas
<1>5. Pending' \subseteq Pending \cup {r \in {tab[t].call} : Waiting(r)}
  BY <1>2, <1>3, CloseType, NotWaiting, PendingFrom
<1>6. budget'.opens = budget.opens /\ budget'.edits = budget.edits
  BY SpendType DEF Crash, Based, Typed
<1> QED BY <1>1, <1>2, <1>3, <1>4, <1>5, <1>6, PendingHas DEF Closes

LEMMA ResumeDoes ==
  ASSUME Based, Typed', NEW t \in Tabs, Resume(t)
  PROVE  /\ Others(t) /\ UNCHANGED <<draft, dropped, backup, strays, kept>> /\ Pending' \subseteq Pending
         /\ tab[t].step = "closed" /\ (draft.status = "active" \/ backup # NoCopy)
         /\ backup # NoCopy /\ backup.rev = 0 => TwoTabsNew \/ ~OthersOpen(t)
         /\ alone' => alone /\ ~OthersOpen(t)
         /\ budget'.edits = budget.edits
         /\ tab'[t].step = "loading" /\ tab'[t].copy = backup /\ tab'[t].rev = 0 /\ tab'[t].call = NoCall
         /\ tab'[t].latest = Blank /\ tab'[t].saved = Blank
<1>1. /\ tab \in [Tabs -> Composers] /\ tab' \in [Tabs -> Composers]
      /\ tab' = [tab EXCEPT ![t] = [Closed EXCEPT !.step = "loading", !.copy = backup]]
  BY DEF Based, Typed, Resume
<1>2. tab'[t] = [Closed EXCEPT !.step = "loading", !.copy = backup] /\ Others(t)
  BY <1>1 DEF Others
<1>3. /\ tab'[t].step = "loading" /\ tab'[t].copy = backup /\ tab'[t].rev = 0 /\ tab'[t].call = NoCall
      /\ tab'[t].latest = Blank /\ tab'[t].saved = Blank
  BY <1>2 DEF Closed
<1>4. Pending' \subseteq Pending
  BY <1>2, <1>3, PendingShrinks, NotWaiting DEF Resume
<1>5. budget'.edits = budget.edits
  BY SpendType DEF Resume, Based, Typed
<1> QED BY <1>2, <1>3, <1>4, <1>5 DEF Resume

\* "stale" and "dropping" are no composers.
LEMMA OtherSteps ==
  /\ \A rev : LET d == [Closed EXCEPT !.step = "dropping", !.rev = rev]
              IN d.step = "dropping" /\ d.call = NoCall /\ d.latest = Blank /\ d.saved = Blank /\ d.copy = NoCopy
  /\ LET d == [Closed EXCEPT !.step = "stale"]
     IN d.step = "stale" /\ d.call = NoCall /\ d.latest = Blank /\ d.saved = Blank /\ d.copy = NoCopy
BY DEF Closed

\* A composer opened from the row, or from a recovery copy.
IsRow(c) ==
  /\ draft.status = "active" /\ c.step = "edit" /\ c.latest = draft.content /\ c.saved = draft.content
  /\ c.rev = draft.rev /\ c.rev > 0 /\ c.seen = {draft.content} /\ c.call = NoCall /\ c.copy = NoCopy /\ c.wish = "none"
IsCopy(c, k) ==
  /\ c.step = "edit" /\ c.latest = k.content /\ c.saved = Blank /\ c.latest # Blank
  /\ c.rev = k.rev /\ c.seen = k.seen /\ c.call = NoCall /\ c.copy = NoCopy /\ c.wish = "none"
IsIdle(c) ==
  /\ c.step \in {"closed", "stale"} /\ c.call = NoCall /\ c.latest = Blank /\ c.saved = Blank /\ c.copy = NoCopy
IsClosed(c) ==
  /\ c.step = "closed" /\ c.call = NoCall /\ c.latest = Blank /\ c.saved = Blank /\ c.copy = NoCopy

LEMMA ClosedIsIdle == IsClosed(Closed) /\ IsIdle(Closed)
BY DEF IsIdle, IsClosed, Closed

LEMMA RowIs == Based /\ draft.status = "active" => IsRow(OpenRow)
<1> SUFFICES ASSUME Based, draft.status = "active" PROVE IsRow(OpenRow)
  OBVIOUS
<1>1. draft \in Rows /\ draft.rev > 0
  BY RowTypes DEF Based, Typed
<1> QED BY <1>1, OpenRowType DEF IsRow

LEMMA ResumedDoes ==
  ASSUME Based, Typed', NEW t \in Tabs, Resumed(t)
  PROVE  /\ Others(t) /\ UNCHANGED <<draft, dropped, backup, strays, alone, kept, budget>>
         /\ Pending' \subseteq Pending /\ tab[t].step = "loading"
         /\ \/ IsIdle(tab'[t])
            \/ IsRow(tab'[t]) /\ tab[t].copy = NoCopy
            \/ IsCopy(tab'[t], tab[t].copy) /\ tab[t].copy # NoCopy
<1>1. /\ tab \in [Tabs -> Composers] /\ tab' \in [Tabs -> Composers] /\ tab[t].step = "loading"
      /\ UNCHANGED <<draft, dropped, backup, strays, alone, kept, budget>>
      /\ tab[t].copy \in Copies /\ WholeCopy(tab[t].copy)
  BY DEF Based, Typed, Resumed, Composers, Whole, WholeTab
<1>2. \/ tab'[t] = Closed
      \/ tab'[t] = [Closed EXCEPT !.step = "stale"]
      \/ tab'[t] = OpenRow /\ draft.status = "active" /\ tab[t].copy = NoCopy
      \/ tab'[t] = OpenCopy(tab[t].copy) /\ tab[t].copy # NoCopy
  BY <1>1, ResumedCases
<1>3. Others(t)
  BY <1>1, ResumedCases DEF Others
<1>4. \/ IsIdle(tab'[t])
      \/ IsRow(tab'[t]) /\ tab[t].copy = NoCopy
      \/ IsCopy(tab'[t], tab[t].copy) /\ tab[t].copy # NoCopy
  <2>1. IsIdle([Closed EXCEPT !.step = "stale"])
    BY OtherSteps DEF IsIdle
  <2>2. tab[t].copy # NoCopy => IsCopy(OpenCopy(tab[t].copy), tab[t].copy)
    BY <1>1, OpenCopyType DEF IsCopy, WholeCopy
  <2> QED BY <1>2, <2>1, <2>2, RowIs, ClosedIsIdle
<1>5. tab'[t].call = NoCall
  BY <1>4 DEF IsIdle, IsRow, IsCopy
<1> QED BY <1>1, <1>3, <1>4, <1>5, PendingShrinks, NotWaiting

LEMMA ReopenSavedDoes ==
  ASSUME Based, Typed', NEW t \in Tabs, ReopenSaved(t)
  PROVE  /\ Others(t) /\ UNCHANGED <<draft, dropped, strays, alone, budget>>
         /\ Pending' \subseteq Pending /\ tab[t].step = "stale"
         /\ \/ IsRow(tab'[t]) /\ backup' = NoCopy /\ kept' = Blank
            \/ tab'[t] = Closed /\ UNCHANGED <<backup, kept>>
<1>1. /\ tab \in [Tabs -> Composers] /\ tab' \in [Tabs -> Composers] /\ tab[t].step = "stale"
      /\ UNCHANGED <<draft, dropped, strays, alone, budget>>
  BY DEF Based, Typed, ReopenSaved
<1>2. CASE draft.status = "active"
  <2>1. tab'[t] = OpenRow /\ Others(t)
    BY <1>1, <1>2 DEF ReopenSaved, Others
  <2>2. IsRow(tab'[t])
    BY <1>2, <2>1, RowIs
  <2> QED BY <1>1, <1>2, <2>1, <2>2, PendingShrinks, NotWaiting DEF IsRow, ReopenSaved
<1>3. CASE draft.status # "active"
  BY <1>1, <1>3, ClosesBy DEF ReopenSaved, Closes
<1> QED BY <1>2, <1>3

LEMMA DropDoes ==
  ASSUME Based, Typed', NEW t \in Tabs, Drop(t)
  PROVE  /\ Others(t) /\ UNCHANGED <<draft, dropped, strays, alone>> /\ Pending' \subseteq Pending
         /\ tab[t].step = "closed" /\ (draft.status = "active" \/ backup # NoCopy)
         /\ budget'.edits = budget.edits
         /\ \/ /\ UNCHANGED <<backup, kept>> /\ draft.status = "active"
               /\ tab'[t].step = "dropping" /\ tab'[t].call = NoCall
               /\ tab'[t].latest = Blank /\ tab'[t].saved = Blank /\ tab'[t].copy = NoCopy
            \/ backup' = NoCopy /\ kept' = Blank /\ tab' = tab
<1>1. /\ tab \in [Tabs -> Composers] /\ tab' \in [Tabs -> Composers] /\ tab[t].step = "closed"
      /\ UNCHANGED <<draft, dropped, strays, alone>> /\ (draft.status = "active" \/ backup # NoCopy)
  BY DEF Based, Typed, Drop
<1>2. budget'.edits = budget.edits
  BY SpendType DEF Drop, Based, Typed
<1>3. CASE draft.status = "active"
  <2>1. tab'[t] = [Closed EXCEPT !.step = "dropping", !.rev = draft.rev] /\ Others(t)
    BY <1>1, <1>3 DEF Drop, Others
  <2>2. /\ tab'[t].step = "dropping" /\ tab'[t].call = NoCall
        /\ tab'[t].latest = Blank /\ tab'[t].saved = Blank /\ tab'[t].copy = NoCopy
    BY <2>1, OtherSteps
  <2> QED BY <1>1, <1>2, <1>3, <2>1, <2>2, PendingShrinks, NotWaiting DEF Drop
<1>4. CASE draft.status # "active"
  <2>1. tab' = tab /\ backup' = NoCopy /\ kept' = Blank
    BY <1>4 DEF Drop
  <2>2. Others(t)
    BY <1>1, <2>1 DEF Others
  <2> QED BY <1>1, <1>2, <2>1, <2>2, PendingShrinks, PendingHas
<1> QED BY <1>3, <1>4

LEMMA DroppedDoes ==
  ASSUME Based, Typed', NEW t \in Tabs, Dropped(t)
  PROVE  /\ Closes(t) /\ UNCHANGED <<sent, strays, alone, budget>> /\ tab[t].step = "dropping"
         /\ \/ /\ draft.status = "active" /\ draft' = Gone /\ dropped' /\ backup' = NoCopy /\ kept' = Blank
            \/ UNCHANGED <<draft, dropped, backup, kept>>
<1>1. Closes(t)
  BY ClosesBy DEF Dropped
<1> QED BY <1>1 DEF Dropped, Deletable

LEMMA LoseDoes ==
  ASSUME Based, Typed', NEW t \in Tabs, Lose(t)
  PROVE  /\ Others(t) /\ UNCHANGED <<draft, dropped, backup, strays, alone, kept>> /\ Pending' \subseteq Pending
         /\ Like(tab'[t], tab[t]) /\ tab'[t].rev = tab[t].rev /\ tab'[t].saved = tab[t].saved
         /\ tab'[t].conflict = tab[t].conflict /\ tab'[t].wish = tab[t].wish
         /\ tab'[t].call.kind = tab[t].call.kind /\ tab'[t].call.rev = tab[t].call.rev
         /\ tab'[t].call.content = tab[t].call.content /\ tab'[t].call.seen = tab[t].call.seen
         /\ tab'[t].call.got = tab[t].call.got /\ tab'[t].call.answer = "failed"
         /\ tab[t].call.kind # "none"
         /\ budget'.opens = budget.opens /\ budget'.edits = budget.edits
<1>1. /\ tab \in [Tabs -> Composers] /\ tab' \in [Tabs -> Composers] /\ tab[t] \in Composers
      /\ tab[t].call \in Requests /\ tab[t].call.kind # "none"
      /\ UNCHANGED <<draft, dropped, backup, strays, alone, kept>>
  BY DEF Based, Typed, Lose, Composers
<1> DEFINE r == [tab[t].call EXCEPT !.answer = "failed"]
<1>2. tab'[t] = [tab[t] EXCEPT !.call = r] /\ Others(t)
  BY <1>1 DEF Lose, Others
<1>3. /\ r.kind = tab[t].call.kind /\ r.rev = tab[t].call.rev /\ r.content = tab[t].call.content
      /\ r.seen = tab[t].call.seen /\ r.got = tab[t].call.got /\ r.answer = "failed"
  BY <1>1 DEF Requests
<1> HIDE DEF r
<1>4. /\ Like(tab'[t], tab[t]) /\ tab'[t].rev = tab[t].rev /\ tab'[t].saved = tab[t].saved
      /\ tab'[t].conflict = tab[t].conflict /\ tab'[t].wish = tab[t].wish /\ tab'[t].call = r
  BY <1>1, <1>2 DEF Composers, Like
<1>5. Pending' \subseteq Pending
  BY <1>1, <1>2, <1>3, <1>4, PendingShrinks DEF Waiting
<1>6. budget'.opens = budget.opens /\ budget'.edits = budget.edits
  BY SpendType DEF Lose, Based, Typed
<1> QED BY <1>1, <1>2, <1>3, <1>4, <1>5, <1>6

LEMMA ServeTabDoes ==
  ASSUME Based, Once, Typed', NEW t \in Tabs, ServeTab(t)
  PROVE  /\ Others(t) /\ UNCHANGED <<backup, strays, alone, kept, budget>> /\ Pending' \subseteq Pending
         /\ tab[t].step = "edit"
         /\ Like(tab'[t], tab[t]) /\ tab'[t].rev = tab[t].rev /\ tab'[t].saved = tab[t].saved
         /\ tab'[t].conflict = tab[t].conflict /\ tab'[t].wish = tab[t].wish
         /\ tab'[t].call.kind = tab[t].call.kind /\ tab'[t].call.rev = tab[t].call.rev
         /\ tab'[t].call.content = tab[t].call.content /\ tab'[t].call.seen = tab[t].call.seen
         /\ tab'[t].call.got = draft' /\ tab'[t].call.answer = IF Ok(tab[t].call) THEN "ok" ELSE "conflict"
         /\ tab[t].call \in Requests /\ tab[t].call \in Pending /\ Serve(tab[t].call)
         /\ tab[t].call.content # Blank
<1>1. /\ tab[t].call \in Requests /\ Serve(tab[t].call) /\ tab[t].step = "edit" /\ tab[t].call.content # Blank
      /\ Waiting(tab[t].call) /\ tab[t] \in Composers /\ tab \in [Tabs -> Composers]
      /\ tab' \in [Tabs -> Composers] /\ UNCHANGED <<backup, strays, alone, kept, budget>>
  BY ServedTab DEF Based, Typed, Waiting, ServeTab
<1>2. PICK a \in {"ok", "conflict"}, d \in Requests, c \in Composers :
        /\ a = IF Ok(tab[t].call) THEN "ok" ELSE "conflict"
        /\ d = [tab[t].call EXCEPT !.answer = a, !.got = draft']
        /\ c = [tab[t] EXCEPT !.call = d] /\ tab' = [tab EXCEPT ![t] = c]
  BY ServedTabBy
<1>3. /\ d.answer = a /\ d.got = draft' /\ d.kind = tab[t].call.kind /\ d.rev = tab[t].call.rev
      /\ d.content = tab[t].call.content /\ d.seen = tab[t].call.seen
  BY <1>1, <1>2 DEF Requests
<1>4. tab'[t] = c /\ Others(t)
  BY <1>1, <1>2 DEF Others
<1>5. /\ Like(c, tab[t]) /\ c.rev = tab[t].rev /\ c.saved = tab[t].saved
      /\ c.conflict = tab[t].conflict /\ c.wish = tab[t].wish /\ c.call = d
  BY <1>1, <1>2 DEF Composers, Like
<1>6. Pending' \subseteq Pending
  BY <1>1, <1>2, <1>3, <1>4, <1>5, PendingShrinks DEF Waiting
<1> QED BY <1>1, <1>2, <1>3, <1>4, <1>5, <1>6, PendingHas

LEMMA ServeStrayDoes ==
  ASSUME Based, ServeStray
  PROVE  /\ UNCHANGED <<tab, backup, alone, kept, budget>> /\ Pending' \subseteq Pending
         /\ strays' \subseteq strays
         /\ \E r \in strays : r \in Requests /\ r.content # Blank /\ Serve(r) /\ r \in Pending /\ strays' = strays \ {r}
<1>1. PICK r \in strays : Serve(r) /\ strays' = strays \ {r}
  BY DEF ServeStray
<1>2. r \in Requests /\ r.content # Blank /\ r \in Pending /\ UNCHANGED <<tab, backup, alone, kept, budget>>
  BY PendingHas DEF Based, Typed, Whole, ServeStray
<1>3. Pending' \subseteq Pending
  BY <1>1, <1>2 DEF Pending, Waiting
<1> QED BY <1>1, <1>2, <1>3

-----------------------------------------------------------------------------
(* 3. The last edit *)

\* Before the first composer there is nothing.
LEMMA PristineKept ==
  ASSUME Based, Once, Typed', Pristine, [Next]_vars
  PROVE  Pristine'
<1>1. budget \in [edits : 0..MaxEdits, opens : 0..MaxOpens, faults : 0..MaxFaults] /\ MaxOpens \in Nat
  BY DEF Based, Typed, DraftAssumption
<1> SUFFICES ASSUME budget'.opens = MaxOpens PROVE Pristine'
  BY DEF Pristine
<1>2. ASSUME Spend("opens") PROVE FALSE
  BY <1>1, <1>2, SpendType
<1>3. ASSUME NEW t \in Tabs,
             Edit(t) \/ Save(t) \/ Click(t) \/ Proceed(t) \/ SaveAnswered(t) \/ Answered(t) \/ Leave(t)
             \/ Crash(t) \/ Resumed(t) \/ ReopenSaved(t) \/ Dropped(t) \/ ServeTab(t) \/ Lose(t)
      PROVE  FALSE
  <2>1. budget'.opens = budget.opens
    <3>1. CASE UNCHANGED budget
      BY <3>1
    <3>2. CASE Spend("edits") \/ Spend("faults")
      BY <1>1, <3>2, SpendType
    <3> QED BY <1>3, <3>1, <3>2 DEF Edit, Save, Click, Proceed, SaveAnswered, Answered, Leave, Crash, Resumed,
                                  ReopenSaved, Dropped, ServeTab, Lose
  <2>2. tab[t] = Closed
    BY <2>1 DEF Pristine
  <2>3. tab[t].step = "closed" /\ tab[t].call.kind = "none"
    BY <2>2 DEF Closed, NoCall
  <2> QED BY <1>3, <2>3 DEF Edit, Save, Idle, Click, Proceed, SaveAnswered, Answered, Leave, Crash, Resumed,
                           ReopenSaved, Dropped, ServeTab, Lose, Editing
<1>4. ASSUME NEW t \in Tabs, Compose(t) \/ Resume(t) \/ Drop(t) PROVE FALSE
  BY <1>2, <1>4 DEF Compose, Resume, Drop
<1>5. CASE ServeStray
  BY <1>5 DEF ServeStray, Pristine
<1>6. CASE UNCHANGED vars
  BY <1>6 DEF vars, Pristine
<1> QED BY <1>3, <1>4, <1>5, <1>6 DEF Next

Ready == Based /\ Once /\ Typed' /\ Pristine
TabMoves(t) ==
  Compose(t) \/ Edit(t) \/ Save(t) \/ Click(t) \/ Proceed(t) \/ SaveAnswered(t) \/ Answered(t)
  \/ Leave(t) \/ Crash(t) \/ Resume(t) \/ Resumed(t) \/ ReopenSaved(t) \/ Drop(t) \/ Dropped(t)
  \/ ServeTab(t) \/ Lose(t)

LEMMA OtherTabsStay ==
  ASSUME Ready, NEW t \in Tabs, TabMoves(t), ~Compose(t), ~Resume(t)
  PROVE  Others(t) /\ (alone' => alone)
<1> USE DEF Ready
<1>1. CASE Edit(t) \/ Save(t) \/ Click(t) \/ Proceed(t)
  BY <1>1, EditDoes, SaveDoes, ClickDoes, ProceedDoes
<1>2. CASE SaveAnswered(t) \/ Answered(t) \/ Leave(t) \/ Crash(t)
  BY <1>2, SaveAnsweredDoes, AnsweredDoes, LeaveDoes, CrashDoes DEF Closes
<1>3. CASE Resumed(t) \/ ReopenSaved(t) \/ Drop(t) \/ Dropped(t)
  BY <1>3, ResumedDoes, ReopenSavedDoes, DropDoes, DroppedDoes DEF Closes
<1>4. CASE Lose(t) \/ ServeTab(t)
  BY <1>4, LoseDoes, ServeTabDoes
<1> QED BY <1>1, <1>2, <1>3, <1>4 DEF TabMoves

LEMMA OneOpenKept ==
  ASSUME Ready, OneOpen, [Next]_vars
  PROVE  OneOpen'
<1> USE DEF Ready
<1>1. ASSUME NEW t \in Tabs, Others(t), alone' => alone, Open(t)' => Open(t)
      PROVE  OneOpen'
  BY <1>1 DEF OneOpen, Open, Others
<1>2. ASSUME NEW t \in Tabs, TabMoves(t), ~Compose(t), ~Resume(t)
      PROVE  OneOpen'
  <2>1. Others(t) /\ (alone' => alone)
    BY <1>2, OtherTabsStay
  <2>2. Open(t)' => Open(t)
    <3>1. CASE Edit(t) \/ Save(t) \/ Click(t) \/ SaveAnswered(t) \/ Answered(t) \/ Leave(t) \/ Proceed(t)
      BY <3>1 DEF Edit, Save, Idle, Click, SaveAnswered, Answered, Leave, Proceed, Editing, Open
    <3>2. CASE Resumed(t) \/ ReopenSaved(t)
      BY <3>2 DEF Resumed, ReopenSaved, Open
    <3>3. CASE Crash(t) \/ Dropped(t)
      BY <3>3, CrashDoes, DroppedDoes, ClosedIsIdle DEF Closes, IsClosed, Open
    <3>4. CASE Drop(t)
      BY <3>4, DropDoes DEF Open
    <3>5. CASE Lose(t) \/ ServeTab(t)
      BY <3>5, LoseDoes, ServeTabDoes DEF Open, Like
    <3> QED BY <1>2, <3>1, <3>2, <3>3, <3>4, <3>5 DEF TabMoves
  <2> QED BY <1>1, <2>1, <2>2
<1>3. ASSUME NEW t \in Tabs, Compose(t) PROVE OneOpen'
  <2>1. \A u \in Tabs : ~Open(u)
    BY <1>3, ComposeDoes, ClosedIsIdle DEF Pristine, Open, IsClosed
  <2>2. Others(t)
    BY <1>3, ComposeDoes
  <2> QED BY <2>1, <2>2 DEF OneOpen, Open, Others
<1>4. ASSUME NEW t \in Tabs, Resume(t) PROVE OneOpen'
  <2>1. alone' => \A u \in Tabs \ {t} : ~Open(u)
    BY <1>4, ResumeDoes DEF OthersOpen, Open
  <2>2. Others(t)
    BY <1>4, ResumeDoes
  <2> QED BY <2>1, <2>2 DEF OneOpen, Open, Others
<1>5. CASE ServeStray \/ UNCHANGED vars
  <2>1. UNCHANGED <<tab, alone>>
    BY <1>5 DEF ServeStray, vars
  <2> QED BY <2>1 DEF OneOpen, Open
<1> QED BY <1>2, <1>3, <1>4, <1>5 DEF Next, TabMoves

LEMMA NumberedStep ==
  ASSUME Based, Typed', Numbered, NEW t \in Tabs, Others(t), Used <= Used', Within(tab'[t], Used'),
         draft'.content <= Used', backup'.content <= Used', \A r \in strays' : r.content <= Used'
  PROVE  Numbered'
<1>1. Used \in Int /\ Used' \in Int
  BY DEF Based, Typed, Used, DraftAssumption
<1>2. ASSUME NEW c \in Composers, Within(c, Used) PROVE Within(c, Used')
  <2>1. c.latest \in Int /\ c.saved \in Int /\ c.copy.content \in Int /\ c.call.content \in Int /\ c.call.got.content \in Int
    <3>1. \A x \in Texts : x \in Int
      BY DEF Texts, Contents, Blank
    <3> QED BY <3>1, RowTypes DEF Composers, Copies, Requests
  <2> QED BY <1>1, <1>2, <2>1 DEF Within
<1>3. \A u \in Tabs : Within(tab'[u], Used')
  BY <1>2 DEF Others, Numbered, Based, Typed
<1> QED BY <1>3 DEF Numbered, Within

LEMMA NumbersIn ==
  ASSUME Based, Numbered, NEW t \in Tabs
  PROVE  /\ Used \in Nat /\ Within(tab[t], Used) /\ draft.content <= Used /\ backup.content <= Used
         /\ \A r \in strays : r.content <= Used
         /\ Blank <= Used /\ NoCopy.content <= Used /\ Gone.content <= Used
         /\ Within(Closed, Used) /\ NoCall.content <= Used /\ NoCall.got.content <= Used
<1>1. Used \in Nat
  BY DEF Based, Typed, Used, DraftAssumption
<1>2. NoCopy.content = 0 /\ Gone.content = 0 /\ NoCall.content = 0 /\ NoCall.got.content = 0 /\ Blank = 0
  BY DEF NoCopy, Gone, NoCall, Blank
<1>3. Within(Closed, Used)
  BY <1>1, <1>2 DEF Within, Closed
<1> QED BY <1>1, <1>2, <1>3 DEF Numbered

\* What a request makes of the row is of its content.
LEMMA ServeContent ==
  ASSUME Based, Once, NEW r \in Requests, r.content # Blank, Serve(r)
  PROVE  draft'.content \in {draft.content, r.content, Blank}
<1>1. draft \in Rows
  BY DEF Based, Typed
<1>2. CASE Create(r)
  BY <1>2 DEF Create
<1>3. CASE Update(r)
  <2>1. CASE Writable(r.rev)
    <3>1. draft \in DraftRow
      BY <1>1, <2>1 DEF Writable, Rows, Gone
    <3> QED BY <1>3, <2>1, <3>1 DEF Update, DraftRow
  <2> QED BY <1>3, <2>1 DEF Update
<1>4. CASE Handover(r)
  <2>1. CASE Writable(r.rev)
    <3>1. draft \in DraftRow
      BY <1>1, <2>1 DEF Writable, Rows, Gone
    <3> QED BY <1>4, <2>1, <3>1 DEF Handover, DraftRow
  <2> QED BY <1>4, <2>1 DEF Handover
<1>5. CASE Discard(r)
  BY <1>5 DEF Discard, Gone
<1> QED BY <1>2, <1>3, <1>4, <1>5 DEF Serve

LEMMA NumberedKept ==
  ASSUME Ready, Numbered, [Next]_vars
  PROVE  Numbered'
<1> USE DEF Ready
<1>1. ASSUME NEW t \in Tabs, Others(t), Used' = Used, draft' = draft, Within(tab'[t], Used),
             backup' \in {backup, NoCopy, CopyOf(tab[t]), CopyOf(tab'[t]), Backup(tab[t])},
             tab'[t].latest <= Used \/ backup' # CopyOf(tab'[t]), \A r \in strays' : r.content <= Used
      PROVE  Numbered'
  <2>1. Within(tab[t], Used) /\ backup.content <= Used /\ NoCopy.content <= Used /\ draft.content <= Used
    BY NumbersIn
  <2>2. \A c : c.latest <= Used => CopyOf(c).content <= Used
    BY <2>1 DEF CopyOf
  <2>3. tab[t] \in Composers
    BY DEF Based, Typed
  <2>4. Backup(tab[t]) \in {NoCopy, backup, CopyOf(tab[t])}
    BY <2>3, BackupCases DEF CopyOf
  <2>5. backup'.content <= Used
    BY <1>1, <2>1, <2>2, <2>4 DEF Within
  <2>6. Used <= Used' /\ draft'.content <= Used' /\ backup'.content <= Used'
        /\ Within(tab'[t], Used') /\ \A r \in strays' : r.content <= Used'
    BY <1>1, <2>1, <2>5, NumbersIn
  <2> QED BY <1>1, <2>6, NumberedStep
<1>2. UNCHANGED budget \/ budget'.edits = budget.edits => Used' = Used
  BY DEF Used
<1>3. ASSUME NEW t \in Tabs, Compose(t) PROVE Numbered'
  <2>1. Within(tab'[t], Used)
    BY <1>3, ComposeDoes, NumbersIn DEF Within
  <2> QED BY <1>1, <1>2, <1>3, <2>1, ComposeDoes, NumbersIn DEF Within
<1>4. ASSUME NEW t \in Tabs, Edit(t) PROVE Numbered'
  <2>1. Within(tab[t], Used) /\ Used \in Nat /\ Used' = Used + 1 /\ tab[t].saved # Used + 1
    <3>1. Within(tab[t], Used) /\ Used \in Nat /\ Used' = Used + 1
      BY <1>4, NumbersIn, EditDoes
    <3>2. tab[t].saved \in Int
      BY DEF Based, Typed, Composers, Texts, Contents, Blank
    <3> QED BY <3>1, <3>2 DEF Within
  <2>2. tab[t].saved \in Int /\ tab[t].copy.content \in Int /\ tab[t].call.content \in Int /\ tab[t].call.got.content \in Int
    <3>1. \A x \in Texts : x \in Int
      BY DEF Texts, Contents, Blank
    <3>2. tab[t] \in Composers
      BY DEF Based, Typed
    <3> QED BY <3>1, <3>2, RowTypes DEF Composers, Copies, Requests
  <2>3. Within(tab'[t], Used')
    BY <1>4, <2>1, <2>2, EditDoes DEF Within
  <2>4. backup'.content <= Used'
    <3>1. backup' \in {backup, CopyOf(tab'[t])} /\ tab'[t].latest = Used'
      BY <1>4, <2>1, EditDoes
    <3>2. CopyOf(tab'[t]).content \in {Blank, tab'[t].latest}
      BY DEF CopyOf, NoCopy
    <3>3. backup.content \in Int /\ backup.content <= Used
      BY NumbersIn DEF Based, Typed, Copies, Texts, Contents, Blank
    <3> QED BY <2>1, <3>1, <3>2, <3>3 DEF Blank
  <2>5. draft'.content <= Used'
    <3>1. draft.content \in Int
      BY RowTypes DEF Based, Typed, Texts, Contents, Blank
    <3> QED BY <1>4, <2>1, <3>1, EditDoes, NumbersIn
  <2>6. \A r \in strays' : r.content <= Used'
    <3>1. \A r \in strays : r.content \in Int
      BY DEF Based, Typed, Requests, Texts, Contents, Blank
    <3> QED BY <1>4, <2>1, <3>1, EditDoes, NumbersIn
  <2> QED BY <1>4, <2>1, <2>3, <2>4, <2>5, <2>6, EditDoes, NumberedStep
<1>5. ASSUME NEW t \in Tabs, Save(t) \/ Click(t) \/ SaveAnswered(t) PROVE Numbered'
  <2>1. /\ Others(t) /\ Like(tab'[t], tab[t]) /\ UNCHANGED <<draft, strays, budget>>
        /\ tab'[t].saved \in {tab[t].saved, tab[t].call.content, Blank}
        /\ \/ Asks(t)
           \/ tab'[t].call \in {tab[t].call, NoCall} /\ backup' \in {backup, NoCopy}
    BY <1>5, SaveDoes, ClickDoes, SaveAnsweredDoes
  <2>2. tab'[t].latest <= Used /\ tab'[t].saved <= Used /\ tab'[t].copy.content <= Used
    BY <2>1, NumbersIn DEF Like, Within
  <2>3. tab'[t].call.content <= Used /\ tab'[t].call.got.content <= Used
    BY <2>1, <2>2, NumbersIn DEF Within, Asks, IsSave
  <2>4. backup' \in {backup, NoCopy, CopyOf(tab'[t])}
    BY <2>1 DEF Asks
  <2>5. Within(tab'[t], Used)
    BY <2>2, <2>3 DEF Within
  <2> QED BY <1>1, <1>2, <2>1, <2>2, <2>4, <2>5, NumbersIn
<1>6. ASSUME NEW t \in Tabs, Proceed(t) PROVE Numbered'
  <2>1. /\ Others(t) /\ UNCHANGED <<draft, strays, budget>> /\ backup' \in {backup, NoCopy, Backup(tab[t])}
        /\ \/ tab'[t] = Closed
           \/ /\ Like(tab'[t], tab[t]) /\ tab'[t].saved = tab[t].saved
              /\ \/ tab'[t].call = NoCall
                 \/ tab'[t].call.content = tab[t].latest /\ tab'[t].call.got = Gone
    BY <1>6, ProceedDoes
  <2>2. Within(tab'[t], Used)
    BY <2>1, NumbersIn DEF Within, Like
  <2>3. tab'[t].latest <= Used
    BY <2>2 DEF Within
  <2> QED BY <1>1, <1>2, <2>1, <2>2, <2>3, NumbersIn
<1>7. ASSUME NEW t \in Tabs, Answered(t) \/ Crash(t) \/ Leave(t) PROVE Numbered'
  <2>1. /\ Others(t) /\ UNCHANGED draft /\ budget'.edits = budget.edits
        /\ backup' \in {backup, NoCopy, Backup(tab[t])}
        /\ \/ tab'[t] = Closed
           \/ Like(tab'[t], tab[t]) /\ tab'[t].saved = tab[t].saved /\ tab'[t].call = NoCall
    BY <1>7, AnsweredDoes, CrashDoes, LeaveDoes DEF Closes
  <2>2. Within(tab'[t], Used)
    BY <2>1, NumbersIn DEF Within, Like
  <2>3. \A r \in Pending : r.content <= Used
    BY NumbersIn DEF Pending, Numbered, Within
  <2>4. \A r \in strays' : r.content <= Used
    <3>1. CASE Answered(t) \/ Crash(t)
      BY <2>3, <3>1, AnsweredDoes, CrashDoes, PendingHas
    <3>2. CASE Leave(t)
      <4>1. CASE strays' \subseteq Pending
        BY <2>3, <4>1
      <4>2. ASSUME NEW r \in Requests, IsSave(r, tab[t]), strays' \subseteq strays \cup {r}
            PROVE  \A s \in strays' : s.content <= Used
        <5>1. r.content <= Used
          BY <4>2, NumbersIn DEF IsSave, Within
        <5> QED BY <4>2, <5>1, NumbersIn
      <4> QED BY <3>2, <4>1, <4>2, LeaveDoes
    <3> QED BY <1>7, <3>1, <3>2
  <2>5. tab'[t].latest <= Used
    BY <2>2 DEF Within
  <2> QED BY <1>1, <1>2, <2>1, <2>2, <2>4, <2>5
<1>8. ASSUME NEW t \in Tabs, Resume(t) \/ Resumed(t) \/ ReopenSaved(t) \/ Drop(t) PROVE Numbered'
  <2>1. /\ Others(t) /\ UNCHANGED <<draft, strays>> /\ budget'.edits = budget.edits
        /\ backup' \in {backup, NoCopy}
    BY <1>8, ResumeDoes, ResumedDoes, ReopenSavedDoes, DropDoes
  <2>2. Within(tab'[t], Used)
    <3>1. CASE Resume(t)
      BY <3>1, ResumeDoes, NumbersIn DEF Within
    <3>2. CASE Resumed(t)
      BY <3>2, ResumedDoes, NumbersIn DEF Within, IsIdle, IsRow, IsCopy
    <3>3. CASE ReopenSaved(t)
      BY <3>3, ReopenSavedDoes, NumbersIn DEF Within, IsRow
    <3>4. CASE Drop(t)
      BY <3>4, DropDoes, NumbersIn DEF Within
    <3> QED BY <1>8, <3>1, <3>2, <3>3, <3>4
  <2>3. tab'[t].latest <= Used
    BY <2>2 DEF Within
  <2> QED BY <1>1, <1>2, <2>1, <2>2, <2>3, NumbersIn
<1>9. ASSUME NEW t \in Tabs, Dropped(t) PROVE Numbered'
  <2>1. /\ Others(t) /\ tab'[t] = Closed /\ UNCHANGED <<strays, budget>>
        /\ draft' \in {draft, Gone} /\ backup' \in {backup, NoCopy}
    BY <1>9, DroppedDoes DEF Closes
  <2> QED BY <1>2, <2>1, NumberedStep, NumbersIn
<1>10. ASSUME NEW t \in Tabs, Lose(t) \/ ServeTab(t) PROVE Numbered'
  <2>1. /\ Others(t) /\ UNCHANGED <<strays, backup>> /\ budget'.edits = budget.edits
        /\ Like(tab'[t], tab[t]) /\ tab'[t].saved = tab[t].saved
        /\ tab'[t].call.content = tab[t].call.content
        /\ draft'.content \in {draft.content, tab[t].call.content, Blank}
        /\ tab'[t].call.got \in {tab[t].call.got, draft'}
    BY <1>10, LoseDoes, ServeTabDoes, ServeContent
  <2>2. draft'.content <= Used
    BY <2>1, NumbersIn DEF Within
  <2>3. Within(tab'[t], Used)
    BY <2>1, <2>2, NumbersIn DEF Within, Like
  <2> QED BY <1>2, <2>1, <2>2, <2>3, NumberedStep, NumbersIn
<1>11. CASE ServeStray
  <2>1. PICK r \in strays : r \in Requests /\ r.content # Blank /\ Serve(r)
    BY <1>11, ServeStrayDoes
  <2>2. draft'.content \in {draft.content, r.content, Blank}
    BY <2>1, ServeContent
  <2>3. UNCHANGED <<tab, backup, budget>> /\ strays' \subseteq strays
    BY <1>11, ServeStrayDoes
  <2>4. Used' = Used /\ Used \in Nat
    BY <2>3 DEF Used, Based, Typed, DraftAssumption
  <2>5. draft'.content <= Used
    BY <2>2, <2>4 DEF Numbered, Blank
  <2> QED BY <2>3, <2>4, <2>5 DEF Numbered
<1>12. CASE UNCHANGED vars
  BY <1>12 DEF vars, Numbered, Used, Within
<1> QED BY <1>3, <1>4, <1>5, <1>6, <1>7, <1>8, <1>9, <1>10, <1>11, <1>12 DEF Next

\* With one open tab, what that tab does to the recovery copy concerns no other.
LEMMA OtherTabsClosed ==
  ASSUME OneOpen, alone, NEW t \in Tabs, Open(t), NEW u \in Tabs \ {t}
  PROVE  tab[u].step \notin {"edit", "loading", "stale"}
BY DEF OneOpen, Open

LEMMA LearnedStep ==
  ASSUME Learned, OneOpen, NEW t \in Tabs, Others(t), alone' => alone,
         backup' \in {backup, NoCopy} \/ Open(t), alone => TabLearned(tab[t])'
  PROVE  Learned'
<1> SUFFICES ASSUME alone', NEW u \in Tabs PROVE TabLearned(tab[u])'
  BY DEF Learned
<1>1. CASE u = t
  BY <1>1
<1>2. CASE u # t /\ backup' \in {backup, NoCopy}
  BY <1>2 DEF Learned, TabLearned, Others
<1>3. CASE u # t /\ Open(t)
  BY <1>3, OtherTabsClosed DEF TabLearned, Others
<1> QED BY <1>1, <1>2, <1>3

LEMMA CopyOfHas ==
  ASSUME NEW c
  PROVE  /\ CopyOf(c) = NoCopy \/ (CopyOf(c).rev = c.rev /\ CopyOf(c).content = c.latest /\ CopyOf(c).seen = c.seen)
         /\ c.latest \notin Large /\ c.latest # Blank => CopyOf(c) # NoCopy
BY DEF CopyOf, NoCopy

LEMMA BackupIs ==
  ASSUME Based, NEW t \in Tabs
  PROVE  /\ Backup(tab[t]) \in {NoCopy, backup, CopyOf(tab[t])}
         /\ tab[t].latest # Blank /\ tab[t].latest \notin Large => Backup(tab[t]) \in {backup, CopyOf(tab[t])}
<1>1. tab[t] \in Composers
  BY DEF Based, Typed
<1> QED BY <1>1, BackupCases DEF CopyOf, Meaningful

LEMMA LearnedKept ==
  ASSUME Ready, Numbered, OneOpen, Learned, [Next]_vars
  PROVE  Learned'
<1> USE DEF Ready
<1>1. ASSUME NEW t \in Tabs, Asks(t), Others(t), Open(t), alone' => alone PROVE Learned'
  <2>1. backup' = CopyOf(tab'[t]) /\ tab'[t].step = "edit"
    BY <1>1 DEF Asks
  <2>2. TabLearned(tab[t])'
    BY <2>1, CopyOfHas DEF TabLearned
  <2> QED BY <1>1, <2>2, LearnedStep
<1>2. ASSUME NEW t \in Tabs, Others(t), Open(t), alone' => alone, tab'[t].step = "edit", tab'[t].rev = tab[t].rev,
             tab[t].step = "edit", UNCHANGED backup
      PROVE  Learned'
  <2>1. alone => TabLearned(tab[t])'
    BY <1>2 DEF Learned, TabLearned
  <2> QED BY <1>2, <2>1, LearnedStep
<1>3. ASSUME NEW t \in Tabs, Others(t), alone' => alone,
             backup' = NoCopy \/ tab'[t].step \notin {"edit", "loading"}, UNCHANGED backup \/ Open(t) \/ backup' = NoCopy
      PROVE  Learned'
  <2>1. TabLearned(tab[t])'
    BY <1>3 DEF TabLearned
  <2> QED BY <1>3, <2>1, LearnedStep
<1>4. ASSUME NEW t \in Tabs, Compose(t) PROVE Learned'
  BY <1>4, ComposeDoes, LearnedStep DEF TabLearned
<1>5. ASSUME NEW t \in Tabs, Edit(t) PROVE Learned'
  <2>1. /\ Others(t) /\ Open(t) /\ UNCHANGED alone /\ backup' \in {backup, CopyOf(tab'[t])}
        /\ tab[t].step = "edit" /\ tab'[t].step = "edit" /\ tab'[t].rev = tab[t].rev
    BY <1>5, EditDoes DEF Open
  <2>2. alone => TabLearned(tab[t])'
    BY <2>1, CopyOfHas DEF Learned, TabLearned
  <2> QED BY <2>1, <2>2, LearnedStep
<1>6. ASSUME NEW t \in Tabs, Save(t) PROVE Learned'
  BY <1>1, <1>6, SaveDoes DEF Open
<1>7. ASSUME NEW t \in Tabs, Click(t) PROVE Learned'
  BY <1>1, <1>2, <1>7, ClickDoes DEF Open, Like
<1>8. ASSUME NEW t \in Tabs, Proceed(t) PROVE Learned'
  BY <1>2, <1>3, <1>8, ProceedDoes, ClosedIsIdle DEF Open, Like, IsClosed
<1>9. ASSUME NEW t \in Tabs, SaveAnswered(t) PROVE Learned'
  <2>1. Others(t) /\ Open(t) /\ UNCHANGED alone /\ tab[t].step = "edit" /\ tab'[t].step = "edit"
    BY <1>9, SaveAnsweredDoes DEF Open, Like
  <2>2. (tab'[t].rev = tab[t].rev /\ UNCHANGED backup) \/ Asks(t) \/ backup' = NoCopy
    BY <1>9, SaveAnsweredDoes
  <2> QED BY <1>1, <1>2, <1>3, <2>1, <2>2
<1>10. ASSUME NEW t \in Tabs, Answered(t) PROVE Learned'
  BY <1>2, <1>3, <1>10, AnsweredDoes, ClosedIsIdle DEF Open, Like, IsClosed
<1>11. ASSUME NEW t \in Tabs, Leave(t) \/ Crash(t) \/ Dropped(t) PROVE Learned'
  BY <1>3, <1>11, LeaveDoes, CrashDoes, DroppedDoes, ClosedIsIdle DEF Open, IsClosed, Closes
<1>12. ASSUME NEW t \in Tabs, Resume(t) PROVE Learned'
  BY <1>12, ResumeDoes, LearnedStep DEF TabLearned
<1>13. ASSUME NEW t \in Tabs, Resumed(t) PROVE Learned'
  <2>1. alone => TabLearned(tab[t])'
    <3>1. UNCHANGED backup /\ tab[t].step = "loading" /\ (alone => backup \in {tab[t].copy, NoCopy})
      BY <1>13, ResumedDoes DEF Learned, TabLearned
    <3>2. CASE IsIdle(tab'[t])
      BY <3>2 DEF IsIdle, TabLearned
    <3>3. CASE IsRow(tab'[t]) /\ tab[t].copy = NoCopy
      BY <3>1, <3>3 DEF IsRow, TabLearned
    <3>4. CASE IsCopy(tab'[t], tab[t].copy)
      BY <3>1, <3>4 DEF IsCopy, TabLearned
    <3> QED BY <1>13, <3>2, <3>3, <3>4, ResumedDoes
  <2> QED BY <1>13, <2>1, ResumedDoes, LearnedStep
<1>14. ASSUME NEW t \in Tabs, ReopenSaved(t) PROVE Learned'
  BY <1>3, <1>14, ReopenSavedDoes, ClosedIsIdle DEF IsClosed
<1>15. ASSUME NEW t \in Tabs, Drop(t) PROVE Learned'
  BY <1>3, <1>15, DropDoes
<1>16. ASSUME NEW t \in Tabs, Lose(t) PROVE Learned'
  <2>1. alone => TabLearned(tab[t])'
    BY <1>16, LoseDoes DEF Learned, TabLearned, Like
  <2> QED BY <1>16, <2>1, LoseDoes, LearnedStep
<1>17. ASSUME NEW t \in Tabs, ServeTab(t) PROVE Learned'
  BY <1>2, <1>17, ServeTabDoes DEF Open, Like
<1>18. CASE ServeStray \/ UNCHANGED vars
  <2>1. UNCHANGED <<tab, alone, backup>>
    BY <1>18 DEF ServeStray, vars
  <2> QED BY <2>1 DEF Learned, TabLearned
<1> QED BY <1>4, <1>5, <1>6, <1>7, <1>8, <1>9, <1>10, <1>11, <1>12, <1>13, <1>14, <1>15, <1>16, <1>17, <1>18 DEF Next

CopyFresh == backup # NoCopy /\ backup.rev = 0

LEMMA UnlearnedStep ==
  ASSUME Unlearned, NEW t \in Tabs, Others(t), alone' => alone, Pending' \subseteq Pending,
         alone /\ Fresh(tab'[t]) => AnyFresh, CopyFresh' => AnyFresh
  PROVE  Unlearned'
<1> SUFFICES ASSUME alone', AnyFresh' PROVE \A r \in Pending' : r.kind = "POST"
  BY DEF Unlearned
<1>1. AnyFresh
  <2>1. CASE CopyFresh'
    BY <2>1
  <2>2. ASSUME NEW u \in Tabs, Fresh(tab'[u]) PROVE AnyFresh
    BY <2>2 DEF Others, AnyFresh
  <2> QED BY <2>1, <2>2 DEF AnyFresh, CopyFresh
<1> QED BY <1>1 DEF Unlearned

\* A composer that has a revision, alone, leaves nothing fresh.
LEMMA NothingFresh ==
  ASSUME OneOpen, alone, NEW t \in Tabs, Others(t), Open(t), ~Fresh(tab'[t]), ~CopyFresh'
  PROVE  ~AnyFresh'
<1>1. \A u \in Tabs \ {t} : ~Fresh(tab'[u])
  BY OtherTabsClosed DEF Others, Fresh
<1> QED BY <1>1 DEF AnyFresh, CopyFresh

\* A tab that asks for a save either has a revision, or posts like the others.
LEMMA UnlearnedAsks ==
  ASSUME Based, Unlearned, OneOpen, NEW t \in Tabs, Others(t), tab[t].step = "edit", alone' => alone,
         NEW r, NEW c \in Composers, IsSave(r, c), backup' = CopyOf(c), Pending' \subseteq Pending \cup {r},
         c.step = "edit", c.rev = 0 => tab[t].rev = 0,
         Fresh(tab'[t]) => c.rev = 0
  PROVE  Unlearned'
<1> SUFFICES ASSUME alone', AnyFresh' PROVE \A s \in Pending' : s.kind = "POST"
  BY DEF Unlearned
<1>1. c.rev \in Nat
  BY TabTypes
<1>2. CASE c.rev = 0
  <2>1. AnyFresh
    BY <1>2 DEF AnyFresh, Fresh
  <2>2. r.kind = "POST"
    BY <1>2 DEF IsSave
  <2> QED BY <2>1, <2>2 DEF Unlearned
<1>3. CASE c.rev > 0
  <2>1. ~CopyFresh'
    BY <1>3, CopyOfHas DEF CopyFresh
  <2>2. ~AnyFresh'
    BY <1>3, <2>1, NothingFresh DEF Open
  <2> QED BY <2>2
<1> QED BY <1>1, <1>2, <1>3

LEMMA UnlearnedKept ==
  ASSUME Ready, Informed, OneOpen, Learned, Unlearned, Numbered, [Next]_vars
  PROVE  Unlearned'
<1> USE DEF Ready
<1>1. ASSUME NEW t \in Tabs, Others(t), alone' => alone, tab[t].step = "edit", Pending' \subseteq Pending,
             backup' \in {NoCopy, backup, CopyOf(tab[t])},
             Fresh(tab'[t]) => tab[t].rev = 0
      PROVE  Unlearned'
  <2>1. CopyFresh' => AnyFresh
    BY <1>1, CopyOfHas DEF CopyFresh, AnyFresh, Fresh
  <2>2. Fresh(tab'[t]) => AnyFresh
    BY <1>1 DEF AnyFresh, Fresh
  <2> QED BY <1>1, <2>1, <2>2, UnlearnedStep
<1>2. ASSUME NEW t \in Tabs, Others(t), alone' => alone, Pending' \subseteq Pending, backup' \in {NoCopy, backup},
             alone /\ Fresh(tab'[t]) => AnyFresh
      PROVE  Unlearned'
  BY <1>2, UnlearnedStep DEF CopyFresh, AnyFresh
<1>3. ~Fresh(Closed)
  BY DEF Fresh, Closed
<1>4. ASSUME NEW t \in Tabs, Compose(t) PROVE Unlearned'
  <2>1. Pending = {}
    BY <1>4, ComposeDoes, CloseType, NotWaiting DEF Pristine, Pending
  <2> QED BY <1>4, <2>1, ComposeDoes DEF Unlearned
<1>5. ASSUME NEW t \in Tabs, Edit(t) PROVE Unlearned'
  <2>1. backup' \in {backup, CopyOf(tab'[t])}
    BY <1>5, EditDoes
  <2>2. CopyFresh' => AnyFresh
    BY <1>5, <2>1, EditDoes, CopyOfHas DEF CopyFresh, AnyFresh, Fresh
  <2>3. Fresh(tab'[t]) => AnyFresh
    BY <1>5, EditDoes DEF AnyFresh, Fresh
  <2> QED BY <1>5, <2>2, <2>3, EditDoes, UnlearnedStep
<1>6. ASSUME NEW t \in Tabs, Save(t) \/ Click(t) \/ SaveAnswered(t) PROVE Unlearned'
  <2>1. Others(t) /\ UNCHANGED alone /\ tab[t].step = "edit" /\ tab'[t].step = "edit"
    BY <1>6, SaveDoes, ClickDoes, SaveAnsweredDoes DEF Like
  <2>2. \/ Asks(t)
        \/ backup' \in {NoCopy, backup} /\ Pending' \subseteq Pending
    BY <1>6, SaveDoes, ClickDoes, SaveAnsweredDoes
  <2>3. tab'[t].rev = 0 => tab[t].rev = 0
    <3>1. SavedIn(tab[t].call) => tab[t].call.got.rev > 0
      <4>1. tab[t].call.got \in Rows
        BY TabTypes DEF Based, Typed
      <4> QED BY <4>1, RowTypes DEF Informed, TabKnows, RequestKnows
    <3>2. CASE Save(t) \/ Click(t)
      BY <3>2, SaveDoes, ClickDoes
    <3>3. CASE SaveAnswered(t)
      <4>1. tab'[t].rev = tab[t].rev \/ (SavedIn(tab[t].call) /\ tab'[t].rev = tab[t].call.got.rev)
        BY <3>3, SaveAnsweredDoes
      <4> QED BY <3>1, <4>1
    <3> QED BY <1>6, <3>2, <3>3
  <2>4. CASE Asks(t)
    <3>1. tab'[t] \in Composers
      BY <2>1 DEF Others
    <3> QED BY <2>1, <2>3, <2>4, <3>1, UnlearnedAsks DEF Asks, Fresh
  <2>5. CASE backup' \in {NoCopy, backup} /\ Pending' \subseteq Pending
    BY <1>1, <2>1, <2>3, <2>5 DEF Fresh
  <2> QED BY <2>2, <2>4, <2>5
<1>7. ASSUME NEW t \in Tabs, Proceed(t) PROVE Unlearned'
  <2>1. Others(t) /\ UNCHANGED alone /\ tab[t].step = "edit"
    BY <1>7, ProceedDoes
  <2>2. CASE tab'[t] = Closed
    <3>1. backup' \in {NoCopy, backup, CopyOf(tab[t])} /\ Pending' \subseteq Pending
      BY <1>7, <2>2, ProceedDoes, BackupIs DEF Closed, Like
    <3> QED BY <1>1, <1>3, <2>1, <2>2, <3>1
  <2>3. CASE Pending' \subseteq Pending /\ Like(tab'[t], tab[t]) /\ tab'[t].rev = tab[t].rev /\ UNCHANGED backup
    BY <1>1, <2>1, <2>3 DEF Fresh, Like
  <2>4. CASE Like(tab'[t], tab[t]) /\ tab'[t].rev = tab[t].rev /\ UNCHANGED backup /\ tab[t].rev > 0
    <3>1. ~Fresh(tab'[t])
      BY <2>1, <2>4 DEF Fresh, Like
    <3>2. alone => ~CopyFresh'
      BY <2>1, <2>4 DEF CopyFresh, Learned, TabLearned
    <3>3. alone => ~AnyFresh'
      BY <2>1, <3>1, <3>2, NothingFresh DEF Open
    <3> QED BY <2>1, <3>3 DEF Unlearned
  <2> QED BY <1>7, <2>2, <2>3, <2>4, ProceedDoes
<1>8. ASSUME NEW t \in Tabs, Answered(t) PROVE Unlearned'
  BY <1>1, <1>3, <1>8, AnsweredDoes DEF Fresh, Like
<1>9. ASSUME NEW t \in Tabs, Leave(t) PROVE Unlearned'
  <2>1. /\ Others(t) /\ UNCHANGED alone /\ tab[t].step = "edit" /\ ~Fresh(tab'[t])
        /\ backup' \in {NoCopy, backup, CopyOf(tab[t])} /\ tab[t] \in Composers
    BY <1>3, <1>9, LeaveDoes, BackupIs DEF Based, Typed
  <2>2. CASE Pending' \subseteq Pending
    BY <1>1, <2>1, <2>2
  <2>3. ASSUME NEW r \in Requests, IsSave(r, tab[t]), backup' = CopyOf(tab[t]), Pending' \subseteq Pending \cup {r}
        PROVE  Unlearned'
    BY <2>1, <2>3, UnlearnedAsks
  <2> QED BY <1>9, <2>2, <2>3, LeaveDoes
<1>10. ASSUME NEW t \in Tabs, Crash(t) \/ Dropped(t) PROVE Unlearned'
  BY <1>2, <1>3, <1>10, CrashDoes, DroppedDoes DEF Closes
<1>11. ASSUME NEW t \in Tabs, Resume(t) PROVE Unlearned'
  BY <1>2, <1>11, ResumeDoes DEF Fresh, AnyFresh
<1>12. ASSUME NEW t \in Tabs, Resumed(t) PROVE Unlearned'
  <2>1. Fresh(tab'[t]) => AnyFresh
    <3>1. tab[t].step = "loading"
      BY <1>12, ResumedDoes
    <3>2. CASE IsIdle(tab'[t])
      BY <3>2 DEF IsIdle, Fresh
    <3>3. CASE IsRow(tab'[t])
      BY <3>3 DEF IsRow, Fresh
    <3>4. CASE IsCopy(tab'[t], tab[t].copy) /\ tab[t].copy # NoCopy
      BY <3>1, <3>4 DEF IsCopy, Fresh, AnyFresh
    <3> QED BY <1>12, <3>2, <3>3, <3>4, ResumedDoes
  <2> QED BY <1>2, <1>12, <2>1, ResumedDoes
<1>13. ASSUME NEW t \in Tabs, ReopenSaved(t) PROVE Unlearned'
  BY <1>2, <1>3, <1>13, ReopenSavedDoes DEF IsRow, Fresh
<1>14. ASSUME NEW t \in Tabs, Drop(t) PROVE Unlearned'
  BY <1>2, <1>14, DropDoes DEF Fresh
<1>15. ASSUME NEW t \in Tabs, Lose(t) \/ ServeTab(t) PROVE Unlearned'
  <2>1. Fresh(tab'[t]) => AnyFresh
    BY <1>15, LoseDoes, ServeTabDoes DEF Fresh, Like, AnyFresh
  <2> QED BY <1>2, <1>15, <2>1, LoseDoes, ServeTabDoes
<1>16. CASE ServeStray
  BY <1>16, ServeStrayDoes DEF Unlearned, AnyFresh
<1>17. CASE UNCHANGED vars
  BY <1>17 DEF vars, Unlearned, AnyFresh, Pending
<1> QED BY <1>4, <1>5, <1>6, <1>7, <1>8, <1>9, <1>10, <1>11, <1>12, <1>13, <1>14, <1>15, <1>16, <1>17 DEF Next

LEMMA HasKeptStep ==
  ASSUME WriterHasKept, OneOpen, NEW t \in Tabs, Others(t), alone' => alone, kept' \in {kept, Blank},
         UNCHANGED backup \/ Open(t), Kept /\ kept' = kept => HasKept(tab[t])'
  PROVE  WriterHasKept'
<1> SUFFICES ASSUME Kept', NEW u \in Tabs PROVE HasKept(tab[u])'
  BY DEF WriterHasKept
<1>1. kept' = kept /\ Kept
  BY DEF Kept
<1>2. CASE u = t
  BY <1>1, <1>2
<1>3. CASE u # t /\ UNCHANGED backup
  BY <1>1, <1>3 DEF WriterHasKept, HasKept, Others
<1>4. CASE u # t /\ Open(t)
  BY <1>1, <1>4, OtherTabsClosed DEF Kept, HasKept, Others
<1> QED BY <1>2, <1>3, <1>4

LEMMA WriterHasKeptKept ==
  ASSUME Ready, Numbered, OneOpen, WriterHasKept, LastKept, [Next]_vars
  PROVE  WriterHasKept'
<1> USE DEF Ready
<1>1. ASSUME NEW t \in Tabs, Others(t), alone' => alone, kept' \in {kept, Blank}, UNCHANGED backup \/ Open(t),
             \/ tab'[t].step \notin {"edit", "loading"}
             \/ /\ tab[t].step = "edit" /\ Like(tab'[t], tab[t])
                /\ tab'[t].wish \in {tab[t].wish, "none"} \/ (tab'[t].wish = "discard" => kept' = Blank)
      PROVE  WriterHasKept'
  <2>1. Kept /\ kept' = kept => HasKept(tab[t])'
    BY <1>1 DEF WriterHasKept, HasKept, Like, Kept
  <2> QED BY <1>1, <2>1, HasKeptStep
<1>2. ASSUME NEW t \in Tabs, Compose(t) PROVE WriterHasKept'
  BY <1>2, ComposeDoes DEF Pristine, WriterHasKept, Kept
<1>3. ASSUME NEW t \in Tabs, Edit(t) \/ Save(t) PROVE WriterHasKept'
  <2> SUFFICES ASSUME Kept', NEW u \in Tabs PROVE HasKept(tab[u])'
    BY DEF WriterHasKept
  <2>1. CASE u = t
    <3>1. CASE Edit(t)
      <4>1. ~tab[t].stopped /\ kept' = Used + 1
        BY <3>1, EditDoes DEF Kept
      <4> QED BY <2>1, <3>1, <4>1, EditDoes DEF HasKept
    <3>2. CASE Save(t)
      BY <2>1, <3>2, SaveDoes DEF HasKept, Like
    <3> QED BY <1>3, <3>1, <3>2
  <2>2. CASE u # t
    <3>1. Others(t) /\ UNCHANGED alone /\ tab[t].step = "edit"
      BY <1>3, EditDoes, SaveDoes
    <3>2. Kept' => tab[u].step \notin {"edit", "loading"}
      BY <2>2, <3>1, OtherTabsClosed DEF Kept, Open
    <3> QED BY <2>2, <3>1, <3>2 DEF HasKept, Others
  <2> QED BY <2>1, <2>2
<1>4. ASSUME NEW t \in Tabs, Click(t) \/ SaveAnswered(t) \/ Proceed(t) \/ Answered(t)
      PROVE  WriterHasKept'
  <2>1. Others(t) /\ UNCHANGED alone /\ tab[t].step = "edit" /\ kept' \in {kept, Blank}
    BY <1>4, ClickDoes, SaveAnsweredDoes, ProceedDoes, AnsweredDoes
  <2>2. CASE Click(t) \/ SaveAnswered(t)
    <3>1. /\ Like(tab'[t], tab[t])
          /\ tab'[t].wish \in {tab[t].wish, "none"} \/ (tab'[t].wish = "discard" => kept' = Blank)
      BY <2>2, ClickDoes, SaveAnsweredDoes
    <3> QED BY <1>1, <2>1, <3>1 DEF Open
  <2>3. CASE Proceed(t) \/ Answered(t)
    <3>1. tab'[t] = Closed \/ (Like(tab'[t], tab[t]) /\ tab'[t].wish \in {tab[t].wish, "none"})
      BY <2>3, ProceedDoes, AnsweredDoes
    <3> QED BY <1>1, <2>1, <3>1, ClosedIsIdle DEF Open, IsClosed
  <2> QED BY <1>4, <2>2, <2>3
<1>5. ASSUME NEW t \in Tabs, Leave(t) \/ Crash(t) \/ Dropped(t) PROVE WriterHasKept'
  <2>1. /\ Others(t) /\ UNCHANGED alone /\ tab'[t] = Closed /\ kept' \in {kept, Blank}
        /\ \/ UNCHANGED backup
           \/ Open(t)
           \/ kept' = Blank
    BY <1>5, LeaveDoes, CrashDoes, DroppedDoes DEF Closes, Open
  <2>2. CASE kept' = Blank
    BY <2>2 DEF WriterHasKept, Kept
  <2> QED BY <1>1, <2>1, <2>2, ClosedIsIdle DEF IsClosed
<1>6. ASSUME NEW t \in Tabs, Resume(t) PROVE WriterHasKept'
  <2>1. HasKept(tab[t])'
    BY <1>6, ResumeDoes DEF HasKept
  <2> QED BY <1>6, <2>1, ResumeDoes, HasKeptStep
<1>7. ASSUME NEW t \in Tabs, Resumed(t) PROVE WriterHasKept'
  <2>1. Kept => HasKept(tab[t])'
    <3> SUFFICES ASSUME Kept PROVE HasKept(tab[t])'
      OBVIOUS
    <3>1. tab[t].step = "loading" /\ UNCHANGED <<backup, kept>> /\ backup = tab[t].copy /\ CopyKept
      BY <1>7, ResumedDoes DEF WriterHasKept, HasKept, LastKept
    <3>2. CASE IsIdle(tab'[t])
      BY <3>2 DEF IsIdle, HasKept
    <3>3. CASE IsRow(tab'[t]) /\ tab[t].copy = NoCopy
      BY <3>1, <3>3 DEF IsRow, HasKept, CopyKept, Safe
    <3>4. CASE IsCopy(tab'[t], tab[t].copy) /\ tab[t].copy # NoCopy
      BY <3>1, <3>4 DEF IsCopy, HasKept, CopyKept
    <3> QED BY <1>7, <3>2, <3>3, <3>4, ResumedDoes
  <2> QED BY <1>7, <2>1, ResumedDoes, HasKeptStep
<1>8. ASSUME NEW t \in Tabs, ReopenSaved(t) \/ Drop(t) PROVE WriterHasKept'
  <2>1. CASE kept' = Blank
    BY <2>1 DEF WriterHasKept, Kept
  <2>2. CASE UNCHANGED <<backup, kept>> /\ tab'[t].step \notin {"edit", "loading"}
    BY <1>1, <1>8, <2>2, ReopenSavedDoes, DropDoes
  <2> QED BY <1>8, <2>1, <2>2, ReopenSavedDoes, DropDoes, ClosedIsIdle DEF IsClosed
<1>9. ASSUME NEW t \in Tabs, Lose(t) \/ ServeTab(t) PROVE WriterHasKept'
  <2>1. Kept => HasKept(tab[t])'
    BY <1>9, LoseDoes, ServeTabDoes DEF WriterHasKept, HasKept, Like
  <2> QED BY <1>9, <2>1, LoseDoes, ServeTabDoes, HasKeptStep
<1>10. CASE ServeStray \/ UNCHANGED vars
  <2>1. UNCHANGED <<tab, alone, backup, kept>>
    BY <1>10 DEF ServeStray, vars
  <2> QED BY <2>1 DEF WriterHasKept, HasKept, Kept
<1> QED BY <1>2, <1>3, <1>4, <1>5, <1>6, <1>7, <1>8, <1>9, <1>10 DEF Next

\* A request that a tab makes does not endanger an edit that is safe.
Harmless(r) == r.kind # "DELETE" /\ (r.kind = "PATCH" => r.content = kept)

LEMMA SafeStays ==
  ASSUME Safe, UNCHANGED <<draft, kept>>, \A r \in Pending' \ Pending : Harmless(r)
  PROVE  Safe'
BY DEF Safe, Harmless

LEMMA PendingBehind ==
  ASSUME Informed, NEW r \in Pending
  PROVE  RequestKnows(r) /\ Behind(r.rev)
BY DEF Pending, Informed, TabKnows, RequestKnows

\* The server answers a request under way: what is safe stays safe.
LEMMA SafeServed ==
  ASSUME Based, Informed, Safe, NEW r \in Pending, r \in Requests, Serve(r), kept' = kept, Pending' \subseteq Pending
  PROVE  Safe'
<1>1. draft \in Rows /\ draft # Gone /\ draft.rev \in Nat /\ draft.content = kept /\ draft.status # "none"
  BY RowTypes DEF Safe, Based, Typed
<1>2. CASE UNCHANGED draft
  BY <1>2, SafeStays
<1>3. CASE Update(r) /\ Writable(r.rev)
  <2>1. draft \in DraftRow /\ draft.status = "active" /\ r.rev = draft.rev /\ r.content = kept
    BY <1>1, <1>3 DEF Writable, Rows, Safe, Update
  <2>2. draft'.rev = draft.rev + 1 /\ draft'.content = kept /\ draft'.status = "active"
    BY <1>1, <1>3, <2>1 DEF Update, DraftRow
  <2>3. \A s \in Pending' : s.rev # draft'.rev
    <3>1. \A s \in Pending : s.rev <= draft.rev /\ s.rev \in Nat
      BY <1>1, PendingBehind, TabTypes DEF Behind, Pending, Based, Typed, Requests
    <3> QED BY <1>1, <2>2, <3>1
  <2> QED BY <2>2, <2>3 DEF Safe, Gone
<1>4. CASE Handover(r) /\ Writable(r.rev)
  <2>1. draft \in DraftRow
    BY <1>1 DEF Rows
  <2>2. draft'.status = "consumed" /\ draft'.content = kept
    BY <1>1, <1>4, <2>1 DEF Handover, DraftRow
  <2> QED BY <2>2 DEF Safe, Gone
<1>5. CASE Discard(r) /\ Deletable(r.rev)
  BY <1>5 DEF Discard, Deletable, Safe
<1>6. \/ UNCHANGED draft
      \/ Update(r) /\ Writable(r.rev)
      \/ Handover(r) /\ Writable(r.rev)
      \/ Discard(r) /\ Deletable(r.rev)
  BY <1>1 DEF Serve, Create, Update, Handover, Discard
<1> QED BY <1>2, <1>3, <1>4, <1>5, <1>6

LEMMA LastKeptStep ==
  ASSUME LastKept, NEW t \in Tabs, Others(t), alone' => alone, kept' \in {kept, Blank},
         Kept /\ kept' = kept =>
           (Safe => Safe') /\ CopyKept' /\ TabSafe(tab[t])'
  PROVE  LastKept'
<1> SUFFICES ASSUME Kept' PROVE CopyKept' /\ \A u \in Tabs : TabSafe(tab[u])'
  BY DEF LastKept
<1>1. kept' = kept /\ Kept
  BY DEF Kept
<1>2. \A u \in Tabs \ {t} : TabSafe(tab[u])'
  BY <1>1 DEF LastKept, TabSafe, Others, SavedIn, Same
<1> QED BY <1>1, <1>2

LEMMA KeptBackup ==
  ASSUME Based, Kept, WriterHasKept, CopyKept, NEW t \in Tabs, tab[t].step = "edit"
  PROVE  backup' = Backup(tab[t]) /\ kept' = kept /\ (Safe => Safe') => CopyKept'
<1>1. tab[t].latest = kept
  BY DEF WriterHasKept, HasKept
<1>2. Backup(tab[t]) \in {backup, CopyOf(tab[t])} /\ CopyOf(tab[t]) # NoCopy /\ CopyOf(tab[t]).content = kept
  BY <1>1, BackupIs, CopyOfHas DEF Kept
<1> QED BY <1>2 DEF CopyKept

\* A tab that asks for a save has the edit in the copy, and asks to write it.
LEMMA KeptAsks ==
  ASSUME Kept, kept' = kept, NEW c, c.latest = kept, NEW r, IsSave(r, c), backup' = CopyOf(c),
         UNCHANGED draft, Pending' \subseteq Pending \cup {r}
  PROVE  (Safe => Safe') /\ CopyKept' /\ ~SavedIn(r)
<1>1. CopyOf(c) # NoCopy /\ CopyOf(c).content = kept
  BY CopyOfHas DEF Kept
<1>2. Harmless(r) /\ ~SavedIn(r)
  BY DEF IsSave, Harmless, SavedIn
<1> QED BY <1>1, <1>2, SafeStays DEF CopyKept

LEMMA NoCallSafe == ~SavedIn(NoCall)
BY DEF SavedIn, NoCall

\* The answer to a save that the server accepts: its text is safe.
LEMMA ServedIsSafe ==
  ASSUME Ready, Informed, OneOpen, Unlearned, alone, NEW t \in Tabs, ServeTab(t),
         tab[t].call.kind \in {"POST", "PATCH"}, Ok(tab[t].call), draft'.content = kept, kept # Blank, kept' = kept
  PROVE  Safe'
<1> USE DEF Ready
<1> DEFINE r == tab[t].call
<1>1. /\ draft \in Rows /\ r \in Requests /\ Serve(r) /\ r.content # Blank /\ Pending' \subseteq Pending
      /\ tab[t].step = "edit" /\ draft.rev \in Nat
  BY ServeTabDoes, RowTypes DEF Based, Typed
<1>2. draft' # Gone
  BY DEF Gone
<1>3. CASE r.kind = "POST"
  <2>1. Fresh(tab[t])
    BY <1>1, <1>3 DEF Based, Whole, WholeTab, Fresh
  <2>2. \A s \in Pending' : s.kind = "POST"
    BY <1>1, <2>1 DEF Unlearned, AnyFresh
  <2> QED BY <1>2, <2>2 DEF Safe
<1>4. CASE r.kind = "PATCH"
  <2>1. Update(r) /\ Writable(r.rev)
    BY <1>1, <1>4 DEF Serve, Create, Update, Handover, Discard, Ok
  <2>2. draft \in DraftRow
    BY <1>1, <2>1 DEF Writable, Rows, Gone
  <2>3. draft'.rev = draft.rev + 1
    BY <1>1, <2>1, <2>2 DEF Update, DraftRow
  <2>4. \A s \in Pending' : s.rev # draft'.rev
    <3>1. \A s \in Pending : s.rev <= draft.rev /\ s.rev \in Nat
      BY <1>1, <2>1, PendingBehind, TabTypes DEF Writable, Gone, Behind, Pending, Based, Typed, Requests
    <3> QED BY <1>1, <2>3, <3>1
  <2> QED BY <1>2, <2>4 DEF Safe
<1> QED BY <1>3, <1>4

LEMMA ServeTabLastKept ==
  ASSUME Ready, Informed, OneOpen, Unlearned, LastKept, NEW t \in Tabs, ServeTab(t)
  PROVE  LastKept'
<1> USE DEF Ready
<1>1. /\ Others(t) /\ UNCHANGED <<backup, alone, kept>> /\ Pending' \subseteq Pending
      /\ Like(tab'[t], tab[t]) /\ tab'[t].rev = tab[t].rev /\ tab'[t].saved = tab[t].saved
      /\ tab'[t].conflict = tab[t].conflict /\ tab'[t].call.kind = tab[t].call.kind
      /\ tab'[t].call.content = tab[t].call.content /\ tab'[t].call.got = draft'
      /\ tab'[t].call.answer = IF Ok(tab[t].call) THEN "ok" ELSE "conflict"
      /\ tab[t].call \in Requests /\ tab[t].call \in Pending /\ Serve(tab[t].call)
  BY ServeTabDoes
<1> SUFFICES ASSUME Kept PROVE (Safe => Safe') /\ CopyKept' /\ TabSafe(tab[t])'
  BY <1>1, LastKeptStep
<1>2. Safe => Safe'
  BY <1>1, SafeServed
<1>3. CopyKept'
  BY <1>1, <1>2 DEF LastKept, CopyKept
<1>4. SavedIn(tab'[t].call) /\ Same(tab'[t]) /\ tab'[t].call.content = kept => Safe'
  <2> SUFFICES ASSUME SavedIn(tab'[t].call), Same(tab'[t]), tab'[t].call.content = kept PROVE Safe'
    OBVIOUS
  <2>1. /\ Ok(tab[t].call) /\ tab[t].call.kind \in {"POST", "PATCH"} /\ draft'.content = kept
    BY <1>1 DEF SavedIn, Same
  <2> QED BY <1>1, <2>1, ServedIsSafe DEF Kept
<1>5. TabSafe(tab[t])'
  BY <1>1, <1>2, <1>4 DEF LastKept, TabSafe, Like, SavedIn, Same
<1> QED BY <1>2, <1>3, <1>5

LEMMA EditLastKept ==
  ASSUME Ready, Numbered, NEW t \in Tabs, Edit(t)
  PROVE  LastKept'
<1> USE DEF Ready
<1> SUFFICES ASSUME Kept' PROVE CopyKept' /\ \A u \in Tabs : TabSafe(tab[u])'
  BY DEF LastKept
<1>1. /\ Used \in Nat /\ kept' = Used + 1 /\ Others(t) /\ ~tab[t].stopped
      /\ tab'[t].latest = Used + 1 /\ tab'[t].saved = tab[t].saved /\ tab'[t].call = tab[t].call
  BY EditDoes DEF Kept
<1>2. \A u \in Tabs : tab[u].saved # Used + 1 /\ tab[u].call.content # Used + 1
  <2> TAKE u \in Tabs
  <2>1. tab[u].saved \in Int /\ tab[u].call.content \in Int
    <3>1. \A x \in Texts : x \in Int
      BY DEF Texts, Contents, Blank
    <3>2. tab[u].saved \in Texts /\ tab[u].call.content \in Texts
      BY DEF Based, Typed, Composers, Requests
    <3> QED BY <3>1, <3>2
  <2>2. tab[u].saved <= Used /\ tab[u].call.content <= Used
    BY NumbersIn DEF Within
  <2> QED BY <1>1, <2>1, <2>2
<1>3. CopyKept'
  <2>1. backup' = CopyOf(tab'[t])
    BY <1>1, <1>2, EditDoes
  <2> QED BY <1>1, <2>1, CopyOfHas DEF Kept, CopyKept
<1>4. \A u \in Tabs : TabSafe(tab[u])'
  BY <1>1, <1>2 DEF TabSafe, Others
<1> QED BY <1>3, <1>4

Keeping == Ready /\ Informed /\ Numbered /\ OneOpen /\ Unlearned /\ WriterHasKept /\ LastKept

\* A save: whatever was kept before, the copy holds the text that the tab asks to write.
LEMMA SaveLastKept ==
  ASSUME Keeping, NEW t \in Tabs, Save(t)
  PROVE  LastKept'
<1> USE DEF Keeping, Ready
<1> SUFFICES ASSUME Kept' PROVE CopyKept' /\ \A u \in Tabs : TabSafe(tab[u])'
  BY DEF LastKept
<1>1. /\ Others(t) /\ UNCHANGED alone /\ tab[t].step = "edit" /\ Asks(t) /\ tab'[t].latest = kept'
  BY SaveDoes DEF Like
<1>2. CopyKept'
  <2>1. backup' = CopyOf(tab'[t])
    BY <1>1 DEF Asks
  <2> QED BY <1>1, <2>1, CopyOfHas DEF Kept, CopyKept
<1>3. ASSUME NEW u \in Tabs PROVE TabSafe(tab[u])'
  <2>1. CASE u = t
    BY <1>1, <2>1 DEF Asks, IsSave, SavedIn, TabSafe
  <2>2. CASE u # t
    <3>1. tab[u].step \notin {"edit", "loading"}
      BY <1>1, <2>2, OtherTabsClosed DEF Kept, Open
    <3>2. WholeTab(tab[u])
      BY DEF Based, Whole
    <3>3. tab[u].call = NoCall
      BY <3>1, <3>2 DEF WholeTab
    <3> QED BY <1>1, <2>2, <3>1, <3>3, NoCallSafe DEF TabSafe, Others
  <2> QED BY <2>1, <2>2
<1> QED BY <1>2, <1>3

\* What was clicked.
LEMMA SavingLastKept ==
  ASSUME Keeping, NEW t \in Tabs, Click(t)
  PROVE  LastKept'
<1> USE DEF Keeping, Ready
<1>1. /\ Others(t) /\ UNCHANGED <<draft, alone>> /\ kept' \in {kept, Blank} /\ tab[t].step = "edit"
      /\ Like(tab'[t], tab[t]) /\ tab'[t].rev = tab[t].rev /\ tab'[t].saved = tab[t].saved
      /\ tab'[t].conflict = tab[t].conflict
      /\ Asks(t) \/ (tab'[t].call = tab[t].call /\ UNCHANGED backup /\ Pending' \subseteq Pending)
  BY ClickDoes
<1> SUFFICES ASSUME Kept, kept' = kept PROVE (Safe => Safe') /\ CopyKept' /\ TabSafe(tab[t])'
  BY <1>1, LastKeptStep
<1>2. TabSafe(tab[t]) /\ CopyKept /\ tab'[t].latest = kept
  BY <1>1 DEF LastKept, WriterHasKept, HasKept, Like
<1>3. CASE Asks(t)
  <2>1. (Safe => Safe') /\ CopyKept' /\ ~SavedIn(tab'[t].call)
    <3>1. IsSave(tab'[t].call, tab'[t]) /\ backup' = CopyOf(tab'[t]) /\ Pending' \subseteq Pending \cup {tab'[t].call}
      BY <1>3 DEF Asks
    <3> QED BY <1>1, <1>2, <3>1, KeptAsks
  <2>2. TabSafe(tab[t])'
    BY <1>1, <1>2, <2>1 DEF TabSafe, Like
  <2> QED BY <2>1, <2>2
<1>4. CASE tab'[t].call = tab[t].call /\ UNCHANGED backup /\ Pending' \subseteq Pending
  <2>1. Safe => Safe'
    BY <1>1, <1>4, SafeStays
  <2>2. TabSafe(tab[t])' /\ CopyKept'
    BY <1>1, <1>2, <1>4, <2>1 DEF TabSafe, CopyKept, Like, SavedIn, Same
  <2> QED BY <2>1, <2>2
<1> QED BY <1>1, <1>3, <1>4

LEMMA ProceedLastKept ==
  ASSUME Keeping, NEW t \in Tabs, Proceed(t)
  PROVE  LastKept'
<1> USE DEF Keeping, Ready
<1>1. /\ Others(t) /\ UNCHANGED <<draft, alone>> /\ kept' \in {kept, Blank} /\ tab[t].step = "edit"
  BY ProceedDoes
<1> SUFFICES ASSUME Kept, kept' = kept PROVE (Safe => Safe') /\ CopyKept' /\ TabSafe(tab[t])'
  BY <1>1, LastKeptStep
<1>2. TabSafe(tab[t]) /\ CopyKept /\ kept # Blank /\ tab[t].wish # "discard"
  BY <1>1 DEF LastKept, WriterHasKept, HasKept, Kept
<1>3. CASE tab'[t] = Closed /\ backup' = Backup(tab[t]) /\ Pending' \subseteq Pending
  <2>1. Safe => Safe'
    BY <1>1, <1>3, SafeStays
  <2>2. CopyKept'
    BY <1>1, <1>2, <1>3, <2>1, KeptBackup
  <2>3. TabSafe(tab[t])'
    BY <1>3, ClosedIsIdle, NoCallSafe DEF TabSafe, IsClosed
  <2> QED BY <2>1, <2>2, <2>3
<1>4. CASE /\ Like(tab'[t], tab[t]) /\ tab'[t].rev = tab[t].rev /\ tab'[t].saved = tab[t].saved
           /\ tab'[t].conflict = tab[t].conflict /\ UNCHANGED backup
           /\ \A r \in Pending' \ Pending : Harmless(r)
           /\ ~SavedIn(tab'[t].call)
  <2>1. Safe => Safe'
    BY <1>1, <1>4, SafeStays
  <2>2. TabSafe(tab[t])' /\ CopyKept'
    BY <1>1, <1>2, <1>4, <2>1 DEF TabSafe, CopyKept, Like
  <2> QED BY <2>1, <2>2
<1>5. CASE /\ tab'[t].call.kind = "SEND" /\ Pending' \subseteq Pending \cup {tab'[t].call}
  <2>1. Harmless(tab'[t].call) /\ ~SavedIn(tab'[t].call)
    BY <1>5 DEF Harmless, SavedIn
  <2>2. tab'[t] # Closed
    BY <1>5 DEF Closed, NoCall
  <2> QED BY <1>2, <1>4, <1>5, <2>1, <2>2, ProceedDoes
<1>6. CASE tab'[t].call = NoCall /\ Pending' \subseteq Pending /\ tab'[t] # Closed
  BY <1>2, <1>4, <1>6, NoCallSafe, ProceedDoes DEF NoCall
<1>7. Like(tab'[t], tab[t]) => tab'[t] # Closed
  BY <1>1, ClosedIsIdle DEF Like, IsClosed
<1>8. \/ tab'[t] = Closed /\ backup' = Backup(tab[t]) /\ Pending' \subseteq Pending
      \/ tab'[t].call = NoCall /\ Pending' \subseteq Pending /\ tab'[t] # Closed
      \/ tab'[t].call.kind = "SEND" /\ Pending' \subseteq Pending \cup {tab'[t].call}
  BY <1>2, <1>7, ProceedDoes
<1> QED BY <1>3, <1>5, <1>6, <1>8

LEMMA SaveAnsweredLastKept ==
  ASSUME Keeping, NEW t \in Tabs, SaveAnswered(t)
  PROVE  LastKept'
<1> USE DEF Keeping, Ready
<1>1. /\ Others(t) /\ UNCHANGED <<draft, alone, kept>> /\ tab[t].step = "edit" /\ Like(tab'[t], tab[t])
  BY SaveAnsweredDoes
<1> SUFFICES ASSUME Kept PROVE (Safe => Safe') /\ CopyKept' /\ TabSafe(tab[t])'
  BY <1>1, LastKeptStep
<1>2. /\ TabSafe(tab[t]) /\ CopyKept /\ kept # Blank /\ tab[t].wish # "discard"
      /\ tab[t].latest = kept /\ tab'[t].latest = kept /\ ~tab[t].stopped
  BY <1>1 DEF LastKept, WriterHasKept, HasKept, Kept, Like, Based, Whole, WholeTab
<1>3. CASE /\ tab'[t].rev = tab[t].rev /\ tab'[t].saved = tab[t].saved /\ UNCHANGED backup
           /\ tab'[t].conflict \in {tab[t].conflict, TRUE}
           /\ tab'[t].call = NoCall /\ Pending' \subseteq Pending
  <2>1. Safe => Safe'
    BY <1>1, <1>3, SafeStays
  <2>2. CopyKept'
    BY <1>1, <1>2, <1>3, <2>1 DEF CopyKept
  <2>3. TabSafe(tab[t])'
    BY <1>1, <1>2, <1>3, <2>1, NoCallSafe DEF TabSafe
  <2> QED BY <2>1, <2>2, <2>3
<1>4. CASE Asks(t)
  <2>1. (Safe => Safe') /\ CopyKept' /\ ~SavedIn(tab'[t].call)
    <3>1. IsSave(tab'[t].call, tab'[t]) /\ backup' = CopyOf(tab'[t]) /\ Pending' \subseteq Pending \cup {tab'[t].call}
      BY <1>4 DEF Asks
    <3> QED BY <1>1, <1>2, <3>1, KeptAsks
  <2>2. tab'[t].saved # kept
    BY <1>2, <1>4 DEF Asks
  <2>3. TabSafe(tab[t])'
    BY <1>1, <2>1, <2>2 DEF TabSafe
  <2> QED BY <2>1, <2>3
<1>5. CASE /\ SavedIn(tab[t].call) /\ tab'[t].saved = tab[t].latest
           /\ tab'[t].saved = IF Same(tab[t]) THEN tab[t].call.content ELSE Blank
           /\ tab'[t].call = NoCall /\ backup' = NoCopy /\ Pending' \subseteq Pending
  <2>1. Same(tab[t]) /\ tab[t].call.content = kept
    BY <1>2, <1>5
  <2>2. Safe
    BY <1>2, <1>5, <2>1 DEF TabSafe
  <2>3. Safe'
    BY <1>1, <1>5, <2>2, SafeStays
  <2> QED BY <1>5, <2>3 DEF CopyKept, TabSafe
<1> QED BY <1>2, <1>3, <1>4, <1>5, SaveAnsweredDoes

\* A step that leaves the row, and a tab that is closed or has saved nothing.
LEMMA QuietLastKept ==
  ASSUME Keeping, NEW t \in Tabs, Others(t), alone' => alone, UNCHANGED <<draft, backup, kept>>,
         \A r \in Pending' \ Pending : Harmless(r), ~SavedIn(tab'[t].call),
         Kept => \/ tab'[t].step # "edit" \/ tab'[t].saved # kept \/ Safe
                 \/ /\ tab[t].step = "edit" /\ tab'[t].rev = tab[t].rev /\ tab'[t].saved = tab[t].saved
                    /\ tab'[t].conflict = tab[t].conflict
  PROVE  LastKept'
<1> USE DEF Keeping, Ready
<1>1. Safe => Safe'
  BY SafeStays
<1>2. Kept => CopyKept' /\ TabSafe(tab[t])'
  BY <1>1 DEF LastKept, CopyKept, TabSafe
<1> QED BY <1>1, <1>2, LastKeptStep

LEMMA LastKeptKept ==
  ASSUME Keeping, [Next]_vars
  PROVE  LastKept'
<1> USE DEF Keeping, Ready
<1>1. IsClosed(Closed) /\ ~SavedIn(NoCall)
  BY ClosedIsIdle, NoCallSafe
<1>2. CASE kept' = Blank
  BY <1>2 DEF LastKept, Kept
<1>3. ASSUME NEW t \in Tabs, Compose(t) PROVE LastKept'
  BY <1>2, <1>3, ComposeDoes DEF Pristine
<1>4. ASSUME NEW t \in Tabs, Answered(t), kept' # Blank PROVE LastKept'
  <2>1. /\ Others(t) /\ UNCHANGED <<draft, alone, kept>> /\ Pending' \subseteq Pending /\ tab[t].step = "edit"
    BY <1>4, AnsweredDoes
  <2>2. CASE UNCHANGED backup
    <3>1. /\ tab'[t].rev = tab[t].rev /\ tab'[t].saved = tab[t].saved /\ tab'[t].conflict = tab[t].conflict
          /\ tab'[t].call = NoCall
          \/ tab'[t] = Closed
      BY <1>4, AnsweredDoes
    <3> QED BY <1>1, <2>1, <2>2, <3>1, QuietLastKept DEF IsClosed
  <2>3. CASE tab'[t] = Closed /\ backup' = NoCopy /\ tab[t].call.kind = "SEND"
    <3> SUFFICES ASSUME Kept PROVE (Safe => Safe') /\ CopyKept' /\ TabSafe(tab[t])'
      BY <2>1, LastKeptStep
    <3>1. WholeTab(tab[t]) /\ tab[t].latest = kept /\ TabSafe(tab[t])
      BY <2>1 DEF Based, Whole, WriterHasKept, HasKept, LastKept
    <3>2. tab[t].rev > 0 /\ ~tab[t].conflict /\ tab[t].saved = kept
      <4>1. tab[t].rev \in Nat
        BY TabTypes DEF Based, Typed
      <4> QED BY <2>3, <3>1, <4>1 DEF WholeTab
    <3>3. Safe
      BY <2>1, <3>1, <3>2 DEF TabSafe
    <3>4. Safe'
      BY <2>1, <3>3, SafeStays
    <3> QED BY <2>3, <3>4 DEF CopyKept, TabSafe
  <2> QED BY <1>4, <2>2, <2>3, AnsweredDoes
<1>5. ASSUME NEW t \in Tabs, Leave(t) PROVE LastKept'
  <2>1. /\ Others(t) /\ tab'[t] = Closed /\ UNCHANGED <<draft, alone, kept>> /\ tab[t].step = "edit"
        /\ backup' = Backup(tab[t])
    BY <1>5, LeaveDoes
  <2> SUFFICES ASSUME Kept PROVE (Safe => Safe') /\ CopyKept' /\ TabSafe(tab[t])'
    BY <2>1, LastKeptStep
  <2>2. tab[t].latest = kept /\ CopyKept
    BY <2>1 DEF WriterHasKept, HasKept, LastKept
  <2>3. Safe => Safe'
    <3>1. CASE Pending' \subseteq Pending
      BY <2>1, <3>1, SafeStays
    <3>2. ASSUME NEW r \in Requests, IsSave(r, tab[t]), Pending' \subseteq Pending \cup {r}
          PROVE  Safe => Safe'
      BY <2>1, <2>2, <3>2, SafeStays DEF Harmless, IsSave
    <3> QED BY <1>5, <3>1, <3>2, LeaveDoes
  <2>4. CopyKept'
    BY <2>1, <2>2, <2>3, KeptBackup
  <2>5. TabSafe(tab[t])'
    BY <1>1, <2>1 DEF TabSafe, IsClosed
  <2> QED BY <2>3, <2>4, <2>5
<1>6. ASSUME NEW t \in Tabs, Crash(t) PROVE LastKept'
  BY <1>1, <1>6, CrashDoes, QuietLastKept DEF Closes, IsClosed
<1>7. ASSUME NEW t \in Tabs, Resume(t) PROVE LastKept'
  BY <1>1, <1>7, ResumeDoes, QuietLastKept
<1>8. ASSUME NEW t \in Tabs, Resumed(t) PROVE LastKept'
  <2>1. /\ Others(t) /\ UNCHANGED <<draft, alone, backup, kept>> /\ Pending' \subseteq Pending
        /\ tab[t].step = "loading"
    BY <1>8, ResumedDoes
  <2>2. Kept => kept # Blank /\ (tab[t].copy = NoCopy => Safe)
    BY <2>1 DEF LastKept, CopyKept, WriterHasKept, HasKept, Kept
  <2>3. CASE IsIdle(tab'[t])
    BY <1>1, <2>1, <2>3, QuietLastKept DEF IsIdle
  <2>4. CASE IsRow(tab'[t]) /\ tab[t].copy = NoCopy
    BY <1>1, <2>1, <2>2, <2>4, QuietLastKept DEF IsRow
  <2>5. CASE IsCopy(tab'[t], tab[t].copy)
    BY <1>1, <2>1, <2>2, <2>5, QuietLastKept DEF IsCopy
  <2> QED BY <1>8, <2>3, <2>4, <2>5, ResumedDoes
<1>9. ASSUME NEW t \in Tabs, ReopenSaved(t), kept' # Blank PROVE LastKept'
  BY <1>1, <1>9, ReopenSavedDoes, QuietLastKept DEF IsClosed
<1>10. ASSUME NEW t \in Tabs, Drop(t), kept' # Blank PROVE LastKept'
  BY <1>1, <1>10, DropDoes, QuietLastKept
<1>11. ASSUME NEW t \in Tabs, Dropped(t), kept' # Blank PROVE LastKept'
  BY <1>1, <1>11, DroppedDoes, QuietLastKept DEF Closes, IsClosed
<1>12. ASSUME NEW t \in Tabs, Lose(t) PROVE LastKept'
  <2>1. ~SavedIn(tab'[t].call)
    BY <1>12, LoseDoes DEF SavedIn
  <2> QED BY <1>12, <2>1, LoseDoes, QuietLastKept DEF Like
<1>13. CASE ServeStray
  <2>1. PICK r \in strays : r \in Requests /\ Serve(r) /\ r \in Pending
    BY <1>13, ServeStrayDoes
  <2>2. UNCHANGED <<tab, backup, alone, kept>> /\ Pending' \subseteq Pending
    BY <1>13, ServeStrayDoes
  <2>3. Safe => Safe'
    BY <2>1, <2>2, SafeServed
  <2> QED BY <2>2, <2>3 DEF LastKept, Kept, CopyKept, TabSafe
<1>14. CASE UNCHANGED vars
  BY <1>14 DEF vars, LastKept, Kept, CopyKept, TabSafe, Safe, Pending
<1>15. \A t \in Tabs : (Edit(t) \/ Save(t) \/ Click(t) \/ Proceed(t) \/ SaveAnswered(t) \/ ServeTab(t)) => LastKept'
  BY EditLastKept, SaveLastKept, SavingLastKept, ProceedLastKept, SaveAnsweredLastKept, ServeTabLastKept
<1> QED BY <1>2, <1>3, <1>4, <1>5, <1>6, <1>7, <1>8, <1>9, <1>10, <1>11, <1>12, <1>13, <1>14, <1>15 DEF Next

-----------------------------------------------------------------------------
(* 4. No text is replaced unseen *)

Watching == Ready /\ Informed /\ Numbered /\ ~TwoTabsNew /\ Sighted /\ OneFresh

\* Only a new message, and a copy opened again, make a tab fresh.
LEMMA FreshBefore ==
  ASSUME Ready, Informed, NEW t \in Tabs, TabMoves(t), ~Compose(t), ~Resume(t), Fresh(tab'[t])
  PROVE  Fresh(tab[t])
<1> USE DEF Ready
<1>1. ~Fresh(Closed)
  BY DEF Fresh, Closed
<1>2. CASE Save(t) \/ Click(t) \/ SaveAnswered(t)
  <2>1. tab[t].step = "edit" /\ tab'[t].step = "edit"
    BY <1>2, SaveDoes, ClickDoes, SaveAnsweredDoes DEF Like
  <2>2. tab'[t].rev = tab[t].rev \/ (SavedIn(tab[t].call) /\ tab'[t].rev = tab[t].call.got.rev)
    BY <1>2, SaveDoes, ClickDoes, SaveAnsweredDoes
  <2>3. SavedIn(tab[t].call) => tab[t].call.got.rev > 0
    <3>1. tab[t].call.got \in Rows
      BY TabTypes DEF Based, Typed
    <3> QED BY <3>1, RowTypes DEF Informed, TabKnows, RequestKnows
  <2> QED BY <2>1, <2>2, <2>3 DEF Fresh
<1>3. CASE Edit(t) \/ Proceed(t) \/ Answered(t) \/ Lose(t) \/ ServeTab(t)
  BY <1>1, <1>3, EditDoes, ProceedDoes, AnsweredDoes, LoseDoes, ServeTabDoes DEF Fresh, Like
<1>4. CASE Leave(t) \/ Crash(t) \/ Dropped(t)
  BY <1>1, <1>4, LeaveDoes, CrashDoes, DroppedDoes DEF Closes
<1>5. CASE Resumed(t)
  BY <1>5, ResumedDoes DEF IsIdle, IsRow, IsCopy, Fresh
<1>6. CASE ReopenSaved(t)
  BY <1>1, <1>6, ReopenSavedDoes DEF IsRow, Fresh
<1>7. CASE Drop(t)
  BY <1>7, DropDoes DEF Fresh
<1> QED BY <1>2, <1>3, <1>4, <1>5, <1>6, <1>7 DEF TabMoves

LEMMA OneFreshKept ==
  ASSUME Ready, Informed, ~TwoTabsNew, OneFresh, [Next]_vars
  PROVE  OneFresh'
<1> USE DEF Ready
<1>1. ASSUME NEW t \in Tabs, TabMoves(t), ~Compose(t), ~Resume(t) PROVE OneFresh'
  <2>1. Others(t)
    BY <1>1, OtherTabsStay
  <2>2. \A u \in Tabs : Fresh(tab'[u]) => Fresh(tab[u])
    BY <1>1, <2>1, FreshBefore DEF Others
  <2> QED BY <2>2 DEF OneFresh
<1>2. ASSUME NEW t \in Tabs, Compose(t) PROVE OneFresh'
  <2>1. \A u \in Tabs \ {t} : ~Fresh(tab'[u])
    BY <1>2, ComposeDoes, ClosedIsIdle DEF Pristine, Others, Fresh, IsClosed
  <2> QED BY <2>1 DEF OneFresh
<1>3. ASSUME NEW t \in Tabs, Resume(t) PROVE OneFresh'
  <2>1. CASE Fresh(tab'[t])
    <3>1. \A u \in Tabs \ {t} : ~Fresh(tab'[u])
      BY <1>3, <2>1, ResumeDoes DEF OthersOpen, Others, Fresh
    <3> QED BY <3>1 DEF OneFresh
  <2>2. CASE ~Fresh(tab'[t])
    <3>1. \A u \in Tabs : Fresh(tab'[u]) => Fresh(tab[u])
      BY <1>3, <2>2, ResumeDoes DEF Others
    <3> QED BY <3>1 DEF OneFresh
  <2> QED BY <2>1, <2>2
<1>4. CASE ServeStray \/ UNCHANGED vars
  <2>1. UNCHANGED tab
    BY <1>4 DEF ServeStray, vars
  <2> QED BY <2>1 DEF OneFresh
<1> QED BY <1>1, <1>2, <1>3, <1>4 DEF Next, TabMoves

\* What has been seen stays seen, whatever becomes of the row.
LEMMA SeenLasts ==
  ASSUME Typed, Typed', RowMoves, NEW rev \in Nat, Behind(rev), NEW seen, Seen(rev, seen)
  PROVE  Seen(rev, seen)'
<1>1. draft \in Rows /\ draft' \in Rows
  BY DEF Typed
<1>2. draft.rev \in Nat /\ draft'.rev \in Nat /\ (draft = Gone <=> draft.status = "none")
  BY <1>1, RowTypes
<1> QED BY <1>2 DEF RowMoves, Seen, Behind

LEMMA SeesFirstLasts ==
  ASSUME Based, Typed', ~Reborn, NEW r \in Pending, r \in Requests, Serve(r), Pending' \subseteq Pending,
         NEW seen, SeesFirst(seen)
  PROVE  SeesFirst(seen)'
<1>1. draft \in Rows /\ draft.rev \in Nat /\ (draft # Gone => draft.rev > 0)
  BY RowTypes DEF Based, Typed
<1>2. \A s \in Pending' : s.kind = "POST" => s.content \in seen
  BY DEF SeesFirst
<1>3. CASE Create(r)
  BY <1>2, <1>3 DEF Create, SeesFirst
<1>4. CASE Update(r) /\ Writable(r.rev)
  <2>1. draft \in DraftRow
    BY <1>1, <1>4 DEF Writable, Rows, Gone
  <2>2. draft'.rev = draft.rev + 1 /\ draft.rev > 0
    BY <1>1, <1>4, <2>1 DEF Update, DraftRow, Writable, Gone
  <2>3. draft'.rev # 1
    BY <1>1, <2>2
  <2> QED BY <1>2, <2>3 DEF SeesFirst
<1>5. CASE Handover(r) /\ Writable(r.rev)
  <2>1. draft \in DraftRow
    BY <1>1, <1>5 DEF Writable, Rows, Gone
  <2>2. draft'.status = "consumed"
    BY <1>5, <2>1 DEF Handover, DraftRow
  <2> QED BY <1>2, <2>2 DEF SeesFirst
<1>6. CASE Discard(r) /\ Deletable(r.rev)
  BY <1>2, <1>6 DEF Discard, SeesFirst, Gone
<1>7. CASE UNCHANGED draft
  BY <1>2, <1>7 DEF SeesFirst
<1> QED BY <1>3, <1>4, <1>5, <1>6, <1>7 DEF Serve, Update, Handover, Discard

\* A step that leaves the row: the tab that makes it, the copy and the requests.
LEMMA SightedStep ==
  ASSUME Sighted, OneFresh, UNCHANGED draft, NEW t \in Tabs, Others(t),
         CopySees', TabSees(tab[t])', TabSeesFirst(tab[t])',
         \A r \in Pending' \ Pending : r.kind = "POST" => Fresh(tab[t]),
         \A r \in strays' \ strays : r.kind = "PATCH" => Seen(r.rev, r.seen)
  PROVE  Sighted'
<1>1. ASSUME NEW u \in Tabs \ {t} PROVE TabSees(tab[u])' /\ TabSeesFirst(tab[u])'
  <2>1. tab'[u] = tab[u]
    BY DEF Others
  <2>2. TabSees(tab[u])'
    BY <2>1 DEF Sighted, TabSees, Seen, SavedIn
  <2>3. Fresh(tab[u]) => \A r \in Pending' \ Pending : r.kind # "POST"
    BY DEF OneFresh
  <2>4. TabSeesFirst(tab[u])'
    BY <2>1, <2>3 DEF Sighted, TabSeesFirst, SeesFirst
  <2> QED BY <2>2, <2>4
<1>2. \A r \in strays' : r.kind = "PATCH" => Seen(r.rev, r.seen)'
  BY DEF Sighted, Seen
<1> QED BY <1>1, <1>2 DEF Sighted

LEMMA SeesFirstStays ==
  ASSUME UNCHANGED draft, NEW seen, SeesFirst(seen), NEW more, seen \subseteq more,
         \A r \in Pending' \ Pending : r.kind = "POST" => r.content \in more
  PROVE  SeesFirst(more)'
BY DEF SeesFirst

\* A closed tab, and no copy, have nothing to see.
LEMMA NothingToSee ==
  ASSUME Typed'
  PROVE  /\ \A c : c.step # "edit" /\ c.latest = Blank /\ c.copy = NoCopy /\ c.call = NoCall => TabSees(c)'
         /\ backup' = NoCopy => CopySees'
         /\ Seen(0, {})'
<1>1. draft' # Gone => draft'.rev # 0
  BY RowTypes DEF Typed
<1>2. Seen(0, {})'
  BY <1>1 DEF Seen
<1> QED BY <1>2 DEF TabSees, CopySees, NoCopy, NoCall, SavedIn, Blank, Seen

LEMMA ClosedSees == Typed' => TabSees(Closed)' /\ ~Fresh(Closed)
<1>1. Closed.step # "edit" /\ Closed.step # "loading" /\ Closed.latest = Blank /\ Closed.copy = NoCopy /\ Closed.call = NoCall
  BY DEF Closed
<1> QED BY <1>1, NothingToSee DEF Fresh

LEMMA CopyOfSees ==
  ASSUME Typed', UNCHANGED draft, NEW c, backup' = CopyOf(c), Seen(c.rev, c.seen), c.latest \in {Blank} \cup c.seen,
         c.rev = 0 => SeesFirst(c.seen)'
  PROVE  CopySees'
<1>1. CASE CopyOf(c) = NoCopy
  BY <1>1, NothingToSee
<1>2. CASE CopyOf(c).rev = c.rev /\ CopyOf(c).content = c.latest /\ CopyOf(c).seen = c.seen
  <2>1. backup'.rev = c.rev /\ backup'.content = c.latest /\ backup'.seen = c.seen
    BY <1>2
  <2> QED BY <2>1 DEF CopySees, Seen
<1> QED BY <1>1, <1>2, CopyOfHas

LEMMA CopySeesStays ==
  ASSUME CopySees, UNCHANGED <<draft, backup>>, \A r \in Pending' \ Pending : r.kind # "POST"
  PROVE  CopySees'
BY DEF CopySees, Seen, SeesFirst

\* What a closing tab leaves in the copy.
LEMMA BackupSees ==
  ASSUME Based, Typed', UNCHANGED draft, CopySees, NEW t \in Tabs, tab[t].step = "edit", TabSees(tab[t]),
         TabSeesFirst(tab[t]), backup' \in {NoCopy, backup, CopyOf(tab[t])}, Pending' \subseteq Pending
  PROVE  CopySees'
<1>1. CASE backup' = CopyOf(tab[t])
  <2>1. PICK c : c = tab[t]
    OBVIOUS
  <2>2. c.rev = 0 => SeesFirst(c.seen)
    BY <2>1 DEF TabSeesFirst, Fresh
  <2>3. c.rev = 0 => SeesFirst(c.seen)'
    BY <2>2, SeesFirstStays
  <2>4. backup' = CopyOf(c) /\ Seen(c.rev, c.seen) /\ c.latest \in {Blank} \cup c.seen
    BY <1>1, <2>1 DEF TabSees
  <2> QED BY <2>3, <2>4, CopyOfSees
<1> QED BY <1>1, NothingToSee, CopySeesStays

\* A composer that goes on with the same text: its copy, or the same as before.
LEMMA LikeSees ==
  ASSUME UNCHANGED draft, NEW c, NEW d, TabSees(c), Like(d, c), d.rev = c.rev \/ Seen(d.rev, d.seen),
         d.call.kind = "PATCH" => Seen(d.call.rev, d.call.seen),
         d.call.kind \in {"POST", "PATCH"} => d.call.content \in d.seen,
         ~SavedIn(d.call) \/ d.call = c.call
  PROVE  TabSees(d)'
BY DEF TabSees, Like, Seen, SavedIn

LEMMA AsksSees ==
  ASSUME Watching, UNCHANGED draft, NEW t \in Tabs, tab[t].step = "edit", Others(t), Asks(t), Like(tab'[t], tab[t]),
         Seen(tab'[t].rev, tab'[t].seen),
         tab'[t].rev = 0 => tab[t].rev = 0,
         UNCHANGED strays
  PROVE  Sighted'
<1> USE DEF Watching, Ready
<1>1. PICK c, d, r : c = tab[t] /\ d = tab'[t] /\ r = d.call
  OBVIOUS
<1>2. /\ IsSave(r, d) /\ backup' = CopyOf(d) /\ Pending' \subseteq Pending \cup {r}
      /\ d.latest \in d.seen /\ TabSees(c) /\ TabSeesFirst(c) /\ d.seen = c.seen
      /\ c.step = "edit" /\ d.step = "edit" /\ Like(d, c) /\ Seen(d.rev, d.seen) /\ (d.rev = 0 => c.rev = 0)
  BY <1>1 DEF Asks, Sighted, TabSees, Like
<1>3. d.rev \in Nat
  BY <1>1, TabTypes DEF Typed
<1>4. r.kind = "POST" => d.rev = 0 /\ Fresh(tab[t])
  BY <1>1, <1>2, <1>3 DEF IsSave, Fresh
<1>5. d.rev = 0 => SeesFirst(d.seen)'
  <2>1. d.rev = 0 => SeesFirst(c.seen)
    BY <1>2 DEF TabSeesFirst, Fresh
  <2>2. \A s \in Pending' \ Pending : s.kind = "POST" => s.content \in d.seen
    BY <1>2 DEF IsSave
  <2> QED BY <1>2, <2>1, <2>2, SeesFirstStays
<1>6. CopySees'
  BY <1>2, <1>5, CopyOfSees
<1>7. TabSees(d)'
  BY <1>1, <1>2, LikeSees DEF IsSave, SavedIn
<1>8. TabSeesFirst(d)'
  BY <1>2, <1>5 DEF TabSeesFirst, Fresh
<1>9. TabSees(tab[t])' /\ TabSeesFirst(tab[t])'
  BY <1>1, <1>7, <1>8 DEF TabSees, TabSeesFirst, Seen, SavedIn, SeesFirst
<1> QED BY <1>2, <1>4, <1>6, <1>9, SightedStep

LEMMA EditSighted ==
  ASSUME Watching, NEW t \in Tabs, Edit(t)
  PROVE  Sighted'
<1> USE DEF Watching, Ready
<1>1. PICK n : n = Used + 1
  OBVIOUS
<1>2. /\ Others(t) /\ UNCHANGED <<draft, strays>> /\ backup' \in {backup, CopyOf(tab'[t])}
      /\ Pending' \subseteq Pending
      /\ tab[t].step = "edit" /\ tab'[t].step = "edit" /\ tab'[t].rev = tab[t].rev
      /\ tab'[t].latest = n /\ tab'[t].seen = tab[t].seen \cup {n}
      /\ tab'[t].copy = tab[t].copy /\ tab'[t].call = tab[t].call
  BY <1>1, EditDoes
<1>3. TabSees(tab[t]) /\ TabSeesFirst(tab[t]) /\ CopySees
  BY DEF Sighted
<1>4. TabSees(tab[t])'
  BY <1>2, <1>3 DEF TabSees, Seen, SavedIn
<1>5. PICK c, d : c = tab[t] /\ d = tab'[t]
  OBVIOUS
<1>6. d.rev = 0 => SeesFirst(d.seen)'
  <2>1. d.rev = 0 => SeesFirst(c.seen)
    BY <1>2, <1>3, <1>5 DEF TabSeesFirst, Fresh
  <2>2. c.seen \subseteq d.seen
    BY <1>2, <1>5
  <2> QED BY <1>2, <2>1, <2>2, SeesFirstStays
<1>7. CopySees'
  <2>1. Seen(d.rev, d.seen) /\ d.latest \in d.seen
    BY <1>2, <1>3, <1>5 DEF TabSees, Seen
  <2>2. CASE backup' = CopyOf(d)
    BY <1>2, <1>6, <2>1, <2>2, CopyOfSees
  <2>3. CASE backup' = backup
    BY <1>2, <1>3, <2>3, CopySeesStays
  <2> QED BY <1>2, <1>5, <2>2, <2>3
<1>8. TabSeesFirst(tab[t])'
  BY <1>2, <1>5, <1>6 DEF TabSeesFirst, Fresh, SeesFirst
<1> QED BY <1>2, <1>4, <1>7, <1>8, SightedStep

LEMMA SavingSighted ==
  ASSUME Watching, NEW t \in Tabs, Save(t) \/ Click(t)
  PROVE  Sighted'
<1> USE DEF Watching, Ready
<1>1. /\ Others(t) /\ UNCHANGED <<draft, strays>> /\ tab[t].step = "edit" /\ Like(tab'[t], tab[t])
      /\ tab'[t].rev = tab[t].rev
      /\ Asks(t) \/ (tab'[t].call = tab[t].call /\ UNCHANGED backup /\ Pending' \subseteq Pending)
  BY SaveDoes, ClickDoes
<1>2. TabSees(tab[t]) /\ TabSeesFirst(tab[t]) /\ CopySees
  BY DEF Sighted
<1>3. CASE Asks(t)
  <2>1. Seen(tab'[t].rev, tab'[t].seen)
    BY <1>1, <1>2 DEF TabSees, Like
  <2> QED BY <1>1, <1>3, <2>1, AsksSees
<1>4. CASE tab'[t].call = tab[t].call /\ UNCHANGED backup /\ Pending' \subseteq Pending
  <2>1. TabSees(tab[t])'
    BY <1>1, <1>2, <1>4, LikeSees DEF TabSees, Like
  <2>2. TabSeesFirst(tab[t])'
    BY <1>1, <1>2, <1>4 DEF TabSeesFirst, Fresh, SeesFirst, Like
  <2> QED BY <1>1, <1>2, <1>4, <2>1, <2>2, CopySeesStays, SightedStep
<1> QED BY <1>1, <1>3, <1>4

\* A tab that goes on with its text, after an answer or with one it asks for.
LEMMA GoingOnSighted ==
  ASSUME Watching, UNCHANGED <<draft, strays, backup>>, NEW t \in Tabs, Others(t), tab[t].step = "edit",
         Like(tab'[t], tab[t]), tab'[t].rev = tab[t].rev,
         tab'[t].call.kind \notin {"POST", "PATCH"} \/ (tab'[t].call.kind = tab[t].call.kind
           /\ tab'[t].call.rev = tab[t].call.rev /\ tab'[t].call.seen = tab[t].call.seen
           /\ tab'[t].call.content = tab[t].call.content /\ ~SavedIn(tab'[t].call)),
         \A r \in Pending' \ Pending : r.kind # "POST"
  PROVE  Sighted'
<1> USE DEF Watching
<1>1. TabSees(tab[t]) /\ TabSeesFirst(tab[t]) /\ CopySees
  BY DEF Sighted
<1>2. TabSees(tab[t])'
  BY <1>1 DEF TabSees, Like, Seen, SavedIn
<1>3. TabSeesFirst(tab[t])'
  BY <1>1 DEF TabSeesFirst, Fresh, SeesFirst, Like
<1> QED BY <1>1, <1>2, <1>3, CopySeesStays, SightedStep

\* A tab that is closed.
LEMMA ClosingSighted ==
  ASSUME Watching, UNCHANGED draft, NEW t \in Tabs, Others(t), tab'[t] = Closed,
         \/ backup' \in {NoCopy, backup}
         \/ tab[t].step = "edit" /\ backup' = CopyOf(tab[t]),
         Pending' \subseteq Pending, strays' \subseteq Pending
  PROVE  Sighted'
<1> USE DEF Watching, Ready
<1>1. TabSees(tab[t]) /\ TabSeesFirst(tab[t]) /\ CopySees
  BY DEF Sighted
<1>2. CopySees'
  BY <1>1, NothingToSee, CopySeesStays, BackupSees
<1>3. \A r \in strays' \ strays : r.kind = "PATCH" => Seen(r.rev, r.seen)
  BY DEF Pending, Sighted, TabSees
<1>4. PICK c : c = tab'[t] /\ c = Closed
  OBVIOUS
<1>5. TabSees(c)' /\ ~Fresh(c)
  BY <1>4, ClosedSees
<1>6. TabSees(tab[t])' /\ TabSeesFirst(tab[t])'
  BY <1>4, <1>5 DEF TabSees, Seen, SavedIn, TabSeesFirst
<1> QED BY <1>2, <1>3, <1>6, SightedStep

LEMMA ProceedSighted ==
  ASSUME Watching, NEW t \in Tabs, Proceed(t) \/ Answered(t)
  PROVE  Sighted'
<1> USE DEF Watching, Ready
<1>1. /\ Others(t) /\ UNCHANGED <<draft, strays>> /\ tab[t].step = "edit"
  BY ProceedDoes, AnsweredDoes
<1>2. CASE tab'[t] = Closed
  <2>1. Pending' \subseteq Pending /\ backup' \in {NoCopy, backup, CopyOf(tab[t])}
    <3>1. Closed.step # "edit"
      BY DEF Closed
    <3>2. CASE Proceed(t)
      BY <1>1, <1>2, <3>1, <3>2, ProceedDoes, BackupIs DEF Like
    <3>3. CASE Answered(t)
      BY <1>1, <1>2, <3>1, <3>3, AnsweredDoes DEF Like
    <3> QED BY <3>2, <3>3
  <2> QED BY <1>1, <1>2, <2>1, ClosingSighted, PendingHas
<1>3. CASE /\ Like(tab'[t], tab[t]) /\ tab'[t].rev = tab[t].rev /\ UNCHANGED backup
           /\ tab'[t].call.kind \notin {"POST", "PATCH"} /\ Pending' \subseteq Pending \cup {tab'[t].call}
  BY <1>1, <1>3, GoingOnSighted
<1>4. NoCall.kind \notin {"POST", "PATCH"}
  BY DEF NoCall
<1>5. CASE Proceed(t)
  BY <1>2, <1>3, <1>4, <1>5, ProceedDoes
<1>6. CASE Answered(t)
  BY <1>2, <1>3, <1>4, <1>6, AnsweredDoes
<1> QED BY <1>5, <1>6

LEMMA SaveAnsweredSighted ==
  ASSUME Watching, NEW t \in Tabs, SaveAnswered(t)
  PROVE  Sighted'
<1> USE DEF Watching, Ready
<1>1. /\ Others(t) /\ UNCHANGED <<draft, strays>> /\ tab[t].step = "edit" /\ Like(tab'[t], tab[t]) /\ Saving(tab[t])
  BY SaveAnsweredDoes
<1>2. TabSees(tab[t]) /\ TabSeesFirst(tab[t]) /\ CopySees /\ tab[t] \in Composers /\ TabKnows(tab[t]) /\ WholeTab(tab[t])
  BY DEF Sighted, Based, Typed, Informed, Whole
<1>3. NoCall.kind \notin {"POST", "PATCH"}
  BY DEF NoCall
<1>4. CASE tab'[t].rev = tab[t].rev /\ UNCHANGED backup /\ tab'[t].call = NoCall /\ Pending' \subseteq Pending
  BY <1>1, <1>3, <1>4, GoingOnSighted
<1>5. CASE /\ SavedIn(tab[t].call) /\ ~Foreign(tab[t]) /\ tab'[t].rev = tab[t].call.got.rev
           /\ Asks(t) \/ (tab'[t].call = NoCall /\ backup' = NoCopy /\ Pending' \subseteq Pending)
  <2> DEFINE got == tab[t].call.got
  <2>1. got # Gone /\ Known(got.rev, got.content) /\ got.rev \in Nat /\ got.rev > 0
    BY <1>2, <1>5, TabTypes, RowTypes DEF TabKnows, RequestKnows
  <2>2. got.content \in tab[t].seen
    <3>1. CASE tab[t].call.kind = "PATCH" \/ got.rev = 1
      BY <1>2, <1>5, <3>1 DEF TabSees
    <3>2. CASE tab[t].call.kind = "POST" /\ got.rev > 1
      <4>1. tab[t].rev = 0
        BY <1>2, <3>2 DEF WholeTab
      <4>2. Same(tab[t])
        BY <1>5, <3>2, <4>1 DEF Foreign
      <4> QED BY <1>2, <3>2, <4>2 DEF Same, TabSees
    <3> QED BY <1>1, <2>1, <3>1, <3>2 DEF Saving
  <2>3. tab'[t].rev > 0 /\ Seen(tab'[t].rev, tab'[t].seen)
    BY <1>1, <1>5, <2>1, <2>2 DEF Seen, Known, Like
  <2>4. CASE Asks(t)
    BY <1>1, <2>3, <2>4, AsksSees
  <2>5. CASE tab'[t].call = NoCall /\ backup' = NoCopy /\ Pending' \subseteq Pending
    <3>1. TabSees(tab[t])'
      BY <1>1, <1>2, <1>3, <2>3, <2>5, NoCallSafe DEF TabSees, Seen, Like
    <3>2. TabSeesFirst(tab[t])'
      BY <1>1, <2>3 DEF TabSeesFirst, Fresh, Like
    <3> QED BY <1>1, <2>5, <3>1, <3>2, NothingToSee, SightedStep
  <2> QED BY <1>5, <2>4, <2>5
<1> QED BY <1>4, <1>5, SaveAnsweredDoes

LEMMA LeaveSighted ==
  ASSUME Watching, NEW t \in Tabs, Leave(t)
  PROVE  Sighted'
<1> USE DEF Watching, Ready
<1>1. /\ Others(t) /\ UNCHANGED draft /\ tab'[t] = Closed /\ tab[t].step = "edit"
      /\ backup' \in {NoCopy, backup, CopyOf(tab[t])}
  BY LeaveDoes, BackupIs
<1>2. CASE Pending' \subseteq Pending /\ strays' \subseteq Pending
  BY <1>1, <1>2, ClosingSighted
<1>3. ASSUME NEW r \in Requests, IsSave(r, tab[t]), backup' = CopyOf(tab[t]), tab[t].latest # Blank,
             Pending' \subseteq Pending \cup {r}, strays' \subseteq strays \cup {r}
      PROVE  Sighted'
  <2>1. PICK c, d : c = tab[t] /\ d = tab'[t] /\ d = Closed
    BY <1>1
  <2>2. TabSees(c) /\ TabSeesFirst(c) /\ c.step = "edit" /\ c.latest \in c.seen /\ IsSave(r, c) /\ backup' = CopyOf(c)
    BY <1>1, <1>3, <2>1 DEF Sighted, TabSees
  <2>3. c.rev \in Nat
    BY <2>1, TabTypes DEF Based, Typed
  <2>4. r.kind = "POST" => Fresh(tab[t])
    BY <2>1, <2>2, <2>3 DEF IsSave, Fresh
  <2>5. c.rev = 0 => SeesFirst(c.seen)'
    <3>1. c.rev = 0 => SeesFirst(c.seen)
      BY <2>2 DEF TabSeesFirst, Fresh
    <3>2. \A s \in Pending' \ Pending : s.kind = "POST" => s.content \in c.seen
      BY <1>3, <2>2 DEF IsSave
    <3> QED BY <1>1, <3>1, <3>2, SeesFirstStays
  <2>6. CopySees'
    BY <1>1, <2>2, <2>5, CopyOfSees DEF TabSees
  <2>7. r.kind = "PATCH" => Seen(r.rev, r.seen)
    BY <2>2 DEF IsSave, TabSees
  <2>8. TabSees(d)' /\ ~Fresh(d)
    BY <2>1, ClosedSees
  <2>9. TabSees(tab[t])' /\ TabSeesFirst(tab[t])'
    BY <2>1, <2>8 DEF TabSees, Seen, SavedIn, TabSeesFirst
  <2> QED BY <1>1, <1>3, <2>4, <2>6, <2>7, <2>9, SightedStep
<1> QED BY <1>2, <1>3, LeaveDoes

LEMMA ListSighted ==
  ASSUME Watching, NEW t \in Tabs,
         Compose(t) \/ Resume(t) \/ Resumed(t) \/ ReopenSaved(t) \/ Drop(t) \/ Crash(t) \/ Lose(t)
  PROVE  Sighted'
<1> USE DEF Watching, Ready
<1>1. TabSees(tab[t]) /\ TabSeesFirst(tab[t]) /\ CopySees
  BY DEF Sighted
<1>2. NoCall.kind \notin {"POST", "PATCH"} /\ ~SavedIn(NoCall)
  BY NoCallSafe DEF NoCall
<1>3. draft # Gone => draft.rev # 0
  BY RowTypes DEF Based, Typed
<1>4. NoCopy.rev = 0 /\ NoCopy.seen = {} /\ NoCopy.content = Blank
  BY DEF NoCopy
<1>5. CASE Compose(t)
  <2>1. /\ Others(t) /\ UNCHANGED <<draft, backup, strays>> /\ Pending' \subseteq Pending
        /\ tab'[t].step = "edit" /\ tab'[t].latest = Blank /\ tab'[t].rev = 0 /\ tab'[t].call = NoCall
        /\ tab'[t].seen = {} /\ tab'[t].copy = NoCopy
    BY <1>5, ComposeDoes
  <2>2. draft = Gone /\ Pending = {}
    BY <1>5, ComposeDoes, CloseType, NotWaiting DEF Pristine, Pending
  <2>3. TabSees(tab[t])'
    BY <1>2, <1>4, <2>1, <2>2 DEF TabSees, Seen
  <2>4. TabSeesFirst(tab[t])'
    BY <2>1, <2>2 DEF TabSeesFirst, SeesFirst, Gone
  <2> QED BY <1>1, <2>1, <2>3, <2>4, CopySeesStays, SightedStep
<1>6. CASE Resume(t)
  <2>1. /\ Others(t) /\ UNCHANGED <<draft, backup, strays>> /\ Pending' \subseteq Pending
        /\ tab'[t].step = "loading" /\ tab'[t].copy = backup /\ tab'[t].call = NoCall /\ tab'[t].latest = Blank
    BY <1>6, ResumeDoes
  <2>2. TabSees(tab[t])'
    BY <1>1, <1>2, <2>1 DEF TabSees, Seen, CopySees
  <2>3. TabSeesFirst(tab[t])'
    BY <1>1, <2>1 DEF TabSeesFirst, SeesFirst, CopySees, Fresh
  <2> QED BY <1>1, <2>1, <2>2, <2>3, CopySeesStays, SightedStep
<1>7. ASSUME Others(t), UNCHANGED <<draft, strays>>, backup' \in {backup, NoCopy}, Pending' \subseteq Pending,
             IsRow(tab'[t])
      PROVE  Sighted'
  <2>1. TabSees(tab[t])'
    BY <1>2, <1>3, <1>4, <1>7 DEF TabSees, Seen, IsRow
  <2>2. TabSeesFirst(tab[t])'
    BY <1>7 DEF TabSeesFirst, Fresh, IsRow
  <2> QED BY <1>1, <1>7, <2>1, <2>2, CopySeesStays, NothingToSee, SightedStep
<1>8. ASSUME Others(t), UNCHANGED <<draft, strays>>, backup' \in {backup, NoCopy}, Pending' \subseteq Pending,
             tab'[t].step \notin {"edit", "loading"}, tab'[t].call = NoCall, tab'[t].latest = Blank, tab'[t].copy = NoCopy
      PROVE  Sighted'
  <2>1. TabSees(tab[t])'
    BY <1>2, <1>3, <1>4, <1>8 DEF TabSees, Seen
  <2>2. TabSeesFirst(tab[t])'
    BY <1>8 DEF TabSeesFirst, Fresh
  <2> QED BY <1>1, <1>8, <2>1, <2>2, CopySeesStays, NothingToSee, SightedStep
<1>9. CASE Resumed(t)
  <2>1. /\ Others(t) /\ UNCHANGED <<draft, backup, strays>> /\ Pending' \subseteq Pending /\ tab[t].step = "loading"
    BY <1>9, ResumedDoes
  <2>2. CASE IsIdle(tab'[t])
    BY <1>8, <2>1, <2>2 DEF IsIdle
  <2>3. CASE IsRow(tab'[t])
    BY <1>7, <2>1, <2>3
  <2>4. CASE IsCopy(tab'[t], tab[t].copy) /\ tab[t].copy # NoCopy
    <3>1. TabSees(tab[t])'
      BY <1>1, <1>2, <1>3, <1>4, <2>1, <2>4 DEF TabSees, Seen, IsCopy
    <3>2. TabSeesFirst(tab[t])'
      BY <1>1, <2>1, <2>4 DEF TabSeesFirst, Fresh, SeesFirst, IsCopy
    <3> QED BY <1>1, <2>1, <3>1, <3>2, CopySeesStays, SightedStep
  <2> QED BY <1>9, <2>2, <2>3, <2>4, ResumedDoes
<1>10. CASE ReopenSaved(t)
  BY <1>7, <1>8, <1>10, ReopenSavedDoes, ClosedIsIdle DEF IsClosed
<1>11. CASE Drop(t)
  <2>1. CASE tab' = tab /\ backup' = NoCopy
    <3>1. Others(t) /\ UNCHANGED <<draft, strays>> /\ Pending' \subseteq Pending
      BY <1>11, DropDoes
    <3>2. TabSees(tab[t])' /\ TabSeesFirst(tab[t])'
      BY <1>1, <2>1, <3>1 DEF TabSees, Seen, SavedIn, TabSeesFirst, SeesFirst
    <3> QED BY <2>1, <3>1, <3>2, NothingToSee, SightedStep
  <2>2. CASE tab'[t].step = "dropping" /\ UNCHANGED backup
    BY <1>8, <1>11, <2>2, DropDoes, ClosedIsIdle DEF IsClosed
  <2> QED BY <1>11, <2>1, <2>2, DropDoes
<1>12. CASE Crash(t)
  BY <1>12, CrashDoes, ClosingSighted DEF Closes
<1>13. CASE Lose(t)
  <2>1. tab[t].step = "edit"
    BY <1>13, LoseDoes DEF Based, Whole, WholeTab
  <2>2. ~SavedIn(tab'[t].call)
    BY <1>13, LoseDoes DEF SavedIn
  <2> QED BY <1>13, <2>1, <2>2, LoseDoes, GoingOnSighted
<1> QED BY <1>5, <1>6, <1>9, <1>10, <1>11, <1>12, <1>13

\* The row changes: what the others have seen, they have still seen.
LEMMA RowSighted ==
  ASSUME Watching, RowMoves, backup' \in {backup, NoCopy}, strays' \subseteq strays,
         \A seen : SeesFirst(seen) => SeesFirst(seen)'
  PROVE  /\ CopySees'
         /\ \A r \in strays' : r.kind = "PATCH" => Seen(r.rev, r.seen)'
         /\ \A c \in Composers : TabKnows(c) /\ TabSees(c) => TabSees(c)'
         /\ \A c : TabSeesFirst(c) => TabSeesFirst(c)'
<1> USE DEF Watching, Ready
<1>0. Typed /\ Typed'
  BY DEF Based
<1>1. \A rev \in Nat : \A seen : Behind(rev) /\ Seen(rev, seen) => Seen(rev, seen)'
  BY <1>0, SeenLasts
<1>2. CopySees'
  <2>1. CASE backup' = NoCopy
    BY <2>1, NothingToSee
  <2>2. CASE backup' = backup
    <3>1. PICK k \in Copies : k = backup /\ k = backup'
      BY <2>2 DEF Based, Typed
    <3>2. Behind(k.rev) /\ Seen(k.rev, k.seen) /\ k.rev \in Nat /\ k.content \in {Blank} \cup k.seen
          /\ (k # NoCopy /\ k.rev = 0 => SeesFirst(k.seen))
      BY <3>1 DEF Informed, Sighted, CopySees, Copies
    <3>3. Seen(k.rev, k.seen)' /\ (k # NoCopy /\ k.rev = 0 => SeesFirst(k.seen)')
      BY <1>1, <3>2
    <3> QED BY <3>1, <3>2, <3>3 DEF CopySees, Seen, SeesFirst
  <2> QED BY <2>1, <2>2
<1>3. ASSUME NEW r \in strays', r.kind = "PATCH" PROVE Seen(r.rev, r.seen)'
  <2>1. Behind(r.rev) /\ Seen(r.rev, r.seen) /\ r.rev \in Nat
    BY <1>3 DEF Informed, RequestKnows, Sighted, Based, Typed, Requests
  <2> QED BY <1>1, <2>1
<1>4. ASSUME NEW c \in Composers, TabKnows(c), TabSees(c) PROVE TabSees(c)'
  <2>1. /\ Behind(c.rev) /\ Behind(c.copy.rev) /\ Behind(c.call.rev)
        /\ c.rev \in Nat /\ c.copy.rev \in Nat /\ c.call.rev \in Nat
    BY <1>4, TabTypes DEF TabKnows, RequestKnows
  <2>2. /\ c.step = "edit" => Seen(c.rev, c.seen)'
        /\ Seen(c.copy.rev, c.copy.seen)'
        /\ c.call.kind = "PATCH" => Seen(c.call.rev, c.call.seen)'
    BY <1>1, <1>4, <2>1 DEF TabSees
  <2> QED BY <1>4, <2>2 DEF TabSees, SavedIn
<1>5. ASSUME NEW c, TabSeesFirst(c) PROVE TabSeesFirst(c)'
  BY <1>5 DEF TabSeesFirst
<1> QED BY <1>2, <1>3, <1>4, <1>5

LEMMA ServedSees ==
  ASSUME Watching, ~Reborn, NEW t \in Tabs, ServeTab(t)
  PROVE  TabSees(tab[t])'
<1> USE DEF Watching, Ready
<1> DEFINE r == tab[t].call
<1>1. /\ Like(tab'[t], tab[t]) /\ tab'[t].rev = tab[t].rev
      /\ tab'[t].call.kind = r.kind /\ tab'[t].call.rev = r.rev
      /\ tab'[t].call.content = r.content /\ tab'[t].call.seen = r.seen
      /\ tab'[t].call.got = draft' /\ tab'[t].call.answer = IF Ok(r) THEN "ok" ELSE "conflict"
      /\ r \in Requests /\ r \in Pending /\ Serve(r) /\ tab[t].step = "edit" /\ Pending' \subseteq Pending
  BY ServeTabDoes
<1>2. /\ TabSees(tab[t]) /\ TabSeesFirst(tab[t]) /\ tab[t] \in Composers /\ TabKnows(tab[t])
      /\ draft \in Rows /\ WholeTab(tab[t])
  BY DEF Sighted, Based, Typed, Informed, Whole
<1>3. RowMoves
  BY <1>1, ServeMoves
<1>4. PICK c \in Composers : c = tab[t]
  BY <1>2
<1>5. TabSees(c)'
  <2>1. \A seen : SeesFirst(seen) => SeesFirst(seen)'
    BY <1>1, SeesFirstLasts
  <2>2. backup' \in {backup, NoCopy} /\ strays' \subseteq strays
    BY ServeTabDoes
  <2> QED BY <1>2, <1>3, <1>4, <2>1, <2>2, RowSighted
<1>6. Ok(r) /\ (r.kind = "PATCH" \/ (r.kind = "POST" /\ draft'.rev = 1)) => draft'.content \in tab[t].seen
  <2>1. CASE r.kind = "PATCH" /\ Ok(r)
    <3>1. Update(r) /\ Writable(r.rev)
      BY <1>1, <2>1 DEF Serve, Create, Update, Handover, Discard, Ok
    <3>2. draft \in DraftRow
      BY <1>2, <3>1 DEF Writable, Rows, Gone
    <3>3. draft'.content = r.content
      BY <3>1, <3>2 DEF Update, DraftRow
    <3> QED BY <1>2, <2>1, <3>3 DEF TabSees
  <2>2. CASE r.kind = "POST" /\ Ok(r) /\ draft'.rev = 1
    <3>1. Create(r) /\ draft.status # "consumed"
      BY <1>1, <2>2 DEF Serve, Create, Update, Handover, Discard, Ok
    <3>2. CASE draft = Gone
      BY <1>2, <2>2, <3>1, <3>2 DEF Create, TabSees
    <3>3. CASE draft # Gone
      <4>1. draft.status = "active" /\ draft' = draft
        BY <1>2, <3>1, <3>3, RowTypes DEF Create
      <4>2. Fresh(tab[t])
        BY <1>1, <1>2, <2>2 DEF WholeTab, Fresh
      <4> QED BY <1>1, <1>2, <2>2, <4>1, <4>2 DEF TabSeesFirst, SeesFirst
    <3> QED BY <3>2, <3>3
  <2> QED BY <2>1, <2>2
<1>7. PICK d \in Composers : d = tab'[t]
  BY DEF Typed
<1>8. TabSees(d)'
  <2>1. SavedIn(d.call) /\ (d.call.kind = "PATCH" \/ d.call.got.rev = 1) => d.call.got.content \in d.seen
    BY <1>1, <1>6, <1>7 DEF SavedIn, Like
  <2>2. /\ d.step = c.step /\ d.latest = c.latest /\ d.seen = c.seen /\ d.copy = c.copy /\ d.rev = c.rev
        /\ d.call.kind = c.call.kind /\ d.call.rev = c.call.rev /\ d.call.content = c.call.content
        /\ d.call.seen = c.call.seen
    BY <1>1, <1>4, <1>7 DEF Like
  <2> QED BY <1>5, <2>1, <2>2 DEF TabSees
<1> QED BY <1>7, <1>8 DEF TabSees, Seen, SavedIn

LEMMA SightedKept ==
  ASSUME Watching, ~Reborn, [Next]_vars
  PROVE  Sighted'
<1> USE DEF Watching, Ready
<1>1. ASSUME NEW t \in Tabs, Dropped(t) \/ ServeTab(t) PROVE Sighted'
  <2>1. Others(t) /\ backup' \in {backup, NoCopy} /\ strays' = strays
    BY <1>1, DroppedDoes, ServeTabDoes DEF Closes
  <2>2. RowMoves
    <3>1. CASE Dropped(t)
      BY <3>1, DroppedDoes DEF RowMoves
    <3>2. CASE ServeTab(t)
      BY <3>2, ServeTabDoes, ServeMoves
    <3> QED BY <1>1, <3>1, <3>2
  <2>3. \A seen : SeesFirst(seen) => SeesFirst(seen)'
    <3>1. CASE Dropped(t)
      BY <3>1, DroppedDoes DEF SeesFirst, Gone, Closes
    <3>2. CASE ServeTab(t)
      BY <3>2, ServeTabDoes, SeesFirstLasts
    <3> QED BY <1>1, <3>1, <3>2
  <2>4. /\ CopySees'
        /\ \A r \in strays' : r.kind = "PATCH" => Seen(r.rev, r.seen)'
        /\ \A c \in Composers : TabKnows(c) /\ TabSees(c) => TabSees(c)'
        /\ \A c : TabSeesFirst(c) => TabSeesFirst(c)'
    BY <2>1, <2>2, <2>3, RowSighted
  <2>5. ASSUME NEW u \in Tabs \ {t} PROVE TabSees(tab[u])' /\ TabSeesFirst(tab[u])'
    <3>1. PICK c \in Composers : c = tab[u] /\ c = tab'[u]
      BY <2>1 DEF Others, Based, Typed
    <3>2. TabKnows(c) /\ TabSees(c) /\ TabSeesFirst(c)
      BY <3>1 DEF Informed, Sighted
    <3>3. TabSees(c)' /\ TabSeesFirst(c)'
      BY <2>4, <3>2
    <3> QED BY <3>1, <3>3 DEF TabSees, Seen, SavedIn, TabSeesFirst, SeesFirst
  <2>6. TabSees(tab[t])' /\ TabSeesFirst(tab[t])'
    <3>1. CASE Dropped(t)
      <4>1. PICK c : c = tab'[t] /\ c = Closed
        BY <3>1, DroppedDoes DEF Closes
      <4>2. TabSees(c)' /\ ~Fresh(c)
        BY <4>1, ClosedSees
      <4> QED BY <4>1, <4>2 DEF TabSees, Seen, SavedIn, TabSeesFirst
    <3>2. CASE ServeTab(t)
      <4>1. PICK c, d : c = tab[t] /\ d = tab'[t]
        OBVIOUS
      <4>2. TabSeesFirst(c) /\ Like(d, c) /\ d.rev = c.rev
        BY <3>2, <4>1, ServeTabDoes DEF Sighted
      <4>3. TabSeesFirst(c)'
        BY <2>4, <4>2
      <4>4. TabSeesFirst(d)'
        BY <4>2, <4>3 DEF TabSeesFirst, Fresh, Like
      <4>5. TabSeesFirst(tab[t])'
        BY <4>1, <4>4 DEF TabSeesFirst, SeesFirst
      <4> QED BY <3>2, <4>5, ServedSees
    <3> QED BY <1>1, <3>1, <3>2
  <2> QED BY <2>4, <2>5, <2>6 DEF Sighted
<1>2. CASE ServeStray
  <2>1. PICK r \in strays : r \in Requests /\ Serve(r) /\ r \in Pending
    BY <1>2, ServeStrayDoes
  <2>2. UNCHANGED <<tab, backup>> /\ Pending' \subseteq Pending /\ strays' \subseteq strays
    BY <1>2, ServeStrayDoes
  <2>3. RowMoves /\ \A seen : SeesFirst(seen) => SeesFirst(seen)'
    BY <2>1, <2>2, ServeMoves, SeesFirstLasts
  <2>4. /\ CopySees'
        /\ \A r1 \in strays' : r1.kind = "PATCH" => Seen(r1.rev, r1.seen)'
        /\ \A c \in Composers : TabKnows(c) /\ TabSees(c) => TabSees(c)'
        /\ \A c : TabSeesFirst(c) => TabSeesFirst(c)'
    BY <2>2, <2>3, RowSighted
  <2>5. ASSUME NEW u \in Tabs PROVE TabSees(tab[u])' /\ TabSeesFirst(tab[u])'
    <3>1. PICK c \in Composers : c = tab[u] /\ c = tab'[u]
      BY <2>2 DEF Based, Typed
    <3>2. TabKnows(c) /\ TabSees(c) /\ TabSeesFirst(c)
      BY <3>1 DEF Informed, Sighted
    <3>3. TabSees(c)' /\ TabSeesFirst(c)'
      BY <2>4, <3>2
    <3> QED BY <3>1, <3>3 DEF TabSees, Seen, SavedIn, TabSeesFirst, SeesFirst
  <2> QED BY <2>4, <2>5 DEF Sighted
<1>3. CASE UNCHANGED vars
  BY <1>3 DEF vars, Sighted, CopySees, TabSees, TabSeesFirst, Seen, SavedIn, SeesFirst, Pending
<1> QED BY <1>1, <1>2, <1>3, EditSighted, SavingSighted, ProceedSighted, SaveAnsweredSighted, LeaveSighted,
           ListSighted DEF Next

-----------------------------------------------------------------------------
(* The theorems *)

LEMMA InitIInv == DraftAssumption /\ Init => IInv
<1> SUFFICES ASSUME DraftAssumption, Init PROVE IInv
  OBVIOUS
<1>1. /\ draft = Gone /\ dropped = FALSE /\ sent = <<>> /\ tab = [t \in Tabs |-> Closed] /\ backup = NoCopy
      /\ strays = {} /\ alone = TRUE /\ kept = Blank
      /\ budget = [edits |-> MaxEdits, opens |-> MaxOpens, faults |-> MaxFaults]
  BY DEF Init
<1>2. MaxEdits \in Nat /\ MaxOpens \in Nat /\ MaxFaults \in Nat
  BY DEF DraftAssumption
<1>3. Typed
  <2>1. budget \in [edits : 0..MaxEdits, opens : 0..MaxOpens, faults : 0..MaxFaults]
    BY <1>1, <1>2
  <2>2. sent \in Seq([content : Contents, shown : Contents])
    BY <1>1
  <2>3. tab \in [Tabs -> Composers] /\ draft \in Rows /\ backup \in Copies /\ kept \in Texts
    BY <1>1, SmallTypes DEF Texts
  <2> QED BY <1>1, <2>1, <2>2, <2>3 DEF Typed
<1>4. Whole
  BY <1>1, CloseType DEF Whole, WholeCopy
<1>5. Once /\ AsShown
  BY <1>1 DEF Once, AsShown, Gone
<1>6. Pristine
  BY <1>1 DEF Pristine
<1>8. Informed
  BY <1>1, <1>3, ClosedKnows DEF Informed
<1>9. Numbered
  <2>1. Used = 0 /\ NoCopy.content = 0 /\ Gone.content = 0 /\ NoCall.content = 0 /\ NoCall.got.content = 0
    BY <1>1, <1>2 DEF Used, NoCopy, Gone, NoCall, Blank
  <2>2. Within(Closed, 0)
    BY <2>1 DEF Within, Closed, Blank
  <2> QED BY <1>1, <2>1, <2>2 DEF Numbered
<1>10. Pending = {} /\ IsClosed(Closed)
  BY <1>1, CloseType, NotWaiting, ClosedIsIdle DEF Pending
<1>11. OneOpen /\ Unlearned /\ Learned /\ WriterHasKept /\ LastKept /\ OneFresh
  BY <1>1, <1>10 DEF OneOpen, Open, Unlearned, Learned, TabLearned, WriterHasKept, LastKept, Kept, OneFresh, Fresh,
                     IsClosed
<1>12. Sighted
  <2>1. TabSees(Closed) /\ ~Fresh(Closed)
    BY <1>1, <1>10 DEF IsClosed, TabSees, Fresh, Seen, NoCall, NoCopy, SavedIn, Blank
  <2>2. CopySees
    BY <1>1 DEF CopySees, Seen, NoCopy, Blank
  <2> QED BY <1>1, <2>1, <2>2 DEF Sighted, TabSeesFirst
<1> QED BY <1>3, <1>4, <1>5, <1>6, <1>8, <1>9, <1>11, <1>12 DEF IInv

LEMMA StepIInv == DraftAssumption /\ IInv /\ [Next]_vars => IInv'
<1> SUFFICES ASSUME DraftAssumption, IInv, [Next]_vars PROVE IInv'
  OBVIOUS
<1>1. Based /\ Once /\ Pristine
  BY DEF IInv, Based
<1>2. Typed' /\ Whole' /\ Once'
  BY <1>1, TypesKept
<1>3. Pristine' /\ Ready
  BY <1>1, <1>2, PristineKept DEF Ready
<1>4. ASSUME ~Reborn
      PROVE  Informed' /\ AsShown' /\ Numbered' /\ OneOpen' /\ Unlearned' /\ Learned' /\ WriterHasKept' /\ LastKept'
  <2>1. Informed /\ AsShown /\ Numbered /\ OneOpen /\ Unlearned /\ Learned /\ WriterHasKept /\ LastKept
    BY <1>4 DEF IInv
  <2>2. Informed' /\ AsShown'
    BY <1>1, <1>4, <2>1, InformedKept, AsShownKept DEF Told
  <2>3. LastKept'
    BY <1>3, <2>1, LastKeptKept DEF Keeping
  <2> QED BY <1>3, <2>1, <2>2, <2>3, NumberedKept, OneOpenKept, UnlearnedKept, LearnedKept, WriterHasKeptKept
<1>5. ASSUME ~Reborn, ~TwoTabsNew PROVE Sighted' /\ OneFresh'
  <2>1. Informed /\ Numbered /\ Sighted /\ OneFresh
    BY <1>5 DEF IInv
  <2> QED BY <1>3, <1>5, <2>1, SightedKept, OneFreshKept DEF Watching
<1> QED BY <1>2, <1>3, <1>4, <1>5 DEF IInv

\* The invariant of drafts: their types, the single hand-over, and under ~Reborn what tabs,
\* requests and recovery copies know of the row (draft-service.ts, mail-composer.tsx).
THEOREM DraftInvariantHolds ==
  ASSUME DraftAssumption
  PROVE  Spec => []IInv
<1>1. Init => IInv
  BY InitIInv
<1>2. IInv /\ [Next]_vars => IInv'
  BY StepIInv
<1> QED BY <1>1, <1>2, PTL DEF Spec

LEMMA IInvTypeOK == IInv => TypeOK
<1> SUFFICES ASSUME IInv PROVE TypeOK
  OBVIOUS
<1>1. Typed /\ Whole
  BY DEF IInv
<1>2. draft \in {Gone} \cup DraftRow /\ \A i \in DOMAIN sent : sent[i] \in [content : Contents, shown : Contents]
  <2>1. draft \in {Gone} \cup DraftRow
    BY <1>1 DEF Typed, Rows
  <2>2. \A i \in DOMAIN sent : sent[i] \in [content : Contents, shown : Contents]
    <3> DEFINE S == [content : Contents, shown : Contents]
    <3>1. sent \in Seq(S)
      BY <1>1 DEF Typed
    <3> HIDE DEF S
    <3>2. \A i \in DOMAIN sent : sent[i] \in S
      BY <3>1
    <3> QED BY <3>2 DEF S
  <2> QED BY <2>1, <2>2
<1>3. backup.content \in {Blank} \cup Contents /\ backup.rev \in Revisions /\ kept \in {Blank} \cup Contents
  BY <1>1 DEF Typed, Copies, Texts, Revisions
<1>4. ASSUME NEW t \in Tabs
      PROVE  /\ tab[t].step \in {"closed", "loading", "stale", "dropping", "edit"}
             /\ tab[t].wish \in {"none", "send", "discard", "close"}
             /\ tab[t].latest \in {Blank} \cup Contents /\ tab[t].saved \in {Blank} \cup Contents
             /\ tab[t].rev \in Revisions /\ tab[t].seen \subseteq Contents
             /\ tab[t].call.kind \in {"none", "POST", "PATCH", "SEND", "DELETE"}
             /\ tab[t].call.answer \in {"none", "ok", "conflict", "failed"}
             /\ tab[t].stopped => tab[t].wish = "discard"
             /\ tab[t].step = "closed" => tab[t] = Closed
  <2>1. tab[t] \in Composers /\ tab[t].call \in Requests /\ WholeTab(tab[t])
    BY <1>1, TabTypes DEF Typed, Whole
  <2> QED BY <2>1 DEF Composers, Requests, WholeTab, Texts, Revisions
<1> QED BY <1>2, <1>3, <1>4 DEF TypeOK

\* A draft is consumed by one hand-over at most, however often Send is repeated after lost answers,
\* from any number of tabs, even when a create comes after a discard (outgoing-message-service.ts).
THEOREM ConsumedOnce ==
  ASSUME DraftAssumption
  PROVE  Spec => [](TypeOK /\ Len(sent) = IF draft.status = "consumed" THEN 1 ELSE 0)
<1>1. IInv => TypeOK /\ Len(sent) = IF draft.status = "consumed" THEN 1 ELSE 0
  BY IInvTypeOK DEF IInv, Once
<1> QED BY <1>1, DraftInvariantHolds, PTL

\* What is handed over is what the tab that sent it was showing, if no create comes after a discard.
THEOREM SentIsWhatWasShown ==
  ASSUME DraftAssumption, ~Reborn
  PROVE  Spec => []SentOnceAsShown
<1>1. IInv => SentOnceAsShown
  BY IInvTypeOK DEF IInv, Once, AsShown, SentOnceAsShown
<1> QED BY <1>1, DraftInvariantHolds, PTL

\* While one tab at a time has the draft, the last edit is in the recovery copy or on the server
\* (backup() and the save loop of mail-composer.tsx), through crashes and lost or late requests; but
\* an edit made while a discard waits is kept nowhere before the next save or edit.
THEOREM LastEditIsKept ==
  ASSUME DraftAssumption, ~Reborn
  PROVE  Spec => []LastEditKept
<1>1. IInv => LastEditKept
  BY DEF IInv, LastKept, Kept, CopyKept, Safe, LastEditKept
<1> QED BY <1>1, DraftInvariantHolds, PTL

LEMMA RequestSees ==
  ASSUME IInv, ~Reborn, ~TwoTabsNew, NEW r \in Requests, r.kind = "PATCH" => Seen(r.rev, r.seen), Serve(r)
  PROVE  Overwrites(r)
<1>1. draft \in Rows
  BY DEF IInv, Typed
<1>2. CASE Create(r)
  BY <1>2 DEF Create, Overwrites, Gone
<1>3. CASE Update(r)
  BY <1>3 DEF Update, Writable, Seen, Gone, Overwrites
<1>4. CASE Handover(r)
  <2>1. CASE Writable(r.rev)
    <3>1. draft \in DraftRow
      BY <1>1, <2>1 DEF Writable, Rows, Gone
    <3>2. draft'.content = draft.content
      BY <1>4, <2>1, <3>1 DEF Handover, DraftRow
    <3> QED BY <3>2 DEF Overwrites
  <2> QED BY <1>4, <2>1 DEF Handover, Overwrites
<1>5. CASE Discard(r)
  BY <1>5 DEF Discard, Overwrites, Gone
<1> QED BY <1>2, <1>3, <1>4, <1>5 DEF Serve

\* A text on the server is replaced only by a writer who has had it in front of them, if no create
\* comes after a discard and a draft the server has not answered for is open in one tab only.
THEOREM NothingOverwrittenUnseen ==
  ASSUME DraftAssumption, ~Reborn, ~TwoTabsNew
  PROVE  Spec => NoSilentOverwrite
<1>1. ASSUME IInv, [Next]_vars
      PROVE  [/\ \A t \in Tabs : ServeTab(t) => Overwrites(tab[t].call)
              /\ \A r \in strays : r \notin strays' => Overwrites(r)]_vars
  <2>1. Based /\ Once /\ Sighted
    BY <1>1 DEF IInv, Based
  <2>2. ASSUME NEW t \in Tabs, ServeTab(t) PROVE Overwrites(tab[t].call)
    <3>1. Typed'
      BY <1>1, <2>1, TypesKept
    <3>2. tab[t].call \in Requests /\ Serve(tab[t].call)
      BY <2>1, <2>2, <3>1, ServeTabDoes
    <3>3. tab[t].call.kind = "PATCH" => Seen(tab[t].call.rev, tab[t].call.seen)
      BY <2>1 DEF Sighted, TabSees
    <3> QED BY <1>1, <3>2, <3>3, RequestSees
  <2>3. ASSUME NEW r \in strays, r \notin strays', ~UNCHANGED vars PROVE Overwrites(r)
    <3>1. CASE ServeStray
      <4>1. Serve(r) /\ r \in Requests
        BY <2>1, <2>3, <3>1 DEF ServeStray, Based, Typed
      <4> QED BY <1>1, <2>1, <4>1, RequestSees DEF Sighted
    <3>2. ASSUME NEW t \in Tabs, TabMoves(t) PROVE FALSE
      BY <2>3, <3>2 DEF TabMoves, Compose, Edit, Save, Click, Proceed, SaveAnswered, Answered, Leave, Crash, Resume,
                        Resumed, ReopenSaved, Drop, Dropped, ServeTab, Lose
    <3> QED BY <1>1, <2>3, <3>1, <3>2 DEF Next, TabMoves
  <2> QED BY <2>2, <2>3
<1> QED BY <1>1, DraftInvariantHolds, PTL DEF Spec, NoSilentOverwrite
=============================================================================
