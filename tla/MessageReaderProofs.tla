------------------------- MODULE MessageReaderProofs -------------------------
(***************************************************************************)
(* The pane shows the open message, and a prepared answer answers it and     *)
(* takes the place of no composer, for any number of messages, requests that *)
(* fail and polls.  The guards of PrepareEnds do not look at the composer:    *)
(* it is closed because whatever opens it ends the preparation (OneAtATime).  *)
(***************************************************************************)
EXTENDS MessageReader, FiniteSetTheorems, SequenceTheorems, WellFoundedInduction, TLAPS

\* A load, and a preparation, are of a message that is open.
LoadsSelected == load.pc # "none" => selected # None
PreparesSelected == prepare.pc # "none" => selected # None

\* While an answer is prepared, nothing is written.
OneAtATime == prepare.pc # "none" => ~composing.open

IInv == TypeOK /\ ShowsSelected /\ LoadsSelected /\ PreparesSelected /\ OneAtATime

\* The types of the records.
Details == [id : Messages \cup {None}, status : Contents]
Loads == [pc : {"none", "get", "got", "post", "wait", "cleared"}, status : Contents]
Retries == [pc : {"none", "asked", "queued", "failed"}, of : Messages \cup {None}]
Preparations == [pc : {"none", "asked", "answered", "wait"}, answer : {"pending", "ready", "error"}, attempts : 0..MaxAttempts]
Composers == [open : BOOLEAN, of : Messages \cup {None}]
Budgets == [selects : Nat, faults : Nat]

LEMMA Numbers == MaxAttempts \in Nat \ {0} /\ MaxSelects \in Nat /\ MaxFaults \in Nat
<1>1. MaxAttempts \in Nat \ {0} /\ {MaxSelects, MaxFaults} \subseteq Nat
  BY ReaderAssumption, Zenon DEF ReaderAssumption
<1> QED BY <1>1

LEMMA ConstantRecords ==
  /\ NoDetail \in Details /\ NoDetail.id = None
  /\ Idle \in Loads /\ Idle.pc = "none"
  /\ NoRetry \in Retries
  /\ NoPrepare \in Preparations /\ NoPrepare.pc = "none"
  /\ Reading \in Composers /\ ~Reading.open /\ Reading.of = None
<1>1. NoDetail \in Details /\ NoDetail.id = None
  BY DEF NoDetail, Details, Contents
<1>2. Idle \in Loads /\ Idle.pc = "none"
  BY DEF Idle, Loads, Contents
<1>3. NoRetry \in Retries
  BY DEF NoRetry, Retries
<1>4. NoPrepare \in Preparations /\ NoPrepare.pc = "none"
  BY Numbers DEF NoPrepare, Preparations
<1>5. Reading \in Composers /\ ~Reading.open /\ Reading.of = None
  BY DEF Reading, Composers
<1> QED BY <1>1, <1>2, <1>3, <1>4, <1>5

LEMMA BegunLoad == Begun \in Loads /\ Begun.pc = "get"
BY DEF Begun, Idle, Loads, Contents

LEMMA SpendType == ASSUME budget \in Budgets, NEW what \in {"selects", "faults"}, Spend(what) PROVE budget' \in Budgets
BY DEF Budgets, Spend

LEMMA RequestedType ==
  ASSUME content \in [Messages -> Contents], NEW m PROVE Requested(m) \in [Messages -> Contents]
BY DEF Requested, Contents

LEMMA InitHolds == Init => IInv
<1> SUFFICES ASSUME Init PROVE IInv
  OBVIOUS
<1>1. content \in [Messages -> Contents] /\ image \in [Messages -> {"not_fetched", "pending", "done"}]
  BY DEF Init, Contents
<1>2. budget \in Budgets
  BY Numbers DEF Init, Budgets
<1>3. TypeOK
  BY <1>1, <1>2, ConstantRecords DEF Init, TypeOK, Details, Loads, Retries, Preparations, Composers, Budgets
<1>4. ShowsSelected /\ LoadsSelected /\ PreparesSelected /\ OneAtATime
  BY ConstantRecords DEF Init, ShowsSelected, LoadsSelected, PreparesSelected, OneAtATime
<1> QED BY <1>3, <1>4 DEF IInv
(* One lemma per part of the next-state relation. *)

\* Another message is opened, or none.
LEMMA SelectKeeps ==
  ASSUME IInv, NEW m \in Messages \cup {None}, Select(m)
  PROVE  IInv'
<1> USE DEF IInv
<1>1. budget' \in Budgets
  BY SpendType DEF Select, TypeOK, Budgets
<1>2. late' \in Details
  <2>1. load.pc = "got" => [id |-> selected, status |-> load.status] \in Details
    BY DEF TypeOK, Details
  <2> QED BY <2>1 DEF Select, Late, TypeOK, Details
<1>3. overdue' \in Messages \cup {None}
  BY DEF Select, Overdue, TypeOK
<1>4. load' \in Loads /\ (load'.pc # "none" => m # None)
  BY ConstantRecords, BegunLoad DEF Select
<1>5. loading' \in BOOLEAN /\ failed' \in BOOLEAN
  BY Zenon DEF Select
<1>6. TypeOK'
  BY <1>1, <1>2, <1>3, <1>4, <1>5, ConstantRecords DEF Select, TypeOK, Details, Loads, Preparations, Budgets
<1>7. ShowsSelected' /\ LoadsSelected' /\ PreparesSelected' /\ OneAtATime'
  BY <1>4, ConstantRecords DEF Select, ShowsSelected, LoadsSelected, PreparesSelected, OneAtATime
<1> QED BY <1>6, <1>7

\* A notification is clicked: of another message, or of the one that is open.
LEMMA NotifiedKeeps ==
  ASSUME IInv, NEW m \in Messages, Notified(m)
  PROVE  IInv'
<1> USE DEF IInv
<1>1. budget' \in Budgets
  BY SpendType DEF Notified, TypeOK, Budgets
<1>2. late' \in Details
  <2>1. load.pc = "got" => [id |-> selected, status |-> load.status] \in Details
    BY DEF TypeOK, Details
  <2> QED BY <2>1 DEF Notified, Late, TypeOK, Details
<1>3. overdue' \in Messages \cup {None}
  BY DEF Notified, Overdue, TypeOK
<1>4. load' \in Loads
  <2>1. load \in Loads
    BY DEF TypeOK, Loads
  <2>2. [Idle EXCEPT !.pc = "cleared"] \in Loads
    BY DEF Idle, Loads, Contents
  <2> QED BY <2>1, <2>2, BegunLoad DEF Notified
<1>5. prepare' \in {prepare, NoPrepare} /\ prepare \in Preparations
  BY DEF Notified, TypeOK, Preparations
<1>6. m # None
  BY ReaderAssumption DEF ReaderAssumption
<1>7. TypeOK'
  BY <1>1, <1>2, <1>3, <1>4, <1>5, ConstantRecords DEF Notified, TypeOK, Details, Loads, Preparations, Composers, Budgets
<1>8. ShowsSelected' /\ LoadsSelected' /\ PreparesSelected' /\ OneAtATime'
  BY <1>6, ConstantRecords DEF Notified, ShowsSelected, LoadsSelected, PreparesSelected, OneAtATime
<1> QED BY <1>7, <1>8

\* The worker, and the poll of the detail.
LEMMA LoadKeeps ==
  ASSUME IInv, (\E m \in Messages : Fetch(m)) \/ Load \/ LoadFails \/ LateAnswer \/ RetryMessage
  PROVE  IInv'
<1> USE DEF IInv, tab, answers
<1>1. ASSUME NEW m \in Messages, Fetch(m) PROVE IInv'
  <2>1. budget' \in Budgets
    BY <1>1, SpendType DEF Fetch, TypeOK, Budgets
  <2>2. content' \in [Messages -> Contents] /\ image' \in [Messages -> {"not_fetched", "pending", "done"}]
    BY <1>1 DEF Fetch, TypeOK, Contents
  <2>3. UNCHANGED <<tab, answers>>
    BY <1>1 DEF Fetch
  <2> QED BY <2>1, <2>2, <2>3 DEF TypeOK, Budgets, ShowsSelected, LoadsSelected, PreparesSelected, OneAtATime
<1>2. CASE Get
  <2>1. selected \in Messages
    BY <1>2 DEF Get, LoadsSelected, TypeOK
  <2>2. load' \in Loads /\ load'.pc = "got"
    BY <1>2, <2>1 DEF Get, TypeOK, Loads
  <2> QED BY <1>2, <2>1, <2>2 DEF Get, TypeOK, Loads, ShowsSelected, LoadsSelected, PreparesSelected, OneAtATime
<1>3. CASE Got
  <2>1. detail' \in Details /\ detail'.id = selected
    BY <1>3 DEF Got, TypeOK, Details
  <2>2. selected # None
    BY <1>3 DEF Got, LoadsSelected
  <2>3. load' \in Loads
    BY <1>3 DEF Got, Idle, Loads, Contents
  <2>4. TypeOK'
    <3>1. loading' \in BOOLEAN
      BY <1>3, Zenon DEF Got
    <3>2. UNCHANGED <<content, image, selected, failed, late, retry, answers, budget>>
      BY <1>3 DEF Got
    <3> QED BY <2>1, <2>3, <3>1, <3>2 DEF TypeOK, Details, Loads
  <2> QED BY <1>3, <2>1, <2>2, <2>4 DEF Got, ShowsSelected, LoadsSelected, PreparesSelected, OneAtATime
<1>4. CASE Post \/ ScheduleNext
  <2>1. load' \in Loads /\ selected # None
    BY <1>4 DEF Post, ScheduleNext, Begun, Idle, Loads, Contents, LoadsSelected
  <2>2. content' \in [Messages -> Contents]
    BY <1>4, RequestedType DEF Post, ScheduleNext, TypeOK
  <2>3. UNCHANGED <<image, selected, detail, loading, failed, late, retry, answers, budget>>
    BY <1>4 DEF Post, ScheduleNext
  <2> QED BY <2>1, <2>2, <2>3 DEF TypeOK, Loads, ShowsSelected, LoadsSelected, PreparesSelected, OneAtATime
<1>5. CASE LoadFails
  <2>1. budget' \in Budgets
    BY <1>5, SpendType DEF LoadFails, TypeOK, Budgets
  <2>2. loading' \in BOOLEAN /\ failed' \in BOOLEAN
    BY <1>5, Zenon DEF LoadFails
  <2> QED BY <1>5, <2>1, <2>2, ConstantRecords
        DEF LoadFails, TypeOK, Loads, Budgets, ShowsSelected, LoadsSelected, PreparesSelected, OneAtATime
<1>6. CASE LateAnswer
  BY <1>6, ConstantRecords
     DEF LateAnswer, Heeded, TypeOK, Details, ShowsSelected, LoadsSelected, PreparesSelected, OneAtATime
<1>7. CASE RetryMessage
  <2>1. loading' \in BOOLEAN /\ failed' \in BOOLEAN
    BY <1>7, Zenon DEF RetryMessage
  <2> QED BY <1>7, <2>1, BegunLoad DEF RetryMessage, TypeOK, Loads, ShowsSelected, LoadsSelected, PreparesSelected, OneAtATime
<1> QED BY <1>1, <1>2, <1>3, <1>4, <1>5, <1>6, <1>7 DEF Load

\* The download is tried again; its answer marks what is shown by then.
LEMMA RetryKeeps ==
  ASSUME IInv, RetryContent \/ RetryAnswer \/ RetryEnds
  PROVE  IInv'
<1> USE DEF IInv, answers
<1>1. CASE RetryContent
  <2>1. retry' \in Retries
    BY <1>1 DEF RetryContent, TypeOK, Retries
  <2>2. failed' \in BOOLEAN
    BY <1>1, Zenon DEF RetryContent
  <2> QED BY <1>1, <2>1, <2>2
        DEF RetryContent, TypeOK, Retries, ShowsSelected, LoadsSelected, PreparesSelected, OneAtATime
<1>2. CASE RetryAnswer
  <2>1. retry' \in Retries
    BY <1>2 DEF RetryAnswer, TypeOK, Retries
  <2>2. content' \in [Messages -> Contents]
    BY <1>2, RequestedType DEF RetryAnswer, TypeOK
  <2>3. budget' \in Budgets
    BY <1>2, SpendType DEF RetryAnswer, TypeOK, Budgets
  <2>4. UNCHANGED <<image, selected, detail, loading, failed, load, late, answers>>
    BY <1>2 DEF RetryAnswer
  <2> QED BY <2>1, <2>2, <2>3, <2>4
        DEF TypeOK, Retries, Budgets, ShowsSelected, LoadsSelected, PreparesSelected, OneAtATime
<1>3. CASE RetryEnds
  <2>1. detail' \in Details /\ detail'.id = detail.id
    BY <1>3 DEF RetryEnds, TypeOK, Details, Contents
  <2>2. load' \in Loads /\ (load'.pc # "none" => selected # None)
    BY <1>3, BegunLoad DEF RetryEnds, Reloaded, TypeOK, Loads, LoadsSelected
  <2>3. failed' \in BOOLEAN /\ retry' \in Retries
    BY <1>3, ConstantRecords DEF RetryEnds, TypeOK
  <2>4. UNCHANGED <<content, image, selected, loading, late, answers, budget>>
    BY <1>3 DEF RetryEnds
  <2> QED BY <2>1, <2>2, <2>3, <2>4
        DEF TypeOK, Details, Loads, Retries, ShowsSelected, LoadsSelected, PreparesSelected, OneAtATime
<1> QED BY <1>1, <1>2, <1>3

\* An answer is prepared, a composer opens and closes.
LEMMA AnswerKeeps ==
  ASSUME IInv, Prepare \/ Answer \/ OverdueAnswer \/ Compose \/ Close
  PROVE  IInv'
<1> USE DEF IInv, tab
<1>1. CASE Prepare
  <2>1. prepare' \in Preparations
    BY <1>1, ConstantRecords DEF Prepare, Preparations
  <2>2. /\ UNCHANGED <<content, image, tab, overdue, composing, budget>>
        /\ preparing' = selected /\ refused' = FALSE /\ ~composing.open /\ selected # None
    BY <1>1 DEF Prepare
  <2>3. TypeOK'
    <3>1. TypeOK /\ preparing' \in Messages \cup {None} /\ refused' \in BOOLEAN
      BY <2>2 DEF TypeOK
    <3>2. /\ content' = content /\ image' = image /\ selected' = selected /\ detail' = detail
          /\ loading' = loading /\ failed' = failed /\ load' = load /\ late' = late /\ retry' = retry
          /\ overdue' = overdue /\ composing' = composing /\ budget' = budget
      BY <2>2
    <3> HIDE DEF IInv
    <3> QED BY <2>1, <3>1, <3>2 DEF TypeOK, Preparations
  <2> QED BY <2>2, <2>3 DEF ShowsSelected, LoadsSelected, PreparesSelected, OneAtATime
<1>2. CASE Prepared
  <2>1. PICK answer \in {"pending", "ready", "error"} : prepare' = [prepare EXCEPT !.pc = "answered", !.answer = answer]
    BY <1>2 DEF Prepared
  <2>2. prepare' \in Preparations
    BY <2>1 DEF TypeOK, Preparations
  <2>3. content' \in [Messages -> Contents] /\ image' \in [Messages -> {"not_fetched", "pending", "done"}]
    BY <1>2, RequestedType DEF Prepared, TypeOK
  <2>4. budget' \in Budgets
    BY <1>2, SpendType DEF Prepared, TypeOK, Budgets
  <2>5. UNCHANGED <<tab, preparing, overdue, refused, composing>> /\ prepare.pc # "none"
    BY <1>2 DEF Prepared
  <2> QED BY <2>2, <2>3, <2>4, <2>5
        DEF TypeOK, Preparations, Budgets, ShowsSelected, LoadsSelected, PreparesSelected, OneAtATime
<1>3. CASE PrepareEnds
  <2>1. prepare' \in Preparations
    <3>1. CASE prepare' = NoPrepare
      BY <3>1, ConstantRecords
    <3>2. CASE prepare.attempts + 1 < MaxAttempts /\ prepare' = [prepare EXCEPT !.pc = "wait", !.attempts = @ + 1]
      <4>1. prepare \in Preparations
        BY DEF TypeOK, Preparations
      <4>2. prepare.attempts + 1 \in 0..MaxAttempts
        BY <3>2, <4>1, Numbers DEF Preparations
      <4> QED BY <3>2, <4>1, <4>2 DEF Preparations
    <3> QED BY <1>3, <3>1, <3>2 DEF PrepareEnds
  <2>2. composing' \in Composers /\ refused' \in BOOLEAN /\ preparing' \in Messages \cup {None}
    <3>1. refused' \in BOOLEAN
      BY <1>3, Zenon DEF PrepareEnds, TypeOK
    <3>2. composing' \in Composers /\ preparing' \in Messages \cup {None}
      <4>1. CASE composing' = [open |-> TRUE, of |-> selected] /\ preparing' = None
        BY <4>1 DEF TypeOK, Composers
      <4>2. CASE UNCHANGED composing /\ preparing' \in {preparing, None}
        BY <4>2 DEF TypeOK, Composers
      <4> QED BY <1>3, <4>1, <4>2 DEF PrepareEnds
    <3> QED BY <3>1, <3>2
  <2>3. prepare'.pc # "none" => UNCHANGED composing
    BY <1>3, ConstantRecords DEF PrepareEnds
  <2>4. UNCHANGED <<content, image, tab, overdue, budget>> /\ prepare.pc # "none"
    BY <1>3 DEF PrepareEnds
  <2> QED BY <2>1, <2>2, <2>3, <2>4
        DEF TypeOK, Preparations, Composers, ShowsSelected, LoadsSelected, PreparesSelected, OneAtATime
<1>4. CASE PrepareAgain
  <2>1. prepare' \in Preparations
    BY <1>4 DEF PrepareAgain, TypeOK, Preparations
  <2> QED BY <1>4, <2>1
        DEF PrepareAgain, TypeOK, Preparations, ShowsSelected, LoadsSelected, PreparesSelected, OneAtATime
<1>5. CASE OverdueAnswer \/ Close
  BY <1>5, ConstantRecords
     DEF OverdueAnswer, Taken, Close, TypeOK, Composers, ShowsSelected, LoadsSelected, PreparesSelected, OneAtATime
<1>6. CASE Compose
  <2>1. overdue' \in Messages \cup {None}
    BY <1>6 DEF Compose, Overdue, TypeOK
  <2>2. composing' \in Composers
    BY <1>6 DEF Compose, Composers
  <2> QED BY <1>6, <2>1, <2>2, ConstantRecords
        DEF Compose, TypeOK, Preparations, Composers, ShowsSelected, LoadsSelected, PreparesSelected, OneAtATime
<1> QED BY <1>1, <1>2, <1>3, <1>4, <1>5, <1>6 DEF Answer

LEMMA NextKeeps ==
  ASSUME IInv, [Next]_vars
  PROVE  IInv'
<1>1. CASE UNCHANGED vars
  BY <1>1 DEF IInv, vars, tab, answers, TypeOK, ShowsSelected, LoadsSelected, PreparesSelected, OneAtATime
<1> QED BY <1>1, SelectKeeps, NotifiedKeeps, LoadKeeps, RetryKeeps, AnswerKeeps DEF Next

-----------------------------------------------------------------------------
(* The theorems *)

\* The inductive invariant holds in every behaviour.
THEOREM InvariantHolds == Spec => []IInv
<1> QED BY InitHolds, NextKeeps, PTL DEF Spec

\* The tab's state has its type: load() and prepare() never ask for the message
\* "nothing is open".
THEOREM TypeCorrect == Spec => []TypeOK
<1>1. IInv => TypeOK
  BY DEF IInv
<1> QED BY <1>1, InvariantHolds, PTL

\* The pane shows the open message or none, whatever answers come late
\* (mail-client.tsx, the effect of selectedId and its `cancelled`).
THEOREM PaneShowsSelected == Spec => []ShowsSelected
<1>1. IInv => ShowsSelected
  BY DEF IInv
<1> QED BY <1>1, InvariantHolds, PTL

\* A prepared answer answers the open message and takes the place of no other
\* composer (mail-client.tsx, prepare() and its generation).
THEOREM PreparedAnswersSelected == Spec => AnswersSelected
<1> DEFINE Rightly == composing'.of # composing.of /\ composing'.of # None => composing'.of = selected /\ ~composing.open
<1>1. ASSUME IInv, [Next]_vars PROVE [Rightly]_vars
  <2> SUFFICES ASSUME Next, ~UNCHANGED composing PROVE Rightly
    BY <1>1 DEF vars, answers
  <2> USE <1>1 DEF IInv
  <2>1. CASE PrepareEnds
    BY <2>1 DEF PrepareEnds, OneAtATime
  <2>2. CASE Compose \/ Close \/ \E m \in Messages : Notified(m)
    BY <2>2, ConstantRecords DEF Compose, Close, Notified
  <2> QED BY <2>1, <2>2
        DEF Next, Select, Fetch, Load, Get, Got, Post, ScheduleNext, LoadFails, LateAnswer, RetryMessage, RetryContent,
            RetryAnswer, RetryEnds, Prepare, Answer, Prepared, PrepareAgain, OverdueAnswer, Taken, answers
<1> QED BY <1>1, InvariantHolds, PTL DEF Spec, AnswersSelected

-----------------------------------------------------------------------------
(* The automatic signature of a composer *)

CONSTANTS Accounts, Signatures, MaxEdits, MaxUndos, MaxSettings, MaxStrays
VARIABLES alive, defaults, from, initialize, ready, busy, loadFailed, catalogLoading, catalog, previous, emptied, node, past, fill,
          lateFillings, menu, insert, removed, undone, strayed, allowance

Insertion == INSTANCE SignatureInsertion WITH
  failed <- loadFailed, loading <- catalogLoading, late <- lateFillings, budget <- allowance

InsertionFlags ==
  /\ initialize \in BOOLEAN /\ ready \in BOOLEAN /\ busy \in BOOLEAN /\ loadFailed \in BOOLEAN /\ catalogLoading \in BOOLEAN
  /\ emptied \in BOOLEAN /\ menu \in BOOLEAN /\ removed \in BOOLEAN /\ undone \in BOOLEAN /\ strayed \in BOOLEAN
InsertionTypes ==
  /\ InsertionFlags
  /\ alive \subseteq Signatures /\ defaults \in [Accounts -> Signatures \cup {None}]
  /\ from \in Accounts /\ catalog \in Insertion!Catalog \cup {None}
  /\ previous \in Accounts \cup {None} /\ lateFillings \subseteq Accounts
  /\ node \in Insertion!SignatureNode \cup {None} /\ past \in Insertion!SignatureNode \cup {None} /\ fill \in Insertion!Filling \cup {None}
  /\ insert \in Accounts \cup {None}
  /\ allowance \in [{"edits", "undos", "faults", "settings", "strays"} -> Nat]

\* The edits that are left and those of a node are MaxEdits and one, at most.
EditsBounded ==
  /\ allowance["edits"] <= MaxEdits
  /\ node # None => node.edits + allowance.edits <= MaxEdits + 1
  /\ past # None => past.edits + allowance.edits <= MaxEdits + 1

\* What may be given an automatic signature was not changed by the user, if Undo was not used.
Unchanged == ~undone =>
  /\ removed => node = None
  /\ emptied \/ (previous = None /\ initialize) => node = None /\ ~removed
  /\ fill # None /\ fill.plan = "place" =>
       /\ fill.seen = None => node = None /\ ~removed
       /\ fill.seen # None => Insertion!Untouched(fill.seen)

\* Where the document of a new message was filled and the node is gone, the composer or the user took it out.
TakenOut == initialize /\ ~undone =>
  /\ previous # None /\ node = None => emptied \/ removed
  /\ fill # None => /\ fill.plan = "place" => node = fill.seen \/ Insertion!Edited(node) \/ removed
                    /\ fill.plan = "keep" => previous # None /\ (Insertion!Edited(node) \/ removed)
                    /\ fill.plan = "same" => previous # None
  /\ lateFillings # {} => previous # None

\* The signature of the catalog is in the document, or what the user made of it.
Filled == initialize /\ ~Insertion!Edited(node) /\ ~removed /\ ~undone =>
            node = (IF catalog.default = None THEN None ELSE Insertion!Fresh(catalog.default))
OfFrom == catalog # None /\ catalog.account = from

MenuShowsCatalog == menu => catalog # None

\* As long as nothing was chosen from a list that had stayed open, one thing at a time is done for the account
\* in the From field.
InTurn == ~strayed =>
  /\ lateFillings = {}
  /\ catalogLoading => fill = None /\ previous # from /\ ~ready /\ insert = None
  /\ loadFailed => fill = None /\ previous # from /\ ~ready /\ insert = None /\ ~catalogLoading
  /\ fill # None => OfFrom /\ fill.account = from /\ fill.id = catalog.default /\ fill.plan # "same" /\ busy
                    /\ previous # from /\ ~ready /\ insert = None
  /\ catalogLoading => busy \/ ~OfFrom
  /\ ~catalogLoading /\ ~loadFailed => OfFrom
  /\ ready \/ insert # None => OfFrom /\ previous = from /\ Filled
  /\ insert # None => insert = from /\ ~ready
  /\ ~busy /\ ~loadFailed /\ OfFrom => ready
InsertionInv ==
  InsertionTypes /\ EditsBounded /\ Unchanged /\ TakenOut /\ MenuShowsCatalog /\ InTurn /\ Insertion!NeverStuck

LEMMA InsertionBounds == ASSUME Insertion!InsertionAssumption
  PROVE /\ None \notin Accounts /\ None \notin Signatures /\ None \notin Insertion!SignatureNode /\ None \notin Insertion!Catalog /\ None \notin Insertion!Filling
        /\ MaxEdits \in Nat /\ MaxUndos \in Nat /\ MaxFaults \in Nat /\ MaxSettings \in Nat /\ MaxStrays \in Nat
BY DEF Insertion!InsertionAssumption

LEMMA Costs == ASSUME InsertionTypes, NEW what \in {"edits", "undos", "faults", "settings", "strays"}, Insertion!Spend(what)
  PROVE /\ allowance' \in [{"edits", "undos", "faults", "settings", "strays"} -> Nat]
        /\ allowance'[what] = allowance[what] - 1 /\ \A w \in DOMAIN allowance \ {what} : allowance'[w] = allowance[w]
BY DEF InsertionTypes, InsertionFlags, Insertion!Spend

LEMMA FreshIsNode == ASSUME Insertion!InsertionAssumption, NEW id \in Signatures
  PROVE Insertion!Fresh(id) \in Insertion!SignatureNode /\ Insertion!Fresh(id) # None /\ Insertion!Fresh(id).edits = 0 /\ Insertion!Fresh(id).signature = id
<1>1. Insertion!Fresh(id) \in Insertion!SignatureNode
  BY InsertionBounds DEF Insertion!Fresh, Insertion!SignatureNode
<1> QED BY <1>1, InsertionBounds DEF Insertion!Fresh

LEMMA NodesAre == ASSUME Insertion!InsertionAssumption, NEW n \in Insertion!SignatureNode \cup {None}
  PROVE /\ n # None => n.edits \in Nat /\ (Insertion!Edited(n) <=> n.edits # 0) /\ (Insertion!Untouched(n) <=> n.edits = 0)
        /\ n = None => ~Insertion!Edited(n) /\ ~Insertion!Untouched(n)
BY InsertionBounds DEF Insertion!SignatureNode, Insertion!Edited, Insertion!Untouched

LEMMA FillIs == ASSUME Insertion!InsertionAssumption, InsertionTypes, fill # None
  PROVE /\ fill.account \in Accounts /\ fill.account # None /\ fill.seen \in Insertion!SignatureNode \cup {None}
        /\ fill.id \in Signatures \cup {None} /\ fill.plan \in {"same", "keep", "place"}
BY InsertionBounds DEF InsertionTypes, InsertionFlags, Insertion!Filling

LEMMA CatalogIs == ASSUME Insertion!InsertionAssumption, InsertionTypes, catalog # None
  PROVE /\ catalog.account \in Accounts /\ catalog.signatures \in SUBSET Signatures
        /\ catalog.default \in Signatures \cup {None}
BY InsertionBounds DEF InsertionTypes, InsertionFlags, Insertion!Catalog

LEMMA PlanIsFilling ==
  ASSUME Insertion!InsertionAssumption, InsertionTypes, NEW account \in Accounts, NEW id \in Signatures \cup {None}
  PROVE  /\ Insertion!Plan(account, id) \in Insertion!Filling /\ Insertion!Plan(account, id) # None
         /\ Insertion!Plan(account, id).account = account /\ Insertion!Plan(account, id).seen = node /\ Insertion!Plan(account, id).id = id
         /\ Insertion!Plan(account, id).plan = "same" <=> previous = account
         /\ Insertion!Plan(account, id).plan = "keep" <=>
              /\ previous # account
              /\ \/ previous = None /\ ~initialize
                 \/ ~Insertion!Untouched(node) /\ ~(IF previous = None THEN initialize ELSE emptied)
<1>1. Insertion!Plan(account, id) \in Insertion!Filling
  BY DEF Insertion!Plan, Insertion!Filling, InsertionTypes, InsertionFlags
<1> QED BY <1>1, InsertionBounds DEF Insertion!Plan

LEMMA BudgetIs == ASSUME InsertionTypes PROVE allowance["edits"] \in Nat
BY DEF InsertionTypes, InsertionFlags

LEMMA InsertionDefaultKeeps == ASSUME Insertion!InsertionAssumption, InsertionInv, NEW a \in Accounts,
  NEW id \in Signatures \cup {None}, Insertion!SetDefault(a, id)
  PROVE InsertionInv'
<1>1. InsertionTypes'
  <2>1. InsertionFlags'
    BY InsertionBounds, Costs, PlanIsFilling, FreshIsNode DEF Insertion!SetDefault, InsertionInv, InsertionTypes,
       InsertionFlags, Insertion!settings, Insertion!document, Insertion!gate, Insertion!filled, Insertion!Catalog
  <2> QED BY InsertionBounds, Costs, PlanIsFilling, FreshIsNode, <2>1 DEF Insertion!SetDefault, InsertionInv,
             InsertionTypes, Insertion!settings, Insertion!document, Insertion!gate, Insertion!filled,
             Insertion!Catalog
<1>2. EditsBounded'
  BY InsertionBounds, FreshIsNode DEF Insertion!SetDefault, InsertionInv, InsertionTypes, InsertionFlags, EditsBounded,
     Insertion!settings, Insertion!document, Insertion!gate, Insertion!filled, Insertion!Spend
<1>3. Unchanged'
  BY InsertionBounds, FreshIsNode, PlanIsFilling, NodesAre DEF Insertion!SetDefault, InsertionInv, InsertionTypes,
     InsertionFlags,
     Unchanged, Insertion!settings, Insertion!document, Insertion!gate, Insertion!filled, Insertion!Untouched,
     Insertion!Edited
<1>4. TakenOut'
  BY InsertionBounds, FreshIsNode, PlanIsFilling, NodesAre DEF Insertion!SetDefault, InsertionInv, InsertionTypes,
     InsertionFlags,
     TakenOut, Insertion!settings, Insertion!document, Insertion!gate, Insertion!filled, Insertion!Untouched,
     Insertion!Edited
<1>5. MenuShowsCatalog' /\ Insertion!NeverStuck'
  BY InsertionBounds DEF Insertion!SetDefault, InsertionInv, InsertionTypes, InsertionFlags, MenuShowsCatalog,
     Insertion!NeverStuck,
     Insertion!settings, Insertion!document, Insertion!gate, Insertion!filled
<1>6. InTurn'
  BY InsertionBounds, FreshIsNode, PlanIsFilling, NodesAre DEF Insertion!SetDefault, InsertionInv, InsertionTypes,
     InsertionFlags,
     InTurn, Unchanged, TakenOut, Filled, OfFrom, Insertion!settings, Insertion!document, Insertion!gate,
     Insertion!filled, Insertion!Untouched, Insertion!Edited
<1> QED BY <1>1, <1>2, <1>3, <1>4, <1>5, <1>6 DEF InsertionInv

LEMMA InsertionDeleteKeeps == ASSUME Insertion!InsertionAssumption, InsertionInv, NEW id \in Signatures,
  Insertion!Delete(id)
  PROVE InsertionInv'
<1>1. InsertionTypes'
  <2>1. InsertionFlags'
    BY InsertionBounds, Costs, PlanIsFilling, FreshIsNode DEF Insertion!Delete, InsertionInv, InsertionTypes,
       InsertionFlags, Insertion!settings, Insertion!document, Insertion!gate, Insertion!filled, Insertion!Catalog
  <2> QED BY InsertionBounds, Costs, PlanIsFilling, FreshIsNode, <2>1 DEF Insertion!Delete, InsertionInv,
             InsertionTypes, Insertion!settings, Insertion!document, Insertion!gate, Insertion!filled,
             Insertion!Catalog
<1>2. EditsBounded'
  BY InsertionBounds, FreshIsNode DEF Insertion!Delete, InsertionInv, InsertionTypes, InsertionFlags, EditsBounded,
     Insertion!settings, Insertion!document, Insertion!gate, Insertion!filled, Insertion!Spend
<1>3. Unchanged'
  BY InsertionBounds, FreshIsNode, PlanIsFilling, NodesAre DEF Insertion!Delete, InsertionInv, InsertionTypes, InsertionFlags,
     Unchanged, Insertion!settings, Insertion!document, Insertion!gate, Insertion!filled, Insertion!Untouched,
     Insertion!Edited
<1>4. TakenOut'
  BY InsertionBounds, FreshIsNode, PlanIsFilling, NodesAre DEF Insertion!Delete, InsertionInv, InsertionTypes, InsertionFlags,
     TakenOut, Insertion!settings, Insertion!document, Insertion!gate, Insertion!filled, Insertion!Untouched,
     Insertion!Edited
<1>5. MenuShowsCatalog' /\ Insertion!NeverStuck'
  BY InsertionBounds DEF Insertion!Delete, InsertionInv, InsertionTypes, InsertionFlags, MenuShowsCatalog,
     Insertion!NeverStuck,
     Insertion!settings, Insertion!document, Insertion!gate, Insertion!filled
<1>6. InTurn'
  BY InsertionBounds, FreshIsNode, PlanIsFilling, NodesAre DEF Insertion!Delete, InsertionInv, InsertionTypes,
     InsertionFlags, InTurn,
     Unchanged, TakenOut, Filled, OfFrom, Insertion!settings, Insertion!document, Insertion!gate, Insertion!filled,
     Insertion!Untouched, Insertion!Edited
<1> QED BY <1>1, <1>2, <1>3, <1>4, <1>5, <1>6 DEF InsertionInv

LEMMA CatalogLoadKeeps == ASSUME Insertion!InsertionAssumption, InsertionInv, Insertion!Load PROVE InsertionInv'
<1>1. CASE loadFailed' = TRUE /\ busy' = FALSE /\ Insertion!Spend("faults") /\ UNCHANGED <<catalog, ready, lateFillings, fill>>
  <2>1. allowance' \in [{"edits", "undos", "faults", "settings", "strays"} -> Nat] /\ allowance'["edits"] = allowance["edits"]
    BY <1>1, Costs DEF InsertionInv, InsertionTypes, InsertionFlags
  <2>4. InsertionTypes'
    <3>1. ready' \in BOOLEAN /\ busy' \in BOOLEAN /\ loadFailed' \in BOOLEAN /\ catalogLoading' \in BOOLEAN /\ emptied' \in BOOLEAN
      BY <1>1 DEF Insertion!Load, InsertionInv, InsertionTypes, InsertionFlags, Insertion!settings, Insertion!document,
         Insertion!gate, Insertion!filled
    <3> QED BY <1>1, <2>1, <3>1 DEF Insertion!Load, InsertionInv, InsertionTypes, InsertionFlags, Insertion!settings,
               Insertion!document, Insertion!gate, Insertion!filled
  <2>2. EditsBounded' /\ Unchanged' /\ TakenOut' /\ MenuShowsCatalog' /\ Insertion!NeverStuck'
    BY <1>1, <2>1 DEF Insertion!Load, InsertionInv, InsertionTypes, InsertionFlags, Insertion!settings, Insertion!document,
       Insertion!gate, Insertion!filled, EditsBounded, Unchanged, TakenOut, MenuShowsCatalog, Insertion!NeverStuck
  <2>3. InTurn'
    BY <1>1 DEF Insertion!Load, InsertionInv, InsertionTypes, InsertionFlags, Insertion!settings, Insertion!document,
       Insertion!gate,
       Insertion!filled, InTurn, OfFrom, Filled
  <2> QED BY <2>2, <2>3, <2>4 DEF InsertionInv
<1>2. ASSUME catalog' = [account |-> from, signatures |-> alive, default |-> defaults[from]],
             busy' = TRUE, loadFailed' = FALSE, ready' = FALSE,
             lateFillings' = Insertion!Dropped, fill' = Insertion!Plan(from, defaults[from]), UNCHANGED allowance
      PROVE  InsertionInv'
  <2>1. defaults[from] \in Signatures \cup {None} /\ from \in Accounts
    BY DEF InsertionInv, InsertionTypes, InsertionFlags
  <2>2. /\ fill' \in Insertion!Filling /\ fill' # None /\ fill'.account = from /\ fill'.seen = node /\ fill'.id = defaults[from]
        /\ fill'.plan = "same" <=> previous = from
        /\ fill'.plan = "keep" <=>
             /\ previous # from
             /\ \/ previous = None /\ ~initialize
                \/ ~Insertion!Untouched(node) /\ ~(IF previous = None THEN initialize ELSE emptied)
    BY <1>2, <2>1, PlanIsFilling DEF InsertionInv
  <2>3. /\ catalog' \in Insertion!Catalog /\ catalog' # None /\ catalog'.account = from /\ catalog'.default = defaults[from]
    BY <1>2, <2>1, InsertionBounds DEF InsertionInv, InsertionTypes, InsertionFlags, Insertion!Catalog
  <2>4. lateFillings' \subseteq Accounts /\ (fill = None => lateFillings' = lateFillings)
    BY <1>2, FillIs DEF Insertion!Dropped, InsertionInv, InsertionTypes, InsertionFlags
  <2>5. fill'.plan \in {"same", "keep", "place"}
    BY <2>2 DEF Insertion!Filling
  <2>6. InsertionTypes'
    <3>1. InsertionFlags'
      BY <1>2, <2>2, <2>3, <2>4 DEF Insertion!Load, InsertionInv, InsertionTypes, InsertionFlags, Insertion!settings,
         Insertion!document, Insertion!gate, Insertion!filled
    <3> QED BY <1>2, <2>2, <2>3, <2>4, <3>1 DEF Insertion!Load, InsertionInv, InsertionTypes, Insertion!settings,
               Insertion!document, Insertion!gate, Insertion!filled
  <2>7. EditsBounded' /\ MenuShowsCatalog' /\ Insertion!NeverStuck'
    BY <1>2, <2>2, <2>3 DEF Insertion!Load, InsertionInv, InsertionTypes, InsertionFlags, Insertion!settings,
       Insertion!document,
       Insertion!gate, Insertion!filled, EditsBounded, MenuShowsCatalog, Insertion!NeverStuck
  <2>8. Unchanged'
    BY <1>2, <2>2, <2>5, NodesAre DEF Insertion!Load, InsertionInv, InsertionTypes, InsertionFlags, Insertion!settings,
       Insertion!document, Insertion!gate, Insertion!filled, Unchanged
  <2>9. TakenOut'
    <3>1. lateFillings' # {} /\ initialize /\ ~undone => previous # None
      BY <1>2 DEF Insertion!Dropped, InsertionInv, TakenOut
    <3> QED BY <1>2, <2>1, <2>2, <2>5, <3>1, InsertionBounds, NodesAre DEF Insertion!Load, InsertionInv,
               InsertionTypes, InsertionFlags, Insertion!settings, Insertion!document, Insertion!gate, Insertion!filled, TakenOut
  <2>10. InTurn'
    BY <1>2, <2>2, <2>3, <2>4, <2>5 DEF Insertion!Load, InsertionInv, InsertionTypes, InsertionFlags, Insertion!settings,
       Insertion!document, Insertion!gate, Insertion!filled, InTurn, OfFrom, Filled
  <2> QED BY <2>6, <2>7, <2>8, <2>9, <2>10 DEF InsertionInv
<1> QED BY <1>1, <1>2 DEF Insertion!Load

LEMMA CatalogRetryKeeps == ASSUME Insertion!InsertionAssumption, InsertionInv, Insertion!Retry PROVE InsertionInv'
<1>1. InsertionTypes'
  <2>1. /\ loadFailed' = FALSE /\ busy' = TRUE /\ ready' = FALSE /\ catalogLoading' = TRUE
        /\ UNCHANGED <<alive, defaults, from, catalog, initialize, emptied, menu, removed, undone, strayed, previous,
                       lateFillings, node, past, fill, insert, allowance>>
    BY DEF Insertion!Retry, Insertion!settings, Insertion!document, Insertion!gate, Insertion!filled
  <2>2. InsertionTypes
    BY DEF InsertionInv
  <2>3. InsertionFlags'
    BY <2>1, <2>2 DEF InsertionTypes, InsertionFlags
  <2> QED BY <2>1, <2>2, <2>3 DEF InsertionTypes
<1>2. EditsBounded'
  BY InsertionBounds, FreshIsNode DEF Insertion!Retry, InsertionInv, InsertionTypes, InsertionFlags, EditsBounded,
     Insertion!settings,
     Insertion!document, Insertion!gate, Insertion!filled, Insertion!Spend
<1>3. Unchanged'
  BY InsertionBounds, FreshIsNode, PlanIsFilling, NodesAre DEF Insertion!Retry, InsertionInv, InsertionTypes, InsertionFlags,
     Unchanged, Insertion!settings, Insertion!document, Insertion!gate, Insertion!filled, Insertion!Untouched,
     Insertion!Edited
<1>4. TakenOut'
  BY InsertionBounds, FreshIsNode, PlanIsFilling, NodesAre DEF Insertion!Retry, InsertionInv, InsertionTypes, InsertionFlags,
     TakenOut, Insertion!settings, Insertion!document, Insertion!gate, Insertion!filled, Insertion!Untouched,
     Insertion!Edited
<1>5. MenuShowsCatalog' /\ Insertion!NeverStuck'
  BY InsertionBounds DEF Insertion!Retry, InsertionInv, InsertionTypes, InsertionFlags, MenuShowsCatalog,
     Insertion!NeverStuck,
     Insertion!settings, Insertion!document, Insertion!gate, Insertion!filled
<1>6. InTurn'
  BY InsertionBounds, FreshIsNode, PlanIsFilling, NodesAre DEF Insertion!Retry, InsertionInv, InsertionTypes,
     InsertionFlags, InTurn,
     Unchanged, TakenOut, Filled, OfFrom, Insertion!settings, Insertion!document, Insertion!gate, Insertion!filled,
     Insertion!Untouched, Insertion!Edited
<1> QED BY <1>1, <1>2, <1>3, <1>4, <1>5, <1>6 DEF InsertionInv

LEMMA NoteKeeps == ASSUME Insertion!InsertionAssumption, InsertionInv, Insertion!Note PROVE InsertionInv'
<1>1. /\ fill.account \in Accounts /\ fill.account # None /\ fill.plan \in {"same", "keep"}
      /\ fill # None /\ fill' = None /\ previous' = fill.account /\ ready' = TRUE /\ busy' = FALSE
  BY FillIs DEF Insertion!Note, InsertionInv
<1>2. InsertionTypes'
  <2>1. ready' \in BOOLEAN /\ busy' \in BOOLEAN /\ loadFailed' \in BOOLEAN /\ catalogLoading' \in BOOLEAN /\ emptied' \in BOOLEAN
    BY <1>1 DEF Insertion!Note, InsertionInv, InsertionTypes, InsertionFlags, Insertion!settings, Insertion!document,
       Insertion!gate,
       Insertion!filled
  <2> QED BY <1>1, <2>1 DEF Insertion!Note, InsertionInv, InsertionTypes, InsertionFlags, Insertion!settings,
             Insertion!document,
             Insertion!gate, Insertion!filled
<1>3. EditsBounded' /\ MenuShowsCatalog' /\ Insertion!NeverStuck'
  BY <1>1 DEF Insertion!Note, InsertionInv, InsertionTypes, InsertionFlags, Insertion!settings, Insertion!document,
     Insertion!gate,
     Insertion!filled, EditsBounded, MenuShowsCatalog, Insertion!NeverStuck
<1>4. Unchanged'
  BY <1>1 DEF Insertion!Note, InsertionInv, InsertionTypes, InsertionFlags, Insertion!settings, Insertion!document,
     Insertion!gate,
     Insertion!filled, Unchanged
<1>5. TakenOut'
  BY <1>1 DEF Insertion!Note, InsertionInv, InsertionTypes, InsertionFlags, Insertion!settings, Insertion!document,
     Insertion!gate,
     Insertion!filled, TakenOut
<1>6. InTurn'
  BY <1>1 DEF Insertion!Note, InsertionInv, InsertionTypes, InsertionFlags, Insertion!settings, Insertion!document,
     Insertion!gate,
     Insertion!filled, InTurn, OfFrom, Filled, TakenOut
<1> QED BY <1>2, <1>3, <1>4, <1>5, <1>6 DEF InsertionInv

LEMMA LateFillingKeeps == ASSUME Insertion!InsertionAssumption, InsertionInv, Insertion!Late PROVE InsertionInv'
<1>1. InsertionTypes'
  <2>1. InsertionFlags'
    BY InsertionBounds, Costs, PlanIsFilling, FreshIsNode DEF Insertion!Late, InsertionInv, InsertionTypes,
       InsertionFlags, Insertion!settings, Insertion!document, Insertion!gate, Insertion!filled, Insertion!Catalog
  <2> QED BY InsertionBounds, Costs, PlanIsFilling, FreshIsNode, <2>1 DEF Insertion!Late, InsertionInv,
             InsertionTypes, Insertion!settings, Insertion!document, Insertion!gate, Insertion!filled,
             Insertion!Catalog
<1>2. EditsBounded'
  BY InsertionBounds, FreshIsNode DEF Insertion!Late, InsertionInv, InsertionTypes, InsertionFlags, EditsBounded,
     Insertion!settings,
     Insertion!document, Insertion!gate, Insertion!filled, Insertion!Spend
<1>3. Unchanged'
  BY InsertionBounds, FreshIsNode, PlanIsFilling, NodesAre DEF Insertion!Late, InsertionInv, InsertionTypes, InsertionFlags,
     Unchanged, Insertion!settings, Insertion!document, Insertion!gate, Insertion!filled, Insertion!Untouched,
     Insertion!Edited
<1>4. TakenOut'
  BY InsertionBounds, FreshIsNode, PlanIsFilling, NodesAre DEF Insertion!Late, InsertionInv, InsertionTypes,
     InsertionFlags, TakenOut,
     Insertion!settings, Insertion!document, Insertion!gate, Insertion!filled, Insertion!Untouched, Insertion!Edited
<1>5. MenuShowsCatalog' /\ Insertion!NeverStuck'
  BY InsertionBounds DEF Insertion!Late, InsertionInv, InsertionTypes, InsertionFlags, MenuShowsCatalog, Insertion!NeverStuck,
     Insertion!settings, Insertion!document, Insertion!gate, Insertion!filled
<1>6. InTurn'
  BY InsertionBounds, FreshIsNode, PlanIsFilling, NodesAre DEF Insertion!Late, InsertionInv, InsertionTypes,
     InsertionFlags, InTurn,
     Unchanged, TakenOut, Filled, OfFrom, Insertion!settings, Insertion!document, Insertion!gate, Insertion!filled,
     Insertion!Untouched, Insertion!Edited
<1> QED BY <1>1, <1>2, <1>3, <1>4, <1>5, <1>6 DEF InsertionInv

LEMMA PlaceKeeps == ASSUME Insertion!InsertionAssumption, InsertionInv, Insertion!Place PROVE InsertionInv'
<1>1. /\ fill.account \in Accounts /\ fill.account # None /\ fill.plan = "place" /\ fill.id \in Signatures \cup {None}
      /\ fill.seen \in Insertion!SignatureNode \cup {None}
      /\ fill # None /\ fill' = None /\ previous' = fill.account /\ ready' = TRUE /\ busy' = FALSE
  BY FillIs DEF Insertion!Place, InsertionInv
<1>2. CASE node = fill.seen
  <2>1. PICK new \in Insertion!SignatureNode \cup {None} :
          /\ new = (IF fill.id = None THEN None ELSE Insertion!Fresh(fill.id)) /\ (fill.id # None => new # None /\ new.edits = 0)
    BY <1>1, FreshIsNode
  <2>2. node' = new /\ past' = (IF new = node THEN past ELSE node) /\ emptied' = (fill.id = None)
    BY <1>2, <2>1 DEF Insertion!Place, Insertion!Rechecked
  <2>3. InsertionTypes'
    <3>1. InsertionFlags'
      BY <1>1, <2>1, <2>2 DEF Insertion!Place, InsertionInv, InsertionTypes, InsertionFlags, Insertion!settings,
         Insertion!document, Insertion!gate, Insertion!filled
    <3> QED BY <1>1, <2>1, <2>2, <3>1 DEF Insertion!Place, InsertionInv, InsertionTypes, Insertion!settings,
               Insertion!document, Insertion!gate, Insertion!filled
  <2>9. EditsBounded'
    <3>1. allowance["edits"] \in Nat /\ allowance["edits"] <= MaxEdits /\ UNCHANGED allowance
      BY BudgetIs DEF InsertionInv, EditsBounded, Insertion!Place
    <3>2. node # None => node.edits + allowance["edits"] <= MaxEdits + 1
      BY DEF InsertionInv, EditsBounded
    <3>3. past # None => past.edits + allowance["edits"] <= MaxEdits + 1
      BY DEF InsertionInv, EditsBounded
    <3>4. node' # None => node'.edits = 0
      BY <2>1, <2>2
    <3> QED BY <2>2, <3>1, <3>2, <3>3, <3>4, InsertionBounds DEF EditsBounded
  <2>4. MenuShowsCatalog' /\ Insertion!NeverStuck'
    BY <1>1 DEF Insertion!Place, InsertionInv, InsertionTypes, InsertionFlags, Insertion!settings, Insertion!document,
       Insertion!gate,
       Insertion!filled, EditsBounded, MenuShowsCatalog, Insertion!NeverStuck
  <2>5. ~undone => ~removed /\ ~Insertion!Edited(node)
    BY <1>1, <1>2, NodesAre DEF InsertionInv, InsertionTypes, InsertionFlags, Unchanged
  <2>6. Unchanged'
    BY <1>1, <2>1, <2>2, <2>5 DEF Insertion!Place, InsertionInv, InsertionTypes, InsertionFlags, Insertion!settings,
       Insertion!document, Insertion!gate, Insertion!filled, Unchanged
  <2>7. TakenOut'
    BY <1>1, <2>1, <2>2, <2>5 DEF Insertion!Place, InsertionInv, InsertionTypes, InsertionFlags, Insertion!settings,
       Insertion!document, Insertion!gate, Insertion!filled, TakenOut
  <2>8. InTurn'
    BY <1>1, <2>1, <2>2, <2>5 DEF Insertion!Place, InsertionInv, InsertionTypes, InsertionFlags, Insertion!settings,
       Insertion!document, Insertion!gate, Insertion!filled, InTurn, OfFrom, Filled
  <2> QED BY <2>3, <2>4, <2>6, <2>7, <2>8, <2>9 DEF InsertionInv
<1>3. CASE node # fill.seen
  <2>1. UNCHANGED <<node, past, emptied>>
    BY <1>3 DEF Insertion!Place, Insertion!Rechecked
  <2>2. initialize /\ ~undone => Insertion!Edited(node) \/ removed
    BY <1>1, <1>3 DEF InsertionInv, TakenOut
  <2>3. InsertionTypes'
    <3>1. ready' \in BOOLEAN /\ busy' \in BOOLEAN /\ loadFailed' \in BOOLEAN /\ catalogLoading' \in BOOLEAN /\ emptied' \in BOOLEAN
      BY <1>1, <2>1 DEF Insertion!Place, InsertionInv, InsertionTypes, InsertionFlags, Insertion!settings, Insertion!document,
         Insertion!gate, Insertion!filled
    <3> QED BY <1>1, <2>1, <3>1 DEF Insertion!Place, InsertionInv, InsertionTypes, InsertionFlags, Insertion!settings,
               Insertion!document, Insertion!gate, Insertion!filled
  <2>4. EditsBounded' /\ MenuShowsCatalog' /\ Insertion!NeverStuck'
    BY <1>1, <2>1 DEF Insertion!Place, InsertionInv, InsertionTypes, InsertionFlags, Insertion!settings, Insertion!document,
       Insertion!gate, Insertion!filled, EditsBounded, MenuShowsCatalog, Insertion!NeverStuck
  <2>5. Unchanged'
    BY <1>1, <2>1 DEF Insertion!Place, InsertionInv, InsertionTypes, InsertionFlags, Insertion!settings, Insertion!document,
       Insertion!gate, Insertion!filled, Unchanged
  <2>6. TakenOut'
    BY <1>1, <2>1, <2>2, NodesAre DEF Insertion!Place, InsertionInv, InsertionTypes, InsertionFlags, Insertion!settings,
       Insertion!document, Insertion!gate, Insertion!filled, TakenOut
  <2>7. InTurn'
    BY <1>1, <2>1, <2>2 DEF Insertion!Place, InsertionInv, InsertionTypes, InsertionFlags, Insertion!settings,
       Insertion!document,
       Insertion!gate, Insertion!filled, InTurn, OfFrom, Filled
  <2> QED BY <2>3, <2>4, <2>5, <2>6, <2>7 DEF InsertionInv
<1> QED BY <1>2, <1>3

LEMMA PlaceFailsKeeps == ASSUME Insertion!InsertionAssumption, InsertionInv, Insertion!PlaceFails PROVE InsertionInv'
<1>1. /\ fill # None /\ fill' = None /\ loadFailed' = TRUE /\ ready' = FALSE /\ busy' = FALSE
      /\ UNCHANGED <<Insertion!settings, from, initialize, catalogLoading, catalog, previous, emptied, lateFillings, Insertion!document, menu, insert, strayed>>
  BY DEF Insertion!PlaceFails, Insertion!Refused
<1>2. allowance' \in [{"edits", "undos", "faults", "settings", "strays"} -> Nat] /\ allowance'["edits"] = allowance["edits"]
  BY Costs DEF Insertion!PlaceFails, InsertionInv, InsertionTypes, InsertionFlags
<1>3. InsertionTypes'
  <2>1. ready' \in BOOLEAN /\ busy' \in BOOLEAN /\ loadFailed' \in BOOLEAN /\ catalogLoading' \in BOOLEAN /\ emptied' \in BOOLEAN
    BY <1>1, <1>2 DEF InsertionInv, InsertionTypes, InsertionFlags, Insertion!settings, Insertion!document,
       Insertion!gate, Insertion!filled
  <2> QED BY <1>1, <1>2, <2>1 DEF InsertionInv, InsertionTypes, InsertionFlags, Insertion!settings, Insertion!document,
             Insertion!gate, Insertion!filled
<1>4. EditsBounded' /\ MenuShowsCatalog' /\ Insertion!NeverStuck' /\ Unchanged' /\ TakenOut'
  BY <1>1, <1>2 DEF InsertionInv, InsertionTypes, InsertionFlags, Insertion!settings, Insertion!document, Insertion!gate,
     Insertion!filled, EditsBounded, MenuShowsCatalog, Insertion!NeverStuck, Unchanged, TakenOut
<1>5. InTurn'
  BY <1>1 DEF InsertionInv, InsertionTypes, InsertionFlags, Insertion!settings, Insertion!document, Insertion!gate,
     Insertion!filled,
     InTurn, OfFrom, Filled
<1> QED BY <1>3, <1>4, <1>5 DEF InsertionInv

LEMMA SelectFromKeeps == ASSUME Insertion!InsertionAssumption, InsertionInv, NEW a \in Accounts,
  Insertion!SelectFrom(a)
  PROVE InsertionInv'
<1>1. /\ ready /\ a # from /\ from' = a /\ ready' = FALSE /\ catalogLoading' = TRUE /\ lateFillings' = Insertion!Dropped
      /\ fill' = (IF catalog # None /\ catalog.account = a THEN Insertion!Plan(a, catalog.default) ELSE None)
      /\ UNCHANGED <<Insertion!settings, initialize, busy, loadFailed, catalog, previous, emptied, Insertion!document, menu, insert, strayed>>
  BY DEF Insertion!SelectFrom, Insertion!Selectable
<1>2. allowance' \in [{"edits", "undos", "faults", "settings", "strays"} -> Nat] /\ allowance'["edits"] = allowance["edits"]
  BY Costs DEF Insertion!SelectFrom, InsertionInv, InsertionTypes, InsertionFlags
<1>3. fill' # None =>
        /\ fill' \in Insertion!Filling /\ fill'.account = a /\ fill'.seen = node /\ fill'.plan \in {"same", "keep", "place"}
        /\ fill'.plan = "same" <=> previous = a
        /\ fill'.plan = "keep" <=>
             /\ previous # a
             /\ \/ previous = None /\ ~initialize
                \/ ~Insertion!Untouched(node) /\ ~(IF previous = None THEN initialize ELSE emptied)
  <2>1. CASE catalog # None /\ catalog.account = a
    <3>1. catalog.default \in Signatures \cup {None}
      BY <2>1, CatalogIs DEF InsertionInv
    <3>2. fill' = Insertion!Plan(a, catalog.default) /\ InsertionTypes
      BY <1>1, <2>1 DEF InsertionInv
    <3>3. fill'.plan \in {"same", "keep", "place"}
      BY <3>1, <3>2, PlanIsFilling DEF Insertion!Filling
    <3> QED BY <3>1, <3>2, <3>3, PlanIsFilling
  <2>2. CASE ~(catalog # None /\ catalog.account = a)
    BY <1>1, <2>2
  <2> QED BY <2>1, <2>2
<1>4. lateFillings' \subseteq Accounts /\ (fill = None => lateFillings' = lateFillings) /\ (lateFillings' # {} /\ initialize /\ ~undone => previous # None)
  BY <1>1, FillIs DEF Insertion!Dropped, InsertionInv, InsertionTypes, InsertionFlags, TakenOut
<1>5. InsertionTypes'
  <2>1. ready' \in BOOLEAN /\ busy' \in BOOLEAN /\ loadFailed' \in BOOLEAN /\ catalogLoading' \in BOOLEAN /\ emptied' \in BOOLEAN
    BY <1>1, <1>2, <1>3, <1>4 DEF InsertionInv, InsertionTypes, InsertionFlags, Insertion!settings, Insertion!document,
       Insertion!gate, Insertion!filled
  <2> QED BY <1>1, <1>2, <1>3, <1>4, <2>1 DEF InsertionInv, InsertionTypes, InsertionFlags, Insertion!settings,
             Insertion!document,
             Insertion!gate, Insertion!filled
<1>6. EditsBounded' /\ MenuShowsCatalog' /\ Insertion!NeverStuck'
  BY <1>1, <1>2 DEF InsertionInv, InsertionTypes, InsertionFlags, Insertion!settings, Insertion!document, Insertion!gate,
     Insertion!filled, EditsBounded, MenuShowsCatalog, Insertion!NeverStuck
<1>7. Unchanged'
  BY <1>1, <1>3, NodesAre DEF InsertionInv, InsertionTypes, InsertionFlags, Insertion!settings, Insertion!document,
     Insertion!gate,
     Insertion!filled, Unchanged
<1>8. TakenOut'
  BY <1>1, <1>3, <1>4, InsertionBounds, NodesAre DEF InsertionInv, InsertionTypes, InsertionFlags, Insertion!settings,
     Insertion!document, Insertion!gate, Insertion!filled, TakenOut
<1>9. InTurn'
  BY <1>1, <1>3, <1>4 DEF InsertionInv, InsertionTypes, InsertionFlags, Insertion!settings, Insertion!document,
     Insertion!gate,
     Insertion!filled, InTurn, OfFrom, Filled
<1> QED BY <1>5, <1>6, <1>7, <1>8, <1>9 DEF InsertionInv

\* The user, or an insertion by hand, changes the signature in the document.
LEMMA EditedNode ==
  ASSUME Insertion!InsertionAssumption, InsertionInv, Insertion!Spend("edits"), node # None, Insertion!Change([node EXCEPT !.edits = @ + 1])
  PROVE  /\ node' \in Insertion!SignatureNode /\ node' # None /\ Insertion!Edited(node') /\ past' = node
         /\ node'.edits + allowance'["edits"] <= MaxEdits + 1 /\ past'.edits + allowance'["edits"] <= MaxEdits + 1 /\ allowance'["edits"] <= MaxEdits
         /\ allowance' \in [{"edits", "undos", "faults", "settings", "strays"} -> Nat]
<1>1. node \in Insertion!SignatureNode /\ node.edits \in 0..MaxEdits + 1 /\ node.signature \in Signatures /\ allowance["edits"] \in Nat
  BY DEF InsertionInv, InsertionTypes, InsertionFlags, Insertion!SignatureNode
<1>2. /\ allowance' \in [{"edits", "undos", "faults", "settings", "strays"} -> Nat] /\ allowance'["edits"] = allowance["edits"] - 1
      /\ allowance["edits"] > 0
  BY Costs DEF InsertionInv, Insertion!Spend
<1>3. node.edits + allowance["edits"] <= MaxEdits + 1 /\ allowance["edits"] <= MaxEdits
  BY DEF InsertionInv, EditsBounded
<1>4. PICK new : new = [node EXCEPT !.edits = @ + 1] /\ node' = new /\ past' = node
  BY DEF Insertion!Change
<1>5. new \in Insertion!SignatureNode /\ new.edits = node.edits + 1
  <2>1. node.edits + 1 \in 0..MaxEdits + 1
    BY <1>1, <1>2, <1>3, InsertionBounds
  <2> QED BY <1>1, <1>4, <2>1 DEF Insertion!SignatureNode
<1>6. new # None /\ Insertion!Edited(new)
  BY <1>1, <1>5, InsertionBounds DEF Insertion!Edited
<1>7. new.edits + allowance'["edits"] <= MaxEdits + 1 /\ node.edits + allowance'["edits"] <= MaxEdits + 1 /\ allowance'["edits"] <= MaxEdits
  BY <1>1, <1>2, <1>3, <1>5, InsertionBounds
<1> QED BY <1>2, <1>4, <1>5, <1>6, <1>7

LEMMA EditKeeps == ASSUME Insertion!InsertionAssumption, InsertionInv, Insertion!Edit PROVE InsertionInv'
<1>1. /\ node' \in Insertion!SignatureNode /\ node' # None /\ Insertion!Edited(node') /\ past' = node /\ node # None
      /\ node'.edits + allowance'["edits"] <= MaxEdits + 1 /\ past'.edits + allowance'["edits"] <= MaxEdits + 1 /\ allowance'["edits"] <= MaxEdits
      /\ allowance' \in [{"edits", "undos", "faults", "settings", "strays"} -> Nat]
  BY EditedNode DEF Insertion!Edit
<1>2. UNCHANGED <<Insertion!settings, from, initialize, Insertion!gate, catalogLoading, catalog, Insertion!filled, removed, undone, menu, insert, strayed>>
  BY DEF Insertion!Edit
<1>3. InsertionTypes'
  <2>1. InsertionFlags'
    BY <1>1, <1>2 DEF InsertionInv, InsertionTypes, InsertionFlags, Insertion!settings, Insertion!document,
       Insertion!gate, Insertion!filled
  <2> QED BY <1>1, <1>2, <2>1 DEF InsertionInv, InsertionTypes, Insertion!settings, Insertion!document,
             Insertion!gate, Insertion!filled
<1>4. EditsBounded' /\ MenuShowsCatalog' /\ Insertion!NeverStuck'
  BY <1>1, <1>2 DEF InsertionInv, InsertionTypes, InsertionFlags, Insertion!settings, Insertion!document, Insertion!gate,
     Insertion!filled, EditsBounded, MenuShowsCatalog, Insertion!NeverStuck
<1>5. Unchanged'
  BY <1>1, <1>2 DEF InsertionInv, InsertionTypes, InsertionFlags, Insertion!settings, Insertion!document, Insertion!gate,
     Insertion!filled, Unchanged
<1>6. TakenOut'
  BY <1>1, <1>2 DEF InsertionInv, InsertionTypes, InsertionFlags, Insertion!settings, Insertion!document, Insertion!gate,
     Insertion!filled, TakenOut
<1>7. InTurn'
  BY <1>1, <1>2 DEF InsertionInv, InsertionTypes, InsertionFlags, Insertion!settings, Insertion!document, Insertion!gate,
     Insertion!filled, InTurn, OfFrom, Filled
<1> QED BY <1>3, <1>4, <1>5, <1>6, <1>7 DEF InsertionInv

LEMMA TakeOutKeeps == ASSUME Insertion!InsertionAssumption, InsertionInv, Insertion!TakeOut PROVE InsertionInv'
<1>1. InsertionTypes'
  <2>1. InsertionFlags'
    BY InsertionBounds, Costs, PlanIsFilling, FreshIsNode DEF Insertion!TakeOut, Insertion!Change, InsertionInv,
       InsertionTypes, InsertionFlags, Insertion!settings, Insertion!document, Insertion!gate, Insertion!filled,
       Insertion!Catalog
  <2> QED BY InsertionBounds, Costs, PlanIsFilling, FreshIsNode, <2>1 DEF Insertion!TakeOut, Insertion!Change,
             InsertionInv, InsertionTypes, Insertion!settings, Insertion!document, Insertion!gate, Insertion!filled,
             Insertion!Catalog
<1>2. EditsBounded'
  BY InsertionBounds, FreshIsNode DEF Insertion!TakeOut, Insertion!Change, InsertionInv, InsertionTypes,
     InsertionFlags, EditsBounded,
     Insertion!settings, Insertion!document, Insertion!gate, Insertion!filled, Insertion!Spend
<1>3. Unchanged'
  BY InsertionBounds, FreshIsNode, PlanIsFilling, NodesAre DEF Insertion!TakeOut, Insertion!Change, InsertionInv,
     InsertionTypes, InsertionFlags, Unchanged, Insertion!settings, Insertion!document, Insertion!gate, Insertion!filled,
     Insertion!Untouched, Insertion!Edited
<1>4. TakenOut'
  BY InsertionBounds, FreshIsNode, PlanIsFilling, NodesAre DEF Insertion!TakeOut, Insertion!Change, InsertionInv,
     InsertionTypes, InsertionFlags, TakenOut, Insertion!settings, Insertion!document, Insertion!gate, Insertion!filled,
     Insertion!Untouched, Insertion!Edited
<1>5. MenuShowsCatalog' /\ Insertion!NeverStuck'
  BY InsertionBounds DEF Insertion!TakeOut, Insertion!Change, InsertionInv, InsertionTypes, InsertionFlags, MenuShowsCatalog,
     Insertion!NeverStuck, Insertion!settings, Insertion!document, Insertion!gate, Insertion!filled
<1>6. InTurn'
  BY InsertionBounds, FreshIsNode, PlanIsFilling, NodesAre DEF Insertion!TakeOut, Insertion!Change, InsertionInv,
     InsertionTypes, InsertionFlags, InTurn, Unchanged, TakenOut, Filled, OfFrom, Insertion!settings, Insertion!document,
     Insertion!gate, Insertion!filled, Insertion!Untouched, Insertion!Edited
<1> QED BY <1>1, <1>2, <1>3, <1>4, <1>5, <1>6 DEF InsertionInv

LEMMA UndoKeeps == ASSUME Insertion!InsertionAssumption, InsertionInv, Insertion!Undo PROVE InsertionInv'
<1>1. InsertionTypes'
  <2>1. InsertionFlags'
    BY InsertionBounds, Costs, PlanIsFilling, FreshIsNode DEF Insertion!Undo, Insertion!Change, InsertionInv,
       InsertionTypes, InsertionFlags, Insertion!settings, Insertion!document, Insertion!gate, Insertion!filled,
       Insertion!Catalog
  <2> QED BY InsertionBounds, Costs, PlanIsFilling, FreshIsNode, <2>1 DEF Insertion!Undo, Insertion!Change,
             InsertionInv, InsertionTypes, Insertion!settings, Insertion!document, Insertion!gate, Insertion!filled,
             Insertion!Catalog
<1>2. EditsBounded'
  BY InsertionBounds, FreshIsNode DEF Insertion!Undo, Insertion!Change, InsertionInv, InsertionTypes, InsertionFlags,
     EditsBounded,
     Insertion!settings, Insertion!document, Insertion!gate, Insertion!filled, Insertion!Spend
<1>3. Unchanged'
  BY InsertionBounds, FreshIsNode, PlanIsFilling, NodesAre DEF Insertion!Undo, Insertion!Change, InsertionInv,
     InsertionTypes, InsertionFlags, Unchanged, Insertion!settings, Insertion!document, Insertion!gate, Insertion!filled,
     Insertion!Untouched, Insertion!Edited
<1>4. TakenOut'
  BY InsertionBounds, FreshIsNode, PlanIsFilling, NodesAre DEF Insertion!Undo, Insertion!Change, InsertionInv,
     InsertionTypes, InsertionFlags, TakenOut, Insertion!settings, Insertion!document, Insertion!gate, Insertion!filled,
     Insertion!Untouched, Insertion!Edited
<1>5. MenuShowsCatalog' /\ Insertion!NeverStuck'
  BY InsertionBounds DEF Insertion!Undo, Insertion!Change, InsertionInv, InsertionTypes, InsertionFlags, MenuShowsCatalog,
     Insertion!NeverStuck, Insertion!settings, Insertion!document, Insertion!gate, Insertion!filled
<1>6. InTurn'
  BY InsertionBounds, FreshIsNode, PlanIsFilling, NodesAre DEF Insertion!Undo, Insertion!Change, InsertionInv,
     InsertionTypes, InsertionFlags, InTurn, Unchanged, TakenOut, Filled, OfFrom, Insertion!settings, Insertion!document,
     Insertion!gate, Insertion!filled, Insertion!Untouched, Insertion!Edited
<1> QED BY <1>1, <1>2, <1>3, <1>4, <1>5, <1>6 DEF InsertionInv

LEMMA ButtonKeeps == ASSUME Insertion!InsertionAssumption, InsertionInv, Insertion!Button PROVE InsertionInv'
<1>1. InsertionTypes'
  <2>1. InsertionFlags'
    BY DEF Insertion!Button, Insertion!StartInsert, InsertionInv, InsertionTypes, InsertionFlags, Insertion!settings,
       Insertion!document, Insertion!gate, Insertion!filled
  <2> QED BY <2>1 DEF Insertion!Button, Insertion!StartInsert, InsertionInv, InsertionTypes, Insertion!settings,
             Insertion!document, Insertion!gate, Insertion!filled
<1>2. EditsBounded'
  BY InsertionBounds, FreshIsNode DEF Insertion!Button, Insertion!StartInsert, InsertionInv, InsertionTypes, InsertionFlags,
     EditsBounded, Insertion!settings, Insertion!document, Insertion!gate, Insertion!filled, Insertion!Spend
<1>3. Unchanged'
  BY InsertionBounds, FreshIsNode, PlanIsFilling, NodesAre DEF Insertion!Button, Insertion!StartInsert, InsertionInv,
     InsertionTypes, InsertionFlags, Unchanged, Insertion!settings, Insertion!document, Insertion!gate, Insertion!filled,
     Insertion!Untouched, Insertion!Edited
<1>4. TakenOut'
  BY InsertionBounds, FreshIsNode, PlanIsFilling, NodesAre DEF Insertion!Button, Insertion!StartInsert, InsertionInv,
     InsertionTypes, InsertionFlags, TakenOut, Insertion!settings, Insertion!document, Insertion!gate, Insertion!filled,
     Insertion!Untouched, Insertion!Edited
<1>5. MenuShowsCatalog' /\ Insertion!NeverStuck'
  BY InsertionBounds DEF Insertion!Button, Insertion!StartInsert, InsertionInv, InsertionTypes, InsertionFlags,
     MenuShowsCatalog,
     Insertion!NeverStuck, Insertion!settings, Insertion!document, Insertion!gate, Insertion!filled
<1>6. InTurn'
  BY InsertionBounds, FreshIsNode, PlanIsFilling, NodesAre DEF Insertion!Button, Insertion!StartInsert, InsertionInv,
     InsertionTypes, InsertionFlags, InTurn, Unchanged, TakenOut, Filled, OfFrom, Insertion!settings, Insertion!document,
     Insertion!gate, Insertion!filled, Insertion!Untouched, Insertion!Edited
<1> QED BY <1>1, <1>2, <1>3, <1>4, <1>5, <1>6 DEF InsertionInv

LEMMA ChooseKeeps == ASSUME Insertion!InsertionAssumption, InsertionInv, Insertion!Choose PROVE InsertionInv'
<1>1. /\ menu /\ ~busy /\ insert = None /\ insert' = from /\ busy' = TRUE /\ ready' = FALSE /\ menu' = FALSE
      /\ UNCHANGED <<Insertion!settings, from, initialize, loadFailed, catalogLoading, catalog, Insertion!filled, Insertion!document>>
      /\ strayed' = (strayed \/ loadFailed \/ catalog.account # from)
  BY DEF Insertion!Choose, Insertion!StartInsert
<1>2. allowance' \in [{"edits", "undos", "faults", "settings", "strays"} -> Nat] /\ allowance'["edits"] = allowance["edits"]
  BY Costs DEF Insertion!Choose, InsertionInv, InsertionTypes, InsertionFlags
<1>3. InsertionTypes'
  <2>1. InsertionFlags'
    BY <1>1, <1>2 DEF InsertionInv, InsertionTypes, InsertionFlags, Insertion!settings, Insertion!document,
       Insertion!gate, Insertion!filled
  <2> QED BY <1>1, <1>2, <2>1 DEF InsertionInv, InsertionTypes, Insertion!settings, Insertion!document,
             Insertion!gate, Insertion!filled
<1>4. EditsBounded' /\ MenuShowsCatalog' /\ Unchanged' /\ TakenOut'
  BY <1>1, <1>2 DEF InsertionInv, InsertionTypes, InsertionFlags, Insertion!settings, Insertion!document, Insertion!gate,
     Insertion!filled, EditsBounded, MenuShowsCatalog, Unchanged, TakenOut
<1>5. Insertion!NeverStuck' /\ (~strayed' => catalog # None /\ catalog.account = from /\ ~loadFailed)
  BY <1>1, InsertionBounds DEF Insertion!NeverStuck, InsertionInv, InsertionTypes, InsertionFlags, MenuShowsCatalog
<1>6. InTurn'
  <2> SUFFICES ASSUME ~strayed' PROVE InTurn'
    BY DEF InTurn
  <2>1. ~strayed /\ ready /\ OfFrom
    BY <1>1, <1>5 DEF InsertionInv, InTurn, OfFrom
  <2> QED BY <1>1, <1>5, <2>1 DEF InsertionInv, InsertionTypes, InsertionFlags, Insertion!settings, Insertion!document,
             Insertion!gate, Insertion!filled, InTurn, OfFrom, Filled
<1> QED BY <1>3, <1>4, <1>5, <1>6 DEF InsertionInv

LEMMA InsertedKeeps == ASSUME Insertion!InsertionAssumption, InsertionInv, Insertion!Inserted PROVE InsertionInv'
<1>1. /\ insert # None /\ insert' = None /\ busy' = FALSE /\ ready' = TRUE
      /\ UNCHANGED <<Insertion!settings, from, initialize, loadFailed, catalogLoading, catalog, Insertion!filled, removed, undone, menu, strayed>>
  BY DEF Insertion!Inserted
<1>2. CASE UNCHANGED <<node, past, allowance>>
  <2>1. InsertionTypes'
    <3>1. ready' \in BOOLEAN /\ busy' \in BOOLEAN /\ loadFailed' \in BOOLEAN /\ catalogLoading' \in BOOLEAN /\ emptied' \in BOOLEAN
      BY <1>1, <1>2 DEF InsertionInv, InsertionTypes, InsertionFlags, Insertion!settings, Insertion!document,
         Insertion!gate, Insertion!filled
    <3> QED BY <1>1, <1>2, <3>1 DEF InsertionInv, InsertionTypes, InsertionFlags, Insertion!settings, Insertion!document,
               Insertion!gate, Insertion!filled
  <2>2. EditsBounded' /\ MenuShowsCatalog' /\ Insertion!NeverStuck' /\ Unchanged' /\ TakenOut'
    BY <1>1, <1>2 DEF InsertionInv, InsertionTypes, InsertionFlags, Insertion!settings, Insertion!document, Insertion!gate,
       Insertion!filled, EditsBounded, MenuShowsCatalog, Insertion!NeverStuck, Unchanged, TakenOut
  <2>3. InTurn'
    BY <1>1, <1>2 DEF InsertionInv, InsertionTypes, InsertionFlags, Insertion!settings, Insertion!document, Insertion!gate,
       Insertion!filled, InTurn, OfFrom, Filled
  <2> QED BY <2>1, <2>2, <2>3 DEF InsertionInv
<1>3. CASE node # None /\ Insertion!Spend("edits") /\ Insertion!Change([node EXCEPT !.edits = @ + 1])
  <2>1. /\ node' \in Insertion!SignatureNode /\ node' # None /\ Insertion!Edited(node') /\ past' = node /\ node # None
        /\ node'.edits + allowance'["edits"] <= MaxEdits + 1 /\ past'.edits + allowance'["edits"] <= MaxEdits + 1 /\ allowance'["edits"] <= MaxEdits
        /\ allowance' \in [{"edits", "undos", "faults", "settings", "strays"} -> Nat]
    BY <1>3, EditedNode
  <2>2. InsertionTypes'
    <3>1. InsertionFlags'
      BY <1>1, <2>1 DEF InsertionInv, InsertionTypes, InsertionFlags, Insertion!settings, Insertion!document,
         Insertion!gate, Insertion!filled
    <3> QED BY <1>1, <2>1, <3>1 DEF InsertionInv, InsertionTypes, Insertion!settings, Insertion!document,
               Insertion!gate, Insertion!filled
  <2>3. EditsBounded' /\ MenuShowsCatalog' /\ Insertion!NeverStuck'
    BY <1>1, <2>1 DEF InsertionInv, InsertionTypes, InsertionFlags, Insertion!settings, Insertion!document, Insertion!gate,
       Insertion!filled, EditsBounded, MenuShowsCatalog, Insertion!NeverStuck
  <2>4. Unchanged' /\ TakenOut'
    BY <1>1, <2>1 DEF InsertionInv, InsertionTypes, InsertionFlags, Insertion!settings, Insertion!document, Insertion!gate,
       Insertion!filled, Unchanged, TakenOut
  <2>5. InTurn'
    BY <1>1, <2>1 DEF InsertionInv, InsertionTypes, InsertionFlags, Insertion!settings, Insertion!document, Insertion!gate,
       Insertion!filled, InTurn, OfFrom, Filled
  <2> QED BY <2>2, <2>3, <2>4, <2>5 DEF InsertionInv
<1> QED BY <1>2, <1>3 DEF Insertion!Inserted

LEMMA InsertionInitHolds == ASSUME Insertion!InsertionAssumption, Insertion!Init PROVE InsertionInv
<1>1. node \in Insertion!SignatureNode \cup {None} /\ (node # None => node.edits + MaxEdits <= MaxEdits + 1) /\ (initialize => node = None)
  BY InsertionBounds DEF Insertion!Init, Insertion!SignatureNode
<1>2. allowance \in [{"edits", "undos", "faults", "settings", "strays"} -> Nat] /\ allowance["edits"] = MaxEdits
  BY InsertionBounds DEF Insertion!Init
<1>3. InsertionTypes
  BY <1>1, <1>2 DEF Insertion!Init, InsertionTypes, InsertionFlags
<1>4. EditsBounded /\ Unchanged /\ TakenOut /\ MenuShowsCatalog /\ Insertion!NeverStuck
  BY <1>1, <1>2 DEF Insertion!Init, EditsBounded, Unchanged, TakenOut, MenuShowsCatalog, Insertion!NeverStuck
<1>5. InTurn
  BY InsertionBounds DEF Insertion!Init, InTurn, OfFrom
<1> QED BY <1>3, <1>4, <1>5 DEF InsertionInv

LEMMA InsertionNextKeeps == ASSUME Insertion!InsertionAssumption, InsertionInv, [Insertion!Next]_Insertion!vars
  PROVE InsertionInv'
<1>1. CASE UNCHANGED Insertion!vars
  <2>1. InsertionTypes' /\ EditsBounded' /\ Unchanged' /\ TakenOut' /\ MenuShowsCatalog' /\ Insertion!NeverStuck'
    BY <1>1 DEF Insertion!vars, InsertionInv, InsertionTypes, InsertionFlags, Insertion!settings, Insertion!document,
       Insertion!gate,
       Insertion!filled, EditsBounded, Unchanged, TakenOut, MenuShowsCatalog, Insertion!NeverStuck
  <2>2. InTurn'
    BY <1>1 DEF Insertion!vars, InsertionInv, InsertionTypes, InsertionFlags, Insertion!settings, Insertion!document,
       Insertion!gate,
       Insertion!filled, InTurn, OfFrom, Filled
  <2> QED BY <2>1, <2>2 DEF InsertionInv
<1> QED BY <1>1, InsertionDefaultKeeps, InsertionDeleteKeeps, CatalogLoadKeeps, CatalogRetryKeeps, NoteKeeps,
           LateFillingKeeps, PlaceKeeps, PlaceFailsKeeps,
           SelectFromKeeps, EditKeeps, TakeOutKeeps, UndoKeeps, ButtonKeeps, ChooseKeeps, InsertedKeeps DEF Insertion!Next

\* Whatever the user, the settings and the answers do in whichever order, what the composer knows of
\* the signature in the document holds.
THEOREM InsertionInvariantHolds == ASSUME Insertion!InsertionAssumption PROVE Insertion!Spec => []InsertionInv
<1>1. Insertion!Init => InsertionInv
  BY InsertionInitHolds
<1>2. InsertionInv /\ [Insertion!Next]_Insertion!vars => InsertionInv'
  BY InsertionNextKeeps
<1> QED BY <1>1, <1>2, PTL DEF Insertion!Spec

\* A composer that is ready has settled its signature, if nothing was chosen from a list that had stayed
\* open; one that is not is about to be, or offers to try again.
THEOREM ReadySignatureIsSettled == ASSUME Insertion!InsertionAssumption PROVE Insertion!Spec => [](Insertion!TypeOK /\ Insertion!ReadyIsSettled /\ Insertion!NeverStuck)
<1>1. InsertionInv => Insertion!TypeOK
  BY DEF InsertionInv, InsertionTypes, InsertionFlags, Insertion!TypeOK
<1>2. InsertionInv => Insertion!ReadyIsSettled
  BY DEF InsertionInv, InTurn, OfFrom, Filled, Insertion!ReadyIsSettled, Insertion!Settled
<1>3. InsertionInv => Insertion!NeverStuck
  BY DEF InsertionInv
<1> QED BY <1>1, <1>2, <1>3, InsertionInvariantHolds, PTL

\* rich-composer.tsx:316: "User edits always win."  As long as Undo was not used, a filling neither changes a
\* signature that the user has edited nor puts one back that was taken out.
THEOREM UserEditsWin == ASSUME Insertion!InsertionAssumption PROVE Insertion!Spec => Insertion!EditsWin
<1>1. ASSUME InsertionInv, [Insertion!Next]_Insertion!vars
        PROVE [Insertion!Automatic /\ ~undone => ~Insertion!Edited(node) /\ ~removed]_Insertion!vars
  <2> SUFFICES ASSUME Insertion!Automatic, ~undone PROVE ~Insertion!Edited(node) /\ ~removed
    OBVIOUS
  <2>1. Insertion!Place /\ node = fill.seen
    BY DEF Insertion!Automatic, Insertion!Note, Insertion!Late, Insertion!Place, Insertion!PlaceFails,
       Insertion!Rechecked, Insertion!document
  <2>2. fill # None /\ fill.plan = "place" /\ node \in Insertion!SignatureNode \cup {None}
    BY <1>1, <2>1 DEF Insertion!Place, InsertionInv, InsertionTypes, InsertionFlags
  <2>3. Unchanged /\ Insertion!InsertionAssumption
    BY <1>1 DEF InsertionInv
  <2> QED BY <2>1, <2>2, <2>3, NodesAre DEF Unchanged
<1> QED BY <1>1, InsertionInvariantHolds, PTL DEF Insertion!Spec, Insertion!EditsWin

-----------------------------------------------------------------------------
(* The signatures of the settings *)

CONSTANTS Tabs, Ids, Files, MaxTexts
VARIABLES row, resources, upload, default, edit, saving, deleting, snapshot, texts, born, reborn, broken, faults

Templates == INSTANCE SignatureTemplates

TemplateTypes ==
  /\ row \in [Ids -> Templates!Signature \cup {None}] /\ resources \in [Ids -> SUBSET Files]
  /\ upload \in [Files -> Templates!Upload \cup {None}] /\ default \in Ids \cup {None}
  /\ edit \in [Tabs -> Templates!Editing \cup {None}] /\ saving \in [Tabs -> BOOLEAN]
  /\ deleting \in [Tabs -> Templates!Deletion \cup {None}]
  /\ snapshot \in Templates!Snapshot \cup {None}
  /\ texts \in 0..MaxTexts /\ born \subseteq Ids /\ faults \in 0..MaxFaults
  /\ reborn \in BOOLEAN /\ broken \in BOOLEAN

\* The images of a definition are those of its document, and its own.
OwnsImages ==
  /\ ~broken
  /\ \A i \in Ids : resources[i] = (IF row[i] = None THEN {} ELSE row[i].images)
  /\ \A i \in Ids : \A f \in resources[i] : upload[f] = [id |-> i, status |-> "consumed"]

\* The share lock keeps the definition as the snapshot has read it.
LockedRow == snapshot # None => row[snapshot.id] # None /\ snapshot.images = row[snapshot.id].images

\* The document that is being saved is a complete one.
SavesDocument == \A t \in Tabs : saving[t] => edit[t] # None /\ edit[t].text # 0 /\ edit[t].revision < MaxTexts

\* An editor that has a revision has one of a definition that was saved.
BornFirst ==
  /\ \A i \in Ids : row[i] # None => i \in born
  /\ \A t \in Tabs : edit[t] # None /\ edit[t].revision > 0 => edit[t].id \in born

\* While no id was used again, the row is as old as any editor of it, and an editor with the row's revision has read
\* its text.
ReadsText == ~reborn => \A t \in Tabs : edit[t] # None /\ row[edit[t].id] # None =>
  /\ edit[t].revision <= row[edit[t].id].revision
  /\ edit[t].revision = row[edit[t].id].revision => edit[t].base = row[edit[t].id].text

\* An editor as BornFirst and ReadsText have it.
Fits(e) ==
  /\ e.revision > 0 => e.id \in born
  /\ row[e.id] # None /\ ~reborn =>
       /\ e.revision <= row[e.id].revision
       /\ e.revision = row[e.id].revision => e.base = row[e.id].text

TemplateInv == TemplateTypes /\ OwnsImages /\ LockedRow /\ SavesDocument /\ BornFirst /\ ReadsText

LEMMA TemplateBounds == ASSUME Templates!TemplatesAssumption
  PROVE /\ MaxTexts \in Nat /\ MaxFaults \in Nat
        /\ None \notin Ids /\ None \notin Templates!Signature /\ None \notin Templates!Editing /\ None \notin Templates!Upload
        /\ None \notin Templates!Deletion /\ None \notin Templates!Snapshot
BY DEF Templates!TemplatesAssumption

LEMMA TemplateRows == ASSUME Templates!TemplatesAssumption, TemplateInv
  PROVE /\ \A i \in Ids : row[i] # None => /\ row[i].revision \in 1..MaxTexts /\ row[i].text \in 1..MaxTexts
                                          /\ row[i].images \in SUBSET Files /\ row[i] \in Templates!Signature
        /\ \A t \in Tabs : edit[t] # None => /\ edit[t].id \in Ids /\ edit[t].revision \in 0..MaxTexts /\ edit[t].base \in 0..MaxTexts
                                            /\ edit[t].text \in 0..MaxTexts /\ edit[t].images \in SUBSET Files /\ edit[t] \in Templates!Editing
        /\ \A t \in Tabs : deleting[t] # None => deleting[t].id \in Ids
        /\ \A f \in Files : upload[f] # None => upload[f].id \in Ids /\ upload[f].status \in {"ready", "expired", "consumed"}
        /\ snapshot # None => snapshot.id \in Ids /\ snapshot.images \in SUBSET Files
        /\ MaxTexts \in Nat /\ MaxFaults \in Nat /\ texts \in 0..MaxTexts
BY TemplateBounds DEF TemplateInv, TemplateTypes, Templates!Signature, Templates!Editing, Templates!Deletion,
   Templates!Upload, Templates!Snapshot

LEMMA TemplateInitHolds == ASSUME Templates!TemplatesAssumption, Templates!Init PROVE TemplateInv
<1>1. TemplateTypes
  <2>1. texts \in 0..MaxTexts /\ faults \in 0..MaxFaults /\ born \subseteq Ids
    BY TemplateBounds DEF Templates!Init
  <2>2. saving \in [Tabs -> BOOLEAN] /\ reborn \in BOOLEAN /\ broken \in BOOLEAN
    BY DEF Templates!Init
  <2>3. /\ row \in [Ids -> Templates!Signature \cup {None}] /\ resources \in [Ids -> SUBSET Files]
        /\ upload \in [Files -> Templates!Upload \cup {None}] /\ default \in Ids \cup {None}
        /\ edit \in [Tabs -> Templates!Editing \cup {None}] /\ deleting \in [Tabs -> Templates!Deletion \cup {None}]
        /\ snapshot \in Templates!Snapshot \cup {None}
    BY DEF Templates!Init
  <2> QED BY <2>1, <2>2, <2>3 DEF TemplateTypes
<1>2. OwnsImages /\ LockedRow /\ SavesDocument /\ BornFirst /\ ReadsText
  BY DEF Templates!Init, OwnsImages, LockedRow, SavesDocument, BornFirst, ReadsText
<1> QED BY <1>1, <1>2 DEF TemplateInv

\* A step that changes only what one tab edits.
LEMMA EditorKeeps ==
  ASSUME Templates!TemplatesAssumption, TemplateInv, NEW t \in Tabs, NEW e \in Templates!Editing \cup {None}, ~saving[t],
         edit' = [edit EXCEPT ![t] = e],
         UNCHANGED <<row, resources, default, saving, deleting, snapshot, born, reborn, broken, faults>>,
         texts' \in 0..MaxTexts, upload' \in [Files -> Templates!Upload \cup {None}],
         \A f \in Files : upload'[f] = upload[f] \/ upload[f] = None,
         e # None => Fits(e)
  PROVE  TemplateInv'
<1>1. edit' \in [Tabs -> Templates!Editing \cup {None}] /\ edit'[t] = e /\ \A u \in Tabs \ {t} : edit'[u] = edit[u]
  BY DEF TemplateInv, TemplateTypes
<1>2. TemplateTypes'
  BY <1>1 DEF TemplateInv, TemplateTypes
<1>3. OwnsImages'
  <2>1. ASSUME NEW i \in Ids, NEW f \in resources[i] PROVE upload'[f] = [id |-> i, status |-> "consumed"]
    <3>1. f \in Files /\ upload[f] = [id |-> i, status |-> "consumed"]
      BY DEF TemplateInv, TemplateTypes, OwnsImages
    <3>2. upload[f] # None
      BY <3>1, TemplateBounds DEF Templates!Upload
    <3> QED BY <3>1, <3>2
  <2> QED BY <2>1 DEF TemplateInv, OwnsImages
<1>4. LockedRow' /\ SavesDocument' /\ BornFirst' /\ ReadsText'
  <2>1. LockedRow' /\ SavesDocument'
    BY <1>1 DEF TemplateInv, LockedRow, SavesDocument
  <2>2. BornFirst'
    BY <1>1 DEF TemplateInv, BornFirst, Fits
  <2>3. ReadsText'
    <3>1. ASSUME NEW u \in Tabs, ~reborn, edit'[u] # None, row[edit'[u].id] # None
          PROVE  /\ edit'[u].revision <= row[edit'[u].id].revision
                 /\ edit'[u].revision = row[edit'[u].id].revision => edit'[u].base = row[edit'[u].id].text
      <4>1. CASE u = t
        BY <1>1, <3>1, <4>1 DEF Fits
      <4>2. CASE u # t
        BY <1>1, <3>1, <4>2 DEF TemplateInv, ReadsText
      <4> QED BY <4>1, <4>2
    <3> QED BY <3>1 DEF ReadsText
  <2> QED BY <2>1, <2>2, <2>3
<1> QED BY <1>2, <1>3, <1>4 DEF TemplateInv

LEMMA AddOpenKeep == ASSUME Templates!TemplatesAssumption, TemplateInv, NEW t \in Tabs, NEW i \in Ids,
  Templates!Add(t, i) \/ Templates!Open(t, i)
  PROVE TemplateInv'
<1>1. ~saving[t] /\ upload' = upload /\ texts' = texts /\ texts \in 0..MaxTexts /\ upload \in [Files -> Templates!Upload \cup {None}]
      /\ UNCHANGED <<row, resources, default, saving, deleting, snapshot, born, reborn, broken, faults>>
  BY DEF Templates!Add, Templates!Open, Templates!Free, Templates!store, TemplateInv, TemplateTypes
<1>2. CASE Templates!Add(t, i)
  <2>1. PICK e : e = [id |-> i, revision |-> 0, base |-> 0, text |-> 0, images |-> {}]
    OBVIOUS
  <2>2. e \in Templates!Editing /\ e.revision = 0 /\ e.id = i
    BY <2>1, TemplateBounds DEF Templates!Editing
  <2>3. row[i] # None => row[i].revision >= 1
    BY TemplateRows
  <2>4. edit' = [edit EXCEPT ![t] = e]
    BY <1>2, <2>1 DEF Templates!Add
  <2>5. row[i] # None => row[i].revision \in Nat
    BY TemplateRows
  <2>6. Fits(e)
    BY <1>2, <2>1, <2>2, <2>3, <2>5 DEF Fits
  <2> QED BY <1>1, <2>2, <2>4, <2>6, EditorKeeps
<1>3. CASE Templates!Open(t, i)
  <2>1. PICK e : e = [id |-> i, revision |-> row[i].revision, base |-> row[i].text, text |-> row[i].text, images |-> row[i].images]
    OBVIOUS
  <2>2. row[i] # None /\ row[i].revision \in 1..MaxTexts /\ row[i].text \in 1..MaxTexts /\ row[i].images \in SUBSET Files
    BY <1>3, TemplateRows DEF Templates!Open
  <2>3. e \in Templates!Editing /\ e.revision = row[i].revision /\ e.base = row[i].text /\ e.id = i
    BY <2>1, <2>2, TemplateBounds DEF Templates!Editing
  <2>4. edit' = [edit EXCEPT ![t] = e]
    BY <1>3, <2>1 DEF Templates!Open
  <2>5. i \in born
    BY <2>2 DEF TemplateInv, BornFirst
  <2>6. Fits(e)
    BY <2>2, <2>3, <2>5 DEF Fits
  <2> QED BY <1>1, <2>3, <2>4, <2>6, EditorKeeps
<1> QED BY <1>2, <1>3

LEMMA TypeCancelKeep == ASSUME Templates!TemplatesAssumption, TemplateInv, NEW t \in Tabs,
  Templates!Type(t) \/ Templates!Cancel(t)
  PROVE TemplateInv'
<1>1. ~saving[t] /\ upload' = upload /\ upload \in [Files -> Templates!Upload \cup {None}]
      /\ UNCHANGED <<row, resources, default, saving, deleting, snapshot, born, reborn, broken, faults>>
  BY DEF Templates!Type, Templates!Cancel, Templates!Free, Templates!store, TemplateInv, TemplateTypes
<1>2. CASE Templates!Type(t)
  <2>1. edit[t] # None /\ texts' = texts + 1 /\ texts < MaxTexts /\ texts + 1 \in 0..MaxTexts
    BY <1>2, TemplateRows DEF Templates!Type
  <2>2. PICK kept \in SUBSET edit[t].images : edit' = [edit EXCEPT ![t].text = texts + 1, ![t].images = kept]
    BY <1>2 DEF Templates!Type
  <2>3. PICK e : e = [edit[t] EXCEPT !.text = texts + 1, !.images = kept]
    OBVIOUS
  <2>4. edit[t] \in Templates!Editing /\ kept \in SUBSET Files
    BY <2>1, <2>2, TemplateRows
  <2>5. e \in Templates!Editing /\ e.id = edit[t].id /\ e.revision = edit[t].revision /\ e.base = edit[t].base
    BY <2>1, <2>3, <2>4 DEF Templates!Editing
  <2>6. edit' = [edit EXCEPT ![t] = e]
    BY <2>2, <2>3 DEF TemplateInv, TemplateTypes
  <2>7. Fits(e)
    BY <2>1, <2>5 DEF TemplateInv, BornFirst, ReadsText, Fits
  <2> QED BY <1>1, <2>1, <2>5, <2>6, <2>7, EditorKeeps
<1>3. CASE Templates!Cancel(t)
  <2>1. edit' = [edit EXCEPT ![t] = None] /\ texts' = texts /\ texts \in 0..MaxTexts
    BY <1>3, TemplateRows DEF Templates!Cancel
  <2> QED BY <1>1, <2>1, EditorKeeps
<1> QED BY <1>2, <1>3

LEMMA UploadImageKeeps == ASSUME Templates!TemplatesAssumption, TemplateInv, NEW t \in Tabs, NEW f \in Files,
  Templates!UploadImage(t, f)
  PROVE TemplateInv'
<1>1. ~saving[t] /\ edit[t] # None /\ upload[f] = None /\ texts' = texts /\ texts \in 0..MaxTexts
      /\ UNCHANGED <<row, resources, default, saving, deleting, snapshot, born, reborn, broken, faults>>
  BY TemplateRows DEF Templates!UploadImage, Templates!Free
<1>2. edit[t] \in Templates!Editing /\ edit[t].id \in Ids /\ edit[t].images \in SUBSET Files
  BY <1>1, TemplateRows
<1>3. PICK e : e = [edit[t] EXCEPT !.images = edit[t].images \cup {f}]
  OBVIOUS
<1>4. e \in Templates!Editing /\ e.id = edit[t].id /\ e.revision = edit[t].revision /\ e.base = edit[t].base
  BY <1>2, <1>3 DEF Templates!Editing
<1>5. edit' = [edit EXCEPT ![t] = e]
  BY <1>3 DEF Templates!UploadImage, TemplateInv, TemplateTypes
<1>6. /\ upload' \in [Files -> Templates!Upload \cup {None}]
      /\ \A g \in Files : upload'[g] = upload[g] \/ upload[g] = None
  <2>1. [id |-> edit[t].id, status |-> "ready"] \in Templates!Upload
    BY <1>2 DEF Templates!Upload
  <2>2. upload' = [upload EXCEPT ![f] = [id |-> edit[t].id, status |-> "ready"]]
    BY DEF Templates!UploadImage
  <2> QED BY <1>1, <2>1, <2>2 DEF TemplateInv, TemplateTypes
<1>7. Fits(e)
  BY <1>1, <1>4 DEF TemplateInv, BornFirst, ReadsText, Fits
<1> QED BY <1>1, <1>4, <1>5, <1>6, <1>7, EditorKeeps

LEMMA ExpireKeeps == ASSUME Templates!TemplatesAssumption, TemplateInv, NEW f \in Files, Templates!Expire(f)
  PROVE TemplateInv'
<1>1. upload[f] # None /\ upload[f] \in Templates!Upload /\ upload[f].status = "ready" /\ faults' \in 0..MaxFaults
  BY TemplateBounds DEF Templates!Expire, Templates!Fault, TemplateInv, TemplateTypes
<1>2. upload' = [upload EXCEPT ![f] = [upload[f] EXCEPT !.status = "expired"]]
  BY DEF Templates!Expire
<1>3. [upload[f] EXCEPT !.status = "expired"] \in Templates!Upload
  BY <1>1 DEF Templates!Upload
<1>4. upload' \in [Files -> Templates!Upload \cup {None}] /\ \A g \in Files : g # f => upload'[g] = upload[g]
  BY <1>2, <1>3 DEF TemplateInv, TemplateTypes
<1>5. ASSUME NEW i \in Ids PROVE f \notin resources[i]
  <2> SUFFICES ASSUME f \in resources[i] PROVE FALSE
    OBVIOUS
  <2>1. upload[f] = [id |-> i, status |-> "consumed"]
    BY DEF TemplateInv, OwnsImages
  <2>2. upload[f].status = "consumed"
    BY <2>1
  <2> QED BY <1>1, <2>2
<1>6. TemplateTypes'
  BY <1>1, <1>4 DEF Templates!Expire, TemplateInv, TemplateTypes
<1>7. OwnsImages'
  BY <1>4, <1>5 DEF Templates!Expire, TemplateInv, TemplateTypes, OwnsImages
<1>8. LockedRow' /\ SavesDocument' /\ BornFirst' /\ ReadsText'
  BY DEF Templates!Expire, TemplateInv, LockedRow, SavesDocument, BornFirst, ReadsText
<1> QED BY <1>6, <1>7, <1>8 DEF TemplateInv

LEMMA SaveKeeps == ASSUME Templates!TemplatesAssumption, TemplateInv, NEW t \in Tabs, Templates!Save(t) PROVE TemplateInv'
<1>1. TemplateTypes' /\ OwnsImages' /\ LockedRow' /\ BornFirst' /\ ReadsText'
  BY DEF Templates!Save, Templates!store, TemplateInv, TemplateTypes, OwnsImages, LockedRow, BornFirst, ReadsText
<1>2. SavesDocument'
  BY DEF Templates!Save, Templates!store, TemplateInv, TemplateTypes, SavesDocument
<1> QED BY <1>1, <1>2 DEF TemplateInv

\* What a save that is accepted does.
LEMMA CommitDoes ==
  ASSUME Templates!TemplatesAssumption, TemplateInv, NEW t \in Tabs, Templates!Commit(t), row' # row \/ resources' # resources \/ upload' # upload
                                                                 \/ born' # born \/ reborn' # reborn \/ edit' # edit \/ faults' # faults
  PROVE  /\ edit[t] # None /\ edit[t].id \in Ids /\ Templates!Expected(edit[t]) /\ Templates!Lockable(edit[t].id)
         /\ \A f \in edit[t].images \ resources[edit[t].id] : Templates!Pending(edit[t].id, f)
         /\ row' = [row EXCEPT ![edit[t].id] = [revision |-> edit[t].revision + 1, text |-> edit[t].text, images |-> edit[t].images]]
         /\ resources' = [resources EXCEPT ![edit[t].id] = edit[t].images]
         /\ upload' = [f \in Files |-> IF f \in edit[t].images \ resources[edit[t].id] THEN [upload[f] EXCEPT !.status = "consumed"]
                                       ELSE upload[f]]
         /\ born' = born \cup {edit[t].id}
         /\ reborn' = (reborn \/ (row[edit[t].id] = None /\ edit[t].id \in born))
         /\ edit' = [edit EXCEPT ![t] = None] \/ UNCHANGED edit
         /\ faults' \in 0..MaxFaults
<1>1. edit[t] # None /\ edit[t].id \in Ids
  BY TemplateRows DEF Templates!Commit, TemplateInv, SavesDocument
<1>2. faults \in 0..MaxFaults /\ MaxFaults \in Nat
  BY TemplateBounds DEF TemplateInv, TemplateTypes
<1>3. /\ Templates!Expected(edit[t]) /\ \A f \in edit[t].images \ resources[edit[t].id] : Templates!Pending(edit[t].id, f)
  BY DEF Templates!Commit
<1> QED BY <1>1, <1>2, <1>3 DEF Templates!Commit, Templates!Claimed, Templates!Fault

LEMMA CommitKeeps == ASSUME Templates!TemplatesAssumption, TemplateInv, NEW t \in Tabs, Templates!Commit(t) PROVE TemplateInv'
<1>0. saving[t] /\ saving' = [saving EXCEPT ![t] = FALSE] /\ UNCHANGED <<default, deleting, snapshot, texts, broken>>
  BY DEF Templates!Commit
<1>1. CASE UNCHANGED <<row, resources, upload, born, reborn, edit, faults>>
  BY <1>0, <1>1 DEF TemplateInv, TemplateTypes, OwnsImages, LockedRow, SavesDocument, BornFirst, ReadsText
<1>2. CASE ~UNCHANGED <<row, resources, upload, born, reborn, edit, faults>>
  <2> DEFINE i == edit[t].id
             new == edit[t].images \ resources[i]
             saved == [revision |-> edit[t].revision + 1, text |-> edit[t].text, images |-> edit[t].images]
  <2>1. /\ edit[t] # None /\ i \in Ids /\ Templates!Expected(edit[t]) /\ Templates!Lockable(i) /\ \A f \in new : Templates!Pending(i, f)
        /\ row' = [row EXCEPT ![i] = saved] /\ resources' = [resources EXCEPT ![i] = edit[t].images]
        /\ upload' = [f \in Files |-> IF f \in new THEN [upload[f] EXCEPT !.status = "consumed"] ELSE upload[f]]
        /\ born' = born \cup {i} /\ reborn' = (reborn \/ (row[i] = None /\ i \in born))
        /\ edit' = [edit EXCEPT ![t] = None] \/ UNCHANGED edit
        /\ faults' \in 0..MaxFaults
    BY <1>2, CommitDoes
  <2>2. /\ edit[t].revision \in 0..MaxTexts /\ edit[t].text \in 0..MaxTexts /\ edit[t].images \in SUBSET Files
        /\ edit[t].text # 0 /\ edit[t].revision < MaxTexts /\ MaxTexts \in Nat
    BY <1>0, <2>1, TemplateRows DEF TemplateInv, SavesDocument
  <2>3. /\ saved \in Templates!Signature /\ saved # None /\ saved.revision = edit[t].revision + 1 /\ saved.images = edit[t].images
        /\ saved.text = edit[t].text
    <3>1. saved \in Templates!Signature
      BY <2>2 DEF Templates!Signature
    <3> QED BY <3>1, TemplateBounds
  <2>4. ASSUME NEW f \in new
          PROVE f \in Files /\ upload[f] = [id |-> i, status |-> "ready"] /\ upload'[f] = [id |-> i, status |-> "consumed"]
    BY <2>1, <2>2 DEF Templates!Pending
  <2>5. \A f \in Files \ new : upload'[f] = upload[f]
    BY <2>1
  <2>6. \A u \in Tabs : edit'[u] = edit[u] \/ edit'[u] = None
    BY <2>1 DEF TemplateInv, TemplateTypes
  <2>7. /\ row'[i] = saved /\ \A j \in Ids \ {i} : row'[j] = row[j]
        /\ resources'[i] = edit[t].images /\ \A j \in Ids \ {i} : resources'[j] = resources[j]
    BY <2>1 DEF TemplateInv, TemplateTypes
  <2> HIDE DEF saved, new
  <2>8. TemplateTypes'
    <3>1. row' \in [Ids -> Templates!Signature \cup {None}] /\ resources' \in [Ids -> SUBSET Files]
      BY <2>1, <2>2, <2>3 DEF TemplateInv, TemplateTypes
    <3>2. upload' \in [Files -> Templates!Upload \cup {None}]
      <4>1. ASSUME NEW f \in Files PROVE upload'[f] \in Templates!Upload \cup {None}
        <5>1. CASE f \in new
          BY <5>1, <2>1, <2>4 DEF Templates!Upload
        <5>2. CASE f \notin new
          BY <5>2, <2>5 DEF TemplateInv, TemplateTypes
        <5> QED BY <5>1, <5>2
      <4>2. upload' = [f \in Files |-> upload'[f]]
        BY <2>1
      <4> QED BY <4>1, <4>2
    <3>3. edit' \in [Tabs -> Templates!Editing \cup {None}] /\ saving' \in [Tabs -> BOOLEAN]
      BY <1>0, <2>1 DEF TemplateInv, TemplateTypes
    <3>4. born' \subseteq Ids /\ reborn' \in BOOLEAN
      BY <2>1 DEF TemplateInv, TemplateTypes
    <3> QED BY <1>0, <2>1, <3>1, <3>2, <3>3, <3>4 DEF TemplateInv, TemplateTypes
  <2>9. OwnsImages'
    <3>1. ASSUME NEW j \in Ids PROVE resources'[j] = (IF row'[j] = None THEN {} ELSE row'[j].images)
      BY <2>3, <2>7 DEF TemplateInv, OwnsImages
    <3>2. ASSUME NEW j \in Ids, NEW f \in resources'[j] PROVE upload'[f] = [id |-> j, status |-> "consumed"]
      <4>1. CASE f \in new
        <5>1. f \notin resources[j]
          <6> SUFFICES ASSUME f \in resources[j] PROVE FALSE
            OBVIOUS
          <6>1. upload[f] = [id |-> j, status |-> "consumed"] /\ upload[f] = [id |-> i, status |-> "ready"]
            BY <2>4, <4>1 DEF TemplateInv, OwnsImages
          <6>2. upload[f].status = "consumed" /\ upload[f].status = "ready"
            BY <6>1
          <6> QED BY <6>2
        <5> QED BY <2>4, <2>7, <4>1, <5>1
      <4>2. CASE f \notin new
        <5>1. f \in resources[j] /\ f \in Files
          BY <2>2, <2>7, <4>2 DEF new, TemplateInv, TemplateTypes
        <5> QED BY <2>5, <4>2, <5>1 DEF TemplateInv, OwnsImages
      <4> QED BY <4>1, <4>2
    <3> QED BY <1>0, <3>1, <3>2 DEF TemplateInv, OwnsImages
  <2>10. LockedRow'
    BY <1>0, <2>1, <2>7, TemplateRows DEF TemplateInv, LockedRow, Templates!Lockable
  <2>11. SavesDocument'
    <3> SUFFICES ASSUME NEW u \in Tabs, saving'[u] PROVE edit'[u] # None /\ edit'[u].text # 0 /\ edit'[u].revision < MaxTexts
      BY DEF SavesDocument
    <3>1. u # t /\ saving[u]
      BY <1>0 DEF TemplateInv, TemplateTypes
    <3>2. edit'[u] = edit[u]
      BY <2>1, <3>1 DEF TemplateInv, TemplateTypes
    <3> QED BY <3>1, <3>2 DEF TemplateInv, SavesDocument
  <2>12. BornFirst'
    BY <2>1, <2>6, <2>7 DEF TemplateInv, BornFirst
  <2>13. ReadsText'
    <3> SUFFICES ASSUME ~reborn', NEW u \in Tabs, edit'[u] # None, row'[edit'[u].id] # None
                 PROVE  /\ edit'[u].revision <= row'[edit'[u].id].revision
                        /\ edit'[u].revision = row'[edit'[u].id].revision => edit'[u].base = row'[edit'[u].id].text
      BY DEF ReadsText
    <3>1. ~reborn /\ (row[i] = None => i \notin born)
      BY <2>1
    <3>2. edit'[u] = edit[u] /\ edit[u] # None /\ edit[u].id \in Ids /\ edit[u].revision \in Nat
      BY <2>6, TemplateRows
    <3>3. CASE edit[u].id # i
      BY <2>7, <3>1, <3>2, <3>3 DEF TemplateInv, ReadsText
    <3>4. CASE edit[u].id = i
      <4>1. edit[u].revision <= edit[t].revision
        <5>1. CASE row[i] = None
          BY <2>2, <3>1, <3>2, <3>4, <5>1 DEF TemplateInv, BornFirst
        <5>2. CASE row[i] # None
          <6>1. row[i].revision = edit[t].revision
            BY <2>1, <5>2 DEF Templates!Expected
          <6> QED BY <3>1, <3>2, <3>4, <5>2, <6>1 DEF TemplateInv, ReadsText
        <5> QED BY <5>1, <5>2
      <4> QED BY <2>2, <2>3, <2>7, <3>2, <3>4, <4>1
    <3> QED BY <3>3, <3>4
  <2> QED BY <2>8, <2>9, <2>10, <2>11, <2>12, <2>13 DEF TemplateInv
<1> QED BY <1>1, <1>2

LEMMA AskDeleteKeeps == ASSUME Templates!TemplatesAssumption, TemplateInv, NEW t \in Tabs, NEW i \in Ids,
  Templates!AskDelete(t, i)
  PROVE TemplateInv'
<1>1. [id |-> i, revision |-> row[i].revision] \in Templates!Deletion
  BY TemplateRows DEF Templates!AskDelete, Templates!Deletion
<1>2. deleting' \in [Tabs -> Templates!Deletion \cup {None}]
  BY <1>1 DEF Templates!AskDelete, TemplateInv, TemplateTypes
<1>3. TemplateTypes'
  BY <1>2 DEF Templates!AskDelete, Templates!store, TemplateInv, TemplateTypes
<1>4. OwnsImages' /\ LockedRow' /\ SavesDocument' /\ BornFirst' /\ ReadsText'
  BY DEF Templates!AskDelete, Templates!store, TemplateInv, OwnsImages, LockedRow, SavesDocument, BornFirst, ReadsText
<1> QED BY <1>3, <1>4 DEF TemplateInv

LEMMA TemplateDeleteKeeps == ASSUME Templates!TemplatesAssumption, TemplateInv, NEW t \in Tabs, Templates!Delete(t)
  PROVE TemplateInv'
<1>1. /\ deleting[t] # None /\ deleting' = [deleting EXCEPT ![t] = None] /\ deleting[t].id \in Ids /\ Templates!Lockable(deleting[t].id)
      /\ UNCHANGED <<upload, edit, saving, snapshot, texts, born, reborn, broken, faults>>
  BY TemplateRows DEF Templates!Delete
<1>2. CASE UNCHANGED <<row, resources, default>>
  <2>1. TemplateTypes'
    BY <1>1, <1>2 DEF TemplateInv, TemplateTypes
  <2> QED BY <1>1, <1>2, <2>1 DEF TemplateInv, OwnsImages, LockedRow, SavesDocument, BornFirst, ReadsText
<1>3. ASSUME NEW i \in Ids, i = deleting[t].id, row' = [row EXCEPT ![i] = None], resources' = [resources EXCEPT ![i] = {}],
             default' = IF default = i THEN None ELSE default
      PROVE  TemplateInv'
  <2>1. /\ row'[i] = None /\ \A j \in Ids \ {i} : row'[j] = row[j]
        /\ resources'[i] = {} /\ \A j \in Ids \ {i} : resources'[j] = resources[j]
    BY <1>3 DEF TemplateInv, TemplateTypes
  <2>2. TemplateTypes'
    BY <1>1, <1>3 DEF TemplateInv, TemplateTypes
  <2>3. OwnsImages'
    BY <1>1, <2>1 DEF TemplateInv, OwnsImages
  <2>4. LockedRow'
    BY <1>1, <1>3, <2>1, TemplateRows DEF TemplateInv, LockedRow, Templates!Lockable
  <2>5. SavesDocument' /\ BornFirst' /\ ReadsText'
    BY <1>1, <2>1, TemplateRows DEF TemplateInv, SavesDocument, BornFirst, ReadsText
  <2> QED BY <2>2, <2>3, <2>4, <2>5 DEF TemplateInv
<1> QED BY <1>1, <1>2, <1>3 DEF Templates!Delete

LEMMA TemplateDefaultKeeps == ASSUME Templates!TemplatesAssumption, TemplateInv, NEW i \in Ids \cup {None},
  Templates!SetDefault(i)
  PROVE TemplateInv'
BY DEF Templates!SetDefault, TemplateInv, TemplateTypes, OwnsImages, LockedRow, SavesDocument, BornFirst, ReadsText

LEMMA SnapshotKeeps == ASSUME Templates!TemplatesAssumption, TemplateInv,
  Templates!ReadImages \/ \E i \in Ids : Templates!ReadDocument(i)
  PROVE TemplateInv'
<1>1. CASE Templates!ReadImages
  <2>1. snapshot # None /\ snapshot.images = resources[snapshot.id] /\ snapshot' = None
    BY <1>1, TemplateRows DEF Templates!ReadImages, TemplateInv, LockedRow, OwnsImages
  <2>2. broken' = FALSE
    BY <1>1, <2>1 DEF Templates!ReadImages, TemplateInv, OwnsImages
  <2>3. TemplateTypes' /\ LockedRow'
    BY <1>1, <2>1, <2>2 DEF Templates!ReadImages, Templates!store, TemplateInv, TemplateTypes, LockedRow
  <2>4. OwnsImages' /\ SavesDocument' /\ BornFirst' /\ ReadsText'
    BY <1>1, <2>2 DEF Templates!ReadImages, Templates!store, TemplateInv, OwnsImages, SavesDocument, BornFirst, ReadsText
  <2> QED BY <2>3, <2>4 DEF TemplateInv
<1>2. ASSUME NEW i \in Ids, Templates!ReadDocument(i) PROVE TemplateInv'
  <2>1. row[i] # None /\ row[i].images \in SUBSET Files /\ snapshot' = [id |-> i, images |-> row[i].images]
    BY <1>2, TemplateRows DEF Templates!ReadDocument
  <2>2. snapshot' \in Templates!Snapshot /\ snapshot'.id = i /\ snapshot'.images = row[i].images
    BY <2>1 DEF Templates!Snapshot
  <2>3. TemplateTypes' /\ LockedRow'
    BY <1>2, <2>1, <2>2 DEF Templates!ReadDocument, Templates!store, TemplateInv, TemplateTypes, LockedRow
  <2>4. OwnsImages' /\ SavesDocument' /\ BornFirst' /\ ReadsText'
    BY <1>2 DEF Templates!ReadDocument, Templates!store, TemplateInv, OwnsImages, SavesDocument, BornFirst, ReadsText
  <2> QED BY <2>3, <2>4 DEF TemplateInv
<1> QED BY <1>1, <1>2

LEMMA TemplateNextKeeps == ASSUME Templates!TemplatesAssumption, TemplateInv, [Templates!Next]_Templates!vars
  PROVE TemplateInv'
<1>1. CASE UNCHANGED Templates!vars
  BY <1>1 DEF Templates!vars, Templates!store, TemplateInv, TemplateTypes, OwnsImages, LockedRow, SavesDocument,
     BornFirst, ReadsText
<1> QED BY <1>1, AddOpenKeep, TypeCancelKeep, UploadImageKeeps, ExpireKeeps, SaveKeeps, CommitKeeps, AskDeleteKeeps,
           TemplateDeleteKeeps,
           TemplateDefaultKeeps, SnapshotKeeps DEF Templates!Next

\* However saves, deletions, uploads and snapshots follow each other, what tabs, uploads and the snapshot
\* know of the rows holds.
THEOREM TemplateInvariantHolds == ASSUME Templates!TemplatesAssumption PROVE Templates!Spec => []TemplateInv
<1>1. Templates!Init => TemplateInv
  BY TemplateInitHolds
<1>2. TemplateInv /\ [Templates!Next]_Templates!vars => TemplateInv'
  BY TemplateNextKeeps
<1> QED BY <1>1, <1>2, PTL DEF Templates!Spec

\* A composer that takes a signature gets every image of the document it gets, and no image is of two signatures or
\* both a signature's and an upload that expires.
THEOREM SignatureHasItsImages == ASSUME Templates!TemplatesAssumption PROVE Templates!Spec => [](Templates!TypeOK /\ Templates!ImagesComplete)
<1>1. TemplateInv => Templates!TypeOK
  BY DEF TemplateInv, TemplateTypes, Templates!TypeOK
<1>2. TemplateInv => Templates!ImagesComplete
  BY DEF TemplateInv, OwnsImages, Templates!ImagesComplete
<1> QED BY <1>1, <1>2, TemplateInvariantHolds, PTL

\* signature-service.ts:42: "This signature changed in another tab or was deleted."  A save replaces no text that its editor
\* has not read, as long as no signature was saved again under the id of a deleted one.
THEOREM NoTextReplacedUnread == ASSUME Templates!TemplatesAssumption PROVE Templates!Spec => Templates!NoUnseenText
<1> DEFINE Read == \A t \in Tabs : saving[t] /\ ~saving'[t] /\ ~reborn /\ edit[t] # None =>
                     LET i == edit[t].id IN row[i] # None /\ row'[i] # row[i] => edit[t].base = row[i].text
<1>1. ASSUME TemplateInv, [Templates!Next]_Templates!vars PROVE [Read]_Templates!vars
  <2> SUFFICES ASSUME NEW t \in Tabs, saving[t], ~saving'[t], ~reborn, edit[t] # None, row[edit[t].id] # None,
                 row'[edit[t].id] # row[edit[t].id]
               PROVE  edit[t].base = row[edit[t].id].text
    OBVIOUS
  <2>1. Templates!Commit(t)
    <3>1. saving' # saving
      OBVIOUS
    <3>2. PICK u \in Tabs : Templates!Save(u) \/ Templates!Commit(u)
      BY <1>1, <3>1 DEF Templates!Next, Templates!vars, Templates!Add, Templates!Open, Templates!AskDelete,
         Templates!UploadImage, Templates!Type, Templates!Cancel, Templates!Delete, Templates!Expire,
         Templates!SetDefault, Templates!ReadDocument, Templates!ReadImages
    <3> QED BY <1>1, <3>2 DEF Templates!Save, Templates!Commit, TemplateInv, TemplateTypes
  <2>2. Templates!Expected(edit[t])
    BY <1>1, <2>1, CommitDoes
  <2> QED BY <1>1, <2>2 DEF Templates!Expected, TemplateInv, ReadsText
<1> QED BY <1>1, TemplateInvariantHolds, PTL DEF Templates!Spec, Templates!NoUnseenText

-----------------------------------------------------------------------------
(* The list of the open mailbox: sequences *)

CONSTANTS Placements, Mailboxes, Home, PageSize, MaxChanges, MaxVisits, MaxMoves
VARIABLES stored, hidden, open, list, cursor, more, error, loaded, first, page, pageLoading, refresh, move, mislaid, tally

List == INSTANCE MailList WITH Messages <- Placements, loading <- pageLoading, strayed <- mislaid, budget <- tally

\* A set of numbers has a least member.
LEMMA LeastMember == ASSUME NEW S, S \subseteq Nat, S # {} PROVE \E x \in S : \A y \in S : x <= y
<1>1. PICK x \in S : \A y \in S : ~(<<y, x>> \in OpToRel(<, Nat))
  BY NatLessThanWellFounded, WFMin
<1>2. \A y \in S : ~(y < x)
  BY <1>1 DEF OpToRel
<1> QED BY <1>2

\* A function on an interval may be defined by what it does from each number to the next.
Stepwise(m, V, v, G) == \E f \in [0..m -> V] : f[0] = v /\ \A n \in 1..m : f[n] = G[n][f[n - 1]]

LEMMA StepByStep == ASSUME NEW m \in Nat, NEW V, NEW v \in V, NEW G \in [1..m -> [V -> V]] PROVE Stepwise(m, V, v, G)
<1> SUFFICES \E f \in [0..m -> V] : f[0] = v /\ \A n \in 1..m : f[n] = G[n][f[n - 1]]
  BY DEF Stepwise
<1> DEFINE Follows(f, k) == f[0] = v /\ \A n \in 1..k : f[n] = G[n][f[n - 1]]
           bad == {k \in 0..m : ~ \E f \in [0..m -> V] : Follows(f, k)}
<1>1. SUFFICES ASSUME bad # {} PROVE FALSE
  <2>1. m \in 0..m
    OBVIOUS
  <2>2. m \notin bad => \E f \in [0..m -> V] : Follows(f, m)
    BY <2>1
  <2> HIDE DEF bad
  <2> QED BY <2>2
<1>2. PICK k \in bad : \A j \in bad : k <= j
  <2>1. bad \subseteq Nat
    OBVIOUS
  <2> HIDE DEF bad
  <2> QED BY <1>1, <2>1, LeastMember
<1>3. k \in 0..m /\ ~ \E f \in [0..m -> V] : Follows(f, k)
  OBVIOUS
<1>4. CASE k = 0
  <2> DEFINE f == [n \in 0..m |-> v]
  <2>1. f \in [0..m -> V] /\ Follows(f, 0)
    OBVIOUS
  <2> QED BY <1>3, <1>4, <2>1
<1>5. CASE k # 0
  <2>1. k - 1 \in 0..m /\ k - 1 \notin bad /\ k \in 1..m
    <3> HIDE DEF bad
    <3> QED BY <1>2, <1>3, <1>5
  <2>2. PICK f \in [0..m -> V] : Follows(f, k - 1)
    BY <2>1
  <2> DEFINE g == [n \in 0..m |-> IF n = k THEN G[k][f[k - 1]] ELSE f[n]]
  <2>3. g \in [0..m -> V]
    <3>1. G[k][f[k - 1]] \in V
      BY <2>1
    <3> QED BY <3>1
  <2>4. g[0] = v
    BY <2>1, <2>2
  <2>5. ASSUME NEW n \in 1..k PROVE g[n] = G[n][g[n - 1]]
    <3>1. n \in 0..m /\ n - 1 \in 0..m /\ n - 1 # k
      BY <2>1
    <3>2. g[n - 1] = f[n - 1]
      BY <3>1
    <3>3. CASE n = k
      BY <3>1, <3>2, <3>3
    <3>4. CASE n # k
      <4>1. n \in 1..(k - 1)
        BY <2>1, <3>4
      <4> QED BY <2>2, <3>1, <3>2, <3>4, <4>1
    <3> QED BY <3>3, <3>4
  <2> HIDE DEF g
  <2> QED BY <1>3, <2>3, <2>4, <2>5
<1> QED BY <1>4, <1>5

(* Sequences without repetition. *)

Distinct(s) == \A i, j \in DOMAIN s : s[i] = s[j] => i = j

LEMMA AppendIs == ASSUME NEW S, NEW s \in Seq(S), NEW e \in S
  PROVE /\ Append(s, e) \in Seq(S) /\ List!ToSet(Append(s, e)) = List!ToSet(s) \cup {e}
        /\ Distinct(s) /\ e \notin List!ToSet(s) => Distinct(Append(s, e))
<1> DEFINE t == Append(s, e)
<1>1. /\ t \in Seq(S) /\ Len(t) = Len(s) + 1 /\ t[Len(s) + 1] = e
      /\ \A i \in 1..Len(s) : t[i] = s[i]
  BY AppendProperties
<1>2. Len(s) \in Nat /\ DOMAIN s = 1..Len(s) /\ DOMAIN t = 1..(Len(s) + 1)
  BY <1>1, LenProperties
<1> HIDE DEF t
<1>3. \A i \in DOMAIN t : i = Len(s) + 1 \/ i \in DOMAIN s
  BY <1>2
<1>4. List!ToSet(t) = List!ToSet(s) \cup {e}
  <2>1. List!ToSet(t) \subseteq List!ToSet(s) \cup {e}
    BY <1>1, <1>2, <1>3 DEF List!ToSet
  <2>2. DOMAIN s \subseteq DOMAIN t /\ Len(s) + 1 \in DOMAIN t
    BY <1>2
  <2>3. e \in List!ToSet(t)
    BY <1>1, <2>2 DEF List!ToSet
  <2>4. \A i \in DOMAIN s : s[i] \in List!ToSet(t)
    BY <1>1, <1>2, <2>2 DEF List!ToSet
  <2> QED BY <2>1, <2>3, <2>4 DEF List!ToSet
<1>5. ASSUME Distinct(s), e \notin List!ToSet(s) PROVE Distinct(t)
  <2> SUFFICES ASSUME NEW i \in DOMAIN t, NEW j \in DOMAIN t, t[i] = t[j] PROVE i = j
    BY DEF Distinct
  <2>1. \A k \in DOMAIN s : t[k] = s[k] /\ t[k] # e
    BY <1>1, <1>2, <1>5 DEF List!ToSet
  <2> QED BY <1>1, <1>3, <1>5, <2>1 DEF Distinct
<1> QED BY <1>1, <1>4, <1>5 DEF t

LEMMA ConcatIs == ASSUME NEW S, NEW s \in Seq(S), NEW u \in Seq(S)
  PROVE /\ s \o u \in Seq(S) /\ List!ToSet(s \o u) = List!ToSet(s) \cup List!ToSet(u)
        /\ Distinct(s) /\ Distinct(u) /\ List!ToSet(s) \cap List!ToSet(u) = {} => Distinct(s \o u)
<1> DEFINE t == s \o u
<1>1. /\ t \in Seq(S) /\ Len(t) = Len(s) + Len(u)
      /\ \A i \in 1..(Len(s) + Len(u)) : t[i] = IF i <= Len(s) THEN s[i] ELSE u[i - Len(s)]
  BY ConcatProperties
<1>2. /\ Len(s) \in Nat /\ DOMAIN s = 1..Len(s) /\ Len(u) \in Nat /\ DOMAIN u = 1..Len(u)
      /\ DOMAIN t = 1..(Len(s) + Len(u))
  BY <1>1, LenProperties
<1> HIDE DEF t
<1>3. \A i \in DOMAIN t : \/ i \in DOMAIN s /\ t[i] = s[i]
                          \/ i > Len(s) /\ i - Len(s) \in DOMAIN u /\ t[i] = u[i - Len(s)]
  BY <1>1, <1>2
<1>4. List!ToSet(t) = List!ToSet(s) \cup List!ToSet(u)
  <2>1. List!ToSet(t) \subseteq List!ToSet(s) \cup List!ToSet(u)
    BY <1>3 DEF List!ToSet
  <2>2. \A i \in DOMAIN s : i \in DOMAIN t /\ t[i] = s[i]
    BY <1>1, <1>2
  <2>3. \A i \in DOMAIN u : i + Len(s) \in DOMAIN t /\ t[i + Len(s)] = u[i]
    BY <1>1, <1>2
  <2>4. \A i \in DOMAIN s : s[i] \in List!ToSet(t)
    BY <2>2 DEF List!ToSet
  <2>5. \A i \in DOMAIN u : u[i] \in List!ToSet(t)
    BY <2>3 DEF List!ToSet
  <2>6. List!ToSet(s) \subseteq List!ToSet(t) /\ List!ToSet(u) \subseteq List!ToSet(t)
    BY <2>4, <2>5 DEF List!ToSet
  <2> QED BY <2>1, <2>6
<1>5. ASSUME Distinct(s), Distinct(u), List!ToSet(s) \cap List!ToSet(u) = {} PROVE Distinct(t)
  <2> SUFFICES ASSUME NEW i \in DOMAIN t, NEW j \in DOMAIN t, t[i] = t[j] PROVE i = j
    BY DEF Distinct
  <2>1. \A k \in DOMAIN s, l \in DOMAIN u : s[k] # u[l]
    BY <1>5 DEF List!ToSet
  <2>2. CASE i \in DOMAIN s /\ t[i] = s[i] /\ j \in DOMAIN s /\ t[j] = s[j]
    BY <1>5, <2>2 DEF Distinct
  <2>3. CASE /\ i > Len(s) /\ i - Len(s) \in DOMAIN u /\ t[i] = u[i - Len(s)]
             /\ j > Len(s) /\ j - Len(s) \in DOMAIN u /\ t[j] = u[j - Len(s)]
    <3>1. i - Len(s) = j - Len(s)
      BY <1>5, <2>3 DEF Distinct
    <3> QED BY <1>2, <3>1
  <2> QED BY <1>3, <2>1, <2>2, <2>3
<1> QED BY <1>1, <1>4, <1>5 DEF t

\* What Without computes, one element after another.
LEMMA WithoutIs == ASSUME NEW S, NEW s \in Seq(S), NEW T
  PROVE \E f : /\ f[0] = <<>> /\ List!Without(s, T) = f[Len(s)]
               /\ \A n \in 1..Len(s) : f[n] = (IF s[n] \in T THEN f[n - 1] ELSE Append(f[n - 1], s[n]))
<1>1. Len(s) \in Nat /\ (\A n \in 1..Len(s) : s[n] \in S)
  BY LenProperties, ElementOfSeq
<1> DEFINE V == Seq(S)
           G == [n \in 1..Len(s) |-> [k \in V |-> IF s[n] \in T THEN k ELSE Append(k, s[n])]]
           kept == CHOOSE f : f = [n \in 0..Len(s) |->
                     IF n = 0 THEN <<>> ELSE IF s[n] \in T THEN f[n - 1] ELSE Append(f[n - 1], s[n])]
<1>2. \E f : f = [n \in 0..Len(s) |->
                    IF n = 0 THEN <<>> ELSE IF s[n] \in T THEN f[n - 1] ELSE Append(f[n - 1], s[n])]
  <2>1. G \in [1..Len(s) -> [V -> V]]
    <3>1. \A n \in 1..Len(s), k \in V : Append(k, s[n]) \in V
      BY <1>1, AppendProperties
    <3> HIDE DEF V
    <3> QED BY <3>1
  <2>2. <<>> \in V
    BY EmptySeq
  <2> HIDE DEF V, G, kept
  <2>3. PICK f \in [0..Len(s) -> V] : f[0] = <<>> /\ \A n \in 1..Len(s) : f[n] = G[n][f[n - 1]]
    <3>1. Stepwise(Len(s), V, <<>>, G)
      BY <1>1, <2>1, <2>2, StepByStep
    <3> QED BY <3>1 DEF Stepwise
  <2>4. ASSUME NEW n \in 0..Len(s)
        PROVE  f[n] = (IF n = 0 THEN <<>> ELSE IF s[n] \in T THEN f[n - 1] ELSE Append(f[n - 1], s[n]))
    <3>1. CASE n # 0
      <4>1. n \in 1..Len(s) /\ n - 1 \in 0..Len(s)
        BY <1>1, <3>1
      <4>2. f[n - 1] \in V
        BY <4>1
      <4>3. G[n][f[n - 1]] = (IF s[n] \in T THEN f[n - 1] ELSE Append(f[n - 1], s[n]))
        BY <4>1, <4>2 DEF G
      <4> QED BY <2>3, <3>1, <4>1, <4>3
    <3> QED BY <2>3, <3>1
  <2>5. f = [n \in 0..Len(s) |-> f[n]]
    OBVIOUS
  <2> QED BY <2>4, <2>5
<1>3. kept = [n \in 0..Len(s) |->
                IF n = 0 THEN <<>> ELSE IF s[n] \in T THEN kept[n - 1] ELSE Append(kept[n - 1], s[n])]
  <2> HIDE DEF V, G
  <2> QED BY <1>2
<1>4. List!Without(s, T) = kept[Len(s)]
  BY DEF List!Without
<1> HIDE DEF kept, V, G
<1>5. kept[0] = <<>>
  BY <1>1, <1>3
<1>6. ASSUME NEW n \in 1..Len(s)
      PROVE  kept[n] = (IF s[n] \in T THEN kept[n - 1] ELSE Append(kept[n - 1], s[n]))
  <2>1. n \in 0..Len(s) /\ n # 0
    BY <1>1
  <2> QED BY <1>3, <2>1
<1> QED BY <1>4, <1>5, <1>6

LEMMA WithoutKeeps == ASSUME NEW S, NEW s \in Seq(S), NEW T
  PROVE /\ List!Without(s, T) \in Seq(S) /\ List!ToSet(List!Without(s, T)) = List!ToSet(s) \ T
        /\ Distinct(s) => Distinct(List!Without(s, T))
<1>1. /\ Len(s) \in Nat /\ DOMAIN s = 1..Len(s)
      /\ \A n \in 1..Len(s) : s[n] \in S
  BY LenProperties, ElementOfSeq
<1>2. PICK f : /\ f[0] = <<>> /\ List!Without(s, T) = f[Len(s)]
               /\ \A n \in 1..Len(s) : f[n] = (IF s[n] \in T THEN f[n - 1] ELSE Append(f[n - 1], s[n]))
  BY WithoutIs
<1> DEFINE Seen(n) == {s[i] : i \in 1..n}
           Holds(n) == /\ f[n] \in Seq(S) /\ List!ToSet(f[n]) = Seen(n) \ T
                       /\ Distinct(s) => Distinct(f[n])
           bad == {n \in 0..Len(s) : ~Holds(n)}
<1>3. Holds(0)
  <2>1. <<>> \in Seq(S) /\ DOMAIN <<>> = {}
    BY EmptySeq
  <2> QED BY <1>2, <2>1 DEF List!ToSet, Distinct
<1>4. ASSUME NEW n \in 1..Len(s), Holds(n - 1) PROVE Holds(n)
  <2>1. Seen(n) = Seen(n - 1) \cup {s[n]}
    <3>1. 1..n = 1..(n - 1) \cup {n}
      BY <1>1
    <3> QED BY <3>1
  <2>2. Distinct(s) => s[n] \notin Seen(n - 1)
    <3>1. \A i \in 1..(n - 1) : i \in DOMAIN s /\ i # n
      BY <1>1
    <3> QED BY <1>1, <3>1 DEF Distinct
  <2> HIDE DEF Seen
  <2>3. CASE s[n] \in T
    BY <1>2, <1>4, <2>1, <2>3
  <2>4. CASE s[n] \notin T
    <3>1. f[n] = Append(f[n - 1], s[n]) /\ s[n] \in S
      BY <1>1, <1>2, <2>4
    <3>2. f[n - 1] \in Seq(S) /\ List!ToSet(f[n - 1]) = Seen(n - 1) \ T /\ (Distinct(s) => Distinct(f[n - 1]))
      BY <1>4
    <3> QED BY <2>1, <2>2, <2>4, <3>1, <3>2, AppendIs
  <2> QED BY <2>3, <2>4
<1> HIDE DEF Holds
<1>5. bad = {}
  <2> SUFFICES ASSUME bad # {} PROVE FALSE
    OBVIOUS
  <2>1. bad \subseteq Nat
    OBVIOUS
  <2> HIDE DEF bad
  <2>2. PICK k \in bad : \A j \in bad : k <= j
    BY <2>1, LeastMember
  <2> USE DEF bad
  <2>3. k \in 0..Len(s) /\ ~Holds(k)
    OBVIOUS
  <2>4. k \in 1..Len(s) /\ k - 1 \in 0..Len(s)
    BY <1>1, <1>3, <2>3
  <2>5. Holds(k - 1)
    BY <1>1, <2>2, <2>3, <2>4
  <2> QED BY <1>4, <2>3, <2>4, <2>5
<1>6. Holds(Len(s))
  BY <1>1, <1>5
<1>7. Seen(Len(s)) = List!ToSet(s)
  BY <1>1 DEF List!ToSet
<1> QED BY <1>2, <1>6, <1>7 DEF Holds

LEMMA InsertAtIs == ASSUME NEW S, NEW s \in Seq(S), NEW e \in S, NEW i \in 1..(Len(s) + 1)
  PROVE /\ List!InsertAt(s, i, e) \in Seq(S) /\ List!ToSet(List!InsertAt(s, i, e)) = List!ToSet(s) \cup {e}
        /\ Distinct(s) /\ e \notin List!ToSet(s) => Distinct(List!InsertAt(s, i, e))
<1> DEFINE a == SubSeq(s, 1, i - 1)
           b == SubSeq(s, i, Len(s))
<1>1. /\ Len(s) \in Nat /\ DOMAIN s = 1..Len(s) /\ i \in Nat
      /\ \A n \in 1..Len(s) : s[n] \in S
  BY LenProperties, ElementOfSeq
<1>2. a \in Seq(S) /\ Len(a) = i - 1 /\ \A k \in 1..(i - 1) : a[k] = s[k]
  <2>1. i - 1 \in Int /\ 1 \in Int /\ \A k \in 1..(i - 1) : s[k] \in S
    BY <1>1
  <2>2. /\ a \in Seq(S) /\ Len(a) = (IF 1 <= i - 1 THEN (i - 1) - 1 + 1 ELSE 0)
        /\ \A k \in 1..((i - 1) - 1 + 1) : a[k] = s[1 + k - 1]
    BY <2>1, SubSeqProperties
  <2> HIDE DEF a
  <2>3. (i - 1) - 1 + 1 = i - 1 /\ (\A k \in 1..(i - 1) : 1 + k - 1 = k) /\ (1 <= i - 1 \/ i - 1 = 0)
    BY <1>1
  <2> QED BY <2>2, <2>3
<1>3. b \in Seq(S) /\ Len(b) = Len(s) - i + 1 /\ \A k \in 1..(Len(s) - i + 1) : b[k] = s[i + k - 1]
  <2>1. i \in Int /\ Len(s) \in Int /\ \A k \in i..Len(s) : s[k] \in S
    BY <1>1
  <2>2. /\ b \in Seq(S) /\ Len(b) = (IF i <= Len(s) THEN Len(s) - i + 1 ELSE 0)
        /\ \A k \in 1..(Len(s) - i + 1) : b[k] = s[i + k - 1]
    BY <2>1, SubSeqProperties
  <2> HIDE DEF b
  <2>3. i <= Len(s) \/ Len(s) - i + 1 = 0
    BY <1>1
  <2> QED BY <2>2, <2>3
<1> HIDE DEF a, b
<1>4. DOMAIN a = 1..(i - 1) /\ DOMAIN b = 1..(Len(s) - i + 1)
  BY <1>2, <1>3, LenProperties
<1>5. /\ \A k \in DOMAIN a : k \in DOMAIN s /\ a[k] = s[k] /\ k < i
      /\ \A k \in DOMAIN b : i + k - 1 \in DOMAIN s /\ b[k] = s[i + k - 1] /\ i <= i + k - 1
      /\ \A k \in DOMAIN s : k \in DOMAIN a \/ (k - i + 1 \in DOMAIN b /\ b[k - i + 1] = s[k])
  <2>1. \A k \in DOMAIN a : k \in DOMAIN s /\ a[k] = s[k] /\ k < i
    BY <1>1, <1>2, <1>4
  <2>2. \A k \in DOMAIN b : i + k - 1 \in DOMAIN s /\ b[k] = s[i + k - 1] /\ i <= i + k - 1
    BY <1>1, <1>3, <1>4
  <2>3. ASSUME NEW k \in DOMAIN s, k \notin DOMAIN a PROVE k - i + 1 \in DOMAIN b /\ b[k - i + 1] = s[k]
    <3>1. k - i + 1 \in 1..(Len(s) - i + 1) /\ i + (k - i + 1) - 1 = k
      BY <1>1, <1>4, <2>3
    <3> QED BY <1>3, <1>4, <3>1
  <2> QED BY <2>1, <2>2, <2>3
<1>6. List!ToSet(a) \cup List!ToSet(b) = List!ToSet(s)
  <2>1. \A k \in DOMAIN a : a[k] \in List!ToSet(s)
    BY <1>5 DEF List!ToSet
  <2>2. \A k \in DOMAIN b : b[k] \in List!ToSet(s)
    BY <1>5 DEF List!ToSet
  <2>3. \A k \in DOMAIN s : s[k] \in List!ToSet(a) \cup List!ToSet(b)
    BY <1>5 DEF List!ToSet
  <2> QED BY <2>1, <2>2, <2>3 DEF List!ToSet
<1>7. ASSUME Distinct(s) PROVE Distinct(a) /\ Distinct(b) /\ List!ToSet(a) \cap List!ToSet(b) = {}
  <2>1. Distinct(a)
    BY <1>5, <1>7 DEF Distinct
  <2>2. Distinct(b)
    <3> SUFFICES ASSUME NEW k \in DOMAIN b, NEW l \in DOMAIN b, b[k] = b[l] PROVE k = l
      BY DEF Distinct
    <3>1. i + k - 1 = i + l - 1
      BY <1>5, <1>7 DEF Distinct
    <3> QED BY <1>1, <1>4, <3>1
  <2>3. ASSUME NEW k \in DOMAIN a, NEW l \in DOMAIN b, a[k] = b[l] PROVE FALSE
    <3>1. k = i + l - 1
      BY <1>5, <1>7, <2>3 DEF Distinct
    <3> QED BY <1>1, <1>4, <1>5, <3>1
  <2> QED BY <2>1, <2>2, <2>3 DEF List!ToSet
<1> DEFINE ae == a \o <<e>>
<1>8. /\ <<e>> \in Seq(S) /\ List!ToSet(<<e>>) = {e} /\ Distinct(<<e>>)
  <2>1. <<e>> \in Seq(S) /\ DOMAIN <<e>> = {1} /\ <<e>>[1] = e
    OBVIOUS
  <2> QED BY <2>1 DEF List!ToSet, Distinct
<1>9. /\ ae \in Seq(S) /\ List!ToSet(ae) = List!ToSet(a) \cup {e}
      /\ Distinct(s) /\ e \notin List!ToSet(s) => Distinct(ae)
  <2>1. /\ a \o <<e>> \in Seq(S) /\ List!ToSet(a \o <<e>>) = List!ToSet(a) \cup List!ToSet(<<e>>)
        /\ Distinct(a) /\ Distinct(<<e>>) /\ List!ToSet(a) \cap List!ToSet(<<e>>) = {} => Distinct(a \o <<e>>)
    BY <1>2, <1>8, ConcatIs
  <2>2. e \notin List!ToSet(s) => List!ToSet(a) \cap List!ToSet(<<e>>) = {}
    BY <1>6, <1>8
  <2> QED BY <1>7, <1>8, <2>1, <2>2
<1>10. List!InsertAt(s, i, e) = ae \o b
  BY DEF List!InsertAt, a, b
<1> HIDE DEF ae
<1>11. List!ToSet(ae \o b) = List!ToSet(ae) \cup List!ToSet(b) /\ ae \o b \in Seq(S)
  BY <1>3, <1>9, ConcatIs
<1>12. ASSUME Distinct(s), e \notin List!ToSet(s) PROVE Distinct(ae \o b)
  <2>1. List!ToSet(ae) \cap List!ToSet(b) = {}
    BY <1>6, <1>7, <1>9, <1>12
  <2> QED BY <1>3, <1>7, <1>9, <1>12, <2>1, ConcatIs
<1> QED BY <1>6, <1>9, <1>10, <1>11, <1>12

\* A finite set of numbers can be written down in descending order.
Descends(S, s) == s \in [1..Cardinality(S) -> S] /\ \A i, j \in DOMAIN s : i < j => s[i] > s[j]

LEMMA CanDescend == ASSUME NEW S, S \subseteq Nat, IsFiniteSet(S) PROVE \E s : Descends(S, s)
<1> DEFINE bad == {T \in SUBSET S : ~ \E s : Descends(T, s)}
<1>1. SUFFICES ASSUME bad # {} PROVE FALSE
  OBVIOUS
<1>2. IsWellFoundedOn(StrictSubsetOrdering(S), SUBSET S)
  <2>1. FiniteSubsetsOf(S) = SUBSET S
    BY FS_FiniteSubsetsOfFinite
  <2> QED BY <2>1, FS_StrictSubsetOrderingWellFounded
<1>3. PICK T \in bad : \A U \in bad : ~(<<U, T>> \in StrictSubsetOrdering(S))
  <2>1. bad \subseteq SUBSET S
    OBVIOUS
  <2> HIDE DEF bad
  <2> QED BY <1>1, <1>2, <2>1, WFMin
<1>4. T \subseteq S /\ (\A s : ~Descends(T, s)) /\ IsFiniteSet(T) /\ T \subseteq Nat
  BY FS_Subset
<1>5. CASE T = {}
  <2> DEFINE s == [i \in {} |-> 0]
  <2>1. 1..Cardinality(T) = {}
    BY <1>5, FS_EmptySet
  <2>2. Descends(T, s)
    BY <2>1 DEF Descends
  <2> QED BY <1>4, <2>2
<1>6. CASE T # {}
  <2>1. PICK x \in T : \A y \in T : x <= y
    BY <1>4, <1>6, LeastMember
  <2> DEFINE U == T \ {x}
             n == Cardinality(U)
  <2>2. U \in SUBSET S /\ U \notin bad
    <3>1. U \in SUBSET S /\ U # T /\ U \subseteq T
      BY <1>4
    <3>2. <<U, T>> \in StrictSubsetOrdering(S)
      BY <1>4, <3>1 DEF StrictSubsetOrdering
    <3> HIDE DEF bad
    <3> QED BY <1>3, <3>1, <3>2
  <2>3. PICK u : Descends(U, u)
    BY <2>2
  <2>4. n \in Nat /\ Cardinality(T) = n + 1
    <3>1. IsFiniteSet(U) /\ x \notin U /\ U \cup {x} = T
      BY <1>4, FS_Subset
    <3> HIDE DEF U
    <3> QED BY <3>1, FS_AddElement, FS_CardinalityType
  <2> DEFINE s == [i \in 1..(n + 1) |-> IF i = n + 1 THEN x ELSE u[i]]
  <2>5. u \in [1..n -> U] /\ \A i, j \in 1..n : i < j => u[i] > u[j]
    BY <2>3 DEF Descends
  <2> HIDE DEF n
  <2>6. \A i \in 1..(n + 1) : i = n + 1 \/ i \in 1..n
    BY <2>4
  <2>7. s \in [1..(n + 1) -> T]
    BY <2>5, <2>6
  <2>8. ASSUME NEW i \in 1..(n + 1), NEW j \in 1..(n + 1), i < j PROVE s[i] > s[j]
    <3>1. i \in 1..n /\ s[i] = u[i] /\ u[i] \in U
      BY <2>4, <2>5, <2>8
    <3>2. CASE j = n + 1
      <4>1. s[j] = x /\ u[i] \in Nat /\ u[i] # x /\ x <= u[i] /\ x \in Nat
        BY <1>4, <2>1, <3>1, <3>2
      <4> QED BY <3>1, <4>1
    <3>3. CASE j # n + 1
      <4>1. j \in 1..n /\ s[j] = u[j]
        BY <2>6, <3>3
      <4> QED BY <2>5, <2>8, <3>1, <4>1
    <3> QED BY <3>2, <3>3
  <2>9. Descends(T, s)
    <3> HIDE DEF s
    <3> QED BY <2>4, <2>7, <2>8 DEF Descends
  <2> QED BY <1>4, <2>9
<1> QED BY <1>5, <1>6

\* The list counts by an instance of the same definitions.
LEMMA SameCounting ==
  ASSUME NEW S PROVE (List!IsFiniteSet(S) <=> IsFiniteSet(S)) /\ List!Cardinality(S) = Cardinality(S)
BY DEF List!IsFiniteSet, IsFiniteSet, List!Cardinality, Cardinality

LEMMA NewestFirstIs == ASSUME NEW S, S \subseteq Nat, IsFiniteSet(S)
  PROVE /\ List!NewestFirst(S) \in Seq(S) /\ Distinct(List!NewestFirst(S))
<1> DEFINE s == List!NewestFirst(S)
<1>1. \E t \in [1..Cardinality(S) -> S] : \A i, j \in DOMAIN t : i < j => t[i] > t[j]
  BY CanDescend DEF Descends
<1>2. s \in [1..Cardinality(S) -> S] /\ \A i, j \in DOMAIN s : i < j => s[i] > s[j]
  BY <1>1, SameCounting DEF List!NewestFirst
<1>3. Cardinality(S) \in Nat
  BY FS_CardinalityType
<1> HIDE DEF s
<1>4. s \in Seq(S)
  BY <1>2, <1>3
<1>5. Distinct(s)
  <2> SUFFICES ASSUME NEW i \in DOMAIN s, NEW j \in DOMAIN s, s[i] = s[j], i # j PROVE FALSE
    BY DEF Distinct
  <2>1. s[i] \in Nat /\ i \in Nat /\ j \in Nat /\ ~(s[i] > s[i])
    <3>1. DOMAIN s = 1..Cardinality(S) /\ s[i] \in S
      BY <1>2
    <3>2. s[i] \in Nat
      BY <3>1
    <3> QED BY <1>3, <3>1, <3>2
  <2>2. CASE i < j
    BY <1>2, <2>1, <2>2
  <2>3. CASE j < i
    BY <1>2, <2>1, <2>3
  <2> QED BY <2>1, <2>2, <2>3
<1> QED BY <1>4, <1>5 DEF s

(* The list of a mailbox *)

ListPages == [pc : {"none", "asked", "answered"}, cursor : Placements \cup {None}, live : BOOLEAN, answer : List!Answers]
ListFirsts == [pc : {"none", "asked", "answered"}, answer : List!Answers]
ListRefreshes == [pc : {"none", "asked", "answered"}, of : Mailboxes, answer : List!Answers]
ListMoves ==
  [pc : {"none", "asking", "pending", "applied", "failed", "lost", "refused"}, index : Nat,
   of : Mailboxes \cup {None}, astray : BOOLEAN]

ListTypes ==
  /\ stored \subseteq Placements /\ hidden \subseteq Placements \ stored
  /\ open \in Mailboxes /\ list \in Seq(Placements) /\ cursor \in Placements \cup {None}
  /\ first \in ListFirsts /\ page \in ListPages /\ refresh \in ListRefreshes
  /\ move \in [Placements -> ListMoves]
  /\ tally \in [{"changes", "visits", "moves", "faults"} -> Nat]
ListFlags == more \in BOOLEAN /\ error \in BOOLEAN /\ loaded \in BOOLEAN /\ pageLoading \in BOOLEAN /\ mislaid \in BOOLEAN

\* An answer has no message twice, and all are of the mailbox that it was asked for.
IsOf(s, box) == \A m \in List!ToSet(s) : Home[m] = box
AnswerIsOf(answer, box) == Distinct(answer.items) /\ IsOf(answer.items, box)
AnswersOwn ==
  AnswerIsOf(first.answer, open) /\ AnswerIsOf(page.answer, open) /\ AnswerIsOf(refresh.answer, refresh.of)

\* A row that is taken out of the list is of the open mailbox, but for one that the
\* list got from elsewhere; the server takes no command for that one.
MovesOwn == \A m \in Placements : move[m].pc # "none" =>
  /\ move[m].index # 0
  /\ ~move[m].astray => Home[m] = move[m].of
  /\ move[m].pc \in {"pending", "applied", "failed", "lost"} => Home[m] = move[m].of

ListOwn == Distinct(list) /\ (mislaid \/ IsOf(list, open))
ListInv == ListTypes /\ ListFlags /\ ListOwn /\ List!NeverStuck /\ AnswersOwn /\ MovesOwn


LEMMA ListFacts == ASSUME List!ListAssumption
  PROVE /\ Placements \subseteq Nat /\ IsFiniteSet(Placements) /\ None \notin Placements
        /\ Home \in [Placements -> Mailboxes] /\ PageSize \in Nat /\ PageSize # 0
BY SameCounting DEF List!ListAssumption

LEMMA NothingIsListed == /\ List!NoAnswer \in List!Answers /\ List!NoFirst \in ListFirsts /\ List!NoPage \in ListPages
                         /\ \A box : AnswerIsOf(List!NoAnswer, box)
                         /\ \A box \in Mailboxes : List!NoRefresh(box) \in ListRefreshes
<1>1. <<>> \in Seq(Placements) /\ DOMAIN <<>> = {}
  BY EmptySeq
<1>2. List!NoAnswer \in List!Answers
  BY <1>1 DEF List!NoAnswer, List!Answers
<1>3. List!ToSet(<<>>) = {} /\ Distinct(<<>>)
  BY <1>1 DEF List!ToSet, Distinct
<1>4. List!NoAnswer.items = <<>>
  BY DEF List!NoAnswer
<1>5. \A box : AnswerIsOf(List!NoAnswer, box)
  BY <1>3, <1>4 DEF AnswerIsOf, IsOf
<1> QED BY <1>2, <1>5 DEF List!NoFirst, ListFirsts, List!NoPage, ListPages, List!NoRefresh, ListRefreshes

LEMMA ListedIs == ASSUME List!ListAssumption, ListTypes, NEW box, NEW after
  PROVE List!Listed(box, after) \in List!Answers /\ AnswerIsOf(List!Listed(box, after), box)
<1> DEFINE rows == {m \in stored : Home[m] = box /\ (after = None \/ m < after)}
           all == List!NewestFirst(rows)
           items == IF Len(all) > PageSize THEN SubSeq(all, 1, PageSize) ELSE all
<1>1. rows \subseteq Placements /\ rows \subseteq Nat /\ IsFiniteSet(rows)
  <2>1. rows \subseteq Placements
    BY DEF ListTypes
  <2> QED BY <2>1, ListFacts, FS_Subset
<1> HIDE DEF rows
<1>2. all \in Seq(rows) /\ Distinct(all)
  BY <1>1, NewestFirstIs
<1> HIDE DEF all
<1>3. Len(all) \in Nat /\ DOMAIN all = 1..Len(all) /\ \A i \in 1..Len(all) : all[i] \in rows
  BY <1>2, LenProperties, ElementOfSeq
<1>4. CASE Len(all) > PageSize
  <2>1. \A i \in 1..PageSize : i \in 1..Len(all)
    BY <1>3, <1>4, ListFacts
  <2>2. /\ SubSeq(all, 1, PageSize) \in Seq(rows)
        /\ Len(SubSeq(all, 1, PageSize)) = (IF 1 <= PageSize THEN PageSize - 1 + 1 ELSE 0)
        /\ \A i \in 1..(PageSize - 1 + 1) : SubSeq(all, 1, PageSize)[i] = all[1 + i - 1]
    <3>1. PageSize \in Int /\ 1 \in Int /\ \A i \in 1..PageSize : all[i] \in rows
      BY <1>3, <2>1, ListFacts
    <3> QED BY <3>1, SubSeqProperties
  <2>3. items = SubSeq(all, 1, PageSize)
    BY <1>4
  <2> HIDE DEF items
  <2>4. /\ items \in Seq(rows) /\ Len(items) = PageSize
        /\ \A i \in 1..PageSize : items[i] = all[i]
    <3>1. PageSize - 1 + 1 = PageSize /\ 1 <= PageSize /\ \A i \in 1..PageSize : 1 + i - 1 = i
      BY ListFacts
    <3> QED BY <2>2, <2>3, <3>1
  <2>5. DOMAIN items = 1..PageSize
    BY <2>4, LenProperties
  <2>6. Distinct(items)
    BY <1>2, <1>3, <2>1, <2>4, <2>5 DEF Distinct
  <2>7. List!Last(items) \in Placements
    <3>1. PageSize \in 1..PageSize
      BY ListFacts
    <3>2. items[PageSize] \in rows
      BY <1>3, <2>1, <2>4, <3>1
    <3> QED BY <1>1, <2>4, <3>2 DEF List!Last
  <2>8. List!Listed(box, after) = [items |-> items, next |-> List!Last(items)]
    BY <1>4 DEF List!Listed, all, rows, items
  <2>9. items \in Seq(Placements)
    BY <1>1, <2>4, SeqMonotonic
  <2>10. \A m \in List!ToSet(items) : m \in rows
    BY <1>3, <2>1, <2>4, <2>5 DEF List!ToSet
  <2> QED BY <2>6, <2>7, <2>8, <2>9, <2>10 DEF List!Answers, AnswerIsOf, IsOf, rows
<1>5. CASE ~(Len(all) > PageSize)
  <2>1. List!Listed(box, after) = [items |-> all, next |-> None]
    BY <1>5 DEF List!Listed, all, rows
  <2>2. all \in Seq(Placements)
    BY <1>1, <1>2, SeqMonotonic
  <2>3. \A m \in List!ToSet(all) : m \in rows
    BY <1>3 DEF List!ToSet
  <2> QED BY <1>2, <2>1, <2>2, <2>3 DEF List!Answers, AnswerIsOf, IsOf, rows
<1> QED BY <1>4, <1>5

\* What a first page does to the list, and to the request of an older page.
LEMMA ApplyIs ==
  ASSUME ListTypes, Distinct(list), NEW answer \in List!Answers, Distinct(answer.items), List!Apply(answer)
  PROVE  /\ list' \in Seq(Placements) /\ Distinct(list') /\ cursor' \in Placements \cup {None}
         /\ \A box : IsOf(answer.items, box) /\ IsOf(list, box) => IsOf(list', box)
         /\ page' \in ListPages /\ page'.answer = page.answer /\ page'.pc = page.pc
         /\ UNCHANGED <<more, error, pageLoading>>
<1> DEFINE items == answer.items
           below == List!Without(list, List!ToSet(items))
<1>1. items \in Seq(Placements) /\ answer.next \in Placements \cup {None} /\ list \in Seq(Placements)
  BY DEF List!Answers, ListTypes
<1>2. below \in Seq(Placements) /\ List!ToSet(below) = List!ToSet(list) \ List!ToSet(items) /\ Distinct(below)
  BY <1>1, WithoutKeeps
<1>3. List!Merge(items) = items \o below
  BY DEF List!Merge
<1> HIDE DEF below, items
<1>4. items \o below \in Seq(Placements) /\ List!ToSet(items \o below) = List!ToSet(items) \cup List!ToSet(below)
  BY <1>1, <1>2, ConcatIs
<1>5. Distinct(items \o below)
  <2>1. List!ToSet(items) \cap List!ToSet(below) = {} /\ Distinct(items)
    BY <1>2 DEF items
  <2> QED BY <1>1, <1>2, <2>1, ConcatIs
<1>6. list' = items \o below \/ list' = items
  BY <1>3 DEF List!Apply, items
<1>7. list' \in Seq(Placements) /\ Distinct(list') /\ List!ToSet(list') \subseteq List!ToSet(items) \cup List!ToSet(list)
  BY <1>1, <1>2, <1>4, <1>5, <1>6 DEF items
<1>8. \A box : IsOf(items, box) /\ IsOf(list, box) => IsOf(list', box)
  BY <1>7 DEF IsOf
<1>9. cursor' \in Placements \cup {None}
  BY <1>1 DEF List!Apply, ListTypes
<1>10. page' = page \/ page' = [page EXCEPT !.live = FALSE]
  BY DEF List!Apply, List!Watched, List!Cancelled
<1>11. page' \in ListPages /\ page'.answer = page.answer /\ page'.pc = page.pc
  <2>1. page \in ListPages
    BY DEF ListTypes
  <2> QED BY <1>10, <2>1 DEF ListPages
<1> QED BY <1>7, <1>8, <1>9, <1>11 DEF List!Apply, items

LEMMA SpendIs == ASSUME ListTypes, NEW what \in {"changes", "visits", "moves", "faults"}, List!Spend(what)
  PROVE tally' \in [{"changes", "visits", "moves", "faults"} -> Nat]
<1>1. tally[what] \in Nat /\ tally[what] > 0 /\ tally' = [tally EXCEPT ![what] = @ - 1]
  BY DEF List!Spend, ListTypes
<1>2. tally[what] - 1 \in Nat
  BY <1>1
<1> QED BY <1>1, <1>2 DEF ListTypes

\* The steps of the server, and of the requests, that leave the list as it is.
LEMMA ChangeKeeps == ASSUME ListInv, NEW m \in Placements, List!Change(m) PROVE ListInv'
<1>1. stored' \subseteq Placements /\ hidden' \subseteq Placements \ stored'
  BY DEF List!Change, ListInv, ListTypes
<1>2. tally' \in [{"changes", "visits", "moves", "faults"} -> Nat]
  BY SpendIs DEF List!Change, ListInv
<1>3. UNCHANGED <<open, list, cursor, more, error, loaded, page, pageLoading, first, refresh, move, mislaid>>
  BY DEF List!Change, List!older
<1>4. ListTypes'
  BY <1>1, <1>2, <1>3 DEF ListInv, ListTypes
<1> QED BY <1>3, <1>4 DEF ListInv, ListFlags, ListOwn, IsOf, List!NeverStuck, AnswersOwn, AnswerIsOf, MovesOwn

Rest == <<stored, hidden, open, list, mislaid, move>>

\* What is left to show of a step that only asks or answers.
LEMMA RequestKeeps ==
  ASSUME ListInv, UNCHANGED Rest, ListFlags', List!NeverStuck',
         first' \in ListFirsts, page' \in ListPages, refresh' \in ListRefreshes,
         cursor' \in Placements \cup {None}, AnswersOwn', tally' \in [{"changes", "visits", "moves", "faults"} -> Nat]
  PROVE  ListInv'
<1>1. ListTypes'
  BY DEF Rest, ListInv, ListTypes
<1>2. ListOwn' /\ MovesOwn'
  BY DEF Rest, ListInv, ListOwn, IsOf, MovesOwn
<1> QED BY <1>1, <1>2 DEF ListInv

LEMMA FirstKeeps == ASSUME List!ListAssumption, ListInv, List!AskFirst \/ List!AnswerFirst \/ List!FailFirst PROVE ListInv'
<1>1. /\ UNCHANGED Rest /\ UNCHANGED <<cursor, more, error, page, pageLoading, refresh>>
      /\ loaded' \in BOOLEAN
  BY DEF List!AskFirst, List!AnswerFirst, List!FailFirst, List!server, List!older, Rest, ListInv, ListFlags
<1>2. first' \in ListFirsts /\ AnswerIsOf(first'.answer, open)
  <2>1. first \in ListFirsts /\ AnswerIsOf(first.answer, open)
    BY DEF ListInv, ListTypes, AnswersOwn
  <2>2. CASE List!AskFirst
    BY <2>1, <2>2 DEF List!AskFirst, ListFirsts
  <2>3. CASE List!AnswerFirst
    <3>1. List!Listed(open, None) \in List!Answers /\ AnswerIsOf(List!Listed(open, None), open)
      BY ListedIs DEF ListInv
    <3> QED BY <2>3, <3>1 DEF List!AnswerFirst, ListFirsts
  <2>4. CASE List!FailFirst
    BY <2>4, NothingIsListed DEF List!FailFirst, List!NoFirst
  <2> QED BY <2>2, <2>3, <2>4
<1>3. tally' \in [{"changes", "visits", "moves", "faults"} -> Nat]
  <2>1. CASE List!FailFirst
    BY <2>1, SpendIs DEF List!FailFirst, ListInv
  <2>2. CASE List!AskFirst \/ List!AnswerFirst
    BY <2>2 DEF List!AskFirst, List!AnswerFirst, ListInv, ListTypes
  <2> QED BY <2>1, <2>2
<1>4. ListFlags' /\ List!NeverStuck'
  BY <1>1 DEF Rest, ListInv, ListFlags, List!NeverStuck
<1>5. AnswersOwn'
  BY <1>1, <1>2 DEF Rest, ListInv, AnswersOwn, AnswerIsOf, IsOf
<1>6. page' \in ListPages /\ refresh' \in ListRefreshes /\ cursor' \in Placements \cup {None}
  BY <1>1 DEF ListInv, ListTypes
<1> QED BY <1>1, <1>2, <1>3, <1>4, <1>5, <1>6, RequestKeeps

LEMMA PageKeeps == ASSUME List!ListAssumption, ListInv, List!Reach \/ List!AnswerPage \/ List!FailPage \/ List!Retry
  PROVE ListInv'
<1>1. UNCHANGED Rest /\ UNCHANGED <<cursor, more, loaded, first, refresh>>
  BY DEF List!Reach, List!AnswerPage, List!FailPage, List!Retry, List!server, Rest
<1>2. page \in ListPages /\ AnswerIsOf(page.answer, open) /\ cursor \in Placements \cup {None}
  BY DEF ListInv, ListTypes, AnswersOwn
<1>3. /\ page' \in ListPages /\ AnswerIsOf(page'.answer, open) /\ error' \in BOOLEAN /\ pageLoading' \in BOOLEAN
      /\ pageLoading' => page'.pc # "none"
  <2>1. CASE List!Reach
    <3>1. page' = [pc |-> "asked", cursor |-> cursor, live |-> TRUE, answer |-> List!NoAnswer]
      BY <2>1 DEF List!Reach, List!NoPage
    <3>2. page' \in ListPages /\ page'.answer = List!NoAnswer /\ page'.pc = "asked"
      BY <1>2, <3>1, NothingIsListed DEF ListPages
    <3>3. error' = error /\ pageLoading' = TRUE /\ error \in BOOLEAN
      BY <2>1 DEF List!Reach, ListInv, ListFlags
    <3> QED BY <3>2, <3>3, NothingIsListed
  <2>2. CASE List!AnswerPage
    <3>1. List!Listed(open, page.cursor) \in List!Answers /\ AnswerIsOf(List!Listed(open, page.cursor), open)
      BY ListedIs DEF ListInv
    <3>2. page' = [page EXCEPT !.pc = "answered", !.answer = List!Listed(open, page.cursor)]
      BY <2>2 DEF List!AnswerPage
    <3>3. page' \in ListPages /\ page'.answer = List!Listed(open, page.cursor) /\ page'.pc = "answered"
      BY <1>2, <3>1, <3>2 DEF ListPages
    <3> QED BY <2>2, <3>1, <3>3 DEF List!AnswerPage, ListInv, ListFlags
  <2>3. CASE List!FailPage
    <3>1. page.live \in BOOLEAN /\ error \in BOOLEAN
      BY <1>2 DEF ListPages, ListInv, ListFlags
    <3>2. page' = List!NoPage /\ pageLoading' = FALSE /\ error' = (error \/ page.live)
      BY <2>3 DEF List!FailPage, List!StillLoading
    <3>3. List!NoPage.answer = List!NoAnswer
      BY DEF List!NoPage
    <3>4. page' \in ListPages /\ AnswerIsOf(page'.answer, open)
      BY <3>2, <3>3, NothingIsListed
    <3> QED BY <3>1, <3>2, <3>4
  <2>4. CASE List!Retry
    BY <1>2, <2>4 DEF List!Retry, ListInv, ListFlags, List!NeverStuck
  <2> QED BY <2>1, <2>2, <2>3, <2>4
<1>4. tally' \in [{"changes", "visits", "moves", "faults"} -> Nat]
  <2>1. CASE List!FailPage
    BY <2>1, SpendIs DEF List!FailPage, ListInv
  <2>2. CASE List!Reach \/ List!AnswerPage \/ List!Retry
    BY <2>2 DEF List!Reach, List!AnswerPage, List!Retry, ListInv, ListTypes
  <2> QED BY <2>1, <2>2
<1>5. ListFlags' /\ List!NeverStuck'
  BY <1>1, <1>3 DEF Rest, ListInv, ListFlags, List!NeverStuck
<1>6. AnswersOwn'
  BY <1>1, <1>3 DEF Rest, ListInv, AnswersOwn, AnswerIsOf, IsOf
<1>7. first' \in ListFirsts /\ refresh' \in ListRefreshes /\ cursor' \in Placements \cup {None}
  BY <1>1 DEF ListInv, ListTypes
<1> QED BY <1>1, <1>3, <1>4, <1>5, <1>6, <1>7, RequestKeeps

LEMMA RefreshKeeps == ASSUME List!ListAssumption, ListInv, List!AskRefresh \/ List!AnswerRefresh \/ List!FailRefresh
  PROVE ListInv'
<1>1. UNCHANGED Rest /\ UNCHANGED <<cursor, more, error, loaded, page, pageLoading, first>>
  BY DEF List!AskRefresh, List!AnswerRefresh, List!FailRefresh, List!server, List!older, Rest
<1>2. refresh \in ListRefreshes /\ AnswerIsOf(refresh.answer, refresh.of) /\ open \in Mailboxes
  BY DEF ListInv, ListTypes, AnswersOwn
<1>3. refresh' \in ListRefreshes /\ AnswerIsOf(refresh'.answer, refresh'.of)
  <2>1. List!NoRefresh(open) \in ListRefreshes /\ List!NoRefresh(open).answer = List!NoAnswer /\ AnswerIsOf(List!NoAnswer, open)
    BY <1>2, NothingIsListed DEF List!NoRefresh
  <2>2. CASE List!AskRefresh
    <3>1. refresh' = [List!NoRefresh(open) EXCEPT !.pc = "asked"]
      BY <2>2 DEF List!AskRefresh
    <3>2. refresh' \in ListRefreshes /\ refresh'.answer = List!NoAnswer
      BY <2>1, <3>1 DEF ListRefreshes
    <3> QED BY <3>2, NothingIsListed
  <2>3. CASE List!AnswerRefresh
    <3>1. List!Listed(refresh.of, None) \in List!Answers /\ AnswerIsOf(List!Listed(refresh.of, None), refresh.of)
      BY ListedIs DEF ListInv
    <3>2. refresh' = [refresh EXCEPT !.pc = "answered", !.answer = List!Listed(refresh.of, None)]
      BY <2>3 DEF List!AnswerRefresh
    <3>3. refresh' \in ListRefreshes /\ refresh'.answer = List!Listed(refresh.of, None) /\ refresh'.of = refresh.of
      BY <1>2, <3>1, <3>2 DEF ListRefreshes
    <3> QED BY <3>1, <3>3
  <2>4. CASE List!FailRefresh
    <3>1. refresh' = List!NoRefresh(open)
      BY <2>4 DEF List!FailRefresh
    <3> QED BY <2>1, <3>1, NothingIsListed
  <2> QED BY <2>2, <2>3, <2>4
<1>4. tally' \in [{"changes", "visits", "moves", "faults"} -> Nat]
  <2>1. CASE List!FailRefresh
    BY <2>1, SpendIs DEF List!FailRefresh, ListInv
  <2>2. CASE List!AskRefresh \/ List!AnswerRefresh
    BY <2>2 DEF List!AskRefresh, List!AnswerRefresh, ListInv, ListTypes
  <2> QED BY <2>1, <2>2
<1>5. ListFlags' /\ List!NeverStuck'
  BY <1>1 DEF Rest, ListInv, ListFlags, List!NeverStuck
<1>6. AnswersOwn'
  BY <1>1, <1>3 DEF Rest, ListInv, AnswersOwn, AnswerIsOf, IsOf
<1>7. first' \in ListFirsts /\ page' \in ListPages /\ cursor' \in Placements \cup {None}
  BY <1>1 DEF ListInv, ListTypes
<1> QED BY <1>1, <1>3, <1>4, <1>5, <1>6, <1>7, RequestKeeps

\* The steps that put an answer into the list.
LEMMA ApplyFirstKeeps == ASSUME List!ListAssumption, ListInv, List!ApplyFirst PROVE ListInv'
<1>1. /\ List!Apply(first.answer) /\ first' = List!NoFirst /\ loaded' = TRUE
      /\ UNCHANGED <<stored, hidden, open, refresh, move, mislaid, tally>>
  BY DEF List!ApplyFirst, List!server
<1>2. first.answer \in List!Answers /\ AnswerIsOf(first.answer, open) /\ Distinct(list) /\ ListTypes
  BY DEF ListInv, ListTypes, ListFirsts, AnswersOwn, ListOwn
<1>3. /\ list' \in Seq(Placements) /\ Distinct(list') /\ cursor' \in Placements \cup {None}
      /\ \A box : IsOf(first.answer.items, box) /\ IsOf(list, box) => IsOf(list', box)
      /\ page' \in ListPages /\ page'.answer = page.answer /\ page'.pc = page.pc
      /\ UNCHANGED <<more, error, pageLoading>>
  BY <1>1, <1>2, ApplyIs DEF AnswerIsOf
<1>4. ListTypes'
  BY <1>1, <1>2, <1>3, NothingIsListed DEF ListTypes
<1>5. ListFlags' /\ List!NeverStuck'
  BY <1>1, <1>3 DEF ListInv, ListFlags, List!NeverStuck
<1>6. ListOwn'
  <2>1. mislaid \/ IsOf(list', open)
    BY <1>2, <1>3 DEF ListInv, ListOwn, AnswerIsOf
  <2> QED BY <1>1, <1>3, <2>1 DEF ListOwn, IsOf
<1>7. AnswersOwn'
  <2>1. AnswerIsOf(first'.answer, open) /\ AnswerIsOf(page'.answer, open) /\ AnswerIsOf(refresh'.answer, refresh'.of)
    BY <1>1, <1>3, NothingIsListed DEF ListInv, AnswersOwn, List!NoFirst
  <2> QED BY <1>1, <2>1 DEF AnswersOwn, AnswerIsOf, IsOf
<1>8. MovesOwn'
  BY <1>1 DEF ListInv, MovesOwn
<1> QED BY <1>4, <1>5, <1>6, <1>7, <1>8 DEF ListInv

LEMMA ApplyRefreshKeeps == ASSUME List!ListAssumption, ListInv, List!ApplyRefresh PROVE ListInv'
<1>1. /\ List!Apply(refresh.answer) /\ refresh' = List!NoRefresh(open) /\ mislaid' = (mislaid \/ refresh.of # open)
      /\ UNCHANGED <<stored, hidden, open, loaded, first, move, tally>>
  BY DEF List!ApplyRefresh, List!server
<1>2. /\ refresh.answer \in List!Answers /\ AnswerIsOf(refresh.answer, refresh.of) /\ Distinct(list) /\ ListTypes
      /\ open \in Mailboxes
  BY DEF ListInv, ListTypes, ListRefreshes, AnswersOwn, ListOwn
<1>3. /\ list' \in Seq(Placements) /\ Distinct(list') /\ cursor' \in Placements \cup {None}
      /\ \A box : IsOf(refresh.answer.items, box) /\ IsOf(list, box) => IsOf(list', box)
      /\ page' \in ListPages /\ page'.answer = page.answer /\ page'.pc = page.pc
      /\ UNCHANGED <<more, error, pageLoading>>
  BY <1>1, <1>2, ApplyIs DEF AnswerIsOf
<1>4. refresh' \in ListRefreshes /\ AnswerIsOf(refresh'.answer, refresh'.of)
  <2>1. List!NoRefresh(open) \in ListRefreshes /\ List!NoRefresh(open).answer = List!NoAnswer
    BY <1>2, NothingIsListed DEF List!NoRefresh
  <2> QED BY <1>1, <2>1, NothingIsListed
<1>5. ListTypes'
  BY <1>1, <1>2, <1>3, <1>4 DEF ListTypes
<1>6. ListFlags'
  BY <1>1, <1>3 DEF ListInv, ListFlags
<1>7. List!NeverStuck'
  BY <1>3 DEF ListInv, List!NeverStuck
<1>8. ListOwn'
  <2>1. CASE mislaid \/ refresh.of # open
    BY <1>1, <1>3, <2>1 DEF ListOwn
  <2>2. CASE ~mislaid /\ refresh.of = open
    <3>1. IsOf(list', open)
      BY <1>2, <1>3, <2>2 DEF ListInv, ListOwn, AnswerIsOf
    <3> QED BY <1>1, <1>3, <3>1 DEF ListOwn, IsOf
  <2> QED BY <2>1, <2>2
<1>9. AnswersOwn'
  BY <1>1, <1>3, <1>4 DEF ListInv, AnswersOwn, AnswerIsOf, IsOf
<1>10. MovesOwn'
  BY <1>1 DEF ListInv, MovesOwn
<1> QED BY <1>5, <1>6, <1>7, <1>8, <1>9, <1>10 DEF ListInv

LEMMA ApplyPageKeeps == ASSUME List!ListAssumption, ListInv, List!ApplyPage PROVE ListInv'
<1> DEFINE below == List!Without(page.answer.items, List!ToSet(list))
<1>1. /\ pageLoading' = FALSE /\ page' = List!NoPage
      /\ \/ more' = TRUE /\ list' = list \o below /\ cursor' = page.answer.next
         \/ UNCHANGED <<more, list, cursor>>
      /\ UNCHANGED <<stored, hidden, open, error, loaded, first, refresh, move, mislaid, tally>>
  BY DEF List!ApplyPage, List!StillLoading, List!server
<1>2. /\ page.answer.items \in Seq(Placements) /\ page.answer.next \in Placements \cup {None}
      /\ AnswerIsOf(page.answer, open) /\ Distinct(list) /\ list \in Seq(Placements) /\ (mislaid \/ IsOf(list, open))
  BY DEF ListInv, ListTypes, ListPages, List!Answers, AnswersOwn, ListOwn
<1>3. below \in Seq(Placements) /\ List!ToSet(below) = List!ToSet(page.answer.items) \ List!ToSet(list) /\ Distinct(below)
  BY <1>2, WithoutKeeps DEF AnswerIsOf
<1> HIDE DEF below
<1>4. /\ list \o below \in Seq(Placements) /\ List!ToSet(list \o below) = List!ToSet(list) \cup List!ToSet(below)
      /\ Distinct(list \o below)
  <2>1. List!ToSet(list) \cap List!ToSet(below) = {}
    BY <1>3
  <2> QED BY <1>2, <1>3, <2>1, ConcatIs
<1>5. /\ list' \in Seq(Placements) /\ Distinct(list') /\ (mislaid \/ IsOf(list', open))
      /\ cursor' \in Placements \cup {None}
  <2>1. CASE list' = list \o below /\ cursor' = page.answer.next
    BY <1>2, <1>3, <1>4, <2>1 DEF IsOf, AnswerIsOf
  <2>2. CASE UNCHANGED <<list, cursor>>
    BY <1>2, <2>2 DEF IsOf, ListInv, ListTypes
  <2> QED BY <1>1, <2>1, <2>2
<1>6. List!NoPage.answer = List!NoAnswer
  BY DEF List!NoPage
<1>7. ListTypes'
  BY <1>1, <1>5, NothingIsListed DEF ListInv, ListTypes
<1>8. ListFlags' /\ List!NeverStuck'
  BY <1>1 DEF ListInv, ListFlags, List!NeverStuck
<1>9. ListOwn'
  BY <1>1, <1>5 DEF ListOwn, IsOf
<1>10. AnswersOwn'
  <2>1. AnswerIsOf(first'.answer, open) /\ AnswerIsOf(page'.answer, open) /\ AnswerIsOf(refresh'.answer, refresh'.of)
    BY <1>1, <1>6, NothingIsListed DEF ListInv, AnswersOwn
  <2> QED BY <1>1, <2>1 DEF AnswersOwn, AnswerIsOf, IsOf
<1>11. MovesOwn'
  BY <1>1 DEF ListInv, MovesOwn
<1> QED BY <1>7, <1>8, <1>9, <1>10, <1>11 DEF ListInv

LEMMA NavigateKeeps == ASSUME List!ListAssumption, ListInv, NEW box \in Mailboxes, List!Navigate(box) PROVE ListInv'
<1>1. /\ open' = box /\ list' = <<>> /\ cursor' = None /\ page' = List!NoPage /\ first' = List!NoFirst
      /\ more' = FALSE /\ error' = FALSE /\ loaded' = FALSE /\ mislaid' = FALSE /\ pageLoading' = FALSE
      /\ UNCHANGED <<stored, hidden, refresh, move>>
  BY DEF List!Navigate, List!server
<1>2. tally' \in [{"changes", "visits", "moves", "faults"} -> Nat]
  BY SpendIs DEF List!Navigate, ListInv
<1>3. <<>> \in Seq(Placements) /\ List!ToSet(<<>>) = {} /\ Distinct(<<>>)
  <2>1. <<>> \in Seq(Placements) /\ DOMAIN <<>> = {}
    BY EmptySeq
  <2> QED BY <2>1 DEF List!ToSet, Distinct
<1>4. List!NoPage.answer = List!NoAnswer /\ List!NoFirst.answer = List!NoAnswer
  BY DEF List!NoPage, List!NoFirst
<1>5. ListTypes'
  BY <1>1, <1>2, <1>3, NothingIsListed DEF ListInv, ListTypes
<1>6. ListFlags' /\ List!NeverStuck'
  BY <1>1 DEF ListFlags, List!NeverStuck
<1>7. ListOwn'
  BY <1>1, <1>3 DEF ListOwn, IsOf
<1>8. AnswersOwn'
  BY <1>1, <1>4, NothingIsListed DEF ListInv, AnswersOwn, AnswerIsOf, IsOf
<1>9. MovesOwn'
  BY <1>1 DEF ListInv, MovesOwn
<1> QED BY <1>5, <1>6, <1>7, <1>8, <1>9 DEF ListInv

\* The steps of a move.
Elsewhere == <<open, cursor, more, error, loaded, page, pageLoading, refresh>>

LEMMA MoveKeeps ==
  ASSUME ListInv, UNCHANGED Elsewhere, first' = first \/ first' = List!NoFirst,
         stored' \subseteq Placements, hidden' \subseteq Placements \ stored',
         list' \in Seq(Placements), Distinct(list'), mislaid' \in BOOLEAN, mislaid' \/ IsOf(list', open),
         move' \in [Placements -> ListMoves], MovesOwn', tally' \in [{"changes", "visits", "moves", "faults"} -> Nat]
  PROVE  ListInv'
<1>1. first' \in ListFirsts /\ AnswerIsOf(first'.answer, open)
  BY NothingIsListed DEF ListInv, ListTypes, AnswersOwn, List!NoFirst
<1>2. ListTypes'
  BY <1>1 DEF Elsewhere, ListInv, ListTypes
<1>3. ListFlags' /\ List!NeverStuck'
  BY DEF Elsewhere, ListInv, ListFlags, List!NeverStuck
<1>4. ListOwn'
  BY DEF Elsewhere, ListOwn, IsOf
<1>5. AnswersOwn'
  BY <1>1 DEF Elsewhere, ListInv, AnswersOwn, AnswerIsOf, IsOf
<1> QED BY <1>2, <1>3, <1>4, <1>5 DEF ListInv

LEMMA ActKeeps == ASSUME List!ListAssumption, ListInv, NEW m \in Placements, List!Act(m) PROVE ListInv'
<1> DEFINE i == CHOOSE k \in DOMAIN list : list[k] = m
<1>1. /\ UNCHANGED Elsewhere /\ UNCHANGED <<stored, hidden, first, mislaid>> /\ m \in List!ToSet(list)
      /\ move' = [move EXCEPT ![m] = [pc |-> "asking", index |-> i, of |-> open, astray |-> mislaid]]
      /\ list' = List!Without(list, {m})
  BY DEF List!Act, List!server, List!older, Elsewhere
<1>2. /\ list \in Seq(Placements) /\ Distinct(list) /\ (mislaid \/ IsOf(list, open)) /\ mislaid \in BOOLEAN
      /\ open \in Mailboxes /\ move \in [Placements -> ListMoves]
  BY DEF ListInv, ListTypes, ListOwn, ListFlags
<1>3. list' \in Seq(Placements) /\ Distinct(list') /\ List!ToSet(list') = List!ToSet(list) \ {m}
  BY <1>1, <1>2, WithoutKeeps
<1>4. i \in Nat /\ i # 0
  <2>1. \E k \in DOMAIN list : list[k] = m
    BY <1>1 DEF List!ToSet
  <2>2. i \in DOMAIN list
    BY <2>1
  <2>3. DOMAIN list = 1..Len(list) /\ Len(list) \in Nat
    BY <1>2, LenProperties
  <2> HIDE DEF i
  <2> QED BY <2>2, <2>3
<1> HIDE DEF i
<1>5. move' \in [Placements -> ListMoves]
  BY <1>1, <1>2, <1>4 DEF ListMoves
<1>6. MovesOwn'
  <2> SUFFICES ASSUME NEW x \in Placements, move'[x].pc # "none"
               PROVE  /\ move'[x].index # 0
                      /\ ~move'[x].astray => Home[x] = move'[x].of
                      /\ move'[x].pc \in {"pending", "applied", "failed", "lost"} => Home[x] = move'[x].of
    BY DEF MovesOwn
  <2>1. CASE x = m
    <3>1. move'[x] = [pc |-> "asking", index |-> i, of |-> open, astray |-> mislaid]
      BY <1>1, <1>2, <2>1
    <3>2. mislaid \/ Home[x] = open
      BY <1>1, <1>2, <2>1 DEF IsOf
    <3> QED BY <1>4, <3>1, <3>2
  <2>2. CASE x # m
    <3>1. move'[x] = move[x]
      BY <1>1, <1>2, <2>2
    <3> QED BY <3>1 DEF ListInv, MovesOwn
  <2> QED BY <2>1, <2>2
<1>7. tally' \in [{"changes", "visits", "moves", "faults"} -> Nat]
  BY SpendIs DEF List!Act, ListInv
<1>8. stored' \subseteq Placements /\ hidden' \subseteq Placements \ stored'
  BY <1>1 DEF ListInv, ListTypes
<1>9. mislaid' \in BOOLEAN /\ (mislaid' \/ IsOf(list', open))
  BY <1>1, <1>2, <1>3 DEF IsOf
<1> QED BY <1>1, <1>3, <1>5, <1>6, <1>7, <1>8, <1>9, MoveKeeps

\* A step of one message's move that names the mailbox it was made in.
LEMMA MovedIs ==
  ASSUME ListInv, NEW m \in Placements, NEW pc \in {"pending", "applied", "failed", "lost", "refused"},
         move[m].pc # "none", pc # "refused" => Home[m] = move[m].of, move' = [move EXCEPT ![m].pc = pc]
  PROVE  move' \in [Placements -> ListMoves] /\ MovesOwn'
<1>1. move \in [Placements -> ListMoves]
  BY DEF ListInv, ListTypes
<1>2. move' \in [Placements -> ListMoves]
  BY <1>1 DEF ListMoves
<1>3. MovesOwn'
  <2> SUFFICES ASSUME NEW x \in Placements, move'[x].pc # "none"
               PROVE  /\ move'[x].index # 0
                      /\ ~move'[x].astray => Home[x] = move'[x].of
                      /\ move'[x].pc \in {"pending", "applied", "failed", "lost"} => Home[x] = move'[x].of
    BY DEF MovesOwn
  <2>1. move[x] \in ListMoves
    BY <1>1
  <2>2. CASE x = m
    <3>1. move'[x].pc = pc /\ move'[x].index = move[x].index /\ move'[x].astray = move[x].astray /\ move'[x].of = move[x].of
      BY <1>1, <2>1, <2>2 DEF ListMoves
    <3> QED BY <2>2, <3>1 DEF ListInv, MovesOwn
  <2>3. CASE x # m
    <3>1. move'[x] = move[x]
      BY <1>1, <2>3
    <3> QED BY <3>1 DEF ListInv, MovesOwn
  <2> QED BY <2>2, <2>3
<1> QED BY <1>2, <1>3

LEMMA UnmovedIs == ASSUME ListInv, NEW m \in Placements, move' = [move EXCEPT ![m] = List!Unmoved]
  PROVE  move' \in [Placements -> ListMoves] /\ MovesOwn'
<1>1. move \in [Placements -> ListMoves] /\ List!Unmoved \in ListMoves /\ List!Unmoved.pc = "none"
  BY DEF ListInv, ListTypes, ListMoves, List!Unmoved
<1>2. move' \in [Placements -> ListMoves]
  BY <1>1
<1>3. \A x \in Placements : move'[x] = (IF x = m THEN List!Unmoved ELSE move[x])
  BY <1>1
<1> QED BY <1>1, <1>2, <1>3 DEF ListInv, MovesOwn

LEMMA EnqueueKeeps == ASSUME List!ListAssumption, ListInv, NEW m \in Placements, List!Enqueue(m) PROVE ListInv'
<1>1. UNCHANGED Elsewhere /\ UNCHANGED <<list, first, mislaid>> /\ move[m].pc = "asking"
  BY DEF List!Enqueue, List!older, Elsewhere
<1>2. /\ list \in Seq(Placements) /\ Distinct(list) /\ (mislaid \/ IsOf(list, open)) /\ mislaid \in BOOLEAN
      /\ stored \subseteq Placements /\ hidden \subseteq Placements \ stored
      /\ tally \in [{"changes", "visits", "moves", "faults"} -> Nat]
  BY DEF ListInv, ListTypes, ListOwn, ListFlags
<1>3. move' \in [Placements -> ListMoves] /\ MovesOwn'
  <2>1. CASE m \in stored /\ Home[m] = move[m].of
    <3>1. PICK pc \in {"pending", "lost"} : move' = [move EXCEPT ![m].pc = pc]
      BY <2>1 DEF List!Enqueue
    <3> QED BY <1>1, <2>1, <3>1, MovedIs
  <2>2. CASE ~(m \in stored /\ Home[m] = move[m].of)
    <3>1. move' = [move EXCEPT ![m].pc = "refused"]
      BY <2>2 DEF List!Enqueue
    <3> QED BY <1>1, <3>1, MovedIs
  <2> QED BY <2>1, <2>2
<1>4. stored' \subseteq Placements /\ hidden' \subseteq Placements \ stored'
  BY <1>2 DEF List!Enqueue, List!server
<1>5. tally' \in [{"changes", "visits", "moves", "faults"} -> Nat]
  <2>1. List!Spend("faults") \/ tally' = tally
    BY DEF List!Enqueue
  <2>2. List!Spend("faults") => tally' \in [{"changes", "visits", "moves", "faults"} -> Nat]
    BY SpendIs DEF ListInv
  <2> QED BY <1>2, <2>1, <2>2
<1>6. list' \in Seq(Placements) /\ Distinct(list') /\ mislaid' \in BOOLEAN /\ (mislaid' \/ IsOf(list', open))
  BY <1>1, <1>2
<1> QED BY <1>1, <1>3, <1>4, <1>5, <1>6, MoveKeeps

LEMMA ExecuteKeeps == ASSUME List!ListAssumption, ListInv, NEW m \in Placements, List!Execute(m) PROVE ListInv'
<1>1. UNCHANGED Elsewhere /\ UNCHANGED <<list, first, mislaid>> /\ m \in hidden /\ hidden' = hidden \ {m}
  BY DEF List!Execute, List!older, Elsewhere
<1>2. /\ list \in Seq(Placements) /\ Distinct(list) /\ (mislaid \/ IsOf(list, open)) /\ mislaid \in BOOLEAN
      /\ stored \subseteq Placements /\ hidden \subseteq Placements \ stored
      /\ tally \in [{"changes", "visits", "moves", "faults"} -> Nat]
      /\ move \in [Placements -> ListMoves] /\ MovesOwn
  BY DEF ListInv, ListTypes, ListOwn, ListFlags
<1>3. move' \in [Placements -> ListMoves] /\ MovesOwn'
  <2>1. CASE move[m].pc = "pending"
    <3>1. PICK pc \in {"applied", "failed"} : move' = [move EXCEPT ![m].pc = pc]
      BY <2>1 DEF List!Execute
    <3>2. Home[m] = move[m].of
      BY <1>2, <2>1 DEF MovesOwn
    <3> QED BY <2>1, <3>1, <3>2, MovedIs
  <2>2. CASE move[m].pc # "pending"
    <3>1. move' = move
      BY <2>2 DEF List!Execute
    <3> QED BY <1>2, <3>1 DEF MovesOwn
  <2> QED BY <2>1, <2>2
<1>4. stored' \subseteq Placements /\ hidden' \subseteq Placements \ stored'
  <2>1. stored' = stored \/ stored' = stored \cup {m}
    BY DEF List!Execute
  <2> QED BY <1>1, <1>2, <2>1
<1>5. tally' \in [{"changes", "visits", "moves", "faults"} -> Nat]
  <2>1. List!Spend("faults") \/ tally' = tally
    BY DEF List!Execute
  <2>2. List!Spend("faults") => tally' \in [{"changes", "visits", "moves", "faults"} -> Nat]
    BY SpendIs DEF ListInv
  <2> QED BY <1>2, <2>1, <2>2
<1>6. list' \in Seq(Placements) /\ Distinct(list') /\ mislaid' \in BOOLEAN /\ (mislaid' \/ IsOf(list', open))
  BY <1>1, <1>2
<1> QED BY <1>1, <1>3, <1>4, <1>5, <1>6, MoveKeeps

\* A row that is put back is put into the list once, between the rows that are there.
LEMMA RestoredIs == ASSUME ListInv, NEW m \in Placements, move[m].pc # "none"
  PROVE List!Restored(m) \in Seq(Placements) /\ Distinct(List!Restored(m)) /\ List!ToSet(List!Restored(m)) = List!ToSet(list) \cup {m}
<1>1. list \in Seq(Placements) /\ Distinct(list) /\ move[m] \in ListMoves
  BY DEF ListInv, ListTypes, ListOwn
<1>2. CASE m \in List!ToSet(list)
  <2>1. List!Restored(m) = list
    BY <1>2 DEF List!Restored
  <2> QED BY <1>1, <1>2, <2>1
<1>3. CASE m \notin List!ToSet(list)
  <2>1. Len(list) \in Nat
    BY <1>1, LenProperties
  <2>2. move[m].index \in Nat /\ move[m].index # 0
    BY <1>1 DEF ListInv, MovesOwn, ListMoves
  <2>3. List!At(m) \in 1..(Len(list) + 1)
    BY <2>1, <2>2 DEF List!At
  <2>4. List!Restored(m) = List!InsertAt(list, List!At(m), m)
    BY <1>3 DEF List!Restored
  <2>5. /\ List!InsertAt(list, List!At(m), m) \in Seq(Placements) /\ List!ToSet(List!InsertAt(list, List!At(m), m)) = List!ToSet(list) \cup {m}
        /\ Distinct(list) /\ m \notin List!ToSet(list) => Distinct(List!InsertAt(list, List!At(m), m))
    BY <1>1, <2>3, InsertAtIs
  <2> QED BY <1>1, <1>3, <2>4, <2>5
<1> QED BY <1>2, <1>3

LEMMA RefusedKeeps == ASSUME List!ListAssumption, ListInv, NEW m \in Placements, List!Refused(m) PROVE ListInv'
<1>1. /\ UNCHANGED Elsewhere /\ UNCHANGED <<stored, hidden, first, tally>> /\ move[m].pc \in {"refused", "lost"}
      /\ list' = (IF List!Back(m) THEN List!Restored(m) ELSE list) /\ mislaid' = (mislaid \/ (List!Back(m) /\ move[m].astray))
      /\ move' = [move EXCEPT ![m] = List!Unmoved]
  BY DEF List!Refused, List!server, List!older, Elsewhere
<1>2. /\ list \in Seq(Placements) /\ Distinct(list) /\ (mislaid \/ IsOf(list, open)) /\ mislaid \in BOOLEAN
      /\ stored \subseteq Placements /\ hidden \subseteq Placements \ stored
      /\ tally \in [{"changes", "visits", "moves", "faults"} -> Nat]
      /\ move[m] \in ListMoves
  BY DEF ListInv, ListTypes, ListOwn, ListFlags
<1>3. move' \in [Placements -> ListMoves] /\ MovesOwn'
  BY <1>1, UnmovedIs
<1>4. list' \in Seq(Placements) /\ Distinct(list') /\ List!ToSet(list') \subseteq List!ToSet(list) \cup (IF List!Back(m) THEN {m} ELSE {})
  BY <1>1, <1>2, RestoredIs
<1>5. mislaid' \in BOOLEAN
  <2>1. move[m].astray \in BOOLEAN
    BY <1>2 DEF ListMoves
  <2> QED BY <1>1, <1>2, <2>1 DEF List!Back
<1>6. mislaid' \/ IsOf(list', open)
  <2>1. CASE List!Back(m) /\ ~move[m].astray
    <3>1. Home[m] = open
      BY <1>1, <2>1 DEF ListInv, MovesOwn, List!Back
    <3>2. mislaid' = mislaid
      BY <1>1, <1>2, <2>1
    <3> QED BY <1>2, <1>4, <3>1, <3>2 DEF IsOf
  <2>2. CASE ~List!Back(m)
    <3>1. mislaid' = mislaid /\ list' = list
      BY <1>1, <1>2, <2>2
    <3> QED BY <1>2, <3>1
  <2>3. CASE List!Back(m) /\ move[m].astray
    BY <1>1, <2>3
  <2> QED BY <2>1, <2>2, <2>3
<1>7. stored' \subseteq Placements /\ hidden' \subseteq Placements \ stored'
  BY <1>1, <1>2
<1> QED BY <1>1, <1>2, <1>3, <1>4, <1>5, <1>6, <1>7, MoveKeeps

LEMMA EndedKeeps == ASSUME List!ListAssumption, ListInv, NEW m \in Placements, List!Done(m) \/ List!Failed(m) PROVE ListInv'
<1>1. /\ UNCHANGED Elsewhere /\ UNCHANGED <<stored, hidden, mislaid, tally>> /\ move[m].pc \in {"applied", "failed"}
      /\ (list' = list \/ (List!Back(m) /\ list' = List!Restored(m))) /\ (first' = first \/ first' = List!NoFirst)
      /\ move' = [move EXCEPT ![m] = List!Unmoved]
  BY DEF List!Done, List!Failed, List!server, List!older, Elsewhere
<1>2. /\ list \in Seq(Placements) /\ Distinct(list) /\ (mislaid \/ IsOf(list, open)) /\ mislaid \in BOOLEAN
      /\ stored \subseteq Placements /\ hidden \subseteq Placements \ stored
      /\ tally \in [{"changes", "visits", "moves", "faults"} -> Nat]
  BY DEF ListInv, ListTypes, ListOwn, ListFlags
<1>3. move' \in [Placements -> ListMoves] /\ MovesOwn'
  BY <1>1, UnmovedIs
<1>4. /\ list' \in Seq(Placements) /\ Distinct(list') /\ List!ToSet(list') \subseteq List!ToSet(list) \cup {m}
      /\ List!Back(m) \/ list' = list
  BY <1>1, <1>2, RestoredIs
<1>5. Home[m] = move[m].of
  BY <1>1 DEF ListInv, MovesOwn
<1>6. mislaid' \in BOOLEAN /\ (mislaid' \/ IsOf(list', open))
  <2>1. CASE List!Back(m)
    <3>1. Home[m] = open
      BY <1>5, <2>1 DEF List!Back
    <3> QED BY <1>1, <1>2, <1>4, <3>1 DEF IsOf
  <2>2. CASE list' = list
    BY <1>1, <1>2, <2>2
  <2> QED BY <1>4, <2>1, <2>2
<1>7. stored' \subseteq Placements /\ hidden' \subseteq Placements \ stored' /\ (first' = first \/ first' = List!NoFirst)
  BY <1>1, <1>2 DEF List!Done, List!Failed
<1> QED BY <1>1, <1>2, <1>3, <1>4, <1>6, <1>7, MoveKeeps

LEMMA ListInitHolds == ASSUME List!ListAssumption, List!Init PROVE ListInv
<1>1. <<>> \in Seq(Placements) /\ List!ToSet(<<>>) = {} /\ Distinct(<<>>)
  <2>1. <<>> \in Seq(Placements) /\ DOMAIN <<>> = {}
    BY EmptySeq
  <2> QED BY <2>1 DEF List!ToSet, Distinct
<1>2. List!NoPage.answer = List!NoAnswer /\ List!NoFirst.answer = List!NoAnswer /\ List!NoRefresh(open).answer = List!NoAnswer
  BY DEF List!NoPage, List!NoFirst, List!NoRefresh
<1>3. ListTypes
  <2>1. /\ stored \subseteq Placements /\ hidden = {} /\ open \in Mailboxes /\ list = <<>> /\ cursor = None
        /\ first = List!NoFirst /\ page = List!NoPage /\ refresh = List!NoRefresh(open) /\ move = [m \in Placements |-> List!Unmoved]
        /\ tally = [changes |-> MaxChanges, visits |-> MaxVisits, moves |-> MaxMoves, faults |-> MaxFaults]
    BY DEF List!Init
  <2>2. tally \in [{"changes", "visits", "moves", "faults"} -> Nat]
    BY <2>1 DEF List!ListAssumption
  <2>3. move \in [Placements -> ListMoves]
    BY <2>1 DEF ListMoves, List!Unmoved
  <2> QED BY <1>1, <2>1, <2>2, <2>3, NothingIsListed DEF ListTypes
<1>4. ListFlags /\ List!NeverStuck
  BY DEF List!Init, ListFlags, List!NeverStuck
<1>5. ListOwn
  BY <1>1 DEF List!Init, ListOwn, IsOf
<1>6. AnswersOwn
  BY <1>2, NothingIsListed DEF List!Init, AnswersOwn
<1>7. MovesOwn
  BY DEF List!Init, MovesOwn, List!Unmoved
<1> QED BY <1>3, <1>4, <1>5, <1>6, <1>7 DEF ListInv

LEMMA ListNextKeeps == ASSUME List!ListAssumption, ListInv, [List!Next]_List!vars PROVE ListInv'
<1>1. CASE List!Next
  <2>1. ASSUME NEW m \in Placements, List!Change(m) \/ List!Act(m) \/ List!Moving(m) PROVE ListInv'
    BY <2>1, ChangeKeeps, ActKeeps, EnqueueKeeps, ExecuteKeeps, RefusedKeeps, EndedKeeps DEF List!Moving
  <2>2. ASSUME NEW box \in Mailboxes, List!Navigate(box) PROVE ListInv'
    BY <2>2, NavigateKeeps
  <2>3. ASSUME List!First \/ List!FailFirst PROVE ListInv'
    BY <2>3, FirstKeeps, ApplyFirstKeeps DEF List!First
  <2>4. ASSUME List!Reach \/ List!Older \/ List!FailPage \/ List!Retry PROVE ListInv'
    BY <2>4, PageKeeps, ApplyPageKeeps DEF List!Older
  <2>5. ASSUME List!AskRefresh \/ List!Refreshing \/ List!FailRefresh PROVE ListInv'
    BY <2>5, RefreshKeeps, ApplyRefreshKeeps DEF List!Refreshing
  <2> QED BY <1>1, <2>1, <2>2, <2>3, <2>4, <2>5 DEF List!Next
<1>2. CASE UNCHANGED List!vars
  <2>1. UNCHANGED Rest /\ UNCHANGED <<cursor, more, error, loaded, page, pageLoading, first, refresh, tally>>
    BY <1>2 DEF List!vars, List!server, List!older, Rest
  <2>2. ListTypes'
    BY <2>1 DEF Rest, ListInv, ListTypes
  <2>3. ListFlags' /\ List!NeverStuck'
    BY <2>1 DEF Rest, ListInv, ListFlags, List!NeverStuck
  <2>4. ListOwn' /\ MovesOwn' /\ AnswersOwn'
    BY <2>1 DEF Rest, ListInv, ListOwn, MovesOwn, AnswersOwn, AnswerIsOf, IsOf
  <2> QED BY <2>2, <2>3, <2>4 DEF ListInv
<1> QED BY <1>1, <1>2

\* ListInv holds in every behaviour of MailList.
THEOREM ListInvariantHolds == ASSUME List!ListAssumption PROVE List!Spec => []ListInv
<1>1. List!Init => ListInv
  BY ListInitHolds
<1>2. ListInv /\ [List!Next]_List!vars => ListInv'
  BY ListNextKeeps
<1> QED BY <1>1, <1>2, PTL DEF List!Spec

\* No message is in the list twice, every row is of the open mailbox unless an answer or a row of
\* another one has been put into the list since it was opened, and the pages below can be asked for.
THEOREM ListIsOfItsMailbox == ASSUME List!ListAssumption PROVE List!Spec => [](List!NoDuplicate /\ List!OwnMailbox /\ List!NeverStuck)
<1>1. ListInv => List!NoDuplicate /\ List!OwnMailbox /\ List!NeverStuck
  <2> SUFFICES ASSUME ListInv PROVE List!NoDuplicate /\ List!OwnMailbox /\ List!NeverStuck
    OBVIOUS
  <2>1. List!NoDuplicate
    BY DEF ListInv, ListOwn, List!NoDuplicate, Distinct
  <2>2. List!OwnMailbox
    BY DEF ListInv, ListOwn, List!OwnMailbox, IsOf, List!ToSet
  <2> QED BY <2>1, <2>2 DEF ListInv
<1> QED BY <1>1, ListInvariantHolds, PTL

-----------------------------------------------------------------------------
(* The actions of a tab *)

CONSTANT MaxActs
VARIABLES seen, remote, command, unseen, shown, acts, active, ask, pending, rendered, reconciled, polls, groups, adjust, count, folder,
          actsPage, actFaults

Acts == INSTANCE MailActions WITH Messages <- Placements, page <- actsPage, faults <- actFaults

ActCommands == [status : Acts!Statuses, original : BOOLEAN, followed : BOOLEAN]
ActTypes ==
  /\ seen \subseteq Placements /\ remote \subseteq Placements /\ shown \subseteq Placements /\ active \subseteq Placements
  /\ command \in [Acts!Ids -> ActCommands] /\ ask \in [Acts!Ids -> {"none", "asked", "queued", "refused"}]
  /\ pending \subseteq Acts!Ids /\ rendered \subseteq Acts!Ids /\ reconciled \subseteq Acts!Ids
  /\ groups \in [Acts!Presses -> [remaining : Int, succeeded : Nat, failed : Nat, told : BOOLEAN]]
  /\ actFaults \in Nat

Waiting == {i \in Acts!Ids : Acts!Waits(i)}
Under(n) == {i \in Acts!Ids : i[1] = n /\ Acts!Waits(i)}
Succeeded(n) == {i \in reconciled : i[1] = n /\ command[i].status = "succeeded"}

\* Presses have the numbers from 1 on, and nothing is known of later ones.
InOrder ==
  /\ \E k \in 0..MaxActs : DOMAIN acts = 1..k
  /\ \A i \in Acts!Ids : Acts!Waits(i) \/ i \in reconciled \/ command[i].status # "none" => i[1] \in DOMAIN acts
  /\ \A n \in Acts!Presses \ DOMAIN acts : groups[n] = Acts!Untold

\* A message waits for one command, which is asked for, or pending, and not over.
OneWaits ==
  /\ \A i, j \in Waiting : i[2] = j[2] => i = j
  /\ \A i \in Acts!Ids : ask[i] # "none" => i \notin pending \cup reconciled
  /\ \A i \in Acts!Ids : ask[i] = "asked" => command[i].status = "none"
  /\ pending \cap reconciled = {}

\* What a poll asks about was pending, and an end that it tells is final.
PollsTell ==
  /\ rendered \subseteq pending \cup reconciled
  /\ \A k \in {1, 2} : \A i \in DOMAIN polls[k].status :
       /\ i \in pending \cup reconciled
       /\ polls[k].status[i] \in {"succeeded", "failed"} => command[i].status = polls[k].status[i]

\* The groups count what waits, and what the tab knows to have succeeded.
Counted ==
  \A n \in DOMAIN acts : ~acts[n].auto =>
    /\ groups[n].remaining = Cardinality(Under(n))
    /\ groups[n].told <=> Under(n) = {}
    /\ groups[n].succeeded <= Cardinality(Succeeded(n))

ActInv == ActTypes /\ InOrder /\ OneWaits /\ PollsTell /\ Counted /\ Acts!KeptWhileUnderWay

ActQueues == [Acts!Presses -> [remaining : Int, succeeded : Nat, failed : Nat, told : BOOLEAN]]

\* The actions count by an instance of the same definitions.
LEMMA ActsCount ==
  ASSUME NEW S PROVE (Acts!IsFiniteSet(S) <=> IsFiniteSet(S)) /\ Acts!Cardinality(S) = Cardinality(S)
BY DEF Acts!IsFiniteSet, IsFiniteSet, Acts!Cardinality, Cardinality

LEMMA ActFacts == ASSUME Acts!ActionsAssumption
  PROVE /\ IsFiniteSet(Placements) /\ MaxActs \in Nat /\ MaxFaults \in Nat
        /\ IsFiniteSet(Acts!Ids) /\ \A S : S \subseteq Acts!Ids => IsFiniteSet(S) /\ Cardinality(S) \in Nat
<1>1. IsFiniteSet(Placements) /\ MaxActs \in Nat /\ MaxFaults \in Nat
  BY ActsCount DEF Acts!ActionsAssumption
<1>2. IsFiniteSet(Acts!Presses)
  BY <1>1, FS_Interval DEF Acts!Presses
<1>3. IsFiniteSet(Acts!Ids)
  BY <1>1, <1>2, FS_Product DEF Acts!Ids
<1>4. ASSUME NEW S, S \subseteq Acts!Ids PROVE IsFiniteSet(S) /\ Cardinality(S) \in Nat
  <2>1. IsFiniteSet(S)
    BY <1>3, <1>4, FS_Subset
  <2> QED BY <2>1, FS_CardinalityType
<1> QED BY <1>1, <1>3, <1>4

LEMMA PressesAre == ASSUME Acts!ActionsAssumption, InOrder
  PROVE \E k \in 0..MaxActs : DOMAIN acts = 1..k /\ Cardinality(DOMAIN acts) = k /\ DOMAIN acts \subseteq Acts!Presses
<1>1. PICK k \in 0..MaxActs : DOMAIN acts = 1..k
  BY DEF InOrder
<1>2. k \in Nat /\ MaxActs \in Nat
  BY ActFacts
<1>3. Cardinality(1..k) = k
  BY <1>2, FS_Interval
<1> QED BY <1>1, <1>2, <1>3 DEF Acts!Presses

LEMMA ActFrame == ASSUME ActTypes,
  UNCHANGED <<seen, remote, shown, active, command, ask, pending, rendered, reconciled, groups, actFaults>>
  PROVE ActTypes'
BY DEF ActTypes

\* What waits as long as the requests and the commands of the tab stay.
LEMMA StillWaiting == ASSUME UNCHANGED <<ask, pending>>
  PROVE Waiting' = Waiting /\ (\A n : Under(n)' = Under(n)) /\ \A i : Acts!Waits(i)' <=> Acts!Waits(i)
BY DEF Waiting, Under, Acts!Waits

LEMMA StillCounted ==
  ASSUME Acts!ActionsAssumption, ActTypes', InOrder, Counted, UNCHANGED <<acts, groups>>, \A n : Under(n)' = Under(n),
         \A n : Succeeded(n) \subseteq Succeeded(n)'
  PROVE  Counted'
<1> SUFFICES ASSUME NEW n \in DOMAIN acts', ~acts'[n].auto
             PROVE  /\ groups'[n].remaining = Cardinality(Under(n)')
                    /\ groups'[n].told <=> Under(n)' = {}
                    /\ groups'[n].succeeded <= Cardinality(Succeeded(n)')
  BY DEF Counted
<1>1. /\ groups[n].remaining = Cardinality(Under(n))
      /\ groups[n].told <=> Under(n) = {}
      /\ groups[n].succeeded <= Cardinality(Succeeded(n))
  BY DEF Counted
<1>2. Under(n)' = Under(n) /\ groups'[n] = groups[n] /\ Succeeded(n) \subseteq Succeeded(n)' /\ Succeeded(n)' \subseteq Acts!Ids
  BY DEF Succeeded, ActTypes
<1>3. /\ Cardinality(Succeeded(n)) <= Cardinality(Succeeded(n)')
      /\ Cardinality(Succeeded(n)) \in Nat /\ Cardinality(Succeeded(n)') \in Nat
  BY <1>2, ActFacts, FS_Subset
<1>4. groups[n].succeeded <= Cardinality(Succeeded(n)')
  <2>1. n \in Acts!Presses
    BY PressesAre
  <2>2. groups'[n].succeeded \in Nat
    BY <2>1 DEF ActTypes
  <2> QED BY <1>1, <1>2, <1>3, <2>2
<1> QED BY <1>1, <1>2, <1>4

\* finishFeedback() counts what it is told of each press.
LEMMA FinishedIs == ASSUME NEW ids, NEW badly, NEW n \in Acts!Presses, NEW mine, mine = {i \in ids : i[1] = n}
  PROVE  Acts!Finished(ids, badly)[n] =
           IF mine = {} \/ groups[n].told \/ acts[n].auto THEN groups[n]
           ELSE [remaining |-> groups[n].remaining - Cardinality(mine),
                 succeeded |-> groups[n].succeeded + Cardinality(mine \ badly),
                 failed |-> groups[n].failed + Cardinality(mine \cap badly),
                 told |-> groups[n].remaining = Cardinality(mine)]
BY ActsCount DEF Acts!Finished

LEMMA FinishedType == ASSUME Acts!ActionsAssumption, ActTypes, NEW ids \in SUBSET Acts!Ids, NEW badly
  PROVE  Acts!Finished(ids, badly) \in ActQueues
<1>1. ASSUME NEW n \in Acts!Presses
      PROVE  Acts!Finished(ids, badly)[n] \in [remaining : Int, succeeded : Nat, failed : Nat, told : BOOLEAN]
  <2> DEFINE mine == {i \in ids : i[1] = n}
  <2>1. /\ Cardinality(mine) \in Nat /\ Cardinality(mine \ badly) \in Nat /\ Cardinality(mine \cap badly) \in Nat
    BY ActFacts
  <2>2. groups[n] \in [remaining : Int, succeeded : Nat, failed : Nat, told : BOOLEAN]
    BY DEF ActTypes
  <2>3. Acts!Finished(ids, badly)[n] =
           IF mine = {} \/ groups[n].told \/ acts[n].auto THEN groups[n]
           ELSE [remaining |-> groups[n].remaining - Cardinality(mine),
                 succeeded |-> groups[n].succeeded + Cardinality(mine \ badly),
                 failed |-> groups[n].failed + Cardinality(mine \cap badly),
                 told |-> groups[n].remaining = Cardinality(mine)]
    BY FinishedIs
  <2> HIDE DEF mine
  <2>4. /\ groups[n].remaining - Cardinality(mine) \in Int
        /\ groups[n].succeeded + Cardinality(mine \ badly) \in Nat
        /\ groups[n].failed + Cardinality(mine \cap badly) \in Nat
    BY <2>1, <2>2
  <2> QED BY <2>2, <2>3, <2>4
<1>2. Acts!Finished(ids, badly) = [n \in Acts!Presses |-> Acts!Finished(ids, badly)[n]]
  BY DEF Acts!Finished
<1> QED BY <1>1, <1>2 DEF ActQueues

\* What has ended is told of its press, once.
LEMMA FinishedCounts ==
  ASSUME Acts!ActionsAssumption, ActTypes, ActTypes', InOrder, Counted, UNCHANGED <<acts, command>>,
         NEW ids \in SUBSET Waiting, NEW badly, groups' = Acts!Finished(ids, badly), Waiting' = Waiting \ ids,
         reconciled \subseteq reconciled', ids \ badly \subseteq reconciled' \ reconciled,
         \A i \in ids \ badly : command[i].status = "succeeded"
  PROVE  Counted'
<1> SUFFICES ASSUME NEW n \in DOMAIN acts, ~acts[n].auto
             PROVE  /\ groups'[n].remaining = Cardinality(Under(n)')
                    /\ groups'[n].told <=> Under(n)' = {}
                    /\ groups'[n].succeeded <= Cardinality(Succeeded(n)')
  BY DEF Counted
<1> DEFINE mine == {i \in ids : i[1] = n}
           well == mine \ badly
<1>1. /\ groups[n].remaining = Cardinality(Under(n))
      /\ groups[n].told <=> Under(n) = {}
      /\ groups[n].succeeded <= Cardinality(Succeeded(n))
  BY DEF Counted
<1>2. n \in Acts!Presses /\ groups[n].succeeded \in Nat
  <2>1. n \in Acts!Presses
    BY PressesAre
  <2> QED BY <2>1 DEF ActTypes
<1>3. groups'[n] =
           IF mine = {} \/ groups[n].told \/ acts[n].auto THEN groups[n]
           ELSE [remaining |-> groups[n].remaining - Cardinality(mine),
                 succeeded |-> groups[n].succeeded + Cardinality(mine \ badly),
                 failed |-> groups[n].failed + Cardinality(mine \cap badly),
                 told |-> groups[n].remaining = Cardinality(mine)]
  BY <1>2, FinishedIs
<1>4. /\ mine \subseteq Under(n) /\ Under(n) \subseteq Acts!Ids /\ Under(n)' = Under(n) \ mine
  <2>1. Under(n) = {i \in Waiting : i[1] = n} /\ Under(n)' = {i \in Waiting' : i[1] = n} /\ Waiting \subseteq Acts!Ids
    BY DEF Under, Waiting
  <2> QED BY <2>1
<1>5. /\ Succeeded(n) \cap well = {} /\ Succeeded(n) \cup well \subseteq Succeeded(n)'
      /\ Succeeded(n) \subseteq Acts!Ids /\ Succeeded(n)' \subseteq Acts!Ids /\ well \subseteq Acts!Ids
  <2>1. Succeeded(n) \subseteq reconciled /\ well \subseteq reconciled' \ reconciled /\ reconciled \subseteq Acts!Ids /\ reconciled' \subseteq Acts!Ids
    BY DEF Succeeded, ActTypes
  <2>2. Succeeded(n) \subseteq Succeeded(n)' /\ well \subseteq Succeeded(n)'
    BY <2>1 DEF Succeeded
  <2> QED BY <2>1, <2>2 DEF Succeeded
<1> HIDE DEF mine, well
<1>6. /\ Cardinality(mine) \in Nat /\ Cardinality(Under(n)) \in Nat /\ Cardinality(Under(n)') = Cardinality(Under(n)) - Cardinality(mine)
      /\ Cardinality(mine) = Cardinality(Under(n)) => mine = Under(n)
  <2>1. IsFiniteSet(Under(n)) /\ Cardinality(Under(n)) \in Nat /\ IsFiniteSet(mine) /\ Cardinality(mine) \in Nat
    BY <1>4, ActFacts
  <2>2. Under(n) \cap mine = mine
    BY <1>4
  <2>3. Cardinality(Under(n) \ mine) = Cardinality(Under(n)) - Cardinality(mine)
    BY <2>1, <2>2, FS_Difference
  <2>4. Cardinality(mine) = Cardinality(Under(n)) => mine = Under(n)
    BY <1>4, <2>1, FS_Subset
  <2> QED BY <1>4, <2>1, <2>3, <2>4
<1>7. /\ Cardinality(Succeeded(n)) \in Nat /\ Cardinality(Succeeded(n)') \in Nat /\ Cardinality(well) \in Nat
      /\ Cardinality(Succeeded(n)) + Cardinality(well) <= Cardinality(Succeeded(n)')
  <2>1. /\ IsFiniteSet(Succeeded(n)) /\ IsFiniteSet(well) /\ IsFiniteSet(Succeeded(n)')
        /\ Cardinality(Succeeded(n)) \in Nat /\ Cardinality(Succeeded(n)') \in Nat /\ Cardinality(well) \in Nat
    BY <1>5, ActFacts
  <2>2. Cardinality(Succeeded(n) \cup well) = Cardinality(Succeeded(n)) + Cardinality(well) - Cardinality(Succeeded(n) \cap well)
    BY <2>1, FS_Union
  <2>3. Cardinality(Succeeded(n) \cap well) = 0
    BY <1>5, FS_EmptySet
  <2>4. Cardinality(Succeeded(n) \cup well) <= Cardinality(Succeeded(n)')
    BY <1>5, <2>1, FS_Subset
  <2> QED BY <2>1, <2>2, <2>3, <2>4
<1>8. CASE mine = {}
  <2>1. groups'[n] = groups[n] /\ Under(n)' = Under(n)
    BY <1>3, <1>4, <1>8
  <2> QED BY <1>1, <1>2, <1>7, <2>1
<1>9. CASE mine # {}
  <2>1. Under(n) # {} /\ ~groups[n].told
    BY <1>1, <1>4, <1>9
  <2>2. groups'[n] = [remaining |-> groups[n].remaining - Cardinality(mine),
                      succeeded |-> groups[n].succeeded + Cardinality(mine \ badly),
                      failed |-> groups[n].failed + Cardinality(mine \cap badly),
                      told |-> groups[n].remaining = Cardinality(mine)]
    BY <1>3, <1>9, <2>1
  <2>3. /\ groups'[n].remaining = groups[n].remaining - Cardinality(mine)
        /\ groups'[n].succeeded = groups[n].succeeded + Cardinality(well)
    BY <2>2 DEF well
  <2>7. groups'[n].told = (groups[n].remaining = Cardinality(mine))
    BY <2>2
  <2>4. groups'[n].remaining = Cardinality(Under(n)')
    BY <1>1, <1>6, <2>3
  <2>5. groups'[n].told <=> Under(n)' = {}
    BY <1>1, <1>4, <1>6, <2>7
  <2>6. groups'[n].succeeded <= Cardinality(Succeeded(n)')
    BY <1>1, <1>2, <1>7, <2>3
  <2> QED BY <2>4, <2>5, <2>6
<1> QED BY <1>8, <1>9

\* Who stops waiting is no longer kept.
LEMMA FreedIs ==
  ASSUME OneWaits, Acts!KeptWhileUnderWay, NEW ids \in SUBSET Waiting, Waiting' = Waiting \ ids,
         active' = active \ {i[2] : i \in ids}
  PROVE  Acts!KeptWhileUnderWay' /\ \A i, j \in Waiting' : i[2] = j[2] => i = j
<1>1. active = {i[2] : i \in Waiting}
  BY DEF Acts!KeptWhileUnderWay, Waiting
<1>2. active' = {i[2] : i \in Waiting'}
  BY <1>1 DEF OneWaits
<1> QED BY <1>2 DEF Acts!KeptWhileUnderWay, Waiting, OneWaits

\* Steps that leave the tab's requests, commands and groups alone.
Apart == <<acts, active, ask, pending, rendered, reconciled, polls, groups>>

LEMMA ApartKeeps ==
  ASSUME Acts!ActionsAssumption, ActInv, UNCHANGED Apart, seen' \subseteq Placements, remote' \subseteq Placements,
         shown' \subseteq Placements, command' \in [Acts!Ids -> ActCommands], actFaults' \in Nat,
         \A i \in Acts!Ids : command'[i].status # "none" => command[i].status # "none",
         \A i \in Acts!Ids : command[i].status \in {"succeeded", "failed"} => command'[i].status = command[i].status
  PROVE  ActInv'
<1>1. /\ UNCHANGED <<acts, active, ask, pending, rendered, reconciled, polls, groups>>
      /\ command \in [Acts!Ids -> ActCommands] /\ pending \subseteq Acts!Ids /\ reconciled \subseteq Acts!Ids
  BY DEF Apart, ActInv, ActTypes
<1>2. ActTypes'
  BY <1>1 DEF ActInv, ActTypes
<1>3. Waiting' = Waiting /\ (\A n : Under(n)' = Under(n)) /\ \A i : Acts!Waits(i)' <=> Acts!Waits(i)
  BY <1>1, StillWaiting
<1>4. InOrder'
  <2>1. \A i \in Acts!Ids : (Acts!Waits(i) \/ i \in reconciled \/ command[i].status # "none")' => i[1] \in DOMAIN acts
    BY <1>1, <1>3 DEF ActInv, InOrder
  <2> QED BY <1>1, <2>1 DEF ActInv, InOrder
<1>5. OneWaits'
  <2>1. \A i \in Acts!Ids : ask[i] = "asked" => command'[i].status = "none"
    BY <1>1 DEF ActInv, OneWaits
  <2> QED BY <1>1, <1>3, <2>1 DEF ActInv, OneWaits
<1>6. PollsTell'
  <2>1. ASSUME NEW k \in {1, 2}, NEW i \in DOMAIN polls[k].status, polls[k].status[i] \in {"succeeded", "failed"}
        PROVE  command'[i].status = polls[k].status[i]
    <3>1. i \in pending \cup reconciled /\ command[i].status = polls[k].status[i]
      BY <2>1 DEF ActInv, PollsTell
    <3> QED BY <1>1, <2>1, <3>1
  <2> QED BY <1>1, <2>1 DEF ActInv, PollsTell
<1>7. Counted'
  <2>1. \A n : Succeeded(n) \subseteq Succeeded(n)'
    BY <1>1 DEF Succeeded
  <2> QED BY <1>1, <1>2, <1>3, <2>1, StillCounted DEF ActInv
<1>8. Acts!KeptWhileUnderWay'
  BY <1>1, <1>3 DEF ActInv, Acts!KeptWhileUnderWay
<1> QED BY <1>2, <1>4, <1>5, <1>6, <1>7, <1>8 DEF ActInv

LEMMA ActExecuteKeeps == ASSUME Acts!ActionsAssumption, ActInv, NEW id \in Acts!Ids, Acts!Execute(id) PROVE ActInv'
<1>1. /\ UNCHANGED Apart /\ shown' = shown /\ command[id].status = "pending"
      /\ seen \subseteq Placements /\ remote \subseteq Placements /\ shown \subseteq Placements /\ actFaults \in Nat
      /\ command \in [Acts!Ids -> ActCommands]
  BY DEF Acts!Execute, Acts!tab, Apart, ActInv, ActTypes
<1>2. id[2] \in Placements
  BY DEF Acts!Ids
<1>3. PICK s \in {"succeeded", "failed"} : command' = [command EXCEPT ![id].status = s]
  BY DEF Acts!Execute
<1>4. command' \in [Acts!Ids -> ActCommands]
  BY <1>1, <1>3 DEF ActCommands, Acts!Statuses
<1>5. seen' \subseteq Placements /\ remote' \subseteq Placements
  <2>1. /\ remote' = remote \/ remote' = remote \cup {id[2]} \/ remote' = remote \ {id[2]}
        /\ seen' = seen \/ seen' = seen \cup {id[2]} \/ seen' = seen \ {id[2]}
    BY DEF Acts!Execute
  <2> QED BY <1>1, <1>2, <2>1
<1>6. actFaults' \in Nat
  BY <1>1 DEF Acts!Execute, Acts!Fault
<1>7. \A i \in Acts!Ids : command'[i].status # command[i].status => i = id
  BY <1>1, <1>3
<1> QED BY <1>1, <1>4, <1>5, <1>6, <1>7, ApartKeeps

LEMMA ServerKeeps == ASSUME Acts!ActionsAssumption, ActInv, Acts!Delta \/ Acts!Discover PROVE ActInv'
<1>1. /\ UNCHANGED Apart /\ UNCHANGED <<seen, remote, shown, actFaults>>
      /\ seen \subseteq Placements /\ remote \subseteq Placements /\ shown \subseteq Placements /\ actFaults \in Nat
      /\ command \in [Acts!Ids -> ActCommands]
  BY DEF Acts!Delta, Acts!Discover, Acts!tab, Apart, ActInv, ActTypes
<1>2. command' \in [Acts!Ids -> ActCommands] /\ \A i \in Acts!Ids : command'[i].status = command[i].status
  <2>1. CASE Acts!Discover
    BY <1>1, <2>1 DEF Acts!Discover
  <2>2. CASE Acts!Delta
    <3>1. command' = [i \in Acts!Ids |-> [command[i] EXCEPT !.followed = @ \/ command[i].status = "succeeded"]]
      BY <2>2 DEF Acts!Delta
    <3>2. ASSUME NEW i \in Acts!Ids PROVE command'[i] \in ActCommands /\ command'[i].status = command[i].status
      <4>1. command[i] \in ActCommands
        BY <1>1
      <4>2. command'[i] = [command[i] EXCEPT !.followed = @ \/ command[i].status = "succeeded"]
        BY <3>1
      <4> QED BY <4>1, <4>2 DEF ActCommands
    <3> QED BY <3>1, <3>2
  <2> QED BY <2>1, <2>2
<1> QED BY <1>1, <1>2, ApartKeeps

\* What the polls of the first page find is of the list.
PageIs == actsPage.seen \subseteq Placements

LEMMA PagesKeep == ASSUME Acts!ActionsAssumption, ActInv, PageIs, Acts!Folder \/ Acts!Page PROVE ActInv'
<1>1. /\ UNCHANGED Apart /\ UNCHANGED <<seen, remote, actFaults, command>> /\ shown' \in {shown, actsPage.seen}
      /\ seen \subseteq Placements /\ remote \subseteq Placements /\ shown \subseteq Placements /\ actFaults \in Nat
      /\ command \in [Acts!Ids -> ActCommands]
  BY DEF Acts!Folder, Acts!Page, Acts!AnswerFolder, Acts!ApplyFolder, Acts!AnswerPage, Acts!ApplyPage, Acts!server,
     Apart, ActInv, ActTypes
<1> QED BY <1>1, ApartKeeps DEF PageIs

\* The buttons.
LEMMA PressKeeps ==
  ASSUME Acts!ActionsAssumption, ActInv, NEW targets \in SUBSET Placements, NEW value \in BOOLEAN, NEW auto \in BOOLEAN,
         Acts!Press(targets, value, auto)
  PROVE  ActInv'
<1>0. PICK n : n = Cardinality(DOMAIN acts) + 1
  OBVIOUS
<1> DEFINE free == {m \in targets \ active : (m \in shown) # value}
           new == {n} \X free
<1>1. /\ n \in Acts!Presses /\ free # {}
      /\ acts' = [k \in DOMAIN acts \cup {n} |-> IF k = n THEN [value |-> value, auto |-> auto] ELSE acts[k]]
      /\ active' = active \cup free
      /\ shown' = IF value THEN shown \cup free ELSE shown \ free
      /\ ask' = [i \in Acts!Ids |-> IF i[1] = n /\ i[2] \in free THEN "asked" ELSE ask[i]]
      /\ groups' = IF auto THEN groups ELSE [groups EXCEPT ![n].remaining = Cardinality(free)]
      /\ UNCHANGED <<seen, remote, command, pending, rendered, reconciled, polls, actFaults>>
  BY <1>0, ActsCount, Zenon DEF Acts!Press, Acts!server
<1>2. free \subseteq Placements /\ free \cap active = {}
  OBVIOUS
<1>3. PICK k \in 0..MaxActs : DOMAIN acts = 1..k /\ Cardinality(DOMAIN acts) = k
  BY PressesAre DEF ActInv
<1>4. n = k + 1 /\ k \in Nat /\ n \notin DOMAIN acts /\ n \in Nat /\ DOMAIN acts' = 1..n /\ DOMAIN acts' = DOMAIN acts \cup {n}
  BY <1>0, <1>1, <1>3
<1> HIDE DEF free
<1>5. \A i \in Acts!Ids : i[1] = n => ~Acts!Waits(i) /\ i \notin reconciled /\ command[i].status = "none" /\ i \notin pending /\ ask[i] = "none"
  BY <1>4 DEF ActInv, InOrder, Acts!Waits
<1>6. new \subseteq Acts!Ids /\ \A i \in Acts!Ids : i \in new <=> i[1] = n /\ i[2] \in free
  BY <1>1, <1>2 DEF Acts!Ids
<1>7. \A i \in Acts!Ids : Acts!Waits(i)' <=> Acts!Waits(i) \/ i \in new
  BY <1>1, <1>6 DEF Acts!Waits
<1>8. Waiting' = Waiting \cup new
  BY <1>6, <1>7 DEF Waiting
<1>9. ActTypes'
  <2>1. seen \subseteq Placements /\ shown' \subseteq Placements /\ active' \subseteq Placements
    BY <1>1, <1>2 DEF ActInv, ActTypes
  <2>2. ask' \in [Acts!Ids -> {"none", "asked", "queued", "refused"}]
    BY <1>1 DEF ActInv, ActTypes
  <2>3. groups' \in [Acts!Presses -> [remaining : Int, succeeded : Nat, failed : Nat, told : BOOLEAN]]
    <3>1. Cardinality(free) \in Int
      BY <1>2, ActFacts, FS_Subset, FS_CardinalityType
    <3>2. groups \in [Acts!Presses -> [remaining : Int, succeeded : Nat, failed : Nat, told : BOOLEAN]]
      BY DEF ActInv, ActTypes
    <3> QED BY <1>1, <3>1, <3>2
  <2> QED BY <1>1, <2>1, <2>2, <2>3 DEF ActInv, ActTypes
<1>10. InOrder'
  <2>1. \E j \in 0..MaxActs : DOMAIN acts' = 1..j
    <3>1. n \in 0..MaxActs
      BY <1>1, <1>4, ActFacts DEF Acts!Presses
    <3> QED BY <1>4, <3>1
  <2>2. ASSUME NEW i \in Acts!Ids, Acts!Waits(i)' \/ i \in reconciled' \/ command'[i].status # "none"
          PROVE i[1] \in DOMAIN acts'
    BY <1>1, <1>4, <1>6, <1>7, <2>2 DEF ActInv, InOrder
  <2>3. \A j \in Acts!Presses \ DOMAIN acts' : groups'[j] = Acts!Untold
    <3>1. \A j \in Acts!Presses \ DOMAIN acts' : j # n /\ groups[j] = Acts!Untold
      BY <1>4 DEF ActInv, InOrder
    <3>2. \A j \in Acts!Presses : j # n => groups'[j] = groups[j]
      BY <1>1 DEF ActInv, ActTypes
    <3> QED BY <3>1, <3>2
  <2> QED BY <2>1, <2>2, <2>3 DEF InOrder
<1>11. OneWaits'
  <2>1. ASSUME NEW i \in Waiting', NEW j \in Waiting', i[2] = j[2] PROVE i = j
    <3>1. \A x \in Waiting : x[2] \in active
      BY DEF ActInv, Acts!KeptWhileUnderWay, Waiting
    <3>2. \A x \in new : x[2] \in free /\ x = <<n, x[2]>>
      OBVIOUS
    <3>3. CASE i \in Waiting /\ j \in Waiting
      BY <2>1, <3>3 DEF ActInv, OneWaits
    <3>4. CASE i \in new /\ j \in new
      BY <2>1, <3>2, <3>4
    <3> HIDE DEF new
    <3> QED BY <1>2, <1>8, <2>1, <3>1, <3>2, <3>3, <3>4
  <2>2. ASSUME NEW i \in Acts!Ids, ask'[i] # "none" PROVE i \notin pending' \cup reconciled'
    <3>1. CASE i \in new
      BY <1>1, <1>5, <1>6, <3>1
    <3>2. CASE i \notin new
      BY <1>1, <1>6, <2>2, <3>2 DEF ActInv, OneWaits
    <3> QED BY <3>1, <3>2
  <2>3. ASSUME NEW i \in Acts!Ids, ask'[i] = "asked" PROVE command'[i].status = "none"
    <3>1. CASE i \in new
      BY <1>1, <1>5, <1>6, <3>1
    <3>2. CASE i \notin new
      BY <1>1, <1>6, <2>3, <3>2 DEF ActInv, OneWaits
    <3> QED BY <3>1, <3>2
  <2> QED BY <1>1, <2>1, <2>2, <2>3 DEF ActInv, OneWaits
<1>12. PollsTell'
  BY <1>1 DEF ActInv, PollsTell
<1>13. Counted'
  <2> SUFFICES ASSUME NEW j \in DOMAIN acts', ~acts'[j].auto
               PROVE  /\ groups'[j].remaining = Cardinality(Under(j)')
                      /\ groups'[j].told <=> Under(j)' = {}
                      /\ groups'[j].succeeded <= Cardinality(Succeeded(j)')
    BY DEF Counted
  <2>1. Under(j)' = {i \in Waiting' : i[1] = j} /\ Under(j) = {i \in Waiting : i[1] = j}
    BY DEF Under, Waiting
  <2>2. Succeeded(j)' = Succeeded(j)
    BY <1>1 DEF Succeeded
  <2>3. CASE j # n
    <3>1. j \in DOMAIN acts /\ acts'[j] = acts[j]
      BY <1>1, <1>4, <2>3
    <3>2. j \in Acts!Presses /\ groups'[j] = groups[j]
      <4>1. j \in Acts!Presses
        BY <3>1, PressesAre DEF ActInv
      <4> QED BY <1>1, <2>3, <4>1 DEF ActInv, ActTypes
    <3>3. Under(j)' = Under(j)
      BY <1>8, <2>1, <2>3
    <3> QED BY <2>2, <3>1, <3>2, <3>3 DEF ActInv, Counted
  <2>4. CASE j = n
    <3>1. ~auto /\ groups' = [groups EXCEPT ![n].remaining = Cardinality(free)]
      <4>1. acts'[n] = [value |-> value, auto |-> auto]
        BY <1>1, <1>4
      <4> QED BY <1>1, <2>4, <4>1
    <3>2. groups[n] = Acts!Untold
      BY <1>1, <1>4 DEF ActInv, InOrder
    <3>3. groups'[n].remaining = Cardinality(free) /\ ~groups'[n].told /\ groups'[n].succeeded = 0
      BY <1>1, <3>1, <3>2 DEF ActInv, ActTypes, Acts!Untold
    <3>4. Under(n)' = new
      <4>1. \A i \in Waiting : i[1] # n
        BY <1>5 DEF Waiting
      <4>2. \A i \in new : i[1] = n
        OBVIOUS
      <4>3. Under(n)' = {i \in Waiting' : i[1] = n}
        BY DEF Under, Waiting
      <4> HIDE DEF new
      <4> QED BY <1>8, <4>1, <4>2, <4>3
    <3>5. Cardinality(new) = Cardinality(free) /\ new # {}
      <4>1. IsFiniteSet(free) /\ Cardinality(free) \in Nat
        BY <1>2, ActFacts, FS_Subset, FS_CardinalityType
      <4>2. IsFiniteSet({n}) /\ Cardinality({n}) = 1
        BY FS_Singleton
      <4>3. Cardinality(new) = Cardinality({n}) * Cardinality(free)
        BY <4>1, <4>2, FS_Product
      <4>4. PICK m \in free : TRUE
        BY <1>1
      <4>5. <<n, m>> \in new
        BY <4>4
      <4> HIDE DEF new
      <4> QED BY <4>1, <4>2, <4>3, <4>5
    <3>6. Cardinality(Succeeded(n)') \in Nat
      <4>1. Succeeded(n)' \subseteq Acts!Ids
        BY <1>9 DEF Succeeded, ActTypes
      <4> QED BY <4>1, ActFacts
    <3> HIDE DEF new
    <3>7. Under(n)' # {} /\ groups'[n].remaining = Cardinality(Under(n)') /\ groups'[n].succeeded <= Cardinality(Succeeded(n)')
      BY <3>3, <3>4, <3>5, <3>6
    <3> QED BY <2>4, <3>3, <3>7
  <2> QED BY <2>3, <2>4
<1>14. Acts!KeptWhileUnderWay'
  <2>1. {i[2] : i \in new} = free
    <3>1. \A m \in free : <<n, m>> \in new
      OBVIOUS
    <3>2. \A i \in new : i[2] \in free
      OBVIOUS
    <3>3. \A m \in free : \E i \in new : i[2] = m
      BY <3>1
    <3> HIDE DEF new
    <3> QED BY <3>2, <3>3
  <2>2. active = {i[2] : i \in Waiting}
    BY DEF ActInv, Acts!KeptWhileUnderWay, Waiting
  <2> HIDE DEF new
  <2>3. active' = {i[2] : i \in Waiting'}
    BY <1>1, <1>8, <2>1, <2>2
  <2> QED BY <2>3 DEF Acts!KeptWhileUnderWay, Waiting
<1> QED BY <1>9, <1>10, <1>11, <1>12, <1>13, <1>14 DEF ActInv

\* The answers to act().
LEMMA CreateKeeps == ASSUME Acts!ActionsAssumption, ActInv, NEW id \in Acts!Ids, Acts!Create(id) PROVE ActInv'
<1>1. /\ ask[id] = "asked" /\ id \notin pending \cup reconciled /\ command[id].status = "none"
      /\ id[1] \in DOMAIN acts /\ id[2] \in Placements
      /\ UNCHANGED <<remote, shown, acts, active, pending, rendered, reconciled, polls, groups>>
      /\ seen \subseteq Placements /\ command \in [Acts!Ids -> ActCommands]
      /\ ask \in [Acts!Ids -> {"none", "asked", "queued", "refused"}] /\ actFaults \in Nat
  <2>1. ask[id] = "asked" /\ UNCHANGED <<remote, shown, acts, active, pending, rendered, reconciled, polls, groups>>
    BY DEF Acts!Create
  <2>2. id \notin pending \cup reconciled /\ command[id].status = "none"
    BY <2>1 DEF ActInv, OneWaits
  <2>3. id[1] \in DOMAIN acts
    BY <2>1 DEF ActInv, InOrder, Acts!Waits
  <2> QED BY <2>1, <2>2, <2>3 DEF ActInv, ActTypes, Acts!Ids
<1>2. /\ ask' \in {[ask EXCEPT ![id] = "queued"], [ask EXCEPT ![id] = "refused"]} /\ actFaults' \in Nat
      /\ seen' \in {seen, seen \cup {id[2]}, seen \ {id[2]}}
      /\ \/ command' = command
         \/ command' = [command EXCEPT ![id].status = "pending", ![id].original = id[2] \in seen]
  BY <1>1 DEF Acts!Create, Acts!Fault
<1>3. /\ command' \in [Acts!Ids -> ActCommands] /\ \A i \in Acts!Ids : i # id => command'[i] = command[i]
  <2>1. CASE command' = command
    BY <1>1, <2>1
  <2>2. CASE command' = [command EXCEPT ![id].status = "pending", ![id].original = id[2] \in seen]
    <3>1. command[id] \in ActCommands /\ (id[2] \in seen) \in BOOLEAN
      BY <1>1
    <3>2. PICK o \in BOOLEAN : o = (id[2] \in seen)
      BY <3>1
    <3>3. [command[id] EXCEPT !.status = "pending", !.original = o] \in ActCommands
      BY <3>1 DEF ActCommands, Acts!Statuses
    <3>4. command' = [command EXCEPT ![id] = [command[id] EXCEPT !.status = "pending", !.original = o]]
      BY <1>1, <2>2, <3>2
    <3> QED BY <1>1, <3>3, <3>4
  <2> QED BY <1>2, <2>1, <2>2
<1>4. /\ ask' \in [Acts!Ids -> {"none", "asked", "queued", "refused"}] /\ ask'[id] \in {"queued", "refused"}
      /\ \A i \in Acts!Ids : i # id => ask'[i] = ask[i]
  BY <1>1, <1>2
<1>5. \A i \in Acts!Ids : Acts!Waits(i)' <=> Acts!Waits(i)
  BY <1>1, <1>4 DEF Acts!Waits
<1>6. Waiting' = Waiting /\ \A n : Under(n)' = Under(n)
  BY <1>5 DEF Waiting, Under
<1>7. ActTypes'
  <2>1. seen' \subseteq Placements
    BY <1>1, <1>2
  <2> QED BY <1>1, <1>2, <1>3, <1>4, <2>1 DEF ActInv, ActTypes
<1>8. InOrder'
  <2>1. ASSUME NEW i \in Acts!Ids, Acts!Waits(i)' \/ i \in reconciled' \/ command'[i].status # "none"
          PROVE i[1] \in DOMAIN acts'
    BY <1>1, <1>3, <1>5, <2>1 DEF ActInv, InOrder
  <2> QED BY <1>1, <2>1 DEF ActInv, InOrder
<1>9. OneWaits'
  <2>1. \A i \in Acts!Ids : ask'[i] # "none" => i \notin pending' \cup reconciled'
    BY <1>1, <1>4 DEF ActInv, OneWaits
  <2>2. \A i \in Acts!Ids : ask'[i] = "asked" => command'[i].status = "none"
    BY <1>3, <1>4 DEF ActInv, OneWaits
  <2> QED BY <1>1, <1>6, <2>1, <2>2 DEF ActInv, OneWaits
<1>10. PollsTell'
  <2>1. ASSUME NEW k \in {1, 2}, NEW i \in DOMAIN polls[k].status, polls[k].status[i] \in {"succeeded", "failed"}
        PROVE  command'[i].status = polls[k].status[i]
    <3>1. i \in pending \cup reconciled /\ command[i].status = polls[k].status[i]
      BY <2>1 DEF ActInv, PollsTell
    <3>2. i \in Acts!Ids /\ i # id
      BY <1>1, <3>1 DEF ActInv, ActTypes
    <3> QED BY <1>3, <3>1, <3>2
  <2> QED BY <1>1, <2>1 DEF ActInv, PollsTell
<1>11. Counted'
  <2>1. \A i \in reconciled : command'[i] = command[i]
    BY <1>1, <1>3 DEF ActInv, ActTypes
  <2>2. \A n : Succeeded(n) \subseteq Succeeded(n)'
    BY <1>1, <2>1 DEF Succeeded
  <2> QED BY <1>1, <1>6, <1>7, <2>2, StillCounted DEF ActInv
<1>12. Acts!KeptWhileUnderWay'
  BY <1>1, <1>6 DEF ActInv, Acts!KeptWhileUnderWay, Waiting
<1> QED BY <1>7, <1>8, <1>9, <1>10, <1>11, <1>12 DEF ActInv

LEMMA QueuedKeeps == ASSUME Acts!ActionsAssumption, ActInv, NEW id \in Acts!Ids, Acts!Queued(id) PROVE ActInv'
<1>1. /\ ask[id] = "queued" /\ ask' = [ask EXCEPT ![id] = "none"] /\ pending' = pending \cup {id}
      /\ UNCHANGED <<seen, remote, command, shown, acts, active, rendered, reconciled, polls, groups, actFaults>>
      /\ ask \in [Acts!Ids -> {"none", "asked", "queued", "refused"}]
  BY DEF Acts!Queued, Acts!server, ActInv, ActTypes
<1>2. id \notin reconciled
  BY <1>1 DEF ActInv, OneWaits
<1>3. /\ ask' \in [Acts!Ids -> {"none", "asked", "queued", "refused"}] /\ ask'[id] = "none"
      /\ \A i \in Acts!Ids : i # id => ask'[i] = ask[i]
  BY <1>1
<1>4. \A i \in Acts!Ids : Acts!Waits(i)' <=> Acts!Waits(i)
  BY <1>1, <1>3 DEF Acts!Waits
<1>5. Waiting' = Waiting /\ \A n : Under(n)' = Under(n)
  BY <1>4 DEF Waiting, Under
<1>6. ActTypes'
  BY <1>1, <1>3 DEF ActInv, ActTypes
<1>7. InOrder'
  <2>1. ASSUME NEW i \in Acts!Ids, Acts!Waits(i)' \/ i \in reconciled' \/ command'[i].status # "none"
          PROVE i[1] \in DOMAIN acts'
    BY <1>1, <1>4, <2>1 DEF ActInv, InOrder
  <2> QED BY <1>1, <2>1 DEF ActInv, InOrder
<1>8. OneWaits'
  <2>1. \A i \in Acts!Ids : ask'[i] # "none" => i \notin pending' \cup reconciled'
    BY <1>1, <1>3 DEF ActInv, OneWaits
  <2>2. \A i \in Acts!Ids : ask'[i] = "asked" => command'[i].status = "none"
    BY <1>1, <1>3 DEF ActInv, OneWaits
  <2> QED BY <1>1, <1>2, <1>5, <2>1, <2>2 DEF ActInv, OneWaits
<1>9. PollsTell'
  BY <1>1 DEF ActInv, PollsTell
<1>10. Counted'
  <2>1. \A n : Succeeded(n) \subseteq Succeeded(n)'
    BY <1>1 DEF Succeeded
  <2> QED BY <1>1, <1>5, <1>6, <2>1, StillCounted DEF ActInv
<1>11. Acts!KeptWhileUnderWay'
  BY <1>1, <1>5 DEF ActInv, Acts!KeptWhileUnderWay, Waiting
<1> QED BY <1>6, <1>7, <1>8, <1>9, <1>10, <1>11 DEF ActInv

LEMMA ActRefusedKeeps == ASSUME Acts!ActionsAssumption, ActInv, NEW id \in Acts!Ids, Acts!Refused(id) PROVE ActInv'
<1>1. /\ ask[id] = "refused" /\ ask' = [ask EXCEPT ![id] = "none"] /\ active' = active \ {id[2]}
      /\ groups' = Acts!Finished({id}, {id})
      /\ shown' \in {shown \ {id[2]}, shown \cup {id[2]}}
      /\ UNCHANGED <<seen, remote, command, acts, pending, rendered, reconciled, polls, actFaults>>
      /\ ask \in [Acts!Ids -> {"none", "asked", "queued", "refused"}]
  BY DEF Acts!Refused, Acts!server, ActInv, ActTypes
<1>2. id \notin pending \cup reconciled /\ id[2] \in Placements /\ {id} \subseteq Waiting
  BY <1>1 DEF ActInv, OneWaits, Acts!Ids, Waiting, Acts!Waits
<1>3. /\ ask' \in [Acts!Ids -> {"none", "asked", "queued", "refused"}] /\ ask'[id] = "none"
      /\ \A i \in Acts!Ids : i # id => ask'[i] = ask[i]
  BY <1>1
<1>4. \A i \in Acts!Ids : Acts!Waits(i)' <=> Acts!Waits(i) /\ i # id
  BY <1>1, <1>2, <1>3 DEF Acts!Waits
<1>5. Waiting' = Waiting \ {id}
  BY <1>4 DEF Waiting
<1>6. ActTypes'
  <2>1. groups' \in ActQueues
    BY <1>1, FinishedType DEF ActInv
  <2>2. shown' \subseteq Placements
    BY <1>1, <1>2 DEF ActInv, ActTypes
  <2> QED BY <1>1, <1>3, <2>1, <2>2 DEF ActInv, ActTypes, ActQueues
<1>7. InOrder'
  <2>1. ASSUME NEW i \in Acts!Ids, Acts!Waits(i)' \/ i \in reconciled' \/ command'[i].status # "none"
          PROVE i[1] \in DOMAIN acts'
    BY <1>1, <1>4, <2>1 DEF ActInv, InOrder
  <2>2. ASSUME NEW n \in Acts!Presses, n \notin DOMAIN acts' PROVE groups'[n] = Acts!Untold
    <3>1. {i \in {id} : i[1] = n} = {}
      BY <1>1, <1>2, <2>2 DEF ActInv, InOrder, Waiting
    <3>2. Acts!Finished({id}, {id})[n] = groups[n]
      BY <2>2, <3>1 DEF Acts!Finished
    <3> QED BY <1>1, <2>2, <3>2 DEF ActInv, InOrder
  <2> QED BY <1>1, <2>1, <2>2 DEF ActInv, InOrder
<1>8. Acts!KeptWhileUnderWay' /\ \A i, j \in Waiting' : i[2] = j[2] => i = j
  <2>1. active' = active \ {i[2] : i \in {id}}
    BY <1>1
  <2> QED BY <1>2, <1>5, <2>1, FreedIs DEF ActInv
<1>9. OneWaits'
  <2>1. \A i \in Acts!Ids : ask'[i] # "none" => i \notin pending' \cup reconciled'
    BY <1>1, <1>3 DEF ActInv, OneWaits
  <2>2. \A i \in Acts!Ids : ask'[i] = "asked" => command'[i].status = "none"
    BY <1>1, <1>3 DEF ActInv, OneWaits
  <2> QED BY <1>1, <1>8, <2>1, <2>2 DEF ActInv, OneWaits
<1>10. PollsTell'
  BY <1>1 DEF ActInv, PollsTell
<1>11. Counted'
  BY <1>1, <1>2, <1>5, <1>6, FinishedCounts DEF ActInv
<1> QED BY <1>6, <1>7, <1>8, <1>9, <1>10, <1>11 DEF ActInv

\* The polls of the commands.
LEMMA RenderKeeps == ASSUME Acts!ActionsAssumption, ActInv, Acts!Render PROVE ActInv'
<1>1. /\ rendered' = pending /\ polls' = [k \in {1, 2} |-> Acts!NoPoll]
      /\ UNCHANGED <<seen, remote, command, shown, acts, active, ask, pending, reconciled, groups, actFaults>>
  BY DEF Acts!Render, Acts!server
<1>2. Waiting' = Waiting /\ (\A n : Under(n)' = Under(n)) /\ \A i : Acts!Waits(i)' <=> Acts!Waits(i)
  BY <1>1, StillWaiting
<1>3. ActTypes'
  BY <1>1 DEF ActInv, ActTypes
<1>4. InOrder'
  <2>1. \A i \in Acts!Ids : (Acts!Waits(i) \/ i \in reconciled \/ command[i].status # "none")' => i[1] \in DOMAIN acts
    BY <1>1, <1>2 DEF ActInv, InOrder
  <2> QED BY <1>1, <2>1 DEF ActInv, InOrder
<1>5. OneWaits'
  BY <1>1, <1>2 DEF ActInv, OneWaits
<1>6. PollsTell'
  <2>1. \A k \in {1, 2} : DOMAIN polls'[k].status = {}
    BY <1>1 DEF Acts!NoPoll
  <2> QED BY <1>1, <2>1 DEF PollsTell
<1>7. Counted'
  <2>1. \A n : Succeeded(n) \subseteq Succeeded(n)'
    BY <1>1 DEF Succeeded
  <2> QED BY <1>1, <1>2, <1>3, <2>1, StillCounted DEF ActInv
<1>8. Acts!KeptWhileUnderWay'
  BY <1>1, <1>2 DEF ActInv, Acts!KeptWhileUnderWay, Waiting
<1> QED BY <1>3, <1>4, <1>5, <1>6, <1>7, <1>8 DEF ActInv

\* DOMAIN polls is {1, 2}.
PollsAre == DOMAIN polls = {1, 2}

LEMMA AnswerStatusKeeps == ASSUME Acts!ActionsAssumption, ActInv, PollsAre, NEW k \in {1, 2}, Acts!AnswerStatus(k)
  PROVE ActInv'
<1>1. /\ polls' = [polls EXCEPT ![k] = [pc |-> "answered", status |-> [i \in rendered |-> command[i].status]]]
      /\ UNCHANGED <<seen, remote, command, shown, acts, active, ask, pending, rendered, reconciled, groups, actFaults>>
  BY DEF Acts!AnswerStatus, Acts!server
<1>2. Waiting' = Waiting /\ (\A n : Under(n)' = Under(n)) /\ \A i : Acts!Waits(i)' <=> Acts!Waits(i)
  BY <1>1, StillWaiting
<1>3. ActTypes'
  BY <1>1 DEF ActInv, ActTypes
<1>4. InOrder'
  <2>1. \A i \in Acts!Ids : (Acts!Waits(i) \/ i \in reconciled \/ command[i].status # "none")' => i[1] \in DOMAIN acts
    BY <1>1, <1>2 DEF ActInv, InOrder
  <2> QED BY <1>1, <2>1 DEF ActInv, InOrder
<1>5. OneWaits'
  BY <1>1, <1>2 DEF ActInv, OneWaits
<1>6. PollsTell'
  <2>1. ASSUME NEW l \in {1, 2}, NEW i \in DOMAIN polls'[l].status
        PROVE  /\ i \in pending \cup reconciled
               /\ polls'[l].status[i] \in {"succeeded", "failed"} => command[i].status = polls'[l].status[i]
    <3>1. CASE l = k
      <4>1. polls'[l].status = [j \in rendered |-> command[j].status]
        BY <1>1, <3>1 DEF PollsAre
      <4>2. i \in rendered /\ polls'[l].status[i] = command[i].status
        BY <2>1, <4>1
      <4> QED BY <4>2 DEF ActInv, PollsTell
    <3>2. CASE l # k
      <4>1. polls'[l] = polls[l]
        BY <1>1, <3>2 DEF PollsAre
      <4> QED BY <2>1, <4>1 DEF ActInv, PollsTell
    <3> QED BY <3>1, <3>2
  <2> QED BY <1>1, <2>1 DEF ActInv, PollsTell
<1>7. Counted'
  <2>1. \A n : Succeeded(n) \subseteq Succeeded(n)'
    BY <1>1 DEF Succeeded
  <2> QED BY <1>1, <1>2, <1>3, <2>1, StillCounted DEF ActInv
<1>8. Acts!KeptWhileUnderWay'
  BY <1>1, <1>2 DEF ActInv, Acts!KeptWhileUnderWay, Waiting
<1> QED BY <1>3, <1>4, <1>5, <1>6, <1>7, <1>8 DEF ActInv

LEMMA ReconcileKeeps == ASSUME Acts!ActionsAssumption, ActInv, PollsAre, NEW k \in {1, 2}, Acts!Reconcile(k) PROVE ActInv'
<1>0. PICK ended, badly : ended = Acts!Ended(polls[k].status) /\ badly = {i \in ended : polls[k].status[i] = "failed"}
  OBVIOUS
<1>1. /\ polls' = [polls EXCEPT ![k] = Acts!NoPoll] /\ reconciled' = reconciled \cup ended
      /\ active' = active \ {i[2] : i \in ended} /\ groups' = Acts!Finished(ended, badly) /\ pending' = pending \ ended
      /\ shown' = (shown \ {i[2] : i \in {x \in badly : Acts!Value(x)}}) \cup {i[2] : i \in {x \in badly : ~Acts!Value(x)}}
      /\ UNCHANGED <<seen, remote, command, acts, ask, rendered, actFaults>>
  BY <1>0, Zenon DEF Acts!Reconcile, Acts!Freed, Acts!server
<1>2. /\ ended \subseteq pending /\ pending \subseteq Acts!Ids /\ badly \subseteq ended
      /\ \A i \in ended : i \notin reconciled /\ command[i].status \in {"succeeded", "failed"}
      /\ \A i \in ended \ badly : command[i].status = "succeeded"
  <2>1. \A i \in ended : i \in DOMAIN polls[k].status /\ i \notin reconciled /\ polls[k].status[i] \in {"succeeded", "failed"}
    BY <1>0 DEF Acts!Ended
  <2>2. \A i \in DOMAIN polls[k].status :
          /\ i \in pending \cup reconciled
          /\ polls[k].status[i] \in {"succeeded", "failed"} => command[i].status = polls[k].status[i]
    BY DEF ActInv, PollsTell
  <2>3. pending \subseteq Acts!Ids
    BY DEF ActInv, ActTypes
  <2> QED BY <1>0, <2>1, <2>2, <2>3
<1>3. \A i \in Acts!Ids : Acts!Waits(i)' <=> Acts!Waits(i) /\ i \notin ended
  <2>1. \A i \in ended : ask[i] = "none"
    BY <1>2 DEF ActInv, OneWaits
  <2> QED BY <1>1, <2>1 DEF Acts!Waits
<1>4. Waiting' = Waiting \ ended /\ ended \subseteq Waiting /\ ended \subseteq Acts!Ids
  <2>1. ended \subseteq Waiting
    BY <1>2 DEF Waiting, Acts!Waits
  <2> QED BY <1>2, <1>3, <2>1 DEF Waiting
<1>5. ActTypes'
  <2>1. groups' \in ActQueues
    BY <1>1, <1>4, FinishedType DEF ActInv
  <2>2. shown' \subseteq Placements
    <3>1. \A i \in badly : i[2] \in Placements
      BY <1>2 DEF Acts!Ids
    <3> QED BY <1>1, <3>1 DEF ActInv, ActTypes
  <2>3. reconciled' \subseteq Acts!Ids /\ pending' \subseteq Acts!Ids /\ active' \subseteq Placements
    BY <1>1, <1>4 DEF ActInv, ActTypes
  <2> QED BY <1>1, <2>1, <2>2, <2>3 DEF ActInv, ActTypes, ActQueues
<1>6. InOrder'
  <2>1. ASSUME NEW i \in Acts!Ids, Acts!Waits(i)' \/ i \in reconciled' \/ command'[i].status # "none"
          PROVE i[1] \in DOMAIN acts'
    <3>1. Acts!Waits(i) \/ i \in reconciled \/ command[i].status # "none"
      BY <1>1, <1>2, <1>3, <2>1
    <3> QED BY <1>1, <3>1 DEF ActInv, InOrder
  <2>2. ASSUME NEW n \in Acts!Presses, n \notin DOMAIN acts' PROVE groups'[n] = Acts!Untold
    <3>1. {i \in ended : i[1] = n} = {}
      BY <1>1, <1>4, <2>2 DEF ActInv, InOrder, Waiting
    <3>2. Acts!Finished(ended, badly)[n] = groups[n]
      BY <2>2, <3>1 DEF Acts!Finished
    <3> QED BY <1>1, <2>2, <3>2 DEF ActInv, InOrder
  <2> QED BY <1>1, <2>1, <2>2 DEF ActInv, InOrder
<1>7. Acts!KeptWhileUnderWay' /\ \A i, j \in Waiting' : i[2] = j[2] => i = j
  BY <1>1, <1>4, FreedIs DEF ActInv
<1>8. OneWaits'
  <2>1. \A i \in Acts!Ids : ask'[i] # "none" => i \notin pending' \cup reconciled'
    BY <1>1, <1>2 DEF ActInv, OneWaits
  <2>2. pending' \cap reconciled' = {}
    BY <1>1 DEF ActInv, OneWaits
  <2> QED BY <1>1, <1>7, <2>1, <2>2 DEF ActInv, OneWaits
<1>9. PollsTell'
  <2>1. pending' \cup reconciled' = pending \cup reconciled
    BY <1>1, <1>2
  <2>2. ASSUME NEW l \in {1, 2}, NEW i \in DOMAIN polls'[l].status
        PROVE  /\ i \in pending \cup reconciled
               /\ polls'[l].status[i] \in {"succeeded", "failed"} => command[i].status = polls'[l].status[i]
    <3>1. l # k /\ polls'[l] = polls[l]
      BY <1>1, <2>2 DEF PollsAre, Acts!NoPoll
    <3> QED BY <2>2, <3>1 DEF ActInv, PollsTell
  <2> QED BY <1>1, <2>1, <2>2 DEF ActInv, PollsTell
<1>10. Counted'
  BY <1>1, <1>2, <1>4, <1>5, FinishedCounts DEF ActInv
<1> QED BY <1>5, <1>6, <1>7, <1>8, <1>9, <1>10 DEF ActInv

LEMMA ActInitHolds == ASSUME Acts!ActionsAssumption, Acts!Init PROVE ActInv /\ PollsAre /\ PageIs
<1>1. /\ acts = [n \in {} |-> 0] /\ active = {} /\ ask = [i \in Acts!Ids |-> "none"]
      /\ pending = {} /\ rendered = {} /\ reconciled = {} /\ polls = [k \in {1, 2} |-> Acts!NoPoll]
      /\ groups = [n \in Acts!Presses |-> Acts!Untold] /\ seen = {} /\ remote = {} /\ shown = {} /\ actFaults = MaxFaults
      /\ command = [i \in Acts!Ids |-> [status |-> "none", original |-> FALSE, followed |-> FALSE]] /\ actsPage = Acts!NoPage
  BY DEF Acts!Init
<1>2. DOMAIN acts = {} /\ MaxActs \in Nat /\ MaxFaults \in Nat
  BY <1>1, ActFacts
<1>3. Waiting = {} /\ \A i \in Acts!Ids : ~Acts!Waits(i)
  BY <1>1 DEF Waiting, Acts!Waits
<1>4. ActTypes
  <2>1. Acts!Untold \in [remaining : Int, succeeded : Nat, failed : Nat, told : BOOLEAN]
    BY DEF Acts!Untold
  <2>2. [status |-> "none", original |-> FALSE, followed |-> FALSE] \in ActCommands
    BY DEF ActCommands, Acts!Statuses
  <2> QED BY <1>1, <1>2, <2>1, <2>2 DEF ActTypes
<1>5. InOrder
  <2>1. 0 \in 0..MaxActs /\ 1..0 = {}
    BY <1>2
  <2> QED BY <1>1, <1>2, <1>3, <2>1 DEF InOrder
<1>6. OneWaits /\ Counted /\ Acts!KeptWhileUnderWay
  BY <1>1, <1>2, <1>3 DEF OneWaits, Counted, Acts!KeptWhileUnderWay, Waiting
<1>7. PollsTell /\ PollsAre
  <2>1. \A k \in {1, 2} : DOMAIN polls[k].status = {}
    BY <1>1 DEF Acts!NoPoll
  <2> QED BY <1>1, <2>1 DEF PollsTell, PollsAre
<1>8. PageIs
  BY <1>1 DEF PageIs, Acts!NoPage
<1> QED BY <1>4, <1>5, <1>6, <1>7, <1>8 DEF ActInv

LEMMA ShapesKeep == ASSUME ActTypes, PollsAre, PageIs, Acts!Next PROVE PollsAre' /\ PageIs'
<1>1. CASE UNCHANGED <<polls, actsPage>>
  BY <1>1 DEF PollsAre, PageIs
<1>2. CASE Acts!Render
  BY <1>2 DEF Acts!Render, PollsAre, PageIs
<1>3. ASSUME NEW k \in {1, 2}, Acts!Poll(k) PROVE PollsAre' /\ PageIs'
  <2>1. actsPage' \in {Acts!NoPage, actsPage} /\ DOMAIN polls' = DOMAIN polls
    BY <1>3 DEF Acts!Poll, Acts!AnswerStatus, Acts!Reconcile
  <2> QED BY <2>1 DEF PollsAre, PageIs, Acts!NoPage
<1>4. CASE Acts!Page
  <2>1. polls' = polls /\ (actsPage' = Acts!NoPage \/ actsPage' = [pc |-> "answered", seen |-> seen])
    BY <1>4 DEF Acts!Page, Acts!AnswerPage, Acts!ApplyPage
  <2> QED BY <2>1 DEF PollsAre, PageIs, Acts!NoPage, ActTypes
<1>5. CASE Acts!Folder
  BY <1>1, <1>5 DEF Acts!Folder, Acts!AnswerFolder, Acts!ApplyFolder
<1>6. ASSUME NEW targets, NEW value, NEW auto, Acts!Press(targets, value, auto) PROVE UNCHANGED <<polls, actsPage>>
  BY <1>6 DEF Acts!Press
<1>7. CASE (\E targets \in SUBSET Placements, value \in BOOLEAN : Acts!Bulk(targets, value)) \/ (\E m \in Placements : Acts!Automatic(m))
  BY <1>1, <1>6, <1>7 DEF Acts!Bulk, Acts!Automatic
<1>8. ASSUME NEW id, Acts!Answer(id) \/ Acts!Execute(id) PROVE UNCHANGED <<polls, actsPage>>
  BY <1>8 DEF Acts!Answer, Acts!Create, Acts!Queued, Acts!Refused, Acts!Execute, Acts!tab
<1>9. CASE Acts!Delta \/ Acts!Discover
  BY <1>1, <1>9 DEF Acts!Delta, Acts!Discover, Acts!tab
<1> QED BY <1>1, <1>2, <1>3, <1>4, <1>5, <1>7, <1>8, <1>9 DEF Acts!Next

LEMMA ActNextKeeps ==
  ASSUME Acts!ActionsAssumption, ActInv, PollsAre, PageIs, [Acts!Next]_Acts!vars PROVE ActInv' /\ PollsAre' /\ PageIs'
<1>1. CASE UNCHANGED Acts!vars
  <2>1. /\ UNCHANGED <<seen, remote, command, shown, acts, active, ask, pending, rendered, reconciled, polls, groups, actsPage, actFaults>>
    BY <1>1 DEF Acts!vars, Acts!server, Acts!tab
  <2>2. UNCHANGED Apart /\ seen \subseteq Placements /\ remote \subseteq Placements /\ shown \subseteq Placements
        /\ command \in [Acts!Ids -> ActCommands] /\ actFaults \in Nat
    BY <2>1 DEF Apart, ActInv, ActTypes
  <2>3. ActInv'
    BY <2>1, <2>2, ApartKeeps
  <2> QED BY <2>1, <2>3 DEF PollsAre, PageIs
<1>2. CASE Acts!Next
  <2>0. PollsAre' /\ PageIs'
    BY <1>2, ShapesKeep DEF ActInv
  <2>1. CASE \E targets \in SUBSET Placements, value \in BOOLEAN : Acts!Bulk(targets, value)
    BY <2>0, <2>1, PressKeeps DEF Acts!Bulk
  <2>2. CASE \E m \in Placements : Acts!Automatic(m)
    <3>1. PICK m \in Placements : Acts!Press({m}, TRUE, TRUE)
      BY <2>2 DEF Acts!Automatic
    <3>2. {m} \in SUBSET Placements
      OBVIOUS
    <3> QED BY <2>0, <3>1, <3>2, PressKeeps
  <2>3. ASSUME NEW id \in Acts!Ids, Acts!Answer(id) \/ Acts!Execute(id) PROVE ActInv'
    BY <2>3, CreateKeeps, QueuedKeeps, ActRefusedKeeps, ActExecuteKeeps DEF Acts!Answer
  <2>4. ASSUME NEW k \in {1, 2}, Acts!Poll(k) PROVE ActInv'
    BY <2>4, AnswerStatusKeeps, ReconcileKeeps DEF Acts!Poll
  <2>5. CASE Acts!Delta \/ Acts!Discover
    BY <2>0, <2>5, ServerKeeps
  <2>6. CASE Acts!Render
    BY <2>0, <2>6, RenderKeeps
  <2>7. CASE Acts!Folder \/ Acts!Page
    BY <2>0, <2>7, PagesKeep
  <2> QED BY <1>2, <2>0, <2>1, <2>2, <2>3, <2>4, <2>5, <2>6, <2>7 DEF Acts!Next
<1> QED BY <1>1, <1>2

\* The inductive invariant of a tab's actions, for any number of messages, presses,
\* polls and failures.
THEOREM ActionsInvariantHolds == ASSUME Acts!ActionsAssumption PROVE Acts!Spec => [](ActInv /\ PollsAre /\ PageIs)
<1>1. Acts!Init => ActInv /\ PollsAre /\ PageIs
  BY ActInitHolds
<1>2. ActInv /\ PollsAre /\ PageIs /\ [Acts!Next]_Acts!vars => (ActInv /\ PollsAre /\ PageIs)'
  BY ActNextKeeps
<1> QED BY <1>1, <1>2, PTL DEF Acts!Spec

\* A message is kept from other actions exactly while its action is under way, and what
\* the owner is told of a press is what came of each of its messages, once
\* (mail-client.tsx: act, finishFeedback and the poll of the commands).
THEOREM FeedbackIsTrue == ASSUME Acts!ActionsAssumption PROVE Acts!Spec => [](Acts!KeptWhileUnderWay /\ Acts!FeedbackAddsUp)
<1>1. ASSUME ActInv PROVE Acts!KeptWhileUnderWay /\ Acts!FeedbackAddsUp
  <2> SUFFICES ASSUME NEW n \in DOMAIN acts, ~acts[n].auto
               PROVE  /\ groups[n].remaining = Cardinality(Under(n))
                      /\ groups[n].told <=> Under(n) = {}
                      /\ groups[n].succeeded <= Cardinality({id \in Acts!Ids : id[1] = n /\ command[id].status = "succeeded"})
    BY <1>1, ActsCount DEF ActInv, Acts!FeedbackAddsUp, Under
  <2> DEFINE all == {id \in Acts!Ids : id[1] = n /\ command[id].status = "succeeded"}
  <2>1. /\ groups[n].remaining = Cardinality(Under(n))
        /\ groups[n].told <=> Under(n) = {}
        /\ groups[n].succeeded <= Cardinality(Succeeded(n))
    BY <1>1 DEF ActInv, Counted
  <2>2. n \in Acts!Presses
    BY <1>1, PressesAre DEF ActInv
  <2>3. groups[n].succeeded \in Nat
    BY <1>1, <2>2 DEF ActInv, ActTypes
  <2>4. Succeeded(n) \subseteq all /\ all \subseteq Acts!Ids /\ Succeeded(n) \subseteq Acts!Ids
    BY <1>1 DEF ActInv, ActTypes, Succeeded
  <2> HIDE DEF all
  <2>5. /\ Cardinality(Succeeded(n)) <= Cardinality(all)
        /\ Cardinality(Succeeded(n)) \in Nat /\ Cardinality(all) \in Nat
    BY <2>4, ActFacts, FS_Subset
  <2>6. groups[n].succeeded <= Cardinality(all)
    BY <2>1, <2>3, <2>5
  <2> QED BY <2>1, <2>6 DEF all
<1>2. Acts!Spec => [](ActInv /\ PollsAre /\ PageIs)
  BY ActionsInvariantHolds
<1> QED BY <1>1, <1>2, PTL
==============================================================================
