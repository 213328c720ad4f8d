---------------------------- MODULE MessageReader ----------------------------
(***************************************************************************)
(* The message that is open in a browser tab (mail-client.tsx): its detail  *)
(* is polled until the content is there, a failed download is retried, and  *)
(* an answer to it is prepared on the server, while the owner goes from one *)
(* message to another, in the list or by a desktop notification.           *)
(***************************************************************************)
EXTENDS Naturals

CONSTANTS
  Messages,
  None,
  MaxAttempts,  \* the 60 polls of a preparation
  MaxSelects,   \* bound: messages opened
  MaxFaults     \* bound: downloads and requests that fail

ASSUME ReaderAssumption ==
  /\ None \notin Messages
  /\ MaxAttempts \in Nat \ {0} /\ {MaxSelects, MaxFaults} \subseteq Nat

VARIABLES
  \* The server.
  content,    \* content of the messages: MessageContent says how it moves
  image,      \* the inline images, which an answer quotes
  \* The tab.
  selected,   \* selectedId
  detail,     \* the message that is shown
  loading,    \* loadingDetail
  failed,     \* readerError
  load,       \* load() of the present effect; "cleared" if it is over, and a
              \* notification has cleared what it had brought
  late,       \* a load() whose effect is over: its message and answer
  retry,      \* retryContent()
  prepare,    \* prepare() of the present generation
  preparing,  \* preparingState and prepareLocation: None if not
  overdue,    \* a prepare() of an earlier generation that has its answer
  refused,    \* prepareError
  composing,  \* composing, and prefill: the message it answers
  budget

tab == <<selected, detail, loading, failed, load, late, retry>>
answers == <<prepare, preparing, overdue, refused, composing>>
vars == <<content, image, tab, answers, budget>>

Contents == {"not_fetched", "pending", "ready", "failed"}
NoDetail == [id |-> None, status |-> "pending"]
Idle == [pc |-> "none", status |-> "pending"]
NoRetry == [pc |-> "none", of |-> None]
NoPrepare == [pc |-> "none", answer |-> "pending", attempts |-> 0]
Reading == [open |-> FALSE, of |-> None]

TypeOK ==
  /\ content \in [Messages -> Contents] /\ image \in [Messages -> {"not_fetched", "pending", "done"}]
  /\ selected \in Messages \cup {None}
  /\ detail \in [id : Messages \cup {None}, status : Contents]
  /\ loading \in BOOLEAN /\ failed \in BOOLEAN
  /\ load \in [pc : {"none", "get", "got", "post", "wait", "cleared"}, status : Contents]
  /\ late \in [id : Messages \cup {None}, status : Contents]
  /\ retry \in [pc : {"none", "asked", "queued", "failed"}, of : Messages \cup {None}]
  /\ prepare \in [pc : {"none", "asked", "answered", "wait"}, answer : {"pending", "ready", "error"}, attempts : 0..MaxAttempts]
  /\ preparing \in Messages \cup {None} /\ overdue \in Messages \cup {None}
  /\ refused \in BOOLEAN
  /\ composing \in [open : BOOLEAN, of : Messages \cup {None}]
  /\ budget \in [selects : Nat, faults : Nat]

Init ==
  /\ content \in [Messages -> {"not_fetched", "ready"}]
  /\ image \in [Messages -> {"not_fetched", "done"}]
  /\ selected = None /\ detail = NoDetail /\ loading = FALSE /\ failed = FALSE
  /\ load = Idle /\ late = NoDetail /\ retry = NoRetry
  /\ prepare = NoPrepare /\ preparing = None /\ overdue = None /\ refused = FALSE /\ composing = Reading
  /\ budget = [selects |-> MaxSelects, faults |-> MaxFaults]

Spend(what) == budget[what] > 0 /\ budget' = [budget EXCEPT ![what] = @ - 1]

-----------------------------------------------------------------------------
(* The server.                                                             *)

\* MessageContentService.request()
Requested(m) == IF content[m] \in {"not_fetched", "failed"} THEN [content EXCEPT ![m] = "pending"] ELSE content

\* The worker fetches the content, and the images.
Fetch(m) ==
  /\ \/ /\ content[m] = "pending"
        /\ \/ content' = [content EXCEPT ![m] = "ready"] /\ UNCHANGED budget
           \/ content' = [content EXCEPT ![m] = "failed"] /\ Spend("faults")
        /\ UNCHANGED image
     \/ image[m] = "pending" /\ image' = [image EXCEPT ![m] = "done"] /\ UNCHANGED <<content, budget>>
  /\ UNCHANGED <<tab, answers>>

-----------------------------------------------------------------------------
(* The message that is open.                                               *)

\* An effect that is over has its answer still to come.
Late == IF load.pc = "got" THEN [id |-> selected, status |-> load.status] ELSE late
Begun == [Idle EXCEPT !.pc = "get"]

\* A preparation that is over has its answer still to come.
Overdue == IF prepare.pc = "answered" /\ prepare.answer = "ready" THEN selected ELSE overdue

\* selectMessage(), or navigate() if m is None; the generation moves on.
Select(m) ==
  /\ m # selected /\ Spend("selects")
  /\ selected' = m /\ detail' = NoDetail /\ failed' = FALSE /\ loading' = (m # None)
  /\ load' = (IF m = None THEN Idle ELSE Begun) /\ late' = Late
  /\ prepare' = NoPrepare /\ overdue' = Overdue
  /\ UNCHANGED <<content, image, retry, preparing, refused, composing>>

\* onOpen of a notification: the composer is closed, the pane is cleared, and the
\* message is opened.  The effect does not run again for the one that is open.
Notified(m) ==
  /\ Spend("selects")
  /\ selected' = m /\ detail' = NoDetail /\ failed' = FALSE /\ loading' = TRUE
  /\ composing' = Reading
  /\ \/ /\ m # selected
        /\ load' = Begun /\ late' = Late /\ prepare' = NoPrepare /\ overdue' = Overdue
     \/ /\ m = selected
        /\ load' = IF load.pc = "none" THEN [Idle EXCEPT !.pc = "cleared"] ELSE load
        /\ UNCHANGED <<late, prepare, overdue>>
  /\ UNCHANGED <<content, image, retry, preparing, refused>>

Get ==
  /\ load.pc = "get" /\ load' = [pc |-> "got", status |-> content[selected]]
  /\ UNCHANGED <<content, image, selected, detail, loading, failed, late, retry, answers, budget>>

Got ==
  /\ load.pc = "got"
  /\ detail' = [id |-> selected, status |-> load.status] /\ loading' = FALSE
  /\ load' = CASE load.status = "not_fetched" -> [Idle EXCEPT !.pc = "post"]
               [] load.status = "pending" -> [Idle EXCEPT !.pc = "wait"]
               [] OTHER -> Idle
  /\ UNCHANGED <<content, image, selected, failed, late, retry, answers, budget>>

Post ==
  /\ load.pc = "post"
  /\ content' = Requested(selected) /\ load' = [Idle EXCEPT !.pc = "wait"]
  /\ UNCHANGED <<image, selected, detail, loading, failed, late, retry, answers, budget>>

ScheduleNext ==
  /\ load.pc = "wait" /\ load' = Begun
  /\ UNCHANGED <<content, image, selected, detail, loading, failed, late, retry, answers, budget>>

LoadFails ==
  /\ load.pc \in {"get", "post"} /\ Spend("faults")
  /\ load' = Idle /\ loading' = FALSE /\ failed' = TRUE
  /\ UNCHANGED <<content, image, selected, detail, late, retry, answers>>

\* The answer of an effect that is over: cancelled.
HeededOnce(answer) == [detail EXCEPT !.id = answer.id, !.status = answer.status]    \* mutant
Heeded(answer) == detail

LateAnswer ==
  /\ late.id # None
  /\ detail' = Heeded(late) /\ late' = NoDetail
  /\ UNCHANGED <<content, image, selected, loading, failed, load, retry, answers, budget>>

\* The owner asks for the message again.
RetryMessage ==
  /\ failed /\ selected # None
  /\ failed' = FALSE /\ loading' = TRUE /\ load' = Begun
  /\ UNCHANGED <<content, image, selected, detail, late, retry, answers, budget>>

-----------------------------------------------------------------------------
(* The download is tried again.                                            *)

RetryContent ==
  /\ retry.pc = "none" /\ detail.id # None /\ detail.id = selected /\ detail.status = "failed"
  /\ retry' = [pc |-> "asked", of |-> selected] /\ failed' = FALSE
  /\ UNCHANGED <<content, image, selected, detail, loading, load, late, answers, budget>>

RetryAnswer ==
  /\ retry.pc = "asked"
  /\ \/ content' = Requested(retry.of) /\ retry' = [retry EXCEPT !.pc = "queued"] /\ UNCHANGED budget
     \/ UNCHANGED content /\ retry' = [retry EXCEPT !.pc = "failed"] /\ Spend("faults")
  /\ UNCHANGED <<image, selected, detail, loading, failed, load, late, answers>>

\* The detail that is shown by now is taken for pending, and loaded anew.
ReloadedNever == load                                            \* mutant
Reloaded == Begun
RetryEnds ==
  /\ retry.pc \in {"queued", "failed"} /\ retry' = NoRetry
  /\ IF retry.pc = "queued"
     THEN /\ detail' = IF detail.id # None THEN [detail EXCEPT !.status = "pending"] ELSE detail
          /\ load' = IF selected # None THEN Reloaded ELSE load
          /\ UNCHANGED failed
     ELSE failed' = TRUE /\ UNCHANGED <<detail, load>>
  /\ UNCHANGED <<content, image, selected, loading, late, answers, budget>>

-----------------------------------------------------------------------------
(* An answer is prepared.                                                  *)

\* prepare(): its button is there for a message that is shown.
Prepare ==
  /\ detail.id # None /\ detail.id = selected /\ preparing # selected /\ ~composing.open
  /\ prepare' = [NoPrepare EXCEPT !.pc = "asked"] /\ preparing' = selected /\ refused' = FALSE
  /\ UNCHANGED <<content, image, tab, overdue, composing, budget>>

\* ComposePreparationService.prepare(): what the answer needs is requested.
Prepared ==
  /\ prepare.pc = "asked"
  /\ \/ /\ content[selected] \in {"not_fetched", "pending"}
        /\ content' = Requested(selected) /\ UNCHANGED <<image, budget>>
        /\ prepare' = [prepare EXCEPT !.pc = "answered", !.answer = "pending"]
     \/ /\ content[selected] = "ready" /\ image[selected] # "done"
        /\ image' = [image EXCEPT ![selected] = "pending"] /\ UNCHANGED <<content, budget>>
        /\ prepare' = [prepare EXCEPT !.pc = "answered", !.answer = "pending"]
     \/ /\ content[selected] = "ready" /\ image[selected] = "done"
        /\ UNCHANGED <<content, image, budget>>
        /\ prepare' = [prepare EXCEPT !.pc = "answered", !.answer = "ready"]
     \/ /\ \/ content[selected] = "failed" /\ UNCHANGED budget
           \/ content[selected] # "failed" /\ Spend("faults")
        /\ UNCHANGED <<content, image>>
        /\ prepare' = [prepare EXCEPT !.pc = "answered", !.answer = "error"]
  /\ UNCHANGED <<tab, preparing, overdue, refused, composing>>

PrepareEnds ==
  /\ prepare.pc = "answered"
  /\ \/ /\ prepare.answer = "ready"
        /\ composing' = [open |-> TRUE, of |-> selected]
        /\ prepare' = NoPrepare /\ preparing' = None /\ UNCHANGED refused
     \/ /\ prepare.answer = "pending" /\ prepare.attempts + 1 < MaxAttempts
        /\ prepare' = [prepare EXCEPT !.pc = "wait", !.attempts = @ + 1]
        /\ UNCHANGED <<preparing, refused, composing>>
     \/ /\ prepare.answer = "error" \/ (prepare.answer = "pending" /\ prepare.attempts + 1 = MaxAttempts)
        /\ prepare' = NoPrepare /\ preparing' = None /\ refused' = TRUE
        /\ UNCHANGED composing
  /\ UNCHANGED <<content, image, tab, overdue, budget>>

PrepareAgain ==
  /\ prepare.pc = "wait" /\ prepare' = [prepare EXCEPT !.pc = "asked"]
  /\ UNCHANGED <<content, image, tab, preparing, overdue, refused, composing, budget>>

\* An answer of an earlier generation is not taken.
TakenLate(m) == [open |-> TRUE, of |-> m]                        \* mutant
Taken(m) == composing
OverdueAnswer ==
  /\ overdue # None
  /\ composing' = Taken(overdue) /\ overdue' = None
  /\ UNCHANGED <<content, image, tab, prepare, preparing, refused, budget>>

\* A new message; the generation moves on.
Compose ==
  /\ ~composing.open
  /\ composing' = [open |-> TRUE, of |-> None]
  /\ prepare' = NoPrepare /\ overdue' = Overdue /\ preparing' = None
  /\ UNCHANGED <<content, image, tab, refused, budget>>

Close ==
  /\ composing.open /\ composing' = Reading
  /\ UNCHANGED <<content, image, tab, prepare, preparing, overdue, refused, budget>>

Load == Get \/ Got \/ Post \/ ScheduleNext
Answer == Prepared \/ PrepareEnds \/ PrepareAgain

Next ==
  \/ \E m \in Messages \cup {None} : Select(m)
  \/ \E m \in Messages : Notified(m) \/ Fetch(m)
  \/ Load \/ LoadFails \/ LateAnswer \/ RetryMessage
  \/ RetryContent \/ RetryAnswer \/ RetryEnds
  \/ Prepare \/ Answer \/ OverdueAnswer \/ Compose \/ Close

Spec == Init /\ [][Next]_vars

\* The worker and the server work; the tab is alive.
FairSpec ==
  /\ Spec
  /\ WF_vars(Load) /\ WF_vars(Answer) /\ WF_vars(RetryAnswer \/ RetryEnds)
  /\ \A m \in Messages : WF_vars(Fetch(m))

-----------------------------------------------------------------------------
(* Properties.                                                             *)

\* The pane shows the message that is open, never one opened before whose answer
\* came late.
ShowsSelected == detail.id \in {None, selected}

\* A composer that a preparation opens answers the message that is open then, and
\* does not take the place of another composer.
AnswersSelected ==
  [][composing'.of # composing.of /\ composing'.of # None => composing'.of = selected /\ ~composing.open]_vars

\* A message that stays open is shown with its content, or with a failure and the
\* button to try again; the last retry is heard of.  The exception is a message that
\* was open, and not being loaded, when its notification was clicked.
ReaderSettles ==
  <>[](selected = None \/ failed \/ load.pc = "cleared"
       \/ (detail.id = selected /\ detail.status \in {"ready", "failed"} /\ detail.status = content[selected]))

\* "Preparing message..." is shown while the message is being prepared.
PreparingIsTrue == preparing # None /\ preparing = selected => prepare.pc # "none"
=============================================================================
