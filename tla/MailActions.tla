----------------------------- MODULE MailActions -----------------------------
(***************************************************************************)
(* Marking messages read and unread in a browser tab (mail-client.tsx): the *)
(* row changes at once, a command is queued on the server, commands and     *)
(* folders are polled, and what was shown too early is put right.  Flagging *)
(* differs by the badge alone; the rows of moves are in MailList.           *)
(***************************************************************************)
EXTENDS Naturals, Integers, FiniteSets

CONSTANTS
  Messages,   \* placements of one mailbox, all in the list
  MaxActs,    \* bound: presses of a button, and automatic ones
  MaxFaults   \* bound: requests and commands that fail

ActionsAssumption == IsFiniteSet(Messages) /\ {MaxActs, MaxFaults} \subseteq Nat

VARIABLES
  \* The server.
  seen,       \* \Seen in mailbox_messages.flags
  remote,     \* \Seen on the IMAP server
  command,    \* message_commands: status, originalFlags, and whether a delta run has followed
  unseen,     \* mailboxes.unseen_count
  \* The tab.
  shown,      \* seen of the rows in messages
  acts,       \* the value that each press asks for, and whether it is automatic
  active,     \* activeActions
  ask,        \* the requests of act()
  pending,    \* pendingCommands
  rendered,   \* pendingCommands in the closure of the interval
  reconciled, \* reconciledCommands
  polls,      \* requests of the interval, cancelled ones left out
  groups,     \* feedbackGroups, and when they are told, how many succeeded
  adjust,     \* countAdjustments: the command, and whether completedAt is set
  count,      \* unseenCount of the folder that the tab knows
  folder,     \* the poll of the folders
  page,       \* the poll of the first page
  faults

server == <<seen, remote, command, unseen>>
tab == <<shown, acts, active, ask, pending, rendered, reconciled, polls, groups, adjust, count, folder, page>>
vars == <<server, tab, faults>>

Presses == 1..MaxActs
Ids == Presses \X Messages
Statuses == {"none", "pending", "succeeded", "failed"}
Value(id) == acts[id[1]].value
NoPoll == [pc |-> "none", status |-> [i \in {} |-> "none"]]
NoFolder == [pc |-> "none", unseen |-> 0, followed |-> {}]
NoPage == [pc |-> "none", seen |-> {}]
Untold == [remaining |-> 0, succeeded |-> 0, failed |-> 0, told |-> FALSE]

TypeOK ==
  /\ seen \subseteq Messages /\ remote \subseteq Messages /\ shown \subseteq Messages
  /\ command \in [Ids -> [status : Statuses, original : BOOLEAN, followed : BOOLEAN]] /\ unseen \in 0..Cardinality(Messages)
  /\ DOMAIN acts \subseteq Presses /\ acts \in [DOMAIN acts -> [value : BOOLEAN, auto : BOOLEAN]]
  /\ active \subseteq Messages
  /\ ask \in [Ids -> {"none", "asked", "queued", "refused"}]
  /\ pending \subseteq Ids /\ rendered \subseteq Ids /\ reconciled \subseteq Ids
  /\ DOMAIN polls = {1, 2} /\ \A k \in {1, 2} : polls[k].pc \in {"none", "answered"}
  /\ groups \in [Presses -> [remaining : Int, succeeded : Nat, failed : Nat, told : BOOLEAN]]
  /\ adjust \subseteq [of : Ids, done : BOOLEAN]
  /\ count \in 0..Cardinality(Messages)
  /\ folder.pc \in {"none", "answered"} /\ folder.followed \subseteq Ids
  /\ page.pc \in {"none", "answered"} /\ page.seen \subseteq Messages
  /\ faults \in Nat

Init ==
  /\ seen = {} /\ remote = {} /\ shown = {}
  /\ unseen = Cardinality(Messages) /\ count = unseen
  /\ command = [i \in Ids |-> [status |-> "none", original |-> FALSE, followed |-> FALSE]]
  /\ acts = [n \in {} |-> 0] /\ active = {} /\ ask = [i \in Ids |-> "none"]
  /\ pending = {} /\ rendered = {} /\ reconciled = {} /\ polls = [k \in {1, 2} |-> NoPoll]
  /\ groups = [n \in Presses |-> Untold] /\ adjust = {}
  /\ folder = NoFolder /\ page = NoPage
  /\ faults = MaxFaults

Fault == faults > 0 /\ faults' = faults - 1

-----------------------------------------------------------------------------
(* The buttons, and the timer of automatic reading.                        *)

\* act() for each target: the row, the badge and the lock of the target change
\* before the request is made.
Press(targets, value, auto) ==
  LET n == Cardinality(DOMAIN acts) + 1
      free == {m \in targets \ active : (m \in shown) # value}
  IN /\ n \in Presses /\ free # {}
     /\ acts' = [k \in DOMAIN acts \cup {n} |-> IF k = n THEN [value |-> value, auto |-> auto] ELSE acts[k]]
     /\ active' = active \cup free
     /\ shown' = IF value THEN shown \cup free ELSE shown \ free
     /\ ask' = [i \in Ids |-> IF i[1] = n /\ i[2] \in free THEN "asked" ELSE ask[i]]
     /\ groups' = IF auto THEN groups ELSE [groups EXCEPT ![n].remaining = Cardinality(free)]
     /\ adjust' = adjust \cup {[of |-> <<n, m>>, done |-> FALSE] : m \in free}
     /\ UNCHANGED <<server, pending, rendered, reconciled, polls, count, folder, page, faults>>

\* bulkAct(), or act() for one message; the automatic one has one target and
\* gives no feedback.
Bulk(targets, value) == Press(targets, value, FALSE)
Automatic(m) == Press({m}, TRUE, TRUE)

-----------------------------------------------------------------------------
(* The server.                                                             *)

\* MessageCommandService.create(): the flags of the row change with the command.
\* The tab is told, or takes a lost answer for a failure.
Create(id) ==
  /\ ask[id] = "asked"
  /\ IF \E i \in Ids : i[2] = id[2] /\ command[i].status = "pending"
     THEN UNCHANGED <<seen, command, faults>> /\ ask' = [ask EXCEPT ![id] = "refused"]
     ELSE /\ command' = [command EXCEPT ![id].status = "pending", ![id].original = id[2] \in seen]
          /\ seen' = IF Value(id) THEN seen \cup {id[2]} ELSE seen \ {id[2]}
          /\ \/ ask' = [ask EXCEPT ![id] = "queued"] /\ UNCHANGED faults
             \/ ask' = [ask EXCEPT ![id] = "refused"] /\ Fault
  /\ UNCHANGED <<remote, unseen, shown, acts, active, pending, rendered, reconciled, polls, groups, adjust, count, folder, page>>

\* MessageCommandService.run(), under the lock of the mailbox.
Execute(id) ==
  /\ command[id].status = "pending"
  /\ \/ /\ command' = [command EXCEPT ![id].status = "succeeded"]
        /\ remote' = IF Value(id) THEN remote \cup {id[2]} ELSE remote \ {id[2]}
        /\ UNCHANGED <<seen, faults>>
     \/ /\ command' = [command EXCEPT ![id].status = "failed"]
        /\ seen' = IF command[id].original THEN seen \cup {id[2]} ELSE seen \ {id[2]}
        /\ UNCHANGED remote /\ Fault
  /\ UNCHANGED <<unseen, tab>>

\* DeltaSyncService.run(): the count, and lastSuccessfulAt after completedAt of
\* the commands that have ended.
Delta ==
  /\ unseen' = Cardinality(Messages \ remote)
  /\ command' = [i \in Ids |-> [command[i] EXCEPT !.followed = @ \/ command[i].status = "succeeded"]]
  /\ UNCHANGED <<seen, remote, tab, faults>>

\* Discovery reads the count alone.
Discover ==
  /\ unseen' = Cardinality(Messages \ remote)
  /\ UNCHANGED <<seen, remote, command, tab, faults>>

-----------------------------------------------------------------------------
(* The answer to act().                                                    *)

\* finishFeedback(), of the commands that ended well and badly.
Finished(ids, failed) ==
  [n \in Presses |->
    LET mine == {i \in ids : i[1] = n} IN
    IF mine = {} \/ groups[n].told \/ acts[n].auto THEN groups[n]
    ELSE [remaining |-> groups[n].remaining - Cardinality(mine),
          succeeded |-> groups[n].succeeded + Cardinality(mine \ failed),
          failed |-> groups[n].failed + Cardinality(mine \cap failed),
          told |-> groups[n].remaining = Cardinality(mine)]]

Queued(id) ==
  /\ ask[id] = "queued"
  /\ ask' = [ask EXCEPT ![id] = "none"] /\ pending' = pending \cup {id}
  /\ UNCHANGED <<server, shown, acts, active, rendered, reconciled, polls, groups, adjust, count, folder, page, faults>>

\* Not queued: the row of this message goes back.
Refused(id) ==
  /\ ask[id] = "refused"
  /\ ask' = [ask EXCEPT ![id] = "none"]
  /\ active' = active \ {id[2]}
  /\ groups' = Finished({id}, {id})
  /\ adjust' = {a \in adjust : a.of # id}
  /\ shown' = IF Value(id) THEN shown \ {id[2]} ELSE shown \cup {id[2]}
  /\ UNCHANGED <<server, acts, pending, rendered, reconciled, polls, count, folder, page, faults>>

-----------------------------------------------------------------------------
(* The poll of the commands.                                               *)

\* The effect begins anew after a change of pendingCommands has been rendered.
Render ==
  /\ rendered # pending
  /\ rendered' = pending /\ polls' = [k \in {1, 2} |-> NoPoll]
  /\ UNCHANGED <<server, shown, acts, active, ask, pending, reconciled, groups, adjust, count, folder, page, faults>>

\* The interval does not wait for the answer before it asks again; a request
\* that is not answered yet has no effect.
AnswerStatus(k) ==
  /\ rendered # {} /\ polls[k].pc = "none"
  /\ polls' = [polls EXCEPT ![k] = [pc |-> "answered", status |-> [i \in rendered |-> command[i].status]]]
  /\ UNCHANGED <<server, shown, acts, active, ask, pending, rendered, reconciled, groups, adjust, count, folder, page, faults>>

\* The commands that this answer ends.
EndedAgain(status) == {i \in DOMAIN status : status[i] \in {"succeeded", "failed"}}    \* mutant
Ended(status) == {i \in DOMAIN status : i \notin reconciled /\ status[i] \in {"succeeded", "failed"}}

\* The targets that may be acted on again.
FreedIfDone(ended) == {i[2] : i \in {x \in ended : command[x].status = "succeeded"}}     \* mutant
Freed(ended) == {i[2] : i \in ended}

Reconcile(k) ==
  LET status == polls[k].status
      ended == Ended(status)
      failed == {i \in ended : status[i] = "failed"}
  IN /\ polls[k].pc = "answered" /\ polls' = [polls EXCEPT ![k] = NoPoll]
     /\ reconciled' = reconciled \cup ended
     /\ active' = active \ Freed(ended)
     /\ groups' = Finished(ended, failed)
     /\ adjust' = {[a EXCEPT !.done = @ \/ a.of \in ended] : a \in {b \in adjust : b.of \notin failed}}
     /\ pending' = pending \ ended
     /\ shown' = (shown \ {i[2] : i \in {x \in failed : Value(x)}}) \cup {i[2] : i \in {x \in failed : ~Value(x)}}
     /\ folder' = IF ended \ failed # {} THEN NoFolder ELSE folder
     /\ page' = IF failed # {} THEN NoPage ELSE page
     /\ UNCHANGED <<server, acts, ask, rendered, count, faults>>

-----------------------------------------------------------------------------
(* The polls of the folders and of the first page.                         *)

AnswerFolder ==
  /\ folder.pc = "none"
  /\ folder' = [pc |-> "answered", unseen |-> unseen, followed |-> {a.of : a \in {x \in adjust : command[x.of].followed}}]
  /\ UNCHANGED <<server, shown, acts, active, ask, pending, rendered, reconciled, polls, groups, adjust, count, page, faults>>

\* An adjustment ends when the folder was synchronized after the command.
KeptUntilFailure(a) == TRUE                                       \* mutant
Kept(a) == ~a.done \/ a.of \notin folder.followed

ApplyFolder ==
  /\ folder.pc = "answered"
  /\ count' = folder.unseen
  /\ adjust' = {a \in adjust : Kept(a)}
  /\ folder' = NoFolder
  /\ UNCHANGED <<server, shown, acts, active, ask, pending, rendered, reconciled, polls, groups, page, faults>>

AnswerPage ==
  /\ page.pc = "none" /\ page' = [pc |-> "answered", seen |-> seen]
  /\ UNCHANGED <<server, shown, acts, active, ask, pending, rendered, reconciled, polls, groups, adjust, count, folder, faults>>

ApplyPage ==
  /\ page.pc = "answered" /\ shown' = page.seen /\ page' = NoPage
  /\ UNCHANGED <<server, acts, active, ask, pending, rendered, reconciled, polls, groups, adjust, count, folder, faults>>

Folder == AnswerFolder \/ ApplyFolder
Page == AnswerPage \/ ApplyPage
Answer(id) == Create(id) \/ Queued(id) \/ Refused(id)
Poll(k) == AnswerStatus(k) \/ Reconcile(k)

Next ==
  \/ \E targets \in SUBSET Messages, value \in BOOLEAN : Bulk(targets, value)
  \/ \E m \in Messages : Automatic(m)
  \/ \E id \in Ids : Answer(id) \/ Execute(id)
  \/ \E k \in {1, 2} : Poll(k)
  \/ Delta \/ Discover \/ Render \/ Folder \/ Page

Spec == Init /\ [][Next]_vars

\* The worker and the server work, and the tab is seen.
Fairness ==
  /\ \A id \in Ids : WF_vars(Answer(id)) /\ WF_vars(Execute(id))
  /\ WF_vars(Render) /\ WF_vars(Poll(1)) /\ WF_vars(Folder) /\ WF_vars(Page) /\ WF_vars(Delta)

FairSpec == Spec /\ Fairness

-----------------------------------------------------------------------------
(* Properties.                                                             *)

Waits(id) == ask[id] # "none" \/ (id \in pending)

\* A message is kept from other actions exactly while its action is under way:
\* two polls that overlap free it once, and none is kept for ever.
KeptWhileUnderWay == active = {id[2] : id \in {i \in Ids : Waits(i)}}

\* What the owner is told of a press is what came of each of its messages, once.
FeedbackAddsUp ==
  \A n \in DOMAIN acts : ~acts[n].auto =>
    LET under == {id \in Ids : id[1] = n /\ Waits(id)} IN
    /\ groups[n].remaining = Cardinality(under)
    /\ groups[n].told <=> under = {}
    /\ groups[n].succeeded <= Cardinality({id \in Ids : id[1] = n /\ command[id].status = "succeeded"})

\* When nothing more is done, the badge shows what is unread on the server, with
\* no adjustment left, and the rows show what the server has.
TabFollows == <>[](adjust = {} /\ count = Cardinality(Messages \ remote) /\ shown = seen /\ seen = remote)
=============================================================================
