--------------------------- MODULE MessageCommand ---------------------------
(***************************************************************************)
(* Actions on messages (mark, flag, archive, trash):                       *)
(* MessageCommandService (create, run, fail), its queue and poller, the    *)
(* advisory lock of the mailbox that it shares with synchronization, and   *)
(* the delta synchronization as far as it changes the same rows.           *)
(*                                                                         *)
(* One mailbox.  A command changes the local placement at once; the server *)
(* follows when a worker runs it, and a failure takes the change back.     *)
(***************************************************************************)
EXTENDS Integers, FiniteSets

CONSTANTS
  Placements,   \* rows of mailbox_messages, one per remote UID
  Commands,     \* ids of message_commands
  Workers,      \* concurrent job handlers
  None,         \* no thread, command or placement
  Flags,        \* the flags that the actions below set and clear
  MaxAttempts,  \* the literal 3 of run()
  MaxFaults,    \* bound: queue outages, dead threads, failed statements
  MaxLost,      \* bound: lost database sessions
  MaxRemote,    \* bound: changes made by other mail clients
  MaxRestores   \* bound: restores of a backup

ASSUME CommandAssumption ==
  /\ None \notin Workers \cup Commands \cup Placements \cup Flags
  /\ {MaxAttempts, MaxFaults, MaxLost, MaxRemote, MaxRestores} \subseteq Nat

VARIABLES
  cstatus,     \* status; "absent", or "creating" in the transaction of create()
  action,      \* the action of a command
  origin,      \* history: the placement it was made for
  target,      \* placementId; None once the placement is deleted
  original,    \* originalFlags
  attempts,    \* attempts; all counts above MaxAttempts are alike
  here,        \* the placement exists locally
  flags,       \* its flags
  hidden,      \* its actionHidden
  checkpoint,  \* deltaHighestModseq of the mailbox
  noticed,     \* the new UIDVALIDITY of the server is known locally
  ready,       \* account, mailbox and system mailboxes are as commands need them
  rhere, rflags, rmod,  \* the server: the UID exists, its flags, its MODSEQ
  highest,     \* the server: HIGHESTMODSEQ
  renewed,     \* the server: UIDVALIDITY changed
  jobs,        \* commands with a waiting job
  lock,        \* holder of the advisory lock "mailbox-sync:<id>"
  pc, job,     \* what a handler does next, and its command
  seen,        \* the command row as run() read it
  error,       \* what the catch block got
  faults, lost, remote, restores,  \* budgets used
  moves,       \* history: calls of mutateMessage for a MOVE
  applied      \* history: commands whose effect the server took

command == <<cstatus, action, origin, target, original, attempts>>
placement == <<here, flags, hidden>>
mailbox == <<checkpoint, noticed, ready>>
server == <<rhere, rflags, rmod, highest, renewed>>
thread == <<pc, job, seen, error>>
budget == <<faults, lost, remote, restores>>
history == <<moves, applied>>
vars == <<command, placement, mailbox, server, jobs, lock, thread, budget, history>>

Active == {"pending", "executing"}
Settled == {"succeeded", "failed"}
Move == [flag |-> None, add |-> FALSE]   \* archive, trash
Actions == [flag : Flags, add : BOOLEAN] \cup {Move}
PCs == {"idle", "read", "ready", "placement", "start", "mutate", "succeed", "caught", "fail", "release"}
Blank == [status |-> "absent", attempts |-> 0, target |-> None]

SeenRow == [status : {"absent"} \cup Active \cup Settled, attempts : 0..MaxAttempts + 1,
            target : Placements \cup {None}]

CommandType ==
  /\ cstatus \in [Commands -> {"absent", "creating"} \cup Active \cup Settled]
  /\ action \in [Commands -> Actions]
  /\ origin \in [Commands -> Placements \cup {None}]
  /\ target \in [Commands -> Placements \cup {None}]
  /\ original \in [Commands -> SUBSET Flags]
  /\ attempts \in [Commands -> 0..MaxAttempts + 1]
PlacementType ==
  /\ here \in [Placements -> BOOLEAN] /\ hidden \in [Placements -> BOOLEAN]
  /\ flags \in [Placements -> SUBSET Flags]
MailboxType ==
  /\ checkpoint \in Nat /\ noticed \in BOOLEAN /\ ready \in BOOLEAN
ServerType ==
  /\ rhere \in [Placements -> BOOLEAN] /\ rflags \in [Placements -> SUBSET Flags]
  /\ rmod \in [Placements -> Nat] /\ highest \in Nat /\ renewed \in BOOLEAN
ThreadType ==
  /\ jobs \subseteq Commands /\ lock \in Workers \cup {None}
  /\ pc \in [Workers -> PCs] /\ job \in [Workers -> Commands \cup {None}]
  /\ seen \in [Workers -> SeenRow] /\ error \in [Workers -> {"none", "epoch", "other"}]
BudgetType ==
  /\ faults \in 0..MaxFaults /\ lost \in 0..MaxLost
  /\ remote \in 0..MaxRemote /\ restores \in 0..MaxRestores
HistoryType == moves \in [Commands -> Nat] /\ applied \subseteq Commands

\* The foreign key: the target of a command that was inserted exists.
TargetIsHere == \A c \in Commands : cstatus[c] \in Active \cup Settled /\ target[c] # None => here[target[c]]

TypeOK ==
  /\ CommandType /\ PlacementType /\ MailboxType /\ ServerType /\ ThreadType /\ BudgetType /\ HistoryType
  /\ TargetIsHere

Init ==
  /\ cstatus = [c \in Commands |-> "absent"]
  /\ action = [c \in Commands |-> Move]
  /\ origin = [c \in Commands |-> None]
  /\ target = [c \in Commands |-> None]
  /\ original = [c \in Commands |-> {}]
  /\ attempts = [c \in Commands |-> 0]
  /\ here = [p \in Placements |-> TRUE] /\ rhere = here
  /\ flags = [p \in Placements |-> {}] /\ rflags = flags
  /\ hidden = [p \in Placements |-> FALSE]
  /\ checkpoint = 0 /\ highest = 0 /\ rmod = [p \in Placements |-> 0]
  /\ noticed = FALSE /\ renewed = FALSE /\ ready = TRUE
  /\ jobs = {} /\ lock = None
  /\ pc = [w \in Workers |-> "idle"]
  /\ job = [w \in Workers |-> None]
  /\ seen = [w \in Workers |-> Blank]
  /\ error = [w \in Workers |-> "none"]
  /\ faults = 0 /\ lost = 0 /\ remote = 0 /\ restores = 0
  /\ moves = [c \in Commands |-> 0] /\ applied = {}

-----------------------------------------------------------------------------
(* Building blocks.                                                        *)

Fault == faults < MaxFaults /\ faults' = faults + 1 /\ UNCHANGED <<lost, remote, restores>>
Enqueue(c) == \/ jobs' = jobs \cup {c} /\ UNCHANGED budget
              \/ UNCHANGED jobs /\ Fault

\* A handler that throws: pg-boss retries the job, until its retries are used up.
Retry(c) == jobs' = jobs \cup {c} \/ UNCHANGED jobs

Goto(w, l) == pc' = [pc EXCEPT ![w] = l]
Forget(w) ==
  /\ Goto(w, "idle")
  /\ job' = [job EXCEPT ![w] = None]
  /\ seen' = [seen EXCEPT ![w] = Blank]
  /\ error' = [error EXCEPT ![w] = "none"]
Unlocked(w) == IF lock = w THEN None ELSE lock

IsMove(c) == action[c] = Move

\* The flags after an action.
Marked(a, fs) == CASE a = Move -> fs [] a.add -> fs \cup {a.flag} [] OTHER -> fs \ {a.flag}

\* DELETE FROM mailbox_messages: the foreign key of the commands becomes null,
\* and what a transaction of create() has read stays as it is.
Delete(ps) ==
  /\ here' = [p \in Placements |-> here[p] /\ p \notin ps]
  /\ flags' = [p \in Placements |-> IF p \in ps THEN {} ELSE flags[p]]
  /\ hidden' = [p \in Placements |-> hidden[p] /\ p \notin ps]
  /\ target' = [c \in Commands |->
                  IF target[c] \in ps /\ cstatus[c] # "creating" THEN None ELSE target[c]]

-----------------------------------------------------------------------------
(* create(): one transaction, READ COMMITTED, without row locks.           *)

NoneActive(p) == \A c \in Commands : cstatus[c] \in Active => target[c] # p

\* It reads the mailbox, the placement and the commands ...
Check(c) ==
  /\ cstatus[c] = "absent"
  /\ ready /\ ~noticed
  /\ \E p \in Placements, a \in Actions :
       /\ here[p] /\ NoneActive(p) /\ ~hidden[p]
       /\ action' = [action EXCEPT ![c] = a]
       /\ origin' = [origin EXCEPT ![c] = p]
       /\ target' = [target EXCEPT ![c] = p]
       /\ original' = [original EXCEPT ![c] = flags[p]]
  /\ cstatus' = [cstatus EXCEPT ![c] = "creating"]
  /\ UNCHANGED <<attempts, placement, mailbox, server, jobs, lock, thread, budget, history>>

\* The foreign key: a command of a deleted placement is not inserted.
InsertableAlways(c) == TRUE
Insertable(c) == here[target[c]]

\* ... writes the command and the projection, commits, and sends the job.
Insert(c) ==
  /\ cstatus[c] = "creating"
  /\ Insertable(c)
  /\ cstatus' = [cstatus EXCEPT ![c] = "pending"]
  /\ flags' = [flags EXCEPT ![target[c]] = Marked(action[c], original[c])]
  /\ hidden' = [hidden EXCEPT ![target[c]] = IsMove(c)]
  /\ Enqueue(c)
  /\ UNCHANGED <<action, origin, target, original, attempts, here, mailbox, server, lock, thread, history>>

-----------------------------------------------------------------------------
(* The queue: handlers, and the poller.                                    *)

\* pendingIds: pending and executing commands are enqueued again.
Poll(c) ==
  /\ cstatus[c] \in Active
  /\ jobs' = jobs \cup {c}
  /\ UNCHANGED <<command, placement, mailbox, server, lock, thread, budget, history>>

Take(w, c) ==
  /\ pc[w] = "idle" /\ c \in jobs /\ lock = None
  /\ jobs' = jobs \ {c}
  /\ lock' = w
  /\ job' = [job EXCEPT ![w] = c]
  /\ Goto(w, "read")
  /\ UNCHANGED <<command, placement, mailbox, server, seen, error, budget, history>>

\* "Mailbox sync is already running": the handler throws, and its retries may be used up.
Busy(c) ==
  /\ c \in jobs /\ lock # None
  /\ \E w \in Workers : pc[w] = "idle"
  /\ jobs' = jobs \ {c}
  /\ UNCHANGED <<command, placement, mailbox, server, lock, thread, budget, history>>

-----------------------------------------------------------------------------
(* run(id), under the lock.                                                *)

\* A MOVE that was left executing may have been done: it is never repeated.
ReplaysAll(c) == FALSE
Uncertain(c) == IsMove(c) /\ cstatus[c] = "executing"

DoneNever(c) == FALSE
Done(c) == cstatus[c] \in Settled

Read(w) ==
  /\ pc[w] = "read"
  /\ LET c == job[w] IN
       /\ seen' = [seen EXCEPT ![w] = [status |-> cstatus[c], attempts |-> attempts[c], target |-> target[c]]]
       /\ Goto(w, CASE Done(c) -> "release" [] Uncertain(c) -> "fail" [] OTHER -> "ready")
  /\ UNCHANGED <<command, placement, mailbox, server, jobs, lock, job, error, budget, history>>

\* Account, mailbox, UIDVALIDITY, path and the mapped system mailbox.
CheckReady(w) ==
  /\ pc[w] = "ready"
  /\ Goto(w, IF ready /\ ~noticed THEN "placement" ELSE "fail")
  /\ UNCHANGED <<command, placement, mailbox, server, jobs, lock, job, seen, error, budget, history>>

\* WHERE id = placementId ?? "": the empty string is no uuid, the query fails
\* and the handler with it, outside of the try block.
ReadPlacement(w) ==
  /\ pc[w] = "placement"
  /\ IF seen[w].target = None
       THEN /\ Retry(job[w])
            /\ Goto(w, "release")
       ELSE /\ Goto(w, IF here[seen[w].target] THEN "start" ELSE "fail")
            /\ UNCHANGED jobs
  /\ UNCHANGED <<command, placement, mailbox, server, lock, job, seen, error, budget, history>>

\* UPDATE ... SET 'executing', attempts = attempts + 1, whatever the status is.
Start(w) ==
  /\ pc[w] = "start"
  /\ cstatus' = [cstatus EXCEPT ![job[w]] = "executing"]
  /\ attempts' = [attempts EXCEPT ![job[w]] = IF @ > MaxAttempts THEN @ ELSE @ + 1]
  /\ Goto(w, "mutate")
  /\ UNCHANGED <<action, origin, target, original, placement, mailbox, server, jobs, lock, job, seen, error, budget, history>>

\* The server moves the message away, or changes its flags; the MODSEQ grows
\* when they really change.
ChangeFlags(p, fs) ==
  /\ rflags' = [rflags EXCEPT ![p] = fs]
  /\ highest' = IF fs = rflags[p] THEN highest ELSE highest + 1
  /\ rmod' = IF fs = rflags[p] THEN rmod ELSE [rmod EXCEPT ![p] = highest + 1]
Apply(c) ==
  /\ ~renewed /\ rhere[origin[c]]
  /\ IF IsMove(c)
       THEN rhere' = [rhere EXCEPT ![origin[c]] = FALSE] /\ UNCHANGED <<rflags, rmod, highest>>
       ELSE ChangeFlags(origin[c], Marked(action[c], rflags[origin[c]])) /\ UNCHANGED rhere
  /\ applied' = applied \cup {c}
  /\ UNCHANGED renewed

\* mutateMessage is called for c.
Count(c) == moves' = [moves EXCEPT ![c] = IF IsMove(c) THEN @ + 1 ELSE @]

\* source_missing, and a message that keeps changing under its flag action.
AfterRefusalSucceed == "succeed"
AfterRefusal == "fail"

\* mutateMessage: the action applies; it applies, but its answer is lost; it is
\* refused; or nothing happens at all.
Mutate(w) ==
  /\ pc[w] = "mutate"
  /\ Count(job[w])
  /\ \/ /\ Apply(job[w]) /\ Goto(w, "succeed")
        /\ UNCHANGED <<error, remote>>
     \/ /\ Apply(job[w]) /\ Goto(w, "caught")
        /\ error' = [error EXCEPT ![w] = "other"] /\ UNCHANGED remote
     \/ /\ ~renewed /\ ~rhere[origin[job[w]]]
        /\ Goto(w, AfterRefusal)
        /\ UNCHANGED <<server, error, remote, applied>>
     \/ /\ ~renewed /\ rhere[origin[job[w]]] /\ ~IsMove(job[w])
        /\ remote < MaxRemote /\ remote' = remote + 1
        /\ \E fs \in SUBSET Flags \ {rflags[origin[job[w]]]} : ChangeFlags(origin[job[w]], fs)
        /\ Goto(w, AfterRefusal)
        /\ UNCHANGED <<rhere, renewed, error, applied>>
     \/ /\ \E e \in {"epoch", "other"} :
             (e = "epoch" => renewed) /\ error' = [error EXCEPT ![w] = e]
        /\ Goto(w, "caught")
        /\ UNCHANGED <<server, remote, applied>>
  /\ UNCHANGED <<command, placement, mailbox, jobs, lock, job, seen, faults, lost, restores>>

\* One transaction: 'succeeded', and a moved placement is deleted.
Succeed(w) ==
  /\ pc[w] = "succeed"
  /\ cstatus' = [cstatus EXCEPT ![job[w]] = "succeeded"]
  /\ IF IsMove(job[w]) THEN Delete({seen[w].target}) ELSE UNCHANGED <<placement, target>>
  /\ Goto(w, "release")
  /\ UNCHANGED <<action, origin, original, attempts, mailbox, server, jobs, lock, job, seen, error, budget, history>>

\* ... which may fail itself.
SucceedThrows(w) ==
  /\ pc[w] = "succeed"
  /\ Fault
  /\ error' = [error EXCEPT ![w] = "other"]
  /\ Goto(w, "caught")
  /\ UNCHANGED <<command, placement, mailbox, server, jobs, lock, job, seen, history>>

ExhaustedNever(w) == FALSE
Exhausted(w) == seen[w].attempts >= MaxAttempts

Caught(w) ==
  /\ pc[w] = "caught"
  /\ IF cstatus[job[w]] # "succeeded" /\ error[w] # "epoch" /\ ~IsMove(job[w]) /\ ~Exhausted(w)
       THEN Retry(job[w]) /\ Goto(w, "release")
       ELSE UNCHANGED jobs /\ Goto(w, IF cstatus[job[w]] = "succeeded" THEN "release" ELSE "fail")
  /\ UNCHANGED <<command, placement, mailbox, server, lock, job, seen, error, budget, history>>

\* What a failed command leaves of actionHidden.
HiddenStays(p) == hidden[p]
HiddenAfterFailure(p) == FALSE

\* fail(): one transaction: 'failed', and the placement is as it was before.
Fail(w) ==
  /\ pc[w] = "fail"
  /\ LET p == seen[w].target IN
       IF p # None /\ here[p]
         THEN /\ flags' = [flags EXCEPT ![p] = original[job[w]]]
              /\ hidden' = [hidden EXCEPT ![p] = HiddenAfterFailure(p)]
         ELSE UNCHANGED <<flags, hidden>>
  /\ cstatus' = [cstatus EXCEPT ![job[w]] = "failed"]
  /\ Goto(w, "release")
  /\ UNCHANGED <<action, origin, target, original, attempts, here, mailbox, server, jobs, lock, job, seen, error, budget, history>>

Release(w) ==
  /\ pc[w] = "release"
  /\ lock' = Unlocked(w)
  /\ Forget(w)
  /\ UNCHANGED <<command, placement, mailbox, server, jobs, budget, history>>

-----------------------------------------------------------------------------
(* Around the service.                                                     *)

\* A delta synchronization, under the lock of the mailbox: a new UIDVALIDITY
\* drops every placement; otherwise flags that changed since the checkpoint are
\* fetched and placements whose UID is gone are deleted.
Synchronize ==
  /\ lock = None /\ ready
  /\ IF renewed
       THEN Delete(Placements) /\ noticed' = TRUE /\ UNCHANGED checkpoint
       ELSE /\ LET gone == {p \in Placements : ~rhere[p]}
                   changed == {p \in Placements : here[p] /\ rhere[p] /\ rmod[p] > checkpoint}
               IN /\ here' = [p \in Placements |-> here[p] /\ p \notin gone]
                  /\ hidden' = [p \in Placements |-> hidden[p] /\ p \notin gone]
                  /\ flags' = [p \in Placements |-> CASE p \in gone -> {}
                                                      [] p \in changed -> rflags[p]
                                                      [] OTHER -> flags[p]]
                  /\ target' = [c \in Commands |->
                       IF target[c] \in gone /\ cstatus[c] # "creating" THEN None ELSE target[c]]
            /\ checkpoint' = highest
            /\ UNCHANGED noticed
  /\ UNCHANGED <<cstatus, action, origin, original, attempts, ready, server, jobs, lock, thread, budget, history>>

\* Another mail client: it changes flags, moves or deletes a message, or the
\* server starts the mailbox anew.
RemoteChange ==
  /\ remote < MaxRemote /\ remote' = remote + 1
  /\ ~renewed
  /\ \/ \E p \in Placements, fs \in SUBSET Flags :
          rhere[p] /\ fs # rflags[p] /\ ChangeFlags(p, fs) /\ UNCHANGED <<rhere, renewed>>
     \/ \E p \in Placements : /\ rhere[p] /\ rhere' = [rhere EXCEPT ![p] = FALSE]
                              /\ UNCHANGED <<rflags, rmod, highest, renewed>>
     \/ renewed' = TRUE /\ UNCHANGED <<rhere, rflags, rmod, highest>>
  /\ UNCHANGED <<command, placement, mailbox, jobs, lock, thread, faults, lost, restores, history>>

\* An account is disabled or enabled, a mailbox disappears or returns, a system
\* mailbox is mapped anew or back.
ToggleReady ==
  /\ ready' = ~ready
  /\ UNCHANGED <<command, placement, checkpoint, noticed, server, jobs, lock, thread, budget, history>>

\* Maintenance of a restored backup, with nothing running: unfinished commands
\* are failed, and nothing else of them is changed.
Restore ==
  /\ restores < MaxRestores /\ restores' = restores + 1
  /\ \A w \in Workers : pc[w] = "idle"
  /\ \A c \in Commands : cstatus[c] # "creating"
  /\ cstatus' = [c \in Commands |-> IF cstatus[c] \in Active THEN "failed" ELSE cstatus[c]]
  /\ UNCHANGED <<action, origin, target, original, attempts, placement, mailbox, server, jobs, lock, thread, faults, lost, remote, history>>

\* The process dies, or a statement outside of the try block throws.
Abort(w) ==
  /\ pc[w] # "idle"
  /\ Fault
  /\ lock' = Unlocked(w)
  /\ Retry(job[w])
  /\ Forget(w)
  /\ \/ /\ pc[w] = "mutate" /\ Count(job[w])
        /\ Apply(job[w]) \/ UNCHANGED <<server, applied>>
     \/ UNCHANGED <<server, history>>
  /\ UNCHANGED <<command, placement, mailbox>>

\* The session of the lock drops, the thread goes on: its statements use others.
LoseSession(w) ==
  /\ lock = w
  /\ lost < MaxLost /\ lost' = lost + 1
  /\ lock' = None
  /\ UNCHANGED <<command, placement, mailbox, server, jobs, thread, faults, remote, restores, history>>

-----------------------------------------------------------------------------
RunStep(w) ==
  \/ Read(w) \/ CheckReady(w) \/ ReadPlacement(w) \/ Start(w) \/ Mutate(w)
  \/ Succeed(w) \/ SucceedThrows(w) \/ Caught(w) \/ Fail(w) \/ Release(w)

Next ==
  \/ \E c \in Commands : Check(c) \/ Insert(c) \/ Poll(c) \/ Busy(c)
  \/ \E w \in Workers : RunStep(w) \/ Abort(w) \/ LoseSession(w) \/ \E c \in Commands : Take(w, c)
  \/ Synchronize \/ RemoteChange \/ ToggleReady \/ Restore

Spec == Init /\ [][Next]_vars

\* Handlers run to their end; the poller's timer fires; a command that waits
\* while the mailbox is free again and again is taken.
Fairness ==
  /\ \A w \in Workers : WF_vars(RunStep(w))
  /\ \A c \in Commands : WF_vars(c \notin jobs /\ Poll(c)) /\ SF_vars(\E w \in Workers : Take(w, c))

FairSpec == Spec /\ Fairness

-----------------------------------------------------------------------------
(* Properties.                                                             *)

\* A MOVE is tried once: no job, retry, poller or restart tries it again, after
\* the owner was told that its outcome is uncertain or while it is.
MoveOnce == lost = 0 => \A c \in Commands : moves[c] <= 1

\* A command that is reported as succeeded was carried out by the server; that
\* the message is gone proves nothing.
SucceededWasApplied == \A c \in Commands : cstatus[c] = "succeeded" => c \in applied

\* A message is hidden only while a command will show or remove it: otherwise it
\* would be out of the owner's sight for ever, and create() would refuse it.
HiddenHasMove ==
  \A p \in Placements : hidden[p] =>
    \E c \in Commands : target[c] = p /\ IsMove(c) /\ cstatus[c] \in Active
HiddenUntilRestore == restores = 0 => HiddenHasMove

\* What the owner can rely on: a MOVE is tried once, a success is true, and a message
\* out of sight is one that a command has still to show or remove.
HonestCommand == MoveOnce /\ SucceededWasApplied /\ HiddenUntilRestore

\* succeeded and failed are final while the lock holds.
OutcomeIsFinal ==
  [][\A c \in Commands : lost = 0 /\ cstatus[c] \in Settled => cstatus'[c] = cstatus[c]]_vars

\* Every command is settled, as long as its placement exists.
SettlesIfPlaced ==
  \A c \in Commands : cstatus[c] \in Active ~> cstatus[c] \in Settled \/ target[c] = None

\* "A message action is already in progress.": at most one command at a time
\* works on a placement.
OneActive ==
  \A c, d \in Commands :
    cstatus[c] \in Active /\ cstatus[d] \in Active /\ target[c] = target[d] /\ target[c] # None => c = d

\* "Message placement changed before the action ran.": every command is
\* settled, also when its placement was deleted.
CommandSettles == \A c \in Commands : cstatus[c] \in Active ~> cstatus[c] \in Settled

\* "later provider reconciliation": what the next synchronization will not look
\* at again is right, when no command is on its way.
FlagsReconciled ==
  \A p \in Placements :
    here[p] /\ rhere[p] /\ ~renewed /\ rmod[p] <= checkpoint
      /\ (\A c \in Commands : cstatus[c] \in Active \cup {"creating"} => origin[c] # p)
      => flags[p] = rflags[p]
=============================================================================
