------------------------ MODULE MessageCommandProofs ------------------------
(***************************************************************************)
(* A MOVE is tried once, what succeeded was done, and what is hidden has a   *)
(* command that will show or remove it, for any number of commands, workers, *)
(* faults, lost sessions, other clients' changes and restores.  HonestCommand *)
(* is not inductive.  That a MOVE is tried once rests on the lock (Alone) and *)
(* on the row being 'executing' before the server is asked (NotBegun,         *)
(* Untried); what is hidden, on a handler having the present target           *)
(* (SeesTarget).                                                           *)
(*                                                                         *)
(* Of the other jobs about a message: the fetch of its text is somebody's   *)
(* work while it is under way, and fetched text is not taken away; what is   *)
(* under way is in the hands of a job or a handler, or its request is about   *)
(* to make the job.  A request for an attachment undoes nothing a worker has  *)
(* done, since a row is ready exactly while it has a blob; an uploaded file   *)
(* has one taker, since whoever takes it finds it not consumed.             *)
(***************************************************************************)
EXTENDS MessageCommand, FiniteSetTheorems, TLAPS

\* What has a job was inserted, and so was what a handler works on.
Known ==
  /\ \A c \in jobs : cstatus[c] \in Active \cup Settled
  /\ \A w \in Workers : pc[w] # "idle" => job[w] \in Commands /\ cstatus[job[w]] \in Active \cup Settled

\* What was made was made for a placement.
Placed == \A c \in Commands : cstatus[c] # "absent" => origin[c] \in Placements

\* The target a handler has read is the present one, or was deleted.
SeesTarget == \A w \in Workers : pc[w] \notin {"idle", "read"} => target[job[w]] \in {seen[w].target, None}

\* Only what the server did is reported as succeeded.
AppliedFirst == \A w \in Workers : pc[w] = "succeed" => job[w] \in applied

\* The lock, as long as its session lives.
Alone == lost = 0 => \A w \in Workers : pc[w] # "idle" => lock = w

\* Inside of run(), the command is active, and executing once the server was asked.
Inside == PCs \ {"idle", "read", "release"}
Working ==
  lost = 0 => \A w \in Workers :
    /\ pc[w] \in Inside => cstatus[job[w]] \in Active
    /\ pc[w] \in {"mutate", "succeed", "caught"} => cstatus[job[w]] = "executing"

\* A MOVE that is about to begin was not begun before.
NotBegun ==
  lost = 0 => \A w \in Workers :
    pc[w] \in {"ready", "placement", "start"} /\ IsMove(job[w]) => cstatus[job[w]] = "pending"

\* A MOVE was not tried before it is executing, nor when it is about to be tried.
Untried ==
  lost = 0 =>
    /\ \A c \in Commands : cstatus[c] \in {"absent", "creating", "pending"} => moves[c] = 0
    /\ \A w \in Workers : pc[w] = "mutate" /\ IsMove(job[w]) => moves[job[w]] = 0

IInv ==
  /\ TypeOK /\ Known /\ Placed /\ SeesTarget /\ AppliedFirst /\ Alone /\ Working /\ NotBegun /\ Untried
  /\ HonestCommand
LEMMA Numbers ==
  /\ None \notin Workers /\ None \notin Commands /\ None \notin Placements
  /\ MaxAttempts \in Nat /\ MaxFaults \in Nat /\ MaxLost \in Nat /\ MaxRemote \in Nat /\ MaxRestores \in Nat
<1>1. None \notin Workers \cup Commands \cup Placements \cup Flags
  BY CommandAssumption, Zenon DEF CommandAssumption
<1>2. {MaxAttempts, MaxFaults, MaxLost, MaxRemote, MaxRestores} \subseteq Nat
  BY CommandAssumption, Zenon DEF CommandAssumption
<1> QED BY <1>1, <1>2

(* What the building blocks do. *)

LEMMA GotoStep ==
  ASSUME ThreadType, NEW w \in Workers, NEW l \in PCs, Goto(w, l)
  PROVE  pc' \in [Workers -> PCs] /\ pc'[w] = l /\ \A v \in Workers : v # w => pc'[v] = pc[v]
BY DEF ThreadType, Goto

LEMMA BlankType == Blank \in SeenRow
<1>1. 0 \in 0..MaxAttempts + 1
  BY Numbers
<1> QED BY <1>1 DEF Blank, SeenRow

LEMMA ForgetStep ==
  ASSUME ThreadType, NEW w \in Workers, Forget(w), lock' = Unlocked(w), jobs' \subseteq Commands
  PROVE  /\ ThreadType' /\ pc'[w] = "idle"
         /\ \A v \in Workers : v # w => pc'[v] = pc[v] /\ job'[v] = job[v] /\ seen'[v] = seen[v]
         /\ lock' = None \/ (lock' = lock /\ lock # w)
<1>1. "idle" \in PCs
  BY DEF PCs
<1>2. pc' \in [Workers -> PCs] /\ pc'[w] = "idle" /\ \A v \in Workers : v # w => pc'[v] = pc[v]
  BY <1>1, GotoStep DEF Forget
<1>3. /\ job' \in [Workers -> Commands \cup {None}] /\ seen' \in [Workers -> SeenRow]
      /\ error' \in [Workers -> {"none", "epoch", "other"}]
      /\ \A v \in Workers : v # w => job'[v] = job[v] /\ seen'[v] = seen[v]
  BY BlankType DEF Forget, ThreadType
<1>4. lock' \in Workers \cup {None} /\ (lock' = None \/ (lock' = lock /\ lock # w))
  BY DEF Unlocked, ThreadType
<1> QED BY <1>2, <1>3, <1>4 DEF ThreadType

LEMMA FaultStep ==
  ASSUME BudgetType, Fault
  PROVE  BudgetType' /\ lost' = lost /\ restores' = restores
BY Numbers DEF BudgetType, Fault

LEMMA EnqueueStep ==
  ASSUME BudgetType, NEW c, Enqueue(c)
  PROVE  BudgetType' /\ lost' = lost /\ restores' = restores /\ jobs' \subseteq jobs \cup {c}
<1>1. CASE jobs' = jobs \cup {c} /\ UNCHANGED budget
  BY <1>1 DEF budget, BudgetType
<1>2. CASE UNCHANGED jobs /\ Fault
  BY <1>2, FaultStep
<1> QED BY <1>1, <1>2 DEF Enqueue

LEMMA MarkedType ==
  ASSUME NEW a \in Actions, NEW fs \in SUBSET Flags
  PROVE  Marked(a, fs) \in SUBSET Flags
<1>1. CASE a = Move
  BY <1>1 DEF Marked, Move
<1>2. CASE a # Move
  <2>1. a.flag \in Flags
    BY <1>2 DEF Actions
  <2> QED BY <1>2, <2>1 DEF Marked
<1> QED BY <1>1, <1>2

LEMMA ChangeFlagsType ==
  ASSUME ServerType, NEW p, NEW fs \in SUBSET Flags, ChangeFlags(p, fs), UNCHANGED <<rhere, renewed>>
  PROVE  ServerType'
<1> USE DEF ServerType
<1>1. rflags' \in [Placements -> SUBSET Flags]
  BY DEF ChangeFlags
<1>2. highest + 1 \in Nat
  OBVIOUS
<1>3. highest' \in Nat
  BY <1>2 DEF ChangeFlags
<1>4. rmod' \in [Placements -> Nat]
  <2>1. rmod' \in {rmod, [rmod EXCEPT ![p] = highest + 1]}
    BY DEF ChangeFlags
  <2> QED BY <1>2, <2>1
<1> QED BY <1>1, <1>3, <1>4

LEMMA ApplyStep ==
  ASSUME CommandType, ServerType, HistoryType, NEW c \in Commands, origin[c] \in Placements, Apply(c)
  PROVE  ServerType' /\ applied' = applied \cup {c}
<1>1. CASE IsMove(c)
  BY <1>1 DEF Apply, ServerType
<1>2. CASE ~IsMove(c)
  <2>1. action[c] \in Actions /\ rflags[origin[c]] \in SUBSET Flags
    BY DEF CommandType, ServerType
  <2>2. Marked(action[c], rflags[origin[c]]) \in SUBSET Flags
    BY <2>1, MarkedType
  <2>3. ChangeFlags(origin[c], Marked(action[c], rflags[origin[c]])) /\ UNCHANGED <<rhere, renewed>>
    BY <1>2 DEF Apply
  <2> QED BY <2>2, <2>3, ChangeFlagsType DEF Apply
<1> QED BY <1>1, <1>2

LEMMA InitHolds == Init => IInv
<1> SUFFICES ASSUME Init PROVE IInv
  OBVIOUS
<1>1. CommandType
  <2>1. Move \in Actions /\ 0 \in 0..MaxAttempts + 1
    BY Numbers DEF Actions
  <2> QED BY <2>1 DEF Init, CommandType
<1>2. PlacementType /\ MailboxType /\ ServerType
  BY DEF Init, PlacementType, MailboxType, ServerType
<1>3. ThreadType
  BY BlankType DEF Init, ThreadType, PCs
<1>4. BudgetType /\ HistoryType
  BY Numbers DEF Init, BudgetType, HistoryType
<1>5. TargetIsHere /\ Known /\ Placed /\ SeesTarget /\ AppliedFirst /\ Alone /\ Working /\ NotBegun /\ Untried
  BY DEF Init, TargetIsHere, Known, Placed, SeesTarget, AppliedFirst, Alone, Working, NotBegun, Untried, Active,
     Settled, Inside
<1>6. HonestCommand
  BY DEF Init, HonestCommand, MoveOnce, SucceededWasApplied, HiddenUntilRestore, HiddenHasMove
<1> QED BY <1>1, <1>2, <1>3, <1>4, <1>5, <1>6 DEF IInv, TypeOK

(* A handler steps on: only its place changes, and the queue. *)

LEMMA PassKeeps ==
  ASSUME IInv, NEW w \in Workers, NEW l \in PCs \ {"idle", "read", "mutate", "succeed"}, Goto(w, l),
         pc[w] \notin {"idle", "read"},
         l \in Inside => pc[w] \in Inside,
         l \in {"ready", "placement", "start"} => pc[w] \in {"ready", "placement", "start"},
         l = "caught" => pc[w] = "succeed",
         jobs' \subseteq jobs \cup {job[w]},
         error' \in [Workers -> {"none", "epoch", "other"}],
         BudgetType', lost' = lost, restores' = restores,
         UNCHANGED <<command, placement, mailbox, server, lock, job, seen, history>>
  PROVE  IInv'
<1> USE DEF IInv, TypeOK, command, placement, mailbox, server, history
<1>1. pc' \in [Workers -> PCs] /\ pc'[w] = l /\ \A v \in Workers : v # w => pc'[v] = pc[v]
  BY GotoStep
<1>2. job[w] \in Commands /\ cstatus[job[w]] \in Active \cup Settled
  BY DEF Known
<1>3. CommandType' /\ PlacementType' /\ MailboxType' /\ ServerType' /\ HistoryType' /\ TargetIsHere'
  BY DEF CommandType, PlacementType, MailboxType, ServerType, HistoryType, TargetIsHere
<1>4. ThreadType'
  BY <1>1, <1>2 DEF ThreadType
<1>5. Known'
  BY <1>1, <1>2 DEF Known
<1>6. Placed' /\ SeesTarget' /\ AppliedFirst'
  BY <1>1 DEF Placed, SeesTarget, AppliedFirst
<1>7. Alone' /\ Working'
  BY <1>1 DEF Alone, Working
<1>8. NotBegun' /\ Untried'
  BY <1>1 DEF NotBegun, Untried, IsMove
<1>9. HonestCommand'
  BY DEF HonestCommand, MoveOnce, SucceededWasApplied, HiddenUntilRestore, HiddenHasMove, IsMove
<1> QED BY <1>3, <1>4, <1>5, <1>6, <1>7, <1>8, <1>9

\* What the server was asked for, and whether it took it: the history of a MOVE
\* that is tried once more.
Tried(w) ==
  /\ ServerType' /\ applied \subseteq applied' /\ applied' \subseteq Commands
  /\ moves' \in [Commands -> Nat]
  /\ \/ moves' = moves
     \/ /\ pc[w] = "mutate" /\ IsMove(job[w]) /\ moves'[job[w]] = moves[job[w]] + 1
        /\ \A c \in Commands : c # job[w] => moves'[c] = moves[c]

LEMMA CountStep ==
  ASSUME IInv, NEW w \in Workers, pc[w] = "mutate", Count(job[w]),
         ServerType', applied \subseteq applied', applied' \subseteq Commands
  PROVE  Tried(w)
<1>1. job[w] \in Commands /\ moves \in [Commands -> Nat]
  BY DEF IInv, Known, TypeOK, HistoryType
<1>2. CASE IsMove(job[w])
  <2>1. moves' = [moves EXCEPT ![job[w]] = moves[job[w]] + 1]
    BY <1>2 DEF Count
  <2> QED BY <1>1, <1>2, <2>1 DEF Tried
<1>3. CASE ~IsMove(job[w])
  <2>1. moves' = moves
    BY <1>1, <1>3 DEF Count
  <2> QED BY <1>1, <2>1 DEF Tried
<1> QED BY <1>2, <1>3

\* With the lock, one handler works: the others are idle.
LEMMA OthersIdle ==
  ASSUME IInv, lost = 0, NEW w \in Workers, pc[w] # "idle"
  PROVE  lock = w /\ \A v \in Workers : v # w => pc[v] = "idle"
BY DEF IInv, Alone

LEMMA TriedOnce ==
  ASSUME IInv, NEW w \in Workers, Tried(w), cstatus' = cstatus, action' = action, lost' = lost,
         pc'[w] # "mutate", \A v \in Workers : v # w => pc'[v] = pc[v] /\ job'[v] = job[v]
  PROVE  Untried' /\ MoveOnce'
<1> USE DEF IInv
<1>1. CASE lost # 0
  BY <1>1 DEF Untried, MoveOnce
<1>2. CASE lost = 0 /\ moves' = moves
  BY <1>2 DEF Untried, HonestCommand, MoveOnce, IsMove
<1>3. CASE lost = 0 /\ moves' # moves
  <2>1. /\ pc[w] = "mutate" /\ IsMove(job[w]) /\ moves'[job[w]] = moves[job[w]] + 1
        /\ \A c \in Commands : c # job[w] => moves'[c] = moves[c]
    BY <1>3 DEF Tried
  <2>2. moves[job[w]] = 0 /\ cstatus[job[w]] = "executing"
    BY <1>3, <2>1 DEF Untried, Working
  <2>3. \A v \in Workers : v # w => pc'[v] = "idle"
    BY <1>3, <2>1, OthersIdle
  <2> QED BY <1>3, <2>1, <2>2, <2>3 DEF Untried, HonestCommand, MoveOnce
<1> QED BY <1>1, <1>2, <1>3

\* A handler lets go of its command, with its lock if it has it.
LEMMA ForgetKeeps ==
  ASSUME IInv, NEW w \in Workers, pc[w] # "idle", Forget(w), lock' = Unlocked(w),
         jobs' \subseteq jobs \cup {job[w]}, Tried(w),
         BudgetType', lost' = lost, restores' = restores,
         UNCHANGED <<command, placement, mailbox>>
  PROVE  IInv'
<1> USE DEF IInv, TypeOK, command, placement, mailbox
<1>1. job[w] \in Commands /\ cstatus[job[w]] \in Active \cup Settled
  BY DEF Known
<1>2. /\ ThreadType' /\ pc'[w] = "idle"
      /\ \A v \in Workers : v # w => pc'[v] = pc[v] /\ job'[v] = job[v] /\ seen'[v] = seen[v]
      /\ lock' = None \/ (lock' = lock /\ lock # w)
  BY <1>1, ForgetStep DEF ThreadType
<1>3. CommandType' /\ PlacementType' /\ MailboxType' /\ ServerType' /\ HistoryType' /\ TargetIsHere'
  BY DEF CommandType, PlacementType, MailboxType, HistoryType, TargetIsHere, Tried
<1>4. applied \subseteq applied'
  BY DEF Tried
<1>5. Known' /\ Placed' /\ SeesTarget' /\ AppliedFirst'
  BY <1>1, <1>2, <1>4 DEF Known, Placed, SeesTarget, AppliedFirst
<1>6. Alone'
  BY <1>2 DEF Alone
<1>7. Working' /\ NotBegun'
  BY <1>2 DEF Working, NotBegun, Inside, IsMove
<1>8. Untried' /\ MoveOnce'
  BY <1>2, TriedOnce
<1>9. HonestCommand'
  BY <1>4, <1>8 DEF HonestCommand, SucceededWasApplied, HiddenUntilRestore, HiddenHasMove, IsMove
<1> QED BY <1>2, <1>3, <1>5, <1>6, <1>7, <1>8, <1>9

(* create() *)

LEMMA CheckKeeps ==
  ASSUME IInv, NEW c \in Commands, Check(c)
  PROVE  IInv'
<1> USE DEF IInv, TypeOK, placement, mailbox, server, thread, budget, history
<1>1. PICK p \in Placements, a \in Actions :
        /\ action' = [action EXCEPT ![c] = a]
        /\ origin' = [origin EXCEPT ![c] = p]
        /\ target' = [target EXCEPT ![c] = p]
        /\ original' = [original EXCEPT ![c] = flags[p]]
  BY DEF Check
<1>2. /\ cstatus[c] = "absent" /\ cstatus' = [cstatus EXCEPT ![c] = "creating"]
      /\ UNCHANGED <<attempts, placement, mailbox, server, jobs, lock, thread, budget, history>>
  BY DEF Check
<1>3. CommandType'
  BY <1>1, <1>2 DEF CommandType, PlacementType
<1>4. /\ \A d \in Commands : d # c => /\ cstatus'[d] = cstatus[d] /\ action'[d] = action[d]
                                      /\ origin'[d] = origin[d] /\ target'[d] = target[d]
      /\ cstatus'[c] = "creating" /\ origin'[c] = p
  BY <1>1, <1>2 DEF CommandType
<1>5. c \notin jobs /\ \A w \in Workers : pc[w] # "idle" => job[w] \in Commands /\ job[w] # c
  BY <1>2 DEF Known, Active, Settled
<1>6. PlacementType' /\ MailboxType' /\ ServerType' /\ ThreadType' /\ BudgetType' /\ HistoryType'
  BY <1>2 DEF PlacementType, MailboxType, ServerType, ThreadType, BudgetType, HistoryType
<1>7. TargetIsHere'
  BY <1>2, <1>4 DEF TargetIsHere, Active, Settled
<1>8. Known' /\ Placed' /\ SeesTarget' /\ AppliedFirst' /\ Alone'
  BY <1>2, <1>4, <1>5 DEF Known, Placed, SeesTarget, AppliedFirst, Alone
<1>9. Working' /\ NotBegun'
  BY <1>2, <1>4, <1>5 DEF Working, NotBegun, Inside, IsMove
<1>10. Untried'
  BY <1>2, <1>4, <1>5 DEF Untried, IsMove
<1>11. HonestCommand'
  <2>1. MoveOnce' /\ SucceededWasApplied'
    BY <1>2, <1>4 DEF HonestCommand, MoveOnce, SucceededWasApplied
  <2>2. HiddenUntilRestore'
    <3> SUFFICES ASSUME restores = 0, NEW q \in Placements, hidden[q]
                 PROVE  \E d \in Commands : target'[d] = q /\ action'[d] = Move /\ cstatus'[d] \in Active
      BY <1>2 DEF HiddenUntilRestore, HiddenHasMove, IsMove
    <3>1. PICK d \in Commands : target[d] = q /\ action[d] = Move /\ cstatus[d] \in Active
      BY DEF HonestCommand, HiddenUntilRestore, HiddenHasMove, IsMove
    <3> QED BY <1>2, <1>4, <3>1 DEF Active
  <2> QED BY <2>1, <2>2 DEF HonestCommand
<1> QED BY <1>3, <1>6, <1>7, <1>8, <1>9, <1>10, <1>11

LEMMA InsertKeeps ==
  ASSUME IInv, NEW c \in Commands, Insert(c)
  PROVE  IInv'
<1> USE DEF IInv, TypeOK, mailbox, server, thread, history
<1>1. /\ cstatus[c] = "creating" /\ here[target[c]]
      /\ cstatus' = [cstatus EXCEPT ![c] = "pending"]
      /\ flags' = [flags EXCEPT ![target[c]] = Marked(action[c], original[c])]
      /\ hidden' = [hidden EXCEPT ![target[c]] = IsMove(c)]
      /\ UNCHANGED <<action, origin, target, original, attempts, here, mailbox, server, lock, thread, history>>
  BY DEF Insert, Insertable
<1>2. BudgetType' /\ lost' = lost /\ restores' = restores /\ jobs' \subseteq jobs \cup {c}
  BY EnqueueStep DEF Insert
<1>3. CommandType'
  BY <1>1 DEF CommandType, Active
<1>4. PlacementType'
  <2>1. action[c] \in Actions /\ original[c] \in SUBSET Flags
    BY DEF CommandType
  <2>2. Marked(action[c], original[c]) \in SUBSET Flags
    BY <2>1, MarkedType
  <2>3. IsMove(c) \in BOOLEAN
    BY DEF IsMove
  <2> QED BY <1>1, <2>2, <2>3 DEF PlacementType
<1>5. /\ \A d \in Commands : d # c => cstatus'[d] = cstatus[d]
      /\ cstatus'[c] = "pending"
  BY <1>1 DEF CommandType
<1>6. c \notin jobs /\ \A w \in Workers : pc[w] # "idle" => job[w] \in Commands /\ job[w] # c
  BY <1>1 DEF Known, Active, Settled
<1>7. MailboxType' /\ ServerType' /\ ThreadType' /\ HistoryType'
  BY <1>1, <1>2 DEF MailboxType, ServerType, ThreadType, HistoryType
<1>8. TargetIsHere'
  BY <1>1, <1>5 DEF TargetIsHere
<1>9. Known' /\ Placed' /\ SeesTarget' /\ AppliedFirst' /\ Alone'
  BY <1>1, <1>2, <1>5, <1>6 DEF Known, Placed, SeesTarget, AppliedFirst, Alone, Active
<1>10. Working' /\ NotBegun'
  BY <1>1, <1>2, <1>5, <1>6 DEF Working, NotBegun, Inside, IsMove
<1>11. Untried'
  BY <1>1, <1>2, <1>5, <1>6 DEF Untried, IsMove
<1>12. HonestCommand'
  <2>1. MoveOnce' /\ SucceededWasApplied'
    BY <1>1, <1>2, <1>5 DEF HonestCommand, MoveOnce, SucceededWasApplied
  <2>2. HiddenUntilRestore'
    <3> SUFFICES ASSUME restores = 0, NEW q \in Placements, hidden'[q]
                 PROVE  \E d \in Commands : target[d] = q /\ action[d] = Move /\ cstatus'[d] \in Active
      BY <1>1, <1>2 DEF HiddenUntilRestore, HiddenHasMove, IsMove
    <3>1. CASE q = target[c]
      <4>1. action[c] = Move
        BY <1>1, <3>1 DEF PlacementType, IsMove
      <4> QED BY <1>5, <3>1, <4>1 DEF Active
    <3>2. CASE q # target[c]
      <4>1. hidden[q]
        BY <1>1, <3>2 DEF PlacementType
      <4>2. PICK d \in Commands : target[d] = q /\ action[d] = Move /\ cstatus[d] \in Active
        BY <4>1 DEF HonestCommand, HiddenUntilRestore, HiddenHasMove, IsMove
      <4> QED BY <1>5, <3>2, <4>2
    <3> QED BY <3>1, <3>2
  <2> QED BY <2>1, <2>2 DEF HonestCommand
<1> QED BY <1>2, <1>3, <1>4, <1>7, <1>8, <1>9, <1>10, <1>11, <1>12

(* The queue. *)

LEMMA QueueKeeps ==
  ASSUME IInv, NEW c \in Commands, cstatus[c] \in Active \cup Settled, jobs' \subseteq jobs \cup {c},
         UNCHANGED <<command, placement, mailbox, server, lock, thread, budget, history>>
  PROVE  IInv'
<1> USE DEF IInv, TypeOK, command, placement, mailbox, server, thread, budget, history
<1>1. CommandType' /\ PlacementType' /\ MailboxType' /\ ServerType' /\ BudgetType' /\ HistoryType' /\ TargetIsHere'
  BY DEF CommandType, PlacementType, MailboxType, ServerType, BudgetType, HistoryType, TargetIsHere
<1>2. ThreadType'
  BY DEF ThreadType
<1>3. Known' /\ Placed' /\ SeesTarget' /\ AppliedFirst' /\ Alone'
  BY DEF Known, Placed, SeesTarget, AppliedFirst, Alone
<1>4. Working' /\ NotBegun' /\ Untried'
  BY DEF Working, NotBegun, Untried, IsMove
<1>5. HonestCommand'
  BY DEF HonestCommand, MoveOnce, SucceededWasApplied, HiddenUntilRestore, HiddenHasMove, IsMove
<1> QED BY <1>1, <1>2, <1>3, <1>4, <1>5

LEMMA PollKeeps == ASSUME IInv, NEW c \in Commands, Poll(c) PROVE IInv'
BY QueueKeeps DEF Poll

LEMMA BusyKeeps == ASSUME IInv, NEW c \in Commands, Busy(c) PROVE IInv'
<1>1. cstatus[c] \in Active \cup Settled /\ jobs' \subseteq jobs \cup {c}
  BY DEF IInv, Known, Busy
<1> QED BY <1>1, QueueKeeps DEF Busy

LEMMA TakeKeeps ==
  ASSUME IInv, NEW w \in Workers, NEW c \in Commands, Take(w, c)
  PROVE  IInv'
<1> USE DEF IInv, TypeOK, command, placement, mailbox, server, budget, history
<1>1. /\ pc[w] = "idle" /\ c \in jobs /\ lock = None /\ jobs' = jobs \ {c} /\ lock' = w
      /\ job' = [job EXCEPT ![w] = c] /\ Goto(w, "read")
      /\ UNCHANGED <<command, placement, mailbox, server, seen, error, budget, history>>
  BY DEF Take
<1>2. pc' \in [Workers -> PCs] /\ pc'[w] = "read" /\ \A v \in Workers : v # w => pc'[v] = pc[v]
  BY <1>1, GotoStep DEF PCs
<1>3. /\ job' \in [Workers -> Commands \cup {None}] /\ job'[w] = c
      /\ \A v \in Workers : v # w => job'[v] = job[v]
  BY <1>1 DEF ThreadType
<1>4. CommandType' /\ PlacementType' /\ MailboxType' /\ ServerType' /\ BudgetType' /\ HistoryType' /\ TargetIsHere'
  BY <1>1 DEF CommandType, PlacementType, MailboxType, ServerType, BudgetType, HistoryType, TargetIsHere
<1>5. ThreadType'
  BY <1>1, <1>2, <1>3 DEF ThreadType
<1>6. Known'
  BY <1>1, <1>2, <1>3 DEF Known
<1>7. Placed' /\ SeesTarget' /\ AppliedFirst'
  BY <1>1, <1>2, <1>3 DEF Placed, SeesTarget, AppliedFirst
<1>8. Alone'
  BY <1>1, <1>2, Numbers DEF Alone
<1>9. Working' /\ NotBegun' /\ Untried'
  BY <1>1, <1>2, <1>3 DEF Working, NotBegun, Untried, Inside, IsMove
<1>10. HonestCommand'
  BY <1>1 DEF HonestCommand, MoveOnce, SucceededWasApplied, HiddenUntilRestore, HiddenHasMove, IsMove
<1> QED BY <1>4, <1>5, <1>6, <1>7, <1>8, <1>9, <1>10

(* run() *)

LEMMA ReadKeeps ==
  ASSUME IInv, NEW w \in Workers, Read(w)
  PROVE  IInv'
<1> USE DEF IInv, TypeOK, command, placement, mailbox, server, budget, history
<1> DEFINE c == job[w]
           row == [status |-> cstatus[c], attempts |-> attempts[c], target |-> target[c]]
<1>1. /\ pc[w] = "read" /\ seen' = [seen EXCEPT ![w] = row]
      /\ UNCHANGED <<command, placement, mailbox, server, jobs, lock, job, error, budget, history>>
  BY DEF Read
<1>2. PICK l \in {"release", "fail", "ready"} :
        /\ Goto(w, l)
        /\ l # "release" => ~Done(c)
        /\ l = "ready" => ~Uncertain(c)
  <2>1. Goto(w, CASE Done(c) -> "release" [] Uncertain(c) -> "fail" [] OTHER -> "ready")
    BY DEF Read
  <2>2. CASE Done(c)
    <3>1. ~Uncertain(c)
      BY <2>2 DEF Done, Uncertain, Settled
    <3> QED BY <2>1, <2>2, <3>1
  <2>3. CASE ~Done(c) /\ Uncertain(c)
    BY <2>1, <2>3
  <2>4. CASE ~Done(c) /\ ~Uncertain(c)
    BY <2>1, <2>4
  <2> QED BY <2>2, <2>3, <2>4
<1>3. c \in Commands /\ cstatus[c] \in Active \cup Settled
  BY <1>1 DEF Known
<1>4. row \in SeenRow /\ row.target = target[c]
  BY <1>3 DEF SeenRow, CommandType
<1> HIDE DEF row
<1>5. pc' \in [Workers -> PCs] /\ pc'[w] = l /\ \A v \in Workers : v # w => pc'[v] = pc[v]
  <2>1. l \in PCs
    BY <1>2 DEF PCs
  <2> QED BY <1>2, <2>1, GotoStep
<1>6. /\ seen' \in [Workers -> SeenRow] /\ seen'[w] = row
      /\ \A v \in Workers : v # w => seen'[v] = seen[v]
  BY <1>1, <1>4 DEF ThreadType
<1>7. CommandType' /\ PlacementType' /\ MailboxType' /\ ServerType' /\ BudgetType' /\ HistoryType' /\ TargetIsHere'
  BY <1>1 DEF CommandType, PlacementType, MailboxType, ServerType, BudgetType, HistoryType, TargetIsHere
<1>8. ThreadType'
  BY <1>1, <1>5, <1>6 DEF ThreadType
<1>9. Known' /\ Placed' /\ AppliedFirst' /\ Alone'
  BY <1>1, <1>2, <1>5 DEF Known, Placed, AppliedFirst, Alone
<1>10. SeesTarget'
  BY <1>1, <1>4, <1>5, <1>6 DEF SeesTarget
<1>11. Working'
  BY <1>1, <1>2, <1>3, <1>5 DEF Working, Inside, Done
<1>12. NotBegun'
  BY <1>1, <1>2, <1>3, <1>5 DEF NotBegun, Done, Uncertain, IsMove, Active
<1>13. Untried'
  BY <1>1, <1>2, <1>5 DEF Untried, IsMove
<1>14. HonestCommand'
  BY <1>1 DEF HonestCommand, MoveOnce, SucceededWasApplied, HiddenUntilRestore, HiddenHasMove, IsMove
<1> QED BY <1>7, <1>8, <1>9, <1>10, <1>11, <1>12, <1>13, <1>14

LEMMA CheckReadyKeeps == ASSUME IInv, NEW w \in Workers, CheckReady(w) PROVE IInv'
<1> USE DEF IInv, TypeOK, budget
<1>1. PICK l \in {"placement", "fail"} : Goto(w, l)
  BY DEF CheckReady
<1>2. l \in PCs \ {"idle", "read", "mutate", "succeed"} /\ pc[w] = "ready"
  BY DEF PCs, CheckReady
<1>3. jobs' \subseteq jobs \cup {job[w]} /\ error' \in [Workers -> {"none", "epoch", "other"}]
  BY DEF CheckReady, ThreadType
<1>4. BudgetType' /\ lost' = lost /\ restores' = restores
  BY DEF CheckReady, BudgetType
<1>5. pc[w] \in Inside
  BY <1>2 DEF Inside, PCs
<1> QED BY <1>1, <1>2, <1>3, <1>4, <1>5, PassKeeps DEF CheckReady

LEMMA ReadPlacementKeeps == ASSUME IInv, NEW w \in Workers, ReadPlacement(w) PROVE IInv'
<1> USE DEF IInv, TypeOK, budget
<1>1. PICK l \in {"start", "fail", "release"} : Goto(w, l) /\ jobs' \subseteq jobs \cup {job[w]}
  <2>1. CASE seen[w].target = None
    BY <2>1 DEF ReadPlacement, Retry
  <2>2. CASE seen[w].target # None
    BY <2>2 DEF ReadPlacement
  <2> QED BY <2>1, <2>2
<1>2. l \in PCs \ {"idle", "read", "mutate", "succeed"} /\ pc[w] = "placement"
  BY DEF PCs, ReadPlacement
<1>3. error' \in [Workers -> {"none", "epoch", "other"}]
  BY DEF ReadPlacement, ThreadType
<1>4. BudgetType' /\ lost' = lost /\ restores' = restores
  BY DEF ReadPlacement, BudgetType
<1>5. pc[w] \in Inside
  BY <1>2 DEF Inside, PCs
<1> QED BY <1>1, <1>2, <1>3, <1>4, <1>5, PassKeeps DEF ReadPlacement

LEMMA SucceedThrowsKeeps == ASSUME IInv, NEW w \in Workers, SucceedThrows(w) PROVE IInv'
<1> USE DEF IInv, TypeOK
<1>1. Goto(w, "caught") /\ pc[w] = "succeed" /\ jobs' \subseteq jobs \cup {job[w]}
  BY DEF SucceedThrows
<1>2. error' \in [Workers -> {"none", "epoch", "other"}]
  BY DEF SucceedThrows, ThreadType
<1>3. BudgetType' /\ lost' = lost /\ restores' = restores
  BY FaultStep DEF SucceedThrows
<1>4. "caught" \in PCs \ {"idle", "read", "mutate", "succeed"} /\ "succeed" \in Inside
  BY DEF Inside, PCs
<1> QED BY <1>1, <1>2, <1>3, <1>4, PassKeeps DEF SucceedThrows

LEMMA CaughtKeeps == ASSUME IInv, NEW w \in Workers, Caught(w) PROVE IInv'
<1> USE DEF IInv, TypeOK, budget
<1>1. PICK l \in {"release", "fail"} : Goto(w, l) /\ jobs' \subseteq jobs \cup {job[w]}
  <2>1. CASE cstatus[job[w]] # "succeeded" /\ error[w] # "epoch" /\ ~IsMove(job[w]) /\ ~Exhausted(w)
    BY <2>1 DEF Caught, Retry
  <2>2. CASE ~(cstatus[job[w]] # "succeeded" /\ error[w] # "epoch" /\ ~IsMove(job[w]) /\ ~Exhausted(w))
    <3>1. UNCHANGED jobs /\ Goto(w, IF cstatus[job[w]] = "succeeded" THEN "release" ELSE "fail")
      BY <2>2 DEF Caught
    <3> QED BY <3>1
  <2> QED BY <2>1, <2>2
<1>2. l \in PCs \ {"idle", "read", "mutate", "succeed"} /\ pc[w] = "caught"
  BY DEF PCs, Caught
<1>3. error' \in [Workers -> {"none", "epoch", "other"}]
  BY DEF Caught, ThreadType
<1>4. BudgetType' /\ lost' = lost /\ restores' = restores
  BY DEF Caught, BudgetType
<1>5. pc[w] \in Inside
  BY <1>2 DEF Inside, PCs
<1> QED BY <1>1, <1>2, <1>3, <1>4, <1>5, PassKeeps DEF Caught

LEMMA StartKeeps ==
  ASSUME IInv, NEW w \in Workers, Start(w)
  PROVE  IInv'
<1> USE DEF IInv, TypeOK, placement, mailbox, server, budget, history
<1> DEFINE c == job[w]
           n == IF attempts[c] > MaxAttempts THEN attempts[c] ELSE attempts[c] + 1
<1>1. /\ pc[w] = "start" /\ cstatus' = [cstatus EXCEPT ![c] = "executing"]
      /\ attempts' = [attempts EXCEPT ![c] = n] /\ Goto(w, "mutate")
      /\ UNCHANGED <<action, origin, target, original, placement, mailbox, server, jobs, lock, job, seen, error, budget, history>>
  BY DEF Start
<1>2. c \in Commands /\ cstatus[c] \in Active \cup Settled
  BY <1>1 DEF Known
<1>3. n \in 0..MaxAttempts + 1
  BY <1>2, Numbers DEF CommandType
<1> HIDE DEF n
<1>4. pc' \in [Workers -> PCs] /\ pc'[w] = "mutate" /\ \A v \in Workers : v # w => pc'[v] = pc[v]
  BY <1>1, GotoStep DEF PCs
<1>5. cstatus'[c] = "executing" /\ \A d \in Commands : d # c => cstatus'[d] = cstatus[d]
  BY <1>1, <1>2 DEF CommandType
<1>6. CommandType'
  BY <1>1, <1>2, <1>3 DEF CommandType, Active
<1>7. PlacementType' /\ MailboxType' /\ ServerType' /\ BudgetType' /\ HistoryType'
  BY <1>1 DEF PlacementType, MailboxType, ServerType, BudgetType, HistoryType
<1>8. ThreadType'
  BY <1>1, <1>4 DEF ThreadType
<1>9. TargetIsHere'
  BY <1>1, <1>2, <1>5 DEF TargetIsHere
<1>10. Known' /\ Placed' /\ SeesTarget' /\ AppliedFirst' /\ Alone'
  BY <1>1, <1>2, <1>4, <1>5 DEF Known, Placed, SeesTarget, AppliedFirst, Alone, Active, Settled
<1>11. lost = 0 => \A v \in Workers : v # w => pc'[v] = "idle"
  BY <1>1, <1>4, OthersIdle
<1>12. Working' /\ NotBegun'
  BY <1>1, <1>4, <1>5, <1>11 DEF Working, NotBegun, Inside, Active
<1>13. Untried'
  <2>1. lost = 0 /\ IsMove(c) => moves[c] = 0
    BY <1>1, <1>2 DEF NotBegun, Untried
  <2> QED BY <1>1, <1>2, <1>4, <1>5, <1>11, <2>1 DEF Untried, IsMove
<1>14. HonestCommand'
  <2>1. MoveOnce' /\ SucceededWasApplied'
    BY <1>1, <1>5 DEF HonestCommand, MoveOnce, SucceededWasApplied
  <2>2. HiddenUntilRestore'
    <3> SUFFICES ASSUME restores = 0, NEW q \in Placements, hidden[q]
                 PROVE  \E d \in Commands : target[d] = q /\ action[d] = Move /\ cstatus'[d] \in Active
      BY <1>1 DEF HiddenUntilRestore, HiddenHasMove, IsMove
    <3>1. PICK d \in Commands : target[d] = q /\ action[d] = Move /\ cstatus[d] \in Active
      BY DEF HonestCommand, HiddenUntilRestore, HiddenHasMove, IsMove
    <3> QED BY <1>5, <3>1 DEF Active
  <2> QED BY <2>1, <2>2 DEF HonestCommand
<1> QED BY <1>6, <1>7, <1>8, <1>9, <1>10, <1>12, <1>13, <1>14

\* mutateMessage was called, and run() goes on.
LEMMA AskedKeeps ==
  ASSUME IInv, NEW w \in Workers, NEW l \in {"succeed", "caught", "fail"}, Goto(w, l), pc[w] = "mutate",
         Tried(w), l = "succeed" => job[w] \in applied',
         error' \in [Workers -> {"none", "epoch", "other"}],
         BudgetType', lost' = lost, restores' = restores,
         UNCHANGED <<command, placement, mailbox, jobs, lock, job, seen>>
  PROVE  IInv'
<1> USE DEF IInv, TypeOK, command, placement, mailbox
<1>1. pc' \in [Workers -> PCs] /\ pc'[w] = l /\ \A v \in Workers : v # w => pc'[v] = pc[v]
  BY GotoStep DEF PCs
<1>2. job[w] \in Commands
  BY DEF Known
<1>3. CommandType' /\ PlacementType' /\ MailboxType' /\ ServerType' /\ HistoryType' /\ TargetIsHere'
  BY DEF CommandType, PlacementType, MailboxType, HistoryType, TargetIsHere, Tried
<1>4. ThreadType'
  BY <1>1 DEF ThreadType
<1>5. applied \subseteq applied'
  BY DEF Tried
<1>6. Known' /\ Placed' /\ SeesTarget'
  BY <1>1 DEF Known, Placed, SeesTarget
<1>7. AppliedFirst'
  BY <1>1, <1>5 DEF AppliedFirst
<1>8. Alone' /\ Working' /\ NotBegun'
  BY <1>1 DEF Alone, Working, NotBegun, Inside, PCs, IsMove
<1>9. Untried' /\ MoveOnce'
  BY <1>1, TriedOnce
<1>10. HonestCommand'
  BY <1>5, <1>9 DEF HonestCommand, SucceededWasApplied, HiddenUntilRestore, HiddenHasMove, IsMove
<1> QED BY <1>3, <1>4, <1>6, <1>7, <1>8, <1>9, <1>10

\* mutateMessage carries the action out, and its answer arrives or is lost.
LEMMA AppliesKeeps ==
  ASSUME IInv, NEW w \in Workers, NEW l \in {"succeed", "caught"}, Goto(w, l), pc[w] = "mutate",
         Count(job[w]), Apply(job[w]),
         error' \in [Workers -> {"none", "epoch", "other"}],
         UNCHANGED <<command, placement, mailbox, jobs, lock, job, seen, budget>>
  PROVE  IInv'
<1> USE DEF budget
<1>1. job[w] \in Commands /\ origin[job[w]] \in Placements
  BY DEF IInv, Known, Placed, Active, Settled
<1>2. ServerType' /\ applied' = applied \cup {job[w]}
  BY <1>1, ApplyStep DEF IInv, TypeOK
<1>3. applied \subseteq applied' /\ applied' \subseteq Commands
  BY <1>1, <1>2 DEF IInv, TypeOK, HistoryType
<1>4. Tried(w)
  BY <1>2, <1>3, CountStep
<1>5. BudgetType' /\ lost' = lost /\ restores' = restores
  BY DEF IInv, TypeOK, BudgetType
<1> QED BY <1>2, <1>4, <1>5, AskedKeeps

LEMMA MutateKeeps ==
  ASSUME IInv, NEW w \in Workers, Mutate(w)
  PROVE  IInv'
<1> USE DEF budget
<1> DEFINE Errors == [Workers -> {"none", "epoch", "other"}]
<1>1. /\ pc[w] = "mutate" /\ Count(job[w])
      /\ UNCHANGED <<command, placement, mailbox, jobs, lock, job, seen, faults, lost, restores>>
  BY DEF Mutate
<1>2. /\ job[w] \in Commands /\ origin[job[w]] \in Placements /\ error \in Errors
      /\ applied \subseteq Commands /\ remote \in 0..MaxRemote /\ ServerType
  BY <1>1 DEF IInv, TypeOK, ThreadType, HistoryType, BudgetType, Known, Placed, Active, Settled
<1>3. CASE Apply(job[w]) /\ Goto(w, "succeed") /\ UNCHANGED <<error, remote>>
  BY <1>1, <1>2, <1>3, AppliesKeeps
<1>4. CASE /\ Apply(job[w]) /\ Goto(w, "caught")
           /\ error' = [error EXCEPT ![w] = "other"] /\ UNCHANGED remote
  <2>1. error' \in Errors
    BY <1>2, <1>4
  <2> QED BY <1>1, <1>4, <2>1, AppliesKeeps
<1>5. CASE /\ Goto(w, "fail") /\ UNCHANGED <<error, applied>>
           /\ remote' \in 0..MaxRemote /\ ServerType'
  <2>1. Tried(w)
    BY <1>1, <1>2, <1>5, CountStep
  <2>2. BudgetType' /\ lost' = lost /\ restores' = restores
    BY <1>1, <1>5 DEF IInv, TypeOK, BudgetType
  <2> QED BY <1>1, <1>2, <1>5, <2>1, <2>2, AskedKeeps
<1>6. CASE /\ Goto(w, AfterRefusal) /\ UNCHANGED <<server, error, remote, applied>>
  <2>1. ServerType'
    BY <1>2, <1>6 DEF ServerType, server
  <2> QED BY <1>2, <1>5, <1>6, <2>1 DEF AfterRefusal
<1>7. CASE /\ remote < MaxRemote /\ remote' = remote + 1
           /\ \E fs \in SUBSET Flags \ {rflags[origin[job[w]]]} : ChangeFlags(origin[job[w]], fs)
           /\ Goto(w, AfterRefusal)
           /\ UNCHANGED <<rhere, renewed, error, applied>>
  <2>1. ServerType'
    BY <1>2, <1>7, ChangeFlagsType
  <2>2. remote' \in 0..MaxRemote
    BY <1>2, <1>7, Numbers
  <2> QED BY <1>5, <1>7, <2>1, <2>2 DEF AfterRefusal
<1>8. CASE /\ \E e \in {"epoch", "other"} : error' = [error EXCEPT ![w] = e]
           /\ Goto(w, "caught") /\ UNCHANGED <<server, remote, applied>>
  <2>1. error' \in Errors
    BY <1>2, <1>8
  <2>2. ServerType'
    BY <1>2, <1>8 DEF ServerType, server
  <2>3. Tried(w)
    BY <1>1, <1>2, <1>8, <2>2, CountStep
  <2>4. BudgetType' /\ lost' = lost /\ restores' = restores
    BY <1>1, <1>8 DEF IInv, TypeOK, BudgetType
  <2> QED BY <1>1, <1>8, <2>1, <2>3, <2>4, AskedKeeps
<1> QED BY <1>3, <1>4, <1>6, <1>7, <1>8 DEF Mutate

(* Placements are deleted. *)

\* What is left of them, and of the commands' references to them.
Deleted(ps) ==
  /\ PlacementType' /\ target' \in [Commands -> Placements \cup {None}]
  /\ \A p \in Placements : /\ here[p] /\ p \notin ps => here'[p]
                           /\ hidden'[p] => hidden[p] /\ p \notin ps
  /\ \A c \in Commands : cstatus[c] # "creating" =>
       /\ target'[c] \in {target[c], None}
       /\ target[c] \in ps => target'[c] = None
       /\ target[c] \notin ps => target'[c] = target[c]

LEMMA DeleteStep ==
  ASSUME CommandType, PlacementType, NEW ps,
         here' = [p \in Placements |-> here[p] /\ p \notin ps],
         hidden' = [p \in Placements |-> hidden[p] /\ p \notin ps],
         flags' \in [Placements -> SUBSET Flags],
         target' = [c \in Commands |-> IF target[c] \in ps /\ cstatus[c] # "creating" THEN None ELSE target[c]]
  PROVE  Deleted(ps)
<1>1. here' \in [Placements -> BOOLEAN]
  BY Zenon DEF PlacementType
<1>2. hidden' \in [Placements -> BOOLEAN]
  BY Zenon DEF PlacementType
<1>3. \A p \in Placements : here'[p] = (here[p] /\ p \notin ps)
  BY Zenon
<1>4. \A p \in Placements : hidden'[p] = (hidden[p] /\ p \notin ps)
  BY Zenon
<1>5. target' \in [Commands -> Placements \cup {None}]
  BY DEF CommandType
<1>6. \A c \in Commands : target'[c] = IF target[c] \in ps /\ cstatus[c] # "creating" THEN None ELSE target[c]
  OBVIOUS
<1> QED BY <1>1, <1>2, <1>3, <1>4, <1>5, <1>6 DEF Deleted, PlacementType

\* What concerns commands and placements only; the same commands are inserted.
LEMMA DeletedKeeps ==
  ASSUME TypeOK, Known, Placed, SeesTarget, NEW ps, Deleted(ps),
         cstatus' \in [Commands -> {"absent", "creating"} \cup Active \cup Settled],
         \A c \in Commands : cstatus'[c] \in Active \cup Settled <=> cstatus[c] \in Active \cup Settled,
         \A c \in Commands : cstatus'[c] # "absent" => cstatus[c] # "absent",
         \A w \in Workers : pc'[w] # pc[w] => pc[w] \notin {"idle", "read"},
         UNCHANGED <<action, origin, original, attempts, jobs, job, seen>>
  PROVE  CommandType' /\ TargetIsHere' /\ Known' /\ Placed' /\ SeesTarget'
<1>1. CommandType'
  BY DEF TypeOK, CommandType, Deleted
<1>2. TargetIsHere'
  <2> SUFFICES ASSUME NEW c \in Commands, cstatus[c] \in Active \cup Settled, target'[c] # None
               PROVE  here'[target'[c]]
    BY DEF TargetIsHere
  <2>1. cstatus[c] # "creating"
    BY DEF Active, Settled
  <2>2. target[c] \notin ps /\ target'[c] = target[c]
    BY <2>1 DEF Deleted
  <2>3. target[c] \in Placements /\ here[target[c]]
    BY <2>2 DEF TypeOK, CommandType, TargetIsHere
  <2> QED BY <2>2, <2>3 DEF Deleted
<1>3. Known' /\ Placed'
  <2>1. \A w \in Workers : pc'[w] # "idle" => pc[w] # "idle"
    OBVIOUS
  <2>2. jobs \subseteq Commands
    BY DEF TypeOK, ThreadType
  <2> QED BY <2>1, <2>2 DEF Known, Placed
<1>4. SeesTarget'
  <2> SUFFICES ASSUME NEW w \in Workers, pc[w] \notin {"idle", "read"}
               PROVE  target'[job[w]] \in {seen[w].target, None}
    BY DEF SeesTarget
  <2>1. job[w] \in Commands /\ cstatus[job[w]] # "creating"
    BY DEF Known, Active, Settled
  <2>2. target[job[w]] \in {seen[w].target, None}
    BY DEF SeesTarget
  <2> QED BY <2>1, <2>2 DEF Deleted
<1> QED BY <1>1, <1>2, <1>3, <1>4

LEMMA SynchronizeKeeps ==
  ASSUME IInv, Synchronize
  PROVE  IInv'
<1> USE DEF IInv, TypeOK, server, thread, budget, history
<1>1. UNCHANGED <<cstatus, action, origin, original, attempts, ready, server, jobs, lock, thread, budget, history>>
  BY DEF Synchronize
<1>2. PICK ps : Deleted(ps) /\ checkpoint' \in Nat /\ noticed' \in BOOLEAN
  <2>1. CASE renewed
    <3>1. Delete(Placements) /\ noticed' = TRUE /\ UNCHANGED checkpoint
      BY <2>1 DEF Synchronize
    <3>2. flags' \in [Placements -> SUBSET Flags]
      BY <3>1 DEF Delete, PlacementType
    <3>3. Deleted(Placements)
      BY <3>1, <3>2, DeleteStep DEF Delete
    <3>4. checkpoint' \in Nat /\ noticed' \in BOOLEAN
      BY <3>1 DEF MailboxType
    <3> QED BY <3>3, <3>4
  <2>2. CASE ~renewed
    <3> DEFINE gone == {p \in Placements : ~rhere[p]}
               changed == {p \in Placements : here[p] /\ rhere[p] /\ rmod[p] > checkpoint}
    <3>1. /\ here' = [p \in Placements |-> here[p] /\ p \notin gone]
          /\ hidden' = [p \in Placements |-> hidden[p] /\ p \notin gone]
          /\ flags' = [p \in Placements |-> CASE p \in gone -> {}
                                              [] p \in changed -> rflags[p]
                                              [] OTHER -> flags[p]]
          /\ target' = [c \in Commands |->
               IF target[c] \in gone /\ cstatus[c] # "creating" THEN None ELSE target[c]]
          /\ checkpoint' = highest /\ UNCHANGED noticed
      BY <2>2 DEF Synchronize
    <3>2. \A p : p \in gone => p \notin changed
      OBVIOUS
    <3> HIDE DEF gone, changed
    <3>3. flags' \in [Placements -> SUBSET Flags]
      <4>1. \A p \in Placements : (CASE p \in gone -> {} [] p \in changed -> rflags[p] [] OTHER -> flags[p])
                                   \in SUBSET Flags
        BY <3>2 DEF PlacementType, ServerType
      <4> QED BY <3>1, <4>1
    <3>4. Deleted(gone)
      BY <3>1, <3>3, DeleteStep
    <3>5. checkpoint' \in Nat /\ noticed' \in BOOLEAN
      BY <3>1 DEF MailboxType, ServerType
    <3> QED BY <3>4, <3>5
  <2> QED BY <2>1, <2>2
<1>3. CommandType' /\ TargetIsHere' /\ Known' /\ Placed' /\ SeesTarget'
  BY <1>1, <1>2, DeletedKeeps DEF CommandType
<1>4. PlacementType' /\ MailboxType'
  BY <1>1, <1>2 DEF Deleted, MailboxType
<1>5. ServerType' /\ ThreadType' /\ BudgetType' /\ HistoryType'
  BY <1>1 DEF ServerType, ThreadType, BudgetType, HistoryType
<1>6. AppliedFirst' /\ Alone' /\ Working' /\ NotBegun' /\ Untried'
  BY <1>1 DEF AppliedFirst, Alone, Working, NotBegun, Untried, IsMove
<1>7. HonestCommand'
  <2>1. MoveOnce' /\ SucceededWasApplied'
    BY <1>1 DEF HonestCommand, MoveOnce, SucceededWasApplied
  <2>2. HiddenUntilRestore'
    <3> SUFFICES ASSUME restores = 0, NEW q \in Placements, hidden'[q]
                 PROVE  \E d \in Commands : target'[d] = q /\ action[d] = Move /\ cstatus[d] \in Active
      BY <1>1 DEF HiddenUntilRestore, HiddenHasMove, IsMove
    <3>1. hidden[q] /\ q \notin ps
      BY <1>2 DEF Deleted
    <3>2. PICK d \in Commands : target[d] = q /\ action[d] = Move /\ cstatus[d] \in Active
      BY <3>1 DEF HonestCommand, HiddenUntilRestore, HiddenHasMove, IsMove
    <3>3. cstatus[d] # "creating"
      BY <3>2 DEF Active
    <3> QED BY <1>2, <3>1, <3>2, <3>3 DEF Deleted
  <2> QED BY <2>1, <2>2 DEF HonestCommand
<1> QED BY <1>3, <1>4, <1>5, <1>6, <1>7

\* Nothing is deleted, and nothing is hidden that was not.
LEMMA NothingDeleted ==
  ASSUME CommandType, PlacementType', UNCHANGED <<here, target>>,
         \A p \in Placements : hidden'[p] => hidden[p]
  PROVE  Deleted({})
BY DEF Deleted, CommandType

\* A handler settles its command.
LEMMA SettleKeeps ==
  ASSUME IInv, NEW w \in Workers, pc[w] \in {"succeed", "fail"}, Goto(w, "release"),
         NEW s \in Settled, cstatus' = [cstatus EXCEPT ![job[w]] = s],
         s = "succeeded" => job[w] \in applied,
         NEW ps, Deleted(ps),
         IsMove(job[w]) => \A q \in Placements : target[job[w]] = q => ~hidden'[q],
         UNCHANGED <<action, origin, original, attempts, mailbox, server, jobs, lock, job, seen, error, budget, history>>
  PROVE  IInv'
<1> USE DEF IInv, TypeOK, mailbox, server, budget, history
<1> DEFINE c == job[w]
<1>1. c \in Commands /\ cstatus[c] \in Active \cup Settled
  BY DEF Known
<1>2. cstatus'[c] = s /\ \A d \in Commands : d # c => cstatus'[d] = cstatus[d]
  BY <1>1 DEF CommandType
<1>3. cstatus' \in [Commands -> {"absent", "creating"} \cup Active \cup Settled]
  BY DEF CommandType
<1>4. pc' \in [Workers -> PCs] /\ pc'[w] = "release" /\ \A v \in Workers : v # w => pc'[v] = pc[v]
  BY GotoStep DEF PCs
<1>5. CommandType' /\ TargetIsHere' /\ Known' /\ Placed' /\ SeesTarget'
  <2>1. /\ \A d \in Commands : cstatus'[d] \in Active \cup Settled <=> cstatus[d] \in Active \cup Settled
        /\ \A d \in Commands : cstatus'[d] # "absent" => cstatus[d] # "absent"
    BY <1>1, <1>2 DEF Active, Settled
  <2>2. \A v \in Workers : pc'[v] # pc[v] => pc[v] \notin {"idle", "read"}
    BY <1>4
  <2> QED BY <1>3, <2>1, <2>2, DeletedKeeps
<1>6. PlacementType' /\ MailboxType' /\ ServerType' /\ BudgetType' /\ HistoryType'
  BY DEF Deleted, MailboxType, ServerType, BudgetType, HistoryType
<1>7. ThreadType'
  BY <1>4 DEF ThreadType
<1>8. AppliedFirst' /\ Alone'
  BY <1>4 DEF AppliedFirst, Alone
<1>9. lost = 0 => \A v \in Workers : v # w => pc'[v] = "idle"
  BY <1>4, OthersIdle
<1>10. Working' /\ NotBegun'
  BY <1>4, <1>9 DEF Working, NotBegun, Inside
<1>11. Untried'
  BY <1>1, <1>2, <1>4, <1>9 DEF Untried, Settled
<1>12. HonestCommand'
  <2>1. MoveOnce' /\ SucceededWasApplied'
    BY <1>1, <1>2 DEF HonestCommand, MoveOnce, SucceededWasApplied
  <2>2. HiddenUntilRestore'
    <3> SUFFICES ASSUME restores = 0, NEW q \in Placements, hidden'[q]
                 PROVE  \E d \in Commands : target'[d] = q /\ action[d] = Move /\ cstatus'[d] \in Active
      BY DEF HiddenUntilRestore, HiddenHasMove, IsMove
    <3>1. hidden[q] /\ q \notin ps
      BY DEF Deleted
    <3>2. PICK d \in Commands : target[d] = q /\ action[d] = Move /\ cstatus[d] \in Active
      BY <3>1 DEF HonestCommand, HiddenUntilRestore, HiddenHasMove, IsMove
    <3>3. d # c /\ cstatus[d] # "creating"
      BY <3>2 DEF Active, IsMove
    <3> QED BY <1>2, <3>1, <3>2, <3>3 DEF Deleted
  <2> QED BY <2>1, <2>2 DEF HonestCommand
<1> QED BY <1>5, <1>6, <1>7, <1>8, <1>10, <1>11, <1>12

LEMMA SucceedKeeps ==
  ASSUME IInv, NEW w \in Workers, Succeed(w)
  PROVE  IInv'
<1> USE DEF IInv, TypeOK, placement
<1> DEFINE c == job[w]
<1>1. /\ pc[w] = "succeed" /\ Goto(w, "release") /\ cstatus' = [cstatus EXCEPT ![c] = "succeeded"]
      /\ UNCHANGED <<action, origin, original, attempts, mailbox, server, jobs, lock, job, seen, error, budget, history>>
  BY DEF Succeed
<1>2. c \in applied /\ "succeeded" \in Settled /\ target[c] \in {seen[w].target, None}
  BY <1>1 DEF AppliedFirst, SeesTarget, Settled
<1>3. CASE IsMove(c)
  <2> DEFINE ps == {seen[w].target}
  <2>1. Delete(ps)
    BY <1>3 DEF Succeed
  <2> HIDE DEF ps
  <2>2. flags' \in [Placements -> SUBSET Flags]
    BY <2>1 DEF Delete, PlacementType
  <2>3. Deleted(ps)
    BY <2>1, <2>2, DeleteStep DEF Delete
  <2>4. \A q \in Placements : target[c] = q => ~hidden'[q]
    <3> SUFFICES ASSUME NEW q \in Placements, target[c] = q, hidden'[q] PROVE FALSE
      OBVIOUS
    <3>1. q = seen[w].target
      BY <1>2, Numbers
    <3> QED BY <2>3, <3>1 DEF Deleted, ps
  <2> QED BY <1>1, <1>2, <2>3, <2>4, SettleKeeps
<1>4. CASE ~IsMove(c)
  <2>1. UNCHANGED <<placement, target>>
    BY <1>4 DEF Succeed
  <2>2. Deleted({})
    BY <2>1, NothingDeleted DEF PlacementType
  <2> QED BY <1>1, <1>2, <1>4, <2>2, SettleKeeps
<1> QED BY <1>3, <1>4

LEMMA FailKeeps ==
  ASSUME IInv, NEW w \in Workers, Fail(w)
  PROVE  IInv'
<1> USE DEF IInv, TypeOK
<1> DEFINE c == job[w]
           p == seen[w].target
<1>1. /\ pc[w] = "fail" /\ Goto(w, "release") /\ cstatus' = [cstatus EXCEPT ![c] = "failed"]
      /\ UNCHANGED <<action, origin, target, original, attempts, here, mailbox, server, jobs, lock, job, seen, error, budget, history>>
  BY DEF Fail
<1>2. /\ "failed" \in Settled /\ target[c] \in {p, None} /\ c \in Commands /\ p \in Placements \cup {None}
      /\ cstatus[c] \in Active \cup Settled
  BY <1>1 DEF SeesTarget, Settled, Known, ThreadType, SeenRow
<1>3. CASE p # None /\ here[p]
  <2>1. flags' = [flags EXCEPT ![p] = original[c]] /\ hidden' = [hidden EXCEPT ![p] = FALSE]
    BY <1>3 DEF Fail, HiddenAfterFailure
  <2>2. original[c] \in SUBSET Flags
    BY <1>2 DEF CommandType
  <2>3. PlacementType' /\ ~hidden'[p] /\ \A q \in Placements : hidden'[q] => hidden[q]
    BY <1>1, <1>2, <1>3, <2>1, <2>2 DEF PlacementType
  <2>4. Deleted({})
    BY <1>1, <2>3, NothingDeleted
  <2>5. \A q \in Placements : target[c] = q => ~hidden'[q]
    BY <1>2, <2>3, Numbers
  <2> QED BY <1>1, <1>2, <2>4, <2>5, SettleKeeps
<1>4. CASE ~(p # None /\ here[p])
  <2>1. UNCHANGED <<flags, hidden>>
    BY <1>4 DEF Fail
  <2>2. Deleted({})
    BY <1>1, <2>1, NothingDeleted DEF PlacementType
  <2>3. \A q \in Placements : target[c] # q
    BY <1>2, <1>4, Numbers DEF TargetIsHere
  <2> QED BY <1>1, <1>2, <2>2, <2>3, SettleKeeps
<1> QED BY <1>3, <1>4

LEMMA ReleaseKeeps ==
  ASSUME IInv, NEW w \in Workers, Release(w)
  PROVE  IInv'
<1> USE DEF IInv, TypeOK, server, budget, history
<1>1. Tried(w)
  BY DEF Release, Tried, ServerType, HistoryType
<1>2. BudgetType' /\ lost' = lost /\ restores' = restores
  BY DEF Release, BudgetType
<1> QED BY <1>1, <1>2, ForgetKeeps DEF Release

LEMMA AbortKeeps ==
  ASSUME IInv, NEW w \in Workers, Abort(w)
  PROVE  IInv'
<1> USE DEF server, history
<1>1. /\ pc[w] # "idle" /\ Fault /\ lock' = Unlocked(w) /\ Forget(w)
      /\ jobs' \subseteq jobs \cup {job[w]}
      /\ UNCHANGED <<command, placement, mailbox>>
  BY DEF Abort, Retry
<1>2. BudgetType' /\ lost' = lost /\ restores' = restores
  BY <1>1, FaultStep DEF IInv, TypeOK
<1>3. job[w] \in Commands /\ origin[job[w]] \in Placements
  BY <1>1 DEF IInv, Known, Placed, Active, Settled
<1>4. Tried(w)
  <2>1. CASE pc[w] = "mutate" /\ Count(job[w]) /\ Apply(job[w])
    <3>1. ServerType' /\ applied' = applied \cup {job[w]}
      BY <1>3, <2>1, ApplyStep DEF IInv, TypeOK
    <3>2. applied \subseteq applied' /\ applied' \subseteq Commands
      BY <1>3, <3>1 DEF IInv, TypeOK, HistoryType
    <3> QED BY <2>1, <3>1, <3>2, CountStep
  <2>2. CASE pc[w] = "mutate" /\ Count(job[w]) /\ UNCHANGED <<server, applied>>
    <3>1. ServerType' /\ applied \subseteq applied' /\ applied' \subseteq Commands
      BY <2>2 DEF IInv, TypeOK, ServerType, HistoryType
    <3> QED BY <2>2, <3>1, CountStep
  <2>3. CASE UNCHANGED <<server, history>>
    BY <2>3 DEF Tried, IInv, TypeOK, ServerType, HistoryType
  <2> QED BY <2>1, <2>2, <2>3 DEF Abort
<1> QED BY <1>1, <1>2, <1>4, ForgetKeeps

(* Around the service. *)

\* What happens to the server and to the mailbox concerns no command.
LEMMA OutsideKeeps ==
  ASSUME IInv, ServerType', MailboxType', BudgetType', lost' = lost, restores' = restores,
         UNCHANGED <<command, placement, jobs, lock, thread, history>>
  PROVE  IInv'
<1> USE DEF IInv, TypeOK, command, placement, thread, history
<1>1. CommandType' /\ PlacementType' /\ ThreadType' /\ HistoryType' /\ TargetIsHere'
  BY DEF CommandType, PlacementType, ThreadType, HistoryType, TargetIsHere
<1>2. Known' /\ Placed' /\ SeesTarget' /\ AppliedFirst' /\ Alone'
  BY DEF Known, Placed, SeesTarget, AppliedFirst, Alone
<1>3. Working' /\ NotBegun' /\ Untried'
  BY DEF Working, NotBegun, Untried, IsMove
<1>4. HonestCommand'
  BY DEF HonestCommand, MoveOnce, SucceededWasApplied, HiddenUntilRestore, HiddenHasMove, IsMove
<1> QED BY <1>1, <1>2, <1>3, <1>4

LEMMA RemoteChangeKeeps == ASSUME IInv, RemoteChange PROVE IInv'
<1> USE DEF IInv, TypeOK
<1>1. UNCHANGED <<command, placement, mailbox, jobs, lock, thread, faults, lost, restores, history>>
  BY DEF RemoteChange
<1>2. remote' \in 0..MaxRemote
  BY Numbers DEF RemoteChange, BudgetType
<1>3. ServerType'
  <2>1. CASE \E p \in Placements, fs \in SUBSET Flags :
               rhere[p] /\ fs # rflags[p] /\ ChangeFlags(p, fs) /\ UNCHANGED <<rhere, renewed>>
    BY <2>1, ChangeFlagsType
  <2>2. CASE \E p \in Placements : /\ rhere[p] /\ rhere' = [rhere EXCEPT ![p] = FALSE]
                                   /\ UNCHANGED <<rflags, rmod, highest, renewed>>
    BY <2>2 DEF ServerType
  <2>3. CASE renewed' = TRUE /\ UNCHANGED <<rhere, rflags, rmod, highest>>
    <3>1. renewed' \in BOOLEAN
      BY <2>3, Zenon
    <3> QED BY <2>3, <3>1 DEF ServerType
  <2> QED BY <2>1, <2>2, <2>3 DEF RemoteChange
<1>4. MailboxType' /\ BudgetType'
  BY <1>1, <1>2 DEF mailbox, MailboxType, BudgetType
<1> QED BY <1>1, <1>3, <1>4, OutsideKeeps

LEMMA ToggleReadyKeeps == ASSUME IInv, ToggleReady PROVE IInv'
<1> USE DEF IInv, TypeOK, server, budget
<1>1. ready' \in BOOLEAN
  BY Zenon DEF ToggleReady
<1>2. MailboxType' /\ ServerType' /\ BudgetType' /\ lost' = lost /\ restores' = restores
  BY <1>1 DEF ToggleReady, MailboxType, ServerType, BudgetType
<1> QED BY <1>2, OutsideKeeps DEF ToggleReady

LEMMA LoseSessionKeeps == ASSUME IInv, NEW w \in Workers, LoseSession(w) PROVE IInv'
<1> USE DEF IInv, TypeOK, command, placement, mailbox, server, thread, history
<1>1. /\ lock' = None /\ lost' \in 0..MaxLost /\ lost' # 0
      /\ UNCHANGED <<command, placement, mailbox, server, jobs, thread, faults, remote, restores, history>>
  BY Numbers DEF LoseSession, BudgetType
<1>2. CommandType' /\ PlacementType' /\ MailboxType' /\ ServerType' /\ BudgetType' /\ HistoryType' /\ TargetIsHere'
  BY <1>1 DEF CommandType, PlacementType, MailboxType, ServerType, BudgetType, HistoryType, TargetIsHere
<1>3. ThreadType'
  BY <1>1 DEF ThreadType
<1>4. Known' /\ Placed' /\ SeesTarget' /\ AppliedFirst'
  BY <1>1 DEF Known, Placed, SeesTarget, AppliedFirst
<1>5. Alone' /\ Working' /\ NotBegun' /\ Untried'
  BY <1>1 DEF Alone, Working, NotBegun, Untried
<1>6. HonestCommand'
  BY <1>1 DEF HonestCommand, MoveOnce, SucceededWasApplied, HiddenUntilRestore, HiddenHasMove, IsMove
<1> QED BY <1>2, <1>3, <1>4, <1>5, <1>6

LEMMA RestoreKeeps == ASSUME IInv, Restore PROVE IInv'
<1> USE DEF IInv, TypeOK, placement, mailbox, server, thread, history
<1>1. /\ \A w \in Workers : pc[w] = "idle"
      /\ cstatus' = [c \in Commands |-> IF cstatus[c] \in Active THEN "failed" ELSE cstatus[c]]
      /\ UNCHANGED <<action, origin, target, original, attempts, placement, mailbox, server, jobs, lock, thread, faults, lost, remote, history>>
  BY DEF Restore
<1>2. restores' \in 0..MaxRestores /\ restores' # 0
  BY Numbers DEF Restore, BudgetType
<1>3. \A c \in Commands : cstatus'[c] = IF cstatus[c] \in Active THEN "failed" ELSE cstatus[c]
  BY <1>1
<1>4. CommandType'
  BY <1>1 DEF CommandType, Settled
<1>5. PlacementType' /\ MailboxType' /\ ServerType' /\ ThreadType' /\ BudgetType' /\ HistoryType'
  BY <1>1, <1>2 DEF PlacementType, MailboxType, ServerType, ThreadType, BudgetType, HistoryType
<1>6. TargetIsHere' /\ Placed'
  BY <1>1, <1>3 DEF TargetIsHere, Placed, Active, Settled
<1>7. Known'
  BY <1>1, <1>3 DEF Known, ThreadType, Settled
<1>8. SeesTarget' /\ AppliedFirst' /\ Alone' /\ Working' /\ NotBegun'
  BY <1>1 DEF SeesTarget, AppliedFirst, Alone, Working, NotBegun, Inside
<1>9. Untried'
  BY <1>1, <1>3 DEF Untried, Active
<1>10. HonestCommand'
  BY <1>1, <1>2, <1>3 DEF HonestCommand, MoveOnce, SucceededWasApplied, HiddenUntilRestore
<1> QED BY <1>4, <1>5, <1>6, <1>7, <1>8, <1>9, <1>10

LEMMA StutterKeeps == ASSUME IInv, UNCHANGED vars PROVE IInv'
<1> USE DEF IInv, TypeOK, vars, mailbox, server, budget
<1>1. MailboxType' /\ ServerType' /\ BudgetType' /\ lost' = lost /\ restores' = restores
  BY DEF MailboxType, ServerType, BudgetType
<1> QED BY <1>1, OutsideKeeps

LEMMA NextKeeps == ASSUME IInv, [Next]_vars PROVE IInv'
<1>1. CASE \E c \in Commands : Check(c) \/ Insert(c) \/ Poll(c) \/ Busy(c)
  BY <1>1, CheckKeeps, InsertKeeps, PollKeeps, BusyKeeps
<1>2. CASE \E w \in Workers : RunStep(w)
  BY <1>2, ReadKeeps, CheckReadyKeeps, ReadPlacementKeeps, StartKeeps, MutateKeeps, SucceedKeeps,
     SucceedThrowsKeeps, CaughtKeeps, FailKeeps, ReleaseKeeps DEF RunStep
<1>3. CASE \E w \in Workers : Abort(w) \/ LoseSession(w) \/ \E c \in Commands : Take(w, c)
  BY <1>3, AbortKeeps, LoseSessionKeeps, TakeKeeps
<1>4. CASE Synchronize \/ RemoteChange \/ ToggleReady \/ Restore
  BY <1>4, SynchronizeKeeps, RemoteChangeKeeps, ToggleReadyKeeps, RestoreKeeps
<1>5. CASE UNCHANGED vars
  BY <1>5, StutterKeeps
<1> QED BY <1>1, <1>2, <1>3, <1>4, <1>5 DEF Next

\* The inductive invariant holds in every reachable state.
THEOREM InvariantHolds == Spec => []IInv
<1>1. Init => IInv
  BY InitHolds
<1>2. IInv /\ [Next]_vars => IInv'
  BY NextKeeps
<1> QED BY <1>1, <1>2, PTL DEF Spec

\* Every variable has its type, and no inserted command refers to a deleted placement.
THEOREM TypeCorrect == Spec => []TypeOK
<1>1. IInv => TypeOK
  BY DEF IInv
<1> QED BY <1>1, InvariantHolds, PTL

\* create(), run() and fail(): a MOVE is tried once while no session of a lock is lost, a
\* command that is reported as succeeded was carried out by the server, and a hidden
\* message has a command that will show or remove it, until a backup is restored.
THEOREM CommandsAreHonest == Spec => []HonestCommand
<1>1. IInv => HonestCommand
  BY DEF IInv
<1> QED BY <1>1, InvariantHolds, PTL

\* run() does nothing for a command that is settled: while no session of a lock is
\* lost, what the owner was told of a command is never taken back.
THEOREM OutcomeStands == Spec => OutcomeIsFinal
<1> DEFINE Final == \A c \in Commands : lost = 0 /\ cstatus[c] \in Settled => cstatus'[c] = cstatus[c]
<1>1. ASSUME IInv, [Next]_vars PROVE [Final]_vars
  <2> SUFFICES ASSUME Next, NEW c \in Commands, lost = 0, cstatus[c] \in Settled
               PROVE  cstatus'[c] = cstatus[c]
    BY <1>1
  <2> USE DEF command, IInv
  <2>0. cstatus \in [Commands -> {"absent", "creating"} \cup Active \cup Settled]
    BY <1>1 DEF TypeOK, CommandType
  <2>1. CASE \E d \in Commands : Check(d) \/ Insert(d) \/ Poll(d) \/ Busy(d)
    BY <2>0, <2>1 DEF Check, Insert, Poll, Busy, Settled
  <2>2. ASSUME NEW w \in Workers, RunStep(w) PROVE cstatus'[c] = cstatus[c]
    <3>1. CASE Read(w) \/ CheckReady(w) \/ ReadPlacement(w) \/ Mutate(w) \/ SucceedThrows(w) \/ Caught(w) \/ Release(w)
      BY <3>1 DEF Read, CheckReady, ReadPlacement, Mutate, SucceedThrows, Caught, Release
    <3>2. CASE Start(w) \/ Succeed(w) \/ Fail(w)
      <4>1. pc[w] \in Inside
        BY <3>2 DEF Start, Succeed, Fail, Inside, PCs
      <4>2. cstatus[job[w]] \in Active /\ job[w] \in Commands
        BY <1>1, <4>1 DEF Working, Known, Inside
      <4>3. job[w] # c
        BY <4>2 DEF Active, Settled
      <4> QED BY <2>0, <3>2, <4>2, <4>3 DEF Start, Succeed, Fail
    <3> QED BY <2>2, <3>1, <3>2 DEF RunStep
  <2>3. CASE \E w \in Workers : Abort(w) \/ LoseSession(w) \/ \E d \in Commands : Take(w, d)
    BY <2>3 DEF Abort, LoseSession, Take
  <2>4. CASE Synchronize \/ RemoteChange \/ ToggleReady
    BY <2>4 DEF Synchronize, RemoteChange, ToggleReady
  <2>5. CASE Restore
    <3>1. cstatus[c] \notin Active
      BY DEF Active, Settled
    <3> QED BY <2>5, <3>1 DEF Restore
  <2> QED BY <2>1, <2>2, <2>3, <2>4, <2>5 DEF Next
<1> QED BY <1>1, InvariantHolds, PTL DEF Spec, OutcomeIsFinal

-----------------------------------------------------------------------------
(* The text of a message *)

CONSTANTS Boxes, RetryLimit, MaxChanges, MaxOutlived
VARIABLES content, usable, textJobs, work, boss, request, spent, reader, textBudget

Text == INSTANCE MessageContent WITH jobs <- textJobs, budget <- textBudget

WorkState == [box : Boxes \cup {None}, pc : {"idle", "read", "mark", "fetch", "write", "fail"}, try : 0..RetryLimit + 1]
ContentTypes ==
  /\ content \in [status : Text!Statuses, body : {"none", "old", "new"}]
  /\ content.status = "ready" => content.body # "none"
  /\ usable \subseteq Boxes /\ textJobs \in [Boxes -> Text!JobState] /\ work \in [Text!Handlers -> WorkState]
  /\ boss \in Text!Boss /\ reader \in Text!Pane
  /\ request \in [box : Boxes \cup {None}, pc : {"none", "row", "job"}]
  /\ textBudget \in [{"changes", "faults", "outlived"} -> Nat]
ContentFlag == spent \in BOOLEAN

\* A handler and a request are of a mailbox, and the handler's job runs.
WorksForBox ==
  /\ \A h \in Text!Handlers : work[h].pc = "idle" => work[h] = Text!NoWork
  /\ \A h \in Text!Handlers : work[h].pc # "idle" => work[h].box \in Boxes
  /\ request.pc = "none" => request = Text!NoRequest
  /\ request.pc # "none" => request.box \in Boxes
  /\ work["current"].pc # "idle" => textJobs[work["current"].box].runs > 0

\* A job or a handler has the work; a row is pending before that only while its
\* request is about to make the job.
InHand ==
  \/ \E b \in Boxes : textJobs[b].waits \/ textJobs[b].again > 0 \/ textJobs[b].runs > 0
  \/ \E h \in Text!Handlers : work[h].pc # "idle"
HasOwner ==
  /\ Text!UnderWay /\ ~spent => request.pc = "job" \/ InHand
  /\ content.status = "fetching" /\ ~spent => InHand

\* As long as no handler outlived its job, the one there is has seen what it writes over.
NoneOutlived == textBudget.outlived = MaxOutlived => work["outlived"].pc = "idle"
SeesText == textBudget.outlived = MaxOutlived /\ work["current"].pc \in {"mark", "fetch", "write"} => ~Text!Current
SpentSome == textBudget.outlived <= MaxOutlived

ContentInv == ContentTypes /\ ContentFlag /\ WorksForBox /\ HasOwner /\ NoneOutlived /\ SeesText /\ SpentSome

LEMMA ContentFacts == ASSUME Text!ContentAssumption
  PROVE None \notin Boxes /\ RetryLimit \in Nat /\ MaxChanges \in Nat /\ MaxFaults \in Nat /\ MaxOutlived \in Nat
BY DEF Text!ContentAssumption

LEMMA NothingAtWork == ASSUME Text!ContentAssumption
  PROVE /\ Text!NoWork \in WorkState /\ Text!NoWork.pc = "idle"
        /\ Text!NoRequest \in [box : Boxes \cup {None}, pc : {"none", "row", "job"}] /\ Text!NoRequest.pc = "none"
BY ContentFacts DEF Text!NoWork, WorkState, Text!NoRequest

LEMMA ContentSpendIs == ASSUME ContentTypes, NEW what \in {"changes", "faults", "outlived"}, Text!Spend(what)
  PROVE /\ textBudget' \in [{"changes", "faults", "outlived"} -> Nat]
        /\ textBudget'.outlived = IF what = "outlived" THEN textBudget.outlived - 1 ELSE textBudget.outlived
BY DEF ContentTypes, Text!Spend

LEMMA RepeatIs == ASSUME Text!ContentAssumption, ContentTypes, NEW b \in Boxes
  PROVE /\ Text!Repeat(b) \in [Boxes -> Text!JobState]
        /\ \A c \in Boxes : c # b => Text!Repeat(b)[c] = textJobs[c]
        /\ textJobs[b].runs > 0 /\ Text!Tries(b) => Text!Repeat(b)[b].again > 0
<1>1. /\ textJobs[b].runs \in 0..RetryLimit + 1 /\ textJobs[b].waits \in BOOLEAN /\ RetryLimit \in Nat
      /\ textJobs \in [Boxes -> Text!JobState] /\ textJobs[b] \in Text!JobState
  BY ContentFacts DEF ContentTypes, Text!JobState
<1> DEFINE a == IF Text!Tries(b) THEN textJobs[b].runs ELSE 0
<1>2. a \in 0..RetryLimit /\ 0 \in 0..RetryLimit + 1 /\ (textJobs[b].runs > 0 /\ Text!Tries(b) => a > 0)
  BY <1>1 DEF Text!Tries
<1>3. Text!Repeat(b) = [textJobs EXCEPT ![b].runs = 0, ![b].again = a]
  BY DEF Text!Repeat
<1> HIDE DEF a
<1>4. Text!Repeat(b) = [textJobs EXCEPT ![b] = [textJobs[b] EXCEPT !.runs = 0, !.again = a]]
  BY <1>1, <1>3
<1>5. [textJobs[b] EXCEPT !.runs = 0, !.again = a] \in Text!JobState /\ [textJobs[b] EXCEPT !.runs = 0, !.again = a].again = a
  BY <1>1, <1>2 DEF Text!JobState
<1> QED BY <1>1, <1>2, <1>4, <1>5

\* Steps that leave the row, the jobs and the handlers alone.
LEMMA ContentAside ==
  ASSUME Text!ContentAssumption, ContentInv, UNCHANGED <<content, textJobs, work>>, spent' \in {spent, TRUE},
         usable' \subseteq Boxes, boss' \in Text!Boss, reader' \in Text!Pane,
         request' \in [box : Boxes \cup {None}, pc : {"none", "row", "job"}],
         request'.pc = "none" => request' = Text!NoRequest, request'.pc # "none" => request'.box \in Boxes,
         textBudget' \in [{"changes", "faults", "outlived"} -> Nat], textBudget'.outlived = textBudget.outlived,
         ~spent' /\ request.pc = "job" => request'.pc = "job" \/ InHand
  PROVE  ContentInv'
<1>1. ContentTypes' /\ ContentFlag'
  BY DEF ContentInv, ContentTypes, ContentFlag
<1>2. WorksForBox'
  BY DEF ContentInv, WorksForBox
<1>3. HasOwner'
  <2>1. (InHand' <=> InHand) /\ (Text!UnderWay' <=> Text!UnderWay)
    BY DEF InHand, Text!UnderWay
  <2>2. CASE spent' = spent
    BY <2>1, <2>2 DEF ContentInv, HasOwner
  <2>3. CASE spent' = TRUE
    BY <2>3 DEF HasOwner
  <2> QED BY <2>2, <2>3
<1>4. NoneOutlived' /\ SeesText' /\ SpentSome'
  BY DEF ContentInv, NoneOutlived, SeesText, SpentSome, Text!Current
<1> QED BY <1>1, <1>2, <1>3, <1>4 DEF ContentInv

LEMMA ContentPaneKeeps == ASSUME Text!ContentAssumption, ContentInv,
  (\E b \in Boxes : Text!Open(b)) \/ Text!Close \/ Text!Poll \/ Text!Retry
  PROVE ContentInv'
<1>1. /\ UNCHANGED <<content, usable, textJobs, work, boss, spent, textBudget>>
      /\ usable \subseteq Boxes /\ boss \in Text!Boss /\ reader \in Text!Pane /\ content \in [status : Text!Statuses, body : {"none", "old", "new"}]
      /\ request \in [box : Boxes \cup {None}, pc : {"none", "row", "job"}]
      /\ textBudget \in [{"changes", "faults", "outlived"} -> Nat]
  BY DEF Text!Open, Text!Close, Text!Poll, Text!Retry, ContentInv, ContentTypes
<1>2. CASE (\E b \in Boxes : Text!Open(b)) \/ Text!Close
  <2>1. request' = request /\ reader' \in Text!Pane
    BY <1>2 DEF Text!Open, Text!Close, Text!Pane
  <2> QED BY <1>1, <2>1, ContentAside DEF ContentInv, WorksForBox
<1>3. ASSUME NEW b \in Boxes, reader.box = b, request = Text!NoRequest, Text!Ask(b) PROVE ContentInv'
  <2>1. reader' \in Text!Pane
    BY <1>1, <1>3 DEF Text!Ask, Text!Pane, Text!Statuses
  <2>2. request' \in {Text!NoRequest, [box |-> b, pc |-> "row"]}
    BY <1>3 DEF Text!Ask
  <2>3. request.pc # "job"
    BY <1>3, NothingAtWork
  <2>4. /\ request' \in [box : Boxes \cup {None}, pc : {"none", "row", "job"}]
        /\ request'.pc = "none" => request' = Text!NoRequest
        /\ request'.pc # "none" => request'.box \in Boxes
    BY <2>2, NothingAtWork
  <2> QED BY <1>1, <2>1, <2>2, <2>3, <2>4, NothingAtWork, ContentAside
<1>4. CASE Text!Poll \/ Text!Retry
  <2>1. reader.box \in Boxes /\ request = Text!NoRequest
    BY <1>1, <1>4 DEF Text!Poll, Text!Retry, Text!Pane
  <2>2. CASE Text!Ask(reader.box)
    BY <1>3, <2>1, <2>2
  <2>3. CASE reader' = [reader EXCEPT !.shows = content.status] /\ request' = request
    <3>1. reader' \in Text!Pane
      BY <1>1, <2>3 DEF Text!Pane
    <3> QED BY <1>1, <2>1, <2>3, <3>1, NothingAtWork, ContentAside
  <2> QED BY <1>4, <2>2, <2>3 DEF Text!Poll, Text!Retry
<1> QED BY <1>2, <1>4

LEMMA ContentChangeKeeps == ASSUME Text!ContentAssumption, ContentInv, Text!Change PROVE ContentInv'
<1>1. /\ UNCHANGED <<content, textJobs, work, boss, request, spent, reader>> /\ Text!Spend("changes") /\ usable' \subseteq Boxes
  BY DEF Text!Change, ContentInv, ContentTypes
<1>2. textBudget' \in [{"changes", "faults", "outlived"} -> Nat] /\ textBudget'.outlived = textBudget.outlived
  BY <1>1, ContentSpendIs DEF ContentInv
<1>3. /\ boss \in Text!Boss /\ reader \in Text!Pane /\ request \in [box : Boxes \cup {None}, pc : {"none", "row", "job"}]
      /\ request.pc = "none" => request = Text!NoRequest
      /\ request.pc # "none" => request.box \in Boxes
  BY DEF ContentInv, ContentTypes, WorksForBox
<1> QED BY <1>1, <1>2, <1>3, ContentAside

LEMMA WebCrashKeeps == ASSUME Text!ContentAssumption, ContentInv, Text!WebCrash PROVE ContentInv'
<1>1. /\ UNCHANGED <<content, usable, textJobs, work, reader>> /\ boss' = "new" /\ request' = Text!NoRequest /\ Text!Spend("faults")
      /\ spent' = (spent \/ request.pc = "job") /\ usable \subseteq Boxes /\ reader \in Text!Pane /\ spent \in BOOLEAN
  BY DEF Text!WebCrash, ContentInv, ContentTypes, ContentFlag
<1>2. textBudget' \in [{"changes", "faults", "outlived"} -> Nat] /\ textBudget'.outlived = textBudget.outlived
  BY <1>1, ContentSpendIs DEF ContentInv
<1>3. spent' \in {spent, TRUE} /\ (request.pc = "job" => spent')
  BY <1>1
<1> QED BY <1>1, <1>2, <1>3, NothingAtWork, ContentAside DEF Text!Boss

LEMMA WriteRowKeeps == ASSUME Text!ContentAssumption, ContentInv, Text!WriteRow PROVE ContentInv'
<1>1. /\ request.pc = "row" /\ content' = [content EXCEPT !.status = "pending"] /\ request' = [request EXCEPT !.pc = "job"]
      /\ UNCHANGED <<usable, textJobs, work, boss, spent, reader, textBudget>>
      /\ content \in [status : Text!Statuses, body : {"none", "old", "new"}]
      /\ request \in [box : Boxes \cup {None}, pc : {"none", "row", "job"}]
  BY DEF Text!WriteRow, Text!SetStatus, ContentInv, ContentTypes
<1>2. content'.status = "pending" /\ request'.pc = "job" /\ request'.box = request.box
  BY <1>1
<1>3. ContentTypes' /\ ContentFlag'
  BY <1>1, <1>2 DEF ContentInv, ContentTypes, ContentFlag, Text!Statuses
<1>4. WorksForBox'
  BY <1>1, <1>2 DEF ContentInv, WorksForBox
<1>5. HasOwner'
  BY <1>2 DEF HasOwner
<1>6. NoneOutlived' /\ SeesText' /\ SpentSome'
  BY <1>1, <1>2 DEF ContentInv, NoneOutlived, SeesText, SpentSome, Text!Current
<1> QED BY <1>3, <1>4, <1>5, <1>6 DEF ContentInv

LEMMA ScheduledKeeps == ASSUME Text!ContentAssumption, ContentInv, Text!Scheduled PROVE ContentInv'
<1>1. /\ request.pc = "job" /\ boss' = "started" /\ textJobs' = [textJobs EXCEPT ![request.box].waits = TRUE] /\ request' = Text!NoRequest
      /\ UNCHANGED <<content, usable, work, spent, reader, textBudget>>
      /\ request.box \in Boxes /\ textJobs \in [Boxes -> Text!JobState]
  BY DEF Text!Scheduled, ContentInv, ContentTypes, WorksForBox
<1>2. /\ textJobs' \in [Boxes -> Text!JobState] /\ textJobs'[request.box].waits
      /\ \A b \in Boxes : textJobs'[b].runs = textJobs[b].runs
  BY <1>1 DEF Text!JobState
<1>3. ContentTypes' /\ ContentFlag'
  BY <1>1, <1>2, NothingAtWork DEF ContentInv, ContentTypes, ContentFlag, Text!Boss
<1>4. WorksForBox'
  BY <1>1, <1>2, NothingAtWork DEF ContentInv, WorksForBox
<1>5. HasOwner'
  BY <1>1, <1>2 DEF HasOwner, InHand
<1>6. NoneOutlived' /\ SeesText' /\ SpentSome'
  BY <1>1 DEF ContentInv, NoneOutlived, SeesText, SpentSome, Text!Current
<1> QED BY <1>3, <1>4, <1>5, <1>6 DEF ContentInv

LEMMA NotScheduledKeeps == ASSUME Text!ContentAssumption, ContentInv, Text!NotScheduled PROVE ContentInv'
<1>1. /\ request.pc = "job" /\ request' = Text!NoRequest
      /\ content' = IF content.status = "pending" THEN [content EXCEPT !.status = "failed"] ELSE content
      /\ UNCHANGED <<usable, textJobs, work, spent>>
      /\ content \in [status : Text!Statuses, body : {"none", "old", "new"}] /\ reader \in Text!Pane /\ boss \in Text!Boss
  BY DEF Text!NotScheduled, Text!Unscheduled, Text!SetStatus, ContentInv, ContentTypes
<1>2. boss' \in Text!Boss /\ reader' \in Text!Pane
  BY <1>1 DEF Text!NotScheduled, Text!Boss, Text!Pane
<1>3. textBudget' \in [{"changes", "faults", "outlived"} -> Nat] /\ textBudget'.outlived = textBudget.outlived
  <2>1. textBudget' = textBudget \/ Text!Spend("faults")
    BY DEF Text!NotScheduled
  <2> QED BY <2>1, ContentSpendIs DEF ContentInv, ContentTypes
<1>4. /\ content' \in [status : Text!Statuses, body : {"none", "old", "new"}] /\ content'.status # "pending"
      /\ content'.body = content.body
      /\ content'.status \in {content.status, "failed"}
  BY <1>1 DEF Text!Statuses
<1>5. ContentTypes' /\ ContentFlag'
  BY <1>1, <1>2, <1>3, <1>4, NothingAtWork DEF ContentInv, ContentTypes, ContentFlag
<1>6. WorksForBox'
  BY <1>1, NothingAtWork DEF ContentInv, WorksForBox
<1>7. HasOwner'
  <2>1. InHand' <=> InHand
    BY <1>1 DEF InHand
  <2> QED BY <1>1, <1>4, <2>1 DEF ContentInv, HasOwner, Text!UnderWay
<1>8. NoneOutlived' /\ SeesText' /\ SpentSome'
  BY <1>1, <1>3, <1>4 DEF ContentInv, NoneOutlived, SeesText, SpentSome, Text!Current
<1> QED BY <1>5, <1>6, <1>7, <1>8 DEF ContentInv

LEMMA ContentTakeKeeps == ASSUME Text!ContentAssumption, ContentInv, NEW b \in Boxes, Text!Take(b) PROVE ContentInv'
<1>1. /\ work["current"] = Text!NoWork /\ textJobs[b].runs = 0
      /\ work' = [work EXCEPT !["current"] = [box |-> b, pc |-> "read", try |-> textJobs'[b].runs]]
      /\ UNCHANGED <<content, usable, boss, request, spent, reader, textBudget>>
      /\ textJobs \in [Boxes -> Text!JobState] /\ work \in [Text!Handlers -> WorkState]
  BY DEF Text!Take, ContentInv, ContentTypes
<1>2. textJobs' \in [Boxes -> Text!JobState] /\ textJobs'[b].runs > 0 /\ textJobs'[b].runs \in 0..RetryLimit + 1
  <2>1. RetryLimit \in Nat /\ textJobs[b].again \in 0..RetryLimit /\ textJobs[b] \in Text!JobState
    BY <1>1, ContentFacts DEF Text!JobState
  <2>2. CASE textJobs' = [textJobs EXCEPT ![b].waits = FALSE, ![b].runs = 1]
    BY <1>1, <2>1, <2>2 DEF Text!JobState
  <2>3. CASE textJobs[b].again > 0 /\ textJobs' = [textJobs EXCEPT ![b].again = 0, ![b].runs = textJobs[b].again + 1]
    <3>1. textJobs[b].again + 1 \in 0..RetryLimit + 1 /\ textJobs[b].again + 1 > 0 /\ 0 \in 0..RetryLimit
      BY <2>1, <2>3
    <3> QED BY <1>1, <2>1, <2>3, <3>1 DEF Text!JobState
  <2> QED BY <2>2, <2>3 DEF Text!Take
<1>3. /\ work' \in [Text!Handlers -> WorkState] /\ work'["current"].pc = "read" /\ work'["current"].box = b
      /\ work'["outlived"] = work["outlived"]
  BY <1>1, <1>2 DEF WorkState, Text!Handlers
<1>4. ContentTypes' /\ ContentFlag'
  BY <1>1, <1>2, <1>3 DEF ContentInv, ContentTypes, ContentFlag
<1>5. WorksForBox'
  BY <1>1, <1>2, <1>3 DEF ContentInv, WorksForBox, Text!Handlers
<1>6. HasOwner'
  <2>1. InHand'
    BY <1>2 DEF InHand
  <2> QED BY <2>1 DEF HasOwner
<1>7. NoneOutlived' /\ SeesText' /\ SpentSome'
  BY <1>1, <1>3 DEF ContentInv, NoneOutlived, SeesText, SpentSome, Text!Current
<1> QED BY <1>4, <1>5, <1>6, <1>7 DEF ContentInv

\* A handler goes on; what it does next is not to end.
LEMMA GoesOn ==
  ASSUME Text!ContentAssumption, ContentInv, NEW h \in Text!Handlers, NEW step \in {"mark", "fetch", "write", "fail"},
         work[h].pc # "idle", Text!Goto(h, step), UNCHANGED <<usable, textJobs, boss, request, spent, reader>>,
         content' \in [status : Text!Statuses, body : {"none", "old", "new"}], content'.status = "ready" => content'.body # "none",
         textBudget' \in [{"changes", "faults", "outlived"} -> Nat], textBudget'.outlived = textBudget.outlived,
         h = "current" /\ step # "fail" /\ textBudget.outlived = MaxOutlived => ~Text!Current', Text!Current' => Text!Current
  PROVE  ContentInv'
<1>1. work' = [work EXCEPT ![h].pc = step] /\ work \in [Text!Handlers -> WorkState]
  BY DEF Text!Goto, ContentInv, ContentTypes
<1>2. /\ work' \in [Text!Handlers -> WorkState] /\ work'[h].pc = step /\ work'[h].box = work[h].box
      /\ \A k \in Text!Handlers : k # h => work'[k] = work[k]
  BY <1>1 DEF WorkState
<1>3. ContentTypes' /\ ContentFlag'
  BY <1>2 DEF ContentInv, ContentTypes, ContentFlag
<1>4. WorksForBox'
  BY <1>2 DEF ContentInv, WorksForBox, Text!Handlers
<1>5. HasOwner'
  <2>1. InHand'
    BY <1>2 DEF InHand
  <2> QED BY <2>1 DEF HasOwner
<1>6. NoneOutlived' /\ SpentSome'
  BY <1>2 DEF ContentInv, NoneOutlived, SpentSome, Text!Handlers
<1>7. SeesText'
  <2>1. CASE h = "current"
    BY <1>2, <2>1 DEF SeesText
  <2>2. CASE h # "current"
    BY <1>2, <2>2 DEF ContentInv, SeesText, Text!Handlers
  <2> QED BY <2>1, <2>2
<1> QED BY <1>3, <1>4, <1>5, <1>6, <1>7 DEF ContentInv

\* A handler ends, and with it nothing is under way.
LEMMA ComesToEnd ==
  ASSUME Text!ContentAssumption, ContentInv, NEW h \in Text!Handlers, work' = [work EXCEPT ![h] = Text!NoWork],
         textJobs' \in [Boxes -> Text!JobState], UNCHANGED <<usable, boss, request, spent, reader, textBudget>>,
         h = "outlived" => textJobs' = textJobs,
         content' \in [status : Text!Statuses, body : {"none", "old", "new"}], content'.status = "ready" => content'.body # "none",
         ~Text!UnderWay', h = "outlived" => (Text!Current' => Text!Current) \/ textBudget.outlived # MaxOutlived
  PROVE  ContentInv'
<1>1. /\ work \in [Text!Handlers -> WorkState] /\ work' \in [Text!Handlers -> WorkState] /\ work'[h] = Text!NoWork
      /\ \A k \in Text!Handlers : k # h => work'[k] = work[k]
  BY NothingAtWork DEF ContentInv, ContentTypes
<1>2. ContentTypes' /\ ContentFlag'
  BY <1>1 DEF ContentInv, ContentTypes, ContentFlag
<1>3. WorksForBox'
  BY <1>1, NothingAtWork DEF ContentInv, WorksForBox, Text!Handlers
<1>4. HasOwner'
  BY DEF HasOwner, Text!UnderWay
<1>5. NoneOutlived' /\ SpentSome'
  BY <1>1, NothingAtWork DEF ContentInv, NoneOutlived, SpentSome, Text!Handlers
<1>6. SeesText'
  <2>1. CASE h = "current"
    BY <1>1, <2>1, NothingAtWork DEF SeesText
  <2>2. CASE h = "outlived"
    BY <1>1, <2>2 DEF ContentInv, SeesText, Text!Handlers
  <2> QED BY <2>1, <2>2 DEF Text!Handlers
<1> QED BY <1>2, <1>3, <1>4, <1>5, <1>6 DEF ContentInv

LEMMA JobEnds == ASSUME Text!ContentAssumption, ContentInv, NEW h \in Text!Handlers, work[h].pc # "idle"
  PROVE Text!Finish(h) \/ Text!Throw(h) =>
          work' = [work EXCEPT ![h] = Text!NoWork] /\ textJobs' \in [Boxes -> Text!JobState] /\ (h = "outlived" => textJobs' = textJobs)
<1>1. work[h].box \in Boxes /\ textJobs \in [Boxes -> Text!JobState] /\ RetryLimit \in Nat
  BY ContentFacts DEF ContentInv, WorksForBox, ContentTypes
<1>2. [textJobs EXCEPT ![work[h].box].runs = 0] \in [Boxes -> Text!JobState]
  <2>1. 0 \in 0..RetryLimit + 1
    BY <1>1
  <2> QED BY <1>1, <2>1 DEF Text!JobState
<1>3. Text!Repeat(work[h].box) \in [Boxes -> Text!JobState]
  BY <1>1, RepeatIs DEF ContentInv
<1> QED BY <1>1, <1>2, <1>3 DEF Text!Finish, Text!Throw

LEMMA ContentReadKeeps == ASSUME Text!ContentAssumption, ContentInv, NEW h \in Text!Handlers, Text!Read(h) PROVE ContentInv'
<1>1. /\ work[h].pc = "read" /\ work[h].pc # "idle" /\ UNCHANGED <<content, usable, boss, request, spent, reader, textBudget>>
      /\ content \in [status : Text!Statuses, body : {"none", "old", "new"}] /\ (content.status = "ready" => content.body # "none")
      /\ textBudget \in [{"changes", "faults", "outlived"} -> Nat]
  BY DEF Text!Read, ContentInv, ContentTypes
<1>2. CASE Text!Fetched(h) /\ Text!Finish(h)
  <2>1. ~Text!UnderWay' /\ (Text!Current' => Text!Current)
    BY <1>1, <1>2 DEF Text!Fetched, Text!Current, Text!UnderWay
  <2> QED BY <1>1, <1>2, <2>1, JobEnds, ComesToEnd
<1>3. CASE ~Text!Fetched(h) /\ Text!Goto(h, "mark") /\ UNCHANGED textJobs
  <2>1. ~Text!Current' /\ (Text!Current' => Text!Current)
    BY <1>1, <1>3 DEF Text!Fetched, Text!Current
  <2> QED BY <1>1, <1>3, <2>1, GoesOn
<1>4. CASE Text!Goto(h, "fail") /\ UNCHANGED textJobs
  <2>1. Text!Current' => Text!Current
    BY <1>1 DEF Text!Current
  <2> QED BY <1>1, <1>4, <2>1, GoesOn
<1> QED BY <1>2, <1>3, <1>4 DEF Text!Read

LEMMA ContentMarkKeeps == ASSUME Text!ContentAssumption, ContentInv, NEW h \in Text!Handlers, Text!Mark(h) PROVE ContentInv'
<1>1. /\ work[h].pc = "mark" /\ work[h].pc # "idle" /\ content' = [content EXCEPT !.status = "fetching"] /\ Text!Goto(h, "fetch")
      /\ UNCHANGED <<usable, textJobs, boss, request, spent, reader, textBudget>>
      /\ content \in [status : Text!Statuses, body : {"none", "old", "new"}]
      /\ textBudget \in [{"changes", "faults", "outlived"} -> Nat]
  BY DEF Text!Mark, Text!SetStatus, ContentInv, ContentTypes
<1>2. content' \in [status : Text!Statuses, body : {"none", "old", "new"}] /\ content'.status = "fetching"
  BY <1>1 DEF Text!Statuses
<1>3. ~Text!Current'
  BY <1>2 DEF Text!Current
<1> QED BY <1>1, <1>2, <1>3, GoesOn

LEMMA ContentFetchKeeps == ASSUME Text!ContentAssumption, ContentInv, NEW h \in Text!Handlers, Text!Fetch(h) PROVE ContentInv'
<1>1. /\ work[h].pc = "fetch" /\ work[h].pc # "idle"
      /\ UNCHANGED <<content, usable, textJobs, boss, request, spent, reader>>
      /\ content \in [status : Text!Statuses, body : {"none", "old", "new"}] /\ (content.status = "ready" => content.body # "none")
      /\ textBudget \in [{"changes", "faults", "outlived"} -> Nat]
  BY DEF Text!Fetch, ContentInv, ContentTypes
<1>2. textBudget' \in [{"changes", "faults", "outlived"} -> Nat] /\ textBudget'.outlived = textBudget.outlived
  <2>1. textBudget' = textBudget \/ Text!Spend("faults")
    BY DEF Text!Fetch
  <2> QED BY <1>1, <2>1, ContentSpendIs DEF ContentInv
<1>3. (Text!Current' => Text!Current) /\ (h = "current" /\ textBudget.outlived = MaxOutlived => ~Text!Current')
  BY <1>1 DEF ContentInv, SeesText, Text!Current
<1>4. Text!Goto(h, "write") \/ Text!Goto(h, "fail")
  BY DEF Text!Fetch
<1> QED BY <1>1, <1>2, <1>3, <1>4, GoesOn

LEMMA ContentWriteKeeps == ASSUME Text!ContentAssumption, ContentInv, NEW h \in Text!Handlers, Text!Write(h) PROVE ContentInv'
<1>1. /\ work[h].pc = "write" /\ work[h].pc # "idle" /\ content' = [status |-> "ready", body |-> "new"] /\ Text!Finish(h)
      /\ UNCHANGED <<usable, boss, request, spent, reader, textBudget>>
  BY DEF Text!Write
<1>2. content' \in [status : Text!Statuses, body : {"none", "old", "new"}] /\ content'.body # "none" /\ ~Text!UnderWay'
  BY <1>1 DEF Text!Statuses, Text!UnderWay
<1>3. h = "outlived" => textBudget.outlived # MaxOutlived
  BY <1>1 DEF ContentInv, NoneOutlived
<1> QED BY <1>1, <1>2, <1>3, JobEnds, ComesToEnd

LEMMA ContentFailKeeps == ASSUME Text!ContentAssumption, ContentInv, NEW h \in Text!Handlers, Text!Fail(h) PROVE ContentInv'
<1>1. /\ work[h].pc = "fail" /\ work[h].pc # "idle" /\ Text!Throw(h)
      /\ content' = IF content.status = "ready" THEN content ELSE [content EXCEPT !.status = "failed"]
      /\ UNCHANGED <<usable, boss, request, spent, reader, textBudget>>
      /\ content \in [status : Text!Statuses, body : {"none", "old", "new"}] /\ (content.status = "ready" => content.body # "none")
  BY DEF Text!Fail, Text!SetStatus, ContentInv, ContentTypes
<1>2. /\ content' \in [status : Text!Statuses, body : {"none", "old", "new"}] /\ (content'.status = "ready" => content' = content)
      /\ content'.status \in {"ready", "failed"}
  BY <1>1 DEF Text!Statuses
<1>3. ~Text!UnderWay' /\ (Text!Current' => Text!Current) /\ (content'.status = "ready" => content'.body # "none")
  BY <1>1, <1>2 DEF Text!UnderWay, Text!Current
<1> QED BY <1>1, <1>2, <1>3, JobEnds, ComesToEnd

LEMMA WorkerCrashKeeps == ASSUME Text!ContentAssumption, ContentInv, Text!WorkerCrash PROVE ContentInv'
<1>1. /\ work' = [h \in Text!Handlers |-> Text!NoWork] /\ spent' = (spent \/ work["outlived"] # Text!NoWork)
      /\ UNCHANGED <<content, usable, textJobs, boss, request, reader>> /\ Text!Spend("faults") /\ spent \in BOOLEAN
  BY DEF Text!WorkerCrash, ContentInv, ContentFlag
<1>2. textBudget' \in [{"changes", "faults", "outlived"} -> Nat] /\ textBudget'.outlived = textBudget.outlived
  BY <1>1, ContentSpendIs DEF ContentInv
<1>3. work' \in [Text!Handlers -> WorkState] /\ \A h \in Text!Handlers : work'[h] = Text!NoWork
  BY <1>1, NothingAtWork
<1>4. spent' \in BOOLEAN
  BY <1>1
<1>5. ContentTypes' /\ ContentFlag'
  BY <1>1, <1>2, <1>3, <1>4 DEF ContentInv, ContentTypes, ContentFlag
<1>6. WorksForBox'
  BY <1>1, <1>3, NothingAtWork DEF ContentInv, WorksForBox, Text!Handlers
<1>7. HasOwner'
  <2> SUFFICES ASSUME ~spent' PROVE HasOwner'
    BY DEF HasOwner
  <2>1. ~spent /\ work["outlived"] = Text!NoWork
    BY <1>1
  <2>2. InHand => InHand'
    <3>1. work["outlived"].pc = "idle"
      BY <2>1, NothingAtWork
    <3>2. work["current"].pc # "idle" => work["current"].box \in Boxes /\ textJobs[work["current"].box].runs > 0
      BY DEF ContentInv, WorksForBox, Text!Handlers
    <3> QED BY <1>1, <3>1, <3>2 DEF InHand, Text!Handlers
  <2> QED BY <1>1, <2>1, <2>2 DEF ContentInv, HasOwner, Text!UnderWay
<1>8. NoneOutlived' /\ SeesText' /\ SpentSome'
  BY <1>1, <1>2, <1>3, NothingAtWork DEF ContentInv, NoneOutlived, SeesText, SpentSome, Text!Handlers
<1> QED BY <1>5, <1>6, <1>7, <1>8 DEF ContentInv

LEMMA ContentExpireKeeps == ASSUME Text!ContentAssumption, ContentInv, NEW b \in Boxes, Text!Expire(b) PROVE ContentInv'
<1>1. /\ textJobs[b].runs > 0 /\ textJobs' = Text!Repeat(b) /\ spent' = (spent \/ ~Text!Tries(b))
      /\ UNCHANGED <<content, usable, boss, request, reader>> /\ spent \in BOOLEAN
      /\ work \in [Text!Handlers -> WorkState] /\ textBudget \in [{"changes", "faults", "outlived"} -> Nat]
  BY DEF Text!Expire, ContentInv, ContentFlag, ContentTypes
<1>2. textJobs' \in [Boxes -> Text!JobState] /\ (\A c \in Boxes : c # b => textJobs'[c] = textJobs[c]) /\ (Text!Tries(b) => textJobs'[b].again > 0)
  BY <1>1, RepeatIs DEF ContentInv
<1>3. spent' \in BOOLEAN
  BY <1>1
<1>4. HasOwner'
  <2>1. CASE Text!Tries(b)
    <3>1. InHand'
      BY <1>2, <2>1 DEF InHand
    <3> QED BY <3>1 DEF HasOwner
  <2>2. CASE ~Text!Tries(b)
    BY <1>1, <2>2 DEF HasOwner
  <2> QED BY <2>1, <2>2
<1>5. CASE work["current"].box # b /\ UNCHANGED <<work, textBudget>>
  <2>1. ContentTypes' /\ ContentFlag'
    BY <1>1, <1>2, <1>3, <1>5 DEF ContentInv, ContentTypes, ContentFlag
  <2>2. WorksForBox'
    BY <1>1, <1>2, <1>5 DEF ContentInv, WorksForBox, Text!Handlers
  <2>3. NoneOutlived' /\ SeesText' /\ SpentSome'
    BY <1>1, <1>5 DEF ContentInv, NoneOutlived, SeesText, SpentSome, Text!Current
  <2> QED BY <1>4, <2>1, <2>2, <2>3 DEF ContentInv
<1>6. CASE /\ work["current"].box = b /\ Text!Spend("outlived")
           /\ work' = [work EXCEPT !["outlived"] = work["current"], !["current"] = Text!NoWork]
  <2>1. textBudget' \in [{"changes", "faults", "outlived"} -> Nat] /\ textBudget'.outlived = textBudget.outlived - 1 /\ textBudget.outlived > 0
    BY <1>1, <1>6, ContentSpendIs DEF ContentInv, Text!Spend
  <2>2. work' \in [Text!Handlers -> WorkState] /\ work'["current"] = Text!NoWork /\ work'["outlived"] = work["current"]
    BY <1>1, <1>6, NothingAtWork DEF Text!Handlers
  <2>3. ContentTypes' /\ ContentFlag'
    BY <1>1, <1>2, <1>3, <2>1, <2>2 DEF ContentInv, ContentTypes, ContentFlag
  <2>4. WorksForBox'
    BY <1>1, <2>2, NothingAtWork DEF ContentInv, WorksForBox, Text!Handlers
  <2>5. textBudget'.outlived < MaxOutlived /\ textBudget'.outlived # MaxOutlived
    BY <1>1, <2>1, ContentFacts DEF ContentInv, SpentSome
  <2>6. NoneOutlived' /\ SeesText' /\ SpentSome'
    <3>1. textBudget'.outlived \in Nat /\ MaxOutlived \in Nat
      BY <2>1, ContentFacts
    <3>2. textBudget'.outlived <= MaxOutlived
      BY <2>5, <3>1
    <3> QED BY <2>5, <3>2 DEF NoneOutlived, SeesText, SpentSome
  <2> QED BY <1>4, <2>3, <2>4, <2>6 DEF ContentInv
<1> QED BY <1>5, <1>6 DEF Text!Expire

LEMMA ContentInitHolds == ASSUME Text!ContentAssumption, Text!Init PROVE ContentInv
<1>1. /\ content \in {[status |-> "not_fetched", body |-> "none"], [status |-> "ready", body |-> "old"]} /\ usable = Boxes
      /\ textJobs = [b \in Boxes |-> [waits |-> FALSE, again |-> 0, runs |-> 0]] /\ work = [h \in Text!Handlers |-> Text!NoWork]
      /\ boss = "new" /\ request = Text!NoRequest /\ spent = FALSE /\ reader = [box |-> None, shows |-> "loading"]
      /\ textBudget = [changes |-> MaxChanges, faults |-> MaxFaults, outlived |-> MaxOutlived]
  BY DEF Text!Init
<1>2. ContentTypes /\ ContentFlag
  <2>1. [waits |-> FALSE, again |-> 0, runs |-> 0] \in Text!JobState
    BY ContentFacts DEF Text!JobState
  <2>2. /\ content \in [status : Text!Statuses, body : {"none", "old", "new"}]
        /\ content.status = "ready" => content.body # "none"
    BY <1>1 DEF Text!Statuses
  <2>3. textBudget \in [{"changes", "faults", "outlived"} -> Nat]
    BY <1>1, ContentFacts
  <2>4. reader \in Text!Pane /\ boss \in Text!Boss
    BY <1>1 DEF Text!Pane, Text!Boss
  <2> QED BY <1>1, <2>1, <2>2, <2>3, <2>4, NothingAtWork DEF ContentTypes, ContentFlag
<1>3. WorksForBox
  BY <1>1, NothingAtWork DEF WorksForBox, Text!Handlers
<1>4. HasOwner
  BY <1>1 DEF HasOwner, Text!UnderWay
<1>5. NoneOutlived /\ SeesText /\ SpentSome
  BY <1>1, NothingAtWork, ContentFacts DEF NoneOutlived, SeesText, SpentSome, Text!Handlers
<1> QED BY <1>2, <1>3, <1>4, <1>5 DEF ContentInv

LEMMA ContentNextKeeps == ASSUME Text!ContentAssumption, ContentInv, [Text!Next]_Text!vars PROVE ContentInv'
<1>1. CASE UNCHANGED Text!vars
  BY <1>1 DEF Text!vars, ContentInv, ContentTypes, ContentFlag, WorksForBox, HasOwner, InHand, Text!UnderWay,
     NoneOutlived, SeesText,
              SpentSome, Text!Current
<1>2. CASE Text!Web
  BY <1>2, WriteRowKeeps, ScheduledKeeps, NotScheduledKeeps DEF Text!Web
<1>3. CASE Text!Worker
  BY <1>3, ContentTakeKeeps, ContentExpireKeeps, ContentReadKeeps, ContentMarkKeeps, ContentFetchKeeps,
     ContentWriteKeeps, ContentFailKeeps DEF Text!Worker
<1>4. CASE Text!WebCrash \/ Text!WorkerCrash \/ Text!Change
  BY <1>4, WebCrashKeeps, WorkerCrashKeeps, ContentChangeKeeps
<1>5. CASE (\E b \in Boxes : Text!Open(b)) \/ Text!Close \/ Text!Poll \/ Text!Retry
  BY <1>5, ContentPaneKeeps
<1> QED BY <1>1, <1>2, <1>3, <1>4, <1>5 DEF Text!Next

\* The inductive invariant of the text of a message, for any number of mailboxes,
\* tries, changes, failures and handlers that outlive their jobs.
THEOREM ContentInvariantHolds == ASSUME Text!ContentAssumption PROVE Text!Spec => []ContentInv
<1>1. Text!Init => ContentInv
  BY ContentInitHolds
<1>2. ContentInv /\ [Text!Next]_Text!vars => ContentInv'
  BY ContentNextKeeps
<1> QED BY <1>1, <1>2, PTL DEF Text!Spec

\* A row that says pending or fetching is somebody's work, unless a process died whose
\* part nobody repeats (MessageContentService.request, schedule and run).
THEOREM FetchIsOwned == ASSUME Text!ContentAssumption PROVE Text!Spec => []Text!NeverStranded
<1>1. ContentInv => Text!NeverStranded
  <2> SUFFICES ASSUME ContentInv, Text!UnderWay, ~spent PROVE Text!Owned
    BY DEF Text!NeverStranded
  <2>1. request.pc = "job" => request # Text!NoRequest
    BY DEF Text!NoRequest
  <2>2. \A h \in Text!Handlers : work[h].pc # "idle" => work[h] # Text!NoWork
    BY DEF Text!NoWork
  <2> QED BY <2>1, <2>2 DEF ContentInv, HasOwner, InHand, Text!Owned
<1>2. Text!Spec => []ContentInv
  BY ContentInvariantHolds
<1> QED BY <1>1, <1>2, PTL

\* While no handler outlives its job, the worker never takes away text that was fetched
\* for the present policy (MessageContentService.run and its catch block).
THEOREM FetchedTextStays == ASSUME Text!ContentAssumption PROVE Text!Spec => Text!WorkerKeepsText
<1> DEFINE Step == (Text!Current /\ textBudget.outlived = MaxOutlived /\ request' = request) => content' = content
<1>1. ContentInv /\ [Text!Next]_Text!vars => [Step]_Text!vars
  <2> SUFFICES ASSUME ContentInv, Text!Next, Text!Current, textBudget.outlived = MaxOutlived, request' = request
                 PROVE content' = content
    OBVIOUS
  <2>1. work["outlived"].pc = "idle" /\ work["current"].pc \notin {"mark", "fetch", "write"}
    BY DEF ContentInv, NoneOutlived, SeesText
  <2>2. ASSUME NEW h \in Text!Handlers, Text!Read(h) \/ Text!Mark(h) \/ Text!Fetch(h) \/ Text!Write(h) \/ Text!Fail(h)
          PROVE content' = content
    BY <2>1, <2>2 DEF Text!Read, Text!Mark, Text!Fetch, Text!Write, Text!Fail, Text!Handlers, Text!Current
  <2>3. ~Text!Web
    <3>1. ~Text!WriteRow
      <4>1. request \in [box : Boxes \cup {None}, pc : {"none", "row", "job"}]
        BY DEF ContentInv, ContentTypes
      <4>2. Text!WriteRow => request'.pc = "job" /\ request.pc = "row"
        BY <4>1 DEF Text!WriteRow
      <4> QED BY <4>2
    <3>2. ~Text!Scheduled /\ ~Text!NotScheduled
      <4>1. request.pc = "job" => request # Text!NoRequest
        BY DEF Text!NoRequest
      <4> QED BY <4>1 DEF Text!Scheduled, Text!NotScheduled
    <3> QED BY <3>1, <3>2 DEF Text!Web
  <2> QED BY <2>2, <2>3 DEF Text!Next, Text!Worker, Text!Take, Text!Expire, Text!Open, Text!Close, Text!Poll,
             Text!Retry, Text!WebCrash, Text!WorkerCrash, Text!Change
<1>2. Text!Spec => []ContentInv
  BY ContentInvariantHolds
<1>3. Text!Spec => [][Step]_Text!vars
  BY <1>1, <1>2, PTL DEF Text!Spec
<1> QED BY <1>3 DEF Text!WorkerKeepsText

-----------------------------------------------------------------------------
(* Attachments and uploaded files *)

CONSTANTS Drafts, MaxBlobs, MaxAsks
VARIABLES row, disk, fileJobs, fileLock, worker, ask, fileUsable, staged, draft, message, direct, fileBudget

File == INSTANCE Attachment WITH
  jobs <- fileJobs, lock <- fileLock, usable <- fileUsable, budget <- fileBudget

WorkerState ==
  [pc : {"idle", "lock", "check", "fetch", "publish", "pin", "fail", "release"}, blob : 0..MaxBlobs, session : BOOLEAN]
AskState == [pc : {"none", "read", "enqueue"}, status : {"none", "not_fetched", "pending", "fetching", "ready", "failed"},
             blob : 0..MaxBlobs]
FetchTypes ==
  /\ row \in File!AttachmentRow /\ disk \in [File!Blobs -> File!BlobState] /\ fileJobs \in 0..2 /\ fileLock \in Workers \cup {None}
  /\ worker \in [Workers -> WorkerState] /\ ask \in AskState
FileTypes ==
  /\ staged \in File!StagedRow /\ draft \in [Drafts -> File!DraftFiles] /\ message \in [Drafts -> SUBSET File!Blobs] /\ direct \in BOOLEAN
BoundTypes == fileBudget \in [{"asks", "faults"} -> Nat]

\* The row is ready exactly while it has a blob, and one that was written; what a worker is
\* about to publish is one, too.
RowHasBlob ==
  /\ row.status = "ready" <=> row.blob # File!NoBlob
  /\ row.blob # File!NoBlob => disk[row.blob] # "absent"
PublishesBlob ==
  \A w \in Workers : worker[w].pc = "publish" => worker[w].blob \in 1..MaxBlobs /\ disk[worker[w].blob] # "absent"

\* Who has the uploaded file took it, and there was one taker.
OneTaker ==
  /\ staged.status # "consumed" => File!Holders = {} /\ ~direct
  /\ direct => File!Holders = {}
  /\ \A d, e \in File!Holders : d = e

AttachmentInv == FetchTypes /\ FileTypes /\ BoundTypes /\ RowHasBlob /\ PublishesBlob /\ OneTaker

LEMMA AttachmentFacts == ASSUME File!AttachmentAssumption
  PROVE /\ MaxBlobs \in Nat /\ MaxAsks \in Nat /\ MaxFaults \in Nat /\ None \notin Workers /\ None \notin Drafts
        /\ File!NoBlob = 0 /\ File!NoBlob \notin File!Blobs /\ File!UpBlob = MaxBlobs + 1 /\ File!UpBlob \in File!Blobs
        /\ 1..MaxBlobs \subseteq File!Blobs /\ 0..MaxBlobs \subseteq {File!NoBlob} \cup File!Blobs
        /\ File!NoFile \notin File!Blobs /\ File!NoFile # File!NoBlob /\ File!UpBlob \notin 0..MaxBlobs
        /\ 0 \in 0..MaxBlobs /\ 1..MaxBlobs \subseteq 0..MaxBlobs /\ 0..MaxBlobs \ {0} \subseteq 1..MaxBlobs
BY DEF File!AttachmentAssumption, File!NoBlob, File!UpBlob, File!Blobs, File!NoFile

LEMMA AttachmentSpendIs == ASSUME BoundTypes, NEW what \in {"asks", "faults"}, File!Spend(what) PROVE BoundTypes'
BY DEF BoundTypes, File!Spend

\* Steps of the fetch leave the drafts and the uploaded file alone; the others leave the
\* fetch and every blob but the uploaded one alone.
LEMMA FetchAside ==
  ASSUME AttachmentInv, UNCHANGED File!composing, FetchTypes', BoundTypes', RowHasBlob', PublishesBlob'
  PROVE  AttachmentInv'
<1>1. FileTypes'
  BY DEF AttachmentInv, FileTypes, File!composing
<1>2. OneTaker'
  BY DEF AttachmentInv, OneTaker, File!Holders, File!composing
<1> QED BY <1>1, <1>2 DEF AttachmentInv

LEMMA FileAside ==
  ASSUME File!AttachmentAssumption, AttachmentInv, UNCHANGED File!fetching,
         disk' \in [File!Blobs -> File!BlobState], \A b \in 1..MaxBlobs : disk'[b] = disk[b] \/ disk'[b] # "absent",
         BoundTypes', FileTypes', OneTaker'
  PROVE  AttachmentInv'
<1>1. FetchTypes'
  BY DEF AttachmentInv, FetchTypes, File!fetching
<1>2. row.blob # File!NoBlob => row.blob \in 1..MaxBlobs
  BY AttachmentFacts DEF AttachmentInv, FetchTypes, File!AttachmentRow
<1>3. RowHasBlob'
  BY <1>2 DEF AttachmentInv, RowHasBlob, File!fetching
<1>4. PublishesBlob'
  BY DEF AttachmentInv, PublishesBlob, File!fetching
<1> QED BY <1>1, <1>3, <1>4 DEF AttachmentInv

\* Steps that leave the row and the blobs alone, and in which no worker comes to publish.
LEMMA NoFileFetched ==
  ASSUME AttachmentInv, UNCHANGED <<row, disk, File!composing>>, fileJobs' \in 0..2, fileLock' \in Workers \cup {None}, ask' \in AskState,
         worker' \in [Workers -> WorkerState], BoundTypes',
         \A w \in Workers : worker'[w].pc = "publish" => worker'[w] = worker[w]
  PROVE  AttachmentInv'
<1>1. FetchTypes'
  BY DEF AttachmentInv, FetchTypes
<1>2. RowHasBlob'
  BY DEF AttachmentInv, RowHasBlob
<1>3. PublishesBlob'
  BY DEF AttachmentInv, PublishesBlob
<1> QED BY <1>1, <1>2, <1>3, FetchAside

\* A worker that goes on to another step than publishing.
LEMMA WorkerGoesOn ==
  ASSUME AttachmentInv, NEW w \in Workers,
         NEW step \in {"idle", "lock", "check", "fetch", "pin", "fail", "release"}, File!Goto(w, step)
  PROVE  /\ worker' \in [Workers -> WorkerState] /\ worker'[w].pc = step /\ worker'[w].blob = worker[w].blob
         /\ \A k \in Workers : worker'[k].pc = "publish" => worker'[k] = worker[k]
         /\ \A k \in Workers : k # w => worker'[k] = worker[k]
<1>1. worker' = [worker EXCEPT ![w] = [worker[w] EXCEPT !.pc = step]] /\ worker \in [Workers -> WorkerState]
  BY DEF File!Goto, AttachmentInv, FetchTypes
<1>2. [worker[w] EXCEPT !.pc = step] \in WorkerState
  BY <1>1 DEF WorkerState
<1> QED BY <1>1, <1>2

LEMMA FileAskedKeeps == ASSUME File!AttachmentAssumption, AttachmentInv,
  File!Ask \/ File!Enqueue \/ File!WebCrash \/ File!Repair
  PROVE AttachmentInv'
<1>1. /\ fileJobs \in 0..2 /\ fileLock \in Workers \cup {None} /\ ask \in AskState /\ worker \in [Workers -> WorkerState] /\ BoundTypes
      /\ row \in File!AttachmentRow /\ File!NoAsk \in AskState
  BY AttachmentFacts DEF AttachmentInv, FetchTypes, File!NoAsk, AskState
<1>2. File!Enqueued => fileJobs' \in 0..2
  BY <1>1 DEF File!Enqueued
<1>3. UNCHANGED <<row, disk, fileLock, worker, File!composing>>
  BY DEF File!Ask, File!Enqueue, File!WebCrash, File!Repair
<1>4. BoundTypes'
  <2>1. File!Spend("asks") \/ File!Spend("faults") \/ fileBudget' = fileBudget
    BY DEF File!Ask, File!Enqueue, File!WebCrash, File!Repair
  <2> QED BY <1>1, <2>1, AttachmentSpendIs DEF BoundTypes
<1>5. ask' \in AskState
  <2>1. [pc |-> "read", status |-> row.status, blob |-> row.blob] \in AskState
    BY <1>1 DEF AskState, File!AttachmentRow
  <2> QED BY <1>1, <2>1 DEF File!Ask, File!Enqueue, File!WebCrash, File!Repair
<1>6. fileJobs' \in 0..2
  BY <1>1, <1>2 DEF File!Ask, File!Enqueue, File!WebCrash, File!Repair
<1> QED BY <1>1, <1>3, <1>4, <1>5, <1>6, NoFileFetched

LEMMA ResetKeeps == ASSUME File!AttachmentAssumption, AttachmentInv, File!Reset PROVE AttachmentInv'
<1>1. /\ UNCHANGED <<disk, fileJobs, fileLock, worker, File!composing, fileBudget>> /\ ask \in AskState /\ row \in File!AttachmentRow
      /\ row' \in {row, [status |-> "pending", blob |-> File!NoBlob]} /\ ask' = [ask EXCEPT !.pc = "enqueue"]
  BY DEF File!Reset, AttachmentInv, FetchTypes
<1>2. ask' \in AskState
  BY <1>1 DEF AskState
<1>3. [status |-> "pending", blob |-> File!NoBlob] \in File!AttachmentRow
  BY AttachmentFacts DEF File!AttachmentRow
<1>4. FetchTypes' /\ BoundTypes' /\ PublishesBlob'
  BY <1>1, <1>2, <1>3 DEF AttachmentInv, FetchTypes, BoundTypes, PublishesBlob
<1>5. RowHasBlob'
  BY <1>1 DEF AttachmentInv, RowHasBlob
<1> QED BY <1>1, <1>4, <1>5, FetchAside

LEMMA WorkerStepsKeep == ASSUME File!AttachmentAssumption, AttachmentInv, NEW w \in Workers,
                                File!Take(w) \/ File!Lock(w) \/ File!Lost(w) \/ File!Release(w) PROVE AttachmentInv'
<1>1. /\ UNCHANGED <<row, disk, ask, File!composing, fileBudget>> /\ fileJobs \in 0..2 /\ fileLock \in Workers \cup {None}
      /\ ask \in AskState /\ worker \in [Workers -> WorkerState] /\ BoundTypes
  BY DEF File!Take, File!Lock, File!Lost, File!Release, AttachmentInv, FetchTypes
<1>2. BoundTypes'
  BY <1>1 DEF BoundTypes
<1>3. CASE File!Take(w)
  <2>1. fileJobs' = fileJobs - 1 /\ fileJobs > 0 /\ fileLock' = fileLock
    BY <1>3 DEF File!Take
  <2>2. PICK step \in {"lock", "idle"} : worker' = [worker EXCEPT ![w] = [pc |-> step, blob |-> File!NoBlob, session |-> TRUE]]
    BY <1>3 DEF File!Take
  <2>3. [pc |-> step, blob |-> File!NoBlob, session |-> TRUE] \in WorkerState
    BY <2>2, AttachmentFacts DEF WorkerState
  <2>4. /\ worker' \in [Workers -> WorkerState]
        /\ \A k \in Workers : worker'[k].pc = "publish" => worker'[k] = worker[k]
    BY <1>1, <2>2, <2>3
  <2>5. fileJobs' \in 0..2
    BY <1>1, <2>1
  <2> QED BY <1>1, <1>2, <2>1, <2>4, <2>5, NoFileFetched
<1>4. CASE File!Lock(w) \/ File!Lost(w) \/ File!Release(w)
  <2>1. fileJobs' = fileJobs /\ fileLock' \in Workers \cup {None}
    BY <1>1, <1>4 DEF File!Lock, File!Lost, File!Release
  <2>2. File!Goto(w, "check") \/ File!Goto(w, "idle")
    BY <1>4 DEF File!Lock, File!Lost, File!Release
  <2>3. /\ worker' \in [Workers -> WorkerState]
        /\ \A k \in Workers : worker'[k].pc = "publish" => worker'[k] = worker[k]
    BY <2>2, WorkerGoesOn
  <2> QED BY <1>1, <1>2, <2>1, <2>3, NoFileFetched
<1> QED BY <1>3, <1>4

LEMMA SessionEndsKeep == ASSUME File!AttachmentAssumption, AttachmentInv,
  (\E w \in Workers : File!LoseSession(w)) \/ File!WorkerCrash
                         PROVE AttachmentInv'
<1>1. /\ UNCHANGED <<row, disk, ask, fileJobs, File!composing>> /\ fileLock' = None /\ File!Spend("faults") /\ fileJobs \in 0..2
      /\ ask \in AskState /\ worker \in [Workers -> WorkerState]
  BY DEF File!LoseSession, File!WorkerCrash, AttachmentInv, FetchTypes
<1>2. BoundTypes'
  BY <1>1, AttachmentSpendIs DEF AttachmentInv
<1>3. CASE File!WorkerCrash
  <2>1. [pc |-> "idle", blob |-> File!NoBlob, session |-> TRUE] \in WorkerState
    BY AttachmentFacts DEF WorkerState
  <2>2. /\ worker' \in [Workers -> WorkerState]
        /\ \A k \in Workers : worker'[k].pc = "publish" => worker'[k] = worker[k]
    BY <1>3, <2>1 DEF File!WorkerCrash
  <2> QED BY <1>1, <1>2, <2>2, NoFileFetched
<1>4. ASSUME NEW w \in Workers, File!LoseSession(w) PROVE AttachmentInv'
  <2>1. worker' = [worker EXCEPT ![w] = [worker[w] EXCEPT !.session = FALSE]]
    BY <1>1, <1>4 DEF File!LoseSession
  <2>2. /\ [worker[w] EXCEPT !.session = FALSE] \in WorkerState
        /\ [worker[w] EXCEPT !.session = FALSE].pc = worker[w].pc
        /\ [worker[w] EXCEPT !.session = FALSE].blob = worker[w].blob
    BY <1>1 DEF WorkerState
  <2>3. /\ worker' \in [Workers -> WorkerState]
        /\ \A k \in Workers : worker'[k].pc = worker[k].pc /\ worker'[k].blob = worker[k].blob
    BY <1>1, <2>1, <2>2
  <2>4. FetchTypes'
    BY <1>1, <2>3 DEF AttachmentInv, FetchTypes
  <2>5. RowHasBlob' /\ PublishesBlob'
    BY <1>1, <2>3 DEF AttachmentInv, RowHasBlob, PublishesBlob
  <2> QED BY <1>1, <1>2, <2>4, <2>5, FetchAside
<1> QED BY <1>3, <1>4

LEMMA CheckFailKeep == ASSUME File!AttachmentAssumption, AttachmentInv, NEW w \in Workers,
  File!Check(w) \/ File!Fail(w)
  PROVE AttachmentInv'
<1>1. /\ UNCHANGED <<disk, fileJobs, fileLock, ask, File!composing, fileBudget>> /\ row \in File!AttachmentRow
      /\ File!Goto(w, "release") \/ File!Goto(w, "fetch") \/ File!Goto(w, "fail")
  BY DEF File!Check, File!Fail, AttachmentInv, FetchTypes
<1>2. /\ worker' \in [Workers -> WorkerState]
      /\ \A k \in Workers : worker'[k].pc = "publish" => worker'[k] = worker[k]
  BY <1>1, WorkerGoesOn
<1>3. row' \in File!AttachmentRow /\ RowHasBlob'
  <2>1. CASE row' = row
    BY <1>1, <2>1 DEF AttachmentInv, RowHasBlob
  <2>2. CASE File!UnderWay /\ row' = [row EXCEPT !.status = "fetching"]
    <3>1. row.blob = File!NoBlob
      BY <2>2 DEF AttachmentInv, RowHasBlob, File!UnderWay
    <3> QED BY <1>1, <2>2, <3>1 DEF File!AttachmentRow, RowHasBlob
  <2>3. CASE row' = [status |-> "failed", blob |-> File!NoBlob]
    BY <2>3, AttachmentFacts DEF File!AttachmentRow, RowHasBlob
  <2> QED BY <2>1, <2>2, <2>3 DEF File!Check, File!Fail
<1>4. FetchTypes' /\ BoundTypes' /\ PublishesBlob'
  BY <1>1, <1>2, <1>3 DEF AttachmentInv, FetchTypes, BoundTypes, PublishesBlob
<1> QED BY <1>1, <1>3, <1>4, FetchAside

LEMMA SameFileCount == ASSUME NEW S PROVE File!Cardinality(S) = Cardinality(S)
BY DEF File!Cardinality, Cardinality

LEMMA NextBlobIs == ASSUME File!AttachmentAssumption PROVE File!NextBlob \in Nat \ {0}
<1> DEFINE B == {b \in 1..MaxBlobs : disk[b] # "absent"}
<1>1. IsFiniteSet(1..MaxBlobs)
  BY FS_Interval, AttachmentFacts
<1>2. IsFiniteSet(B)
  BY <1>1, FS_Subset
<1>3. Cardinality(B) \in Nat
  BY <1>2, FS_CardinalityType
<1>4. File!NextBlob = 1 + Cardinality(B)
  BY SameFileCount DEF File!NextBlob
<1> HIDE DEF B
<1> QED BY <1>3, <1>4

LEMMA FetchKeeps == ASSUME File!AttachmentAssumption, AttachmentInv, NEW w \in Workers, File!Fetch(w) PROVE AttachmentInv'
<1>1. /\ UNCHANGED <<row, fileJobs, fileLock, ask, File!composing>> /\ worker \in [Workers -> WorkerState] /\ disk \in [File!Blobs -> File!BlobState]
      /\ fileJobs \in 0..2 /\ fileLock \in Workers \cup {None} /\ ask \in AskState /\ BoundTypes
  BY DEF File!Fetch, AttachmentInv, FetchTypes
<1>2. BoundTypes'
  <2>1. fileBudget' = fileBudget \/ File!Spend("faults")
    BY DEF File!Fetch
  <2> QED BY <1>1, <2>1, AttachmentSpendIs DEF BoundTypes
<1>3. CASE File!Goto(w, "fail") /\ UNCHANGED disk
  BY <1>1, <1>2, <1>3, WorkerGoesOn, NoFileFetched
<1>4. CASE /\ File!NextBlob <= MaxBlobs /\ disk' = [disk EXCEPT ![File!NextBlob] = "intact"]
           /\ worker' = [worker EXCEPT ![w].pc = "publish", ![w].blob = File!NextBlob]
  <2>1. PICK b \in 1..MaxBlobs : b = File!NextBlob
    BY <1>4, NextBlobIs, AttachmentFacts
  <2>2. b \in File!Blobs /\ b \in 0..MaxBlobs
    BY <2>1, AttachmentFacts
  <2>3. /\ disk' \in [File!Blobs -> File!BlobState] /\ disk'[b] # "absent"
        /\ \A c \in File!Blobs : disk[c] # "absent" => disk'[c] # "absent"
    BY <1>1, <1>4, <2>1, <2>2 DEF File!BlobState
  <2>4. worker' = [worker EXCEPT ![w] = [worker[w] EXCEPT !.pc = "publish", !.blob = b]]
    BY <1>1, <1>4, <2>1
  <2>5. [worker[w] EXCEPT !.pc = "publish", !.blob = b] \in WorkerState /\ [worker[w] EXCEPT !.pc = "publish", !.blob = b].blob = b
    BY <1>1, <2>2 DEF WorkerState
  <2>6. /\ worker' \in [Workers -> WorkerState] /\ worker'[w].blob = b
        /\ \A k \in Workers : k # w => worker'[k] = worker[k]
    BY <1>1, <2>4, <2>5
  <2>7. FetchTypes'
    BY <1>1, <2>3, <2>6 DEF AttachmentInv, FetchTypes
  <2>8. row.blob # File!NoBlob => row.blob \in File!Blobs
    BY AttachmentFacts DEF AttachmentInv, FetchTypes, File!AttachmentRow
  <2>9. RowHasBlob'
    BY <1>1, <2>3, <2>8 DEF AttachmentInv, RowHasBlob
  <2>10. PublishesBlob'
    BY <2>1, <2>3, <2>6, AttachmentFacts DEF AttachmentInv, PublishesBlob
  <2> QED BY <1>1, <1>2, <2>7, <2>9, <2>10, FetchAside
<1> QED BY <1>3, <1>4 DEF File!Fetch

LEMMA PublishKeeps == ASSUME File!AttachmentAssumption, AttachmentInv, NEW w \in Workers, File!Publish(w) PROVE AttachmentInv'
<1>1. /\ UNCHANGED <<disk, fileJobs, fileLock, ask, File!composing, fileBudget>> /\ worker[w].pc = "publish" /\ File!Goto(w, "pin")
      /\ row' = [status |-> "ready", blob |-> worker[w].blob]
  BY DEF File!Publish, File!At
<1>2. worker[w].blob \in 1..MaxBlobs /\ disk[worker[w].blob] # "absent"
  BY <1>1 DEF AttachmentInv, PublishesBlob
<1>3. row' \in File!AttachmentRow /\ RowHasBlob'
  BY <1>1, <1>2, AttachmentFacts DEF File!AttachmentRow, RowHasBlob
<1>4. FetchTypes' /\ BoundTypes' /\ PublishesBlob'
  BY <1>1, <1>3, WorkerGoesOn DEF AttachmentInv, FetchTypes, BoundTypes, PublishesBlob
<1> QED BY <1>1, <1>3, <1>4, FetchAside

LEMMA DamageKeeps == ASSUME File!AttachmentAssumption, AttachmentInv, File!Change \/ File!Damage PROVE AttachmentInv'
<1>1. /\ UNCHANGED <<row, fileJobs, fileLock, worker, ask, File!composing>> /\ File!Spend("faults") /\ disk \in [File!Blobs -> File!BlobState]
      /\ \/ disk' = disk
         \/ \E b \in File!Blobs : disk' = [disk EXCEPT ![b] = "damaged"]
  BY DEF File!Change, File!Damage, File!fetching, AttachmentInv, FetchTypes
<1>2. BoundTypes'
  BY <1>1, AttachmentSpendIs DEF AttachmentInv
<1>3. disk' \in [File!Blobs -> File!BlobState] /\ \A c \in File!Blobs : disk[c] # "absent" => disk'[c] # "absent"
  BY <1>1 DEF File!BlobState
<1>4. FetchTypes'
  BY <1>1, <1>3 DEF AttachmentInv, FetchTypes
<1>5. row.blob # File!NoBlob => row.blob \in File!Blobs
  BY AttachmentFacts DEF AttachmentInv, FetchTypes, File!AttachmentRow
<1>6. RowHasBlob' /\ PublishesBlob'
  BY <1>1, <1>3, <1>5, AttachmentFacts DEF AttachmentInv, RowHasBlob, PublishesBlob
<1> QED BY <1>1, <1>2, <1>4, <1>6, FetchAside


LEMMA PinKeeps == ASSUME File!AttachmentAssumption, AttachmentInv, NEW w \in Workers, File!Pin(w) PROVE AttachmentInv'
<1>1. /\ UNCHANGED <<row, disk, fileJobs, fileLock, ask, staged, message, direct>> /\ worker[w].blob \in 0..MaxBlobs
      /\ File!Goto(w, "release") \/ File!Goto(w, "fail")
      /\ draft \in [Drafts -> File!DraftFiles]
  BY DEF File!Pin, AttachmentInv, FetchTypes, FileTypes, WorkerState
<1>2. BoundTypes'
  <2>1. fileBudget' = fileBudget \/ File!Spend("faults")
    BY DEF File!Pin
  <2> QED BY <2>1, AttachmentSpendIs DEF AttachmentInv, BoundTypes
<1>3. /\ worker' \in [Workers -> WorkerState]
      /\ \A k \in Workers : worker'[k].pc = "publish" => worker'[k] = worker[k]
  BY <1>1, WorkerGoesOn DEF File!Pin
<1>4. FetchTypes' /\ RowHasBlob' /\ PublishesBlob'
  BY <1>1, <1>3 DEF AttachmentInv, FetchTypes, RowHasBlob, PublishesBlob
<1>5. draft' \in [Drafts -> File!DraftFiles] /\ \A d \in Drafts : draft'[d].blob["up"] = draft[d].blob["up"]
  <2>1. CASE draft' = draft
    BY <1>1, <2>1 DEF File!Pin, AttachmentInv, FileTypes
  <2>2. CASE draft' = [d \in Drafts |-> IF draft[d].blob["in"] # File!NoBlob THEN draft[d]
                                        ELSE [draft[d] EXCEPT !.blob["in"] = worker[w].blob]]
    <3>1. draft \in [Drafts -> File!DraftFiles]
      BY DEF AttachmentInv, FileTypes
    <3>2. worker[w].blob \in {File!NoFile, File!NoBlob} \cup File!Blobs
      BY <1>1, AttachmentFacts
    <3>3. ASSUME NEW d \in Drafts
          PROVE /\ [draft[d] EXCEPT !.blob["in"] = worker[w].blob] \in File!DraftFiles
                /\ [draft[d] EXCEPT !.blob["in"] = worker[w].blob].blob["up"] = draft[d].blob["up"]
      BY <3>1, <3>2 DEF File!DraftFiles, File!Files
    <3> QED BY <2>2, <3>1, <3>3
  <2> QED BY <2>1, <2>2 DEF File!Pin
<1>6. FileTypes'
  BY <1>1, <1>5 DEF AttachmentInv, FileTypes
<1>7. OneTaker'
  <2>1. File!Holders' = File!Holders
    BY <1>5 DEF File!Holders
  <2> QED BY <1>1, <2>1 DEF AttachmentInv, OneTaker
<1> QED BY <1>2, <1>4, <1>6, <1>7 DEF AttachmentInv

LEMMA StagedKeeps == ASSUME File!AttachmentAssumption, AttachmentInv,
  (\E d \in Drafts : File!Upload(d)) \/ File!Remove \/ File!Expire \/ File!SendDirect
                     PROVE AttachmentInv'
<1>1. /\ UNCHANGED File!fetching /\ UNCHANGED <<draft, message>> /\ staged \in File!StagedRow /\ disk \in [File!Blobs -> File!BlobState]
  BY DEF File!Upload, File!Remove, File!Expire, File!SendDirect, AttachmentInv, FileTypes, FetchTypes
<1>2. disk' \in [File!Blobs -> File!BlobState] /\ \A b \in 1..MaxBlobs : disk'[b] = disk[b] \/ disk'[b] # "absent"
  <2>1. disk' = disk \/ disk' = [disk EXCEPT ![File!UpBlob] = "intact"]
    BY DEF File!Upload, File!Remove, File!Expire, File!SendDirect
  <2> QED BY <1>1, <2>1, AttachmentFacts DEF File!BlobState
<1>3. BoundTypes'
  <2>1. fileBudget' = fileBudget \/ File!Spend("asks")
    BY DEF File!Upload, File!Remove, File!Expire, File!SendDirect
  <2> QED BY <2>1, AttachmentSpendIs DEF AttachmentInv, BoundTypes
<1>4. File!Holders' = File!Holders
  BY <1>1 DEF File!Holders
<1>5. CASE \E d \in Drafts : File!Upload(d)
  <2>1. PICK d \in Drafts, owner \in Drafts \cup {None} :
          /\ staged.status = "none" /\ direct' = direct
          /\ staged' = [status |-> "ready", owner |-> owner, expired |-> FALSE]
    BY <1>5 DEF File!Upload
  <2>2. FileTypes'
    BY <1>1, <2>1 DEF AttachmentInv, FileTypes, File!StagedRow
  <2>3. OneTaker'
    BY <1>4, <2>1 DEF AttachmentInv, OneTaker
  <2> QED BY <1>1, <1>2, <1>3, <2>2, <2>3, FileAside
<1>6. CASE File!Remove
  <2>1. staged.status = "ready" /\ direct' = direct /\ staged' = [staged EXCEPT !.status = "removed"]
    BY <1>6 DEF File!Remove
  <2>2. staged' \in File!StagedRow
    BY <1>1, <2>1 DEF File!StagedRow
  <2>3. FileTypes'
    BY <1>1, <2>1, <2>2 DEF AttachmentInv, FileTypes
  <2>4. OneTaker'
    BY <1>4, <2>1 DEF AttachmentInv, OneTaker
  <2> QED BY <1>1, <1>2, <1>3, <2>3, <2>4, FileAside
<1>7. CASE File!Expire
  <2>1. direct' = direct /\ staged' = [staged EXCEPT !.expired = TRUE]
    BY <1>7 DEF File!Expire
  <2>2. staged' \in File!StagedRow /\ staged'.status = staged.status
    BY <1>1, <2>1 DEF File!StagedRow
  <2>3. FileTypes'
    BY <1>1, <2>1, <2>2 DEF AttachmentInv, FileTypes
  <2>4. OneTaker'
    BY <1>4, <2>1, <2>2 DEF AttachmentInv, OneTaker
  <2> QED BY <1>1, <1>2, <1>3, <2>3, <2>4, FileAside
<1>8. CASE File!SendDirect
  <2>1. staged.status = "ready" /\ direct' = TRUE /\ staged' = [staged EXCEPT !.status = "consumed"]
    BY <1>8 DEF File!SendDirect
  <2>2. staged' \in File!StagedRow /\ staged'.status = "consumed"
    BY <1>1, <2>1 DEF File!StagedRow
  <2>3. FileTypes'
    BY <1>1, <2>1, <2>2 DEF AttachmentInv, FileTypes
  <2>4. OneTaker'
    BY <1>4, <2>1, <2>2 DEF AttachmentInv, OneTaker
  <2> QED BY <1>1, <1>2, <1>3, <2>3, <2>4, FileAside
<1> QED BY <1>5, <1>6, <1>7, <1>8

LEMMA RowBlobIs == ASSUME File!AttachmentAssumption, AttachmentInv
  PROVE /\ row.blob \in {File!NoFile, File!NoBlob} \cup File!Blobs /\ row.blob # File!UpBlob
        /\ \A d \in Drafts : /\ draft[d] \in File!DraftFiles
                             /\ \A f \in File!Files : draft[d].blob[f] \in {File!NoFile, File!NoBlob} \cup File!Blobs
<1>1. row.blob \in 0..MaxBlobs /\ draft \in [Drafts -> File!DraftFiles]
  BY DEF AttachmentInv, FetchTypes, FileTypes, File!AttachmentRow
<1>2. row.blob \in {File!NoFile, File!NoBlob} \cup File!Blobs /\ row.blob # File!UpBlob
  BY <1>1, AttachmentFacts
<1> QED BY <1>1, <1>2 DEF File!DraftFiles

LEMMA SaveKeeps == ASSUME File!AttachmentAssumption, AttachmentInv, NEW d \in Drafts, File!Save(d) PROVE AttachmentInv'
<1>1. /\ UNCHANGED File!fetching /\ UNCHANGED <<disk, message, direct>> /\ staged \in File!StagedRow /\ disk \in [File!Blobs -> File!BlobState]
      /\ draft \in [Drafts -> File!DraftFiles] /\ draft[d] \in File!DraftFiles /\ File!Spend("asks")
  BY DEF File!Save, AttachmentInv, FileTypes, FetchTypes
<1>2. BoundTypes'
  BY <1>1, AttachmentSpendIs DEF AttachmentInv
<1>3. PICK files \in SUBSET File!Files :
       /\ "up" \in files => File!Has(d, "up") \/ File!Claimable(d)
       /\ draft' = [draft EXCEPT ![d].blob =
            [f \in File!Files |-> IF f \notin files THEN File!NoFile
                             ELSE IF File!Has(d, f) THEN draft[d].blob[f]
                             ELSE IF f = "up" THEN File!UpBlob ELSE row.blob]]
       /\ staged' = IF "up" \in files /\ ~File!Has(d, "up")
                    THEN [staged EXCEPT !.status = "consumed", !.owner = d] ELSE staged
  BY DEF File!Save
<1> DEFINE new == [f \in File!Files |-> IF f \notin files THEN File!NoFile
                                   ELSE IF File!Has(d, f) THEN draft[d].blob[f]
                                   ELSE IF f = "up" THEN File!UpBlob ELSE row.blob]
<1>4. PICK b \in [File!Files -> {File!NoFile, File!NoBlob} \cup File!Blobs] :
        /\ b = new /\ (b["up"] = File!UpBlob => "up" \in files)
        /\ File!Has(d, "up") /\ "up" \in files => b["up"] = draft[d].blob["up"]
  <2>1. new \in [File!Files -> {File!NoFile, File!NoBlob} \cup File!Blobs]
    BY RowBlobIs, AttachmentFacts
  <2>2. "up" \in File!Files /\ (new["up"] = File!UpBlob => "up" \in files)
    BY AttachmentFacts DEF File!Files
  <2>3. File!Has(d, "up") /\ "up" \in files => new["up"] = draft[d].blob["up"]
    BY <2>2
  <2> HIDE DEF new
  <2> QED BY <2>1, <2>2, <2>3
<1> HIDE DEF new
<1>5. draft' = [draft EXCEPT ![d] = [draft[d] EXCEPT !.blob = b]]
  BY <1>1, <1>3, <1>4 DEF new
<1>6. [draft[d] EXCEPT !.blob = b] \in File!DraftFiles /\ [draft[d] EXCEPT !.blob = b].blob = b
  BY <1>1, <1>4 DEF File!DraftFiles
<1>7. /\ draft' \in [Drafts -> File!DraftFiles] /\ draft'[d].blob = b
      /\ \A e \in Drafts : e # d => draft'[e] = draft[e]
  BY <1>1, <1>5, <1>6
<1>8. CASE "up" \in files /\ ~File!Has(d, "up")
  <2>1. File!Claimable(d) /\ staged' = [staged EXCEPT !.status = "consumed", !.owner = d]
    BY <1>3, <1>8
  <2>2. staged' \in File!StagedRow /\ staged'.status = "consumed"
    BY <1>1, <2>1 DEF File!StagedRow
  <2>3. File!Holders = {} /\ ~direct
    BY <2>1 DEF File!Claimable, AttachmentInv, OneTaker
  <2>4. \A e \in File!Holders' : e = d
    BY <1>7, <2>3 DEF File!Holders
  <2>5. OneTaker'
    BY <1>1, <2>2, <2>3, <2>4 DEF OneTaker
  <2>6. FileTypes'
    BY <1>1, <1>7, <2>2 DEF AttachmentInv, FileTypes
  <2> QED BY <1>1, <1>2, <2>5, <2>6, FileAside
<1>9. CASE ~("up" \in files /\ ~File!Has(d, "up"))
  <2>1. staged' = staged
    BY <1>3, <1>9
  <2>2. d \in File!Holders' => d \in File!Holders
    BY <1>4, <1>7, <1>9 DEF File!Holders
  <2>3. File!Holders' \subseteq File!Holders
    BY <1>7, <2>2 DEF File!Holders
  <2>4. OneTaker'
    BY <1>1, <2>1, <2>3 DEF AttachmentInv, OneTaker
  <2>5. FileTypes'
    BY <1>1, <1>7, <2>1 DEF AttachmentInv, FileTypes
  <2> QED BY <1>1, <1>2, <2>4, <2>5, FileAside
<1> QED BY <1>8, <1>9

LEMMA ReopenKeeps == ASSUME File!AttachmentAssumption, AttachmentInv, NEW d \in Drafts, File!Reopen(d) PROVE AttachmentInv'
<1>1. /\ UNCHANGED File!fetching /\ UNCHANGED <<disk, message, direct, staged, fileBudget>> /\ disk \in [File!Blobs -> File!BlobState]
      /\ draft \in [Drafts -> File!DraftFiles] /\ draft[d] \in File!DraftFiles /\ BoundTypes
  BY DEF File!Reopen, AttachmentInv, FileTypes, FetchTypes
<1>2. draft' = [draft EXCEPT ![d] = [draft[d] EXCEPT !.blob = [draft[d].blob EXCEPT !["in"] = row.blob]]]
  BY <1>1 DEF File!Reopen
<1>3. /\ [draft[d] EXCEPT !.blob = [draft[d].blob EXCEPT !["in"] = row.blob]] \in File!DraftFiles
      /\ [draft[d] EXCEPT !.blob = [draft[d].blob EXCEPT !["in"] = row.blob]].blob["up"] = draft[d].blob["up"]
  BY <1>1, RowBlobIs DEF File!DraftFiles, File!Files
<1>4. draft' \in [Drafts -> File!DraftFiles] /\ \A e \in Drafts : draft'[e].blob["up"] = draft[e].blob["up"]
  BY <1>1, <1>2, <1>3
<1>5. FileTypes' /\ BoundTypes'
  BY <1>1, <1>4 DEF AttachmentInv, FileTypes, BoundTypes
<1>6. OneTaker'
  <2>1. File!Holders' = File!Holders
    BY <1>4 DEF File!Holders
  <2> QED BY <1>1, <2>1 DEF AttachmentInv, OneTaker
<1> QED BY <1>1, <1>5, <1>6, FileAside

LEMMA SendKeeps == ASSUME File!AttachmentAssumption, AttachmentInv, NEW d \in Drafts, File!Send(d) PROVE AttachmentInv'
<1>1. /\ UNCHANGED File!fetching /\ UNCHANGED <<disk, direct, staged, fileBudget>> /\ disk \in [File!Blobs -> File!BlobState]
      /\ draft \in [Drafts -> File!DraftFiles] /\ draft[d] \in File!DraftFiles /\ BoundTypes /\ message \in [Drafts -> SUBSET File!Blobs]
      /\ draft' = [draft EXCEPT ![d].active = FALSE] /\ File!Verified(d)
      /\ message' = [message EXCEPT ![d] = {File!Source(d, f) : f \in File!Carried(d)}]
  BY DEF File!Send, AttachmentInv, FileTypes, FetchTypes
<1>2. {File!Source(d, f) : f \in File!Carried(d)} \subseteq File!Blobs
  <2>1. ASSUME NEW f \in File!Carried(d) PROVE File!Source(d, f) \in File!Blobs
    <3>1. f \in File!Files /\ draft[d].blob[f] # File!NoFile /\ File!Source(d, f) # File!NoBlob
      BY <1>1 DEF File!Carried, File!Verified, File!Intact
    <3>2. draft[d].blob[f] \in {File!NoFile, File!NoBlob} \cup File!Blobs /\ row.blob \in 0..MaxBlobs
      BY <3>1, RowBlobIs DEF AttachmentInv, FetchTypes, File!AttachmentRow
    <3> QED BY <3>1, <3>2, AttachmentFacts DEF File!Source, File!Has
  <2> QED BY <2>1
<1>3. message' \in [Drafts -> SUBSET File!Blobs]
  BY <1>1, <1>2
<1>4. draft' = [draft EXCEPT ![d] = [draft[d] EXCEPT !.active = FALSE]]
  BY <1>1
<1>5. [draft[d] EXCEPT !.active = FALSE] \in File!DraftFiles /\ [draft[d] EXCEPT !.active = FALSE].blob = draft[d].blob
  BY <1>1 DEF File!DraftFiles
<1>6. draft' \in [Drafts -> File!DraftFiles] /\ \A e \in Drafts : draft'[e].blob = draft[e].blob
  BY <1>1, <1>4, <1>5
<1>7. FileTypes' /\ BoundTypes'
  BY <1>1, <1>3, <1>6 DEF AttachmentInv, FileTypes, BoundTypes
<1>8. OneTaker'
  <2>1. File!Holders' = File!Holders
    BY <1>6 DEF File!Holders
  <2> QED BY <1>1, <2>1 DEF AttachmentInv, OneTaker
<1> QED BY <1>1, <1>7, <1>8, FileAside

LEMMA AttachmentInitHolds == ASSUME File!AttachmentAssumption, File!Init PROVE AttachmentInv
<1>1. /\ row = [status |-> "not_fetched", blob |-> File!NoBlob] /\ disk = [b \in File!Blobs |-> "absent"] /\ fileJobs = 0 /\ fileLock = None
      /\ worker = [w \in Workers |-> [pc |-> "idle", blob |-> File!NoBlob, session |-> TRUE]] /\ ask = File!NoAsk
      /\ staged = [status |-> "none", owner |-> None, expired |-> FALSE]
      /\ draft = [d \in Drafts |-> [active |-> TRUE, blob |-> [f \in File!Files |-> File!NoFile]]]
      /\ message = [d \in Drafts |-> {}] /\ direct = FALSE /\ fileBudget = [asks |-> MaxAsks, faults |-> MaxFaults]
  BY DEF File!Init
<1>2. FetchTypes
  BY <1>1, AttachmentFacts DEF FetchTypes, File!AttachmentRow, File!BlobState, WorkerState, AskState, File!NoAsk
<1>3. FileTypes
  BY <1>1 DEF FileTypes, File!StagedRow, File!DraftFiles
<1>4. BoundTypes
  BY <1>1, AttachmentFacts DEF BoundTypes
<1>5. RowHasBlob /\ PublishesBlob
  BY <1>1 DEF RowHasBlob, PublishesBlob
<1>6. File!Holders = {}
  BY <1>1, AttachmentFacts DEF File!Holders, File!Files
<1>7. OneTaker
  BY <1>1, <1>6 DEF OneTaker
<1> QED BY <1>2, <1>3, <1>4, <1>5, <1>7 DEF AttachmentInv

LEMMA AttachmentNextKeeps == ASSUME File!AttachmentAssumption, AttachmentInv, [File!Next]_File!vars PROVE AttachmentInv'
<1>1. CASE UNCHANGED File!vars
  BY <1>1 DEF File!vars, AttachmentInv, FetchTypes, FileTypes, BoundTypes, RowHasBlob, PublishesBlob, OneTaker, File!Holders
<1>2. CASE File!Ask \/ File!Web \/ File!WebCrash \/ File!Repair
  BY <1>2, FileAskedKeeps, ResetKeeps DEF File!Web
<1>3. CASE (\E w \in Workers : File!Run(w) \/ File!LoseSession(w)) \/ File!WorkerCrash \/ File!Change \/ File!Damage
  BY <1>3, WorkerStepsKeep, CheckFailKeep, FetchKeeps, PublishKeeps, PinKeeps, SessionEndsKeep, DamageKeeps DEF File!Run
<1>4. CASE File!Remove \/ File!Expire \/ File!SendDirect \/ \E d \in Drafts : File!Upload(d) \/ File!Save(d) \/ File!Reopen(d) \/ File!Send(d)
  BY <1>4, StagedKeeps, SaveKeeps, ReopenKeeps, SendKeeps
<1> QED BY <1>1, <1>2, <1>3, <1>4 DEF File!Next

\* The inductive invariant of attachments and uploaded files, for any number of workers,
\* drafts, blobs, requests and failures.
THEOREM AttachmentInvariantHolds == ASSUME File!AttachmentAssumption PROVE File!Spec => []AttachmentInv
<1>1. File!Init => AttachmentInv
  BY AttachmentInitHolds
<1>2. AttachmentInv /\ [File!Next]_File!vars => AttachmentInv'
  BY AttachmentNextKeeps
<1> QED BY <1>1, <1>2, PTL DEF File!Spec

\* An uploaded file goes to one draft, with the message it becomes, or to one message
\* sent without a draft (DraftService.attachments, OutgoingMessageService.create).
THEOREM FileGoesToOnePlace == ASSUME File!AttachmentAssumption PROVE File!Spec => []File!OnePlace
<1>1. AttachmentInv => File!OnePlace
  <2> SUFFICES ASSUME AttachmentInv PROVE File!OnePlace
    OBVIOUS
  <2>1. Cardinality(File!Holders) <= 1
    <3>1. CASE File!Holders = {}
      BY <3>1, FS_EmptySet
    <3>2. CASE \E d : d \in File!Holders
      <4>1. PICK d : d \in File!Holders
        BY <3>2
      <4>2. File!Holders = {d}
        BY <4>1 DEF AttachmentInv, OneTaker
      <4> QED BY <4>2, FS_Singleton
    <3> QED BY <3>1, <3>2
  <2>2. /\ direct => File!Holders = {}
        /\ staged.status \in {"ready", "removed"} => File!Holders = {} /\ ~direct
    BY DEF AttachmentInv, OneTaker
  <2> QED BY <2>1, <2>2, SameFileCount DEF File!OnePlace
<1>2. File!Spec => []AttachmentInv
  BY AttachmentInvariantHolds
<1> QED BY <1>1, <1>2, PTL

\* A request does not undo what a worker has done since the request read the row
\* (AttachmentService.request).
THEOREM RequestUndoesNothing == ASSUME File!AttachmentAssumption PROVE File!Spec => File!RequestKeepsBytes
<1> DEFINE Step == ask.pc = "read" /\ ask'.pc = "enqueue" /\ File!Intact(row.blob) =>
                     row' = row \/ (ask.status = "ready" /\ ask.blob = row.blob)
<1>1. AttachmentInv /\ [File!Next]_File!vars => [Step]_File!vars
  <2> SUFFICES ASSUME AttachmentInv, [File!Next]_File!vars, File!Intact(row.blob), row' # row
               PROVE  ask.pc = "read" /\ ask'.pc = "enqueue" => ask.status = "ready" /\ ask.blob = row.blob
    OBVIOUS
  <2>1. row.status = "ready"
    BY DEF AttachmentInv, RowHasBlob, File!Intact
  <2>2. CASE File!Reset
    BY <2>1, <2>2 DEF File!Reset, File!Unchanged
  <2>3. CASE ~File!Reset
    <3>1. ask' = ask
      BY <2>3 DEF File!Next, File!Web, File!Run, File!Ask, File!Enqueue, File!WebCrash, File!Repair, File!Take,
         File!Lock, File!Lost, File!Check, File!Fetch, File!Publish, File!Pin, File!Fail, File!Release,
         File!LoseSession, File!WorkerCrash, File!Change, File!Damage, File!Remove, File!Expire,
         File!SendDirect, File!Upload, File!Save, File!Reopen, File!Send, File!fetching, File!vars
    <3> QED BY <3>1
  <2> QED BY <2>2, <2>3
<1>2. File!Spec => []AttachmentInv
  BY AttachmentInvariantHolds
<1>3. File!Spec => [][Step]_File!vars
  BY <1>1, <1>2, PTL DEF File!Spec
<1> QED BY <1>3 DEF File!RequestKeepsBytes
=============================================================================
