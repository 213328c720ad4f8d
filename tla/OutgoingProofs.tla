--------------------------- MODULE OutgoingProofs ---------------------------
(***************************************************************************)
(* The inductive invariant of OutgoingInvariant holds for any number of    *)
(* messages, workers, attempts, jobs and faults; the safety properties     *)
(* follow from it, and every step implements a step of AtMostOnceSend.     *)
(***************************************************************************)
EXTENDS OutgoingInvariant, OutgoingRestore, TLAPS

(* Types of the building blocks. *)

LEMMA MoreType ==
  ASSUME NEW queue \in [Messages -> 0..MaxJobs], NEW m \in Messages
  PROVE  More(queue, m) \in [Messages -> 0..MaxJobs]
BY JobsAssumption DEF More

LEMMA FaultType ==
  ASSUME faults \in 0..MaxFaults, Fault
  PROVE  faults' \in 0..MaxFaults
BY FaultsAssumption DEF Fault

LEMMA EnqueueOutgoingType ==
  ASSUME TypeOK, NEW m \in Messages, EnqueueOutgoing(m)
  PROVE  jobs' \in [Messages -> 0..MaxJobs] /\ faults' \in 0..MaxFaults
BY MoreType, FaultType DEF EnqueueOutgoing, TypeOK

LEMMA EnqueueSentCopyType ==
  ASSUME TypeOK, NEW m \in Messages, EnqueueSentCopy(m)
  PROVE  copyJobs' \in [Messages -> 0..MaxJobs] /\ faults' \in 0..MaxFaults
BY MoreType, FaultType DEF EnqueueSentCopy, TypeOK

LEMMA UnlockedType ==
  ASSUME TypeOK, NEW t \in Threads
  PROVE  Unlocked(t) \in [Messages -> Threads \cup {None}]
BY DEF Unlocked, TypeOK

LEMMA ForgetType ==
  ASSUME TypeOK, NEW t \in Threads, Forget(t)
  PROVE  /\ job' \in [Threads -> Messages \cup {None}]
         /\ cred' \in [Threads -> {"unread", "ok", "failed"}]
         /\ claim' \in [Threads -> 0..MaxAttempts]
         /\ result' \in [Threads -> Results]
<1>1. /\ None \in Messages \cup {None}
      /\ 0 \in 0..MaxAttempts
      /\ "none" \in Results
  BY AttemptsAssumption DEF Results
<1> QED BY <1>1 DEF Forget, TypeOK

LEMMA OutcomeType ==
  ASSUME NEW t
  PROVE  Outcome(t) \in {"queued"} \cup Terminal
BY DEF Outcome, Terminal

(* One lemma per action. *)

LEMMA CreateKeeps ==
  ASSUME NEW gone, IInvBut(gone), NEW m \in Messages \ gone, Create(m)
  PROVE  IInvBut(gone)'
<1> USE ThreadAssumption, NoneAssumption
    DEF IInvBut, Threads, row, queues, local, trouble, smtp, Create
<1>1. TypeOK'
  BY EnqueueOutgoingType DEF TypeOK, PCs, WorkerPCs, Employed, Statuses
<1>2. RowTells(gone)'
  BY DEF RowTells, DelivererKnows, Delivering, DelivererOwnsRow, Employed, WorkerPCs, TypeOK
<1>3. Employed' /\ PollerNeverDelivers' /\ OneDeliverer' /\ DelivererOwnsRow' /\ DelivererKnows'
      /\ LockProtects' /\ LiveAttemptStands'
  BY DEF Employed, WorkerPCs, TypeOK, PollerNeverDelivers, OneDeliverer, Delivering,
         DelivererOwnsRow, DelivererKnows, RowTells, LockProtects, Holding, LiveAttemptStands
<1> QED BY <1>1, <1>2, <1>3

LEMMA CreateAgainKeeps ==
  ASSUME NEW gone, IInvBut(gone), NEW m \in Messages, CreateAgain(m)
  PROVE  IInvBut(gone)'
<1> USE ThreadAssumption, NoneAssumption
    DEF IInvBut, Threads, row, queues, local, trouble, smtp, CreateAgain
<1>1. TypeOK'
  BY EnqueueOutgoingType DEF TypeOK, PCs, WorkerPCs, Employed
<1>2. Employed' /\ PollerNeverDelivers' /\ OneDeliverer' /\ DelivererOwnsRow' /\ DelivererKnows'
      /\ RowTells(gone)' /\ LockProtects' /\ LiveAttemptStands'
  BY DEF Employed, WorkerPCs, TypeOK, PollerNeverDelivers, OneDeliverer, Delivering,
         DelivererOwnsRow, DelivererKnows, RowTells, LockProtects, Holding, LiveAttemptStands
<1> QED BY <1>1, <1>2

LEMMA ToggleAccountKeeps ==
  ASSUME NEW gone, IInvBut(gone), NEW m \in Messages, ToggleAccount(m)
  PROVE  IInvBut(gone)'
<1> USE ThreadAssumption, NoneAssumption
    DEF IInvBut, Threads, row, queues, local, trouble, smtp, ToggleAccount
<1>1. TypeOK'
  BY DEF TypeOK, PCs, WorkerPCs, Employed
<1>2. Employed' /\ PollerNeverDelivers' /\ OneDeliverer' /\ DelivererOwnsRow' /\ DelivererKnows'
      /\ RowTells(gone)' /\ LockProtects' /\ LiveAttemptStands'
  BY DEF Employed, WorkerPCs, TypeOK, PollerNeverDelivers, OneDeliverer, Delivering,
         DelivererOwnsRow, DelivererKnows, RowTells, LockProtects, Holding, LiveAttemptStands
<1> QED BY <1>1, <1>2

LEMMA TickKeeps ==
  ASSUME NEW gone, IInvBut(gone), NEW m \in Messages, Tick(m)
  PROVE  IInvBut(gone)'
<1> USE ThreadAssumption, NoneAssumption
    DEF IInvBut, Threads, row, queues, local, trouble, smtp, Tick
<1>1. TypeOK'
  BY DEF TypeOK, PCs, WorkerPCs, Employed
<1>2. Employed' /\ PollerNeverDelivers' /\ OneDeliverer' /\ DelivererOwnsRow' /\ DelivererKnows'
      /\ RowTells(gone)' /\ LockProtects' /\ LiveAttemptStands'
  BY DEF Employed, WorkerPCs, TypeOK, PollerNeverDelivers, OneDeliverer, Delivering,
         DelivererOwnsRow, DelivererKnows, RowTells, LockProtects, Holding, LiveAttemptStands
<1> QED BY <1>1, <1>2

LEMMA TakeKeeps ==
  ASSUME NEW gone, IInvBut(gone), NEW w \in Workers, NEW m \in Messages, Take(w, m)
  PROVE  IInvBut(gone)'
<1> USE ThreadAssumption, NoneAssumption
    DEF IInvBut, Threads, Goto, row, queues, local, trouble, smtp, Take
<1>1. TypeOK'
  BY JobsAssumption DEF TypeOK, PCs, WorkerPCs, Employed
<1>2. Employed'
  BY DEF Employed, WorkerPCs, TypeOK
<1>3. OneDeliverer'
  BY DEF OneDeliverer, Delivering, DelivererOwnsRow, Employed, WorkerPCs, TypeOK
<1>4. LockProtects'
  BY DEF LockProtects, Holding, WorkerPCs, Employed, TypeOK
<1>5. PollerNeverDelivers' /\ DelivererOwnsRow' /\ DelivererKnows' /\ RowTells(gone)' /\
      LiveAttemptStands'
  BY DEF PollerNeverDelivers, WorkerPCs, TypeOK, DelivererOwnsRow, Delivering, OneDeliverer,
         Employed, DelivererKnows, RowTells, LiveAttemptStands, LockProtects, Holding
<1> QED BY <1>1, <1>2, <1>3, <1>4, <1>5

LEMMA ResolveKeeps ==
  ASSUME NEW gone, IInvBut(gone), NEW w \in Workers, Resolve(w)
  PROVE  IInvBut(gone)'
<1> USE ThreadAssumption, NoneAssumption
    DEF IInvBut, Threads, Goto, row, queues, local, trouble, smtp, Resolve
<1>1. TypeOK'
  BY DEF TypeOK, PCs, WorkerPCs, Employed
<1>2. Employed'
  BY DEF Employed, WorkerPCs, TypeOK
<1>3. OneDeliverer'
  BY DEF OneDeliverer, Delivering, DelivererOwnsRow, Employed, WorkerPCs, TypeOK
<1>4. LockProtects'
  BY DEF LockProtects, Holding, WorkerPCs, Employed, TypeOK
<1>5. PollerNeverDelivers' /\ DelivererOwnsRow' /\ DelivererKnows' /\ RowTells(gone)' /\
      LiveAttemptStands'
  BY DEF PollerNeverDelivers, WorkerPCs, TypeOK, DelivererOwnsRow, Delivering, OneDeliverer,
         Employed, DelivererKnows, RowTells, LiveAttemptStands, LockProtects, Holding
<1> QED BY <1>1, <1>2, <1>3, <1>4, <1>5

LEMMA LockKeeps ==
  ASSUME NEW gone, IInvBut(gone), NEW w \in Workers, Lock(w)
  PROVE  IInvBut(gone)'
<1> USE ThreadAssumption, NoneAssumption
    DEF IInvBut, Threads, Goto, row, queues, local, trouble, smtp, Lock, Free
<1>1. TypeOK'
  BY ForgetType DEF TypeOK, PCs, WorkerPCs, Employed, Results
<1>2. Employed'
  BY DEF Employed, WorkerPCs, TypeOK, Forget
<1>3. OneDeliverer'
  BY DEF OneDeliverer, Delivering, DelivererOwnsRow, Employed, WorkerPCs, TypeOK, Forget
<1>4. LockProtects'
  BY DEF LockProtects, Holding, WorkerPCs, Employed, TypeOK, Forget
<1>5. PollerNeverDelivers' /\ DelivererOwnsRow' /\ DelivererKnows' /\ RowTells(gone)' /\
      LiveAttemptStands'
  BY DEF Forget, PollerNeverDelivers, WorkerPCs, TypeOK, DelivererOwnsRow, Delivering,
         OneDeliverer, Employed, DelivererKnows, RowTells, LiveAttemptStands, LockProtects,
         Holding
<1> QED BY <1>1, <1>2, <1>3, <1>4, <1>5

LEMMA ExamineKeeps ==
  ASSUME NEW gone, IInvBut(gone), NEW w \in Workers, Examine(w)
  PROVE  IInvBut(gone)'
<1> USE ThreadAssumption, NoneAssumption
    DEF IInvBut, Threads, Goto, row, queues, local, trouble, smtp, Examine
<1>1. TypeOK'
  BY DEF TypeOK, PCs, WorkerPCs, Employed
<1>2. Employed'
  BY DEF Employed, WorkerPCs, TypeOK
<1>3. OneDeliverer'
  BY DEF OneDeliverer, Delivering, DelivererOwnsRow, Employed, WorkerPCs, TypeOK
<1>4. LockProtects'
  BY DEF LockProtects, Holding, WorkerPCs, Employed, TypeOK
<1>5. PollerNeverDelivers' /\ DelivererOwnsRow' /\ DelivererKnows' /\ RowTells(gone)' /\
      LiveAttemptStands'
  BY DEF PollerNeverDelivers, WorkerPCs, TypeOK, DelivererOwnsRow, Delivering, OneDeliverer,
         Employed, DelivererKnows, RowTells, LiveAttemptStands, LockProtects, Holding
<1> QED BY <1>1, <1>2, <1>3, <1>4, <1>5

LEMMA CheckAccountKeeps ==
  ASSUME NEW gone, IInvBut(gone), NEW w \in Workers, CheckAccount(w)
  PROVE  IInvBut(gone)'
<1> USE ThreadAssumption, NoneAssumption
    DEF IInvBut, Threads, Goto, row, queues, local, trouble, smtp, CheckAccount
<1>1. TypeOK'
  BY DEF TypeOK, PCs, WorkerPCs, Employed
<1>2. Employed'
  BY DEF Employed, WorkerPCs, TypeOK
<1>3. OneDeliverer'
  BY DEF OneDeliverer, Delivering, DelivererOwnsRow, Employed, WorkerPCs, TypeOK
<1>4. LockProtects'
  BY DEF LockProtects, Holding, WorkerPCs, Employed, TypeOK
<1>5. PollerNeverDelivers' /\ DelivererOwnsRow' /\ DelivererKnows' /\ RowTells(gone)' /\
      LiveAttemptStands'
  BY DEF PollerNeverDelivers, WorkerPCs, TypeOK, DelivererOwnsRow, Delivering, OneDeliverer,
         Employed, DelivererKnows, RowTells, LiveAttemptStands, LockProtects, Holding
<1> QED BY <1>1, <1>2, <1>3, <1>4, <1>5

LEMMA RejectKeeps ==
  ASSUME NEW gone, IInvBut(gone), NEW w \in Workers, Reject(w)
  PROVE  IInvBut(gone)'
<1> USE ThreadAssumption, NoneAssumption
    DEF IInvBut, Threads, Goto, row, queues, local, trouble, smtp, Reject
<1>1. TypeOK'
  BY DEF TypeOK, PCs, WorkerPCs, Employed, Statuses, Terminal
<1>2. DelivererOwnsRow'
  BY DEF DelivererOwnsRow, Delivering, OneDeliverer, Employed, WorkerPCs, TypeOK
<1>3. RowTells(gone)'
  BY DEF RowTells, DelivererKnows, Delivering, DelivererOwnsRow, Employed, WorkerPCs, TypeOK
<1>4. LiveAttemptStands'
  BY DEF LiveAttemptStands, LockProtects, Holding, Delivering, OneDeliverer, DelivererOwnsRow,
         Employed, WorkerPCs, TypeOK
<1>5. LockProtects'
  BY DEF LockProtects, Holding, WorkerPCs, Employed, TypeOK
<1>6. Employed' /\ PollerNeverDelivers' /\ OneDeliverer' /\ DelivererKnows'
  BY DEF Employed, WorkerPCs, TypeOK, PollerNeverDelivers, OneDeliverer, Delivering,
         DelivererOwnsRow, DelivererKnows, RowTells
<1> QED BY <1>1, <1>2, <1>3, <1>4, <1>5, <1>6

LEMMA ClaimKeeps ==
  ASSUME NEW gone, IInvBut(gone), NEW w \in Workers, Claim(w)
  PROVE  IInvBut(gone)'
<1> USE ThreadAssumption, NoneAssumption
    DEF IInvBut, Threads, Goto, row, queues, local, trouble, smtp, Claim, Claimable
<1>1. TypeOK'
  <2>1. job[w] \in Messages
    BY DEF Employed, WorkerPCs
  <2>2. CASE Claimable(job[w])
    <3>1. attempts[job[w]] + 1 \in 0..MaxAttempts
      BY <2>1, <2>2, AttemptsAssumption DEF TypeOK, RowTells
    <3>2. /\ status' \in [Messages -> Statuses]
          /\ attempts' \in [Messages -> 0..MaxAttempts]
          /\ claim' \in [Threads -> 0..MaxAttempts]
      BY <2>1, <2>2, <3>1 DEF TypeOK, Statuses
    <3>3. pc' \in [Threads -> PCs]
      BY <2>2 DEF TypeOK, PCs, WorkerPCs
    <3> QED
      BY <3>2, <3>3 DEF TypeOK
  <2>3. CASE ~Claimable(job[w])
    BY <2>3 DEF TypeOK, PCs
  <2> QED
    BY <2>2, <2>3
<1>2. OneDeliverer'
  BY DEF OneDeliverer, Delivering, DelivererOwnsRow, Employed, WorkerPCs, TypeOK
<1>3. DelivererOwnsRow'
  BY DEF DelivererOwnsRow, Delivering, OneDeliverer, Employed, WorkerPCs, TypeOK
<1>4. DelivererKnows'
  BY DEF DelivererKnows, DelivererOwnsRow, OneDeliverer, RowTells, Delivering, Employed,
         WorkerPCs, TypeOK
<1>5. RowTells(gone)'
  BY DEF RowTells, DelivererKnows, Delivering, DelivererOwnsRow, Employed, WorkerPCs, TypeOK
<1>6. LockProtects'
  BY DEF LockProtects, Holding, WorkerPCs, Employed, TypeOK
<1>7. LiveAttemptStands'
  BY DEF LiveAttemptStands, LockProtects, Holding, Delivering, OneDeliverer, DelivererOwnsRow,
         Employed, WorkerPCs, TypeOK
<1>8. Employed' /\ PollerNeverDelivers'
  BY DEF Employed, WorkerPCs, TypeOK, PollerNeverDelivers
<1> QED BY <1>1, <1>2, <1>3, <1>4, <1>5, <1>6, <1>7, <1>8

LEMMA VerifyFailsKeeps ==
  ASSUME NEW gone, IInvBut(gone), NEW w \in Workers, VerifyFails(w)
  PROVE  IInvBut(gone)'
<1> USE ThreadAssumption, NoneAssumption
    DEF IInvBut, Threads, Goto, row, queues, local, trouble, smtp, VerifyFails
<1>1. TypeOK'
  BY DEF TypeOK, PCs, WorkerPCs, Employed, Results
<1>2. OneDeliverer'
  BY DEF OneDeliverer, Delivering, DelivererOwnsRow, Employed, WorkerPCs, TypeOK
<1>3. DelivererOwnsRow'
  BY DEF DelivererOwnsRow, Delivering, OneDeliverer, Employed, WorkerPCs, TypeOK
<1>4. DelivererKnows'
  BY DEF DelivererKnows, DelivererOwnsRow, OneDeliverer, RowTells, Delivering, Employed,
         WorkerPCs, TypeOK
<1>5. LockProtects'
  BY DEF LockProtects, Holding, WorkerPCs, Employed, TypeOK
<1>6. LiveAttemptStands'
  BY DEF LiveAttemptStands, LockProtects, Holding, Delivering, OneDeliverer, DelivererOwnsRow,
         Employed, WorkerPCs, TypeOK
<1>7. Employed' /\ PollerNeverDelivers' /\ RowTells(gone)'
  BY DEF Employed, WorkerPCs, TypeOK, PollerNeverDelivers, RowTells, DelivererKnows, Delivering,
         DelivererOwnsRow
<1> QED BY <1>1, <1>2, <1>3, <1>4, <1>5, <1>6, <1>7

LEMMA SubmitKeeps ==
  ASSUME NEW gone, IInvBut(gone), NEW w \in Workers, Submit(w)
  PROVE  IInvBut(gone)'
<1> USE ThreadAssumption, NoneAssumption
    DEF IInvBut, Threads, Goto, row, queues, local, trouble, smtp, Submit
<1>1. TypeOK'
  BY DEF TypeOK, PCs, WorkerPCs, Employed
<1>2. OneDeliverer'
  BY DEF OneDeliverer, Delivering, DelivererOwnsRow, Employed, WorkerPCs, TypeOK
<1>3. DelivererOwnsRow'
  BY DEF DelivererOwnsRow, Delivering, OneDeliverer, Employed, WorkerPCs, TypeOK
<1>4. DelivererKnows'
  BY DEF DelivererKnows, DelivererOwnsRow, OneDeliverer, RowTells, Delivering, Employed,
         WorkerPCs, TypeOK
<1>5. RowTells(gone)'
  BY DEF RowTells, DelivererKnows, Delivering, DelivererOwnsRow, Employed, WorkerPCs, TypeOK
<1>6. LockProtects'
  BY DEF LockProtects, Holding, WorkerPCs, Employed, TypeOK
<1>7. LiveAttemptStands'
  BY DEF LiveAttemptStands, LockProtects, Holding, Delivering, OneDeliverer, DelivererOwnsRow,
         Employed, WorkerPCs, TypeOK
<1>8. Employed' /\ PollerNeverDelivers'
  BY DEF Employed, WorkerPCs, TypeOK, PollerNeverDelivers
<1> QED BY <1>1, <1>2, <1>3, <1>4, <1>5, <1>6, <1>7, <1>8

LEMMA ReplyKeeps ==
  ASSUME NEW gone, IInvBut(gone), NEW w \in Workers, Reply(w)
  PROVE  IInvBut(gone)'
<1> USE ThreadAssumption, NoneAssumption
    DEF IInvBut, Threads, Goto, row, queues, local, trouble, smtp, Reply
<1>1. TypeOK'
  BY DEF TypeOK, PCs, WorkerPCs, Employed, Results
<1>2. OneDeliverer'
  BY DEF OneDeliverer, Delivering, DelivererOwnsRow, Employed, WorkerPCs, TypeOK
<1>3. DelivererOwnsRow'
  BY DEF DelivererOwnsRow, Delivering, OneDeliverer, Employed, WorkerPCs, TypeOK
<1>4. DelivererKnows'
  BY DEF DelivererKnows, DelivererOwnsRow, OneDeliverer, RowTells, Delivering, Employed,
         WorkerPCs, TypeOK
<1>5. RowTells(gone)'
  BY DEF RowTells, DelivererKnows, Delivering, DelivererOwnsRow, Employed, WorkerPCs, TypeOK
<1>6. LockProtects'
  BY DEF LockProtects, Holding, WorkerPCs, Employed, TypeOK
<1>7. LiveAttemptStands'
  BY DEF LiveAttemptStands, LockProtects, Holding, Delivering, OneDeliverer, DelivererOwnsRow,
         Employed, WorkerPCs, TypeOK
<1>8. Employed' /\ PollerNeverDelivers'
  BY DEF Employed, WorkerPCs, TypeOK, PollerNeverDelivers
<1> QED BY <1>1, <1>2, <1>3, <1>4, <1>5, <1>6, <1>7, <1>8

LEMMA RecordKeeps ==
  ASSUME NEW gone, IInvBut(gone), NEW w \in Workers, Record(w)
  PROVE  IInvBut(gone)'
<1> USE ThreadAssumption, NoneAssumption
    DEF IInvBut, Threads, Goto, row, queues, local, trouble, smtp, Record, Recordable
<1>1. TypeOK'
  <2>1. status' \in [Messages -> Statuses]
    BY OutcomeType DEF TypeOK, Employed, WorkerPCs, Statuses, Terminal
  <2>2. due' \in [Messages -> BOOLEAN]
    BY DEF TypeOK
  <2>3. copy' \in [Messages -> CopyStatuses]
    BY DEF TypeOK, CopyStatuses
  <2>4. pc' \in [Threads -> PCs]
    BY DEF TypeOK, PCs, WorkerPCs
  <2> QED
    BY <2>1, <2>2, <2>3, <2>4 DEF TypeOK
<1>2. OneDeliverer'
  BY DEF OneDeliverer, Delivering, DelivererOwnsRow, Employed, WorkerPCs, TypeOK
<1>3. DelivererOwnsRow'
  BY DEF DelivererOwnsRow, Delivering, OneDeliverer, Employed, WorkerPCs, TypeOK, Outcome
<1>4. DelivererKnows'
  BY DEF DelivererKnows, DelivererOwnsRow, OneDeliverer, RowTells, Delivering, Employed,
         WorkerPCs, TypeOK
<1>5. RowTells(gone)'
  BY DEF RowTells, DelivererKnows, Delivering, DelivererOwnsRow, Employed, WorkerPCs, TypeOK,
         Outcome, Results
<1>6. LockProtects'
  BY DEF LockProtects, Holding, WorkerPCs, Employed, TypeOK
<1>7. LiveAttemptStands'
  BY DEF LiveAttemptStands, LockProtects, Holding, Delivering, OneDeliverer, DelivererOwnsRow,
         Employed, WorkerPCs, TypeOK, Outcome
<1>8. Employed' /\ PollerNeverDelivers'
  BY DEF Employed, WorkerPCs, TypeOK, PollerNeverDelivers
<1> QED BY <1>1, <1>2, <1>3, <1>4, <1>5, <1>6, <1>7, <1>8

LEMMA NotifyKeeps ==
  ASSUME NEW gone, IInvBut(gone), NEW w \in Workers, Notify(w)
  PROVE  IInvBut(gone)'
<1> USE ThreadAssumption, NoneAssumption
    DEF IInvBut, Threads, Goto, row, queues, local, trouble, smtp, Notify
<1>1. TypeOK'
  BY EnqueueSentCopyType DEF TypeOK, PCs, WorkerPCs, Employed
<1>2. LockProtects'
  BY DEF LockProtects, Holding, WorkerPCs, Employed, TypeOK
<1>3. Employed' /\ PollerNeverDelivers' /\ OneDeliverer' /\ DelivererOwnsRow' /\ DelivererKnows'
      /\ RowTells(gone)' /\ LiveAttemptStands'
  BY DEF Employed, WorkerPCs, TypeOK, PollerNeverDelivers, OneDeliverer, Delivering,
         DelivererOwnsRow, DelivererKnows, RowTells, LiveAttemptStands, LockProtects, Holding
<1> QED BY <1>1, <1>2, <1>3

LEMMA RecoverKeeps ==
  ASSUME NEW gone, IInvBut(gone), NEW t \in Threads, Recover(t)
  PROVE  IInvBut(gone)'
<1> USE ThreadAssumption, NoneAssumption
    DEF IInvBut, Threads, Goto, row, queues, local, trouble, smtp, Recover
<1>1. TypeOK'
  BY DEF TypeOK, PCs, WorkerPCs, Employed, Statuses, Terminal
<1>2. DelivererOwnsRow'
  BY DEF DelivererOwnsRow, Delivering, OneDeliverer, Employed, WorkerPCs, TypeOK
<1>3. RowTells(gone)'
  BY DEF RowTells, DelivererKnows, Delivering, DelivererOwnsRow, Employed, WorkerPCs, TypeOK
<1>4. LockProtects'
  BY DEF LockProtects, Holding, WorkerPCs, Employed, TypeOK
<1>5. LiveAttemptStands'
  BY DEF LiveAttemptStands, LockProtects, Holding, Delivering, OneDeliverer, DelivererOwnsRow,
         Employed, WorkerPCs, TypeOK
<1>6. Employed' /\ PollerNeverDelivers' /\ OneDeliverer' /\ DelivererKnows'
  BY DEF Employed, WorkerPCs, TypeOK, PollerNeverDelivers, OneDeliverer, Delivering,
         DelivererOwnsRow, DelivererKnows, RowTells
<1> QED BY <1>1, <1>2, <1>3, <1>4, <1>5, <1>6

LEMMA ReleaseKeeps ==
  ASSUME NEW gone, IInvBut(gone), NEW t \in Threads, Release(t)
  PROVE  IInvBut(gone)'
<1> USE ThreadAssumption, NoneAssumption
    DEF IInvBut, Threads, Goto, row, queues, local, trouble, smtp, Release
<1>1. TypeOK'
  BY ForgetType, UnlockedType DEF TypeOK, PCs, WorkerPCs, Employed, Results
<1>2. Employed'
  BY DEF Employed, WorkerPCs, TypeOK, Forget, Unlocked
<1>3. LockProtects'
  BY DEF LockProtects, Holding, WorkerPCs, Employed, TypeOK, Forget, Unlocked
<1>4. PollerNeverDelivers' /\ OneDeliverer' /\ DelivererOwnsRow' /\ DelivererKnows' /\ RowTells(gone)'
      /\ LiveAttemptStands'
  BY DEF Forget, Unlocked, PollerNeverDelivers, WorkerPCs, TypeOK, OneDeliverer, Delivering,
         DelivererOwnsRow, Employed, DelivererKnows, RowTells, LiveAttemptStands, LockProtects,
         Holding
<1> QED BY <1>1, <1>2, <1>3, <1>4

LEMMA SweepBeginKeeps ==
  ASSUME NEW gone, IInvBut(gone), SweepBegin
  PROVE  IInvBut(gone)'
<1> USE ThreadAssumption, NoneAssumption
    DEF IInvBut, Threads, Goto, row, queues, local, trouble, smtp, SweepBegin
<1>1. TypeOK'
  BY DEF TypeOK, PCs, WorkerPCs, Employed, Due
<1>2. Employed' /\ PollerNeverDelivers' /\ OneDeliverer' /\ DelivererOwnsRow' /\ DelivererKnows'
      /\ RowTells(gone)' /\ LockProtects' /\ LiveAttemptStands'
  BY DEF Employed, WorkerPCs, TypeOK, PollerNeverDelivers, OneDeliverer, Delivering,
         DelivererOwnsRow, DelivererKnows, RowTells, LockProtects, Holding, LiveAttemptStands
<1> QED BY <1>1, <1>2

LEMMA SweepQueuedKeeps ==
  ASSUME NEW gone, IInvBut(gone), NEW m \in Messages, SweepQueued(m)
  PROVE  IInvBut(gone)'
<1> USE ThreadAssumption, NoneAssumption
    DEF IInvBut, Threads, row, queues, local, trouble, smtp, SweepQueued
<1>1. TypeOK'
  BY EnqueueOutgoingType DEF TypeOK, PCs, WorkerPCs, Employed
<1>2. Employed' /\ PollerNeverDelivers' /\ OneDeliverer' /\ DelivererOwnsRow' /\ DelivererKnows'
      /\ RowTells(gone)' /\ LockProtects' /\ LiveAttemptStands'
  BY DEF Employed, WorkerPCs, TypeOK, PollerNeverDelivers, OneDeliverer, Delivering,
         DelivererOwnsRow, DelivererKnows, RowTells, LockProtects, Holding, LiveAttemptStands
<1> QED BY <1>1, <1>2

LEMMA SweepSendingKeeps ==
  ASSUME NEW gone, IInvBut(gone), NEW m \in Messages, SweepSending(m)
  PROVE  IInvBut(gone)'
<1> USE ThreadAssumption, NoneAssumption
    DEF IInvBut, Threads, Goto, row, queues, local, trouble, smtp, SweepSending, Free
<1>1. TypeOK'
  BY DEF TypeOK, PCs, WorkerPCs, Employed
<1>2. Employed'
  BY DEF Employed, WorkerPCs, TypeOK
<1>3. OneDeliverer'
  BY DEF OneDeliverer, Delivering, DelivererOwnsRow, Employed, WorkerPCs, TypeOK
<1>4. LockProtects'
  BY DEF LockProtects, Holding, WorkerPCs, Employed, TypeOK
<1>5. PollerNeverDelivers' /\ DelivererOwnsRow' /\ DelivererKnows' /\ RowTells(gone)' /\
      LiveAttemptStands'
  BY DEF PollerNeverDelivers, WorkerPCs, TypeOK, DelivererOwnsRow, Delivering, OneDeliverer,
         Employed, DelivererKnows, RowTells, LiveAttemptStands, LockProtects, Holding
<1> QED BY <1>1, <1>2, <1>3, <1>4, <1>5

LEMMA SweepEndKeeps ==
  ASSUME NEW gone, IInvBut(gone), SweepEnd
  PROVE  IInvBut(gone)'
<1> USE ThreadAssumption, NoneAssumption
    DEF IInvBut, Threads, Goto, row, queues, local, trouble, smtp, SweepEnd
<1>1. TypeOK'
  BY DEF TypeOK, PCs, WorkerPCs, Employed
<1>2. Employed' /\ PollerNeverDelivers' /\ OneDeliverer' /\ DelivererOwnsRow' /\ DelivererKnows'
      /\ RowTells(gone)' /\ LockProtects' /\ LiveAttemptStands'
  BY DEF Employed, WorkerPCs, TypeOK, PollerNeverDelivers, OneDeliverer, Delivering,
         DelivererOwnsRow, DelivererKnows, RowTells, LockProtects, Holding, LiveAttemptStands
<1> QED BY <1>1, <1>2

LEMMA AbortKeeps ==
  ASSUME NEW gone, IInvBut(gone), NEW t \in Threads, Abort(t)
  PROVE  IInvBut(gone)'
<1> USE ThreadAssumption, NoneAssumption
    DEF IInvBut, Threads, Goto, row, queues, local, trouble, smtp, Abort
<1>1. TypeOK'
  BY ForgetType, UnlockedType, FaultType DEF TypeOK, PCs, WorkerPCs, Employed, Results
<1>2. Employed'
  BY DEF Employed, WorkerPCs, TypeOK, Forget, Unlocked
<1>3. OneDeliverer'
  BY DEF OneDeliverer, Delivering, DelivererOwnsRow, Employed, WorkerPCs, TypeOK, Forget, Unlocked
<1>4. DelivererKnows'
  BY DEF DelivererKnows, DelivererOwnsRow, OneDeliverer, RowTells, Delivering, Employed,
         WorkerPCs, TypeOK, Forget, Unlocked
<1>5. RowTells(gone)'
  BY DEF RowTells, DelivererKnows, Delivering, DelivererOwnsRow, Employed, WorkerPCs, TypeOK,
         Forget, Unlocked
<1>6. LockProtects'
  BY DEF LockProtects, Holding, WorkerPCs, Employed, TypeOK, Forget, Unlocked
<1>7. PollerNeverDelivers' /\ DelivererOwnsRow' /\ LiveAttemptStands'
  BY DEF Forget, Unlocked, PollerNeverDelivers, WorkerPCs, TypeOK, DelivererOwnsRow, Delivering,
         OneDeliverer, Employed, LiveAttemptStands, LockProtects, Holding
<1> QED BY <1>1, <1>2, <1>3, <1>4, <1>5, <1>6, <1>7

LEMMA LoseSessionKeeps ==
  ASSUME NEW gone, IInvBut(gone), NEW t \in Threads, LoseSession(t)
  PROVE  IInvBut(gone)'
<1> USE ThreadAssumption, NoneAssumption
    DEF IInvBut, Threads, row, queues, local, trouble, smtp, LoseSession
<1>1. TypeOK'
  BY UnlockedType, FaultsAssumption DEF TypeOK, PCs, WorkerPCs, Employed
<1>2. LockProtects'
  BY DEF LockProtects, Holding, WorkerPCs, Employed, TypeOK, Unlocked
<1>3. Employed' /\ PollerNeverDelivers' /\ OneDeliverer' /\ DelivererOwnsRow' /\ DelivererKnows'
      /\ RowTells(gone)' /\ LiveAttemptStands'
  BY DEF Unlocked, Employed, WorkerPCs, TypeOK, PollerNeverDelivers, OneDeliverer, Delivering,
         DelivererOwnsRow, DelivererKnows, RowTells, LiveAttemptStands, LockProtects, Holding
<1> QED BY <1>1, <1>2, <1>3

-----------------------------------------------------------------------------
(* The inductive invariant. *)

LEMMA InitHolds == Init => IInv
<1> SUFFICES ASSUME Init PROVE IInv
  OBVIOUS
<1> USE ThreadAssumption, NoneAssumption DEF Init, Threads, WorkerPCs
<1>1. TypeOK
  BY AttemptsAssumption, JobsAssumption, FaultsAssumption
  DEF TypeOK, Statuses, CopyStatuses, Results, PCs
<1>2. /\ Employed /\ PollerNeverDelivers /\ OneDeliverer /\ DelivererOwnsRow
      /\ DelivererKnows /\ LockProtects /\ LiveAttemptStands
  BY DEF Employed, PollerNeverDelivers, OneDeliverer, DelivererOwnsRow, DelivererKnows,
         LockProtects, LiveAttemptStands, Delivering, Holding
<1>3. RowTells({})
  BY AttemptsAssumption DEF RowTells
<1> QED
  BY <1>1, <1>2, <1>3 DEF IInv, IInvBut

LEMMA StutterKeeps ==
  ASSUME NEW gone, IInvBut(gone), UNCHANGED vars
  PROVE  IInvBut(gone)'
BY DEF vars, row, queues, local, trouble, smtp, IInvBut, TypeOK, Employed, PollerNeverDelivers,
       OneDeliverer, DelivererOwnsRow, DelivererKnows, RowTells, LockProtects,
       LiveAttemptStands, Delivering

\* A step keeps the invariant if it creates no row for a message that is gone.
LEMMA StepKeeps ==
  ASSUME NEW gone, IInvBut(gone), [Next]_vars, \A m \in gone \cap Messages : status'[m] = "absent"
  PROVE  IInvBut(gone)'
<1> USE DEF Threads
<1>1. CASE WebStep
  <2>1. ASSUME NEW m \in Messages, Create(m) PROVE m \notin gone
    BY <2>1 DEF Create, IInvBut, TypeOK
  <2> QED BY <1>1, <2>1, CreateKeeps, CreateAgainKeeps, ToggleAccountKeeps, TickKeeps DEF WebStep
<1>2. ASSUME NEW w \in Workers, RunStep(w) PROVE IInvBut(gone)'
  BY <1>2, ResolveKeeps, LockKeeps, ExamineKeeps, CheckAccountKeeps, RejectKeeps, ClaimKeeps,
     VerifyFailsKeeps, SubmitKeeps, ReplyKeeps, RecordKeeps, NotifyKeeps, RecoverKeeps,
     ReleaseKeeps
  DEF RunStep
<1>3. ASSUME NEW w \in Workers, NEW m \in Messages, Take(w, m) PROVE IInvBut(gone)'
  BY <1>3, TakeKeeps
<1>4. CASE SweepBegin
  BY <1>4, SweepBeginKeeps
<1>5. CASE Sweep
  BY <1>5, SweepQueuedKeeps, SweepSendingKeeps, SweepEndKeeps, RecoverKeeps, ReleaseKeeps
  DEF Sweep
<1>6. ASSUME NEW t \in Threads, Abort(t) \/ LoseSession(t) PROVE IInvBut(gone)'
  BY <1>6, AbortKeeps, LoseSessionKeeps
<1>7. CASE UNCHANGED vars
  BY <1>7, StutterKeeps
<1> QED
  BY <1>1, <1>2, <1>3, <1>4, <1>5, <1>6, <1>7 DEF Next

LEMMA NextKeeps == IInv /\ [Next]_vars => IInv'
BY StepKeeps DEF IInv

\* What the invariant says of the properties.
LEMMA Promised ==
  ASSUME NEW gone, IInvBut(gone)
  PROVE  TypeOK /\ AtMostOneSubmission /\ QueuedMayBeSent /\ HonestOutcome /\ LiveAttemptStands
BY DEF IInvBut, RowTells, AtMostOneSubmission, QueuedMayBeSent, HonestOutcome

\* The inductive invariant holds in every reachable state.
THEOREM InvariantHolds == Spec => []IInv
<1> QED
  BY InitHolds, NextKeeps, PTL DEF Spec

-----------------------------------------------------------------------------
(* The safety properties. *)

\* Every variable keeps its type; in particular attempts never leaves the range
\* that the CHECK of outgoing_messages allows.
THEOREM TypeCorrect == Spec => []TypeOK
<1>1. IInv => TypeOK
  BY Promised DEF IInv
<1> QED
  BY <1>1, InvariantHolds, PTL

\* No message is handed to sendMail twice.
THEOREM NeverSubmittedTwice == Spec => []AtMostOneSubmission
<1>1. IInv => AtMostOneSubmission
  BY Promised DEF IInv
<1> QED
  BY <1>1, InvariantHolds, PTL

\* A queued message was never submitted and has an attempt left.
THEOREM QueuedIsSafe == Spec => []QueuedMayBeSent
<1>1. IInv => QueuedMayBeSent
  BY Promised DEF IInv
<1> QED
  BY <1>1, InvariantHolds, PTL

\* sent means taken by the server exactly once, failed means not taken.
THEOREM OutcomeIsTrue == Spec => []HonestOutcome
<1>1. IInv => HonestOutcome
  BY Promised DEF IInv
<1> QED
  BY <1>1, InvariantHolds, PTL

\* While no session is lost, nobody declares a live attempt uncertain.
THEOREM LockIsEnough == Spec => []LiveAttemptStands
<1>1. IInv => LiveAttemptStands
  BY Promised DEF IInv
<1> QED
  BY <1>1, InvariantHolds, PTL

-----------------------------------------------------------------------------
(* No status that is final is ever overwritten. *)

LEMMA StepKeepsOutcome ==
  ASSUME TypeOK, [Next]_vars, NEW m \in Messages, status[m] \in Terminal
  PROVE  status'[m] = status[m]
<1> USE DEF Terminal, row
<1>1. CASE UNCHANGED status
  BY <1>1
<1>2. ASSUME NEW w \in Workers, Reject(w) \/ Claim(w) \/ Record(w)
      PROVE  status'[m] = status[m]
  BY <1>2 DEF TypeOK, Reject, Claim, Claimable, Record, Recordable
<1>3. ASSUME NEW t \in Threads, Recover(t) PROVE status'[m] = status[m]
  BY <1>3 DEF TypeOK, Recover
<1>4. ASSUME NEW n \in Messages, Create(n) PROVE status'[m] = status[m]
  BY <1>4 DEF TypeOK, Create
<1> QED
  <2>1. CASE WebStep
    BY <2>1, <1>1, <1>4 DEF WebStep, CreateAgain, ToggleAccount, Tick
  <2>2. ASSUME NEW w \in Workers, RunStep(w) PROVE status'[m] = status[m]
    BY <2>2, <1>1, <1>2, <1>3
    DEF RunStep, Resolve, Lock, Examine, CheckAccount, VerifyFails, Submit, Reply, Notify,
        Release, Threads
  <2>3. ASSUME NEW w \in Workers, NEW n \in Messages, Take(w, n)
        PROVE  status'[m] = status[m]
    BY <2>3 DEF Take
  <2>4. CASE SweepBegin \/ Sweep
    BY <2>4, <1>1, <1>3
    DEF SweepBegin, Sweep, SweepQueued, SweepSending, SweepEnd, Release, Threads
  <2>5. ASSUME NEW t \in Threads, Abort(t) \/ LoseSession(t) PROVE status'[m] = status[m]
    BY <2>5 DEF Abort, LoseSession
  <2>6. CASE UNCHANGED vars
    BY <2>6 DEF vars
  <2> QED
    BY <2>1, <2>2, <2>3, <2>4, <2>5, <2>6 DEF Next

\* sent, failed and uncertain are final.
THEOREM OutcomeStays == Spec => OutcomeIsFinal
<1>1. TypeOK /\ [Next]_vars =>
        [\A m \in Messages : status[m] \in Terminal => status'[m] = status[m]]_vars
  BY StepKeepsOutcome
<1> QED
  BY <1>1, TypeCorrect, PTL DEF Spec, OutcomeIsFinal

-----------------------------------------------------------------------------
(* OutgoingMessage implements AtMostOnceSend. *)

Phases == [m \in Messages |-> Phase(status[m])]

LEMMA InitRefines == Init => Promise!Init
BY DEF Init, Promise!Init, Phase

\* Steps that the promise does not see.
LEMMA Unseen ==
  ASSUME UNCHANGED <<status, accepted>>
  PROVE  UNCHANGED Promise!vars
BY DEF Promise!vars

\* A change of one row's status, seen through Phase.
LEMMA PhaseStep ==
  ASSUME TypeOK, NEW m \in Messages, NEW s \in Statuses,
         status' = [status EXCEPT ![m] = s]
  PROVE  Phases' = [Phases EXCEPT ![m] = Phase(s)]
BY DEF TypeOK, Phases

LEMMA StepRefines == IInv /\ [Next]_vars => [Promise!Next]_Promise!vars
<1> SUFFICES ASSUME IInv, [Next]_vars PROVE Promise!Next \/ UNCHANGED Promise!vars
  OBVIOUS
<1> USE DEF IInv, IInvBut, row, smtp
<1>1. ASSUME NEW m \in Messages, Create(m) PROVE Promise!Accept(m)
  BY <1>1, PhaseStep
  DEF Create, Promise!Accept, Promise!Say, Phases, Phase, Statuses
<1>2. ASSUME NEW w \in Workers, Reject(w) PROVE Promise!Next \/ UNCHANGED Promise!vars
  <2> DEFINE m == job[w]
  <2>1. m \in Messages
    BY <1>2 DEF Reject, Employed, WorkerPCs, Threads
  <2>2. CASE status[m] = "queued"
    <3>1. status' = [status EXCEPT ![m] = "failed"] /\ UNCHANGED accepted
      BY <1>2, <2>2 DEF Reject
    <3>2. Phases' = [Phases EXCEPT ![m] = "failed"] /\ Phases[m] = "pending"
      BY <2>1, <2>2, <3>1, PhaseStep DEF Phases, Phase, Statuses, Terminal
    <3>3. accepted[m] = 0
      BY <2>1, <2>2 DEF RowTells, TypeOK
    <3> QED
      BY <2>1, <3>1, <3>2, <3>3 DEF Promise!Next, Promise!Refuse, Promise!Say, Phases
  <2>3. CASE status[m] # "queued"
    BY <1>2, <2>1, <2>3, Unseen DEF Reject, TypeOK
  <2> QED
    BY <2>2, <2>3
<1>3. ASSUME NEW w \in Workers, Claim(w) PROVE UNCHANGED Promise!vars
  <2> DEFINE m == job[w]
  <2>1. m \in Messages
    BY <1>3 DEF Claim, Employed, WorkerPCs, Threads
  <2>2. CASE UNCHANGED status
    BY <1>3, <2>2, Unseen DEF Claim
  <2>3. CASE status[m] = "queued" /\ status' = [status EXCEPT ![m] = "sending"]
    BY <1>3, <2>1, <2>3, PhaseStep
    DEF Claim, Phases, Phase, Promise!vars, TypeOK, Statuses
  <2> QED
    BY <1>3, <2>2, <2>3 DEF Claim, Claimable
<1>4. ASSUME NEW w \in Workers, Reply(w) PROVE Promise!Next \/ UNCHANGED Promise!vars
  <2> DEFINE m == job[w]
  <2>1. m \in Messages /\ accepted[m] = 0 /\ Phase(status[m]) \in {"pending", "uncertain"}
    BY <1>4
    DEF Reply, Employed, WorkerPCs, Threads, DelivererKnows, DelivererOwnsRow, Delivering, Phase
  <2>2. PICK taken \in 0..1 : accepted' = [accepted EXCEPT ![m] = @ + taken]
    BY <1>4 DEF Reply
  <2>3. CASE taken = 1
    <3>1. accepted' = [accepted EXCEPT ![m] = 1]
      BY <2>1, <2>2, <2>3
    <3>2. UNCHANGED Phases
      BY <1>4 DEF Reply, Phases
    <3> QED
      BY <2>1, <3>1, <3>2 DEF Promise!Next, Promise!Deliver, Phases
  <2>4. CASE taken = 0
    BY <1>4, <2>1, <2>2, <2>4, Unseen DEF Reply, TypeOK
  <2> QED
    BY <2>2, <2>3, <2>4
<1>5. ASSUME NEW w \in Workers, Record(w) PROVE Promise!Next \/ UNCHANGED Promise!vars
  <2> DEFINE m == job[w]
  <2>1. m \in Messages
    BY <1>5 DEF Record, Employed, WorkerPCs, Threads
  <2>2. CASE status[m] # "sending"
    BY <1>5, <2>2, Unseen DEF Record, Recordable
  <2>3. CASE status[m] = "sending"
    <3>1. status' = [status EXCEPT ![m] = Outcome(w)] /\ UNCHANGED accepted
      BY <1>5, <2>3 DEF Record, Recordable
    <3>2. Outcome(w) \in Statuses
      BY OutcomeType DEF Statuses, Terminal
    <3>3. Phases' = [Phases EXCEPT ![m] = Phase(Outcome(w))]
      BY <2>1, <3>1, <3>2, PhaseStep
    <3>4. Phases[m] = "pending"
      BY <2>1, <2>3 DEF Phases, Phase
    <3>5. CASE Outcome(w) = "sent"
      <4>1. accepted[m] = 1
        BY <1>5, <2>1, <3>5 DEF Record, Outcome, DelivererKnows, Threads
      <4> QED
        BY <2>1, <3>1, <3>3, <3>4, <3>5, <4>1
        DEF Promise!Next, Promise!Confirm, Promise!Say, Phases, Phase
    <3>6. CASE Outcome(w) = "uncertain"
      BY <2>1, <3>1, <3>3, <3>4, <3>6
      DEF Promise!Next, Promise!GiveUp, Promise!Say, Phases, Phase
    <3>7. CASE Outcome(w) = "queued"
      <4>1. Phases' = Phases
        BY <2>1, <3>3, <3>4, <3>7 DEF Phases, Phase
      <4> QED
        BY <3>1, <4>1 DEF Promise!vars, Phases
    <3>8. CASE Outcome(w) = "failed"
      <4>1. accepted[m] = 0
        <5>1. result[w] \in {"retryable", "permanent"}
          BY <1>5, <3>8 DEF Record, Outcome, DelivererKnows, TypeOK, Results, Threads
        <5> QED
          BY <1>5, <2>1, <5>1 DEF Record, DelivererKnows, RowTells, TypeOK, Threads
      <4> QED
        BY <2>1, <3>1, <3>3, <3>4, <3>8, <4>1
        DEF Promise!Next, Promise!Refuse, Promise!Say, Phases, Phase
    <3> QED
      BY <3>5, <3>6, <3>7, <3>8, OutcomeType DEF Terminal
  <2> QED
    BY <2>2, <2>3
<1>6. ASSUME NEW t \in Threads, Recover(t) PROVE Promise!Next \/ UNCHANGED Promise!vars
  <2> DEFINE m == job[t]
  <2>1. m \in Messages
    BY <1>6 DEF Recover, Employed
  <2>2. CASE status[m] = "sending"
    <3>1. Promise!GiveUp(m)
      BY <1>6, <2>1, <2>2, PhaseStep
      DEF Recover, Promise!GiveUp, Promise!Say, Phases, Phase, TypeOK, Statuses, Terminal
    <3> QED
      BY <2>1, <3>1 DEF Promise!Next
  <2>3. CASE status[m] # "sending"
    BY <1>6, <2>1, <2>3, Unseen DEF Recover, TypeOK
  <2> QED
    BY <2>2, <2>3
<1>7. ASSUME NEW t \in Threads, Abort(t) PROVE Promise!Next \/ UNCHANGED Promise!vars
  <2> DEFINE m == job[t]
  <2>1. PICK taken \in 0..1 :
          /\ taken = 1 => pc[t] = "submitted"
          /\ accepted' = [n \in Messages |-> IF n = m THEN accepted[n] + taken ELSE accepted[n]]
    BY <1>7 DEF Abort
  <2>2. CASE taken = 1
    <3>1. m \in Messages /\ accepted[m] = 0 /\ Phase(status[m]) \in {"pending", "uncertain"}
      BY <2>1, <2>2
      DEF Employed, WorkerPCs, DelivererKnows, DelivererOwnsRow, Delivering, Phase
    <3>2. accepted' = [accepted EXCEPT ![m] = 1]
      <4>1. accepted \in [Messages -> Nat]
        BY DEF TypeOK
      <4>2. \A n \in Messages : accepted'[n] = [accepted EXCEPT ![m] = 1][n]
        BY <2>1, <2>2, <3>1, <4>1
      <4> QED
        BY <2>1, <4>1, <4>2
    <3>3. UNCHANGED Phases
      BY <1>7 DEF Abort, Phases
    <3> QED
      BY <3>1, <3>2, <3>3 DEF Promise!Next, Promise!Deliver, Phases
  <2>3. CASE taken = 0
    BY <1>7, <2>1, <2>3, Unseen DEF Abort, TypeOK
  <2> QED
    BY <2>1, <2>2, <2>3
<1>8. CASE UNCHANGED <<status, accepted>>
  BY <1>8, Unseen
<1> QED
  <2>1. CASE WebStep
    BY <2>1, <1>1, <1>8 DEF WebStep, CreateAgain, ToggleAccount, Tick, Promise!Next
  <2>2. ASSUME NEW w \in Workers, RunStep(w) PROVE Promise!Next \/ UNCHANGED Promise!vars
    BY <2>2, <1>2, <1>3, <1>4, <1>5, <1>6, <1>8
    DEF RunStep, Resolve, Lock, Examine, CheckAccount, VerifyFails, Submit, Notify, Release,
        Threads
  <2>3. ASSUME NEW w \in Workers, NEW m \in Messages, Take(w, m)
        PROVE  UNCHANGED Promise!vars
    BY <2>3, Unseen DEF Take
  <2>4. CASE SweepBegin \/ Sweep
    BY <2>4, <1>6, <1>8
    DEF SweepBegin, Sweep, SweepQueued, SweepSending, SweepEnd, Release, Threads
  <2>5. ASSUME NEW t \in Threads, Abort(t) \/ LoseSession(t)
        PROVE  Promise!Next \/ UNCHANGED Promise!vars
    BY <2>5, <1>7, <1>8 DEF LoseSession
  <2>6. CASE UNCHANGED vars
    BY <2>6, <1>8 DEF vars
  <2> QED
    BY <2>1, <2>2, <2>3, <2>4, <2>5, <2>6 DEF Next

\* The program keeps the promise of AtMostOnceSend: delivered at most once, sent
\* only if delivered, failed only if not and never afterwards.
THEOREM KeepsPromise == Spec => ImplementsPromise
<1> QED
  BY InitRefines, StepRefines, InvariantHolds, PTL DEF Spec, ImplementsPromise, Promise!Spec

-----------------------------------------------------------------------------
(* Delivery across a backup and its restore.  A message that was sent after  *)
(* the backup is known to nobody afterwards: what keeps it from being sent   *)
(* again is that its id never comes back, and for a message that the backup  *)
(* does know, that maintenance leaves none of them queued or sending.        *)

\* The messages whose rows a restore took away.
Gone == {m \in used : status[m] = "absent"}

BackupType ==
  backup # None =>
    /\ backup.status \in [Messages -> Statuses] /\ backup.attempts \in [Messages -> 0..MaxAttempts]
    /\ backup.due \in [Messages -> BOOLEAN] /\ backup.copy \in [Messages -> CopyStatuses]
    /\ backup.jobs \in [Messages -> 0..MaxJobs] /\ backup.copyJobs \in [Messages -> 0..MaxJobs]

\* An outcome that was saved is still the outcome of the row.
BackupAgrees ==
  backup # None => \A m \in Messages :
    /\ backup.status[m] \in Terminal => status[m] = backup.status[m]
    /\ backup.status[m] = "absent" => backup.attempts[m] = 0

RInv == IInvBut(Gone) /\ used \subseteq Messages /\ BackupType /\ BackupAgrees

LEMMA RInitHolds == RInit => RInv
<1> SUFFICES ASSUME RInit PROVE RInv
  OBVIOUS
<1>1. Gone = {} /\ IInv
  BY InitHolds DEF RInit, Gone
<1> QED BY <1>1 DEF RInit, RInv, IInv, BackupType, BackupAgrees

\* No step but a restore takes a row away.
LEMMA RowStays ==
  ASSUME TypeOK, [Next]_vars, NEW m \in Messages, status[m] # "absent"
  PROVE  status'[m] # "absent"
<1> USE DEF row
<1>1. CASE UNCHANGED status
  BY <1>1
<1>2. ASSUME NEW w \in Workers, Reject(w) \/ Claim(w) \/ Record(w)
      PROVE  status'[m] # "absent"
  BY <1>2, OutcomeType DEF TypeOK, Reject, Claim, Record, Terminal
<1>3. ASSUME NEW t \in Threads, Recover(t) PROVE status'[m] # "absent"
  BY <1>3 DEF TypeOK, Recover
<1>4. ASSUME NEW n \in Messages, Create(n) PROVE status'[m] # "absent"
  BY <1>4 DEF TypeOK, Create
<1> QED
  <2>1. CASE WebStep
    BY <2>1, <1>1, <1>4 DEF WebStep, CreateAgain, ToggleAccount, Tick
  <2>2. ASSUME NEW w \in Workers, RunStep(w) PROVE status'[m] # "absent"
    BY <2>2, <1>1, <1>2, <1>3
    DEF RunStep, Resolve, Lock, Examine, CheckAccount, VerifyFails, Submit, Reply, Notify,
        Release, Threads
  <2>3. ASSUME NEW w \in Workers, NEW n \in Messages, Take(w, n)
        PROVE  status'[m] # "absent"
    BY <2>3 DEF Take
  <2>4. CASE SweepBegin \/ Sweep
    BY <2>4, <1>1, <1>3
    DEF SweepBegin, Sweep, SweepQueued, SweepSending, SweepEnd, Release, Threads
  <2>5. ASSUME NEW t \in Threads, Abort(t) \/ LoseSession(t) PROVE status'[m] # "absent"
    BY <2>5 DEF Abort, LoseSession
  <2>6. CASE UNCHANGED vars
    BY <2>6 DEF vars
  <2> QED
    BY <2>1, <2>2, <2>3, <2>4, <2>5, <2>6 DEF Next

\* Between restores the same messages are gone.
LEMMA DeliverKeeps ==
  ASSUME RInv, [Next]_vars, UNCHANGED <<backup, used>>,
         \A m \in used : status[m] = "absent" => status'[m] = "absent"
  PROVE  RInv'
<1>1. TypeOK /\ IInvBut(Gone) /\ used \subseteq Messages
  BY DEF RInv, IInvBut
<1>2. PICK gone : gone = Gone
  OBVIOUS
<1>3. IInvBut(gone)
  BY <1>1, <1>2
<1>4. \A m \in gone \cap Messages : status'[m] = "absent"
  BY <1>2 DEF Gone
<1>5. IInvBut(gone)'
  BY <1>3, <1>4, StepKeeps
<1>6. Gone' = gone
  BY <1>1, <1>2, RowStays DEF Gone
<1>7. IInvBut(Gone)'
  BY <1>5, <1>6 DEF IInvBut, RowTells
<1>8. BackupAgrees'
  BY <1>1, StepKeepsOutcome DEF RInv, BackupAgrees
<1> QED BY <1>1, <1>7, <1>8 DEF RInv, BackupType

LEMMA BackupKeeps ==
  ASSUME RInv, Backup
  PROVE  RInv'
<1>1. /\ UNCHANGED <<vars, used>>
      /\ backup' = [status |-> status, attempts |-> attempts, due |-> due, copy |-> copy,
                    jobs |-> jobs, copyJobs |-> copyJobs]
  BY DEF Backup
<1>2. PICK gone : gone = Gone
  OBVIOUS
<1>3. IInvBut(gone)' /\ Gone' = gone
  BY <1>1, <1>2, StutterKeeps DEF RInv, Gone, vars, row
<1>4. IInvBut(Gone)'
  BY <1>3 DEF IInvBut, RowTells
<1>5. TypeOK /\ RowTells(gone)
  BY <1>2 DEF RInv, IInvBut
<1>6. BackupType' /\ BackupAgrees'
  BY <1>1, <1>5 DEF TypeOK, RowTells, BackupType, BackupAgrees, vars, row
<1> QED BY <1>1, <1>4, <1>6 DEF RInv

\* Maintenance leaves nothing that could be sent.
LEMMA FencedType ==
  ASSUME NEW s \in Statuses
  PROVE  /\ Fenced(s) \in Terminal \cup {"absent"} /\ (s \in Terminal => Fenced(s) = s)
         /\ Fenced(s) \in {"sent", "failed", "absent"} => Fenced(s) = s
BY DEF Fenced, Statuses, Terminal

LEMMA FencedCopyType ==
  ASSUME NEW s \in CopyStatuses
  PROVE  FencedCopy(s) \in CopyStatuses
BY DEF FencedCopy, CopyStatuses

LEMMA RestoreKeeps ==
  ASSUME RInv, Restore
  PROVE  RInv'
<1>1. /\ backup # None /\ \A t \in Threads : pc[t] = "idle"
      /\ status' = [m \in Messages |-> Fenced(backup.status[m])]
      /\ copy' = [m \in Messages |-> FencedCopy(backup.copy[m])]
      /\ attempts' = backup.attempts /\ due' = backup.due
      /\ jobs' = backup.jobs /\ copyJobs' = backup.copyJobs
      /\ used' = used \cup {m \in Messages : status[m] # "absent"}
      /\ UNCHANGED <<policy, usable, lock, pc, job, cred, claim, result, sweep, faults, lost,
                     submissions, accepted, backup>>
  BY DEF Restore, local, trouble, smtp
<1>2. IInvBut(Gone) /\ used \subseteq Messages /\ BackupType /\ BackupAgrees
  BY DEF RInv
<1>3. \A m \in Messages : backup.status[m] \in Statuses /\ backup.copy[m] \in CopyStatuses
  BY <1>1, <1>2 DEF BackupType
<1>4. TypeOK'
  <2>1. status' \in [Messages -> Statuses] /\ copy' \in [Messages -> CopyStatuses]
    BY <1>1, <1>3, FencedType, FencedCopyType DEF Statuses
  <2>2. /\ attempts' \in [Messages -> 0..MaxAttempts] /\ due' \in [Messages -> BOOLEAN]
        /\ jobs' \in [Messages -> 0..MaxJobs] /\ copyJobs' \in [Messages -> 0..MaxJobs]
    BY <1>1, <1>2 DEF BackupType
  <2>3. TypeOK
    BY <1>2 DEF IInvBut
  <2> QED BY <1>1, <2>1, <2>2, <2>3 DEF TypeOK
<1>5. RowTells(Gone)'
  <2>1. RowTells(Gone)
    BY <1>2 DEF IInvBut
  <2> SUFFICES ASSUME NEW m \in Messages
               PROVE  /\ accepted'[m] <= submissions'[m] /\ submissions'[m] <= 1
                      /\ status'[m] \in {"absent", "queued"} =>
                           attempts'[m] < MaxAttempts /\ (m \notin Gone' => submissions'[m] = 0)
                      /\ status'[m] = "absent" => attempts'[m] = 0
                      /\ m \in Gone' => status'[m] = "absent"
                      /\ status'[m] = "sent" => accepted'[m] = 1
                      /\ status'[m] = "failed" => accepted'[m] = 0
    BY DEF RowTells
  <2>2. /\ status'[m] = Fenced(backup.status[m]) /\ status'[m] # "queued"
        /\ status'[m] \in {"sent", "failed", "absent"} => status'[m] = backup.status[m]
    BY <1>1, <1>3, FencedType DEF Terminal
  <2>3. accepted'[m] <= submissions'[m] /\ submissions'[m] <= 1
    BY <1>1, <2>1 DEF RowTells
  <2>4. ASSUME status'[m] = "absent"
        PROVE  attempts'[m] = 0 /\ (m \notin Gone' => submissions'[m] = 0)
    <3>1. attempts'[m] = 0
      BY <1>1, <1>2, <2>2, <2>4 DEF BackupAgrees
    <3>2. m \notin Gone' => m \notin used /\ status[m] = "absent"
      BY <1>1, <2>4 DEF Gone
    <3>3. m \notin Gone' => submissions[m] = 0
      BY <2>1, <3>2 DEF RowTells, Gone
    <3> QED BY <1>1, <3>1, <3>3
  <2>5. ASSUME status'[m] \in {"sent", "failed"}
        PROVE  /\ status'[m] = "sent" => accepted'[m] = 1
               /\ status'[m] = "failed" => accepted'[m] = 0
    <3>1. status[m] = status'[m]
      BY <1>1, <1>2, <2>2, <2>5 DEF BackupAgrees, Terminal
    <3> QED BY <1>1, <2>1, <3>1 DEF RowTells
  <2>6. m \in Gone' => status'[m] = "absent"
    BY DEF Gone
  <2> QED BY <2>2, <2>3, <2>4, <2>5, <2>6, AttemptsAssumption
<1>6. /\ Employed' /\ PollerNeverDelivers' /\ OneDeliverer' /\ DelivererOwnsRow' /\ DelivererKnows'
      /\ LiveAttemptStands'
  <2>1. \A t \in Threads : pc'[t] = "idle" /\ ~Delivering(t)'
    BY <1>1 DEF Delivering
  <2> QED BY <2>1 DEF Threads, Employed, WorkerPCs, PollerNeverDelivers, OneDeliverer, DelivererOwnsRow,
                      DelivererKnows, LiveAttemptStands
<1>7. LockProtects'
  <2>1. \A m \in Messages : lock[m] = None
    <3>1. LockProtects /\ lock \in [Messages -> Threads \cup {None}]
      BY <1>2 DEF IInvBut, TypeOK
    <3> QED BY <1>1, <3>1 DEF LockProtects, Holding, WorkerPCs
  <2> QED BY <1>1, <2>1 DEF LockProtects, Holding, WorkerPCs
<1>8. BackupType' /\ used' \subseteq Messages
  BY <1>1, <1>2 DEF BackupType
<1>9. BackupAgrees'
  <2>1. \A m \in Messages : backup.status[m] \in Terminal => status'[m] = backup.status[m]
    BY <1>1, <1>3, FencedType
  <2> QED BY <1>1, <1>2, <2>1 DEF BackupAgrees
<1> QED BY <1>4, <1>5, <1>6, <1>7, <1>8, <1>9 DEF RInv, IInvBut

LEMMA RNextKeeps == RInv /\ [RNext]_rvars => RInv'
<1> SUFFICES ASSUME RInv, [RNext]_rvars PROVE RInv'
  OBVIOUS
<1>1. CASE Deliver
  BY <1>1, DeliverKeeps DEF Deliver
<1>2. CASE UNCHANGED rvars
  BY <1>2, DeliverKeeps DEF rvars, vars, row
<1> QED BY <1>1, <1>2, BackupKeeps, RestoreKeeps DEF RNext

\* The invariant of delivery, but for the messages that a restore took away, whenever
\* the backup was made and however often it is restored.
THEOREM RestoredInvariantHolds == RSpec => []RInv
<1> QED BY RInitHolds, RNextKeeps, PTL DEF RSpec

\* No message is handed to sendMail twice, although the restored database does not
\* know of what was sent after its backup.
THEOREM RestoredNeverSubmittedTwice == RSpec => []AtMostOneSubmission
<1>1. RInv => AtMostOneSubmission
  BY Promised DEF RInv
<1> QED BY <1>1, RestoredInvariantHolds, PTL

\* What the restored rows say is true of the SMTP server, too.
THEOREM RestoredOutcomeIsTrue == RSpec => []HonestOutcome
<1>1. RInv => HonestOutcome
  BY Promised DEF RInv
<1> QED BY <1>1, RestoredInvariantHolds, PTL

\* A message that has left the queue does not return to it by a restore.
THEOREM NeverBackInQueue == RSpec => NeverRequeued
<1> DEFINE Stays == \A m \in Messages : status[m] \in Terminal => status'[m] \in Terminal \cup {"absent"}
<1>1. RInv /\ [RNext]_rvars => [Stays]_rvars
  <2> SUFFICES ASSUME RInv, [RNext]_rvars, NEW m \in Messages, status[m] \in Terminal
               PROVE  status'[m] \in Terminal \cup {"absent"} \/ UNCHANGED rvars
    OBVIOUS
  <2>1. TypeOK
    BY DEF RInv, IInvBut
  <2>2. CASE Deliver
    BY <2>1, <2>2, StepKeepsOutcome DEF Deliver
  <2>3. CASE Backup
    BY <2>3 DEF Backup, vars, row
  <2>4. CASE Restore
    BY <2>4, FencedType DEF Restore, RInv, BackupType
  <2> QED BY <2>2, <2>3, <2>4 DEF RNext
<1> QED BY <1>1, RestoredInvariantHolds, PTL DEF RSpec, NeverRequeued
=============================================================================
