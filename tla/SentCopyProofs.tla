--------------------------- MODULE SentCopyProofs ---------------------------
(***************************************************************************)
(* A sent message is appended to its folder at most once, what its row says  *)
(* of the copy is true, and an attempt is never judged or resolved again,    *)
(* for any number of messages, workers, mailboxes, faults and lost sessions. *)
(* The properties are not inductive: that a second APPEND cannot begin rests *)
(* on there being one claimant of a message ever (OneClaimant, Claims), and  *)
(* that "saved" is true, on a handler having the destination of the row      *)
(* (Reads) and on the copy being there before it is recorded (Found).        *)
(***************************************************************************)
EXTENDS SentCopy, TLAPS

\* Before the claim, no destination was written and nothing was appended; after it
\* the destination stands.
Unclaimed == \A m \in Messages : copy[m] \in {"none", "pending"} => dest[m] = None /\ appends[m] = 0
Destined == \A m \in Messages : copy[m] \in {"saving", "saved", "uncertain"} => dest[m] # None

\* What the server has came from an APPEND.
StoredByAppend == \A m \in Messages, p \in Paths : stored[m][p] <= appends[m]

\* A handler that is not idle works on a message.
Working == \A w \in Workers : pc[w] # "idle" => job[w] \in Messages

\* What a handler that looks for, makes or records a copy has read is what the row says.
AtCopy == {"recheck", "find", "append", "appending", "save"}
ReadsOf(w) ==
  /\ pc[w] \in {"choose", "claim"} => seen[w].copy = "pending" /\ ending[w] = "failed"
  /\ pc[w] = "claim" => seen[w].dest # None
  /\ pc[w] \in {"recheck", "find"} => ending[w] = "uncertain"
  /\ pc[w] \in AtCopy => seen[w].copy = "saving" /\ seen[w].dest # None /\ seen[w].dest = dest[job[w]]
  /\ pc[w] = "finish" => seen[w].copy = "saving" \/ (seen[w].copy = "pending" /\ ending[w] = "failed")
Reads == \A w \in Workers : ReadsOf(w)

\* A copy is recorded as saved when it is there.
Found == \A w \in Workers : pc[w] = "save" => stored[job[w]][seen[w].dest[2]] >= 1

\* The marker is cleared when the sync was queued.
Queued == \A w \in Workers : pc[w] = "clear" => job[w] \in synced

\* The handler whose claim was the one: about to append, appending, or without
\* having appended on its way to "failed".
Claimant(w) ==
  \/ pc[w] \in {"append", "appending"}
  \/ pc[w] = "finish" /\ ending[w] = "failed" /\ seen[w].copy = "saving"
Claims ==
  \A w \in Workers : Claimant(w) =>
    /\ copy[job[w]] \in {"saving", "uncertain"}
    /\ appends[job[w]] = IF pc[w] = "appending" THEN 1 ELSE 0
    /\ \A p \in Paths : stored[job[w]][p] = 0
OneClaimant == \A v, w \in Workers : Claimant(v) /\ Claimant(w) /\ job[v] = job[w] => v = w

\* The lock, as long as its session lives: nobody else judges the claimant's row.
Locked ==
  lost = 0 => \A w \in Workers : /\ pc[w] \notin {"idle", "resolve", "lock"} => lock[job[w]] = w
                                 /\ Claimant(w) => copy[job[w]] = "saving"

IInv ==
  /\ TypeOK /\ Unclaimed /\ Destined /\ StoredByAppend /\ Working /\ Reads /\ Found /\ Queued
  /\ Claims /\ OneClaimant /\ Locked
  /\ AppendAtMostOnce /\ HonestCopy /\ MarkerHonest /\ LiveAppendStands

LEMMA Numbers ==
  /\ Delivery \notin Workers /\ None \notin Workers /\ None # Delivery /\ None \notin Messages
  /\ None \notin Paths /\ None \notin Boxes \X Paths
  /\ Messages \subseteq Nat /\ RepairLimit \in Nat /\ MaxFaults \in Nat /\ MaxLost \in Nat /\ MaxMoves \in Nat
<1>1. None \notin Workers \cup {Delivery} \cup Messages \cup Boxes \cup Paths \cup (Boxes \X Paths)
  BY CopyAssumption, Zenon DEF CopyAssumption
<1>2. {MaxFaults, MaxLost, MaxMoves} \subseteq Nat
  BY CopyAssumption, Zenon DEF CopyAssumption
<1>3. Messages \subseteq Nat /\ Delivery \notin Workers /\ RepairLimit \in Nat
  BY CopyAssumption DEF CopyAssumption
<1> QED BY <1>1, <1>2, <1>3

(* What the building blocks do. *)

LEMMA GotoStep ==
  ASSUME ThreadType, NEW w \in Workers, NEW l \in PCs, Goto(w, l)
  PROVE  pc' \in [Workers -> PCs] /\ pc'[w] = l /\ \A v \in Workers : v # w => pc'[v] = pc[v]
BY DEF ThreadType, Goto

LEMMA BlankType == Blank \in Rows
BY DEF Blank, Rows, Destinations

LEMMA ForgetStep ==
  ASSUME ThreadType, NEW w \in Workers, Goto(w, "idle"), Forget(w), jobs' \subseteq Messages, UNCHANGED batch,
         lock' \in {lock, Unlocked(w)}
  PROVE  /\ ThreadType' /\ pc'[w] = "idle"
         /\ \A v \in Workers : v # w => /\ pc'[v] = pc[v] /\ job'[v] = job[v] /\ seen'[v] = seen[v]
                                        /\ ending'[v] = ending[v]
         /\ \A v \in Workers, m \in Messages : v # w /\ lock[m] = v => lock'[m] = v
<1> USE DEF ThreadType
<1>1. pc' \in [Workers -> PCs] /\ pc'[w] = "idle" /\ \A v \in Workers : v # w => pc'[v] = pc[v]
  BY GotoStep DEF PCs
<1>2. /\ job' \in [Workers -> Messages \cup {None}] /\ cred' \in [Workers -> BOOLEAN]
      /\ seen' \in [Workers -> Rows] /\ ending' \in [Workers -> {"failed", "uncertain"}]
      /\ \A v \in Workers : v # w => job'[v] = job[v] /\ seen'[v] = seen[v] /\ ending'[v] = ending[v]
  BY BlankType DEF Forget
<1>3. /\ lock' \in [Messages -> Workers \cup {None, Delivery}]
      /\ \A v \in Workers, m \in Messages : v # w /\ lock[m] = v => lock'[m] = v
  BY DEF Unlocked
<1> QED BY <1>1, <1>2, <1>3

LEMMA FaultStep ==
  ASSUME TroubleType, Fault
  PROVE  TroubleType' /\ lost' = lost
BY Numbers DEF TroubleType, Fault

LEMMA EnqueueStep ==
  ASSUME TroubleType, NEW m, Enqueue(m)
  PROVE  TroubleType' /\ lost' = lost /\ jobs' \subseteq jobs \cup {m}
<1>1. CASE jobs' = jobs \cup {m} /\ Calm
  BY <1>1 DEF Calm, trouble, TroubleType
<1>2. CASE UNCHANGED jobs /\ Fault
  BY <1>2, FaultStep
<1> QED BY <1>1, <1>2 DEF Enqueue

LEMMA InitHolds == Init => IInv
<1> SUFFICES ASSUME Init PROVE IInv
  OBVIOUS
<1>1. RowType
  BY DEF Init, RowType, Destinations
<1>2. EnvType /\ TroubleType
  BY Numbers DEF Init, EnvType, TroubleType
<1>3. ThreadType
  BY BlankType DEF Init, ThreadType, PCs
<1>4. ImapType /\ MarkerOfSaved
  BY DEF Init, ImapType, MarkerOfSaved
<1>5. Unclaimed /\ Destined /\ StoredByAppend /\ Working /\ Found /\ Queued
  BY DEF Init, Unclaimed, Destined, StoredByAppend, Working, Found, Queued
<1>6. Reads
  BY DEF Init, Reads, ReadsOf, AtCopy
<1>7. Claims /\ OneClaimant /\ Locked
  BY DEF Init, Claims, OneClaimant, Locked, Claimant
<1>8. AppendAtMostOnce /\ HonestCopy /\ MarkerHonest /\ LiveAppendStands
  BY DEF Init, AppendAtMostOnce, HonestCopy, MarkerHonest, LiveAppendStands
<1> QED BY <1>1, <1>2, <1>3, <1>4, <1>5, <1>6, <1>7, <1>8 DEF IInv, TypeOK

\* The others, and the locks that they hold, are as they were.
OthersAsTheyWere(w) ==
  \A v \in Workers : v # w =>
    /\ pc'[v] = pc[v] /\ job'[v] = job[v] /\ seen'[v] = seen[v] /\ ending'[v] = ending[v]
    /\ \A m \in Messages : lock[m] = v => lock'[m] = v

\* What a handler has to be right about itself.
SelfRight(w) ==
  /\ pc'[w] # "idle" => job'[w] \in Messages
  /\ ReadsOf(w)'
  /\ pc'[w] = "save" => stored'[job'[w]][seen'[w].dest[2]] >= 1
  /\ pc'[w] = "clear" => job'[w] \in synced'
  /\ lost = 0 /\ pc'[w] \notin {"idle", "resolve", "lock"} => lock'[job'[w]] = w

\* A handler steps on, and nothing is written to the row or to the server.
LEMMA StepKeeps ==
  ASSUME IInv, NEW w \in Workers, ThreadType', EnvType', TroubleType', lost' = lost,
         UNCHANGED <<row, appends, stored>>, synced \subseteq synced', synced' \subseteq Messages,
         OthersAsTheyWere(w), SelfRight(w),
         Claimant(w)' => /\ Claimant(w) /\ job'[w] = job[w]
                         /\ pc'[w] = "appending" <=> pc[w] = "appending"
  PROVE  IInv'
<1> USE DEF IInv, TypeOK, row
<1>1. RowType' /\ ImapType' /\ MarkerOfSaved'
  BY DEF RowType, ImapType, MarkerOfSaved
<1>2. Unclaimed' /\ Destined' /\ StoredByAppend'
  BY DEF Unclaimed, Destined, StoredByAppend
<1>3. Working'
  BY DEF Working, OthersAsTheyWere, SelfRight
<1>4. Reads'
  <2> SUFFICES ASSUME NEW v \in Workers PROVE ReadsOf(v)'
    BY DEF Reads
  <2>1. CASE v = w
    BY <2>1 DEF SelfRight
  <2>2. CASE v # w
    BY <2>2 DEF Reads, ReadsOf, OthersAsTheyWere
  <2> QED BY <2>1, <2>2
<1>5. Found' /\ Queued'
  BY DEF Found, Queued, OthersAsTheyWere, SelfRight
<1>6. \A v \in Workers : Claimant(v)' => /\ Claimant(v) /\ job'[v] = job[v]
                                         /\ pc'[v] = "appending" <=> pc[v] = "appending"
  BY DEF Claimant, OthersAsTheyWere
<1>7. Claims' /\ OneClaimant'
  BY <1>6 DEF Claims, OneClaimant
<1>8. Locked'
  <2> SUFFICES ASSUME lost = 0, NEW v \in Workers
               PROVE  /\ pc'[v] \notin {"idle", "resolve", "lock"} => lock'[job'[v]] = v
                      /\ Claimant(v)' => copy[job'[v]] = "saving"
    BY DEF Locked
  <2>1. pc'[v] \notin {"idle", "resolve", "lock"} => lock'[job'[v]] = v
    BY DEF Locked, Working, OthersAsTheyWere, SelfRight
  <2> QED BY <1>6, <2>1 DEF Locked
<1>9. AppendAtMostOnce' /\ HonestCopy' /\ MarkerHonest'
  BY DEF AppendAtMostOnce, HonestCopy, MarkerHonest
<1>10. LiveAppendStands'
  BY <1>6, <1>8 DEF LiveAppendStands, Locked, Claimant
<1> QED BY <1>1, <1>2, <1>3, <1>4, <1>5, <1>7, <1>8, <1>9, <1>10

\* A handler writes nothing but its own place and what it knows.
LEMMA LocalKeeps ==
  ASSUME IInv, NEW w \in Workers, NEW l \in PCs, Goto(w, l), pc[w] \notin {"idle", "resolve", "lock"},
         job' = job, cred' = cred,
         seen' \in [Workers -> Rows], \A v \in Workers : v # w => seen'[v] = seen[v],
         ending' \in [Workers -> {"failed", "uncertain"}], \A v \in Workers : v # w => ending'[v] = ending[v],
         UNCHANGED <<row, env, queue, lock, trouble, appends, stored>>,
         synced \subseteq synced', synced' \subseteq Messages,
         ReadsOf(w)',
         l = "save" => stored[job[w]][seen'[w].dest[2]] >= 1,
         l = "clear" => job[w] \in synced',
         l \notin {"append", "appending"},
         Claimant(w)' => Claimant(w) /\ pc[w] # "appending"
  PROVE  IInv'
<1> USE DEF IInv, TypeOK, env, queue, trouble
<1>1. pc' \in [Workers -> PCs] /\ pc'[w] = l /\ \A v \in Workers : v # w => pc'[v] = pc[v]
  BY GotoStep
<1>2. ThreadType' /\ EnvType' /\ TroubleType'
  BY <1>1 DEF ThreadType, EnvType, TroubleType
<1>3. OthersAsTheyWere(w)
  BY <1>1 DEF OthersAsTheyWere
<1>4. SelfRight(w)
  <2>1. job[w] \in Messages /\ (lost = 0 => lock[job[w]] = w)
    BY DEF Working, Locked
  <2> QED BY <1>1, <2>1 DEF SelfRight
<1> QED BY <1>1, <1>2, <1>3, <1>4, StepKeeps

(* run(): the steps that write nothing. *)

LEMMA TakeKeeps ==
  ASSUME IInv, NEW w \in Workers, NEW m \in Messages, Take(w, m)
  PROVE  IInv'
<1> USE DEF IInv, TypeOK, env, trouble, imap
<1>1. /\ pc[w] = "idle" /\ jobs' = jobs \ {m}
      /\ UNCHANGED <<row, env, batch, lock, cred, seen, ending, trouble, imap>>
  BY DEF Take
<1>2. CASE copy[m] \in {"pending", "saving", "saved"}
  <2>1. job' = [job EXCEPT ![w] = m] /\ \E l \in {"lock", "resolve"} : Goto(w, l)
    BY <1>2 DEF Take
  <2>2. PICK l \in {"lock", "resolve"} : Goto(w, l)
    BY <2>1
  <2>3. pc' \in [Workers -> PCs] /\ pc'[w] = l /\ \A v \in Workers : v # w => pc'[v] = pc[v]
    BY <2>2, GotoStep DEF PCs
  <2>4. /\ job' \in [Workers -> Messages \cup {None}] /\ job'[w] = m
        /\ \A v \in Workers : v # w => job'[v] = job[v]
    BY <2>1 DEF ThreadType
  <2>5. ThreadType' /\ EnvType' /\ TroubleType' /\ synced' = synced /\ synced \subseteq Messages
    BY <1>1, <2>3, <2>4 DEF ThreadType, EnvType, TroubleType, ImapType
  <2>6. OthersAsTheyWere(w)
    BY <1>1, <2>3, <2>4 DEF OthersAsTheyWere
  <2>7. SelfRight(w) /\ ~Claimant(w)'
    BY <2>3, <2>4 DEF SelfRight, ReadsOf, AtCopy, Claimant
  <2> QED BY <1>1, <2>5, <2>6, <2>7, StepKeeps
<1>3. CASE copy[m] \notin {"pending", "saving", "saved"}
  <2>1. UNCHANGED <<job, pc>>
    BY <1>3 DEF Take
  <2>2. ThreadType' /\ EnvType' /\ TroubleType' /\ synced' = synced /\ synced \subseteq Messages
    BY <1>1, <2>1 DEF ThreadType, EnvType, TroubleType, ImapType
  <2>3. OthersAsTheyWere(w)
    BY <1>1, <2>1 DEF OthersAsTheyWere
  <2>4. SelfRight(w) /\ ~Claimant(w)'
    BY <1>1, <2>1 DEF SelfRight, ReadsOf, AtCopy, Claimant
  <2> QED BY <1>1, <2>2, <2>3, <2>4, StepKeeps
<1> QED BY <1>2, <1>3

LEMMA ResolveKeeps ==
  ASSUME IInv, NEW w \in Workers, Resolve(w)
  PROVE  IInv'
<1> USE DEF IInv, TypeOK, env, queue, trouble, imap
<1>1. /\ pc[w] = "resolve" /\ Goto(w, "lock")
      /\ UNCHANGED <<row, env, queue, lock, job, seen, ending, trouble, imap>>
  BY DEF Resolve
<1>2. pc' \in [Workers -> PCs] /\ pc'[w] = "lock" /\ \A v \in Workers : v # w => pc'[v] = pc[v]
  BY <1>1, GotoStep DEF PCs
<1>3. cred' \in [Workers -> BOOLEAN]
  BY DEF Resolve, ThreadType
<1>4. ThreadType' /\ EnvType' /\ TroubleType' /\ synced' = synced /\ synced \subseteq Messages
  BY <1>1, <1>2, <1>3 DEF ThreadType, EnvType, TroubleType, ImapType
<1>5. OthersAsTheyWere(w)
  BY <1>1, <1>2 DEF OthersAsTheyWere
<1>6. SelfRight(w) /\ ~Claimant(w)'
  BY <1>1, <1>2 DEF SelfRight, ReadsOf, AtCopy, Claimant, Working
<1> QED BY <1>1, <1>4, <1>5, <1>6, StepKeeps

\* A handler ends, and writes nothing.
LEMMA EndKeeps ==
  ASSUME IInv, NEW w \in Workers, Goto(w, "idle"), Forget(w), lock' \in {lock, Unlocked(w)},
         TroubleType', lost' = lost, UNCHANGED <<row, env, queue, imap>>
  PROVE  IInv'
<1> USE DEF IInv, TypeOK, env, queue, imap
<1>1. /\ ThreadType' /\ pc'[w] = "idle"
      /\ \A v \in Workers : v # w => /\ pc'[v] = pc[v] /\ job'[v] = job[v] /\ seen'[v] = seen[v]
                                     /\ ending'[v] = ending[v]
      /\ \A v \in Workers, m \in Messages : v # w /\ lock[m] = v => lock'[m] = v
  BY ForgetStep DEF ThreadType
<1>2. OthersAsTheyWere(w)
  BY <1>1 DEF OthersAsTheyWere
<1>3. SelfRight(w) /\ ~Claimant(w)'
  BY <1>1 DEF SelfRight, ReadsOf, AtCopy, Claimant
<1>4. EnvType' /\ synced' = synced /\ synced \subseteq Messages
  BY DEF EnvType, ImapType
<1> QED BY <1>1, <1>2, <1>3, <1>4, StepKeeps

LEMMA LockKeeps ==
  ASSUME IInv, NEW w \in Workers, Lock(w)
  PROVE  IInv'
<1> USE DEF IInv, TypeOK, env, queue, local, trouble, imap
<1>1. pc[w] = "lock" /\ UNCHANGED <<row, env, queue, trouble, imap>> /\ job[w] \in Messages
  BY DEF Lock, Working
<1>2. TroubleType' /\ EnvType' /\ synced' = synced /\ synced \subseteq Messages
  BY <1>1 DEF TroubleType, EnvType, ImapType
<1>3. CASE Free(job[w])
  <2>1. lock' = [lock EXCEPT ![job[w]] = w] /\ Goto(w, "examine") /\ UNCHANGED local
    BY <1>3 DEF Lock
  <2>2. pc' \in [Workers -> PCs] /\ pc'[w] = "examine" /\ \A v \in Workers : v # w => pc'[v] = pc[v]
    BY <2>1, GotoStep DEF PCs
  <2>3. /\ lock' \in [Messages -> Workers \cup {None, Delivery}] /\ lock'[job[w]] = w
        /\ \A v \in Workers, m \in Messages : lock[m] = v => lock'[m] = v
    BY <1>1, <1>3, <2>1, Numbers DEF ThreadType, Free
  <2>4. ThreadType'
    BY <1>1, <2>1, <2>2, <2>3 DEF ThreadType
  <2>5. OthersAsTheyWere(w)
    BY <2>1, <2>2, <2>3 DEF OthersAsTheyWere
  <2>6. SelfRight(w) /\ ~Claimant(w)'
    BY <1>1, <2>1, <2>2, <2>3 DEF SelfRight, ReadsOf, AtCopy, Claimant
  <2> QED BY <1>1, <1>2, <2>4, <2>5, <2>6, StepKeeps
<1>4. CASE ~Free(job[w])
  <2>1. UNCHANGED lock /\ Goto(w, "idle") /\ Forget(w)
    BY <1>4 DEF Lock
  <2> QED BY <1>1, <1>2, <2>1, EndKeeps
<1> QED BY <1>3, <1>4

LEMMA ReleaseKeeps ==
  ASSUME IInv, NEW w \in Workers, Release(w)
  PROVE  IInv'
<1>1. TroubleType' /\ lost' = lost
  BY DEF Release, trouble, TroubleType, IInv, TypeOK
<1> QED BY <1>1, EndKeeps DEF Release

LEMMA RowType1 ==
  ASSUME TypeOK, NEW m \in Messages
  PROVE  RowOf(m) \in Rows /\ RowOf(m).copy = copy[m] /\ RowOf(m).dest = dest[m]
BY DEF TypeOK, RowType, RowOf, Rows

LEMMA ExamineKeeps ==
  ASSUME IInv, NEW w \in Workers, Examine(w)
  PROVE  IInv'
<1> USE DEF IInv, TypeOK, imap
<1> DEFINE m == job[w]
           e == IF copy[m] = "saving" THEN "uncertain" ELSE "failed"
<1>1. /\ pc[w] = "examine" /\ m \in Messages
      /\ seen' = [seen EXCEPT ![w] = RowOf(m)] /\ ending' = [ending EXCEPT ![w] = e]
      /\ UNCHANGED <<row, env, queue, lock, job, cred, trouble, imap>>
  BY DEF Examine, Working
<1>2. PICK l \in {"sync", "recheck", "finish", "choose", "release"} :
        /\ Goto(w, l)
        /\ l = "recheck" => copy[m] = "saving"
        /\ l = "choose" => copy[m] = "pending"
        /\ l = "finish" => copy[m] \in {"pending", "saving"}
  <2>1. CASE copy[m] = "saved"
    BY <2>1 DEF Examine
  <2>2. CASE copy[m] = "saving"
    BY <2>2 DEF Examine
  <2>3. CASE copy[m] = "pending"
    BY <2>3 DEF Examine
  <2>4. CASE copy[m] \notin {"saved", "saving", "pending"}
    BY <2>4 DEF Examine
  <2> QED BY <2>1, <2>2, <2>3, <2>4
<1>3. RowOf(m) \in Rows /\ RowOf(m).copy = copy[m] /\ RowOf(m).dest = dest[m]
  BY <1>1, RowType1
<1>4. /\ seen' \in [Workers -> Rows] /\ seen'[w] = RowOf(m)
      /\ \A v \in Workers : v # w => seen'[v] = seen[v]
  BY <1>1, <1>3 DEF ThreadType
<1>5. /\ ending' \in [Workers -> {"failed", "uncertain"}] /\ ending'[w] = e
      /\ \A v \in Workers : v # w => ending'[v] = ending[v]
  BY <1>1 DEF ThreadType
<1>6. l \in PCs
  BY DEF PCs
<1>7. pc'[w] = l
  BY <1>2, <1>6, GotoStep
<1>8. copy[m] = "saving" => dest[m] # None
  BY <1>1 DEF Destined
<1>9. ReadsOf(w)'
  BY <1>1, <1>2, <1>3, <1>4, <1>5, <1>7, <1>8 DEF ReadsOf, AtCopy, row
<1>10. ~Claimant(w)'
  BY <1>2, <1>3, <1>4, <1>5, <1>7 DEF Claimant
<1>11. synced \subseteq synced' /\ synced' \subseteq Messages
  BY <1>1 DEF ImapType
<1> QED BY <1>1, <1>2, <1>4, <1>5, <1>6, <1>9, <1>10, <1>11, LocalKeeps

LEMMA RecheckKeeps ==
  ASSUME IInv, NEW w \in Workers, Recheck(w)
  PROVE  IInv'
<1> USE DEF IInv, TypeOK, imap, local
<1>1. /\ pc[w] = "recheck"
      /\ UNCHANGED <<row, env, queue, lock, local, trouble, imap>>
  BY DEF Recheck
<1>2. PICK l \in {"find", "finish"} : Goto(w, l)
  BY DEF Recheck
<1>3. l \in PCs
  BY DEF PCs
<1>4. pc'[w] = l
  BY <1>2, <1>3, GotoStep
<1>5. ReadsOf(w)
  BY DEF Reads
<1>6. ReadsOf(w)' /\ ~Claimant(w)'
  BY <1>1, <1>4, <1>5 DEF ReadsOf, AtCopy, row, Claimant
<1>7. seen' \in [Workers -> Rows] /\ ending' \in [Workers -> {"failed", "uncertain"}]
  BY <1>1 DEF ThreadType
<1>8. synced \subseteq synced' /\ synced' \subseteq Messages
  BY <1>1 DEF ImapType
<1> QED BY <1>1, <1>2, <1>3, <1>6, <1>7, <1>8, LocalKeeps

LEMMA FindKeeps ==
  ASSUME IInv, NEW w \in Workers, Find(w)
  PROVE  IInv'
<1> USE DEF IInv, TypeOK, imap, local
<1>1. /\ pc[w] = "find"
      /\ UNCHANGED <<row, env, queue, lock, local, trouble, imap>>
  BY DEF Find
<1>2. PICK l \in {"save", "finish"} : Goto(w, l) /\ (l = "save" => stored[job[w]][seen[w].dest[2]] > 0)
  BY DEF Find
<1>3. l \in PCs
  BY DEF PCs
<1>4. pc'[w] = l
  BY <1>2, <1>3, GotoStep
<1>5. ReadsOf(w)
  BY DEF Reads
<1>6. ReadsOf(w)' /\ ~Claimant(w)'
  BY <1>1, <1>4, <1>5 DEF ReadsOf, AtCopy, row, Claimant
<1>7. l = "save" => stored[job[w]][seen[w].dest[2]] >= 1
  <2>1. job[w] \in Messages /\ seen[w].dest \in Destinations /\ seen[w].dest # None
    BY <1>1, <1>5 DEF Working, ReadsOf, AtCopy, ThreadType, Rows
  <2>2. stored[job[w]][seen[w].dest[2]] \in Nat
    BY <2>1 DEF Destinations, ImapType
  <2> QED BY <1>2, <2>2
<1>8. seen' \in [Workers -> Rows] /\ ending' \in [Workers -> {"failed", "uncertain"}]
  BY <1>1 DEF ThreadType
<1>9. synced \subseteq synced' /\ synced' \subseteq Messages
  BY <1>1 DEF ImapType
<1> QED BY <1>1, <1>2, <1>3, <1>6, <1>7, <1>8, <1>9, LocalKeeps

LEMMA ChooseKeeps ==
  ASSUME IInv, NEW w \in Workers, Choose(w)
  PROVE  IInv'
<1> USE DEF IInv, TypeOK, imap
<1>1. /\ pc[w] = "choose"
      /\ UNCHANGED <<row, env, queue, lock, job, cred, ending, trouble, imap>>
  BY DEF Choose
<1>2. PICK l \in {"claim", "finish"} :
        /\ Goto(w, l) /\ seen' \in [Workers -> Rows] /\ seen'[w].copy = seen[w].copy
        /\ l = "claim" => seen'[w].dest # None
        /\ \A v \in Workers : v # w => seen'[v] = seen[v]
  <2>1. CASE Goto(w, "finish") /\ UNCHANGED seen
    BY <2>1 DEF ThreadType
  <2>2. CASE /\ role # None /\ path[role] # None
             /\ seen' = [seen EXCEPT ![w].dest = <<role, path[role]>>]
             /\ Goto(w, "claim")
    <3>1. <<role, path[role]>> \in Boxes \X Paths
      BY <2>2 DEF EnvType
    <3>2. <<role, path[role]>> \in Destinations /\ <<role, path[role]>> # None
      BY <3>1, Numbers DEF Destinations
    <3> DEFINE d == <<role, path[role]>>
    <3>3. d \in Destinations /\ d # None /\ seen' = [seen EXCEPT ![w].dest = d]
      BY <2>2, <3>2
    <3> HIDE DEF d
    <3>4. /\ seen' \in [Workers -> Rows] /\ seen'[w].copy = seen[w].copy /\ seen'[w].dest = d
          /\ \A v \in Workers : v # w => seen'[v] = seen[v]
      BY <3>3 DEF ThreadType, Rows
    <3> QED BY <2>2, <3>3, <3>4
  <2> QED BY <2>1, <2>2 DEF Choose
<1>3. l \in PCs
  BY DEF PCs
<1>4. pc'[w] = l
  BY <1>2, <1>3, GotoStep
<1>5. ReadsOf(w)
  BY DEF Reads
<1>6. ReadsOf(w)' /\ ~Claimant(w)'
  BY <1>1, <1>2, <1>4, <1>5 DEF ReadsOf, AtCopy, row, Claimant
<1>7. ending' \in [Workers -> {"failed", "uncertain"}]
  BY <1>1 DEF ThreadType
<1>8. synced \subseteq synced' /\ synced' \subseteq Messages
  BY <1>1 DEF ImapType
<1> QED BY <1>1, <1>2, <1>3, <1>6, <1>7, <1>8, LocalKeeps

LEMMA AppendFailsKeeps ==
  ASSUME IInv, NEW w \in Workers, AppendFails(w)
  PROVE  IInv'
<1> USE DEF IInv, TypeOK, imap
<1>1. /\ pc[w] = "append" /\ Goto(w, "finish") /\ ending' = [ending EXCEPT ![w] = "failed"]
      /\ UNCHANGED <<row, env, queue, lock, job, cred, seen, trouble, imap>>
  BY DEF AppendFails
<1>2. "finish" \in PCs
  BY DEF PCs
<1>3. pc'[w] = "finish"
  BY <1>1, <1>2, GotoStep
<1>4. ReadsOf(w)
  BY DEF Reads
<1>5. ReadsOf(w)' /\ Claimant(w)
  BY <1>1, <1>3, <1>4 DEF ReadsOf, AtCopy, row, Claimant
<1>6. /\ ending' \in [Workers -> {"failed", "uncertain"}] /\ seen' \in [Workers -> Rows]
      /\ \A v \in Workers : v # w => ending'[v] = ending[v]
  BY <1>1 DEF ThreadType
<1>7. synced \subseteq synced' /\ synced' \subseteq Messages
  BY <1>1 DEF ImapType
<1> QED BY <1>1, <1>2, <1>5, <1>6, <1>7, LocalKeeps

LEMMA RequestSyncKeeps ==
  ASSUME IInv, NEW w \in Workers, RequestSync(w)
  PROVE  IInv'
<1> USE DEF IInv, TypeOK, local
<1>1. pc[w] = "sync" /\ UNCHANGED <<row, env, queue, lock, local, trouble, appends, stored>>
  BY DEF RequestSync
<1>2. PICK l \in {"clear", "release"} :
        Goto(w, l) /\ synced' \subseteq synced \cup {job[w]} /\ synced \subseteq synced'
        /\ (l = "clear" => job[w] \in synced')
  BY DEF RequestSync
<1>3. l \in PCs
  BY DEF PCs
<1>4. pc'[w] = l
  BY <1>2, <1>3, GotoStep
<1>5. ReadsOf(w)' /\ ~Claimant(w)'
  BY <1>4 DEF ReadsOf, AtCopy, Claimant
<1>6. seen' \in [Workers -> Rows] /\ ending' \in [Workers -> {"failed", "uncertain"}]
  BY <1>1 DEF ThreadType
<1>7. synced' \subseteq Messages
  BY <1>1, <1>2 DEF ImapType, Working
<1> QED BY <1>1, <1>2, <1>3, <1>5, <1>6, <1>7, LocalKeeps

(* run(): the steps that write to the row or to the server. *)

OtherRows(m) ==
  \A x \in Messages : x # m =>
    /\ copy'[x] = copy[x] /\ dest'[x] = dest[x] /\ marker'[x] = marker[x]
    /\ appends'[x] = appends[x] /\ stored'[x] = stored[x]

\* What the row of m has to be after the step.
RowRight(m) ==
  /\ copy'[m] \in {"none", "pending"} => dest'[m] = None /\ appends'[m] = 0
  /\ copy'[m] \in {"saving", "saved", "uncertain"} => dest'[m] # None
  /\ dest[m] # None => dest'[m] = dest[m]
  /\ \A p \in Paths : stored[m][p] <= stored'[m][p] /\ stored'[m][p] <= appends'[m]
  /\ appends'[m] <= 1
  /\ copy'[m] = "saved" => stored'[m][dest'[m][2]] = 1
  /\ copy'[m] = "failed" => appends'[m] = 0
  /\ copy'[m] = "saved" /\ ~marker'[m] => m \in synced

\* A handler writes to the row of m, or to its mailbox.
LEMMA WriteKeeps ==
  ASSUME IInv, NEW w \in Workers, NEW m \in Messages, TypeOK', OthersAsTheyWere(w), SelfRight(w),
         lost' = lost, synced' = synced, OtherRows(m), RowRight(m),
         \A v \in Workers : v # w /\ Claimant(v) /\ job[v] = m =>
           /\ lost # 0 /\ copy'[m] \in {"saving", "uncertain"} /\ ~Claimant(w)'
           /\ UNCHANGED <<appends, stored>>,
         Claimant(w)' => /\ job'[w] = m /\ copy'[m] \in {"saving", "uncertain"}
                         /\ lost = 0 => copy'[m] = "saving"
                         /\ appends'[m] = IF pc'[w] = "appending" THEN 1 ELSE 0
                         /\ \A p \in Paths : stored'[m][p] = 0
  PROVE  IInv'
<1> USE DEF IInv
<1>1. Unclaimed' /\ Destined'
  BY DEF Unclaimed, Destined, OtherRows, RowRight
<1>2. StoredByAppend'
  BY DEF StoredByAppend, OtherRows, RowRight
<1>3. Working' /\ Queued'
  BY DEF Working, Queued, OthersAsTheyWere, SelfRight
<1>4. Reads'
  <2> SUFFICES ASSUME NEW v \in Workers PROVE ReadsOf(v)'
    BY DEF Reads
  <2>1. CASE v = w
    BY <2>1 DEF SelfRight
  <2>2. CASE v # w
    <3>1. pc'[v] = pc[v] /\ job'[v] = job[v] /\ seen'[v] = seen[v] /\ ending'[v] = ending[v]
      BY <2>2 DEF OthersAsTheyWere
    <3>2. ReadsOf(v)
      BY DEF Reads
    <3>3. ASSUME pc[v] \in AtCopy PROVE dest'[job[v]] = dest[job[v]]
      <4>1. job[v] \in Messages /\ dest[job[v]] # None
        BY <3>2, <3>3 DEF ReadsOf, Working, AtCopy
      <4> QED BY <4>1 DEF OtherRows, RowRight
    <3> QED BY <3>1, <3>2, <3>3 DEF ReadsOf
  <2> QED BY <2>1, <2>2
<1>5. Found'
  <2> SUFFICES ASSUME NEW v \in Workers, pc'[v] = "save"
               PROVE  stored'[job'[v]][seen'[v].dest[2]] >= 1
    BY DEF Found
  <2>1. CASE v = w
    BY <2>1 DEF SelfRight
  <2>2. CASE v # w
    <3> DEFINE p == seen[v].dest[2]
    <3>1. pc[v] = "save" /\ job'[v] = job[v] /\ seen'[v] = seen[v] /\ job[v] \in Messages
      BY <2>2 DEF OthersAsTheyWere, Working
    <3>2. stored[job[v]][p] >= 1
      BY <3>1 DEF Found
    <3>3. seen[v].dest \in Destinations /\ seen[v].dest # None
      BY <3>1 DEF Reads, ReadsOf, AtCopy, TypeOK, ThreadType, Rows
    <3>4. p \in Paths
      BY <3>3 DEF Destinations
    <3>5. stored[job[v]][p] <= stored'[job[v]][p]
      <4>1. CASE job[v] = m
        BY <3>4, <4>1 DEF RowRight
      <4>2. CASE job[v] # m
        BY <3>1, <3>4, <4>2 DEF OtherRows, TypeOK, ImapType
      <4> QED BY <4>1, <4>2
    <3>6. stored[job[v]][p] \in Nat /\ stored'[job[v]][p] \in Nat
      BY <3>1, <3>4 DEF TypeOK, ImapType
    <3> HIDE DEF p
    <3>7. stored'[job[v]][p] >= 1
      BY <3>2, <3>5, <3>6
    <3> QED BY <3>1, <3>7 DEF p
  <2> QED BY <2>1, <2>2
<1>6. \A v \in Workers : v # w => (Claimant(v)' <=> Claimant(v)) /\ job'[v] = job[v] /\ pc'[v] = pc[v]
  BY DEF Claimant, OthersAsTheyWere
<1>7. \A v \in Workers : Claimant(v) => job[v] \in Messages
  BY DEF Claimant, Working
<1>8. Claims'
  <2> SUFFICES ASSUME NEW v \in Workers, Claimant(v)'
               PROVE  /\ copy'[job'[v]] \in {"saving", "uncertain"}
                      /\ appends'[job'[v]] = IF pc'[v] = "appending" THEN 1 ELSE 0
                      /\ \A p \in Paths : stored'[job'[v]][p] = 0
    BY DEF Claims
  <2>1. CASE v = w
    BY <2>1
  <2>2. CASE v # w /\ job[v] = m
    BY <1>6, <2>2 DEF Claims
  <2>3. CASE v # w /\ job[v] # m
    BY <1>6, <1>7, <2>3 DEF Claims, OtherRows
  <2> QED BY <2>1, <2>2, <2>3
<1>9. OneClaimant'
  <2> SUFFICES ASSUME NEW u \in Workers, NEW v \in Workers, Claimant(u)', Claimant(v)', job'[u] = job'[v]
               PROVE  u = v
    BY DEF OneClaimant
  <2>1. CASE u # w /\ v # w
    BY <1>6, <2>1 DEF OneClaimant
  <2>2. CASE u = w
    BY <1>6, <2>2
  <2>3. CASE v = w
    BY <1>6, <2>3
  <2> QED BY <2>1, <2>2, <2>3
<1>10. Locked'
  <2> SUFFICES ASSUME lost = 0, NEW v \in Workers
               PROVE  /\ pc'[v] \notin {"idle", "resolve", "lock"} => lock'[job'[v]] = v
                      /\ Claimant(v)' => copy'[job'[v]] = "saving"
    BY DEF Locked
  <2>1. CASE v = w
    BY <2>1 DEF SelfRight
  <2>2. CASE v # w
    <3>1. pc'[v] \notin {"idle", "resolve", "lock"} => lock'[job'[v]] = v
      BY <2>2 DEF Locked, Working, OthersAsTheyWere
    <3>2. Claimant(v)' => copy'[job'[v]] = "saving"
      BY <1>6, <1>7, <2>2 DEF Locked, OtherRows
    <3> QED BY <3>1, <3>2
  <2> QED BY <2>1, <2>2
<1>11. AppendAtMostOnce' /\ MarkerHonest'
  BY DEF AppendAtMostOnce, MarkerHonest, OtherRows, RowRight
<1>12. HonestCopy'
  BY DEF HonestCopy, OtherRows, RowRight
<1>13. LiveAppendStands'
  BY <1>10 DEF LiveAppendStands, Locked, Claimant
<1> QED BY <1>1, <1>2, <1>3, <1>4, <1>5, <1>8, <1>9, <1>10, <1>11, <1>12, <1>13

\* What a handler under way knows of itself: its message, its lock and its place.
LEMMA UnderWay ==
  ASSUME IInv, NEW w \in Workers, pc[w] \notin {"idle", "resolve", "lock"}
  PROVE  job[w] \in Messages /\ (lost = 0 => lock[job[w]] = w) /\ ReadsOf(w)
BY DEF IInv, Working, Locked, Reads

LEMMA ClaimKeeps ==
  ASSUME IInv, NEW w \in Workers, Claim(w)
  PROVE  IInv'
<1> USE DEF IInv, TypeOK, env, queue, imap, trouble
<1> DEFINE m == job[w]
<1>1. /\ pc[w] = "claim"
      /\ UNCHANGED <<marker, env, queue, lock, job, cred, ending, trouble, imap>>
  BY DEF Claim
<1>2. m \in Messages /\ (lost = 0 => lock[m] = w) /\ ReadsOf(w)
  BY <1>1, UnderWay
<1>3. CASE ~Claimable(m)
  <2>1. Goto(w, "release") /\ UNCHANGED <<copy, dest, seen>> /\ "release" \in PCs
    BY <1>3 DEF Claim, PCs
  <2>2. pc'[w] = "release"
    BY <2>1, GotoStep
  <2>3. ReadsOf(w)' /\ ~Claimant(w)'
    BY <2>2 DEF ReadsOf, AtCopy, Claimant
  <2>4. seen' \in [Workers -> Rows] /\ ending' \in [Workers -> {"failed", "uncertain"}]
    BY <1>1, <2>1 DEF ThreadType
  <2>5. synced \subseteq synced' /\ synced' \subseteq Messages
    BY <1>1 DEF ImapType
  <2> QED BY <1>1, <2>1, <2>3, <2>4, <2>5, LocalKeeps DEF row
<1>4. CASE Claimable(m)
  <2> DEFINE d == seen[w].dest
  <2>1. /\ copy' = [copy EXCEPT ![m] = "saving"] /\ dest' = [dest EXCEPT ![m] = d]
        /\ seen' = [seen EXCEPT ![w].copy = "saving"] /\ Goto(w, "append")
    BY <1>4 DEF Claim
  <2>2. copy[m] = "pending" /\ dest[m] = None /\ appends[m] = 0 /\ ~marker[m]
    BY <1>2, <1>4 DEF Claimable, Unclaimed, MarkerOfSaved
  <2>3. pc' \in [Workers -> PCs] /\ pc'[w] = "append" /\ \A v \in Workers : v # w => pc'[v] = pc[v]
    BY <2>1, GotoStep DEF PCs
  <2>4. d \in Destinations /\ d # None
    BY <1>1, <1>2 DEF ReadsOf, ThreadType, Rows
  <2>5. /\ seen' \in [Workers -> Rows] /\ seen'[w].copy = "saving" /\ seen'[w].dest = d
        /\ \A v \in Workers : v # w => seen'[v] = seen[v]
    BY <2>1 DEF ThreadType, Rows
  <2> HIDE DEF d
  <2>6. /\ RowType' /\ copy'[m] = "saving" /\ dest'[m] = d
        /\ \A x \in Messages : x # m => copy'[x] = copy[x] /\ dest'[x] = dest[x]
    BY <1>1, <1>2, <2>1, <2>4 DEF RowType
  <2>7. TypeOK'
    <3>1. ThreadType' /\ EnvType' /\ TroubleType' /\ ImapType'
      BY <1>1, <2>3, <2>5 DEF ThreadType, EnvType, TroubleType, ImapType
    <3>2. MarkerOfSaved'
      BY <1>1, <2>2, <2>6 DEF MarkerOfSaved
    <3> QED BY <2>6, <3>1, <3>2
  <2>8. OthersAsTheyWere(w)
    BY <1>1, <2>3, <2>5 DEF OthersAsTheyWere
  <2>9. SelfRight(w)
    BY <1>1, <1>2, <2>3, <2>4, <2>5, <2>6 DEF SelfRight, ReadsOf, AtCopy
  <2>10. \A p \in Paths : stored[m][p] = 0
    <3> SUFFICES ASSUME NEW p \in Paths PROVE stored[m][p] = 0
      OBVIOUS
    <3>1. stored[m][p] \in Nat /\ stored[m][p] <= 0
      BY <1>2, <2>2 DEF ImapType, StoredByAppend
    <3> QED BY <3>1
  <2>11. OtherRows(m) /\ RowRight(m)
    BY <1>1, <1>2, <2>2, <2>4, <2>6, <2>10 DEF OtherRows, RowRight
  <2>12. \A v \in Workers : Claimant(v) => job[v] # m
    BY <2>2 DEF Claims
  <2>13. Claimant(w)' => /\ job'[w] = m /\ copy'[m] = "saving"
                         /\ appends'[m] = IF pc'[w] = "appending" THEN 1 ELSE 0
                         /\ \A p \in Paths : stored'[m][p] = 0
    BY <1>1, <2>2, <2>3, <2>6, <2>10
  <2> QED BY <1>1, <1>2, <2>7, <2>8, <2>9, <2>11, <2>12, <2>13, WriteKeeps
<1> QED BY <1>3, <1>4

LEMMA AppendKeeps ==
  ASSUME IInv, NEW w \in Workers, Append(w)
  PROVE  IInv'
<1> USE DEF IInv, TypeOK, row, env, queue, local, trouble
<1> DEFINE m == job[w]
<1>1. /\ pc[w] = "append" /\ Goto(w, "appending") /\ appends' = [appends EXCEPT ![m] = appends[m] + 1]
      /\ UNCHANGED <<row, env, queue, lock, local, trouble, stored, synced>>
  BY DEF Append
<1>2. m \in Messages /\ (lost = 0 => lock[m] = w) /\ ReadsOf(w)
  BY <1>1, UnderWay
<1>3. Claimant(w)
  BY <1>1 DEF Claimant
<1>4. /\ appends[m] = 0 /\ copy[m] \in {"saving", "uncertain"} /\ (lost = 0 => copy[m] = "saving")
      /\ \A p \in Paths : stored[m][p] = 0
  BY <1>1, <1>3 DEF Claims, Locked
<1>5. /\ appends' \in [Messages -> Nat] /\ appends'[m] = 1
      /\ \A x \in Messages : x # m => appends'[x] = appends[x]
  BY <1>1, <1>2, <1>4 DEF ImapType
<1>6. pc' \in [Workers -> PCs] /\ pc'[w] = "appending" /\ \A v \in Workers : v # w => pc'[v] = pc[v]
  BY <1>1, GotoStep DEF PCs
<1>7. TypeOK'
  <2>1. RowType' /\ ThreadType' /\ EnvType' /\ TroubleType' /\ ImapType' /\ MarkerOfSaved'
    BY <1>1, <1>5, <1>6 DEF RowType, ThreadType, EnvType, TroubleType, ImapType, MarkerOfSaved
  <2> QED BY <2>1
<1>8. OthersAsTheyWere(w)
  BY <1>1, <1>6 DEF OthersAsTheyWere
<1>9. SelfRight(w)
  BY <1>1, <1>2, <1>6 DEF SelfRight, ReadsOf, AtCopy
<1>10. OtherRows(m) /\ RowRight(m)
  BY <1>1, <1>2, <1>4, <1>5 DEF OtherRows, RowRight, Destined
<1>11. \A v \in Workers : v # w /\ Claimant(v) => job[v] # m
  BY <1>3 DEF OneClaimant
<1> QED BY <1>1, <1>2, <1>4, <1>5, <1>6, <1>7, <1>8, <1>9, <1>10, <1>11, WriteKeeps

\* The server answers, or is not heard: the APPEND stored n copies.
LEMMA StoresKeeps ==
  ASSUME IInv, NEW w \in Workers, NEW n \in 0..1, pc[w] = "appending", Stores(w, n),
         ThreadType', EnvType', TroubleType', lost' = lost, UNCHANGED <<row, appends, synced>>,
         OthersAsTheyWere(w),
         pc'[w] \in {"save", "finish", "idle"},
         pc'[w] # "idle" => job'[w] = job[w] /\ seen'[w] = seen[w] /\ lock' = lock,
         pc'[w] = "save" => n = 1,
         pc'[w] = "finish" => ending'[w] = "uncertain"
  PROVE  IInv'
<1> USE DEF IInv, TypeOK, row
<1> DEFINE m == job[w]
           q == seen[w].dest[2]
<1>1. m \in Messages /\ (lost = 0 => lock[m] = w) /\ ReadsOf(w) /\ Claimant(w)
  BY UnderWay DEF Claimant
<1>2. /\ appends[m] = 1 /\ copy[m] \in {"saving", "uncertain"}
      /\ \A p \in Paths : stored[m][p] = 0
  BY <1>1 DEF Claims
<1>3. q \in Paths
  <2>1. seen[w].dest \in Destinations /\ seen[w].dest # None
    BY <1>1 DEF ReadsOf, AtCopy, ThreadType, Rows
  <2> QED BY <2>1 DEF Destinations
<1>4. stored' = [stored EXCEPT ![m][q] = stored[m][q] + n]
  BY DEF Stores
<1> HIDE DEF m, q
<1>5. stored[m][q] + n = n /\ n \in Nat
  BY <1>2, <1>3
<1>6. stored' = [stored EXCEPT ![m][q] = n]
  BY <1>4, <1>5
<1>7. /\ stored' \in [Messages -> [Paths -> Nat]] /\ stored'[m][q] = n
      /\ \A p \in Paths : p # q => stored'[m][p] = stored[m][p]
      /\ \A x \in Messages : x # m => stored'[x] = stored[x]
  BY <1>1, <1>3, <1>5, <1>6 DEF ImapType
<1>8. TypeOK'
  BY <1>7 DEF RowType, ImapType, MarkerOfSaved
<1>9. ReadsOf(w)' /\ ~Claimant(w)'
  BY <1>1 DEF ReadsOf, AtCopy, Claimant, m
<1>10. SelfRight(w)
  BY <1>1, <1>7, <1>9 DEF SelfRight, m, q
<1>11. OtherRows(m)
  BY <1>7 DEF OtherRows
<1>12. RowRight(m)
  <2>1. \A p \in Paths : stored[m][p] <= stored'[m][p] /\ stored'[m][p] <= 1
    BY <1>2, <1>7
  <2> QED BY <1>1, <1>2, <2>1 DEF RowRight, Destined
<1>13. \A v \in Workers : v # w /\ Claimant(v) => job[v] # m
  BY <1>1 DEF OneClaimant, m
<1> QED BY <1>1, <1>8, <1>9, <1>10, <1>11, <1>12, <1>13, WriteKeeps

LEMMA AppendReplyKeeps ==
  ASSUME IInv, NEW w \in Workers, AppendReply(w)
  PROVE  IInv'
<1> USE DEF IInv, TypeOK, env, queue, trouble
<1>1. pc[w] = "appending" /\ UNCHANGED <<row, env, queue, lock, job, cred, seen, trouble, appends, synced>>
  BY DEF AppendReply
<1>2. PICK l \in {"save", "finish"}, n \in 0..1 :
        /\ Goto(w, l) /\ Stores(w, n)
        /\ l = "save" => n = 1 /\ UNCHANGED ending
        /\ l = "finish" => ending' = [ending EXCEPT ![w] = "uncertain"]
  <2>1. CASE Stores(w, 1) /\ Goto(w, "save") /\ UNCHANGED ending
    BY <2>1
  <2>2. CASE \E n \in 0..1 : Stores(w, n) /\ Goto(w, "finish")
                             /\ ending' = [ending EXCEPT ![w] = "uncertain"]
    BY <2>2
  <2> QED BY <2>1, <2>2 DEF AppendReply
<1>3. pc' \in [Workers -> PCs] /\ pc'[w] = l /\ \A v \in Workers : v # w => pc'[v] = pc[v]
  BY <1>2, GotoStep DEF PCs
<1>4. /\ ending' \in [Workers -> {"failed", "uncertain"}]
      /\ l = "finish" => ending'[w] = "uncertain"
      /\ \A v \in Workers : v # w => ending'[v] = ending[v]
  BY <1>2 DEF ThreadType
<1>5. ThreadType' /\ EnvType' /\ TroubleType'
  BY <1>1, <1>3, <1>4 DEF ThreadType, EnvType, TroubleType
<1>6. OthersAsTheyWere(w)
  BY <1>1, <1>3, <1>4 DEF OthersAsTheyWere
<1> QED BY <1>1, <1>2, <1>3, <1>4, <1>5, <1>6, StoresKeeps

LEMMA AbortKeeps ==
  ASSUME IInv, NEW w \in Workers, Abort(w)
  PROVE  IInv'
<1> USE DEF IInv, TypeOK, env, queue
<1>1. /\ pc[w] # "idle" /\ Fault /\ lock' = Unlocked(w) /\ Goto(w, "idle") /\ Forget(w)
      /\ UNCHANGED <<row, env, queue, appends, synced>>
  BY DEF Abort
<1>2. TroubleType' /\ lost' = lost
  BY <1>1, FaultStep
<1>3. CASE pc[w] = "appending" /\ Stores(w, 1)
  <2>1. /\ ThreadType' /\ pc'[w] = "idle"
        /\ \A v \in Workers : v # w => /\ pc'[v] = pc[v] /\ job'[v] = job[v] /\ seen'[v] = seen[v]
                                       /\ ending'[v] = ending[v]
        /\ \A v \in Workers, m \in Messages : v # w /\ lock[m] = v => lock'[m] = v
    BY <1>1, ForgetStep DEF ThreadType
  <2>2. OthersAsTheyWere(w) /\ EnvType'
    BY <1>1, <2>1 DEF OthersAsTheyWere, EnvType
  <2> QED BY <1>1, <1>2, <1>3, <2>1, <2>2, StoresKeeps
<1>4. CASE UNCHANGED stored
  BY <1>1, <1>2, <1>4, EndKeeps DEF imap
<1> QED BY <1>3, <1>4 DEF Abort

LEMMA SaveKeeps ==
  ASSUME IInv, NEW w \in Workers, Save(w)
  PROVE  IInv'
<1> USE DEF IInv, TypeOK, env, queue, trouble, imap
<1> DEFINE m == job[w]
<1>1. /\ pc[w] = "save" /\ Goto(w, "sync")
      /\ seen' = [seen EXCEPT ![w].copy = "saved", ![w].marker = TRUE]
      /\ UNCHANGED <<dest, env, queue, lock, job, cred, ending, trouble, imap>>
  BY DEF Save
<1>2. m \in Messages /\ (lost = 0 => lock[m] = w) /\ ReadsOf(w)
  BY <1>1, UnderWay
<1>3. seen' \in [Workers -> Rows] /\ \A v \in Workers : v # w => seen'[v] = seen[v]
  <2>1. seen \in [Workers -> Rows]
    BY DEF ThreadType
  <2>2. [seen[w] EXCEPT !.copy = "saved", !.marker = TRUE] \in Rows
    BY <2>1 DEF Rows, Settled
  <2> QED BY <1>1, <2>1, <2>2
<1>4. pc' \in [Workers -> PCs] /\ pc'[w] = "sync" /\ \A v \in Workers : v # w => pc'[v] = pc[v]
  BY <1>1, GotoStep DEF PCs
<1>5. ReadsOf(w)' /\ ~Claimant(w)'
  BY <1>4 DEF ReadsOf, AtCopy, Claimant
<1>6. CASE copy[m] # "saving"
  <2>1. UNCHANGED <<copy, marker>> /\ "sync" \in PCs
    BY <1>6 DEF Save, PCs
  <2>2. synced \subseteq synced' /\ synced' \subseteq Messages /\ ending' \in [Workers -> {"failed", "uncertain"}]
    BY <1>1 DEF ImapType, ThreadType
  <2> QED BY <1>1, <1>3, <1>5, <2>1, <2>2, LocalKeeps DEF row
<1>7. CASE copy[m] = "saving"
  <2>1. copy' = [copy EXCEPT ![m] = "saved"] /\ marker' = [marker EXCEPT ![m] = TRUE]
    BY <1>7 DEF Save
  <2>2. /\ RowType' /\ copy'[m] = "saved" /\ marker'[m] /\ dest' = dest
        /\ \A x \in Messages : x # m => copy'[x] = copy[x] /\ marker'[x] = marker[x]
    BY <1>1, <1>2, <2>1 DEF RowType, Settled
  <2>3. TypeOK'
    <3>1. ThreadType' /\ EnvType' /\ TroubleType' /\ ImapType'
      BY <1>1, <1>3, <1>4 DEF ThreadType, EnvType, TroubleType, ImapType
    <3>2. MarkerOfSaved'
      BY <2>2 DEF MarkerOfSaved
    <3> QED BY <2>2, <3>1, <3>2
  <2>4. OthersAsTheyWere(w) /\ SelfRight(w)
    BY <1>1, <1>2, <1>3, <1>4, <1>5 DEF OthersAsTheyWere, SelfRight
  <2> DEFINE q == seen[w].dest[2]
  <2>5. dest[m] # None /\ seen[w].dest = dest[m] /\ dest[m] \in Destinations /\ stored[m][q] >= 1
    BY <1>1, <1>2 DEF ReadsOf, AtCopy, RowType, Found
  <2>6. q \in Paths
    BY <2>5 DEF Destinations
  <2>7. stored[m] \in [Paths -> Nat] /\ appends[m] \in Nat /\ appends[m] <= 1
    BY <1>2 DEF ImapType, AppendAtMostOnce
  <2>8. \A p \in Paths : stored[m][p] <= appends[m]
    BY <1>2 DEF StoredByAppend
  <2> HIDE DEF q
  <2>9. stored[m][q] = 1
    BY <2>5, <2>6, <2>7, <2>8
  <2>10. OtherRows(m)
    BY <1>1, <2>2 DEF OtherRows
  <2>11. RowRight(m)
    <3>1. \A p \in Paths : stored[m][p] <= stored[m][p]
      BY <2>7
    <3>2. dest[m][2] = q
      BY <2>5 DEF q
    <3> QED BY <1>1, <2>2, <2>5, <2>7, <2>8, <2>9, <3>1, <3>2 DEF RowRight
  <2>12. \A v \in Workers : Claimant(v) => job[v] # m
    BY <2>6, <2>9 DEF Claims
  <2> QED BY <1>1, <1>2, <1>5, <2>3, <2>4, <2>10, <2>11, <2>12, WriteKeeps
<1> QED BY <1>6, <1>7

LEMMA FinishKeeps ==
  ASSUME IInv, NEW w \in Workers, Finish(w)
  PROVE  IInv'
<1> USE DEF IInv, TypeOK, env, queue, trouble, imap, local
<1> DEFINE m == job[w]
<1>1. /\ pc[w] = "finish" /\ Goto(w, "release")
      /\ UNCHANGED <<dest, marker, env, queue, lock, local, trouble, imap>>
  BY DEF Finish
<1>2. m \in Messages /\ (lost = 0 => lock[m] = w) /\ ReadsOf(w)
  BY <1>1, UnderWay
<1>3. pc' \in [Workers -> PCs] /\ pc'[w] = "release" /\ \A v \in Workers : v # w => pc'[v] = pc[v]
  BY <1>1, GotoStep DEF PCs
<1>4. ReadsOf(w)' /\ ~Claimant(w)'
  BY <1>3 DEF ReadsOf, AtCopy, Claimant
<1>5. CASE ~AsRead(w)
  <2>1. copy' = copy /\ "release" \in PCs
    BY <1>5 DEF Finish, PCs
  <2>2. /\ synced \subseteq synced' /\ synced' \subseteq Messages /\ ending' \in [Workers -> {"failed", "uncertain"}]
        /\ seen' \in [Workers -> Rows]
    BY <1>1 DEF ImapType, ThreadType
  <2> QED BY <1>1, <1>4, <2>1, <2>2, LocalKeeps DEF row
<1>6. CASE AsRead(w)
  <2>1. /\ copy' = [copy EXCEPT ![m] = ending[w]] /\ copy[m] = seen[w].copy
        /\ ending[w] \in {"failed", "uncertain"}
    BY <1>6 DEF Finish, AsRead, ThreadType
  <2>2. copy[m] = "saving" \/ (copy[m] = "pending" /\ ending[w] = "failed")
    BY <1>1, <1>2, <2>1 DEF ReadsOf
  <2>3. /\ RowType' /\ copy'[m] = ending[w] /\ dest' = dest /\ marker' = marker
        /\ \A x \in Messages : x # m => copy'[x] = copy[x]
    BY <1>1, <1>2, <2>1 DEF RowType, Settled
  <2>4. TypeOK'
    <3>1. ThreadType' /\ EnvType' /\ TroubleType' /\ ImapType'
      BY <1>1, <1>3 DEF ThreadType, EnvType, TroubleType, ImapType
    <3>2. MarkerOfSaved'
      BY <2>2, <2>3 DEF MarkerOfSaved
    <3> QED BY <2>3, <3>1, <3>2
  <2>5. OthersAsTheyWere(w) /\ SelfRight(w)
    BY <1>1, <1>2, <1>3, <1>4 DEF OthersAsTheyWere, SelfRight
  <2>6. ending[w] = "failed" => appends[m] = 0
    BY <1>1, <1>2, <2>1, <2>2 DEF Claims, Claimant, Unclaimed
  <2>7. stored[m] \in [Paths -> Nat] /\ appends[m] \in Nat /\ appends[m] <= 1
    BY <1>2 DEF ImapType, AppendAtMostOnce
  <2>8. RowRight(m)
    <3>1. \A p \in Paths : stored[m][p] <= stored[m][p] /\ stored[m][p] <= appends[m]
      BY <1>2, <2>7 DEF StoredByAppend
    <3>2. ending[w] = "uncertain" => dest[m] # None
      BY <1>2, <2>2 DEF Destined
    <3> QED BY <1>1, <2>1, <2>3, <2>6, <2>7, <3>1, <3>2 DEF RowRight
  <2>9. OtherRows(m)
    BY <1>1, <2>3 DEF OtherRows
  <2>10. ASSUME NEW v \in Workers, v # w, Claimant(v), job[v] = m
         PROVE  lost # 0 /\ copy'[m] \in {"saving", "uncertain"}
    <3>1. pc[v] \notin {"idle", "resolve", "lock"}
      BY <2>10 DEF Claimant
    <3>2. lost # 0
      BY <1>2, <2>10, <3>1 DEF Locked
    <3>3. copy[m] = "saving"
      BY <2>2, <2>10 DEF Claims
    <3>4. ending[w] # "failed"
      BY <1>1, <2>1, <2>10, <3>3 DEF OneClaimant, Claimant
    <3> QED BY <2>1, <2>3, <3>2, <3>4
  <2> QED BY <1>1, <1>2, <1>4, <2>4, <2>5, <2>8, <2>9, <2>10, WriteKeeps
<1> QED BY <1>5, <1>6

LEMMA ClearMarkerKeeps ==
  ASSUME IInv, NEW w \in Workers, ClearMarker(w)
  PROVE  IInv'
<1> USE DEF IInv, TypeOK, env, queue, trouble, imap, local
<1> DEFINE m == job[w]
<1>1. /\ pc[w] = "clear" /\ Goto(w, "release")
      /\ UNCHANGED <<copy, dest, env, queue, lock, local, trouble, imap>>
  BY DEF ClearMarker
<1>2. m \in Messages /\ (lost = 0 => lock[m] = w) /\ m \in synced
  BY <1>1, UnderWay DEF Queued
<1>3. pc' \in [Workers -> PCs] /\ pc'[w] = "release" /\ \A v \in Workers : v # w => pc'[v] = pc[v]
  BY <1>1, GotoStep DEF PCs
<1>4. ReadsOf(w)' /\ ~Claimant(w)'
  BY <1>3 DEF ReadsOf, AtCopy, Claimant
<1>5. CASE copy[m] # "saved"
  <2>1. marker' = marker /\ "release" \in PCs
    BY <1>5 DEF ClearMarker, PCs
  <2>2. /\ synced \subseteq synced' /\ synced' \subseteq Messages /\ ending' \in [Workers -> {"failed", "uncertain"}]
        /\ seen' \in [Workers -> Rows]
    BY <1>1 DEF ImapType, ThreadType
  <2> QED BY <1>1, <1>4, <2>1, <2>2, LocalKeeps DEF row
<1>6. CASE copy[m] = "saved"
  <2>1. marker' = [marker EXCEPT ![m] = FALSE]
    BY <1>6 DEF ClearMarker
  <2>2. /\ RowType' /\ ~marker'[m] /\ \A x \in Messages : x # m => marker'[x] = marker[x]
    BY <1>1, <1>2, <2>1 DEF RowType
  <2>3. TypeOK'
    <3>1. ThreadType' /\ EnvType' /\ TroubleType' /\ ImapType'
      BY <1>1, <1>3 DEF ThreadType, EnvType, TroubleType, ImapType
    <3>2. MarkerOfSaved'
      BY <1>1, <2>2 DEF MarkerOfSaved
    <3> QED BY <2>2, <3>1, <3>2
  <2>4. OthersAsTheyWere(w) /\ SelfRight(w)
    BY <1>1, <1>2, <1>3, <1>4 DEF OthersAsTheyWere, SelfRight
  <2>5. stored[m] \in [Paths -> Nat] /\ appends[m] \in Nat /\ appends[m] <= 1
    BY <1>2 DEF ImapType, AppendAtMostOnce
  <2>6. RowRight(m)
    <3>1. \A p \in Paths : stored[m][p] <= stored[m][p] /\ stored[m][p] <= appends[m]
      BY <1>2, <2>5 DEF StoredByAppend
    <3>2. dest[m] # None /\ stored[m][dest[m][2]] = 1
      BY <1>2, <1>6 DEF HonestCopy
    <3> QED BY <1>1, <1>2, <1>6, <2>5, <3>1, <3>2 DEF RowRight
  <2>7. OtherRows(m)
    BY <1>1, <2>2 DEF OtherRows
  <2>8. \A v \in Workers : Claimant(v) => job[v] # m
    BY <1>6 DEF Claims
  <2> QED BY <1>1, <1>2, <1>4, <2>3, <2>4, <2>6, <2>7, <2>8, WriteKeeps
<1> QED BY <1>5, <1>6

(* Around the service. *)

\* Nothing is written to a row or by a handler; a lock is lost with its session only.
LEMMA OutsideKeeps ==
  ASSUME IInv, EnvType', TroubleType', jobs' \subseteq Messages, batch' \subseteq Messages,
         lock' \in [Messages -> Workers \cup {None, Delivery}],
         lost' = 0 => lost = 0 /\ \A w \in Workers, m \in Messages : lock[m] = w => lock'[m] = w,
         UNCHANGED <<row, pc, local, imap>>
  PROVE  IInv'
<1> USE DEF IInv, TypeOK, row, local, imap
<1>1. RowType' /\ ThreadType' /\ ImapType' /\ MarkerOfSaved'
  BY DEF RowType, ThreadType, ImapType, MarkerOfSaved
<1>2. Unclaimed' /\ Destined' /\ StoredByAppend' /\ Working' /\ Found' /\ Queued'
  BY DEF Unclaimed, Destined, StoredByAppend, Working, Found, Queued
<1>3. Reads'
  BY DEF Reads, ReadsOf
<1>4. Claims' /\ OneClaimant'
  BY DEF Claims, OneClaimant, Claimant
<1>5. Locked'
  BY DEF Locked, Claimant, Working
<1>6. AppendAtMostOnce' /\ HonestCopy' /\ MarkerHonest'
  BY DEF AppendAtMostOnce, HonestCopy, MarkerHonest
<1>7. LiveAppendStands'
  BY <1>5 DEF LiveAppendStands, Locked, Claimant
<1> QED BY <1>1, <1>2, <1>3, <1>4, <1>5, <1>6, <1>7

LEMMA DeliverKeeps ==
  ASSUME IInv, NEW m \in Messages, Deliver(m)
  PROVE  IInv'
<1> USE DEF IInv, TypeOK, env, queue, local, trouble, imap
<1>1. /\ copy[m] = "none" /\ lock[m] = None
      /\ copy' = [copy EXCEPT ![m] = "pending"] /\ lock' = [lock EXCEPT ![m] = Delivery]
      /\ UNCHANGED <<dest, marker, env, queue, pc, local, trouble, imap>>
  BY DEF Deliver
<1>2. /\ RowType' /\ copy'[m] = "pending" /\ \A x \in Messages : x # m => copy'[x] = copy[x]
  BY <1>1 DEF RowType
<1>3. /\ lock' \in [Messages -> Workers \cup {None, Delivery}]
      /\ \A w \in Workers, x \in Messages : lock[x] = w => lock'[x] = w
  BY <1>1, Numbers DEF ThreadType
<1>4. ThreadType' /\ EnvType' /\ TroubleType' /\ ImapType'
  BY <1>1, <1>3 DEF ThreadType, EnvType, TroubleType, ImapType
<1>5. MarkerOfSaved'
  BY <1>1, <1>2 DEF MarkerOfSaved
<1>6. Unclaimed' /\ Destined' /\ StoredByAppend' /\ Working' /\ Found' /\ Queued'
  BY <1>1, <1>2 DEF Unclaimed, Destined, StoredByAppend, Working, Found, Queued
<1>7. Reads'
  BY <1>1 DEF Reads, ReadsOf
<1>8. \A w \in Workers : Claimant(w) => job[w] \in Messages /\ job[w] # m
  BY <1>1 DEF Claims, Working, Claimant
<1>9. Claims'
  <2> SUFFICES ASSUME NEW w \in Workers, Claimant(w)
               PROVE  /\ copy'[job[w]] \in {"saving", "uncertain"}
                      /\ appends[job[w]] = IF pc[w] = "appending" THEN 1 ELSE 0
                      /\ \A p \in Paths : stored[job[w]][p] = 0
    BY <1>1 DEF Claims, Claimant
  <2> QED BY <1>2, <1>8 DEF Claims
<1>10. OneClaimant'
  BY <1>1 DEF OneClaimant, Claimant
<1>11. Locked'
  <2> SUFFICES ASSUME lost = 0, NEW w \in Workers
               PROVE  /\ pc[w] \notin {"idle", "resolve", "lock"} => lock'[job[w]] = w
                      /\ Claimant(w) => copy'[job[w]] = "saving"
    BY <1>1 DEF Locked, Claimant
  <2> QED BY <1>2, <1>3, <1>8 DEF Locked, Working
<1>12. AppendAtMostOnce' /\ HonestCopy' /\ MarkerHonest'
  BY <1>1, <1>2 DEF AppendAtMostOnce, HonestCopy, MarkerHonest
<1>13. LiveAppendStands'
  BY <1>11 DEF LiveAppendStands, Locked, Claimant
<1> QED BY <1>2, <1>4, <1>5, <1>6, <1>7, <1>9, <1>10, <1>11, <1>12, <1>13

LEMMA DeliveryKeeps ==
  ASSUME IInv, NEW m \in Messages, DeliverNotify(m) \/ DeliverEnd(m) \/ RepairNext(m)
  PROVE  IInv'
<1> USE DEF IInv, TypeOK, env, queue, trouble
<1>1. UNCHANGED <<row, env, pc, local, imap>> /\ batch' \subseteq Messages
  BY DEF DeliverNotify, DeliverEnd, RepairNext, ThreadType
<1>2. jobs' \subseteq Messages /\ TroubleType' /\ lost' = lost
  <2>1. CASE DeliverNotify(m) \/ DeliverEnd(m)
    BY <2>1 DEF DeliverNotify, DeliverEnd, ThreadType, TroubleType
  <2>2. CASE RepairNext(m)
    BY <2>2, EnqueueStep DEF RepairNext, ThreadType
  <2> QED BY <2>1, <2>2
<1>3. /\ lock' \in [Messages -> Workers \cup {None, Delivery}]
      /\ \A w \in Workers, x \in Messages : lock[x] = w => lock'[x] = w
  BY Numbers DEF DeliverNotify, DeliverEnd, RepairNext, ThreadType
<1>4. EnvType'
  BY <1>1 DEF EnvType
<1> QED BY <1>1, <1>2, <1>3, <1>4, OutsideKeeps

LEMMA RepairKeeps == ASSUME IInv, Repair PROVE IInv'
<1> USE DEF IInv, TypeOK, env, trouble
<1>1. batch' \subseteq Messages
  BY DEF Repair, Unfinished
<1>2. jobs' \subseteq Messages /\ EnvType' /\ TroubleType' /\ lock' \in [Messages -> Workers \cup {None, Delivery}]
  BY DEF Repair, ThreadType, EnvType, TroubleType
<1> QED BY <1>1, <1>2, OutsideKeeps DEF Repair

LEMMA MoveKeeps == ASSUME IInv, Move PROVE IInv'
<1> USE DEF IInv, TypeOK, queue, trouble
<1>1. UNCHANGED <<row, queue, lock, pc, local, trouble, imap>>
  BY DEF Move
<1>2. moves' \in 0..MaxMoves
  BY Numbers DEF Move, EnvType
<1>3. EnvType'
  <2>1. CASE \E b \in Boxes, p \in Paths \cup {None} :
               path' = [path EXCEPT ![b] = p] /\ UNCHANGED <<enabled, role>>
    BY <1>2, <2>1 DEF EnvType
  <2>2. CASE \E b \in Boxes \cup {None} : role' = b /\ UNCHANGED <<enabled, path>>
    BY <1>2, <2>2 DEF EnvType
  <2>3. CASE \E m \in Messages : enabled' = [enabled EXCEPT ![m] = ~enabled[m]] /\ UNCHANGED <<role, path>>
    <3>1. PICK m \in Messages : enabled' = [enabled EXCEPT ![m] = ~enabled[m]] /\ UNCHANGED <<role, path>>
      BY <2>3
    <3> DEFINE e == ~enabled[m]
    <3>2. e \in BOOLEAN
      BY Zenon
    <3>3. enabled' = [enabled EXCEPT ![m] = e]
      BY <3>1
    <3> HIDE DEF e
    <3> QED BY <1>2, <3>1, <3>2, <3>3 DEF EnvType
  <2> QED BY <2>1, <2>2, <2>3 DEF Move
<1>4. jobs' \subseteq Messages /\ batch' \subseteq Messages /\ lock' \in [Messages -> Workers \cup {None, Delivery}]
  BY <1>1 DEF ThreadType
<1>5. TroubleType'
  BY <1>1 DEF TroubleType
<1> QED BY <1>1, <1>3, <1>4, <1>5, OutsideKeeps

LEMMA LoseSessionKeeps == ASSUME IInv, NEW w \in Workers, LoseSession(w) PROVE IInv'
<1> USE DEF IInv, TypeOK, env, queue
<1>1. UNCHANGED <<row, env, queue, pc, local, faults, imap>> /\ lock' = Unlocked(w)
  BY DEF LoseSession
<1>2. lost' \in 0..MaxLost /\ lost' # 0
  BY Numbers DEF LoseSession, TroubleType
<1>3. jobs' \subseteq Messages /\ batch' \subseteq Messages /\ lock' \in [Messages -> Workers \cup {None, Delivery}]
  BY <1>1 DEF ThreadType, Unlocked
<1>4. EnvType' /\ TroubleType'
  BY <1>1, <1>2 DEF EnvType, TroubleType
<1> QED BY <1>1, <1>2, <1>3, <1>4, OutsideKeeps

LEMMA StutterKeeps == ASSUME IInv, UNCHANGED vars PROVE IInv'
<1> USE DEF IInv, TypeOK, vars, env, queue, trouble
<1>1. /\ jobs' \subseteq Messages /\ batch' \subseteq Messages
      /\ lock' \in [Messages -> Workers \cup {None, Delivery}] /\ EnvType' /\ TroubleType'
  BY DEF ThreadType, EnvType, TroubleType
<1> QED BY <1>1, OutsideKeeps

LEMMA NextKeeps == ASSUME IInv, [Next]_vars PROVE IInv'
<1>1. CASE \E m \in Messages : Deliver(m) \/ DeliverNotify(m) \/ DeliverEnd(m) \/ RepairNext(m)
  BY <1>1, DeliverKeeps, DeliveryKeeps
<1>2. CASE Move \/ Repair
  BY <1>2, MoveKeeps, RepairKeeps
<1>3. CASE \E w \in Workers : RunStep(w)
  BY <1>3, ResolveKeeps, LockKeeps, ExamineKeeps, RecheckKeeps, FindKeeps, ChooseKeeps, ClaimKeeps,
     AppendFailsKeeps, AppendKeeps, AppendReplyKeeps, SaveKeeps, FinishKeeps, RequestSyncKeeps,
     ClearMarkerKeeps, ReleaseKeeps DEF RunStep
<1>4. CASE \E w \in Workers : Abort(w) \/ LoseSession(w) \/ \E m \in Messages : Take(w, m)
  BY <1>4, AbortKeeps, LoseSessionKeeps, TakeKeeps
<1>5. CASE UNCHANGED vars
  BY <1>5, StutterKeeps
<1> QED BY <1>1, <1>2, <1>3, <1>4, <1>5 DEF Next

\* The inductive invariant holds in every reachable state.
THEOREM InvariantHolds == Spec => []IInv
<1>1. Init => IInv
  BY InitHolds
<1>2. IInv /\ [Next]_vars => IInv'
  BY NextKeeps
<1> QED BY <1>1, <1>2, PTL DEF Spec

\* Every variable has its type, and only a saved copy waits for its sync (the CHECK of
\* outgoing_messages).
THEOREM TypeCorrect == Spec => []TypeOK
<1>1. IInv => TypeOK
  BY DEF IInv
<1> QED BY <1>1, InvariantHolds, PTL

\* run(): at most one APPEND is ever begun for a message, also when sessions of the
\* lock are lost, jobs are doubled and handlers die.
THEOREM AppendedAtMostOnce == Spec => []AppendAtMostOnce
<1>1. IInv => AppendAtMostOnce
  BY DEF IInv
<1> QED BY <1>1, InvariantHolds, PTL

\* saved() and finish(): "saved" names the folder that holds exactly one copy, "failed"
\* means that no APPEND was begun.
THEOREM CopyIsHonest == Spec => []HonestCopy
<1>1. IInv => HonestCopy
  BY DEF IInv
<1> QED BY <1>1, InvariantHolds, PTL

\* requestSync(): the marker is cleared for a message whose mailbox sync was queued.
THEOREM MarkerIsHonest == Spec => []MarkerHonest
<1>1. IInv => MarkerHonest
  BY DEF IInv
<1> QED BY <1>1, InvariantHolds, PTL

\* The advisory lock: as long as no session is lost, nobody judges a copy whose APPEND
\* is about to begin or under way.
THEOREM LiveAppendIsLeftAlone == Spec => []LiveAppendStands
<1>1. IInv => LiveAppendStands
  BY DEF IInv
<1> QED BY <1>1, InvariantHolds, PTL

\* claim(), saved() and finish(): a destination is written once, and a settled copy is
\* never judged again.
THEOREM AttemptsAreFinal == Spec => AttemptIsFinal
<1> DEFINE Final == \A m \in Messages : /\ dest[m] # None => dest'[m] = dest[m]
                                        /\ copy[m] \in Settled => copy'[m] = copy[m]
<1>1. ASSUME IInv, [Next]_vars PROVE [Final]_vars
  <2> SUFFICES ASSUME Next, NEW m \in Messages
               PROVE  /\ dest[m] # None => dest'[m] = dest[m]
                      /\ copy[m] \in Settled => copy'[m] = copy[m]
    BY <1>1
  <2> USE DEF row, Settled
  <2>1. RowType /\ Unclaimed /\ Reads /\ Working
    BY <1>1 DEF IInv, TypeOK
  <2>2. CASE \E n \in Messages : Deliver(n) \/ DeliverNotify(n) \/ DeliverEnd(n) \/ RepairNext(n)
    BY <2>1, <2>2 DEF Deliver, DeliverNotify, DeliverEnd, RepairNext, RowType
  <2>3. CASE Move \/ Repair
    BY <2>3 DEF Move, Repair
  <2>4. ASSUME NEW w \in Workers, RunStep(w)
        PROVE  /\ dest[m] # None => dest'[m] = dest[m]
               /\ copy[m] \in Settled => copy'[m] = copy[m]
    <3>1. CASE Claim(w)
      <4>1. job[w] \in Messages
        BY <2>1, <3>1 DEF Claim, Working
      <4> QED BY <2>1, <3>1, <4>1 DEF Claim, Claimable, RowType, Unclaimed
    <3>2. CASE Save(w)
      BY <2>1, <3>2 DEF Save, RowType
    <3>3. CASE Finish(w)
      <4>1. seen[w].copy \in {"pending", "saving"}
        BY <2>1, <3>3 DEF Finish, Reads, ReadsOf
      <4> QED BY <2>1, <3>3, <4>1 DEF Finish, AsRead, RowType
    <3>4. CASE Resolve(w) \/ Lock(w) \/ Examine(w) \/ Recheck(w) \/ Find(w) \/ Choose(w)
               \/ AppendFails(w) \/ Append(w) \/ AppendReply(w) \/ RequestSync(w) \/ ClearMarker(w) \/ Release(w)
      BY <3>4 DEF Resolve, Lock, Examine, Recheck, Find, Choose, AppendFails, Append, AppendReply,
         RequestSync, ClearMarker, Release
    <3> QED BY <2>4, <3>1, <3>2, <3>3, <3>4 DEF RunStep
  <2>5. CASE \E w \in Workers : Abort(w) \/ LoseSession(w) \/ \E n \in Messages : Take(w, n)
    BY <2>5 DEF Abort, LoseSession, Take
  <2> QED BY <2>2, <2>3, <2>4, <2>5 DEF Next
<1> QED BY <1>1, InvariantHolds, PTL DEF Spec, AttemptIsFinal
=============================================================================
