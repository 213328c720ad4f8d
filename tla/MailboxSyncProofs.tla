-------------------------- MODULE MailboxSyncProofs --------------------------
(***************************************************************************)
(* The local mailbox follows the server's, for any number of UIDs, epochs,   *)
(* batches, faults and requests: one epoch at a time, no alert of old mail,  *)
(* flags that differ are newer than the checkpoint, and nothing is skipped.  *)
(* All of it is proved of behaviours in which no session is lost, so that    *)
(* the lock keeps the runs apart (Alone): then a run finds the row and the   *)
(* placements as its own earlier steps left them, and only the server moves. *)
(***************************************************************************)
EXTENDS MailboxSync, FiniteSetTheorems, WellFoundedInduction, TLAPS

(* The types, with the fields of the records. *)

\* UIDs and MODSEQs stay within their bounds because each costs what it uses.
ServerOK ==
  /\ ServerType
  /\ DOMAIN server = {"epoch", "next", "modseq", "mail"}
  /\ DOMAIN budget = {"uids", "events", "requests", "lost"}
  /\ budget.uids \in Nat /\ budget.events \in Nat /\ budget.requests \in Nat /\ budget.lost \in Nat
  /\ server.next + budget.uids <= MaxUid + 1
  /\ server.modseq + budget.uids + budget.events <= MaxUid + MaxEvents + 1
RowOK ==
  /\ BoxType
  /\ DOMAIN box = {"ready", "recent", "epoch", "none", "delta", "deltaEpoch", "seen", "modseq",
                   "backfill", "backfillEpoch", "frontier"}
RunOK(r) ==
  /\ DOMAIN r = {"epoch", "todo", "got", "any", "complete", "base", "top", "seen", "known",
                 "gap", "empty", "frontier"}
  /\ r.epoch \in Epochs \cup {0} /\ r.complete \in Epochs \cup {0}
  /\ r.todo \subseteq Uids /\ r.known \subseteq Uids /\ DOMAIN r.got \subseteq Uids
  /\ \A u \in DOMAIN r.got : r.got[u] \in Flags
  /\ r.base \in Flags \cup {0} /\ r.top \in Flags \cup {0}
  /\ r.seen \in Uids \cup {0} /\ r.gap \in Uids \cup {0} /\ r.frontier \in Uids \cup {0}
  /\ r.any \in BOOLEAN /\ r.empty \in BOOLEAN

\* A run that has selected the mailbox has an epoch.
Reading == {"search", "fetch", "store", "flags", "removed", "complete"}
RunsOK ==
  /\ DOMAIN run = Kinds /\ \A k \in Kinds : RunOK(run[k])
  /\ ProcessType
  /\ \A k \in Kinds : pc[k] \in Reading \cup {"follow", "more"} => run[k].epoch # 0
Typed == ServerOK /\ RowOK /\ LocalType /\ RunsOK /\ HistoryType

(* What holds while no session is lost. *)

\* One run at a time.
Alone == \A k \in Kinds : pc[k] # "idle" => lock = k

\* The run of k reads the epoch that the server has now.
Reads(k) == pc[k] \in Reading /\ Live(k)

\* The row is of one epoch, and a run that has selected is of the row's.
RowEpoch ==
  /\ box.epoch <= server.epoch
  /\ \A p \in DOMAIN local : p[1] = box.epoch
  /\ box.deltaEpoch \in {0, box.epoch} /\ box.backfillEpoch \in {0, box.epoch}
  /\ box.backfill = "complete" => box.epoch # 0 /\ box.backfillEpoch = box.epoch /\ box.frontier = 0
RecentEpoch ==
  LET r == run["recent"]
  IN /\ pc["recent"] \in Reading \cup {"follow"} => r.epoch = box.epoch
     /\ pc["recent"] = "select" => r.complete \in {0, box.epoch}
     /\ pc["recent"] \in Reading \cup {"select"} /\ r.complete # 0 /\ r.complete = box.epoch =>
          box.backfill = "complete" /\ box.backfillEpoch = box.epoch /\ box.frontier = 0
DeltaEpoch ==
  LET r == run["delta"]
  IN /\ pc["delta"] \in Reading =>
          /\ r.epoch = box.epoch
          /\ box.deltaEpoch = IF r.empty THEN 0 ELSE box.epoch
          /\ ~r.empty => r.seen = box.seen
          /\ r.empty => pc["delta"] \in {"fetch", "store"}
BackfillEpoch ==
  LET r == run["backfill"]
  IN /\ pc["backfill"] \in Reading \cup {"select"} => r.epoch = box.epoch
     /\ pc["backfill"] \in Reading \/ (pc["backfill"] = "select" /\ r.seen = 1) =>
          box.backfillEpoch = box.epoch /\ box.frontier = r.frontier
Epochal == RowEpoch /\ RecentEpoch /\ DeltaEpoch /\ BackfillEpoch

\* UIDs of the present epoch were assigned, and a batch is of what was asked for.
Assigned ==
  /\ \A p \in DOMAIN local : p[1] = server.epoch => p[2] < server.next
  /\ box.deltaEpoch = server.epoch => box.seen < server.next
  /\ box.backfillEpoch = server.epoch => box.frontier < server.next
  /\ \A k \in Kinds : Reads(k) =>
       /\ \A u \in run[k].todo : u < server.next
       /\ pc[k] \in {"store", "flags"} => \A u \in DOMAIN run[k].got : u < server.next
  /\ Reads("delta") /\ run["delta"].empty =>
       run["delta"].frontier < server.next /\ \A u \in run["delta"].todo : u <= run["delta"].frontier
  /\ Reads("backfill") => run["backfill"].seen <= run["backfill"].frontier
InBatch ==
  /\ \A k \in {"recent", "delta"} : pc[k] = "store" => DOMAIN run[k].got \subseteq Batch(k)
  /\ pc["backfill"] = "store" => DOMAIN run["backfill"].got \subseteq run["backfill"].todo

\* The window is below what a delta run looks for, and of the row's epoch or older.
Told ==
  /\ \A p \in alerts \cup window : p[1] <= box.epoch
  /\ \A p \in alerts : p[1] = box.epoch => box.deltaEpoch = box.epoch
  /\ alerts \cap window = {}
  /\ \A p \in window : p[1] = box.epoch =>
       /\ box.deltaEpoch = box.epoch => p[2] <= box.seen
       /\ box.deltaEpoch = 0 => \E v \in Uids : <<box.epoch, v>> \in DOMAIN local /\ p[2] <= v
       /\ pc["delta"] \in Reading /\ run["delta"].empty => p[2] <= run["delta"].frontier
  /\ pc["delta"] \in Reading /\ ~run["delta"].empty =>
       \A u \in run["delta"].todo : <<box.epoch, u>> \notin window \/ pc["delta"] = "search"

\* What is stored, or was fetched, was so on the server; what changed since is newer
\* than the checkpoint, or than the one that a delta run will set.
Kept(u) == <<server.epoch, u>> \in DOMAIN local
FlagsOf(u) == local[<<server.epoch, u>>].flags
Mark(k) == IF k = "delta" THEN run[k].top ELSE box.modseq
Older ==
  /\ box.modseq <= server.modseq
  /\ box.deltaEpoch = 0 => box.modseq = 0
  /\ \A u \in DOMAIN server.mail : Kept(u) => FlagsOf(u) <= server.mail[u]
  /\ pc["delta"] \in Reading =>
       run["delta"].base = box.modseq /\ box.modseq <= run["delta"].top /\ run["delta"].top <= server.modseq
Fetched ==
  \A k \in Kinds : Reads(k) /\ pc[k] \in {"store", "flags"} =>
    \A u \in DOMAIN run[k].got \cap DOMAIN server.mail :
      /\ run[k].got[u] <= server.mail[u]
      /\ run[k].got[u] = server.mail[u] \/ server.mail[u] > Mark(k)
Unasked ==
  LET r == run["delta"]
  IN /\ Reads("delta") => \A u \in DOMAIN server.mail :
          Kept(u) /\ u \notin r.known /\ pc["delta"] \notin {"removed", "complete"} =>
            FlagsOf(u) = server.mail[u] \/ server.mail[u] > r.top
     /\ Reads("delta") /\ pc["delta"] = "flags" => \A u \in DOMAIN server.mail \ DOMAIN r.got :
          \/ server.mail[u] > r.top
          \/ IF Condstore /\ r.base # 0 THEN server.mail[u] <= r.base ELSE u \notin r.known
     /\ Reads("delta") /\ pc["delta"] \in {"removed", "complete"} => \A u \in DOMAIN server.mail :
          Kept(u) => FlagsOf(u) = server.mail[u] \/ server.mail[u] > r.top
Checkpointed ==
  box.epoch = server.epoch /\ box.modseq # 0 => \A u \in DOMAIN server.mail :
    Kept(u) => FlagsOf(u) = server.mail[u] \/ server.mail[u] > box.modseq
Followed == Older /\ Fetched /\ Unasked /\ Checkpointed

\* What is not stored will be seen by the delta run or by the backfill, unless
\* old mail is moved in or the window is read with gaps.
Plain == ~OldArrives /\ MayOmit \cap {"recent", "empty"} = {}
Sweeping(k) == Reads(k) /\ (k = "recent" \/ (k = "delta" /\ run[k].empty))
Reached(u) == box.backfillEpoch = server.epoch /\ u > box.frontier
OldReached ==
  /\ OldDated \subseteq 1..server.next - 1
  /\ \A u \in DOMAIN server.mail \cap OldDated : Reached(u) => Kept(u)
BeforeDelta ==
  box.deltaEpoch = 0 => \A u \in DOMAIN server.mail :
    Reached(u) /\ ~Kept(u) => \A v \in Uids : Kept(v) => v < u
Swept ==
  /\ \A k \in Kinds : Sweeping(k) /\ pc[k] = "store" =>
       Batch(k) \cap DOMAIN server.mail \subseteq DOMAIN run[k].got
  /\ Sweeping("recent") => \A u \in DOMAIN server.mail \ OldDated :
       u \in run["recent"].todo \/ Kept(u) \/ \A v \in run["recent"].todo : v < u
  /\ Sweeping("delta") => \A u \in DOMAIN server.mail \ OldDated :
       u \in run["delta"].todo \/ Kept(u) \/ u > run["delta"].frontier
Chunked ==
  LET r == run["backfill"]
  IN Reads("backfill") =>
       /\ \A u \in DOMAIN server.mail : r.seen < u /\ u <= r.frontier => u \in r.todo
       /\ \A u \in r.todo : r.seen < u /\ u <= r.frontier
       /\ pc["backfill"] = "store" => r.todo \cap DOMAIN server.mail \subseteq DOMAIN r.got
Passed ==
  box.deltaEpoch = server.epoch => \A u \in DOMAIN server.mail : Reached(u) /\ u <= box.seen => Kept(u)
Advanced ==
  LET r == run["delta"]
  IN /\ Reads("delta") /\ pc["delta"] \in {"fetch", "store"} /\ ~r.empty =>
          \A u \in DOMAIN server.mail : \/ u <= r.seen \/ u \in r.todo \/ Kept(u)
                                        \/ r.gap # 0 /\ r.gap <= u
                                        \/ \A v \in r.todo : v < u
     /\ pc["delta"] = "search" \/ (pc["delta"] \in Reading /\ r.empty) => r.gap = 0
     /\ pc["delta"] \in {"fetch", "store"} /\ r.gap # 0 => \A v \in r.todo : r.gap < v
Covered == OldReached /\ BeforeDelta /\ Passed /\ Swept /\ Chunked /\ Advanced

Sound == Alone /\ Epochal /\ Assigned /\ InBatch /\ Told /\ Followed /\ (Plain => Covered)
IInv == Typed /\ (budget.lost = 0 => Sound)

-----------------------------------------------------------------------------
(* Operators.                                                              *)

LEMMA Numbers ==
  /\ MaxUid \in Nat \ {0} /\ MaxEpoch \in Nat \ {0}
  /\ MaxRequests \in Nat /\ MaxEvents \in Nat /\ MaxLost \in Nat
  /\ BatchSize \in Nat \ {0} /\ ChunkSize \in Nat \ {0}
<1>1. {MaxRequests, MaxEvents, MaxLost} \subseteq Nat
  BY BoundAssumption, Zenon DEF BoundAssumption
<1> QED BY <1>1, BoundAssumption DEF BoundAssumption

LEMMA Switches == OldArrives \in BOOLEAN /\ Condstore \in BOOLEAN /\ OldDated \subseteq Uids
<1>1. {OldArrives, Condstore} \subseteq BOOLEAN /\ OldDated \subseteq Uids
  BY ServerAssumption, Zenon DEF ServerAssumption
<1> QED BY <1>1

\* A bounded set of numbers has a greatest and a least member.
LEMMA HasGreatest ==
  ASSUME NEW n \in Nat, NEW s, s \subseteq 0..n, s # {}
  PROVE  \E x \in s : \A y \in s : y <= x
<1> DEFINE above == {x..n : x \in s}
<1>1. IsWellFoundedOn(StrictSubsetOrdering(0..n), SUBSET (0..n))
  <2>1. IsFiniteSet(0..n)
    BY FS_Interval
  <2>2. FiniteSubsetsOf(0..n) = SUBSET (0..n)
    BY <2>1, FS_FiniteSubsetsOfFinite
  <2> QED BY <2>2, FS_StrictSubsetOrderingWellFounded
<1>2. above \subseteq SUBSET (0..n)
  OBVIOUS
<1>3. PICK z \in above : TRUE
  OBVIOUS
<1> HIDE DEF above
<1>4. PICK a \in above : \A b \in above : ~(<<b, a>> \in StrictSubsetOrdering(0..n))
  BY <1>1, <1>2, <1>3, WFMin
<1> USE DEF above
<1>5. PICK x \in s : a = x..n
  OBVIOUS
<1>6. ASSUME NEW y \in s, x < y PROVE FALSE
  <2>1. y..n \subseteq x..n /\ y..n # x..n
    BY <1>6
  <2>2. <<y..n, x..n>> \in StrictSubsetOrdering(0..n)
    BY <2>1 DEF StrictSubsetOrdering
  <2> QED BY <1>4, <1>5, <2>2
<1> QED BY <1>6

LEMMA HasLeast ==
  ASSUME NEW n \in Nat, NEW s, s \subseteq 0..n, s # {}
  PROVE  \E x \in s : \A y \in s : x <= y
<1> DEFINE r == {n - x : x \in s}
<1>1. r \subseteq 0..n
  OBVIOUS
<1>2. PICK w \in r : TRUE
  OBVIOUS
<1> HIDE DEF r
<1>3. PICK z \in r : \A y \in r : y <= z
  BY <1>1, <1>2, HasGreatest
<1> USE DEF r
<1>4. PICK x \in s : z = n - x
  OBVIOUS
<1>5. \A y \in s : n - y <= z
  BY <1>3
<1> QED BY <1>4, <1>5

LEMMA MinIs ==
  ASSUME NEW n \in Nat, NEW s, s \subseteq 0..n, s # {}
  PROVE  Min(s) \in s /\ \A x \in s : Min(s) <= x
<1>1. \E x \in s : \A y \in s : x <= y
  BY HasLeast
<1> QED BY <1>1 DEF Min

LEMMA HighestIs ==
  ASSUME NEW s, s \subseteq 0..MaxUid
  PROVE  Highest(s) \in s \cup {0} /\ \A x \in s : x <= Highest(s)
<1>1. MaxUid \in Nat /\ s \cup {0} \subseteq 0..MaxUid /\ s \cup {0} # {}
  BY Numbers
<1>2. \E x \in s \cup {0} : \A y \in s \cup {0} : y <= x
  BY <1>1, HasGreatest
<1>3. \E x \in s \cup {0} : \A y \in s \cup {0} : x >= y
  BY <1>1, <1>2
<1> QED BY <1>3 DEF Highest, Max

LEMMA LowerIs ==
  ASSUME NEW f \in 0..MaxUid
  PROVE  Lower(f) \in 1..MaxUid + 1 /\ Lower(f) <= f + 1 /\ Lower(f) - 1 \in 0..f
<1>1. \E x \in {1, f - ChunkSize + 1} \cup {0} : \A y \in {1, f - ChunkSize + 1} \cup {0} : y <= x
  <2>1. CASE f - ChunkSize + 1 >= 1
    BY <2>1, Numbers
  <2>2. CASE f - ChunkSize + 1 < 1
    BY <2>2, Numbers
  <2> QED BY <2>1, <2>2, Numbers
<1>2. /\ Lower(f) \in {1, f - ChunkSize + 1, 0}
      /\ 1 <= Lower(f)
  BY <1>1, Numbers DEF Lower, Highest, Max
<1> QED BY <1>2, Numbers

\* A batch is a lower part of what is still to fetch.
LEMMA LowestIs ==
  ASSUME NEW s, s \subseteq Uids, NEW n \in Nat
  PROVE  /\ Lowest(s, n) \subseteq s
         /\ \A u \in Lowest(s, n) : \A v \in s \ Lowest(s, n) : u < v
<1> SUFFICES ASSUME NEW u \in Lowest(s, n), NEW v \in s, v \notin Lowest(s, n), ~(u < v)
             PROVE  FALSE
  BY DEF Lowest
<1> DEFINE under(x) == {w \in s : w < x}
<1>1. IsFiniteSet(Uids)
  BY Numbers, FS_Interval DEF Uids
<1>2. IsFiniteSet(under(u)) /\ under(v) \subseteq under(u)
  <2>1. under(u) \subseteq Uids
    OBVIOUS
  <2>2. IsFiniteSet(under(u))
    BY <1>1, <2>1, FS_Subset
  <2>3. u \in Int /\ v \in Int /\ \A w \in s : w \in Int
    BY DEF Lowest, Uids
  <2>4. ASSUME NEW w \in s, w < v PROVE w < u
    BY <2>3, <2>4
  <2>5. under(v) \subseteq under(u)
    BY <2>4
  <2> QED BY <2>2, <2>5
<1>3. Cardinality(under(v)) <= Cardinality(under(u)) /\ IsFiniteSet(under(v))
  BY <1>2, FS_Subset
<1>4. Cardinality(under(u)) < n /\ ~(Cardinality(under(v)) < n)
  BY DEF Lowest
<1>5. Cardinality(under(u)) \in Nat /\ Cardinality(under(v)) \in Nat
  BY <1>2, <1>3, FS_CardinalityType
<1> QED BY <1>3, <1>4, <1>5

\* What an answer holds was there, and all of it unless the server may omit.
LEMMA AnswerIs ==
  ASSUME NEW kind, NEW asked, NEW got \in Answers(kind, asked)
  PROVE  /\ DOMAIN got \subseteq asked \cap DOMAIN server.mail
         /\ \A u \in DOMAIN got : got[u] = server.mail[u]
         /\ kind \notin MayOmit => DOMAIN got = asked \cap DOMAIN server.mail
BY DEF Answers


-----------------------------------------------------------------------------
(* Types.                                                                  *)

LEMMA FlagBound == MaxModseq \in Nat /\ MaxUid + MaxEvents + 1 <= MaxModseq
<1>1. MaxUid <= MaxUid * MaxEpoch
  BY Numbers
<1>2. MaxUid * MaxEpoch \in Nat
  BY Numbers
<1> QED BY <1>1, <1>2, Numbers DEF MaxModseq

LEMMA NoRunOK == RunOK(NoRun)
BY Numbers DEF NoRun, RunOK, Uids, Epochs

LEMMA TypedIs == Typed => TypeOK
<1>1. RunsOK => RunType
  BY DEF RunsOK, RunType, RunOK
<1> QED BY <1>1, Zenon DEF Typed, TypeOK, ServerOK, RowOK, RunsOK

\* What the steps of the server and the budget do.
LEMMA SpendIs ==
  ASSUME ServerOK, NEW b \in {"uids", "events", "requests"}, Spend(b), UNCHANGED server
  PROVE  ServerOK' /\ budget'.lost = budget.lost
<1>1. /\ DOMAIN budget' = DOMAIN budget /\ budget[b] > 0 /\ budget'[b] = budget[b] - 1
      /\ \A c \in {"uids", "events", "requests", "lost"} : c # b => budget'[c] = budget[c]
  BY DEF ServerOK, Spend
<1>2. server.next \in Int /\ server.modseq \in Int
  BY FlagBound DEF ServerOK, ServerType, Flags
<1>3. ServerType'
  BY DEF ServerOK, ServerType
<1>4. /\ budget'.uids \in Nat /\ budget'.events \in Nat /\ budget'.requests \in Nat /\ budget'.lost \in Nat
      /\ budget'.uids <= budget.uids /\ budget'.events <= budget.events /\ budget'.lost = budget.lost
  BY <1>1 DEF ServerOK
<1>5. server.next + budget'.uids <= MaxUid + 1
  BY <1>2, <1>4, Numbers DEF ServerOK
<1>6. server.modseq + budget'.uids + budget'.events <= MaxUid + MaxEvents + 1
  BY <1>2, <1>4, Numbers DEF ServerOK
<1> QED BY <1>1, <1>3, <1>4, <1>5, <1>6 DEF ServerOK

LEMMA RetryIs ==
  ASSUME ServerOK, UNCHANGED server, queued \subseteq Kinds, NEW k \in Kinds, Retry(k)
  PROVE  ServerOK' /\ budget'.lost = budget.lost /\ queued' \subseteq Kinds
BY SpendIs DEF Retry, Enqueue, ServerOK, ServerType

LEMMA LeaveIs ==
  ASSUME RunsOK, NEW k \in Kinds, Leave(k), queued' \subseteq Kinds
  PROVE  /\ RunsOK' /\ pc'[k] = "idle" /\ run'[k] = NoRun
         /\ lock' = IF lock = k THEN "none" ELSE lock
         /\ \A j \in Processes : j # k => pc'[j] = pc[j]
         /\ \A j \in Kinds : j # k => run'[j] = run[j]
BY NoRunOK DEF RunsOK, ProcessType, Leave, Goto, Processes, Kinds, Steps, Reading

\* A step of p to the label l, with the locals r if p is a handler.
Moves(p, l) ==
  /\ pc' = [pc EXCEPT ![p] = l]
  /\ DOMAIN run' = Kinds /\ \A j \in Kinds : j # p => run'[j] = run[j]
LEMMA MovesIs ==
  ASSUME RunsOK, NEW p \in Processes, NEW l \in Steps, Moves(p, l),
         lock' \in Kinds \cup {"none"}, queued' \subseteq Kinds,
         p \in Kinds => RunOK(run'[p]) /\ (l \in Reading \cup {"follow", "more"} => run'[p].epoch # 0)
  PROVE  /\ RunsOK' /\ pc'[p] = l
         /\ \A j \in Processes : j # p => pc'[j] = pc[j]
BY DEF RunsOK, ProcessType, Moves, Processes, Kinds

LEMMA UnchangedOK ==
  /\ UNCHANGED <<server, budget>> /\ ServerOK => ServerOK'
  /\ UNCHANGED box /\ RowOK => RowOK'
  /\ UNCHANGED local /\ LocalType => LocalType'
  /\ UNCHANGED <<alerts, window>> /\ HistoryType => HistoryType'
  /\ UNCHANGED <<queued, lock, pc, run>> /\ RunsOK => RunsOK'
BY DEF ServerOK, ServerType, RowOK, BoxType, LocalType, HistoryType, RunsOK, ProcessType

LEMMA EnvironmentTyped ==
  ASSUME Typed, Environment
  PROVE  Typed' /\ budget'.lost = budget.lost
<1> USE Numbers, FlagBound, UnchangedOK DEF Typed, program
<1>1. CASE Arrive
  <2>1. ServerOK' /\ budget'.lost = budget.lost
    BY <1>1 DEF Arrive, Spend, ServerOK, ServerType, Flags
  <2> QED BY <1>1, <2>1 DEF Arrive
<1>2. CASE ChangeFlags
  <2>1. ServerOK' /\ budget'.lost = budget.lost
    BY <1>2 DEF ChangeFlags, Spend, ServerOK, ServerType, Flags
  <2> QED BY <1>2, <2>1 DEF ChangeFlags
<1>3. CASE Expunge
  <2>1. ServerOK' /\ budget'.lost = budget.lost
    BY <1>3 DEF Expunge, Spend, ServerOK, ServerType, Flags
  <2> QED BY <1>3, <2>1 DEF Expunge
<1>4. CASE Renumber
  <2>1. PICK n \in {i \in 1..2 : i <= budget.uids + 1} :
          /\ server' = [epoch |-> server.epoch + 1, next |-> n, modseq |-> server.modseq,
                        mail |-> [u \in 1..n - 1 |-> server.modseq]]
          /\ budget' = [budget EXCEPT !.uids = @ - n + 1]
    BY <1>4 DEF Renumber
  <2>2. /\ server'.epoch = server.epoch + 1 /\ server'.next = n /\ server'.modseq = server.modseq
        /\ server'.mail = [u \in 1..n - 1 |-> server.modseq]
        /\ DOMAIN server' = {"epoch", "next", "modseq", "mail"}
    BY <2>1
  <2>3. server.epoch < MaxEpoch
    BY <1>4 DEF Renumber
  <2>4. n \in Int /\ n >= 1 /\ n <= budget.uids + 1 /\ server.modseq \in Flags /\ server.modseq >= 1
    BY FlagBound DEF ServerOK, ServerType, Flags
  <2>5. /\ budget'.uids = budget.uids - n + 1 /\ budget'.events = budget.events
        /\ budget'.requests = budget.requests /\ budget'.lost = budget.lost
        /\ DOMAIN budget' = DOMAIN budget
    BY <2>1 DEF ServerOK
  <2>6. n <= MaxUid + 1 /\ n + budget'.uids <= MaxUid + 1 /\ budget'.uids \in Nat
    BY <2>4, <2>5, Numbers DEF ServerOK, ServerType
  <2>7. server'.epoch \in Epochs
    <3>1. server.epoch \in Epochs
      BY DEF ServerOK, ServerType
    <3>2. server.epoch + 1 \in Epochs
      BY <2>3, <3>1, Numbers DEF Epochs
    <3> QED BY <2>2, <3>2
  <2>8. \A u \in 1..n - 1 : server.modseq \in 1..server.modseq
    BY <2>4 DEF Flags
  <2>9. ServerType'
    BY <2>2, <2>4, <2>6, <2>7, <2>8 DEF ServerType
  <2>10. server.modseq + budget'.uids + budget'.events <= MaxUid + MaxEvents + 1
    BY <2>4, <2>5, Numbers DEF ServerOK, Flags
  <2>11. ServerOK'
    BY <2>2, <2>5, <2>6, <2>9, <2>10 DEF ServerOK
  <2> QED BY <1>4, <2>5, <2>11 DEF Renumber
<1>5. CASE Toggle
  <2>1. ServerOK' /\ budget'.lost = budget.lost
    BY <1>5, SpendIs DEF Toggle
  <2>2. RowOK'
    BY <1>5 DEF Toggle, RowOK, BoxType
  <2> QED BY <1>5, <2>1, <2>2 DEF Toggle
<1> QED BY <1>1, <1>2, <1>3, <1>4, <1>5 DEF Environment

LEMMA StoredOK ==
  ASSUME LocalType, NEW e \in Epochs, NEW got, DOMAIN got \subseteq Uids,
         \A u \in DOMAIN got : got[u] \in Flags, NEW known \in BOOLEAN, local' = Stored(e, got, known)
  PROVE  LocalType'
<1>1. DOMAIN local' = DOMAIN local \cup {<<e, u>> : u \in DOMAIN got}
  BY DEF Stored
<1>2. DOMAIN local' \subseteq Epochs \X Uids
  BY <1>1 DEF LocalType
<1>3. ASSUME NEW p \in DOMAIN local' PROVE local'[p] \in Placement
  BY <1>1, <1>2 DEF LocalType, Stored, Placement
<1> QED BY <1>2, <1>3 DEF LocalType

LEMMA ServerSets ==
  ASSUME ServerOK
  PROVE  /\ DOMAIN server.mail \subseteq Uids /\ InWindow \subseteq Uids
         /\ \A u \in DOMAIN server.mail : server.mail[u] \in Flags
         /\ server.next - 1 \in Uids \cup {0} /\ server.next \in Int
         /\ \A u \in DOMAIN server.mail : u < server.next
         /\ \A u \in DOMAIN server.mail : server.mail[u] <= server.modseq
         /\ server.epoch \in Epochs /\ server.modseq \in Flags
<1>1. 1..server.next - 1 \subseteq Uids /\ server.next - 1 \in Uids \cup {0} /\ server.next \in Int
  BY Numbers DEF ServerOK, ServerType, Uids
<1>2. 1..server.modseq \subseteq Flags /\ server.modseq \in Int
  BY FlagBound DEF ServerOK, ServerType, Flags
<1> QED BY <1>1, <1>2 DEF ServerOK, ServerType, InWindow

LEMMA FetchTyped ==
  ASSUME Typed, NEW k \in {"recent", "delta"}, NEW kind, Fetch(k, kind)
  PROVE  Typed' /\ budget'.lost = budget.lost
<1> USE DEF Typed
<1>1. /\ k \in Kinds /\ k \in Processes /\ RunOK(run[k]) /\ DOMAIN run = Kinds /\ run[k].epoch # 0
      /\ lock' \in Kinds \cup {"none"} /\ queued' \subseteq Kinds
  BY DEF Fetch, Kinds, Processes, RunsOK, ProcessType, Reading
<1>2. PICK got \in Answers(kind, Batch(k)) : run' = [run EXCEPT ![k].got = got]
  BY DEF Fetch
<1>3. DOMAIN got \subseteq DOMAIN server.mail /\ \A u \in DOMAIN got : got[u] = server.mail[u]
  BY DEF Answers
<1>4. DOMAIN got \subseteq Uids /\ \A u \in DOMAIN got : got[u] \in Flags
  BY <1>3, ServerSets
<1>5. RunOK(run'[k]) /\ run'[k].epoch # 0
  BY <1>1, <1>2, <1>4 DEF RunOK
<1>6. Moves(k, "store")
  BY <1>1, <1>2 DEF Fetch, Moves, Goto
<1> QED BY <1>1, <1>5, <1>6, MovesIs, UnchangedOK DEF Fetch, Steps

\* A row of another epoch forgets everything but its first two columns.
LEMMA ForgottenIs ==
  ASSUME RowOK, NEW e
  PROVE  LET b == Forgotten(box, e)
         IN /\ DOMAIN b = DOMAIN box /\ b.ready = box.ready /\ b.recent = box.recent /\ b.none = box.none
            /\ b.epoch = e /\ b.delta = "not_started" /\ b.deltaEpoch = 0 /\ b.seen = 0 /\ b.modseq = 0
            /\ b.backfill = "not_started" /\ b.backfillEpoch = 0 /\ b.frontier = 0
BY DEF RowOK, Forgotten

LEMMA RecentTyped ==
  ASSUME Typed, Recent
  PROVE  Typed' /\ budget'.lost = budget.lost
<1> USE UnchangedOK, Switches DEF Typed, Goto, Throws
<1> DEFINE k == "recent"
<1>0. /\ k \in Kinds /\ k \in Processes /\ RunOK(run[k]) /\ DOMAIN run = Kinds /\ LocalType
      /\ lock \in Kinds \cup {"none"} /\ queued \subseteq Kinds
  BY DEF Kinds, Processes, RunsOK, ProcessType
<1>1. CASE RecentStart
  <2>1. RowOK'
    BY <1>1 DEF RecentStart, RowOK, BoxType
  <2>2. CASE box.ready
    <3>1. Moves(k, "select")
      BY <1>0, <1>1, <2>2 DEF RecentStart, Moves
    <3>2. RunOK(run'[k])
      BY <1>0, <1>1, <2>2 DEF RecentStart, RunOK, RowOK, BoxType
    <3> QED BY <1>0, <1>1, <2>1, <3>1, <3>2, MovesIs DEF RecentStart, Steps, Reading
  <2>3. CASE ~box.ready
    <3>1. Moves(k, "caught") /\ RunOK(run'[k])
      BY <1>0, <1>1, <2>3 DEF RecentStart, Moves
    <3> QED BY <1>0, <1>1, <2>1, <3>1, MovesIs DEF RecentStart, Steps, Reading
  <2> QED BY <2>2, <2>3
<1>2. CASE RecentSelect
  <2>1. RowOK' /\ LocalType'
    BY <1>2, ServerSets DEF RecentSelect, RowOK, BoxType, LocalType, Forgotten
  <2>2. Moves(k, "fetch")
    BY <1>0, <1>2 DEF RecentSelect, Moves
  <2>3. RunOK(run'[k]) /\ run'[k].epoch # 0
    BY <1>0, <1>2, ServerSets DEF RecentSelect, RunOK, Epochs
  <2> QED BY <1>0, <1>2, <2>1, <2>2, <2>3, MovesIs DEF RecentSelect, Steps
<1>3. CASE RecentFetch
  BY <1>3, FetchTyped DEF RecentFetch
<1>4. CASE RecentStore
  <2>1. run[k].epoch \in Epochs
    BY <1>0, <1>4 DEF RecentStore, RunsOK, RunOK, Reading
  <2>2. LocalType'
    BY <1>0, <1>4, <2>1, StoredOK DEF RecentStore, RunOK
  <2>3. RunOK(run'[k]) /\ run'[k].epoch # 0
    BY <1>0, <1>4, <2>1 DEF RecentStore, RunOK, Epochs
  <2>4. Moves(k, "fetch")
    BY <1>0, <1>4 DEF RecentStore, Moves
  <2> QED BY <1>0, <1>4, <2>2, <2>3, <2>4, MovesIs DEF RecentStore, Steps
<1>5. CASE RecentFinish
  <2>1. RowOK'
    BY <1>0, <1>5 DEF RecentFinish, RowOK, BoxType, RunOK
  <2>2. run[k].epoch \in Epochs
    BY <1>0, <1>5 DEF RecentFinish, RunsOK, RunOK, Reading
  <2>3. LocalUids(run[k].epoch) \subseteq Uids
    BY DEF LocalUids
  <2>4. 1..Highest(LocalUids(run[k].epoch)) \subseteq Uids
    BY <2>3, HighestIs, Numbers DEF Uids
  <2>5. HistoryType'
    BY <1>5, <2>2, <2>4 DEF RecentFinish, HistoryType
  <2>6. Moves(k, "follow") /\ RunOK(run'[k]) /\ run'[k].epoch # 0
    BY <1>0, <1>5, <2>2, Numbers DEF RecentFinish, Moves, Epochs
  <2> QED BY <1>0, <1>5, <2>1, <2>5, <2>6, MovesIs DEF RecentFinish, Steps
<1>6. CASE RecentFollow
  <2>1. queued' \subseteq Kinds
    BY <1>0, <1>6 DEF RecentFollow, Enqueue, Kinds
  <2> QED BY <1>0, <1>6, <2>1, LeaveIs DEF RecentFollow
<1>7. CASE RecentCaught
  <2>1. RowOK'
    BY <1>7 DEF RecentCaught, RowOK, BoxType
  <2>2. ServerOK' /\ budget'.lost = budget.lost /\ queued' \subseteq Kinds
    BY <1>0, <1>7, RetryIs DEF RecentCaught
  <2> QED BY <1>0, <1>7, <2>1, <2>2, LeaveIs DEF RecentCaught
<1> QED BY <1>1, <1>2, <1>3, <1>4, <1>5, <1>6, <1>7 DEF Recent

LEMMA DeltaTyped ==
  ASSUME Typed, Delta
  PROVE  Typed' /\ budget'.lost = budget.lost
<1> USE UnchangedOK, Switches DEF Typed, Goto, Throws
<1> DEFINE k == "delta"
<1>0. /\ k \in Kinds /\ k \in Processes /\ RunOK(run[k]) /\ DOMAIN run = Kinds /\ LocalType
      /\ lock \in Kinds \cup {"none"} /\ queued \subseteq Kinds
  BY DEF Kinds, Processes, RunsOK, ProcessType
<1>1. CASE DeltaStart
  <2>1. CASE box.ready /\ box.recent = "success"
    <3>0. box' = [box EXCEPT !.delta = "running"]
      BY <1>1, <2>1 DEF DeltaStart
    <3>1. RowOK'
      BY <3>0 DEF RowOK, BoxType
    <3>2. Moves(k, "select") /\ RunOK(run'[k])
      BY <1>0, <1>1, <2>1 DEF DeltaStart, Moves
    <3> QED BY <1>0, <1>1, <2>1, <3>1, <3>2, MovesIs DEF DeltaStart, Steps, Reading
  <2>2. CASE ~(box.ready /\ box.recent = "success")
    BY <1>0, <1>1, <2>2, LeaveIs DEF DeltaStart, Done
  <2> QED BY <2>1, <2>2
<1>2. CASE DeltaSelect
  <2> DEFINE e == server.epoch
             first == box.deltaEpoch = 0
             empty == first /\ box.none
             seen == IF first THEN FirstSeen(e) ELSE box.seen
  <2>1. seen \in Uids \cup {0} /\ LocalUids(e) \subseteq Uids /\ first \in BOOLEAN /\ empty \in BOOLEAN
    <3>1. LocalUids(e) \subseteq Uids
      BY DEF LocalUids
    <3>2. FirstSeen(e) \in Uids \cup {0}
      BY <3>1, HighestIs, Numbers DEF FirstSeen, Uids
    <3> QED BY <3>1, <3>2 DEF RowOK, BoxType
  <2>2. CASE box.epoch # e \/ (~first /\ box.deltaEpoch # e)
    <3>0. local' = <<>> /\ box' = [Forgotten(box, e) EXCEPT !.recent = "not_started"]
      BY <1>2, <2>2 DEF DeltaSelect
    <3>1. RowOK' /\ LocalType'
      <4>1. e \in Epochs
        BY ServerSets
      <4>2. /\ DOMAIN box' = DOMAIN box /\ box'.ready = box.ready /\ box'.recent = "not_started" /\ box'.none = box.none
            /\ box'.epoch = e /\ box'.delta = "not_started" /\ box'.deltaEpoch = 0 /\ box'.seen = 0 /\ box'.modseq = 0
            /\ box'.backfill = "not_started" /\ box'.backfillEpoch = 0 /\ box'.frontier = 0
        BY <3>0, ForgottenIs DEF RowOK
      <4> QED BY <3>0, <4>1, <4>2 DEF RowOK, BoxType, LocalType
    <3>2. Moves(k, "request") /\ RunOK(run'[k])
      BY <1>0, <1>2, <2>2 DEF DeltaSelect, Moves
    <3> QED BY <1>0, <1>2, <3>1, <3>2, MovesIs DEF DeltaSelect, Steps, Reading
  <2>3. CASE ~(box.epoch # e \/ (~first /\ box.deltaEpoch # e))
    <3> DEFINE r == [NoRun EXCEPT !.epoch = e, !.seen = seen, !.known = LocalUids(e),
                                  !.base = IF first THEN 0 ELSE box.modseq, !.top = server.modseq,
                                  !.empty = empty, !.frontier = server.next - 1,
                                  !.todo = IF empty THEN InWindow ELSE {}]
               l == IF empty THEN "fetch" ELSE "search"
    <3>1. /\ local' = local
          /\ box' = IF first /\ ~empty THEN [box EXCEPT !.deltaEpoch = e, !.seen = seen, !.modseq = 0] ELSE box
          /\ run' = [run EXCEPT ![k] = r]
          /\ pc' = [pc EXCEPT ![k] = l]
      BY <1>2, <2>3 DEF DeltaSelect
    <3>2. e \in Epochs /\ e # 0 /\ box.modseq \in Flags \cup {0}
      BY ServerSets DEF Epochs, RowOK, BoxType
    <3>3. RowOK' /\ LocalType'
      BY <2>1, <3>1, <3>2 DEF RowOK, BoxType
    <3>4. RunOK(r) /\ r.epoch = e
      BY <2>1, <3>2, NoRunOK, ServerSets DEF RunOK
    <3> HIDE DEF r
    <3>5. Moves(k, l) /\ run'[k] = r /\ l \in Steps
      BY <1>0, <3>1 DEF Moves, Steps
    <3> QED BY <1>0, <1>2, <3>2, <3>3, <3>4, <3>5, MovesIs DEF DeltaSelect
  <2> QED BY <2>2, <2>3
<1>3. CASE DeltaAdvance
  <2>1. run[k].epoch \in Epochs /\ run[k].epoch # 0
    BY <1>0, <1>3 DEF DeltaAdvance, RunsOK, RunOK, Reading
  <2>2. RowOK'
    BY <1>0, <1>3, <2>1 DEF DeltaAdvance, RowOK, BoxType, RunOK
  <2>3. Moves(k, "search") /\ RunOK(run'[k]) /\ run'[k].epoch # 0
    BY <1>0, <1>3, <2>1 DEF DeltaAdvance, Moves, RunOK
  <2> QED BY <1>0, <1>3, <2>2, <2>3, MovesIs DEF DeltaAdvance, Steps
<1>4. CASE DeltaSearch
  <2>1. Moves(k, "fetch") /\ RunOK(run'[k]) /\ run'[k].epoch # 0
    BY <1>0, <1>4, ServerSets DEF DeltaSearch, Moves, RunOK, RunsOK, Reading
  <2> QED BY <1>0, <1>4, <2>1, MovesIs DEF DeltaSearch, Steps
<1>5. CASE DeltaFetch
  BY <1>5, FetchTyped DEF DeltaFetch
<1>6. CASE DeltaStore
  <2> DEFINE r == run[k]
             left == Batch(k) \ DOMAIN r.got
             gap == IF r.gap = 0 /\ left # {} THEN Min(left) ELSE r.gap
             through == Through(r, gap)
  <2>1. r.epoch \in Epochs /\ r.epoch # 0
    BY <1>0, <1>6 DEF DeltaStore, RunsOK, RunOK, Reading
  <2>2. gap \in Uids \cup {0} /\ through \in Uids \cup {0}
    <3>1. left \subseteq 0..MaxUid /\ left \subseteq Uids /\ MaxUid \in Nat
      BY <1>0, Numbers DEF Batch, Lowest, RunOK, Uids
    <3>2. left # {} => Min(left) \in left
      BY <3>1, MinIs
    <3>3. gap \in Uids \cup {0}
      BY <1>0, <3>1, <3>2 DEF RunOK
    <3> DEFINE s == {r.seen} \cup {u \in DOMAIN r.got : gap = 0 \/ u < gap}
    <3>4. s \subseteq Uids \cup {0} /\ through = Highest(s) /\ Uids \cup {0} \subseteq 0..MaxUid
      BY <1>0, Numbers DEF RunOK, Uids, Through
    <3> HIDE DEF s, through
    <3>5. Highest(s) \in s \cup {0}
      BY <3>4, HighestIs
    <3> QED BY <3>3, <3>4, <3>5
  <2> HIDE DEF gap, through
  <2>3. LocalType'
    BY <1>0, <1>6, <2>1, StoredOK DEF DeltaStore, RunOK
  <2>4. RowOK'
    BY <1>6, <2>2 DEF DeltaStore, RowOK, BoxType, gap, through
  <2>5. HistoryType'
    BY <1>0, <1>6, <2>1 DEF DeltaStore, HistoryType, Announced, RunOK
  <2>6. Moves(k, "fetch") /\ RunOK(run'[k]) /\ run'[k].epoch # 0
    <3>1. run' = [run EXCEPT ![k] = [r EXCEPT !.todo = @ \ Batch(k), !.got = <<>>, !.gap = IF r.empty THEN 0 ELSE gap,
                                              !.seen = IF r.empty \/ r.got = <<>> THEN @ ELSE through]]
      BY <1>6 DEF DeltaStore, gap, through
    <3>2. Moves(k, "fetch")
      BY <1>0, <1>6, <3>1 DEF DeltaStore, Moves
    <3> QED BY <1>0, <2>1, <2>2, <3>1, <3>2 DEF RunOK
  <2> QED BY <1>0, <1>6, <2>3, <2>4, <2>5, <2>6, MovesIs DEF DeltaStore, Steps
<1>7. CASE DeltaFetchFlags
  <2>1. PICK asked \in SUBSET DOMAIN server.mail : run' = [run EXCEPT ![k].got = [u \in asked |-> server.mail[u]]]
    BY <1>7 DEF DeltaFetchFlags
  <2>2. Moves(k, "flags") /\ RunOK(run'[k]) /\ run'[k].epoch # 0
    BY <1>0, <1>7, <2>1, ServerSets DEF DeltaFetchFlags, Moves, RunOK, RunsOK, Reading
  <2> QED BY <1>0, <1>7, <2>2, MovesIs DEF DeltaFetchFlags, Steps
<1>8. CASE DeltaStoreFlags
  <2>1. LocalType'
    BY <1>0, <1>8 DEF DeltaStoreFlags, LocalType, RunOK, Placement
  <2>2. Moves(k, "removed") /\ RunOK(run'[k]) /\ run'[k].epoch # 0
    BY <1>0, <1>8 DEF DeltaStoreFlags, Moves, RunsOK, Reading
  <2> QED BY <1>0, <1>8, <2>1, <2>2, MovesIs DEF DeltaStoreFlags, Steps
<1>9. CASE DeltaRemove
  <2>1. LocalType'
    BY <1>9 DEF DeltaRemove, LocalType, Without
  <2>2. Moves(k, "complete") /\ RunOK(run'[k]) /\ run'[k].epoch # 0
    BY <1>0, <1>9 DEF DeltaRemove, Moves, RunsOK, Reading
  <2> QED BY <1>0, <1>9, <2>1, <2>2, MovesIs DEF DeltaRemove, Steps
<1>10. CASE DeltaComplete
  <2>1. RowOK'
    BY <1>0, <1>10 DEF DeltaComplete, RowOK, BoxType, RunOK, Checkpoint
  <2>2. CASE Done(k)
    BY <1>0, <1>10, <2>1, <2>2, LeaveIs DEF DeltaComplete, Done
  <2>3. CASE Throws("delta") /\ Spend("events") /\ UNCHANGED <<queued, lock, run>>
    <3>1. Moves(k, "caught")
      BY <1>0, <2>3 DEF Moves
    <3> QED BY <1>0, <1>10, <2>1, <2>3, <3>1, MovesIs, SpendIs DEF DeltaComplete, Steps, Reading
  <2> QED BY <1>10, <2>2, <2>3 DEF DeltaComplete
<1>11. CASE DeltaCaught
  <2>1. RowOK'
    BY <1>11 DEF DeltaCaught, RowOK, BoxType
  <2>2. ServerOK' /\ budget'.lost = budget.lost /\ queued' \subseteq Kinds
    BY <1>0, <1>11, RetryIs DEF DeltaCaught
  <2> QED BY <1>0, <1>11, <2>1, <2>2, LeaveIs DEF DeltaCaught
<1> QED BY <1>1, <1>2, <1>3, <1>4, <1>5, <1>6, <1>7, <1>8, <1>9, <1>10, <1>11 DEF Delta

LEMMA BackfillTyped ==
  ASSUME Typed, Backfill
  PROVE  Typed' /\ budget'.lost = budget.lost
<1> USE UnchangedOK, Switches DEF Typed, Goto, Throws
<1> DEFINE k == "backfill"
<1>0. /\ k \in Kinds /\ k \in Processes /\ RunOK(run[k]) /\ DOMAIN run = Kinds /\ LocalType
      /\ lock \in Kinds \cup {"none"} /\ queued \subseteq Kinds
  BY DEF Kinds, Processes, RunsOK, ProcessType
<1>1. CASE BackfillStart
  <2>1. CASE Urgent \/ ~Eligible \/ (box.backfillEpoch = box.epoch /\ box.backfill = "complete")
    BY <1>0, <1>1, <2>1, LeaveIs DEF BackfillStart, Done
  <2>2. CASE ~(Urgent \/ ~Eligible \/ (box.backfillEpoch = box.epoch /\ box.backfill = "complete"))
    <3>1. Moves(k, "select") /\ RunOK(run'[k])
      <4>1. /\ box.epoch \in Epochs \cup {0} /\ box.frontier \in Uids \cup {0}
            /\ 0 \in Uids \cup {0} /\ 1 \in Uids \cup {0}
        BY Numbers DEF RowOK, BoxType, Uids
      <4>2. Moves(k, "select")
        BY <1>0, <1>1, <2>2 DEF BackfillStart, Moves
      <4>3. RunOK(run'[k])
        BY <1>0, <1>1, <2>2, <4>1 DEF BackfillStart, RunOK
      <4> QED BY <4>2, <4>3
    <3> QED BY <1>0, <1>1, <2>2, <3>1, MovesIs DEF BackfillStart, Steps, Reading
  <2> QED BY <2>1, <2>2
<1>2. CASE BackfillSelect
  <2>1. CASE server.epoch # run[k].epoch
    <3>0. box' = [box EXCEPT !.backfill = "not_started", !.backfillEpoch = 0, !.frontier = 0]
      BY <1>2, <2>1 DEF BackfillSelect
    <3>1. RowOK'
      BY <3>0 DEF RowOK, BoxType
    <3>2. Moves(k, "request") /\ RunOK(run'[k])
      BY <1>0, <1>2, <2>1 DEF BackfillSelect, Moves
    <3> QED BY <1>0, <1>2, <3>1, <3>2, MovesIs DEF BackfillSelect, Steps, Reading
  <2>2. CASE server.epoch = run[k].epoch
    <3> DEFINE from == IF run[k].seen = 1 THEN run[k].frontier ELSE server.next - 1
               lower == Lower(from)
    <3>1. from \in Uids \cup {0} /\ lower - 1 \in Uids \cup {0}
      <4>1. from \in Uids \cup {0}
        BY <1>0, ServerSets DEF RunOK
      <4>2. from \in 0..MaxUid
        BY <4>1, Numbers DEF Uids
      <4> HIDE DEF from
      <4>3. lower - 1 \in 0..from
        BY <4>2, LowerIs
      <4> HIDE DEF lower
      <4>4. 0..from \subseteq Uids \cup {0}
        BY <4>2, Numbers DEF Uids
      <4> QED BY <4>1, <4>3, <4>4
    <3>2. /\ box' = IF box.epoch = run[k].epoch
                    THEN [box EXCEPT !.backfill = "running", !.backfillEpoch = run[k].epoch, !.frontier = from]
                    ELSE box
          /\ run' = [run EXCEPT ![k].frontier = from, ![k].seen = lower - 1,
                                ![k].todo = DOMAIN server.mail \cap lower..from]
          /\ pc' = [pc EXCEPT ![k] = "fetch"]
      BY <1>2, <2>2 DEF BackfillSelect
    <3> HIDE DEF from, lower
    <3>3. RowOK'
      BY <1>0, <3>1, <3>2 DEF RowOK, BoxType, RunOK
    <3>4. Moves(k, "fetch")
      BY <1>0, <3>2 DEF Moves
    <3>5. RunOK(run'[k]) /\ run'[k].epoch # 0
      BY <1>0, <2>2, <3>1, <3>2, ServerSets DEF RunOK, Epochs
    <3> QED BY <1>0, <1>2, <3>3, <3>4, <3>5, MovesIs DEF BackfillSelect, Steps
  <2> QED BY <2>1, <2>2
<1>3. CASE BackfillFetch
  <2>1. PICK got \in Answers("backfill", run[k].todo) :
          /\ run' = [run EXCEPT ![k].got = got]
          /\ \E l \in {"store", "caught"} : pc' = [pc EXCEPT ![k] = l]
    BY <1>3 DEF BackfillFetch
  <2>2. PICK l \in {"store", "caught"} : pc' = [pc EXCEPT ![k] = l]
    BY <2>1
  <2>3. DOMAIN got \subseteq DOMAIN server.mail /\ \A u \in DOMAIN got : got[u] = server.mail[u]
    BY DEF Answers
  <2>4. DOMAIN got \subseteq Uids /\ \A u \in DOMAIN got : got[u] \in Flags
    BY <2>3, ServerSets
  <2>5. RunOK(run'[k]) /\ run'[k].epoch # 0
    BY <1>0, <1>3, <2>1, <2>4 DEF BackfillFetch, RunOK, RunsOK, Reading
  <2>6. Moves(k, l)
    BY <1>0, <2>1, <2>2 DEF Moves
  <2> QED BY <1>0, <1>3, <2>2, <2>5, <2>6, MovesIs DEF BackfillFetch, Steps
<1>4. CASE BackfillStore
  <2>1. run[k].epoch \in Epochs /\ run[k].epoch # 0
    BY <1>0, <1>4 DEF BackfillStore, RunsOK, RunOK, Reading
  <2>2. CASE Unmoved(run[k])
    <3>1. LocalType'
      BY <1>0, <1>4, <2>1, <2>2, StoredOK DEF BackfillStore, RunOK
    <3>0. box' = [box EXCEPT !.frontier = run[k].seen,
                             !.backfill = IF run[k].seen = 0 THEN "complete" ELSE "pending"]
      BY <1>4, <2>2 DEF BackfillStore
    <3>2. RowOK'
      BY <1>0, <3>0 DEF RowOK, BoxType, RunOK
    <3>3. Moves(k, "more")
      BY <1>0, <1>4, <2>2 DEF BackfillStore, Moves
    <3>4. RunOK(run'[k]) /\ run'[k].epoch # 0
      BY <1>0, <1>4, <2>1 DEF BackfillStore
    <3> QED BY <1>0, <1>4, <3>1, <3>2, <3>3, <3>4, MovesIs DEF BackfillStore, Steps
  <2>3. CASE ~Unmoved(run[k])
    <3>1. Moves(k, "caught") /\ RunOK(run'[k])
      BY <1>0, <1>4, <2>3 DEF BackfillStore, Moves
    <3> QED BY <1>0, <1>4, <2>3, <3>1, MovesIs DEF BackfillStore, Steps, Reading
  <2> QED BY <2>2, <2>3
<1>5. CASE BackfillMore
  <2>1. queued' \subseteq Kinds
    BY <1>0, <1>5 DEF BackfillMore, Enqueue, Kinds
  <2> QED BY <1>0, <1>5, <2>1, LeaveIs DEF BackfillMore
<1>6. CASE BackfillCaught
  <2>1. RowOK'
    BY <1>6 DEF BackfillCaught, RowOK, BoxType
  <2>2. ServerOK' /\ budget'.lost = budget.lost /\ queued' \subseteq Kinds
    BY <1>0, <1>6, RetryIs DEF BackfillCaught
  <2> QED BY <1>0, <1>6, <2>1, <2>2, LeaveIs DEF BackfillCaught
<1> QED BY <1>1, <1>2, <1>3, <1>4, <1>5, <1>6 DEF Backfill

LEMMA RequestsTyped ==
  ASSUME Typed, Requests
  PROVE  Typed' /\ budget'.lost = budget.lost
<1> USE UnchangedOK DEF Typed, Goto
<1>0. PICK p \in Processes : Request(p) \/ RequestFails(p) \/ Pending(p)
  BY DEF Requests
<1>1. /\ p \in Kinds => RunOK(run[p])
      /\ DOMAIN run = Kinds /\ lock \in Kinds \cup {"none"} /\ queued \subseteq Kinds
  BY DEF RunsOK, ProcessType
<1>2. UNCHANGED run => run' = run
  OBVIOUS
<1>3. CASE Request(p)
  <2>1. Moves(p, "pending") /\ queued' \subseteq Kinds /\ lock' \in Kinds \cup {"none"}
    BY <1>1, <1>3 DEF Request, Moves, Enqueue, Kinds
  <2> QED BY <1>1, <1>3, <2>1, MovesIs DEF Request, Steps, Reading
<1>4. CASE RequestFails(p)
  <2>1. ServerOK' /\ RowOK' /\ budget'.lost = budget.lost
    BY <1>4, SpendIs DEF RequestFails, RowOK, BoxType
  <2> DEFINE l == IF p = "web" THEN "idle" ELSE "throw"
  <2>2. Moves(p, l) /\ l \in Steps /\ l \notin Reading \cup {"follow", "more"}
    BY <1>1, <1>4 DEF RequestFails, Moves, Steps, Reading
  <2> HIDE DEF l
  <2> QED BY <1>1, <1>4, <2>1, <2>2, MovesIs DEF RequestFails
<1>5. CASE Pending(p)
  <2>1. RowOK'
    BY <1>5 DEF Pending, RowOK, BoxType
  <2>2. CASE p = "web"
    <3>1. Moves(p, "idle")
      BY <1>1, <1>5, <2>2 DEF Pending, Moves
    <3> QED BY <1>1, <1>5, <2>1, <2>2, <3>1, MovesIs DEF Pending, Steps, Reading
  <2>3. CASE p # "web"
    <3>1. p \in Kinds /\ Leave(p) /\ UNCHANGED <<queued, budget>>
      BY <1>5, <2>3 DEF Pending, Done, Processes
    <3> QED BY <1>1, <1>5, <2>1, <3>1, LeaveIs DEF Pending
  <2> QED BY <2>2, <2>3
<1> QED BY <1>0, <1>3, <1>4, <1>5

\* The steps of the queues, the pollers and the faults.
Queueing == TakeBackfill \/ WebRequest \/ OtherRequest \/ Polls \/ \E k \in Kinds : Take(k)
Breaking == \E k \in Kinds : Fail(k) \/ Crash(k) \/ Throw(k)
LEMMA QueueingTyped ==
  ASSUME Typed, Queueing
  PROVE  Typed' /\ budget'.lost = budget.lost
<1> USE UnchangedOK DEF Typed, Goto
<1>0. /\ \A k \in Kinds : RunOK(run[k]) /\ k \in Processes
      /\ DOMAIN run = Kinds /\ lock \in Kinds \cup {"none"} /\ queued \subseteq Kinds
  BY DEF RunsOK, ProcessType, Processes
<1>1. ASSUME NEW k \in Kinds, UNCHANGED <<server, box, local, run, alerts, window>>, queued' = queued \ {k},
             \/ UNCHANGED <<lock, pc, budget>>
             \/ UNCHANGED <<lock, pc>> /\ Spend("events")
             \/ lock' = k /\ Goto(k, "start") /\ UNCHANGED budget
      PROVE  Typed' /\ budget'.lost = budget.lost
  <2>1. CASE lock' = k /\ Goto(k, "start") /\ UNCHANGED budget
    <3>1. Moves(k, "start")
      BY <1>0, <1>1, <2>1 DEF Moves
    <3> QED BY <1>0, <1>1, <2>1, <3>1, MovesIs DEF Steps, Reading
  <2>2. CASE UNCHANGED <<lock, pc>> /\ (UNCHANGED budget \/ Spend("events"))
    <3>1. RunsOK'
      BY <1>1, <2>2 DEF RunsOK, ProcessType
    <3> QED BY <1>1, <2>2, <3>1, SpendIs
  <2> QED BY <1>1, <2>1, <2>2
<1>2. CASE \E k \in Kinds : Take(k)
  BY <1>1, <1>2 DEF Take
<1>3. CASE TakeBackfill
  <2>1. "backfill" \in Kinds
    BY DEF Kinds
  <2> QED BY <1>1, <1>3, <2>1 DEF TakeBackfill
<1>4. CASE WebRequest
  <2>1. Moves("web", "request") /\ "web" \in Processes /\ "web" \notin Kinds
    BY <1>0, <1>4 DEF WebRequest, Moves, Processes, Kinds
  <2> QED BY <1>0, <1>4, <2>1, MovesIs, SpendIs DEF WebRequest, Steps
<1>5. CASE OtherRequest \/ Polls
  <2>1. queued' \subseteq Kinds /\ UNCHANGED <<pc, run, lock>>
    BY <1>0, <1>5 DEF OtherRequest, Polls, DeltaPoll, BackfillPoll, Enqueue, Kinds
  <2>2. RunsOK'
    BY <2>1 DEF RunsOK, ProcessType
  <2> QED BY <1>5, <2>2, SpendIs DEF OtherRequest, Polls, DeltaPoll, BackfillPoll
<1> QED BY <1>2, <1>3, <1>4, <1>5 DEF Queueing

LEMMA BreakingTyped ==
  ASSUME Typed, Breaking
  PROVE  Typed' /\ budget'.lost = budget.lost
<1> USE UnchangedOK DEF Typed
<1>0. /\ \A k \in Kinds : RunOK(run[k]) /\ k \in Processes
      /\ DOMAIN run = Kinds /\ lock \in Kinds \cup {"none"} /\ queued \subseteq Kinds
  BY DEF RunsOK, ProcessType, Processes
<1>1. ASSUME NEW k \in Kinds, Fail(k) PROVE Typed' /\ budget'.lost = budget.lost
  <2>1. Moves(k, "caught")
    BY <1>0, <1>1 DEF Fail, Throws, Moves
  <2>2. RunsOK'
    BY <1>0, <1>1, <2>1, MovesIs DEF Fail, Steps, Reading
  <2> QED BY <1>1, <2>2, SpendIs DEF Fail
<1>2. ASSUME NEW k \in Kinds, Crash(k) PROVE Typed' /\ budget'.lost = budget.lost
  <2>1. queued' \subseteq Kinds
    BY <1>0, <1>2 DEF Crash, Enqueue
  <2> QED BY <1>2, <2>1, LeaveIs, SpendIs DEF Crash
<1>3. ASSUME NEW k \in Kinds, Throw(k) PROVE Typed' /\ budget'.lost = budget.lost
  <2>1. ServerOK' /\ budget'.lost = budget.lost /\ queued' \subseteq Kinds
    BY <1>0, <1>3, RetryIs DEF Throw
  <2> QED BY <1>3, <2>1, LeaveIs DEF Throw
<1> QED BY <1>1, <1>2, <1>3 DEF Breaking

LEMMA LoseTyped ==
  ASSUME Typed, LoseSession
  PROVE  Typed' /\ budget'.lost = budget.lost + 1
<1>1. ServerOK' /\ budget'.lost = budget.lost + 1
  BY Numbers, FlagBound DEF Typed, LoseSession, ServerOK, ServerType, Flags
<1>2. RunsOK'
  BY DEF Typed, LoseSession, RunsOK, ProcessType
<1> QED BY <1>1, <1>2, UnchangedOK DEF Typed, LoseSession

LEMMA Splits ==
  Next => Environment \/ Recent \/ Delta \/ Backfill \/ Requests \/ Queueing \/ Breaking \/ LoseSession
BY Zenon DEF Next, Queueing, Breaking, Polls, Faults

LEMMA TypeKeeps ==
  ASSUME Typed, [Next]_vars
  PROVE  Typed' /\ (UNCHANGED vars \/ budget'.lost = budget.lost \/ LoseSession)
<1>1. CASE Next
  BY <1>1, Splits, EnvironmentTyped, RecentTyped, DeltaTyped, BackfillTyped, RequestsTyped, QueueingTyped,
     BreakingTyped, LoseTyped
<1>2. CASE UNCHANGED vars
  BY <1>2, UnchangedOK DEF vars, Typed
<1> QED BY <1>1, <1>2

LEMMA TypeStarts == Init => Typed
<1> SUFFICES ASSUME Init PROVE Typed
  OBVIOUS
<1>1. PICK n \in 1..MaxUid : \E present \in SUBSET (1..n - 1) :
        /\ server = [epoch |-> 1, next |-> n, modseq |-> 1, mail |-> [u \in present |-> 1]]
        /\ budget = [uids |-> MaxUid - n + 1, events |-> MaxEvents, requests |-> MaxRequests, lost |-> 0]
  BY DEF Init
<1>2. ServerOK
  BY <1>1, Numbers, FlagBound DEF ServerOK, ServerType, Epochs, Flags
<1>3. RowOK
  BY Numbers DEF Init, NewBox, RowOK, BoxType
<1>4. RunsOK
  BY NoRunOK DEF Init, RunsOK, ProcessType, Processes, Kinds, Steps, Reading
<1>5. LocalType /\ HistoryType
  BY DEF Init, LocalType, HistoryType
<1> QED BY <1>2, <1>3, <1>4, <1>5 DEF Typed

-----------------------------------------------------------------------------
(* The lock, and the steps that say nothing new.                           *)

\* A step of k's handler: the others stay, the lock is kept until the end.
StepOf(k) ==
  /\ pc[k] # "idle"
  /\ \A j \in Kinds : j # k => pc'[j] = pc[j] /\ run'[j] = run[j]
  /\ lock' = lock \/ (lock' = "none" /\ pc'[k] = "idle")

LEMMA LeaveStep ==
  ASSUME RunsOK, NEW k \in Kinds, pc[k] # "idle", Leave(k)
  PROVE  StepOf(k) /\ pc'[k] = "idle"
BY DEF RunsOK, ProcessType, Leave, Goto, Processes, Kinds, Steps, StepOf

LEMMA MoveStep ==
  ASSUME RunsOK, NEW k \in Kinds, pc[k] # "idle", NEW l, Goto(k, l), UNCHANGED lock,
         UNCHANGED run \/ \E r : run' = [run EXCEPT ![k] = r]
  PROVE  StepOf(k) /\ pc'[k] = l
BY DEF RunsOK, ProcessType, Goto, Processes, Kinds, Steps, StepOf

LEMMA HandlerStep ==
  ASSUME Typed
  PROVE  /\ Recent => StepOf("recent")
         /\ Delta => StepOf("delta")
         /\ Backfill => StepOf("backfill")
<1> USE DEF Typed, RunsOK, ProcessType, Kinds, Processes, StepOf
<1>1. ASSUME Recent PROVE StepOf("recent")
  <2>1. CASE RecentFollow \/ RecentCaught
    BY <2>1, LeaveStep DEF RecentFollow, RecentCaught
  <2>2. CASE RecentStart \/ RecentSelect \/ RecentStore \/ RecentFinish
    BY <2>2 DEF RecentStart, RecentSelect, RecentStore, RecentFinish, Goto, Throws
  <2>3. CASE RecentFetch
    BY <2>3 DEF RecentFetch, Fetch, Goto
  <2> QED BY <1>1, <2>1, <2>2, <2>3 DEF Recent
<1>2. ASSUME Delta PROVE StepOf("delta")
  <2>1. CASE DeltaCaught
    BY <2>1, LeaveStep DEF DeltaCaught
  <2>2. CASE DeltaStart
    BY <2>2, LeaveStep DEF DeltaStart, Goto, Done
  <2>3. CASE DeltaSelect
    BY <2>3 DEF DeltaSelect, Goto
  <2>4. CASE DeltaAdvance \/ DeltaSearch \/ DeltaStore \/ DeltaStoreFlags \/ DeltaRemove
    BY <2>4 DEF DeltaAdvance, DeltaSearch, DeltaStore, DeltaStoreFlags, DeltaRemove, Goto
  <2>5. CASE DeltaFetch
    BY <2>5 DEF DeltaFetch, Fetch, Goto
  <2>6. CASE DeltaFetchFlags
    BY <2>6 DEF DeltaFetchFlags, Goto
  <2>7. CASE DeltaComplete
    BY <2>7, LeaveStep DEF DeltaComplete, Done, Throws
  <2> QED BY <1>2, <2>1, <2>2, <2>3, <2>4, <2>5, <2>6, <2>7 DEF Delta
<1>3. ASSUME Backfill PROVE StepOf("backfill")
  <2>1. CASE BackfillMore \/ BackfillCaught
    BY <2>1, LeaveStep DEF BackfillMore, BackfillCaught
  <2>2. CASE BackfillStart
    BY <2>2, LeaveStep DEF BackfillStart, Goto, Done
  <2>3. CASE BackfillSelect
    BY <2>3 DEF BackfillSelect, Goto
  <2>4. CASE BackfillFetch
    BY <2>4 DEF BackfillFetch, Goto
  <2>5. CASE BackfillStore
    BY <2>5 DEF BackfillStore, Goto, Throws
  <2> QED BY <1>3, <2>1, <2>2, <2>3, <2>4, <2>5 DEF Backfill
<1> QED BY <1>1, <1>2, <1>3

\* While the lock works, the other runs are idle before and after a step of k.
LEMMA StepAlone ==
  ASSUME Typed, Alone, NEW k \in Kinds, StepOf(k)
  PROVE  Alone' /\ lock = k /\ \A j \in Kinds : j # k => pc[j] = "idle" /\ pc'[j] = "idle"
BY DEF Alone, StepOf, Typed, RunsOK, ProcessType, Kinds

\* A step after which row, placements and the runs that read are as before.
QuietRow ==
  /\ box'.epoch = box.epoch /\ box'.deltaEpoch = box.deltaEpoch /\ box'.backfillEpoch = box.backfillEpoch
  /\ box'.seen = box.seen /\ box'.modseq = box.modseq /\ box'.frontier = box.frontier
  /\ \/ box'.backfill = box.backfill
     \/ box'.backfill = "failed" /\ pc["recent"] = "idle" /\ pc'["recent"] = "idle"
QuietRuns ==
  \A k \in Kinds : \/ pc'[k] = pc[k] /\ run'[k] = run[k]
                   \/ pc'[k] \notin Reading \cup {"follow", "select"}
                   \/ k = "delta" /\ pc'[k] = "select"
Quiet == UNCHANGED <<server, local, alerts, window>> /\ QuietRow /\ QuietRuns

LEMMA QuietOutside ==
  ASSUME Typed, Alone, Toggle \/ Requests \/ Queueing \/ Breaking \/ UNCHANGED vars
  PROVE  Quiet /\ Alone'
<1> USE DEF Typed, RunsOK, ProcessType, RowOK, QuietRow, QuietRuns, Quiet
<1>1. CASE UNCHANGED vars
  BY <1>1 DEF vars, Alone
<1>2. CASE Toggle
  BY <1>2 DEF Toggle, program, Alone
<1>3. CASE Requests
  <2>1. PICK p \in Processes : Request(p) \/ RequestFails(p) \/ Pending(p)
    BY <1>3 DEF Requests
  <2>2. UNCHANGED <<server, local, alerts, window>> /\ QuietRow
    BY <2>1 DEF Request, RequestFails, Pending
  <2>3. /\ \A k \in Kinds : k # p => pc'[k] = pc[k] /\ run'[k] = run[k]
        /\ pc[p] # "idle"
        /\ pc'[p] \in {"pending", "idle", "throw"}
        /\ lock' = lock \/ (p \in Kinds /\ StepOf(p))
    <3>1. CASE Request(p)
      BY <3>1 DEF Request, Goto, Processes
    <3>2. CASE RequestFails(p)
      BY <3>2 DEF RequestFails, Goto, Processes
    <3>3. CASE Pending(p) /\ p = "web"
      BY <3>3 DEF Pending, Goto, Processes, Kinds
    <3>4. CASE Pending(p) /\ p # "web"
      <4>1. p \in Kinds /\ pc[p] # "idle" /\ Leave(p)
        BY <3>4 DEF Pending, Done, Processes
      <4> QED BY <4>1, LeaveStep DEF StepOf
    <3> QED BY <2>1, <3>1, <3>2, <3>3, <3>4
  <2>4. QuietRuns
    BY <2>3 DEF Reading
  <2>5. Alone'
    <3>1. CASE lock' = lock
      BY <2>3, <3>1 DEF Alone
    <3>2. CASE p \in Kinds /\ StepOf(p)
      BY <3>2, StepAlone
    <3> QED BY <2>3, <3>1, <3>2
  <2> QED BY <2>2, <2>4, <2>5
<1>4. CASE Queueing
  <2>1. UNCHANGED <<server, local, alerts, window>> /\ QuietRow /\ UNCHANGED run
    BY <1>4 DEF Queueing, Polls, Take, TakeBackfill, WebRequest, OtherRequest, DeltaPoll, BackfillPoll
  <2>2. \/ lock' = lock /\ \A k \in Kinds : pc'[k] = pc[k]
        \/ \E k \in Kinds : lock = "none" /\ lock' = k /\ pc'[k] = "start" /\ \A j \in Kinds : j # k => pc'[j] = pc[j]
    <3>1. CASE OtherRequest \/ Polls
      BY <3>1 DEF OtherRequest, Polls, DeltaPoll, BackfillPoll
    <3>2. CASE WebRequest
      BY <3>2 DEF WebRequest, Goto, Processes, Kinds
    <3>3. CASE TakeBackfill
      BY <3>3 DEF TakeBackfill, Goto, Processes, Kinds, Busy
    <3>4. ASSUME NEW k \in Kinds, Take(k)
          PROVE  \/ lock' = lock /\ \A j \in Kinds : pc'[j] = pc[j]
                 \/ lock = "none" /\ lock' = k /\ pc'[k] = "start" /\ \A j \in Kinds : j # k => pc'[j] = pc[j]
      BY <3>4 DEF Take, Goto, Processes, Busy
    <3> QED BY <1>4, <3>1, <3>2, <3>3, <3>4 DEF Queueing
  <2>3. QuietRuns
    BY <2>1, <2>2 DEF Reading
  <2>4. Alone'
    BY <2>2 DEF Alone, Kinds
  <2> QED BY <2>1, <2>3, <2>4
<1>5. CASE Breaking
  <2>1. PICK k \in Kinds : Fail(k) \/ Crash(k) \/ Throw(k)
    BY <1>5 DEF Breaking
  <2>2. UNCHANGED <<server, local, alerts, window>> /\ QuietRow
    BY <2>1 DEF Fail, Crash, Throw
  <2>3. StepOf(k) /\ pc'[k] \in {"idle", "caught"}
    <3>1. CASE Fail(k)
      BY <3>1 DEF Fail, Working, Throws, StepOf, Processes
    <3>2. CASE Crash(k) \/ Throw(k)
      BY <3>2, LeaveStep DEF Crash, Throw
    <3> QED BY <2>1, <3>1, <3>2
  <2>4. QuietRuns
    BY <2>3 DEF Reading, StepOf
  <2> QED BY <2>2, <2>3, <2>4, StepAlone
<1> QED BY <1>1, <1>2, <1>3, <1>4, <1>5

LEMMA QuietEnds ==
  ASSUME Typed, Alone, RecentFollow \/ RecentCaught \/ DeltaStart \/ DeltaCaught \/ BackfillMore \/ BackfillCaught
  PROVE  Quiet /\ Alone'
<1> USE DEF Typed, RowOK, QuietRow, QuietRuns, Quiet, Reading, StepOf
<1>1. CASE RecentFollow \/ RecentCaught
  <2>1. pc["recent"] # "idle" /\ Leave("recent") /\ "recent" \in Kinds
    BY <1>1 DEF RecentFollow, RecentCaught, Kinds
  <2>2. StepOf("recent") /\ pc'["recent"] = "idle"
    BY <2>1, LeaveStep
  <2>3. UNCHANGED <<server, local, alerts, window>> /\ QuietRow
    BY <1>1 DEF RecentFollow, RecentCaught
  <2> QED BY <2>1, <2>2, <2>3, StepAlone
<1>2. CASE DeltaStart
  <2>1. StepOf("delta") /\ pc'["delta"] \in {"idle", "select"} /\ "delta" \in Kinds
    BY <1>2, HandlerStep DEF DeltaStart, Delta, Kinds, Goto, Done, Leave, RunsOK, ProcessType, Processes
  <2>2. UNCHANGED <<server, local, alerts, window>> /\ QuietRow
    BY <1>2 DEF DeltaStart
  <2> QED BY <2>1, <2>2, StepAlone
<1>3. CASE DeltaCaught
  <2>1. pc["delta"] # "idle" /\ Leave("delta") /\ "delta" \in Kinds
    BY <1>3 DEF DeltaCaught, Kinds
  <2>2. StepOf("delta") /\ pc'["delta"] = "idle"
    BY <2>1, LeaveStep
  <2>3. UNCHANGED <<server, local, alerts, window>> /\ QuietRow
    BY <1>3 DEF DeltaCaught
  <2> QED BY <2>1, <2>2, <2>3, StepAlone
<1>4. CASE BackfillMore \/ BackfillCaught
  <2>1. pc["backfill"] # "idle" /\ Leave("backfill") /\ {"recent", "backfill"} \subseteq Kinds
    BY <1>4 DEF BackfillMore, BackfillCaught, Kinds
  <2>2. StepOf("backfill") /\ pc'["backfill"] = "idle"
    BY <2>1, LeaveStep
  <2>3. pc["recent"] = "idle" /\ pc'["recent"] = "idle" /\ Alone'
    BY <2>1, <2>2, StepAlone
  <2>4. UNCHANGED <<server, local, alerts, window>> /\ QuietRow
    BY <1>4, <2>3 DEF BackfillMore, BackfillCaught
  <2> QED BY <2>1, <2>2, <2>3, <2>4
<1> QED BY <1>1, <1>2, <1>3, <1>4

LEMMA AloneKeeps ==
  ASSUME Typed, Alone, [Next]_vars, ~LoseSession
  PROVE  Alone'
<1>1. CASE Environment
  BY <1>1 DEF Environment, Arrive, ChangeFlags, Expunge, Renumber, Toggle, program, Alone
<1>2. CASE Recent \/ Delta \/ Backfill
  BY <1>2, HandlerStep, StepAlone DEF Kinds
<1> QED BY <1>1, <1>2, QuietOutside, Splits

-----------------------------------------------------------------------------
(* One epoch.                                                              *)

LEMMA EpochQuiet ==
  ASSUME Typed, Epochal, Quiet
  PROVE  Epochal'
<1> USE DEF Quiet, QuietRow, QuietRuns, Reading, Kinds
<1>1. RowEpoch'
  BY DEF Epochal, RowEpoch
<1>2. RecentEpoch'
  BY DEF Epochal, RecentEpoch
<1>3. DeltaEpoch'
  BY DEF Epochal, DeltaEpoch
<1>4. BackfillEpoch'
  BY DEF Epochal, BackfillEpoch
<1> QED BY <1>1, <1>2, <1>3, <1>4 DEF Epochal

\* The epoch of the server only rises.
LEMMA EpochRises ==
  ASSUME Typed, [Next]_vars
  PROVE  server.epoch <= server'.epoch /\ server.epoch \in Int /\ server'.epoch \in Int
<1>1. server.epoch \in Int /\ server'.epoch \in Int
  BY TypeKeeps, ServerSets DEF Typed, ServerOK, ServerType, Epochs
<1>2. CASE Environment
  <2>1. CASE Renumber
    <3>1. server'.epoch = server.epoch + 1
      BY <2>1 DEF Renumber
    <3> QED BY <1>1, <3>1
  <2>2. CASE ~Renumber
    <3>1. server'.epoch = server.epoch
      BY <1>2, <2>2 DEF Typed, ServerOK, Environment, Arrive, ChangeFlags, Expunge, Toggle
    <3> QED BY <1>1, <3>1
  <2> QED BY <2>1, <2>2
<1>3. CASE ~Environment
  <2>1. UNCHANGED server
    BY <1>3 DEF Next, vars, Recent, RecentStart, RecentSelect, RecentFetch, Fetch, RecentStore, RecentFinish,
         RecentFollow, RecentCaught, Delta, DeltaStart, DeltaSelect, DeltaAdvance, DeltaSearch, DeltaFetch,
         DeltaStore, DeltaFetchFlags, DeltaStoreFlags, DeltaRemove, DeltaComplete, DeltaCaught, Backfill,
         BackfillStart, BackfillSelect, BackfillFetch, BackfillStore, BackfillMore, BackfillCaught, Requests,
         Request, RequestFails, Pending, Polls, DeltaPoll, BackfillPoll, Faults, Fail, Crash, LoseSession,
         Take, Throw, TakeBackfill, WebRequest, OtherRequest
  <2> QED BY <1>1, <2>1
<1> QED BY <1>2, <1>3

LEMMA EpochOutside ==
  ASSUME Typed, Epochal, Environment
  PROVE  Epochal'
<1>1. CASE Toggle
  BY <1>1, EpochQuiet DEF Typed, RowOK, Toggle, program, Quiet, QuietRow, QuietRuns
<1>2. CASE ~Toggle
  <2>1. UNCHANGED <<box, program>>
    BY <1>2 DEF Environment, Arrive, ChangeFlags, Expunge, Renumber
  <2>2. box.epoch \in Int
    BY Numbers DEF Typed, RowOK, BoxType, Epochs
  <2>3. server.epoch <= server'.epoch /\ server.epoch \in Int /\ server'.epoch \in Int
    BY EpochRises DEF Next
  <2> QED BY <2>1, <2>2, <2>3
       DEF program, Epochal, RowEpoch, RecentEpoch, DeltaEpoch, BackfillEpoch, Reading
<1> QED BY <1>1, <1>2

LEMMA EpochRecent ==
  ASSUME Typed, Alone, Epochal, RecentStart \/ RecentSelect \/ RecentFetch \/ RecentStore \/ RecentFinish
  PROVE  Epochal'
<1> DEFINE k == "recent"
<1> USE DEF Typed, RowOK, RunsOK, ProcessType
<1>0. /\ pc'["delta"] = "idle" /\ pc'["backfill"] = "idle" /\ k \in Kinds
      /\ \A l \in Steps : Goto(k, l) => pc'[k] = l
  BY HandlerStep, StepAlone DEF Recent, Kinds, Goto, Processes
<1>1. DeltaEpoch' /\ BackfillEpoch'
  BY <1>0 DEF DeltaEpoch, BackfillEpoch, Reading
<1>2. CASE RecentStart
  <2>1. RowEpoch'
    BY <1>2 DEF RecentStart, Epochal, RowEpoch
  <2>2. CASE box.ready
    <3>1. pc'[k] = "select" /\ run'[k].complete = IF box.backfill = "complete" THEN box.backfillEpoch ELSE 0
      BY <1>0, <1>2, <2>2 DEF RecentStart, RunOK, Steps
    <3>2. /\ box'.epoch = box.epoch /\ box'.backfill = box.backfill /\ box'.backfillEpoch = box.backfillEpoch
          /\ box'.frontier = box.frontier
      BY <1>2, <2>2 DEF RecentStart
    <3> QED BY <1>1, <2>1, <3>1, <3>2 DEF Epochal, RowEpoch, RecentEpoch, Reading
  <2>3. CASE ~box.ready
    <3>1. pc'[k] = "caught"
      BY <1>0, <1>2, <2>3 DEF RecentStart, Throws, Goto, Steps
    <3> QED BY <1>1, <2>1, <3>1 DEF Epochal, RecentEpoch, Reading
  <2> QED BY <2>2, <2>3
<1>3. CASE RecentSelect
  <2> DEFINE e == server.epoch
             changed == box.epoch # 0 /\ box.epoch # e
  <2>0. e \in Epochs /\ e # 0 /\ e \in Int /\ box.epoch \in Int
    BY ServerSets, Numbers DEF Epochs, BoxType
  <2>1. /\ pc'[k] = "fetch" /\ run'[k].epoch = e /\ run'[k].complete = run[k].complete /\ server' = server
        /\ box'.epoch = e /\ local' = IF changed THEN <<>> ELSE local
    BY <1>0, <1>3 DEF RecentSelect, RunOK, Steps, Forgotten
  <2>2. CASE changed
    <3>1. box'.deltaEpoch = 0 /\ box'.backfillEpoch = 0 /\ box'.backfill = "not_started"
      BY <1>3, <2>2, ForgottenIs DEF RecentSelect
    <3>2. RowEpoch'
      BY <2>0, <2>1, <2>2, <3>1 DEF RowEpoch
    <3>3. RecentEpoch'
      BY <1>3, <2>0, <2>1, <2>2 DEF RecentSelect, Epochal, RecentEpoch, Reading
    <3> QED BY <1>1, <3>2, <3>3 DEF Epochal
  <2>3. CASE ~changed
    <3>1. /\ box'.deltaEpoch = box.deltaEpoch /\ box'.backfillEpoch = box.backfillEpoch
          /\ box'.backfill = box.backfill /\ box'.frontier = box.frontier
      BY <1>3, <2>3 DEF RecentSelect
    <3>2. DOMAIN local \subseteq Epochs \X Uids
      BY DEF LocalType
    <3>3. RowEpoch'
      BY <2>0, <2>1, <2>3, <3>1, <3>2 DEF Epochal, RowEpoch, Epochs
    <3>4. RecentEpoch'
      BY <1>3, <2>0, <2>1, <2>3, <3>1 DEF RecentSelect, Epochal, RecentEpoch, RowEpoch, Reading
    <3> QED BY <1>1, <3>3, <3>4 DEF Epochal
  <2> QED BY <2>2, <2>3
<1>4. CASE RecentFetch
  <2>1. /\ pc'[k] = "store" /\ run'[k].epoch = run[k].epoch /\ run'[k].complete = run[k].complete
        /\ UNCHANGED <<server, box, local>> /\ pc[k] = "fetch"
    BY <1>0, <1>4 DEF RecentFetch, Fetch, RunOK, Steps
  <2> QED BY <1>1, <2>1 DEF Epochal, RowEpoch, RecentEpoch, Reading
<1>5. CASE RecentStore
  <2>1. /\ pc'[k] = "fetch" /\ run'[k].epoch = run[k].epoch /\ run'[k].complete = run[k].complete
        /\ UNCHANGED <<server, box>> /\ pc[k] = "store" /\ local' = Stored(run[k].epoch, run[k].got, FALSE)
    BY <1>0, <1>5 DEF RecentStore, RunOK, Steps
  <2>2. run[k].epoch = box.epoch
    BY <2>1 DEF Epochal, RecentEpoch, Reading
  <2>3. \A p \in DOMAIN local' : p[1] = box.epoch
    BY <2>1, <2>2 DEF Stored, Epochal, RowEpoch
  <2> QED BY <1>1, <2>1, <2>3 DEF Epochal, RowEpoch, RecentEpoch, Reading
<1>6. CASE RecentFinish
  <2>1. /\ pc'[k] = "follow" /\ run' = run /\ UNCHANGED <<server, local>> /\ pc[k] = "fetch"
    BY <1>0, <1>6 DEF RecentFinish, Steps
  <2>2. /\ box'.epoch = box.epoch /\ box'.deltaEpoch = box.deltaEpoch /\ box'.backfillEpoch = box.backfillEpoch
        /\ box'.backfill = IF run[k].complete = run[k].epoch THEN "complete" ELSE "pending"
        /\ box'.frontier = box.frontier
    BY <1>6 DEF RecentFinish, StillComplete
  <2>3. run[k].epoch # 0 /\ run[k].epoch = box.epoch
    BY <1>0, <2>1 DEF Epochal, RecentEpoch, Reading
  <2> QED BY <1>1, <2>1, <2>2, <2>3 DEF Epochal, RowEpoch, RecentEpoch, Reading
<1> QED BY <1>2, <1>3, <1>4, <1>5, <1>6

\* What SELECT finds: another epoch, a first run, or the checkpoint of the row.
DeltaFirst == box.deltaEpoch = 0
DeltaEmpty == DeltaFirst /\ box.none
DeltaFrom == IF DeltaFirst THEN FirstSeen(server.epoch) ELSE box.seen
DeltaOther == box.epoch # server.epoch \/ (~DeltaFirst /\ box.deltaEpoch # server.epoch)
LEMMA DeltaSelectIs ==
  ASSUME Typed, DeltaSelect
  PROVE  /\ pc["delta"] = "select" /\ UNCHANGED <<server, queued, lock, alerts, window, budget>>
         /\ DeltaOther =>
              /\ local' = <<>> /\ run' = run /\ pc'["delta"] = "request"
              /\ box'.epoch = server.epoch /\ box'.deltaEpoch = 0 /\ box'.backfillEpoch = 0
              /\ box'.seen = 0 /\ box'.modseq = 0 /\ box'.frontier = 0 /\ box'.backfill = "not_started"
         /\ ~DeltaOther =>
              /\ local' = local /\ pc'["delta"] = IF DeltaEmpty THEN "fetch" ELSE "search"
              /\ DeltaEmpty => box' = box
              /\ ~DeltaEmpty => box'.deltaEpoch = server.epoch /\ box'.seen = DeltaFrom
                                /\ box'.modseq = IF DeltaFirst THEN 0 ELSE box.modseq
              /\ box'.epoch = box.epoch /\ box'.backfillEpoch = box.backfillEpoch
              /\ box'.frontier = box.frontier /\ box'.backfill = box.backfill
              /\ LET r == run'["delta"]
                 IN /\ r.epoch = server.epoch /\ r.seen = DeltaFrom /\ r.known = LocalUids(server.epoch)
                    /\ r.base = IF DeltaFirst THEN 0 ELSE box.modseq
                    /\ r.top = server.modseq /\ r.empty = DeltaEmpty /\ r.frontier = server.next - 1
                    /\ r.todo = IF DeltaEmpty THEN InWindow ELSE {}
                    /\ r.gap = 0
<1> USE DEF Typed, RowOK, RunsOK, ProcessType, Goto, Processes, Kinds
<1>1. pc["delta"] = "select" /\ UNCHANGED <<server, queued, lock, alerts, window, budget>>
  BY DEF DeltaSelect
<1>2. ASSUME DeltaOther
      PROVE  /\ local' = <<>> /\ run' = run /\ pc'["delta"] = "request"
             /\ box'.epoch = server.epoch /\ box'.deltaEpoch = 0 /\ box'.backfillEpoch = 0
             /\ box'.seen = 0 /\ box'.modseq = 0 /\ box'.frontier = 0 /\ box'.backfill = "not_started"
  <2>1. /\ local' = <<>> /\ run' = run /\ pc'["delta"] = "request"
        /\ box' = [Forgotten(box, server.epoch) EXCEPT !.recent = "not_started"]
    BY <1>2 DEF DeltaSelect, DeltaOther, DeltaFirst
  <2> QED BY <2>1, ForgottenIs
<1>3. ASSUME ~DeltaOther
      PROVE  /\ local' = local /\ pc'["delta"] = IF DeltaEmpty THEN "fetch" ELSE "search"
             /\ box' = IF DeltaFirst /\ ~DeltaEmpty
                       THEN [box EXCEPT !.deltaEpoch = server.epoch, !.seen = DeltaFrom, !.modseq = 0] ELSE box
             /\ run'["delta"] =
                  [NoRun EXCEPT !.epoch = server.epoch, !.seen = DeltaFrom, !.known = LocalUids(server.epoch),
                                !.base = IF DeltaFirst THEN 0 ELSE box.modseq, !.top = server.modseq,
                                !.empty = DeltaEmpty, !.frontier = server.next - 1,
                                !.todo = IF DeltaEmpty THEN InWindow ELSE {}]
  BY <1>3 DEF DeltaSelect, DeltaOther, DeltaFirst, DeltaEmpty, DeltaFrom
<1>4. ASSUME ~DeltaOther
      PROVE  /\ DeltaEmpty => box' = box
             /\ ~DeltaEmpty => box'.deltaEpoch = server.epoch /\ box'.seen = DeltaFrom
                               /\ box'.modseq = IF DeltaFirst THEN 0 ELSE box.modseq
             /\ box'.epoch = box.epoch /\ box'.backfillEpoch = box.backfillEpoch
             /\ box'.frontier = box.frontier /\ box'.backfill = box.backfill
  <2>1. box' = IF DeltaFirst /\ ~DeltaEmpty
               THEN [box EXCEPT !.deltaEpoch = server.epoch, !.seen = DeltaFrom, !.modseq = 0] ELSE box
    BY <1>3, <1>4
  <2>2. CASE DeltaFirst /\ ~DeltaEmpty
    <3>1. box' = [box EXCEPT !.deltaEpoch = server.epoch, !.seen = DeltaFrom, !.modseq = 0]
      BY <2>1, <2>2
    <3> QED BY <2>2, <3>1
  <2>3. CASE DeltaFirst /\ DeltaEmpty
    <3>1. box' = box
      BY <2>1, <2>3
    <3> QED BY <2>3, <3>1
  <2>4. CASE ~DeltaFirst
    <3>1. box' = box /\ ~DeltaEmpty
      BY <2>1, <2>4 DEF DeltaEmpty
    <3>2. box.deltaEpoch = server.epoch
      BY <1>4, <2>4 DEF DeltaOther
    <3>3. DeltaFrom = box.seen
      BY <2>4 DEF DeltaFrom
    <3> QED BY <2>4, <3>1, <3>2, <3>3
  <2> QED BY <2>2, <2>3, <2>4
<1>5. NoRun.gap = 0 /\ DOMAIN NoRun = {"epoch", "todo", "got", "any", "complete", "base", "top", "seen",
                                       "known", "gap", "empty", "frontier"}
  BY DEF NoRun
<1>6. ASSUME ~DeltaOther
      PROVE  LET r == run'["delta"]
             IN /\ r.epoch = server.epoch /\ r.seen = DeltaFrom /\ r.known = LocalUids(server.epoch)
                /\ r.base = IF DeltaFirst THEN 0 ELSE box.modseq
                /\ r.top = server.modseq /\ r.empty = DeltaEmpty /\ r.frontier = server.next - 1
                /\ r.todo = IF DeltaEmpty THEN InWindow ELSE {}
                /\ r.gap = 0
  <2> DEFINE n == run'["delta"]
  <2>1. n = [NoRun EXCEPT !.epoch = server.epoch, !.seen = DeltaFrom, !.known = LocalUids(server.epoch),
                          !.base = IF DeltaFirst THEN 0 ELSE box.modseq, !.top = server.modseq,
                          !.empty = DeltaEmpty, !.frontier = server.next - 1,
                          !.todo = IF DeltaEmpty THEN InWindow ELSE {}]
    BY <1>3, <1>6
  <2> HIDE DEF n
  <2>2. /\ n.epoch = server.epoch /\ n.seen = DeltaFrom /\ n.known = LocalUids(server.epoch)
        /\ n.base = (IF DeltaFirst THEN 0 ELSE box.modseq)
        /\ n.top = server.modseq /\ n.empty = DeltaEmpty /\ n.frontier = server.next - 1
    BY <1>5, <2>1
  <2>3. n.todo = (IF DeltaEmpty THEN InWindow ELSE {}) /\ n.gap = 0
    BY <1>5, <2>1
  <2> QED BY <2>2, <2>3 DEF n
<1> QED BY <1>1, <1>2, <1>3, <1>4, <1>6

\* The gap and the checkpoint that a batch of new messages leaves.
DeltaLeft == Batch("delta") \ DOMAIN run["delta"].got
DeltaGap == IF run["delta"].gap = 0 /\ DeltaLeft # {} THEN Min(DeltaLeft) ELSE run["delta"].gap
DeltaThrough == Through(run["delta"], DeltaGap)
LEMMA DeltaStoreIs ==
  ASSUME Typed, DeltaStore
  PROVE  LET r == run["delta"]
             s == run'["delta"]
         IN /\ pc["delta"] = "store" /\ pc'["delta"] = "fetch" /\ UNCHANGED <<server, queued, lock, window, budget>>
            /\ local' = Stored(r.epoch, r.got, Condstore) /\ alerts' = alerts \cup Announced(r)
            /\ box'.epoch = box.epoch /\ box'.deltaEpoch = box.deltaEpoch /\ box'.backfillEpoch = box.backfillEpoch
            /\ box'.frontier = box.frontier /\ box'.backfill = box.backfill /\ box'.modseq = box.modseq
            /\ box'.seen = IF ~r.empty /\ r.got # <<>> /\ box.deltaEpoch = r.epoch THEN DeltaThrough ELSE box.seen
            /\ s.epoch = r.epoch /\ s.todo = r.todo \ Batch("delta") /\ s.known = r.known /\ s.base = r.base
            /\ s.top = r.top /\ s.empty = r.empty /\ s.frontier = r.frontier
            /\ s.gap = IF r.empty THEN 0 ELSE DeltaGap
            /\ s.seen = IF r.empty \/ r.got = <<>> THEN r.seen ELSE DeltaThrough
<1> USE DEF Typed, RowOK, RunsOK, ProcessType, Goto, Processes, Kinds
<1> DEFINE r == run["delta"]
<1>1. RunOK(r) /\ "delta" \in DOMAIN run
  OBVIOUS
<1>2. /\ pc["delta"] = "store" /\ pc'["delta"] = "fetch" /\ UNCHANGED <<server, queued, lock, window, budget>>
      /\ local' = Stored(r.epoch, r.got, Condstore) /\ alerts' = alerts \cup Announced(r)
      /\ box' = IF ~r.empty /\ r.got # <<>> /\ box.deltaEpoch = r.epoch
                THEN [box EXCEPT !.seen = DeltaThrough] ELSE box
      /\ run'["delta"] = [r EXCEPT !.todo = @ \ Batch("delta"), !.got = <<>>,
                                   !.gap = IF r.empty THEN 0 ELSE DeltaGap,
                                   !.seen = IF r.empty \/ r.got = <<>> THEN @ ELSE DeltaThrough]
  BY DEF DeltaStore, DeltaLeft, DeltaGap, DeltaThrough
<1> QED BY <1>1, <1>2 DEF RunOK

LEMMA EpochDelta ==
  ASSUME Typed, Alone, Epochal,
         DeltaSelect \/ DeltaAdvance \/ DeltaSearch \/ DeltaFetch \/ DeltaStore \/ DeltaFetchFlags
         \/ DeltaStoreFlags \/ DeltaRemove \/ DeltaComplete
  PROVE  Epochal'
<1> DEFINE k == "delta"
<1> USE DEF Typed, RowOK, RunsOK, ProcessType
<1>0. /\ pc'["recent"] = "idle" /\ pc'["backfill"] = "idle" /\ k \in Kinds
      /\ \A l \in Steps : Goto(k, l) => pc'[k] = l
  BY HandlerStep, StepAlone DEF Delta, Kinds, Goto, Processes
<1>1. RecentEpoch' /\ BackfillEpoch'
  BY <1>0 DEF RecentEpoch, BackfillEpoch, Reading
<1>2. CASE DeltaSelect
  <2>0. server.epoch \in Int /\ server.epoch # 0
    BY ServerSets, Numbers DEF Epochs
  <2>1. CASE DeltaOther
    <3>1. RowEpoch' /\ DeltaEpoch'
      BY <1>2, <2>0, <2>1, DeltaSelectIs DEF RowEpoch, DeltaEpoch, Reading
    <3> QED BY <1>1, <3>1 DEF Epochal
  <2>2. CASE ~DeltaOther
    <3>1. server' = server /\ local' = local /\ pc'[k] = IF DeltaEmpty THEN "fetch" ELSE "search"
      BY <1>2, <2>2, DeltaSelectIs
    <3>2. /\ box'.deltaEpoch = IF DeltaEmpty THEN 0 ELSE server.epoch
          /\ ~DeltaEmpty => box'.seen = DeltaFrom
          /\ box'.epoch = box.epoch /\ box'.backfillEpoch = box.backfillEpoch
          /\ box'.frontier = box.frontier /\ box'.backfill = box.backfill
      BY <1>2, <2>2, DeltaSelectIs DEF DeltaEmpty, DeltaFirst
    <3>3. run'[k].epoch = server.epoch /\ run'[k].empty = DeltaEmpty /\ run'[k].seen = DeltaFrom
      BY <1>2, <2>2, DeltaSelectIs
    <3>4. box.epoch = server.epoch
      BY <2>2 DEF DeltaOther
    <3>5. RowEpoch'
      BY <3>1, <3>2, <3>4 DEF Epochal, RowEpoch
    <3>6. DeltaEpoch'
      BY <3>1, <3>2, <3>3, <3>4 DEF DeltaEpoch, Reading, DeltaEmpty, DeltaFirst
    <3> QED BY <1>1, <3>5, <3>6 DEF Epochal
  <2> QED BY <2>1, <2>2
<1>3. CASE DeltaAdvance
  <2>1. /\ pc[k] = "fetch" /\ pc'[k] = "search" /\ UNCHANGED <<server, local>>
        /\ run'[k].epoch = run[k].epoch /\ run'[k].seen = run[k].frontier /\ ~run'[k].empty
        /\ box'.epoch = box.epoch /\ box'.backfillEpoch = box.backfillEpoch
        /\ box'.frontier = box.frontier /\ box'.backfill = box.backfill
        /\ box'.deltaEpoch = run[k].epoch /\ box'.seen = run[k].frontier
    BY <1>0, <1>3 DEF DeltaAdvance, RunOK, Steps
  <2> QED BY <1>1, <2>1 DEF Epochal, RowEpoch, DeltaEpoch, Reading
<1>4. CASE DeltaSearch \/ DeltaFetch \/ DeltaFetchFlags
  <2>1. /\ pc[k] \in {"search", "fetch"} /\ UNCHANGED <<server, local, box>>
        /\ run'[k].epoch = run[k].epoch /\ run'[k].seen = run[k].seen /\ run'[k].empty = run[k].empty
    BY <1>0, <1>4 DEF DeltaSearch, DeltaFetch, Fetch, DeltaFetchFlags, RunOK
  <2>2. pc'[k] \in {"store", "fetch"} \/ (pc'[k] = "flags" /\ ~run[k].empty)
    BY <1>0, <1>4 DEF DeltaSearch, DeltaFetch, Fetch, DeltaFetchFlags, Steps
  <2> QED BY <1>1, <2>1, <2>2 DEF Epochal, RowEpoch, DeltaEpoch, Reading
<1>5. CASE DeltaStore
  <2>0. pc[k] = "store" /\ pc'[k] = "fetch" /\ server' = server
    BY <1>5, DeltaStoreIs
  <2>1. run[k].epoch = box.epoch
    BY <2>0 DEF Epochal, DeltaEpoch, Reading
  <2>2. local' = Stored(run[k].epoch, run[k].got, Condstore)
    BY <1>5, DeltaStoreIs
  <2>3. \A p \in DOMAIN local' : p[1] = box.epoch
    BY <2>1, <2>2 DEF Stored, Epochal, RowEpoch
  <2>4. /\ box'.epoch = box.epoch /\ box'.deltaEpoch = box.deltaEpoch /\ box'.backfillEpoch = box.backfillEpoch
        /\ box'.frontier = box.frontier /\ box'.backfill = box.backfill
    BY <1>5, DeltaStoreIs
  <2>5. RowEpoch'
    BY <2>0, <2>3, <2>4 DEF Epochal, RowEpoch
  <2>6. /\ run'[k].epoch = run[k].epoch /\ run'[k].empty = run[k].empty /\ run[k].empty \in BOOLEAN
        /\ run'[k].seen = IF run[k].empty \/ run[k].got = <<>> THEN run[k].seen ELSE DeltaThrough
        /\ box'.seen = IF ~run[k].empty /\ run[k].got # <<>> /\ box.deltaEpoch = run[k].epoch
                       THEN DeltaThrough ELSE box.seen
    BY <1>0, <1>5, DeltaStoreIs DEF RunOK
  <2>7. DeltaEpoch'
    BY <2>0, <2>1, <2>4, <2>6 DEF Epochal, DeltaEpoch, Reading
  <2> QED BY <1>1, <2>5, <2>7 DEF Epochal
<1>6. CASE DeltaStoreFlags \/ DeltaRemove
  <2>1. /\ pc[k] \in {"flags", "removed"} /\ pc'[k] \in {"removed", "complete"} /\ UNCHANGED <<server, run, box>>
        /\ DOMAIN local' \subseteq DOMAIN local
    BY <1>0, <1>6 DEF DeltaStoreFlags, DeltaRemove, Without, Steps
  <2> QED BY <1>1, <2>1 DEF Epochal, RowEpoch, DeltaEpoch, Reading
<1>7. CASE DeltaComplete
  <2>1. /\ UNCHANGED <<server, local>> /\ pc'[k] \in {"idle", "caught"}
        /\ box'.epoch = box.epoch /\ box'.backfillEpoch = box.backfillEpoch /\ box'.deltaEpoch = box.deltaEpoch
        /\ box'.frontier = box.frontier /\ box'.backfill = box.backfill
    BY <1>0, <1>7 DEF DeltaComplete, Done, Leave, Throws, Goto, Steps
  <2> QED BY <1>1, <2>1 DEF Epochal, RowEpoch, DeltaEpoch, Reading
<1> QED BY <1>2, <1>3, <1>4, <1>5, <1>6, <1>7

LEMMA BackfillSelectIs ==
  ASSUME Typed, BackfillSelect, server.epoch = run["backfill"].epoch
  PROVE  LET from == IF run["backfill"].seen = 1 THEN run["backfill"].frontier ELSE server.next - 1
             s == run'["backfill"]
         IN /\ pc'["backfill"] = "fetch" /\ UNCHANGED <<server, local, queued, lock, alerts, window, budget>>
            /\ box' = IF box.epoch = run["backfill"].epoch
                      THEN [box EXCEPT !.backfill = "running", !.backfillEpoch = run["backfill"].epoch,
                                       !.frontier = from]
                      ELSE box
            /\ s.epoch = run["backfill"].epoch /\ s.frontier = from /\ s.seen = Lower(from) - 1
            /\ s.todo = DOMAIN server.mail \cap Lower(from)..from
BY DEF Typed, RunsOK, ProcessType, Processes, Kinds, RunOK, BackfillSelect, Goto

LEMMA BackfillFetchIs ==
  ASSUME Typed, BackfillFetch
  PROVE  LET r == run["backfill"]
             s == run'["backfill"]
         IN /\ pc["backfill"] = "fetch" /\ Live("backfill") /\ pc'["backfill"] \in {"store", "caught"}
            /\ UNCHANGED <<server, box, local, queued, lock, alerts, window, budget>>
            /\ s.epoch = r.epoch /\ s.todo = r.todo /\ s.seen = r.seen /\ s.frontier = r.frontier
            /\ s.got \in Answers("backfill", r.todo)
            /\ pc'["backfill"] = "store" => r.todo \cap DOMAIN server.mail \subseteq DOMAIN s.got
<1> USE DEF Typed, RunsOK, ProcessType, Processes, Kinds, RunOK
<1>1. PICK got \in Answers("backfill", run["backfill"].todo) :
        /\ run' = [run EXCEPT !["backfill"].got = got]
        /\ Goto("backfill", IF run["backfill"].todo \cap DOMAIN server.mail \subseteq DOMAIN got THEN "store" ELSE "caught")
  BY DEF BackfillFetch
<1>2. run'["backfill"] = [run["backfill"] EXCEPT !.got = got]
  BY <1>1
<1> QED BY <1>1, <1>2 DEF BackfillFetch, Goto

LEMMA EpochBackfill ==
  ASSUME Typed, Alone, Epochal, BackfillStart \/ BackfillSelect \/ BackfillFetch \/ BackfillStore
  PROVE  Epochal'
<1> DEFINE k == "backfill"
<1> USE DEF Typed, RowOK, RunsOK, ProcessType
<1>0. /\ pc'["recent"] = "idle" /\ pc'["delta"] = "idle" /\ k \in Kinds
      /\ \A l \in Steps : Goto(k, l) => pc'[k] = l
  BY HandlerStep, StepAlone DEF Backfill, Kinds, Goto, Processes
<1>1. RecentEpoch' /\ DeltaEpoch'
  BY <1>0 DEF RecentEpoch, DeltaEpoch, Reading
<1>2. CASE BackfillStart
  <2>1. UNCHANGED <<server, local, box>>
    BY <1>2 DEF BackfillStart
  <2>2. \/ pc'[k] = "idle"
        \/ /\ pc'[k] = "select" /\ run'[k].epoch = box.epoch
           /\ run'[k].seen = IF box.backfillEpoch = box.epoch THEN 1 ELSE 0
           /\ run'[k].frontier = IF box.backfillEpoch = box.epoch THEN box.frontier ELSE 0
    BY <1>0, <1>2 DEF BackfillStart, Done, Leave, Goto, RunOK, Steps
  <2> QED BY <1>1, <2>1, <2>2 DEF Epochal, RowEpoch, BackfillEpoch, Reading
<1>3. CASE BackfillSelect
  <2>0. run[k].epoch = box.epoch
    BY <1>3 DEF BackfillSelect, Epochal, BackfillEpoch
  <2>1. CASE server.epoch = run[k].epoch
    <3> DEFINE from == IF run[k].seen = 1 THEN run[k].frontier ELSE server.next - 1
    <3>1. /\ pc'[k] = "fetch" /\ UNCHANGED <<server, local>>
          /\ run'[k].epoch = run[k].epoch /\ run'[k].frontier = from
          /\ box' = [box EXCEPT !.backfill = "running", !.backfillEpoch = run[k].epoch, !.frontier = from]
      BY <1>3, <2>0, <2>1, BackfillSelectIs
    <3> HIDE DEF from
    <3>2. /\ box'.backfill = "running" /\ box'.backfillEpoch = box.epoch /\ box'.frontier = from
          /\ box'.epoch = box.epoch /\ box'.deltaEpoch = box.deltaEpoch
      BY <2>0, <3>1
    <3> QED BY <1>1, <2>0, <3>1, <3>2 DEF Epochal, RowEpoch, BackfillEpoch, Reading
  <2>2. CASE server.epoch # run[k].epoch
    <3>1. /\ pc'[k] = "request" /\ UNCHANGED <<server, local>>
          /\ box'.backfill = "not_started" /\ box'.backfillEpoch = 0
          /\ box'.epoch = box.epoch /\ box'.deltaEpoch = box.deltaEpoch
      BY <1>0, <1>3, <2>2 DEF BackfillSelect, Steps
    <3> QED BY <1>1, <3>1 DEF Epochal, RowEpoch, BackfillEpoch, Reading
  <2> QED BY <2>1, <2>2
<1>4. CASE BackfillFetch
  <2>1. /\ pc[k] = "fetch" /\ UNCHANGED <<server, local, box>>
        /\ run'[k].epoch = run[k].epoch /\ run'[k].frontier = run[k].frontier
        /\ pc'[k] \in {"store", "caught"}
    BY <1>4, BackfillFetchIs
  <2> QED BY <1>1, <2>1 DEF Epochal, RowEpoch, BackfillEpoch, Reading
<1>5. CASE BackfillStore
  <2>1. CASE Unmoved(run[k])
    <3>1. /\ pc[k] = "store" /\ pc'[k] = "more" /\ UNCHANGED server
          /\ local' = Stored(run[k].epoch, run[k].got, Condstore)
          /\ box'.backfill = IF run[k].seen = 0 THEN "complete" ELSE "pending"
          /\ box'.frontier = run[k].seen
          /\ box'.epoch = box.epoch /\ box'.deltaEpoch = box.deltaEpoch /\ box'.backfillEpoch = box.backfillEpoch
      BY <1>0, <1>5, <2>1 DEF BackfillStore, Steps
    <3>2. run[k].epoch = box.epoch /\ box.backfillEpoch = box.epoch /\ box.epoch # 0
      BY <1>0, <2>1, <3>1 DEF Unmoved, Reading
    <3>3. \A p \in DOMAIN local' : p[1] = box.epoch
      BY <3>1, <3>2 DEF Stored, Epochal, RowEpoch
    <3> QED BY <1>1, <3>1, <3>2, <3>3 DEF Epochal, RowEpoch, BackfillEpoch, Reading
  <2>2. CASE ~Unmoved(run[k])
    <3>1. pc'[k] = "caught" /\ UNCHANGED <<server, local, box>>
      BY <1>0, <1>5, <2>2 DEF BackfillStore, Throws, Goto, Steps
    <3> QED BY <1>1, <3>1 DEF Epochal, RowEpoch, BackfillEpoch, Reading
  <2> QED BY <2>1, <2>2
<1> QED BY <1>2, <1>3, <1>4, <1>5

LEMMA EpochKeeps ==
  ASSUME Typed, Alone, Epochal, [Next]_vars, ~LoseSession
  PROVE  Epochal'
<1>1. CASE Quiet
  BY <1>1, EpochQuiet
<1>2. CASE Environment
  BY <1>2, EpochOutside
<1> QED BY <1>1, <1>2, Splits, QuietOutside, QuietEnds, EpochRecent, EpochDelta, EpochBackfill
         DEF Recent, Delta, Backfill

-----------------------------------------------------------------------------
(* What the steps that read and store do, field by field.                  *)

\* The server goes on within its epoch, or begins another.
LEMMA EnvironmentIs ==
  ASSUME Typed, Environment, ~Toggle
  PROVE  /\ UNCHANGED <<box, program>>
         /\ \/ server'.epoch = server.epoch + 1 /\ server'.modseq = server.modseq /\ Starts(server'.next)
            \/ /\ server'.epoch = server.epoch /\ server.next <= server'.next /\ server.modseq <= server'.modseq
               /\ \A u \in DOMAIN server'.mail :
                    \/ u \in DOMAIN server.mail /\ server'.mail[u] = server.mail[u]
                    \/ u \in DOMAIN server.mail /\ server'.mail[u] > server.modseq
                    \/ u = server.next /\ server'.mail[u] > server.modseq
<1> USE DEF Typed, ServerOK
<1>1. UNCHANGED <<box, program>>
  BY DEF Environment, Arrive, ChangeFlags, Expunge, Renumber
<1>2. server.modseq \in Int /\ server.next \in Int
  BY ServerSets, FlagBound DEF Flags
<1>3. CASE Arrive
  BY <1>1, <1>2, <1>3 DEF Arrive
<1>4. CASE ChangeFlags
  BY <1>1, <1>2, <1>4 DEF ChangeFlags
<1>5. CASE Expunge
  BY <1>1, <1>2, <1>5 DEF Expunge
<1>6. CASE Renumber
  BY <1>1, <1>6 DEF Renumber
<1> QED BY <1>3, <1>4, <1>5, <1>6 DEF Environment

LEMMA RecentSelectIs ==
  ASSUME Typed, RecentSelect
  PROVE  LET changed == box.epoch # 0 /\ box.epoch # server.epoch
             s == run'["recent"]
         IN /\ pc["recent"] = "select" /\ pc'["recent"] = "fetch"
            /\ UNCHANGED <<server, queued, lock, alerts, window, budget>>
            /\ s.epoch = server.epoch /\ s.todo = InWindow
            /\ local' = IF changed THEN <<>> ELSE local
            /\ box'.epoch = server.epoch
            /\ changed => /\ box'.deltaEpoch = 0 /\ box'.backfillEpoch = 0
                          /\ box'.seen = 0 /\ box'.modseq = 0 /\ box'.frontier = 0
            /\ ~changed => /\ box'.deltaEpoch = box.deltaEpoch /\ box'.backfillEpoch = box.backfillEpoch
                           /\ box'.seen = box.seen /\ box'.modseq = box.modseq /\ box'.frontier = box.frontier
<1> USE DEF Typed, RowOK, RunsOK, ProcessType, Processes, Kinds, RunOK
<1> DEFINE changed == box.epoch # 0 /\ box.epoch # server.epoch
<1>1. /\ pc["recent"] = "select" /\ pc'["recent"] = "fetch"
      /\ UNCHANGED <<server, queued, lock, alerts, window, budget>>
      /\ run'["recent"].epoch = server.epoch /\ run'["recent"].todo = InWindow
      /\ local' = IF changed THEN <<>> ELSE local
      /\ box' = IF changed THEN Forgotten(box, server.epoch) ELSE [box EXCEPT !.epoch = server.epoch]
  BY DEF RecentSelect, Goto
<1> QED BY <1>1, ForgottenIs

LEMMA FetchIs ==
  ASSUME Typed, NEW k \in {"recent", "delta"}, NEW kind, Fetch(k, kind)
  PROVE  LET r == run[k]
             s == run'[k]
         IN /\ pc[k] = "fetch" /\ pc'[k] = "store" /\ Live(k)
            /\ UNCHANGED <<server, box, local, queued, lock, alerts, window, budget>>
            /\ s.epoch = r.epoch /\ s.todo = r.todo /\ s.seen = r.seen /\ s.known = r.known /\ s.base = r.base
            /\ s.top = r.top /\ s.gap = r.gap /\ s.empty = r.empty /\ s.frontier = r.frontier
            /\ Batch(k)' = Batch(k)
            /\ DOMAIN s.got \subseteq Batch(k) \cap DOMAIN server.mail
            /\ \A u \in DOMAIN s.got : s.got[u] = server.mail[u]
            /\ kind \notin MayOmit => DOMAIN s.got = Batch(k) \cap DOMAIN server.mail
<1> USE DEF Typed, RunsOK, ProcessType, Processes, Kinds, RunOK
<1>1. PICK got \in Answers(kind, Batch(k)) : run' = [run EXCEPT ![k].got = got]
  BY DEF Fetch
<1>2. /\ DOMAIN got \subseteq Batch(k) \cap DOMAIN server.mail
      /\ \A u \in DOMAIN got : got[u] = server.mail[u]
      /\ kind \notin MayOmit => DOMAIN got = Batch(k) \cap DOMAIN server.mail
  BY AnswerIs
<1>3. run'[k] = [run[k] EXCEPT !.got = got]
  BY <1>1
<1>4. Batch(k)' = Batch(k)
  BY <1>3 DEF Batch, Lowest
<1> QED BY <1>2, <1>3, <1>4 DEF Fetch, Goto

LEMMA RecentStoreIs ==
  ASSUME Typed, RecentStore
  PROVE  LET r == run["recent"]
             s == run'["recent"]
         IN /\ pc["recent"] = "store" /\ pc'["recent"] = "fetch"
            /\ UNCHANGED <<server, box, queued, lock, alerts, window, budget>>
            /\ local' = Stored(r.epoch, r.got, FALSE)
            /\ s.epoch = r.epoch /\ s.todo = r.todo \ Batch("recent")
BY DEF Typed, RunsOK, ProcessType, Processes, Kinds, RunOK, RecentStore, Goto

LEMMA DeltaAdvanceIs ==
  ASSUME Typed, DeltaAdvance
  PROVE  LET r == run["delta"]
             s == run'["delta"]
         IN /\ pc["delta"] = "fetch" /\ pc'["delta"] = "search" /\ r.empty /\ r.todo = {} /\ ~s.empty
            /\ UNCHANGED <<server, local, queued, lock, alerts, window, budget>>
            /\ box'.epoch = box.epoch /\ box'.backfillEpoch = box.backfillEpoch /\ box'.frontier = box.frontier
            /\ box'.modseq = box.modseq /\ box'.deltaEpoch = r.epoch /\ box'.seen = r.frontier
            /\ s.epoch = r.epoch /\ s.todo = r.todo /\ s.seen = r.frontier /\ s.known = r.known
            /\ s.base = r.base /\ s.top = r.top /\ s.gap = r.gap
BY DEF Typed, RowOK, RunsOK, ProcessType, Processes, Kinds, RunOK, DeltaAdvance, Goto

LEMMA DeltaSearchIs ==
  ASSUME Typed, DeltaSearch
  PROVE  LET r == run["delta"]
             s == run'["delta"]
         IN /\ pc["delta"] = "search" /\ pc'["delta"] = "fetch" /\ Live("delta")
            /\ UNCHANGED <<server, box, local, queued, lock, alerts, window, budget>>
            /\ s.todo = {u \in DOMAIN server.mail : u > r.seen}
            /\ s.epoch = r.epoch /\ s.seen = r.seen /\ s.known = r.known /\ s.base = r.base
            /\ s.top = r.top /\ s.gap = r.gap /\ s.empty = r.empty /\ s.frontier = r.frontier
BY DEF Typed, RunsOK, ProcessType, Processes, Kinds, RunOK, DeltaSearch, Goto

LEMMA DeltaFetchFlagsIs ==
  ASSUME Typed, DeltaFetchFlags
  PROVE  LET r == run["delta"]
             s == run'["delta"]
         IN /\ pc["delta"] = "fetch" /\ pc'["delta"] = "flags" /\ Live("delta") /\ ~r.empty /\ r.todo = {}
            /\ UNCHANGED <<server, box, local, queued, lock, alerts, window, budget>>
            /\ DOMAIN s.got = IF Condstore /\ r.base # 0 THEN {u \in DOMAIN server.mail : server.mail[u] > r.base}
                              ELSE r.known \cap DOMAIN server.mail
            /\ \A u \in DOMAIN s.got : s.got[u] = server.mail[u]
            /\ s.epoch = r.epoch /\ s.todo = r.todo /\ s.seen = r.seen /\ s.known = r.known /\ s.base = r.base
            /\ s.top = r.top /\ s.gap = r.gap /\ s.empty = r.empty /\ s.frontier = r.frontier
<1> USE DEF Typed, RunsOK, ProcessType, Processes, Kinds, RunOK
<1> DEFINE r == run["delta"]
           asked == IF Condstore /\ r.base # 0 THEN {u \in DOMAIN server.mail : server.mail[u] > r.base}
                    ELSE r.known \cap DOMAIN server.mail
<1>1. run'["delta"] = [r EXCEPT !.got = [u \in asked |-> server.mail[u]]]
  BY DEF DeltaFetchFlags
<1> HIDE DEF asked
<1>2. LET s == run'["delta"]
      IN /\ DOMAIN s.got = asked /\ \A u \in DOMAIN s.got : s.got[u] = server.mail[u]
         /\ s.epoch = r.epoch /\ s.todo = r.todo /\ s.seen = r.seen /\ s.known = r.known /\ s.base = r.base
         /\ s.top = r.top /\ s.gap = r.gap /\ s.empty = r.empty /\ s.frontier = r.frontier
  BY <1>1
<1> USE DEF asked
<1> QED BY <1>2 DEF DeltaFetchFlags, Goto

LEMMA BackfillStoreIs ==
  ASSUME Typed, BackfillStore, Unmoved(run["backfill"])
  PROVE  LET r == run["backfill"]
         IN /\ pc["backfill"] = "store" /\ pc'["backfill"] = "more"
            /\ UNCHANGED <<server, queued, lock, run, alerts, window, budget>>
            /\ local' = Stored(r.epoch, r.got, Condstore)
            /\ box'.epoch = box.epoch /\ box'.deltaEpoch = box.deltaEpoch /\ box'.backfillEpoch = box.backfillEpoch
            /\ box'.seen = box.seen /\ box'.modseq = box.modseq /\ box'.frontier = r.seen
BY DEF Typed, RowOK, RunsOK, ProcessType, Processes, Kinds, BackfillStore, Goto

-----------------------------------------------------------------------------
(* UIDs that are known were assigned.                                      *)

LEMMA NumbersOf ==
  ASSUME Typed
  PROVE  /\ server.next \in Int /\ server.epoch \in Int /\ server.modseq \in Int /\ box.epoch \in Int
         /\ box.seen \in Int /\ box.frontier \in Int /\ box.modseq \in Int /\ 1 <= server.next
         /\ \A u \in Uids : u \in Int /\ u >= 1
         /\ \A k \in Kinds : RunOK(run[k])
         /\ server.epoch # 0 /\ server.modseq # 0
<1>1. Uids \subseteq Int /\ Flags \subseteq Int /\ Epochs \subseteq Int /\ 0 \notin Epochs /\ 0 \notin Flags
  BY Numbers, FlagBound DEF Uids, Flags, Epochs
<1>2. \A u \in Uids : u >= 1
  BY DEF Uids
<1>3. 1 <= server.next
  BY DEF Typed, ServerOK, ServerType
<1>4. /\ box.epoch \in Epochs \cup {0} /\ box.seen \in Uids \cup {0} /\ box.frontier \in Uids \cup {0}
      /\ box.modseq \in Flags \cup {0}
  BY DEF Typed, RowOK, BoxType
<1>5. \A k \in Kinds : RunOK(run[k])
  BY DEF Typed, RunsOK
<1>6. server.next \in Int /\ server.epoch \in Epochs /\ server.modseq \in Flags
  BY ServerSets DEF Typed
<1>7. box.epoch \in Int /\ box.seen \in Int /\ box.frontier \in Int /\ box.modseq \in Int
  <2>1. \A i \in (Uids \cup {0}) \cup (Flags \cup {0}) \cup (Epochs \cup {0}) : i \in Int
    BY <1>1
  <2> QED BY <1>4, <2>1, Zenon
<1>8. server.next \in Int /\ server.epoch \in Int /\ server.modseq \in Int /\ server.epoch # 0 /\ server.modseq # 0
  BY <1>1, <1>6
<1>9. \A u \in Uids : u \in Int
  BY <1>1
<1> QED BY <1>2, <1>3, <1>5, <1>7, <1>8, <1>9

LEMMA AssignedQuiet ==
  ASSUME Typed, Assigned, InBatch, Quiet
  PROVE  Assigned' /\ InBatch'
<1>1. \A k \in Kinds : pc'[k] \in Reading => pc[k] = pc'[k] /\ run'[k] = run[k]
  BY DEF Quiet, QuietRuns, Reading
<1>2. \A k \in Kinds : Reads(k)' => Reads(k) /\ pc[k] = pc'[k] /\ run'[k] = run[k]
  BY <1>1 DEF Quiet, Reads, Live
<1>3. Assigned'
  BY <1>2 DEF Assigned, Quiet, QuietRow, Kinds
<1>4. \A k \in Kinds : run'[k] = run[k] => Batch(k)' = Batch(k)
  BY DEF Batch, Lowest
<1>5. InBatch'
  BY <1>1, <1>4 DEF InBatch, Kinds, Reading
<1> QED BY <1>3, <1>5

LEMMA AssignedOutside ==
  ASSUME Typed, Epochal, Assigned, InBatch, Environment, ~Toggle
  PROVE  Assigned' /\ InBatch'
<1>1. InBatch'
  BY EnvironmentIs DEF program, InBatch, Batch, Lowest
<1>2. CASE server'.epoch = server.epoch + 1
  <2>1. UNCHANGED <<box, program>>
    BY EnvironmentIs
  <2>2. box.epoch < server'.epoch /\ server'.epoch # 0 /\ box.epoch \in Int
    <3>1. box.epoch <= server.epoch /\ box.epoch \in Int /\ server.epoch \in Int /\ 1 <= server.epoch
      BY NumbersOf, ServerSets DEF Epochal, RowEpoch, Typed, Epochs
    <3> QED BY <1>2, <3>1
  <2>3. box.deltaEpoch # server'.epoch /\ box.backfillEpoch # server'.epoch
        /\ \A p \in DOMAIN local : p[1] # server'.epoch
    BY <2>2 DEF Epochal, RowEpoch
  <2>4. \A k \in Kinds : ~Reads(k)'
    BY <2>1, <2>2 DEF program, Reads, Live, Epochal, RecentEpoch, DeltaEpoch, BackfillEpoch, Kinds
  <2> QED BY <1>1, <2>1, <2>3, <2>4 DEF Assigned, program, Kinds
<1>3. CASE server'.epoch = server.epoch /\ server.next <= server'.next
  <2>1. UNCHANGED <<box, program>> /\ server'.next \in Int
    <3>1. server'.next \in Int
      BY EnvironmentTyped DEF Typed, ServerOK, ServerType
    <3> QED BY <3>1, EnvironmentIs
  <2>2. \A i \in Int : i < server.next => i < server'.next
    BY <1>3, <2>1, NumbersOf
  <2>3. \A k \in Kinds : Reads(k)' => Reads(k)
    BY <1>3, <2>1 DEF program, Reads, Live
  <2>4. \A p \in DOMAIN local : p[2] \in Int
    BY NumbersOf DEF Typed, LocalType
  <2>5. \A k \in Kinds : /\ \A u \in run[k].todo : u \in Int
                         /\ \A u \in DOMAIN run[k].got : u \in Int
                         /\ run[k].frontier \in Int
    BY NumbersOf DEF RunOK
  <2>6. \A k \in Kinds : Reads(k)' =>
          /\ \A u \in run'[k].todo : u < server'.next
          /\ pc'[k] \in {"store", "flags"} => \A u \in DOMAIN run'[k].got : u < server'.next
    BY <2>1, <2>2, <2>3, <2>5 DEF Assigned, program
  <2>7. Reads("delta")' /\ run'["delta"].empty =>
          run'["delta"].frontier < server'.next /\ \A u \in run'["delta"].todo : u <= run'["delta"].frontier
    BY <2>1, <2>2, <2>3, <2>5 DEF Assigned, program, Kinds
  <2>8. Reads("backfill")' => run'["backfill"].seen <= run'["backfill"].frontier
    BY <2>1, <2>3 DEF Assigned, program, Kinds
  <2>9. /\ \A p \in DOMAIN local' : p[1] = server'.epoch => p[2] < server'.next
        /\ box'.deltaEpoch = server'.epoch => box'.seen < server'.next
        /\ box'.backfillEpoch = server'.epoch => box'.frontier < server'.next
    BY <1>3, <2>1, <2>2, <2>4, NumbersOf DEF Assigned, program
  <2> QED BY <1>1, <2>6, <2>7, <2>8, <2>9 DEF Assigned
<1> QED BY <1>2, <1>3, EnvironmentIs

\* The rows that a handler's step leaves alone.
LEMMA AssignedRows ==
  ASSUME Assigned, UNCHANGED server, DOMAIN local' \subseteq DOMAIN local,
         box'.deltaEpoch = 0 \/ (box'.deltaEpoch = box.deltaEpoch /\ box'.seen = box.seen),
         box'.backfillEpoch = 0 \/ (box'.backfillEpoch = box.backfillEpoch /\ box'.frontier = box.frontier),
         server.epoch # 0
  PROVE  /\ \A p \in DOMAIN local' : p[1] = server'.epoch => p[2] < server'.next
         /\ box'.deltaEpoch = server'.epoch => box'.seen < server'.next
         /\ box'.backfillEpoch = server'.epoch => box'.frontier < server'.next
BY DEF Assigned

LEMMA AssignedStore ==
  ASSUME Assigned, NEW k \in Kinds, pc[k] \in {"store", "flags"}, NEW known,
         local' = Stored(run[k].epoch, run[k].got, known)
  PROVE  \A p \in DOMAIN local' : p[1] = server.epoch => p[2] < server.next
<1>1. DOMAIN local' = DOMAIN local \cup {<<run[k].epoch, u>> : u \in DOMAIN run[k].got}
  BY DEF Stored
<1>2. run[k].epoch = server.epoch => Reads(k)
  BY DEF Reads, Live, Reading
<1> QED BY <1>1, <1>2 DEF Assigned

LEMMA AssignedRecent ==
  ASSUME Typed, Alone, Assigned, InBatch, RecentStart \/ RecentSelect \/ RecentFetch \/ RecentStore \/ RecentFinish
  PROVE  Assigned' /\ InBatch'
<1> DEFINE k == "recent"
<1> USE DEF Typed, RowOK, RunsOK, ProcessType
<1>0. /\ pc'["delta"] = "idle" /\ pc'["backfill"] = "idle" /\ k \in Kinds
      /\ \A l \in Steps : Goto(k, l) => pc'[k] = l
  BY HandlerStep, StepAlone DEF Recent, Kinds, Goto, Processes
<1>1. \A j \in Kinds : j # k => ~Reads(j)'
  BY <1>0 DEF Reads, Reading, Kinds
<1>2. CASE RecentStart
  <2>1. pc'[k] \in {"select", "caught"}
    BY <1>0, <1>2 DEF RecentStart, Throws, Goto, Steps
  <2>2. UNCHANGED <<server, local>> /\ box'.deltaEpoch = box.deltaEpoch /\ box'.seen = box.seen
        /\ box'.backfillEpoch = box.backfillEpoch /\ box'.frontier = box.frontier
    BY <1>2 DEF RecentStart
  <2> QED BY <1>0, <1>1, <2>1, <2>2, AssignedRows, NumbersOf DEF Assigned, InBatch, Reads, Reading, Kinds
<1>3. CASE RecentSelect
  <2>1. pc'[k] = "fetch" /\ server' = server /\ run'[k].todo = InWindow
    BY <1>3, RecentSelectIs
  <2>2. \A u \in run'[k].todo : u < server.next
    BY <2>1, ServerSets DEF InWindow
  <2>3. /\ box'.deltaEpoch = 0 \/ (box'.deltaEpoch = box.deltaEpoch /\ box'.seen = box.seen)
        /\ box'.backfillEpoch = 0 \/ (box'.backfillEpoch = box.backfillEpoch /\ box'.frontier = box.frontier)
        /\ DOMAIN local' \subseteq DOMAIN local
    BY <1>3, RecentSelectIs
  <2> QED BY <1>0, <1>1, <2>1, <2>2, <2>3, AssignedRows, NumbersOf DEF Assigned, InBatch, Kinds
<1>4. CASE RecentFetch
  <2>1. /\ pc[k] = "fetch" /\ pc'[k] = "store" /\ UNCHANGED <<server, box, local>> /\ Live(k)
        /\ run'[k].todo = run[k].todo /\ run'[k].epoch = run[k].epoch
        /\ DOMAIN run'[k].got \subseteq Batch(k)' /\ DOMAIN run'[k].got \subseteq DOMAIN server.mail
    BY <1>4, FetchIs DEF RecentFetch
  <2>2. \A u \in DOMAIN run'[k].got : u < server.next
    BY <2>1, ServerSets
  <2>3. Reads(k)
    BY <2>1 DEF Reads, Reading
  <2> QED BY <1>0, <1>1, <2>1, <2>2, <2>3, AssignedRows, NumbersOf DEF Assigned, InBatch, Kinds
<1>5. CASE RecentStore
  <2>1. /\ pc[k] = "store" /\ pc'[k] = "fetch" /\ UNCHANGED <<server, box>>
        /\ local' = Stored(run[k].epoch, run[k].got, FALSE)
        /\ run'[k].todo \subseteq run[k].todo /\ run'[k].epoch = run[k].epoch
    BY <1>5, RecentStoreIs
  <2>2. Reads(k)' => Reads(k)
    BY <2>1 DEF Reads, Reading, Live
  <2>3. \A p \in DOMAIN local' : p[1] = server.epoch => p[2] < server.next
    BY <1>0, <2>1, AssignedStore
  <2> QED BY <1>0, <1>1, <2>1, <2>2, <2>3 DEF Assigned, InBatch, Kinds
<1>6. CASE RecentFinish
  <2>1. /\ pc'[k] = "follow" /\ UNCHANGED <<server, local>>
        /\ box'.deltaEpoch = box.deltaEpoch /\ box'.seen = box.seen
        /\ box'.backfillEpoch = box.backfillEpoch /\ box'.frontier = box.frontier
    BY <1>0, <1>6 DEF RecentFinish, Steps
  <2> QED BY <1>0, <1>1, <2>1, AssignedRows, NumbersOf DEF Assigned, InBatch, Reads, Reading, Kinds
<1> QED BY <1>2, <1>3, <1>4, <1>5, <1>6

\* The first UIDs that a delta run and a batch of it count as seen.
LEMMA FirstSeenIs ==
  ASSUME Typed, NEW e
  PROVE  /\ FirstSeen(e) = 0 \/ (FirstSeen(e) \in Uids /\ <<e, FirstSeen(e)>> \in DOMAIN local)
         /\ \A u \in Uids : <<e, u>> \in DOMAIN local => u <= FirstSeen(e)
         /\ FirstSeen(e) \in Int
<1>1. LocalUids(e) \subseteq 0..MaxUid /\ LocalUids(e) \subseteq Uids
  BY Numbers DEF LocalUids, Uids
<1>2. FirstSeen(e) \in LocalUids(e) \cup {0} /\ \A u \in LocalUids(e) : u <= FirstSeen(e)
  BY <1>1, HighestIs DEF FirstSeen
<1>3. FirstSeen(e) \in Int
  BY <1>1, <1>2, NumbersOf
<1> QED BY <1>2, <1>3 DEF LocalUids

LEMMA ThroughIs ==
  ASSUME Typed, pc["delta"] = "store"
  PROVE  LET r == run["delta"]
         IN /\ DeltaThrough \in Int /\ r.seen <= DeltaThrough
            /\ DeltaThrough = r.seen \/ (DeltaThrough \in DOMAIN r.got /\ (DeltaGap = 0 \/ DeltaThrough < DeltaGap))
<1> DEFINE r == run["delta"]
           s == {r.seen} \cup {u \in DOMAIN r.got : DeltaGap = 0 \/ u < DeltaGap}
<1>1. r.seen \in Uids \cup {0} /\ DOMAIN r.got \subseteq Uids
  BY NumbersOf DEF RunOK, Kinds
<1>2. s \subseteq 0..MaxUid /\ \A i \in s : i \in Int /\ i >= 0
  BY <1>1, Numbers DEF Uids
<1>3. DeltaThrough = Highest(s)
  BY DEF DeltaThrough, Through
<1>4. r.seen \in s
  OBVIOUS
<1>5. \A i \in s : i = r.seen \/ (i \in DOMAIN r.got /\ (DeltaGap = 0 \/ i < DeltaGap))
  OBVIOUS
<1> HIDE DEF s
<1>6. Highest(s) \in s \cup {0} /\ \A i \in s : i <= Highest(s)
  BY <1>2, HighestIs
<1>7. Highest(s) \in s
  <2>1. CASE Highest(s) = 0
    <3>1. r.seen \in Int /\ r.seen >= 0
      BY <1>2, <1>4
    <3>2. r.seen <= Highest(s)
      BY <1>4, <1>6
    <3>3. r.seen = 0
      BY <2>1, <3>1, <3>2
    <3> QED BY <1>4, <2>1, <3>3
  <2> QED BY <1>6, <2>1
<1> QED BY <1>2, <1>3, <1>4, <1>5, <1>6, <1>7

\* What a delta run left out is above its gap.
LEMMA GapIs ==
  ASSUME Typed, pc["delta"] = "store"
  PROVE  LET r == run["delta"]
         IN /\ DeltaGap \in Int
            /\ r.gap # 0 => DeltaGap = r.gap
            /\ r.gap = 0 => \/ DeltaLeft = {} /\ DeltaGap = 0
                            \/ DeltaGap \in DeltaLeft /\ \A u \in DeltaLeft : DeltaGap <= u
<1>1. run["delta"].gap \in Uids \cup {0} /\ run["delta"].todo \subseteq Uids
  BY NumbersOf DEF RunOK, Kinds
<1>2. run["delta"].gap \in Int
  BY <1>1, NumbersOf
<1>3. DeltaLeft \subseteq Uids /\ DeltaLeft \subseteq 0..MaxUid /\ MaxUid \in Nat
  BY <1>1, Numbers DEF DeltaLeft, Batch, Lowest, Uids
<1>4. CASE run["delta"].gap = 0 /\ DeltaLeft # {}
  <2>1. Min(DeltaLeft) \in DeltaLeft /\ \A u \in DeltaLeft : Min(DeltaLeft) <= u
    BY <1>3, <1>4, MinIs
  <2>2. DeltaGap = Min(DeltaLeft)
    BY <1>4 DEF DeltaGap
  <2>3. DeltaGap \in Int
    BY <1>3, <2>1, <2>2, NumbersOf
  <2> QED BY <1>4, <2>1, <2>2, <2>3
<1>5. CASE ~(run["delta"].gap = 0 /\ DeltaLeft # {})
  BY <1>2, <1>5 DEF DeltaGap
<1> QED BY <1>4, <1>5

LEMMA AssignedDelta ==
  ASSUME Typed, Alone, Epochal, Assigned, InBatch,
         DeltaSelect \/ DeltaAdvance \/ DeltaSearch \/ DeltaFetch \/ DeltaStore \/ DeltaFetchFlags
         \/ DeltaStoreFlags \/ DeltaRemove \/ DeltaComplete
  PROVE  Assigned' /\ InBatch'
<1> DEFINE k == "delta"
           r == run[k]
           s == run'[k]
<1>0. /\ pc'["recent"] = "idle" /\ pc'["backfill"] = "idle" /\ k \in Kinds
      /\ \A l \in Steps : Goto(k, l) => pc'[k] = l
  BY HandlerStep, StepAlone DEF Delta, Kinds, Goto, Processes, Typed, RunsOK, ProcessType
<1>1. \A j \in Kinds : j # k => ~Reads(j)'
  BY <1>0 DEF Reads, Reading, Kinds
<1>2. CASE DeltaSelect
  <2>0. server' = server
    BY <1>2, DeltaSelectIs
  <2>1. CASE DeltaOther
    <3>1. local' = <<>> /\ box'.deltaEpoch = 0 /\ box'.backfillEpoch = 0 /\ pc'[k] = "request"
      BY <1>2, <2>1, DeltaSelectIs
    <3> QED BY <1>0, <1>1, <2>0, <3>1, NumbersOf DEF Assigned, InBatch, Reads, Reading, Kinds
  <2>2. CASE ~DeltaOther
    <3>1. /\ local' = local /\ box'.backfillEpoch = box.backfillEpoch /\ box'.frontier = box.frontier
          /\ pc'[k] = IF DeltaEmpty THEN "fetch" ELSE "search"
          /\ DeltaEmpty => box' = box
          /\ ~DeltaEmpty => box'.seen = DeltaFrom
          /\ s.frontier = server.next - 1 /\ s.todo = IF DeltaEmpty THEN InWindow ELSE {}
      BY <1>2, <2>2, DeltaSelectIs
    <3>2. DeltaFirst => DeltaFrom < server.next
      <4> DEFINE f == FirstSeen(server.epoch)
      <4>1. f = 0 \/ <<server.epoch, f>> \in DOMAIN local
        BY FirstSeenIs
      <4>2. \A p \in DOMAIN local : p[1] = server.epoch => p[2] < server.next
        BY DEF Assigned
      <4> HIDE DEF f
      <4>3. f = 0 \/ f < server.next
        BY <4>1, <4>2
      <4>4. f < server.next
        BY <4>3, NumbersOf
      <4> USE DEF f
      <4> QED BY <4>4 DEF DeltaFrom
    <3>3. ~DeltaFirst => box.deltaEpoch = server.epoch /\ DeltaFrom = box.seen
      BY <2>2 DEF DeltaOther, DeltaFrom
    <3>4. box'.deltaEpoch = server.epoch => box'.seen < server.next
      BY <3>1, <3>2, <3>3 DEF Assigned
    <3>5. \A u \in s.todo : u < server.next /\ u <= s.frontier
      <4>1. \A u \in InWindow : u < server.next /\ u \in Int
        BY ServerSets, NumbersOf DEF Typed, InWindow
      <4>2. \A u \in s.todo : u \in InWindow
        BY <3>1
      <4> QED BY <3>1, <4>1, <4>2, NumbersOf
    <3>6. s.frontier < server.next
      BY <3>1, NumbersOf
    <3>7. pc'[k] \in {"fetch", "search"}
      BY <3>1
    <3> QED BY <1>0, <1>1, <2>0, <3>1, <3>4, <3>5, <3>6, <3>7 DEF Assigned, InBatch, Kinds
  <2> QED BY <2>1, <2>2
<1>3. CASE DeltaAdvance
  <2>1. /\ pc[k] = "fetch" /\ pc'[k] = "search" /\ UNCHANGED <<server, local>> /\ r.empty /\ ~s.empty
        /\ s.epoch = r.epoch /\ s.todo = r.todo
        /\ box'.deltaEpoch = r.epoch /\ box'.seen = r.frontier
        /\ box'.backfillEpoch = box.backfillEpoch /\ box'.frontier = box.frontier
    BY <1>3, DeltaAdvanceIs
  <2>2. r.epoch = server.epoch => Reads(k)
    BY <2>1 DEF Reads, Live, Reading
  <2>3. Reads(k)' => Reads(k)
    BY <2>1 DEF Reads, Live, Reading
  <2> QED BY <1>0, <1>1, <2>1, <2>2, <2>3 DEF Assigned, InBatch, Kinds
<1>4. CASE DeltaSearch
  <2>1. /\ pc[k] = "search" /\ pc'[k] = "fetch" /\ UNCHANGED <<server, box, local>> /\ s.empty = r.empty
        /\ s.epoch = r.epoch /\ s.todo \subseteq DOMAIN server.mail
    BY <1>4, DeltaSearchIs
  <2>2. ~r.empty
    BY <2>1 DEF Epochal, DeltaEpoch, Reading
  <2>3. \A u \in s.todo : u < server.next
    BY <2>1, ServerSets DEF Typed
  <2> QED BY <1>0, <1>1, <2>1, <2>2, <2>3 DEF Assigned, InBatch, Kinds
<1>5. CASE DeltaFetch
  <2>1. /\ pc[k] = "fetch" /\ pc'[k] = "store" /\ UNCHANGED <<server, box, local>> /\ Live(k)
        /\ s.todo = r.todo /\ s.epoch = r.epoch /\ s.empty = r.empty /\ s.frontier = r.frontier
        /\ DOMAIN s.got \subseteq Batch(k)' /\ DOMAIN s.got \subseteq DOMAIN server.mail
    BY <1>5, FetchIs DEF DeltaFetch
  <2>2. \A u \in DOMAIN s.got : u < server.next
    BY <2>1, ServerSets DEF Typed
  <2>3. Reads(k)
    BY <2>1 DEF Reads, Reading
  <2> QED BY <1>0, <1>1, <2>1, <2>2, <2>3 DEF Assigned, InBatch, Kinds
<1>6. CASE DeltaStore
  <2>1. /\ pc[k] = "store" /\ pc'[k] = "fetch" /\ UNCHANGED server
        /\ local' = Stored(r.epoch, r.got, Condstore)
        /\ s.todo \subseteq r.todo /\ s.epoch = r.epoch /\ s.empty = r.empty /\ s.frontier = r.frontier
        /\ box'.deltaEpoch = box.deltaEpoch
        /\ box'.backfillEpoch = box.backfillEpoch /\ box'.frontier = box.frontier
        /\ box'.seen = IF ~r.empty /\ r.got # <<>> /\ box.deltaEpoch = r.epoch THEN DeltaThrough ELSE box.seen
    BY <1>6, DeltaStoreIs
  <2>2. Reads(k)' => Reads(k)
    BY <2>1 DEF Reads, Reading, Live
  <2>3. \A p \in DOMAIN local' : p[1] = server.epoch => p[2] < server.next
    BY <1>0, <2>1, AssignedStore
  <2>4. box'.deltaEpoch = server.epoch => box'.seen < server.next
    <3>1. CASE ~r.empty /\ r.got # <<>> /\ box.deltaEpoch = r.epoch /\ box.deltaEpoch = server.epoch
      <4>1. Reads(k) /\ r.seen = box.seen
        BY <2>1, <3>1 DEF Reads, Reading, Live, Epochal, DeltaEpoch
      <4>2. DeltaThrough = r.seen \/ DeltaThrough \in DOMAIN r.got
        BY <2>1, ThroughIs
      <4> QED BY <1>0, <2>1, <3>1, <4>1, <4>2 DEF Assigned
    <3>2. CASE ~(~r.empty /\ r.got # <<>> /\ box.deltaEpoch = r.epoch)
      BY <2>1, <3>2 DEF Assigned
    <3> QED BY <2>1, <3>1, <3>2
  <2> QED BY <1>0, <1>1, <2>1, <2>2, <2>3, <2>4 DEF Assigned, InBatch, Kinds
<1>7. CASE DeltaFetchFlags
  <2>1. /\ pc[k] = "fetch" /\ pc'[k] = "flags" /\ UNCHANGED <<server, box, local>> /\ Live(k)
        /\ s.todo = r.todo /\ s.epoch = r.epoch /\ s.empty = r.empty /\ s.frontier = r.frontier
        /\ DOMAIN s.got \subseteq DOMAIN server.mail
    BY <1>7, DeltaFetchFlagsIs
  <2>2. \A u \in DOMAIN s.got : u < server.next
    BY <2>1, ServerSets DEF Typed
  <2>3. Reads(k)
    BY <2>1 DEF Reads, Reading
  <2> QED BY <1>0, <1>1, <2>1, <2>2, <2>3 DEF Assigned, InBatch, Kinds
<1>8. CASE DeltaStoreFlags \/ DeltaRemove
  <2>1. /\ pc[k] \in {"flags", "removed"} /\ pc'[k] \in {"removed", "complete"} /\ UNCHANGED <<server, run, box>>
        /\ DOMAIN local' \subseteq DOMAIN local
    BY <1>0, <1>8 DEF DeltaStoreFlags, DeltaRemove, Without, Steps
  <2>2. Reads(k)' => Reads(k)
    BY <2>1 DEF Reads, Reading, Live
  <2> QED BY <1>0, <1>1, <2>1, <2>2 DEF Assigned, InBatch, Kinds
<1>9. CASE DeltaComplete
  <2>1. /\ UNCHANGED <<server, local>> /\ pc'[k] \in {"idle", "caught"}
        /\ box'.backfillEpoch = box.backfillEpoch /\ box'.deltaEpoch = box.deltaEpoch
        /\ box'.frontier = box.frontier /\ box'.seen = box.seen
    BY <1>0, <1>9 DEF DeltaComplete, Done, Leave, Throws, Goto, Steps, Typed, RowOK
  <2> QED BY <1>0, <1>1, <2>1 DEF Assigned, InBatch, Reads, Reading, Kinds
<1> QED BY <1>2, <1>3, <1>4, <1>5, <1>6, <1>7, <1>8, <1>9

LEMMA AssignedBackfill ==
  ASSUME Typed, Alone, Epochal, Assigned, InBatch, BackfillStart \/ BackfillSelect \/ BackfillFetch \/ BackfillStore
  PROVE  Assigned' /\ InBatch'
<1> DEFINE k == "backfill"
           r == run[k]
           s == run'[k]
<1>0. /\ pc'["recent"] = "idle" /\ pc'["delta"] = "idle" /\ k \in Kinds
      /\ \A l \in Steps : Goto(k, l) => pc'[k] = l
  BY HandlerStep, StepAlone DEF Backfill, Kinds, Goto, Processes, Typed, RunsOK, ProcessType
<1>1. \A j \in Kinds : j # k => ~Reads(j)'
  BY <1>0 DEF Reads, Reading, Kinds
<1>2. CASE BackfillStart
  <2>1. UNCHANGED <<server, local, box>> /\ pc'[k] \in {"idle", "select"}
    BY <1>0, <1>2 DEF BackfillStart, Done, Leave, Goto, Steps
  <2> QED BY <1>0, <1>1, <2>1 DEF Assigned, InBatch, Reads, Reading, Kinds
<1>3. CASE BackfillSelect
  <2>1. CASE server.epoch = r.epoch
    <3> DEFINE from == IF r.seen = 1 THEN r.frontier ELSE server.next - 1
    <3>1. pc[k] = "select" /\ r.epoch = box.epoch
      BY <1>3 DEF BackfillSelect, Epochal, BackfillEpoch
    <3>2. r.seen = 1 => box.backfillEpoch = server.epoch /\ box.frontier = r.frontier
      BY <2>1, <3>1 DEF Epochal, BackfillEpoch
    <3>3. from < server.next /\ from \in 0..MaxUid
      <4>1. r.frontier \in Uids \cup {0} /\ server.next - 1 \in Uids \cup {0}
        BY <1>0, NumbersOf, ServerSets DEF RunOK, Typed
      <4>2. from \in 0..MaxUid
        BY <4>1, Numbers DEF Uids
      <4> QED BY <3>2, <4>2, NumbersOf DEF Assigned
    <3>4. /\ pc'[k] = "fetch" /\ UNCHANGED <<server, local>>
          /\ box' = [box EXCEPT !.backfill = "running", !.backfillEpoch = r.epoch, !.frontier = from]
          /\ s.frontier = from /\ s.seen = Lower(from) - 1 /\ s.todo \subseteq DOMAIN server.mail
      BY <1>3, <2>1, <3>1, BackfillSelectIs
    <3> HIDE DEF from
    <3>5. box'.frontier = from /\ box'.deltaEpoch = box.deltaEpoch /\ box'.seen = box.seen
      BY <3>4 DEF Typed, RowOK
    <3>6. s.seen <= s.frontier
      BY <3>3, <3>4, LowerIs
    <3>7. \A u \in s.todo : u < server.next
      BY <3>4, ServerSets DEF Typed
    <3> QED BY <1>0, <1>1, <3>3, <3>4, <3>5, <3>6, <3>7 DEF Assigned, InBatch, Kinds
  <2>2. CASE server.epoch # r.epoch
    <3>1. /\ pc'[k] = "request" /\ UNCHANGED <<server, local>> /\ box'.backfillEpoch = 0
          /\ box'.deltaEpoch = box.deltaEpoch /\ box'.seen = box.seen
      BY <1>0, <1>3, <2>2 DEF BackfillSelect, Steps, Typed, RowOK
    <3> QED BY <1>0, <1>1, <3>1, NumbersOf DEF Assigned, InBatch, Reads, Reading, Kinds
  <2> QED BY <2>1, <2>2
<1>4. CASE BackfillFetch
  <2>1. /\ pc[k] = "fetch" /\ pc'[k] \in {"store", "caught"} /\ UNCHANGED <<server, box, local>> /\ Live(k)
        /\ s.todo = r.todo /\ s.seen = r.seen /\ s.frontier = r.frontier
        /\ s.got \in Answers("backfill", r.todo)
    BY <1>4, BackfillFetchIs
  <2>2. DOMAIN s.got \subseteq r.todo \cap DOMAIN server.mail
    BY <2>1 DEF Answers
  <2>3. \A u \in DOMAIN s.got : u < server.next
    BY <2>2, ServerSets DEF Typed
  <2>4. Reads(k)
    BY <2>1 DEF Reads, Reading
  <2> QED BY <1>0, <1>1, <2>1, <2>2, <2>3, <2>4 DEF Assigned, InBatch, Kinds
<1>5. CASE BackfillStore
  <2>1. CASE Unmoved(r)
    <3>1. /\ pc[k] = "store" /\ pc'[k] = "more" /\ UNCHANGED server
          /\ local' = Stored(r.epoch, r.got, Condstore)
          /\ box'.deltaEpoch = box.deltaEpoch /\ box'.seen = box.seen
          /\ box'.backfillEpoch = box.backfillEpoch /\ box'.frontier = r.seen
      BY <1>5, <2>1, BackfillStoreIs
    <3>2. \A p \in DOMAIN local' : p[1] = server.epoch => p[2] < server.next
      BY <1>0, <3>1, AssignedStore
    <3>3. box.backfillEpoch = server.epoch => r.seen < server.next
      <4>1. SUFFICES ASSUME box.backfillEpoch = server.epoch PROVE r.seen < server.next
        OBVIOUS
      <4>2. r.epoch = server.epoch /\ box.frontier = r.frontier
        BY <2>1, <4>1 DEF Unmoved
      <4>3. r.seen <= r.frontier
        BY <3>1, <4>2 DEF Assigned, Reads, Reading, Live
      <4>4. r.seen \in Int /\ r.frontier \in Int
        BY <1>0, NumbersOf DEF RunOK
      <4> QED BY <4>1, <4>2, <4>3, <4>4, NumbersOf DEF Assigned
    <3> QED BY <1>0, <1>1, <3>1, <3>2, <3>3 DEF Assigned, InBatch, Reads, Reading, Kinds
  <2>2. CASE ~Unmoved(r)
    <3>1. pc'[k] = "caught" /\ UNCHANGED <<server, local, box>>
      BY <1>0, <1>5, <2>2 DEF BackfillStore, Throws, Goto, Steps
    <3> QED BY <1>0, <1>1, <3>1 DEF Assigned, InBatch, Reads, Reading, Kinds
  <2> QED BY <2>1, <2>2
<1> QED BY <1>2, <1>3, <1>4, <1>5

LEMMA AssignedKeeps ==
  ASSUME Typed, Alone, Epochal, Assigned, InBatch, [Next]_vars, ~LoseSession
  PROVE  Assigned' /\ InBatch'
BY Splits, QuietOutside, QuietEnds, AssignedQuiet, AssignedOutside, AssignedRecent, AssignedDelta, AssignedBackfill
   DEF Recent, Delta, Backfill

-----------------------------------------------------------------------------
(* What is announced is new.                                               *)

LEMMA ToldQuiet ==
  ASSUME Told, Quiet
  PROVE  Told'
<1>1. pc'["delta"] \in Reading => pc["delta"] = pc'["delta"] /\ run'["delta"] = run["delta"]
  BY DEF Quiet, QuietRuns, Reading, Kinds
<1> QED BY <1>1 DEF Told, Quiet, QuietRow

LEMMA ToldOutside ==
  ASSUME Typed, Told, Environment, ~Toggle
  PROVE  Told'
BY EnvironmentIs DEF program, Told

\* Steps of the other runs: the delta run is idle, and placements stay.
LEMMA ToldApart ==
  ASSUME Told, pc'["delta"] = "idle", UNCHANGED <<alerts, window>>,
         box'.epoch = box.epoch, box'.deltaEpoch = box.deltaEpoch, box'.seen = box.seen,
         DOMAIN local \subseteq DOMAIN local'
  PROVE  Told'
BY DEF Told, Reading

\* The row begins an epoch of which nothing is in the histories.
LEMMA ToldAnew ==
  ASSUME Typed, Told, UNCHANGED <<alerts, window>>, pc'["delta"] \notin Reading,
         box'.epoch \in Int, box.epoch < box'.epoch
  PROVE  Told'
<1>1. \A p \in alerts \cup window : p[1] \in Int
  BY Numbers DEF Typed, HistoryType, Epochs
<1>2. \A p \in alerts \cup window : p[1] <= box'.epoch /\ p[1] # box'.epoch
  BY <1>1, NumbersOf DEF Told
<1> QED BY <1>2 DEF Told

LEMMA ToldRecent ==
  ASSUME Typed, Alone, Epochal, Told, RecentStart \/ RecentSelect \/ RecentFetch \/ RecentStore \/ RecentFinish
  PROVE  Told'
<1> DEFINE k == "recent"
<1>0. pc'["delta"] = "idle" /\ k \in Kinds
  BY HandlerStep, StepAlone DEF Recent, Kinds
<1>1. CASE RecentStart
  BY <1>0, <1>1, ToldApart DEF RecentStart, Typed, RowOK
<1>2. CASE RecentSelect
  <2>1. CASE box.epoch = server.epoch
    <3>1. /\ UNCHANGED <<alerts, window, local>> /\ box'.epoch = box.epoch
          /\ box'.deltaEpoch = box.deltaEpoch /\ box'.seen = box.seen
      BY <1>2, <2>1, RecentSelectIs
    <3> QED BY <1>0, <3>1, ToldApart
  <2>2. CASE box.epoch # server.epoch
    <3>1. UNCHANGED <<alerts, window>> /\ box'.epoch = server.epoch
      BY <1>2, RecentSelectIs
    <3>2. box.epoch < server.epoch
      BY <2>2, NumbersOf DEF Epochal, RowEpoch
    <3> QED BY <1>0, <3>1, <3>2, ToldAnew, NumbersOf DEF Reading
  <2> QED BY <2>1, <2>2
<1>3. CASE RecentFetch
  BY <1>0, <1>3, FetchIs, ToldApart DEF RecentFetch
<1>4. CASE RecentStore
  <2>1. UNCHANGED <<box, alerts, window>> /\ DOMAIN local \subseteq DOMAIN local'
    BY <1>4, RecentStoreIs DEF Stored
  <2> QED BY <1>0, <2>1, ToldApart
<1>5. CASE RecentFinish
  <2> DEFINE e == box.epoch
  <2>1. /\ UNCHANGED <<alerts, local>> /\ box'.epoch = e /\ box'.deltaEpoch = box.deltaEpoch
        /\ box'.seen = box.seen
    BY <1>5 DEF RecentFinish, Typed, RowOK
  <2>2. run[k].epoch = e
    BY <1>5 DEF RecentFinish, Epochal, RecentEpoch, Reading
  <2>3. CASE box.deltaEpoch = e
    <3>1. window' = window
      BY <1>5, <2>2, <2>3 DEF RecentFinish
    <3> QED BY <1>0, <2>1, <3>1, ToldApart
  <2>4. CASE box.deltaEpoch # e
    <3> DEFINE top == FirstSeen(e)
    <3>1. window' = window \cup {<<e, u>> : u \in 1..top}
      BY <1>5, <2>2, <2>4 DEF RecentFinish, FirstSeen
    <3>2. \A p \in window' \ window : p[1] = e /\ p[2] \in 1..top
      BY <3>1
    <3>3. window \subseteq window'
      BY <3>1
    <3>4. top \in Int /\ (top = 0 \/ (top \in Uids /\ <<e, top>> \in DOMAIN local))
      BY FirstSeenIs
    <3> HIDE DEF top
    <3>5. \A p \in window' \ window : \E v \in Uids : <<e, v>> \in DOMAIN local /\ p[2] <= v
      BY <3>2, <3>4
    <3>6. \A p \in window' \ window : p \notin alerts
      BY <2>4, <3>2 DEF Told
    <3>7. \A p \in window' : p[1] <= e
      <4>1. \A p \in window : p[1] <= e
        BY DEF Told
      <4>2. e <= e
        BY NumbersOf
      <4> QED BY <3>2, <4>1, <4>2
    <3>8. alerts' \cap window' = {}
      BY <2>1, <3>6 DEF Told
    <3>9. \A p \in window' : p[1] = e /\ box.deltaEpoch = 0 => \E v \in Uids : <<e, v>> \in DOMAIN local /\ p[2] <= v
      BY <3>5 DEF Told
    <3>10. \A p \in alerts : p[1] <= e /\ p[1] # e
      BY <2>4 DEF Told
    <3> QED BY <1>0, <2>1, <2>4, <3>7, <3>8, <3>9, <3>10 DEF Told, Reading
  <2> QED BY <2>3, <2>4
<1> QED BY <1>1, <1>2, <1>3, <1>4, <1>5

LEMMA ToldBackfill ==
  ASSUME Typed, Alone, Told, BackfillStart \/ BackfillSelect \/ BackfillFetch \/ BackfillStore
  PROVE  Told'
<1>0. pc'["delta"] = "idle" /\ "backfill" \in Kinds
  BY HandlerStep, StepAlone DEF Backfill, Kinds
<1>1. UNCHANGED <<alerts, window>> /\ DOMAIN local \subseteq DOMAIN local'
  BY DEF BackfillStart, BackfillSelect, BackfillFetch, BackfillStore, Stored
<1>2. box'.epoch = box.epoch /\ box'.deltaEpoch = box.deltaEpoch /\ box'.seen = box.seen
  <2>1. CASE BackfillStart \/ BackfillFetch
    BY <2>1 DEF BackfillStart, BackfillFetch
  <2>2. CASE BackfillSelect
    BY <2>2 DEF BackfillSelect, Typed, RowOK
  <2>3. CASE BackfillStore
    BY <2>3 DEF BackfillStore, Typed, RowOK
  <2> QED BY <2>1, <2>2, <2>3
<1> QED BY <1>0, <1>1, <1>2, ToldApart

LEMMA ToldDelta ==
  ASSUME Typed, Alone, Epochal, Assigned, InBatch, Told,
         DeltaSelect \/ DeltaAdvance \/ DeltaSearch \/ DeltaFetch \/ DeltaStore \/ DeltaFetchFlags
         \/ DeltaStoreFlags \/ DeltaRemove \/ DeltaComplete
  PROVE  Told'
<1> DEFINE k == "delta"
           r == run[k]
           s == run'[k]
           e == box.epoch
<1>0. \A l \in Steps : Goto(k, l) => pc'[k] = l
  BY DEF Kinds, Goto, Processes, Typed, RunsOK, ProcessType
<1>1. CASE DeltaSelect
  <2>0. UNCHANGED <<alerts, window>>
    BY <1>1, DeltaSelectIs
  <2>1. CASE e # server.epoch
    <3>1. DeltaOther
      BY <2>1 DEF DeltaOther
    <3>2. box'.epoch = server.epoch /\ pc'[k] = "request"
      BY <1>1, <3>1, DeltaSelectIs
    <3>3. e < server.epoch
      BY <2>1, NumbersOf DEF Epochal, RowEpoch
    <3> QED BY <2>0, <3>2, <3>3, ToldAnew, NumbersOf DEF Reading
  <2>2. CASE e = server.epoch
    <3>1. ~DeltaOther
      BY <2>2 DEF DeltaOther, DeltaFirst, Epochal, RowEpoch
    <3>2. /\ local' = local /\ box'.epoch = e /\ pc'[k] = IF DeltaEmpty THEN "fetch" ELSE "search"
          /\ DeltaEmpty => box' = box
          /\ ~DeltaEmpty => box'.deltaEpoch = e /\ box'.seen = DeltaFrom
          /\ s.empty = DeltaEmpty /\ s.frontier = server.next - 1 /\ s.seen = DeltaFrom
      BY <1>1, <2>2, <3>1, DeltaSelectIs
    <3>3. \A p \in window : p[1] = e => p[2] \in Int
      BY NumbersOf DEF Typed, HistoryType
    <3>4. \A p \in window : p[1] = e /\ DeltaFirst => p[2] <= DeltaFrom /\ p[2] <= server.next - 1
      <4> SUFFICES ASSUME NEW p \in window, p[1] = e, DeltaFirst PROVE p[2] <= DeltaFrom /\ p[2] <= server.next - 1
        OBVIOUS
      <4>1. PICK v \in Uids : <<e, v>> \in DOMAIN local /\ p[2] <= v
        BY DEF Told, DeltaFirst
      <4>2. v <= FirstSeen(e) /\ FirstSeen(e) \in Int
        BY <4>1, FirstSeenIs
      <4>3. DeltaFrom = FirstSeen(e)
        BY <2>2 DEF DeltaFrom
      <4>4. \A q \in DOMAIN local : q[1] = server.epoch => q[2] < server.next
        BY DEF Assigned
      <4>5. v < server.next
        BY <2>2, <4>1, <4>4
      <4> QED BY <3>3, <4>1, <4>2, <4>3, <4>5, NumbersOf
    <3>5. \A p \in window : p[1] = e /\ ~DeltaFirst => p[2] <= DeltaFrom
      BY <3>1 DEF DeltaFrom, DeltaFirst, DeltaOther, Told
    <3>6. CASE DeltaEmpty
      BY <2>0, <3>2, <3>4, <3>6 DEF Told, DeltaEmpty
    <3>7. CASE ~DeltaEmpty
      BY <2>0, <2>2, <3>2, <3>4, <3>5, <3>7, NumbersOf DEF Told
    <3> QED BY <3>6, <3>7
  <2> QED BY <2>1, <2>2
<1>2. CASE DeltaAdvance
  <2>1. /\ pc[k] = "fetch" /\ pc'[k] = "search" /\ r.empty /\ ~s.empty /\ UNCHANGED <<local, alerts, window>>
        /\ box'.epoch = e /\ box'.deltaEpoch = r.epoch /\ box'.seen = r.frontier
    BY <1>2, DeltaAdvanceIs
  <2>2. r.epoch = e /\ e # 0
    BY <2>1 DEF Epochal, DeltaEpoch, Reading, Typed, RunsOK, Kinds
  <2> QED BY <2>1, <2>2 DEF Told, Reading
<1>3. CASE DeltaSearch
  <2>1. /\ pc[k] = "search" /\ pc'[k] = "fetch" /\ UNCHANGED <<local, alerts, window, box>>
        /\ s.empty = r.empty /\ s.todo = {u \in DOMAIN server.mail : u > r.seen}
    BY <1>3, DeltaSearchIs
  <2>2. ~r.empty /\ box.deltaEpoch = e /\ r.seen = box.seen
    BY <2>1 DEF Epochal, DeltaEpoch, Reading
  <2>3. \A u \in s.todo : <<e, u>> \notin window
    <3> SUFFICES ASSUME NEW u \in s.todo, <<e, u>> \in window PROVE FALSE
      OBVIOUS
    <3>1. u <= box.seen
      BY <2>2 DEF Told
    <3>2. u > box.seen /\ u \in Int
      BY <2>1, <2>2, ServerSets, NumbersOf DEF Typed
    <3> QED BY <3>1, <3>2, NumbersOf
  <2> QED BY <2>1, <2>2, <2>3 DEF Told
<1>4. CASE DeltaFetch
  <2>1. /\ pc[k] = "fetch" /\ pc'[k] = "store" /\ UNCHANGED <<local, alerts, window, box>>
        /\ s.empty = r.empty /\ s.todo = r.todo /\ s.frontier = r.frontier
    BY <1>4, FetchIs DEF DeltaFetch
  <2> QED BY <2>1 DEF Told, Reading
<1>5. CASE DeltaStore
  <2>1. /\ pc[k] = "store" /\ pc'[k] = "fetch" /\ UNCHANGED window
        /\ local' = Stored(r.epoch, r.got, Condstore) /\ alerts' = alerts \cup Announced(r)
        /\ box'.epoch = e /\ box'.deltaEpoch = box.deltaEpoch
        /\ box'.seen = IF ~r.empty /\ r.got # <<>> /\ box.deltaEpoch = r.epoch THEN DeltaThrough ELSE box.seen
        /\ s.todo \subseteq r.todo /\ s.empty = r.empty /\ s.frontier = r.frontier
    BY <1>5, DeltaStoreIs
  <2>2. /\ r.epoch = e /\ e # 0 /\ (r.empty => box.deltaEpoch = 0)
        /\ ~r.empty => box.deltaEpoch = e /\ r.seen = box.seen
    BY <2>1 DEF Epochal, DeltaEpoch, Reading, Typed, RunsOK, Kinds
  <2>3. DOMAIN local \subseteq DOMAIN local'
    BY <2>1 DEF Stored
  <2>4. box.seen <= box'.seen /\ box'.seen \in Int
    BY <2>1, <2>2, ThroughIs, NumbersOf
  <2>5. \A p \in Announced(r) : p[1] = e /\ p[2] \in DOMAIN r.got /\ ~r.empty
    BY <2>2 DEF Announced
  <2>6. \A u \in DOMAIN r.got : u \in r.todo
    BY <2>1, NumbersOf DEF InBatch, Batch, Lowest
  <2>7. \A p \in Announced(r) : p \notin window
    <3> SUFFICES ASSUME NEW p \in Announced(r), p \in window PROVE FALSE
      OBVIOUS
    <3>1. p = <<p[1], p[2]>>
      BY DEF Typed, HistoryType
    <3>2. p = <<e, p[2]>> /\ p[2] \in r.todo /\ ~r.empty
      BY <2>5, <2>6, <3>1
    <3> QED BY <2>1, <3>2 DEF Told, Reading
  <2>8. \A p \in window : p[1] = e => p[2] \in Int
    BY NumbersOf DEF Typed, HistoryType
  <2>9. \A p \in window : p[1] = e /\ box'.deltaEpoch = e => p[2] <= box'.seen
    BY <2>1, <2>4, <2>8, NumbersOf DEF Told
  <2>10. \A p \in alerts' \cup window' : p[1] <= e
    BY <2>1, <2>5, NumbersOf DEF Told
  <2>11. \A p \in alerts' : p[1] = e => box'.deltaEpoch = e
    BY <2>1, <2>2, <2>5 DEF Told
  <2>12. alerts' \cap window' = {}
    BY <2>1, <2>7 DEF Told
  <2>13. \A p \in window : p[1] = e /\ box.deltaEpoch = 0 => \E v \in Uids : <<e, v>> \in DOMAIN local' /\ p[2] <= v
    BY <2>3 DEF Told
  <2>14. \A p \in window : p[1] = e /\ r.empty => p[2] <= r.frontier
    BY <2>1 DEF Told, Reading
  <2>15. ~r.empty => \A u \in r.todo : <<e, u>> \notin window
    BY <2>1 DEF Told, Reading
  <2> QED BY <2>1, <2>9, <2>10, <2>11, <2>12, <2>13, <2>14, <2>15 DEF Told
<1>6. CASE DeltaFetchFlags
  <2>1. /\ pc[k] = "fetch" /\ pc'[k] = "flags" /\ UNCHANGED <<local, alerts, window, box>>
        /\ s.empty = r.empty /\ s.todo = r.todo /\ s.frontier = r.frontier
    BY <1>6, DeltaFetchFlagsIs
  <2> QED BY <2>1 DEF Told, Reading
<1>7. CASE DeltaStoreFlags \/ DeltaRemove
  <2>1. /\ pc[k] \in {"flags", "removed"} /\ pc'[k] \in {"removed", "complete"}
        /\ UNCHANGED <<run, box, alerts, window>>
    BY <1>0, <1>7 DEF DeltaStoreFlags, DeltaRemove, Steps
  <2>2. ~r.empty /\ r.epoch = e /\ e # 0 /\ box.deltaEpoch = e
    BY <2>1 DEF Epochal, DeltaEpoch, Reading, Typed, RunsOK, Kinds
  <2> QED BY <2>1, <2>2 DEF Told, Reading
<1>8. CASE DeltaComplete
  <2>1. /\ UNCHANGED <<local, alerts, window>> /\ pc'[k] \in {"idle", "caught"}
        /\ box'.epoch = e /\ box'.deltaEpoch = box.deltaEpoch /\ box'.seen = box.seen
    BY <1>0, <1>8 DEF DeltaComplete, Done, Leave, Throws, Goto, Steps, Typed, RowOK
  <2> QED BY <2>1 DEF Told, Reading
<1> QED BY <1>1, <1>2, <1>3, <1>4, <1>5, <1>6, <1>7, <1>8

LEMMA ToldKeeps ==
  ASSUME Typed, Alone, Epochal, Assigned, InBatch, Told, [Next]_vars, ~LoseSession
  PROVE  Told'
BY Splits, QuietOutside, QuietEnds, ToldQuiet, ToldOutside, ToldRecent, ToldDelta, ToldBackfill
   DEF Recent, Delta, Backfill

-----------------------------------------------------------------------------
(* Flags that differ are newer than the checkpoint.                        *)

LEMMA FollowedQuiet ==
  ASSUME Typed, Followed, Quiet
  PROVE  Followed'
<1>1. \A k \in Kinds : pc'[k] \in Reading => pc[k] = pc'[k] /\ run'[k] = run[k]
  BY DEF Quiet, QuietRuns, Reading
<1>2. \A k \in Kinds : Reads(k)' => Reads(k) /\ pc[k] = pc'[k] /\ run'[k] = run[k]
  BY <1>1 DEF Quiet, Reads, Live
<1>3. "delta" \in Kinds /\ UNCHANGED <<server, local>> /\ box'.modseq = box.modseq /\ box'.epoch = box.epoch
      /\ box'.deltaEpoch = box.deltaEpoch
  BY DEF Quiet, QuietRow, Kinds
<1>4. Older'
  BY <1>1, <1>3 DEF Followed, Older, Kept, FlagsOf
<1>5. Fetched'
  BY <1>2, <1>3 DEF Followed, Fetched, Mark
<1>6. Unasked'
  BY <1>2, <1>3 DEF Followed, Unasked, Kept, FlagsOf
<1>7. Checkpointed'
  BY <1>3 DEF Followed, Checkpointed, Kept, FlagsOf
<1> QED BY <1>4, <1>5, <1>6, <1>7 DEF Followed

\* The flags of what is stored are a MODSEQ.
LEMMA FlagNumbers ==
  ASSUME Typed
  PROVE  /\ \A p \in DOMAIN local : local[p].flags \in Int /\ p[1] \in Int /\ p[2] \in Uids
         /\ \A u \in DOMAIN server.mail : server.mail[u] \in Int /\ server.mail[u] <= server.modseq /\ u \in Uids
         /\ \A k \in Kinds : /\ \A u \in DOMAIN run[k].got : run[k].got[u] \in Int /\ u \in Uids
                             /\ run[k].top \in Int /\ run[k].base \in Int
<1>1. Flags \subseteq Int /\ Epochs \subseteq Int
  BY FlagBound, Numbers DEF Flags, Epochs
<1>2. \A p \in DOMAIN local : local[p].flags \in Int /\ p[1] \in Int /\ p[2] \in Uids
  BY <1>1 DEF Typed, LocalType, Placement
<1>3. \A u \in DOMAIN server.mail : server.mail[u] \in Int /\ server.mail[u] <= server.modseq /\ u \in Uids
  BY <1>1, ServerSets DEF Typed
<1>4. ASSUME NEW k \in Kinds
      PROVE  /\ \A u \in DOMAIN run[k].got : run[k].got[u] \in Int /\ u \in Uids
             /\ run[k].top \in Int /\ run[k].base \in Int
  <2>1. \A i \in Flags \cup {0} : i \in Int
    BY <1>1
  <2>2. RunOK(run[k])
    BY NumbersOf
  <2>3. run[k].top \in Int /\ run[k].base \in Int
    BY <2>1, <2>2, Zenon DEF RunOK
  <2>4. \A u \in DOMAIN run[k].got : run[k].got[u] \in Int /\ u \in Uids
    BY <2>1, <2>2 DEF RunOK
  <2> QED BY <2>3, <2>4
<1> QED BY <1>2, <1>3, <1>4

LEMMA FollowedOutside ==
  ASSUME Typed, Epochal, Assigned, Followed, Environment, ~Toggle
  PROVE  Followed'
<1>1. UNCHANGED <<box, local, pc, run>>
  BY EnvironmentIs DEF program
<1>2. CASE server'.epoch = server.epoch + 1 /\ server'.modseq = server.modseq
  <2>1. box.epoch < server'.epoch /\ box.epoch \in Int
    <3>1. box.epoch <= server.epoch
      BY DEF Epochal, RowEpoch
    <3> QED BY <1>2, <3>1, NumbersOf
  <2>2. \A p \in DOMAIN local : p[1] # server'.epoch
    BY <2>1 DEF Epochal, RowEpoch
  <2>3. \A k \in Kinds : ~Reads(k)'
    BY <1>1, <2>1 DEF Reads, Live, Epochal, RecentEpoch, DeltaEpoch, BackfillEpoch, Kinds
  <2>5. Older'
    BY <1>1, <1>2, <2>2 DEF Followed, Older, Kept
  <2>6. Fetched' /\ Unasked'
    BY <2>3 DEF Fetched, Unasked, Kinds
  <2>7. Checkpointed'
    BY <1>1, <2>1 DEF Checkpointed
  <2> QED BY <2>5, <2>6, <2>7 DEF Followed
<1>3. CASE /\ server'.epoch = server.epoch /\ server.next <= server'.next /\ server.modseq <= server'.modseq
           /\ \A u \in DOMAIN server'.mail :
                \/ u \in DOMAIN server.mail /\ server'.mail[u] = server.mail[u]
                \/ u \in DOMAIN server.mail /\ server'.mail[u] > server.modseq
                \/ u = server.next /\ server'.mail[u] > server.modseq
  <2>1. \A k \in Kinds : Reads(k)' => Reads(k)
    BY <1>1, <1>3 DEF Reads, Live
  <2>2. \A u \in DOMAIN server'.mail : server'.mail[u] \in Int /\ server'.modseq \in Int
    BY EnvironmentTyped, FlagBound DEF Typed, ServerOK, ServerType, Flags
  <2>3. \A u \in DOMAIN server'.mail :
          \/ u \in DOMAIN server.mail /\ server'.mail[u] = server.mail[u]
          \/ /\ server'.mail[u] > server.modseq
             /\ u \notin DOMAIN server.mail => ~Kept(u)' /\ \A k \in Kinds : Reads(k) /\ pc[k] \in {"store", "flags"} => u \notin DOMAIN run[k].got
    <3>1. ~(server.next < server.next)
      BY NumbersOf
    <3>2. <<server'.epoch, server.next>> \notin DOMAIN local'
      BY <1>1, <1>3, <3>1 DEF Assigned
    <3>3. \A k \in Kinds : Reads(k) /\ pc[k] \in {"store", "flags"} => server.next \notin DOMAIN run[k].got
      BY <3>1 DEF Assigned
    <3>4. ASSUME NEW u \in DOMAIN server'.mail, ~(u \in DOMAIN server.mail /\ server'.mail[u] = server.mail[u])
          PROVE  /\ server'.mail[u] > server.modseq
                 /\ u \notin DOMAIN server.mail => u = server.next
      BY <1>3, <3>4
    <3> QED BY <3>2, <3>3, <3>4 DEF Kept
  <2>4. \A u \in DOMAIN server'.mail : Kept(u)' => u \in DOMAIN server.mail /\ Kept(u) /\ FlagsOf(u)' = FlagsOf(u)
    BY <1>1, <1>3, <2>3 DEF Kept, FlagsOf
  <2>5. \A u \in DOMAIN server.mail : Kept(u) => FlagsOf(u) \in Int
    BY FlagNumbers DEF Kept, FlagsOf
  <2>6. Older'
    <3>1. box.modseq <= server'.modseq /\ (box.deltaEpoch = 0 => box.modseq = 0)
      BY <1>3, <2>2, NumbersOf, EnvironmentTyped, FlagBound DEF Followed, Older, Typed, ServerOK, ServerType, Flags
    <3>2. ASSUME NEW u \in DOMAIN server'.mail, Kept(u)' PROVE FlagsOf(u)' <= server'.mail[u]
      <4>1. u \in DOMAIN server.mail /\ FlagsOf(u)' = FlagsOf(u) /\ FlagsOf(u) <= server.mail[u] /\ FlagsOf(u) \in Int
        BY <2>4, <2>5, <3>2 DEF Followed, Older
      <4>2. server.mail[u] <= server.modseq /\ server.mail[u] \in Int
        BY <4>1, FlagNumbers
      <4> QED BY <2>2, <2>3, <3>2, <4>1, <4>2, NumbersOf
    <3>3. pc["delta"] \in Reading =>
            run["delta"].base = box.modseq /\ box.modseq <= run["delta"].top /\ run["delta"].top <= server'.modseq
      <4>1. server'.modseq \in Int /\ run["delta"].top \in Int
        BY EnvironmentTyped, FlagBound, FlagNumbers DEF Typed, ServerOK, ServerType, Flags, Kinds
      <4> QED BY <1>3, <4>1, NumbersOf DEF Followed, Older
    <3> QED BY <1>1, <3>1, <3>2, <3>3 DEF Older
  <2>7. \A k \in Kinds : Reads(k) => Mark(k) <= server.modseq /\ Mark(k) \in Int
    BY FlagNumbers, NumbersOf DEF Followed, Older, Reads, Mark
  <2>8. Fetched'
    <3> SUFFICES ASSUME NEW k \in Kinds, Reads(k), pc[k] \in {"store", "flags"},
                        NEW u \in DOMAIN run[k].got, u \in DOMAIN server'.mail
                 PROVE  /\ run[k].got[u] <= server'.mail[u]
                        /\ run[k].got[u] = server'.mail[u] \/ server'.mail[u] > Mark(k)
      BY <1>1, <2>1 DEF Fetched, Mark
    <3>1. u \in DOMAIN server.mail
      BY <2>3
    <3>2. /\ run[k].got[u] <= server.mail[u] /\ run[k].got[u] \in Int
          /\ run[k].got[u] = server.mail[u] \/ server.mail[u] > Mark(k)
      BY <3>1, FlagNumbers DEF Followed, Fetched
    <3>3. server.mail[u] <= server.modseq /\ server.mail[u] \in Int
      BY <3>1, FlagNumbers
    <3> QED BY <2>2, <2>3, <2>7, <3>2, <3>3, NumbersOf
  <2>9. Unasked'
    <3> DEFINE r == run["delta"]
    <3>1. Reads("delta") => r.top <= server.modseq /\ r.top \in Int
      BY <2>7 DEF Mark, Kinds
    <3>2. "delta" \in Kinds /\ r.top' = r.top /\ run' = run /\ pc' = pc
      BY <1>1 DEF Kinds
    <3>3. ASSUME Reads("delta")', NEW u \in DOMAIN server'.mail
          PROVE  (u \in DOMAIN server.mail /\ server'.mail[u] = server.mail[u]) \/ server'.mail[u] > r.top
      BY <2>1, <2>2, <2>3, <3>1, <3>2, <3>3, NumbersOf
    <3>4. ASSUME Reads("delta")', NEW u \in DOMAIN server'.mail, Kept(u)', u \notin r.known, pc["delta"] \notin {"removed", "complete"}
          PROVE  FlagsOf(u)' = server'.mail[u] \/ server'.mail[u] > r.top
      BY <2>1, <2>4, <3>2, <3>3, <3>4 DEF Followed, Unasked
    <3>5. ASSUME Reads("delta")', pc["delta"] = "flags", NEW u \in DOMAIN server'.mail \ DOMAIN r.got
          PROVE  \/ server'.mail[u] > r.top
                 \/ IF Condstore /\ r.base # 0 THEN server'.mail[u] <= r.base ELSE u \notin r.known
      BY <2>1, <3>2, <3>3, <3>5 DEF Followed, Unasked
    <3>6. ASSUME Reads("delta")', pc["delta"] \in {"removed", "complete"}, NEW u \in DOMAIN server'.mail, Kept(u)'
          PROVE  FlagsOf(u)' = server'.mail[u] \/ server'.mail[u] > r.top
      BY <2>1, <2>4, <3>2, <3>3, <3>6 DEF Followed, Unasked
    <3> QED BY <3>2, <3>4, <3>5, <3>6 DEF Unasked
  <2>10. Checkpointed'
    <3> SUFFICES ASSUME box.epoch = server.epoch, box.modseq # 0, NEW u \in DOMAIN server'.mail, Kept(u)'
                 PROVE  FlagsOf(u)' = server'.mail[u] \/ server'.mail[u] > box.modseq
      BY <1>1, <1>3 DEF Checkpointed
    <3>1. u \in DOMAIN server.mail /\ FlagsOf(u)' = FlagsOf(u) /\ (FlagsOf(u) = server.mail[u] \/ server.mail[u] > box.modseq)
      BY <2>4 DEF Followed, Checkpointed
    <3>2. box.modseq <= server.modseq
      BY DEF Followed, Older
    <3> QED BY <2>2, <2>3, <3>1, <3>2, NumbersOf
  <2> QED BY <2>6, <2>8, <2>9, <2>10 DEF Followed
<1> QED BY <1>2, <1>3, EnvironmentIs

\* What a step that stores the answer of k leaves of the placements.
Writes(k) ==
  \A p \in DOMAIN local' :
    \/ p[1] = run[k].epoch /\ p[2] \in DOMAIN run[k].got /\ local'[p].flags = run[k].got[p[2]]
    \/ /\ p \in DOMAIN local /\ local'[p].flags = local[p].flags
       /\ p[1] = run[k].epoch /\ p[2] \in DOMAIN run[k].got => run[k].got[p[2]] < local[p].flags

LEMMA StoredWrites ==
  ASSUME Typed, NEW k \in Kinds, NEW known, local' = Stored(run[k].epoch, run[k].got, known)
  PROVE  Writes(k)
<1> SUFFICES ASSUME NEW p \in DOMAIN local'
             PROVE  \/ p[1] = run[k].epoch /\ p[2] \in DOMAIN run[k].got /\ local'[p].flags = run[k].got[p[2]]
                    \/ /\ p \in DOMAIN local /\ local'[p].flags = local[p].flags
                       /\ p[1] = run[k].epoch /\ p[2] \in DOMAIN run[k].got => run[k].got[p[2]] < local[p].flags
  BY DEF Writes
<1>1. CASE p[1] # run[k].epoch \/ p[2] \notin DOMAIN run[k].got
  <2>1. p \in DOMAIN local /\ local'[p] = local[p]
    BY <1>1 DEF Stored
  <2> QED BY <1>1, <2>1
<1>2. CASE p[1] = run[k].epoch /\ p[2] \in DOMAIN run[k].got
  <2>1. CASE p \in DOMAIN local /\ Stale(local[p], run[k].got[p[2]], known)
    BY <1>2, <2>1 DEF Stored, Stale
  <2>2. CASE ~(p \in DOMAIN local /\ Stale(local[p], run[k].got[p[2]], known))
    <3>1. local'[p] = [flags |-> run[k].got[p[2]], known |-> known]
      BY <1>2, <2>2 DEF Stored
    <3> QED BY <1>2, <3>1
  <2> QED BY <2>1, <2>2
<1> QED BY <1>1, <1>2

\* An answer of this epoch is true or outdated, and so is what is stored of it.
LEMMA WritesFollow ==
  ASSUME Typed, Older, Fetched, NEW k \in Kinds, pc[k] \in {"store", "flags"}, UNCHANGED server, Writes(k),
         NEW u \in DOMAIN server.mail, Kept(u)'
  PROVE  /\ FlagsOf(u)' <= server.mail[u] /\ FlagsOf(u)' \in Int
         /\ \/ Live(k) /\ u \in DOMAIN run[k].got /\ (FlagsOf(u)' = server.mail[u] \/ server.mail[u] > Mark(k))
            \/ ~(Live(k) /\ u \in DOMAIN run[k].got) /\ Kept(u) /\ FlagsOf(u)' = FlagsOf(u)
<1> DEFINE p == <<server.epoch, u>>
<1>1. p \in DOMAIN local' /\ p[1] = server.epoch /\ p[2] = u /\ FlagsOf(u)' = local'[p].flags
  BY DEF Kept, FlagsOf
<1>2. CASE p[1] = run[k].epoch /\ p[2] \in DOMAIN run[k].got
  <2>1. Live(k) /\ Reads(k) /\ u \in DOMAIN run[k].got
    BY <1>1, <1>2 DEF Live, Reads, Reading
  <2>2. /\ run[k].got[u] <= server.mail[u] /\ run[k].got[u] \in Int /\ server.mail[u] \in Int
        /\ run[k].got[u] = server.mail[u] \/ server.mail[u] > Mark(k)
    BY <2>1, FlagNumbers DEF Fetched
  <2>3. CASE local'[p].flags = run[k].got[u]
    BY <1>1, <2>1, <2>2, <2>3
  <2>4. CASE p \in DOMAIN local /\ local'[p].flags = local[p].flags /\ run[k].got[u] < local[p].flags
    <3>1. local[p].flags \in Int /\ local[p].flags <= server.mail[u]
      BY <2>4, FlagNumbers DEF Older, Kept, FlagsOf
    <3>2. run[k].got[u] # server.mail[u]
      BY <2>2, <2>4, <3>1
    <3> QED BY <1>1, <2>1, <2>2, <2>4, <3>1, <3>2
  <2> QED BY <1>1, <1>2, <2>3, <2>4 DEF Writes
<1>3. CASE ~(p[1] = run[k].epoch /\ p[2] \in DOMAIN run[k].got)
  <2>1. p \in DOMAIN local /\ local'[p].flags = local[p].flags
    BY <1>1, <1>3 DEF Writes
  <2>2. Kept(u) /\ FlagsOf(u)' = FlagsOf(u) /\ FlagsOf(u) <= server.mail[u] /\ FlagsOf(u) \in Int
    BY <1>1, <2>1, FlagNumbers DEF Kept, FlagsOf, Older
  <2>3. ~(Live(k) /\ u \in DOMAIN run[k].got)
    BY <1>1, <1>3 DEF Live
  <2> QED BY <2>2, <2>3
<1> QED BY <1>2, <1>3

\* A step outside of the delta run that leaves the checkpoint.
LEMMA FollowedApart ==
  ASSUME Typed, Followed, UNCHANGED server, pc'["delta"] = "idle", box'.modseq = box.modseq,
         box'.deltaEpoch = box.deltaEpoch, box'.epoch = box.epoch, Fetched',
         \A u \in DOMAIN server.mail : Kept(u)' =>
           /\ FlagsOf(u)' <= server.mail[u]
           /\ \/ FlagsOf(u)' = server.mail[u] \/ server.mail[u] > box.modseq
              \/ Kept(u) /\ FlagsOf(u)' = FlagsOf(u)
  PROVE  Followed'
<1>1. Older'
  BY DEF Followed, Older, Reading
<1>2. Unasked'
  BY DEF Unasked, Reads, Reading
<1>3. Checkpointed'
  BY DEF Followed, Checkpointed
<1> QED BY <1>1, <1>2, <1>3 DEF Followed

LEMMA FollowedRecent ==
  ASSUME Typed, Alone, Epochal, Followed, RecentStart \/ RecentSelect \/ RecentFetch \/ RecentStore \/ RecentFinish
  PROVE  Followed'
<1> DEFINE k == "recent"
<1>0. pc'["delta"] = "idle" /\ pc'["backfill"] = "idle" /\ k \in Kinds
      /\ \A l \in Steps : Goto(k, l) => pc'[k] = l
  BY HandlerStep, StepAlone DEF Recent, Kinds, Goto, Processes, Typed, RunsOK, ProcessType
<1>1. pc'[k] \notin {"store", "flags"} => Fetched'
  BY <1>0 DEF Fetched, Kinds
<1>2. UNCHANGED <<server, local>> => \A u \in DOMAIN server.mail : Kept(u)' =>
        FlagsOf(u)' <= server.mail[u] /\ Kept(u) /\ FlagsOf(u)' = FlagsOf(u)
  BY DEF Kept, FlagsOf, Followed, Older
<1>3. CASE RecentStart
  <2>1. /\ UNCHANGED <<server, local>> /\ pc'[k] \in {"select", "caught"} /\ box'.modseq = box.modseq
        /\ box'.deltaEpoch = box.deltaEpoch /\ box'.epoch = box.epoch
    BY <1>0, <1>3 DEF RecentStart, Throws, Goto, Steps, Typed, RowOK
  <2> QED BY <1>0, <1>1, <1>2, <2>1, FollowedApart
<1>4. CASE RecentSelect
  <2>0. server' = server /\ pc'[k] = "fetch" /\ box'.epoch = server.epoch
    BY <1>4, RecentSelectIs
  <2>1. CASE box.epoch = server.epoch
    <3>1. UNCHANGED local /\ box'.modseq = box.modseq /\ box'.deltaEpoch = box.deltaEpoch
      BY <1>4, <2>1, RecentSelectIs
    <3> QED BY <1>0, <1>1, <1>2, <2>0, <2>1, <3>1, FollowedApart
  <2>2. CASE box.epoch # server.epoch
    <3>1. /\ DOMAIN local' \subseteq DOMAIN local
          /\ box'.modseq = 0 \/ (box'.modseq = box.modseq /\ box'.deltaEpoch = box.deltaEpoch)
      BY <1>4, RecentSelectIs
    <3>2. \A u \in DOMAIN server.mail : ~Kept(u)'
      BY <2>0, <2>2, <3>1 DEF Kept, Epochal, RowEpoch
    <3>3. box'.modseq <= server.modseq /\ (box'.deltaEpoch = 0 => box'.modseq = 0)
      <4>1. 0 <= server.modseq
        BY ServerSets, FlagBound DEF Typed, Flags
      <4> QED BY <3>1, <4>1 DEF Followed, Older
    <3>4. Older' /\ Unasked' /\ Checkpointed'
      BY <1>0, <2>0, <3>2, <3>3 DEF Older, Unasked, Checkpointed, Reads, Reading
    <3> QED BY <1>1, <2>0, <3>4 DEF Followed
  <2> QED BY <2>1, <2>2
<1>5. CASE RecentFetch
  <2>1. /\ UNCHANGED <<server, box, local>> /\ pc'[k] = "store"
        /\ \A u \in DOMAIN run'[k].got : run'[k].got[u] = server.mail[u]
    BY <1>5, FetchIs DEF RecentFetch
  <2>2. Fetched'
    BY <1>0, <2>1, FlagNumbers DEF Fetched, Kinds
  <2> QED BY <1>0, <1>2, <2>1, <2>2, FollowedApart
<1>6. CASE RecentStore
  <2>1. /\ UNCHANGED <<server, box>> /\ pc[k] = "store" /\ pc'[k] = "fetch"
        /\ local' = Stored(run[k].epoch, run[k].got, FALSE)
    BY <1>6, RecentStoreIs
  <2>2. Writes(k)
    BY <1>0, <2>1, StoredWrites
  <2>3. \A u \in DOMAIN server.mail : Kept(u)' =>
          /\ FlagsOf(u)' <= server.mail[u]
          /\ \/ FlagsOf(u)' = server.mail[u] \/ server.mail[u] > box.modseq
             \/ Kept(u) /\ FlagsOf(u)' = FlagsOf(u)
    BY <1>0, <2>1, <2>2, WritesFollow DEF Followed, Mark
  <2> QED BY <1>0, <1>1, <2>1, <2>3, FollowedApart
<1>7. CASE RecentFinish
  <2>1. /\ UNCHANGED <<server, local>> /\ pc'[k] = "follow" /\ box'.modseq = box.modseq
        /\ box'.deltaEpoch = box.deltaEpoch /\ box'.epoch = box.epoch
    BY <1>0, <1>7 DEF RecentFinish, Steps, Typed, RowOK
  <2> QED BY <1>0, <1>1, <1>2, <2>1, FollowedApart
<1> QED BY <1>3, <1>4, <1>5, <1>6, <1>7

LEMMA FollowedBackfill ==
  ASSUME Typed, Alone, Epochal, Followed, BackfillStart \/ BackfillSelect \/ BackfillFetch \/ BackfillStore
  PROVE  Followed'
<1> DEFINE k == "backfill"
<1>0. pc'["delta"] = "idle" /\ pc'["recent"] = "idle" /\ k \in Kinds
      /\ \A l \in Steps : Goto(k, l) => pc'[k] = l
  BY HandlerStep, StepAlone DEF Backfill, Kinds, Goto, Processes, Typed, RunsOK, ProcessType
<1>1. pc'[k] \notin {"store", "flags"} => Fetched'
  BY <1>0 DEF Fetched, Kinds
<1>2. UNCHANGED <<server, local>> => \A u \in DOMAIN server.mail : Kept(u)' =>
        FlagsOf(u)' <= server.mail[u] /\ Kept(u) /\ FlagsOf(u)' = FlagsOf(u)
  BY DEF Kept, FlagsOf, Followed, Older
<1>3. CASE BackfillStart \/ BackfillSelect
  <2>1. UNCHANGED <<server, local>>
    BY <1>3 DEF BackfillStart, BackfillSelect
  <2>2. pc'[k] \in {"idle", "select", "request", "fetch"}
    BY <1>0, <1>3 DEF BackfillStart, BackfillSelect, Done, Leave, Goto, Steps
  <2>3. box'.modseq = box.modseq /\ box'.deltaEpoch = box.deltaEpoch /\ box'.epoch = box.epoch
    <3>1. CASE BackfillStart
      BY <3>1 DEF BackfillStart
    <3>2. CASE BackfillSelect
      BY <3>2 DEF BackfillSelect, Typed, RowOK
    <3> QED BY <1>3, <3>1, <3>2
  <2> QED BY <1>0, <1>1, <1>2, <2>1, <2>2, <2>3, FollowedApart
<1>4. CASE BackfillFetch
  <2>1. /\ UNCHANGED <<server, box, local>>
        /\ run'[k].got \in Answers("backfill", run[k].todo)
    BY <1>4, BackfillFetchIs
  <2>2. \A u \in DOMAIN run'[k].got : run'[k].got[u] = server.mail[u]
    BY <2>1 DEF Answers
  <2>3. Fetched'
    BY <1>0, <2>1, <2>2, FlagNumbers DEF Fetched, Kinds
  <2> QED BY <1>0, <1>2, <2>1, <2>3, FollowedApart
<1>5. CASE BackfillStore /\ Unmoved(run[k])
  <2>1. /\ UNCHANGED server /\ pc[k] = "store" /\ pc'[k] = "more" /\ box'.modseq = box.modseq
        /\ box'.deltaEpoch = box.deltaEpoch /\ box'.epoch = box.epoch
        /\ local' = Stored(run[k].epoch, run[k].got, Condstore)
    BY <1>5, BackfillStoreIs
  <2>2. Writes(k)
    BY <1>0, <2>1, StoredWrites
  <2>3. \A u \in DOMAIN server.mail : Kept(u)' =>
          /\ FlagsOf(u)' <= server.mail[u]
          /\ \/ FlagsOf(u)' = server.mail[u] \/ server.mail[u] > box.modseq
             \/ Kept(u) /\ FlagsOf(u)' = FlagsOf(u)
    BY <1>0, <2>1, <2>2, WritesFollow DEF Followed, Mark
  <2> QED BY <1>0, <1>1, <2>1, <2>3, FollowedApart
<1>6. CASE BackfillStore /\ ~Unmoved(run[k])
  <2>1. UNCHANGED <<server, box, local>> /\ pc'[k] = "caught"
    BY <1>0, <1>6 DEF BackfillStore, Throws, Goto, Steps
  <2> QED BY <1>0, <1>1, <1>2, <2>1, FollowedApart
<1> QED BY <1>3, <1>4, <1>5, <1>6

\* A step within the delta run that leaves its checkpoint and the row's.
LEMMA FollowedWithin ==
  ASSUME Typed, Followed, pc["delta"] \in Reading, pc'["delta"] \in Reading, UNCHANGED server,
         box'.modseq = box.modseq, box'.epoch = box.epoch, box'.deltaEpoch = box.deltaEpoch \/ box'.deltaEpoch # 0,
         run'["delta"].base = run["delta"].base, run'["delta"].top = run["delta"].top,
         Fetched', Unasked',
         \A u \in DOMAIN server.mail : Kept(u)' =>
           /\ FlagsOf(u)' <= server.mail[u]
           /\ \/ FlagsOf(u)' = server.mail[u] \/ server.mail[u] > box.modseq
              \/ Kept(u) /\ FlagsOf(u)' = FlagsOf(u)
  PROVE  Followed'
<1>1. Older'
  BY DEF Followed, Older
<1>2. Checkpointed'
  BY DEF Followed, Checkpointed
<1> QED BY <1>1, <1>2 DEF Followed

LEMMA FollowedDelta ==
  ASSUME Typed, Alone, Epochal, InBatch, Followed,
         DeltaSelect \/ DeltaAdvance \/ DeltaSearch \/ DeltaFetch \/ DeltaStore \/ DeltaFetchFlags
         \/ DeltaStoreFlags \/ DeltaRemove \/ DeltaComplete
  PROVE  Followed'
<1> DEFINE k == "delta"
           r == run[k]
           s == run'[k]
<1>0. pc'["recent"] = "idle" /\ pc'["backfill"] = "idle" /\ k \in Kinds
      /\ \A l \in Steps : Goto(k, l) => pc'[k] = l
  BY HandlerStep, StepAlone DEF Delta, Kinds, Goto, Processes, Typed, RunsOK, ProcessType
<1>1. pc'[k] \notin {"store", "flags"} => Fetched'
  BY <1>0 DEF Fetched, Kinds
<1>2. UNCHANGED <<server, local>> => \A u \in DOMAIN server.mail : Kept(u)' =>
        FlagsOf(u)' <= server.mail[u] /\ Kept(u) /\ FlagsOf(u)' = FlagsOf(u)
  BY DEF Kept, FlagsOf, Followed, Older
<1>3. CASE DeltaSelect
  <2>0. server' = server /\ pc[k] = "select"
    BY <1>3, DeltaSelectIs
  <2>00. 0 <= server.modseq /\ server.modseq <= server.modseq
    BY ServerSets, FlagBound DEF Typed, Flags
  <2>1. CASE DeltaOther
    <3>1. local' = <<>> /\ box'.modseq = 0 /\ pc'[k] = "request"
      BY <1>3, <2>1, DeltaSelectIs
    <3>2. \A u \in DOMAIN server.mail : ~Kept(u)'
      BY <3>1 DEF Kept
    <3> QED BY <1>1, <2>0, <2>00, <3>1, <3>2 DEF Followed, Older, Unasked, Checkpointed, Reads, Reading
  <2>2. CASE ~DeltaOther
    <3>1. /\ local' = local /\ pc'[k] \in {"fetch", "search"} /\ box'.epoch = box.epoch
          /\ DeltaEmpty => box' = box
          /\ ~DeltaEmpty => box'.deltaEpoch = server.epoch /\ box'.modseq = IF DeltaFirst THEN 0 ELSE box.modseq
          /\ s.known = LocalUids(server.epoch) /\ s.base = IF DeltaFirst THEN 0 ELSE box.modseq
          /\ s.top = server.modseq
      BY <1>3, <2>2, DeltaSelectIs
    <3>2. DeltaFirst => box.modseq = 0
      BY DEF DeltaFirst, Followed, Older
    <3>3. s.base = box'.modseq /\ box'.modseq = box.modseq /\ box.modseq <= server.modseq
      BY <3>1, <3>2 DEF Followed, Older
    <3>4. box'.deltaEpoch = 0 => box'.modseq = 0
      BY <3>1, <3>2, NumbersOf DEF DeltaEmpty, DeltaFirst
    <3>5. Older'
      BY <1>2, <2>0, <2>00, <3>1, <3>3, <3>4 DEF Older
    <3>6. \A u \in DOMAIN server.mail : Kept(u)' => u \in s.known
      BY <2>0, <3>1, FlagNumbers DEF Kept, LocalUids
    <3>7. Unasked'
      BY <2>0, <3>1, <3>6 DEF Unasked
    <3>8. Checkpointed'
      BY <1>2, <2>0, <3>1, <3>3 DEF Followed, Checkpointed
    <3> QED BY <1>1, <3>1, <3>5, <3>7, <3>8 DEF Followed
  <2> QED BY <2>1, <2>2
<1>4. CASE DeltaAdvance \/ DeltaSearch
  <2>1. /\ pc[k] \in {"fetch", "search"} /\ pc'[k] \in {"search", "fetch"} /\ UNCHANGED <<server, local>>
        /\ box'.epoch = box.epoch /\ box'.modseq = box.modseq
        /\ box'.deltaEpoch = box.deltaEpoch \/ box'.deltaEpoch = r.epoch
        /\ s.epoch = r.epoch /\ s.known = r.known /\ s.base = r.base /\ s.top = r.top
    <3>1. CASE DeltaAdvance
      BY <3>1, DeltaAdvanceIs
    <3>2. CASE DeltaSearch
      BY <3>2, DeltaSearchIs
    <3> QED BY <1>4, <3>1, <3>2
  <2>2. r.epoch # 0
    BY <1>0, <2>1 DEF Typed, RunsOK, Reading
  <2>3. Unasked'
    BY <2>1 DEF Followed, Unasked, Reads, Reading, Live, Kept, FlagsOf
  <2> QED BY <1>1, <1>2, <2>1, <2>2, <2>3, FollowedWithin DEF Reading
<1>5. CASE DeltaFetch \/ DeltaFetchFlags
  <2>1. /\ pc[k] = "fetch" /\ pc'[k] \in {"store", "flags"} /\ UNCHANGED <<server, box, local>> /\ Live(k)
        /\ s.epoch = r.epoch /\ s.known = r.known /\ s.base = r.base /\ s.top = r.top
        /\ \A u \in DOMAIN s.got : s.got[u] = server.mail[u]
        /\ pc'[k] = "flags" =>
             DOMAIN s.got = IF Condstore /\ r.base # 0 THEN {u \in DOMAIN server.mail : server.mail[u] > r.base}
                            ELSE r.known \cap DOMAIN server.mail
    <3>1. CASE DeltaFetch
      BY <3>1, FetchIs DEF DeltaFetch
    <3>2. CASE DeltaFetchFlags
      BY <3>2, DeltaFetchFlagsIs
    <3> QED BY <1>5, <3>1, <3>2
  <2>2. Fetched'
    BY <1>0, <2>1, FlagNumbers DEF Fetched, Kinds
  <2>3. pc'[k] = "flags" => \A u \in DOMAIN server.mail \ DOMAIN s.got :
          IF Condstore /\ r.base # 0 THEN server.mail[u] <= r.base ELSE u \notin r.known
    <3> SUFFICES ASSUME pc'[k] = "flags", NEW u \in DOMAIN server.mail, u \notin DOMAIN s.got
                 PROVE  IF Condstore /\ r.base # 0 THEN server.mail[u] <= r.base ELSE u \notin r.known
      OBVIOUS
    <3>1. server.mail[u] \in Int /\ r.base \in Int
      BY <1>0, FlagNumbers
    <3> QED BY <2>1, <3>1
  <2>4. Unasked'
    BY <2>1, <2>3 DEF Followed, Unasked, Reads, Reading, Live, Kept, FlagsOf
  <2> QED BY <1>2, <2>1, <2>2, <2>4, FollowedWithin DEF Reading
<1>6. CASE DeltaStore
  <2>1. /\ pc[k] = "store" /\ pc'[k] = "fetch" /\ UNCHANGED server
        /\ local' = Stored(r.epoch, r.got, Condstore)
        /\ box'.epoch = box.epoch /\ box'.modseq = box.modseq /\ box'.deltaEpoch = box.deltaEpoch
        /\ s.epoch = r.epoch /\ s.known = r.known /\ s.base = r.base /\ s.top = r.top
    BY <1>6, DeltaStoreIs
  <2>2. Writes(k)
    BY <1>0, <2>1, StoredWrites
  <2>3. box.modseq <= r.top /\ r.top \in Int
    BY <1>0, <2>1, FlagNumbers DEF Followed, Older, Reading
  <2>4. \A u \in DOMAIN server.mail : Kept(u)' =>
          /\ FlagsOf(u)' <= server.mail[u]
          /\ \/ FlagsOf(u)' = server.mail[u] \/ server.mail[u] > r.top
             \/ Kept(u) /\ FlagsOf(u)' = FlagsOf(u)
    BY <1>0, <2>1, <2>2, WritesFollow DEF Followed, Mark
  <2>5. Unasked'
    BY <2>1, <2>4 DEF Followed, Unasked, Reads, Reading, Live
  <2>6. \A u \in DOMAIN server.mail : server.mail[u] > r.top => server.mail[u] > box.modseq
    BY <2>3, FlagNumbers, NumbersOf
  <2> QED BY <1>1, <2>1, <2>4, <2>5, <2>6, FollowedWithin DEF Reading
<1>7. CASE DeltaStoreFlags
  <2>1. /\ pc[k] = "flags" /\ pc'[k] = "removed" /\ UNCHANGED <<server, box, run>>
        /\ local' = [p \in DOMAIN local |->
             IF p[1] = r.epoch /\ p[2] \in DOMAIN r.got /\ ~Stale(local[p], r.got[p[2]], Condstore)
             THEN [flags |-> r.got[p[2]], known |-> Condstore] ELSE local[p]]
    BY <1>0, <1>7 DEF DeltaStoreFlags, Steps
  <2>2. Writes(k)
    <3> SUFFICES ASSUME NEW p \in DOMAIN local'
                 PROVE  \/ p[1] = r.epoch /\ p[2] \in DOMAIN r.got /\ local'[p].flags = r.got[p[2]]
                        \/ /\ p \in DOMAIN local /\ local'[p].flags = local[p].flags
                           /\ p[1] = r.epoch /\ p[2] \in DOMAIN r.got => r.got[p[2]] < local[p].flags
      BY DEF Writes
    <3>1. CASE p[1] = r.epoch /\ p[2] \in DOMAIN r.got /\ ~Stale(local[p], r.got[p[2]], Condstore)
      <4>1. local'[p] = [flags |-> r.got[p[2]], known |-> Condstore]
        BY <2>1, <3>1
      <4> QED BY <3>1, <4>1
    <3>2. CASE ~(p[1] = r.epoch /\ p[2] \in DOMAIN r.got /\ ~Stale(local[p], r.got[p[2]], Condstore))
      <4>1. p \in DOMAIN local /\ local'[p] = local[p]
        BY <2>1, <3>2
      <4> QED BY <3>2, <4>1 DEF Stale
    <3> QED BY <3>1, <3>2
  <2>3. \A u \in DOMAIN server.mail : Kept(u)' =>
          /\ FlagsOf(u)' <= server.mail[u]
          /\ \/ Live(k) /\ u \in DOMAIN r.got /\ (FlagsOf(u)' = server.mail[u] \/ server.mail[u] > r.top)
             \/ ~(Live(k) /\ u \in DOMAIN r.got) /\ Kept(u) /\ FlagsOf(u)' = FlagsOf(u)
    BY <1>0, <2>1, <2>2, WritesFollow DEF Followed, Mark
  <2>4. ASSUME Live(k), NEW u \in DOMAIN server.mail, Kept(u)'
        PROVE  FlagsOf(u)' = server.mail[u] \/ server.mail[u] > r.top
    <3>1. Reads(k) /\ r.epoch = box.epoch /\ box.epoch = server.epoch /\ r.base = box.modseq
      BY <2>1, <2>4 DEF Reads, Reading, Live, Epochal, DeltaEpoch, Followed, Older
    <3>2. CASE u \in DOMAIN r.got
      BY <2>3, <2>4, <3>2
    <3>3. CASE u \notin DOMAIN r.got
      <4>1. Kept(u) /\ FlagsOf(u)' = FlagsOf(u)
        BY <2>3, <2>4, <3>3
      <4>2. CASE Condstore /\ r.base # 0 /\ server.mail[u] <= r.base
        <5>1. FlagsOf(u) = server.mail[u] \/ server.mail[u] > box.modseq
          BY <3>1, <4>1, <4>2 DEF Followed, Checkpointed
        <5> QED BY <3>1, <4>1, <4>2, <5>1, FlagNumbers, NumbersOf
      <4>3. CASE u \notin r.known
        BY <2>1, <3>1, <4>1, <4>3 DEF Followed, Unasked
      <4> QED BY <2>1, <3>1, <3>3, <4>1, <4>2, <4>3 DEF Followed, Unasked
    <3> QED BY <3>2, <3>3
  <2>5. Unasked'
    <3>1. Live(k)' => Live(k)
      BY <2>1 DEF Live
    <3> QED BY <2>1, <2>4, <3>1 DEF Unasked, Reads
  <2>6. box.modseq <= r.top /\ r.top \in Int
    BY <1>0, <2>1, FlagNumbers DEF Followed, Older, Reading
  <2>7. \A u \in DOMAIN server.mail : server.mail[u] > r.top => server.mail[u] > box.modseq
    BY <2>6, FlagNumbers, NumbersOf
  <2> QED BY <1>1, <2>1, <2>3, <2>5, <2>7, FollowedWithin DEF Reading
<1>8. CASE DeltaRemove
  <2>1. /\ pc[k] = "removed" /\ pc'[k] = "complete" /\ UNCHANGED <<server, box, run>>
        /\ \A p \in DOMAIN local' : p \in DOMAIN local /\ local'[p] = local[p]
    BY <1>0, <1>8 DEF DeltaRemove, Without, Steps
  <2>2. \A u \in DOMAIN server.mail : Kept(u)' => Kept(u) /\ FlagsOf(u)' = FlagsOf(u)
    BY <2>1 DEF Kept, FlagsOf
  <2>3. Unasked'
    BY <2>1, <2>2 DEF Followed, Unasked, Reads, Reading, Live
  <2>4. \A u \in DOMAIN server.mail : Kept(u)' => FlagsOf(u)' <= server.mail[u]
    BY <2>2 DEF Followed, Older
  <2> QED BY <1>1, <2>1, <2>2, <2>3, <2>4, FollowedWithin DEF Reading
<1>9. CASE DeltaComplete
  <2>1. /\ UNCHANGED <<server, local>> /\ pc[k] = "complete" /\ pc'[k] \in {"idle", "caught"}
        /\ box'.epoch = box.epoch /\ box'.deltaEpoch = box.deltaEpoch
        /\ box'.modseq = IF box.deltaEpoch = r.epoch THEN Checkpoint(r) ELSE box.modseq
    BY <1>0, <1>9 DEF DeltaComplete, Done, Leave, Throws, Goto, Steps, Typed, RowOK
  <2>2. r.epoch = box.epoch /\ r.epoch # 0 /\ box.deltaEpoch = box.epoch
    BY <1>0, <2>1 DEF Typed, RunsOK, Reading, Epochal, DeltaEpoch
  <2>3. box'.modseq = IF Condstore THEN r.top ELSE 0
    BY <2>1, <2>2 DEF Checkpoint
  <2>4. box'.modseq <= server.modseq
    <3>1. r.top <= server.modseq /\ 0 <= server.modseq
      BY <2>1, ServerSets, FlagBound DEF Followed, Older, Reading, Typed, Flags
    <3> QED BY <2>3, <3>1
  <2>5. Older'
    BY <1>2, <2>1, <2>2, <2>4 DEF Older, Reading
  <2>6. Checkpointed'
    <3> SUFFICES ASSUME box.epoch = server.epoch, box'.modseq # 0, NEW u \in DOMAIN server.mail, Kept(u)'
                 PROVE  FlagsOf(u)' = server.mail[u] \/ server.mail[u] > box'.modseq
      BY <2>1 DEF Checkpointed
    <3>1. Reads(k)
      BY <2>1, <2>2 DEF Reads, Reading, Live
    <3> QED BY <1>2, <2>1, <2>3, <3>1 DEF Followed, Unasked
  <2>7. Unasked'
    BY <2>1 DEF Unasked, Reads, Reading
  <2> QED BY <1>1, <2>1, <2>5, <2>6, <2>7 DEF Followed
<1> QED BY <1>3, <1>4, <1>5, <1>6, <1>7, <1>8, <1>9

LEMMA FollowedKeeps ==
  ASSUME Typed, Alone, Epochal, Assigned, InBatch, Followed, [Next]_vars, ~LoseSession
  PROVE  Followed'
BY Splits, QuietOutside, QuietEnds, FollowedQuiet, FollowedOutside, FollowedRecent, FollowedDelta, FollowedBackfill
   DEF Recent, Delta, Backfill

-----------------------------------------------------------------------------
(* Nothing is skipped.                                                     *)

\* A step that keeps what exists, and stores nothing above what is missing before
\* the checkpoint is set.
LEMMA RowsStay ==
  ASSUME OldReached, BeforeDelta, Passed, UNCHANGED server,
         box'.deltaEpoch = box.deltaEpoch, box'.backfillEpoch = box.backfillEpoch,
         box'.seen = box.seen, box'.frontier = box.frontier,
         \A u \in DOMAIN server.mail : Kept(u) => Kept(u)',
         \A v \in Uids : Kept(v)' => \/ Kept(v)
                                     \/ box.deltaEpoch = 0 => \A u \in DOMAIN server.mail :
                                          Reached(u) /\ ~Kept(u)' => v < u
  PROVE  OldReached' /\ BeforeDelta' /\ Passed'
<1>1. \A u \in DOMAIN server.mail : Reached(u)' = Reached(u)
  BY DEF Reached
<1>2. OldReached'
  BY <1>1 DEF OldReached
<1>3. BeforeDelta'
  BY <1>1 DEF BeforeDelta
<1>4. Passed'
  BY <1>1 DEF Passed
<1> QED BY <1>2, <1>3, <1>4

\* A step after which the backfill of the epoch has reached nothing.
LEMMA RowsAnew ==
  ASSUME OldReached, UNCHANGED server, \A u \in DOMAIN server.mail : ~Reached(u)'
  PROVE  OldReached' /\ BeforeDelta' /\ Passed'
BY DEF OldReached, BeforeDelta, Passed

LEMMA CoveredQuiet ==
  ASSUME Typed, Covered, Quiet
  PROVE  Covered'
<1>1. \A k \in Kinds : pc'[k] \in Reading => pc[k] = pc'[k] /\ run'[k] = run[k]
  BY DEF Quiet, QuietRuns, Reading
<1>2. \A k \in Kinds : Reads(k)' => Reads(k) /\ pc[k] = pc'[k] /\ run'[k] = run[k]
  BY <1>1 DEF Quiet, Reads, Live
<1>3. \A k \in Kinds : run'[k] = run[k] => Batch(k)' = Batch(k)
  BY DEF Batch, Lowest
<1>4. \A u : Kept(u)' = Kept(u)
  BY DEF Quiet, Kept
<1>5. OldReached' /\ BeforeDelta' /\ Passed'
  BY <1>4, RowsStay DEF Covered, Quiet, QuietRow
<1>6. Swept'
  BY <1>2, <1>3, <1>4 DEF Covered, Swept, Sweeping, Quiet, Kinds
<1>7. Chunked'
  BY <1>2 DEF Covered, Chunked, Quiet, Kinds
<1>8. Advanced'
  BY <1>1, <1>2, <1>4 DEF Covered, Advanced, Quiet, Kinds, Reading
<1> QED BY <1>5, <1>6, <1>7, <1>8 DEF Covered

\* A message that arrives has a UID above all that is known, and old mail does not.
LEMMA CoveredOutside ==
  ASSUME Typed, Epochal, Assigned, Plain, Covered, Environment, ~Toggle
  PROVE  Covered'
<1>1. UNCHANGED <<box, program>> /\ server'.next \in Int
  <2>1. server'.next \in Int
    BY EnvironmentTyped DEF Typed, ServerOK, ServerType
  <2> QED BY <2>1, EnvironmentIs
<1>2. CASE server'.epoch = server.epoch + 1 /\ Starts(server'.next)
  <2>1. box.epoch < server'.epoch /\ server'.epoch # 0 /\ box.epoch \in Int
    <3>1. box.epoch <= server.epoch /\ box.epoch \in Int /\ server.epoch \in Int /\ 1 <= server.epoch
      BY NumbersOf, ServerSets DEF Epochal, RowEpoch, Typed, Epochs
    <3> QED BY <1>2, <3>1
  <2>2. box.deltaEpoch # server'.epoch /\ box.backfillEpoch # server'.epoch
    BY <2>1 DEF Epochal, RowEpoch
  <2>3. \A k \in Kinds : ~Reads(k)'
    BY <1>1, <2>1 DEF program, Reads, Live, Epochal, RecentEpoch, DeltaEpoch, BackfillEpoch, Kinds
  <2>4. \A u : ~Reached(u)'
    BY <1>1, <2>2 DEF Reached
  <2>5. OldReached' /\ BeforeDelta' /\ Passed'
    BY <1>2, <2>4 DEF OldReached, BeforeDelta, Passed, Plain, Starts
  <2>6. Swept' /\ Chunked' /\ Advanced'
    BY <1>1, <2>3 DEF Covered, Swept, Sweeping, Chunked, Advanced, Kinds, program
  <2> QED BY <2>5, <2>6 DEF Covered
<1>3. CASE server'.epoch = server.epoch /\ server.next <= server'.next
             /\ \A u \in DOMAIN server'.mail : u \in DOMAIN server.mail \/ u = server.next
  <2>1. \A k \in Kinds : Reads(k)' = Reads(k) /\ Sweeping(k)' = Sweeping(k) /\ Batch(k)' = Batch(k)
    BY <1>1, <1>3 DEF program, Reads, Live, Sweeping, Batch, Lowest
  <2>2. /\ \A u : Kept(u)' = Kept(u) /\ Reached(u)' = Reached(u)
        /\ \A v \in Uids : Kept(v) => v < server.next
    BY <1>1, <1>3 DEF program, Kept, Reached, Assigned
  <2>3. /\ server.next \in Int /\ ~(server.next < server.next) /\ ~(server.next \in OldDated)
        /\ \A i \in Int : i < server.next => ~(server.next <= i)
    <3>1. OldDated \subseteq 1..server.next - 1 /\ server.next \in Int
      BY NumbersOf DEF Covered, OldReached
    <3> QED BY <3>1
  <2>4. OldReached'
    <3>1. OldDated \subseteq 1..server'.next - 1
      BY <1>1, <1>3, <2>3 DEF Covered, OldReached
    <3> QED BY <1>3, <2>2, <2>3, <3>1 DEF Covered, OldReached
  <2>5. BeforeDelta'
    BY <1>1, <1>3, <2>2 DEF Covered, BeforeDelta
  <2>6. Passed'
    <3>1. box.deltaEpoch = server.epoch => ~(server.next <= box.seen)
      BY <2>3, NumbersOf DEF Assigned
    <3> QED BY <1>1, <1>3, <2>2, <3>1 DEF Covered, Passed
  <2>7. \A k \in Kinds : Reads(k) => (\A v \in run[k].todo : v < server.next) /\ server.next \notin run[k].todo
    BY <2>3 DEF Assigned
  <2>8. Swept'
    <3>1. Sweeping("delta") => server.next > run["delta"].frontier
      <4>1. run["delta"].frontier \in Int
        BY NumbersOf DEF RunOK, Kinds
      <4>2. Sweeping("delta") => run["delta"].frontier < server.next
        BY DEF Sweeping, Assigned
      <4> QED BY <2>3, <4>1, <4>2
    <3>2. \A k \in Kinds : Sweeping(k) => server.next \notin Batch(k)
      BY <2>7 DEF Sweeping, Batch, Lowest
    <3>3. Sweeping("recent") => \A v \in run["recent"].todo : v < server.next
      BY <2>7 DEF Sweeping, Kinds
    <3>4. ASSUME NEW k \in Kinds, Sweeping(k)', pc'[k] = "store"
          PROVE  Batch(k)' \cap DOMAIN server'.mail \subseteq DOMAIN run'[k].got
      BY <1>1, <1>3, <2>1, <3>2, <3>4 DEF Covered, Swept, program
    <3>5. ASSUME Sweeping("recent")', NEW u \in DOMAIN server'.mail \ OldDated
          PROVE  u \in run'["recent"].todo \/ Kept(u)' \/ \A v \in run'["recent"].todo : v < u
      BY <1>1, <1>3, <2>1, <2>2, <3>3, <3>5 DEF Covered, Swept, program, Kinds
    <3>6. ASSUME Sweeping("delta")', NEW u \in DOMAIN server'.mail \ OldDated
          PROVE  u \in run'["delta"].todo \/ Kept(u)' \/ u > run'["delta"].frontier
      BY <1>1, <1>3, <2>1, <2>2, <3>1, <3>6 DEF Covered, Swept, program, Kinds
    <3> QED BY <3>4, <3>5, <3>6 DEF Swept
  <2>9. Chunked'
    <3> DEFINE r == run["backfill"]
    <3>1. Reads("backfill") => ~(server.next <= r.frontier)
      <4>1. r.frontier \in Int
        BY NumbersOf DEF RunOK, Kinds
      <4>2. Reads("backfill") => r.frontier < server.next
        BY DEF Reads, Live, Epochal, BackfillEpoch, Assigned
      <4> QED BY <2>3, <4>1, <4>2
    <3>2. r' = r /\ "backfill" \in Kinds /\ pc' = pc
      BY <1>1 DEF program, Kinds
    <3> HIDE DEF r
    <3>3. Reads("backfill") => server.next \notin r.todo
      BY <2>7, <3>2 DEF r
    <3>4. ASSUME Reads("backfill")
          PROVE  /\ \A u \in DOMAIN server'.mail : r.seen < u /\ u <= r.frontier => u \in r.todo
                 /\ \A u \in r.todo : r.seen < u /\ u <= r.frontier
                 /\ pc["backfill"] = "store" => r.todo \cap DOMAIN server'.mail \subseteq DOMAIN r.got
      BY <1>3, <3>1, <3>3, <3>4 DEF Covered, Chunked, r
    <3> QED BY <2>1, <3>2, <3>4 DEF Chunked, r
  <2>10. Advanced'
    <3> DEFINE r == run["delta"]
    <3>1. r' = r /\ "delta" \in Kinds /\ pc' = pc
      BY <1>1 DEF program, Kinds
    <3>2. Reads("delta") => \A v \in r.todo : v < server.next
      BY <2>7, <3>1
    <3>3. ASSUME Reads("delta"), pc["delta"] \in {"fetch", "store"}, ~r.empty, NEW u \in DOMAIN server'.mail
          PROVE  \/ u <= r.seen \/ u \in r.todo \/ Kept(u)'
                 \/ r.gap # 0 /\ r.gap <= u
                 \/ \A v \in r.todo : v < u
      BY <1>3, <2>2, <3>2, <3>3 DEF Covered, Advanced
    <3> QED BY <2>1, <3>1, <3>3 DEF Covered, Advanced
  <2> QED BY <2>4, <2>5, <2>6, <2>8, <2>9, <2>10 DEF Covered
<1> QED BY <1>2, <1>3, EnvironmentIs

\* Storing keeps what there is, and adds what was read.
LEMMA StoredKeeps ==
  ASSUME NEW k \in Kinds, NEW known, UNCHANGED server, local' = Stored(run[k].epoch, run[k].got, known)
  PROVE  /\ \A u : Kept(u) => Kept(u)'
         /\ \A u : Live(k) /\ u \in DOMAIN run[k].got => Kept(u)'
         /\ \A u : Kept(u)' => Kept(u) \/ (Live(k) /\ u \in DOMAIN run[k].got)
<1>1. DOMAIN local' = DOMAIN local \cup {<<run[k].epoch, u>> : u \in DOMAIN run[k].got}
  BY DEF Stored
<1> QED BY <1>1 DEF Kept, Live

LEMMA CoveredRecent ==
  ASSUME Typed, Alone, Epochal, InBatch, Plain, Covered,
         RecentStart \/ RecentSelect \/ RecentFetch \/ RecentStore \/ RecentFinish
  PROVE  Covered'
<1> DEFINE k == "recent"
           r == run[k]
<1>0. /\ pc'["delta"] = "idle" /\ pc'["backfill"] = "idle" /\ k \in Kinds
      /\ \A l \in Steps : Goto(k, l) => pc'[k] = l
  BY HandlerStep, StepAlone DEF Recent, Kinds, Goto, Processes, Typed, RunsOK, ProcessType
<1>1. Chunked' /\ Advanced'
  BY <1>0 DEF Chunked, Advanced, Reads, Reading
<1>2. pc'[k] \notin Reading => Swept'
  BY <1>0 DEF Swept, Sweeping, Reads, Reading, Kinds
<1>3. CASE RecentStart \/ RecentFinish
  <2>1. UNCHANGED <<server, local>> /\ box'.deltaEpoch = box.deltaEpoch /\ box'.seen = box.seen
        /\ box'.backfillEpoch = box.backfillEpoch /\ box'.frontier = box.frontier
    <3>1. CASE RecentStart
      BY <3>1 DEF RecentStart, Typed, RowOK
    <3>2. CASE RecentFinish
      BY <3>2 DEF RecentFinish, Typed, RowOK
    <3> QED BY <1>3, <3>1, <3>2
  <2>2. pc'[k] \in {"select", "caught", "follow"}
    BY <1>0, <1>3 DEF RecentStart, RecentFinish, Throws, Goto, Steps, Typed, RunsOK, ProcessType
  <2>3. \A u : Kept(u)' = Kept(u)
    BY <2>1 DEF Kept
  <2>4. OldReached' /\ BeforeDelta' /\ Passed'
    BY <2>1, <2>3, RowsStay DEF Covered
  <2> QED BY <1>1, <1>2, <2>2, <2>4 DEF Covered, Reading
<1>4. CASE RecentSelect
  <2>0. server' = server /\ pc'[k] = "fetch" /\ run'[k].todo = InWindow
    BY <1>4, RecentSelectIs
  <2>1. OldReached' /\ BeforeDelta' /\ Passed'
    <3>1. CASE box.epoch # 0 /\ box.epoch # server.epoch
      <4>1. box'.backfillEpoch = 0
        BY <1>4, <3>1, RecentSelectIs
      <4>2. \A u : ~Reached(u)'
        BY <2>0, <4>1, NumbersOf DEF Reached
      <4> QED BY <2>0, <4>2, RowsAnew DEF Covered
    <3>2. CASE ~(box.epoch # 0 /\ box.epoch # server.epoch)
      <4>1. UNCHANGED local /\ box'.deltaEpoch = box.deltaEpoch /\ box'.seen = box.seen
            /\ box'.backfillEpoch = box.backfillEpoch /\ box'.frontier = box.frontier
        BY <1>4, <3>2, RecentSelectIs
      <4>2. \A u : Kept(u)' = Kept(u)
        BY <2>0, <4>1 DEF Kept
      <4> QED BY <2>0, <4>1, <4>2, RowsStay DEF Covered
    <3> QED BY <3>1, <3>2
  <2>2. Swept'
    BY <1>0, <2>0 DEF Swept, Sweeping, Reads, Reading, Kinds, InWindow
  <2> QED BY <1>1, <2>1, <2>2 DEF Covered
<1>5. CASE RecentFetch
  <2>1. /\ pc[k] = "fetch" /\ pc'[k] = "store" /\ UNCHANGED <<server, box, local>> /\ Live(k)
        /\ run'[k].todo = r.todo /\ run'[k].epoch = r.epoch /\ Batch(k)' = Batch(k)
        /\ "recent" \notin MayOmit => DOMAIN run'[k].got = Batch(k) \cap DOMAIN server.mail
    BY <1>5, FetchIs DEF RecentFetch
  <2>2. \A u : Kept(u)' = Kept(u)
    BY <2>1 DEF Kept
  <2>3. OldReached' /\ BeforeDelta' /\ Passed'
    BY <2>1, <2>2, RowsStay DEF Covered
  <2>4. Sweeping(k)
    BY <2>1 DEF Sweeping, Reads, Reading
  <2>5. "recent" \notin MayOmit
    BY DEF Plain
  <2>6. Swept'
    BY <1>0, <2>1, <2>2, <2>4, <2>5 DEF Covered, Swept, Sweeping, Reads, Reading, Kinds
  <2> QED BY <1>1, <2>3, <2>6 DEF Covered
<1>6. CASE RecentStore
  <2>1. /\ UNCHANGED <<server, box>> /\ pc[k] = "store" /\ pc'[k] = "fetch"
        /\ local' = Stored(r.epoch, r.got, FALSE)
        /\ run'[k].epoch = r.epoch /\ run'[k].todo = r.todo \ Batch(k)
    BY <1>6, RecentStoreIs
  <2>2. /\ \A u : Kept(u) => Kept(u)'
        /\ \A u : Live(k) /\ u \in DOMAIN r.got => Kept(u)'
        /\ \A u : Kept(u)' => Kept(u) \/ (Live(k) /\ u \in DOMAIN r.got)
    BY <1>0, <2>1, StoredKeeps
  <2>3. DOMAIN r.got \subseteq Batch(k) /\ Batch(k) \subseteq r.todo
    BY <2>1 DEF InBatch, Batch, Lowest
  <2>4. \A u \in Batch(k) : \A v \in r.todo \ Batch(k) : u < v
    <3>1. r.todo \subseteq Uids /\ BatchSize \in Nat
      BY <1>0, NumbersOf, Numbers DEF RunOK
    <3> QED BY <3>1, LowestIs DEF Batch
  <2>5. Live(k) => Sweeping(k)
    BY <2>1 DEF Sweeping, Reads, Reading
  <2>6. Live(k) => \A u \in Batch(k) \cap DOMAIN server.mail : Kept(u)'
    BY <1>0, <2>1, <2>2, <2>5 DEF Covered, Swept
  <2>7. ASSUME NEW v \in DOMAIN r.got, Live(k), NEW u \in DOMAIN server.mail, Reached(u), ~Kept(u)'
        PROVE  v < u
    <3>1. ~Kept(u) /\ u \notin OldDated
      BY <2>2, <2>7 DEF Covered, OldReached
    <3>2. u \in r.todo \/ \A w \in r.todo : w < u
      BY <2>5, <2>7, <3>1 DEF Covered, Swept
    <3>3. u \notin Batch(k)
      BY <2>6, <2>7
    <3> QED BY <2>3, <2>4, <3>2, <3>3
  <2>8. OldReached' /\ BeforeDelta' /\ Passed'
    BY <2>1, <2>2, <2>7, RowsStay DEF Covered
  <2>9. Sweeping(k)' => Live(k)
    BY <2>1 DEF Sweeping, Reads, Live
  <2>10. ASSUME Sweeping(k)', NEW u \in DOMAIN server'.mail \ OldDated
         PROVE  u \in run'[k].todo \/ Kept(u)' \/ \A v \in run'[k].todo : v < u
    BY <2>1, <2>2, <2>5, <2>6, <2>9, <2>10 DEF Covered, Swept
  <2>11. Swept'
    BY <1>0, <2>1, <2>10 DEF Swept, Sweeping, Reads, Reading, Kinds
  <2> QED BY <1>1, <2>8, <2>11 DEF Covered
<1> QED BY <1>3, <1>4, <1>5, <1>6

LEMMA CoveredBackfill ==
  ASSUME Typed, Alone, Epochal, Assigned, InBatch, Covered,
         BackfillStart \/ BackfillSelect \/ BackfillFetch \/ BackfillStore
  PROVE  Covered'
<1> DEFINE k == "backfill"
           r == run[k]
           s == run'[k]
<1>0. /\ pc'["delta"] = "idle" /\ pc'["recent"] = "idle" /\ k \in Kinds
      /\ \A l \in Steps : Goto(k, l) => pc'[k] = l
  BY HandlerStep, StepAlone DEF Backfill, Kinds, Goto, Processes, Typed, RunsOK, ProcessType
<1>1. Swept' /\ Advanced'
  BY <1>0 DEF Swept, Sweeping, Advanced, Reads, Reading
<1>2. pc'[k] \notin Reading => Chunked'
  BY <1>0 DEF Chunked, Reads
<1>3. UNCHANGED <<server, local, box>> => OldReached' /\ BeforeDelta' /\ Passed'
  <2>1. UNCHANGED <<server, local>> => \A u : Kept(u)' = Kept(u)
    BY DEF Kept
  <2> QED BY <2>1, RowsStay DEF Covered
<1>4. CASE BackfillStart
  <2>1. UNCHANGED <<server, local, box>> /\ pc'[k] \in {"idle", "select"}
    BY <1>0, <1>4 DEF BackfillStart, Done, Leave, Goto, Steps
  <2> QED BY <1>1, <1>2, <1>3, <2>1 DEF Covered, Reading
<1>5. CASE BackfillSelect
  <2>0. pc[k] = "select" /\ r.epoch = box.epoch /\ UNCHANGED <<server, local>>
    BY <1>5 DEF BackfillSelect, Epochal, BackfillEpoch
  <2>00. \A u : Kept(u)' = Kept(u)
    BY <2>0 DEF Kept
  <2>1. CASE server.epoch # r.epoch
    <3>1. pc'[k] = "request" /\ box'.backfillEpoch = 0
      BY <1>0, <1>5, <2>1 DEF BackfillSelect, Steps, Typed, RowOK
    <3>2. \A u : ~Reached(u)'
      BY <2>0, <3>1, NumbersOf DEF Reached
    <3> QED BY <1>1, <1>2, <2>0, <3>1, <3>2, RowsAnew DEF Covered, Reading
  <2>2. CASE server.epoch = r.epoch
    <3> DEFINE from == IF r.seen = 1 THEN r.frontier ELSE server.next - 1
    <3>1. r.seen = 1 => box.backfillEpoch = server.epoch /\ box.frontier = r.frontier
      BY <2>0, <2>2 DEF Epochal, BackfillEpoch
    <3>2. from \in 0..MaxUid /\ from \in Int
      <4>1. r.frontier \in Uids \cup {0} /\ server.next - 1 \in Uids \cup {0}
        BY <1>0, NumbersOf, ServerSets DEF RunOK, Typed
      <4> QED BY <4>1, Numbers DEF Uids
    <3>3. r.seen # 1 => \A u \in DOMAIN server.mail : ~(u > from)
      <4>1. \A u \in DOMAIN server.mail : u < server.next /\ u \in Int
        BY ServerSets, NumbersOf DEF Typed
      <4> QED BY <4>1, NumbersOf
    <3>4. /\ pc'[k] = "fetch"
          /\ box' = [box EXCEPT !.backfill = "running", !.backfillEpoch = r.epoch, !.frontier = from]
          /\ s.frontier = from /\ s.seen = Lower(from) - 1 /\ s.todo = DOMAIN server.mail \cap Lower(from)..from
      BY <1>5, <2>0, <2>2, BackfillSelectIs
    <3> HIDE DEF from
    <3>5. /\ box'.frontier = from /\ box'.backfillEpoch = server.epoch
          /\ box'.deltaEpoch = box.deltaEpoch /\ box'.seen = box.seen
      BY <2>2, <3>4 DEF Typed, RowOK
    <3>6. OldReached' /\ BeforeDelta' /\ Passed'
      <4>1. CASE r.seen = 1
        <5>1. box'.frontier = box.frontier /\ box'.backfillEpoch = box.backfillEpoch
          BY <3>1, <3>5, <4>1 DEF from
        <5> QED BY <2>0, <2>00, <3>5, <5>1, RowsStay DEF Covered
      <4>2. CASE r.seen # 1
        <5>1. \A u \in DOMAIN server.mail : ~Reached(u)'
          BY <2>0, <3>3, <3>5, <4>2 DEF Reached
        <5> QED BY <2>0, <5>1, RowsAnew DEF Covered
      <4> QED BY <4>1, <4>2
    <3>7. Chunked'
      <4>1. Lower(from) \in Int /\ \A u \in DOMAIN server.mail : u \in Int
        BY <3>2, LowerIs, ServerSets, NumbersOf DEF Typed
      <4>2. \A u \in DOMAIN server.mail : s.seen < u /\ u <= s.frontier => u \in s.todo
        BY <3>2, <3>4, <4>1
      <4>3. \A u \in s.todo : s.seen < u /\ u <= s.frontier
        BY <3>2, <3>4, <4>1
      <4> QED BY <2>0, <3>4, <4>2, <4>3 DEF Chunked
    <3> QED BY <1>1, <3>6, <3>7 DEF Covered
  <2> QED BY <2>1, <2>2
<1>6. CASE BackfillFetch
  <2>1. /\ pc[k] = "fetch" /\ pc'[k] \in {"store", "caught"} /\ UNCHANGED <<server, box, local>> /\ Live(k)
        /\ s.epoch = r.epoch /\ s.todo = r.todo /\ s.seen = r.seen /\ s.frontier = r.frontier
        /\ pc'[k] = "store" => r.todo \cap DOMAIN server.mail \subseteq DOMAIN s.got
    BY <1>6, BackfillFetchIs
  <2>2. Reads(k)
    BY <2>1 DEF Reads, Reading
  <2>3. Chunked'
    BY <2>1, <2>2 DEF Covered, Chunked
  <2> QED BY <1>1, <1>3, <2>1, <2>3 DEF Covered
<1>7. CASE BackfillStore /\ Unmoved(r)
  <2>1. /\ UNCHANGED server /\ pc[k] = "store" /\ pc'[k] = "more"
        /\ local' = Stored(r.epoch, r.got, Condstore)
        /\ box'.deltaEpoch = box.deltaEpoch /\ box'.seen = box.seen
        /\ box'.backfillEpoch = box.backfillEpoch /\ box'.frontier = r.seen
    BY <1>7, BackfillStoreIs
  <2>2. box.backfillEpoch = r.epoch /\ box.frontier = r.frontier /\ r.epoch # 0
    BY <1>0, <1>7, <2>1 DEF Unmoved, Typed, RunsOK, Reading
  <2>3. /\ \A u : Kept(u) => Kept(u)'
        /\ \A u : Live(k) /\ u \in DOMAIN r.got => Kept(u)'
        /\ \A u : Kept(u)' => Kept(u) \/ (Live(k) /\ u \in DOMAIN r.got)
    BY <1>0, <2>1, StoredKeeps
  <2>4. CASE ~Live(k)
    <3>1. \A u : ~Reached(u)'
      BY <2>1, <2>2, <2>4 DEF Reached, Live
    <3> QED BY <1>1, <1>2, <2>1, <3>1, RowsAnew DEF Covered, Reading
  <2>5. CASE Live(k)
    <3>1. Reads(k)
      BY <2>1, <2>5 DEF Reads, Reading
    <3>2. /\ \A u \in DOMAIN server.mail : r.seen < u /\ u <= r.frontier => u \in r.todo
          /\ \A u \in r.todo : r.seen < u /\ u <= r.frontier
          /\ r.todo \cap DOMAIN server.mail \subseteq DOMAIN r.got
          /\ DOMAIN r.got \subseteq r.todo
      BY <2>1, <3>1 DEF Covered, Chunked, InBatch
    <3>3. r.seen \in Int /\ r.frontier \in Int /\ \A u \in DOMAIN server.mail : u \in Int
      BY <1>0, NumbersOf, ServerSets DEF RunOK, Typed
    <3>4. \A u \in DOMAIN server.mail : Reached(u)' => Kept(u)' \/ (Reached(u) /\ u > r.frontier)
      <4> SUFFICES ASSUME NEW u \in DOMAIN server.mail, Reached(u)' PROVE Kept(u)' \/ (Reached(u) /\ u > r.frontier)
        OBVIOUS
      <4>1. u > r.seen /\ box.backfillEpoch = server.epoch
        BY <2>1 DEF Reached
      <4>2. CASE u <= r.frontier
        BY <2>3, <2>5, <3>2, <4>1, <4>2, <3>3
      <4>3. CASE u > r.frontier
        BY <2>2, <4>1, <4>3 DEF Reached
      <4> QED BY <3>3, <4>2, <4>3
    <3>5. OldReached'
      BY <2>1, <2>3, <3>4 DEF Covered, OldReached
    <3>6. BeforeDelta'
      <4> SUFFICES ASSUME box.deltaEpoch = 0, NEW u \in DOMAIN server.mail, Reached(u)', ~Kept(u)',
                          NEW v \in Uids, Kept(v)'
                   PROVE  v < u
        BY <2>1 DEF BeforeDelta
      <4>1. Reached(u) /\ u > r.frontier /\ ~Kept(u)
        BY <2>3, <3>4
      <4>2. CASE Kept(v)
        BY <4>1, <4>2 DEF Covered, BeforeDelta
      <4>3. CASE v \in DOMAIN r.got
        <5>1. v <= r.frontier /\ v \in Int
          BY <3>2, <4>3, NumbersOf
        <5> QED BY <3>3, <4>1, <5>1
      <4> QED BY <2>3, <4>2, <4>3
    <3>7. Passed'
      BY <2>1, <2>3, <3>4 DEF Covered, Passed
    <3> QED BY <1>1, <1>2, <2>1, <3>5, <3>6, <3>7 DEF Covered, Reading
  <2> QED BY <2>4, <2>5
<1>8. CASE BackfillStore /\ ~Unmoved(r)
  <2>1. UNCHANGED <<server, box, local>> /\ pc'[k] = "caught"
    BY <1>0, <1>8 DEF BackfillStore, Throws, Goto, Steps
  <2> QED BY <1>1, <1>2, <1>3, <2>1 DEF Covered, Reading
<1> QED BY <1>4, <1>5, <1>6, <1>7, <1>8

LEMMA CoveredDelta ==
  ASSUME Typed, Alone, Epochal, Assigned, InBatch, Plain, Covered,
         DeltaSelect \/ DeltaAdvance \/ DeltaSearch \/ DeltaFetch \/ DeltaStore \/ DeltaFetchFlags
         \/ DeltaStoreFlags \/ DeltaRemove \/ DeltaComplete
  PROVE  Covered'
<1> DEFINE k == "delta"
           r == run[k]
           s == run'[k]
<1>0. /\ pc'["recent"] = "idle" /\ pc'["backfill"] = "idle" /\ k \in Kinds
      /\ \A l \in Steps : Goto(k, l) => pc'[k] = l
  BY HandlerStep, StepAlone DEF Delta, Kinds, Goto, Processes, Typed, RunsOK, ProcessType
<1>1. Chunked' /\ ~Sweeping("recent")' /\ ~Sweeping("backfill")'
  BY <1>0 DEF Chunked, Sweeping, Reads, Reading
<1>2. pc'[k] \notin Reading => Swept' /\ Advanced'
  BY <1>0, <1>1 DEF Swept, Sweeping, Advanced, Reads, Reading, Kinds
<1>3. ~s.empty => Swept'
  BY <1>0, <1>1 DEF Swept, Sweeping, Kinds
<1>4. UNCHANGED <<server, local>> => \A u : Kept(u)' = Kept(u)
  BY DEF Kept
<1>5. CASE DeltaSelect
  <2>0. server' = server /\ pc[k] = "select"
    BY <1>5, DeltaSelectIs
  <2>1. CASE DeltaOther
    <3>1. box'.backfillEpoch = 0 /\ pc'[k] = "request"
      BY <1>5, <2>1, DeltaSelectIs
    <3>2. \A u : ~Reached(u)'
      BY <2>0, <3>1, NumbersOf DEF Reached
    <3> QED BY <1>1, <1>2, <2>0, <3>1, <3>2, RowsAnew DEF Covered, Reading
  <2>2. CASE ~DeltaOther
    <3>1. /\ local' = local /\ box'.backfillEpoch = box.backfillEpoch /\ box'.frontier = box.frontier
          /\ pc'[k] = IF DeltaEmpty THEN "fetch" ELSE "search"
          /\ DeltaEmpty => box' = box
          /\ ~DeltaEmpty => box'.deltaEpoch = server.epoch /\ box'.seen = DeltaFrom
          /\ s.empty = DeltaEmpty /\ s.frontier = server.next - 1 /\ s.gap = 0
          /\ s.todo = IF DeltaEmpty THEN InWindow ELSE {}
      BY <1>5, <2>2, DeltaSelectIs
    <3>2. \A u : Kept(u)' = Kept(u) /\ Reached(u)' = Reached(u)
      BY <2>0, <3>1 DEF Kept, Reached
    <3>3. ~DeltaFirst => box.deltaEpoch = server.epoch /\ DeltaFrom = box.seen
      BY <2>2 DEF DeltaOther, DeltaFrom
    <3>4. OldReached'
      BY <2>0, <3>2 DEF Covered, OldReached
    <3>5. BeforeDelta'
      BY <2>0, <3>1, <3>2, NumbersOf DEF Covered, BeforeDelta
    <3>6. Passed'
      <4>1. CASE DeltaEmpty
        BY <2>0, <3>1, <3>2, <4>1 DEF Covered, Passed
      <4>2. CASE ~DeltaFirst
        BY <2>0, <3>1, <3>2, <3>3, <4>2 DEF Covered, Passed, DeltaEmpty
      <4>3. CASE DeltaFirst /\ ~DeltaEmpty
        <5> DEFINE f == FirstSeen(server.epoch)
        <5>1. box'.seen = f
          BY <3>1, <4>3 DEF DeltaFrom
        <5>2. f = 0 \/ (f \in Uids /\ Kept(f))
          BY FirstSeenIs DEF Kept
        <5> HIDE DEF f
        <5> SUFFICES ASSUME NEW u \in DOMAIN server.mail, Reached(u), ~Kept(u), u <= f PROVE FALSE
          BY <2>0, <3>2, <5>1 DEF Passed
        <5>3. u \in Int /\ u >= 1
          BY ServerSets, NumbersOf DEF Typed
        <5>4. f # 0 => f < u /\ f \in Int
          BY <4>3, <5>2, NumbersOf DEF Covered, BeforeDelta, DeltaFirst
        <5> QED BY <5>3, <5>4
      <4> QED BY <4>1, <4>2, <4>3
    <3>7. Swept'
      <4>1. CASE DeltaEmpty
        BY <1>0, <1>1, <2>0, <3>1, <4>1 DEF Swept, Kinds, InWindow
      <4> QED BY <1>3, <3>1, <4>1
    <3>8. Advanced'
      BY <3>1 DEF Advanced
    <3> QED BY <1>1, <3>4, <3>5, <3>6, <3>7, <3>8 DEF Covered
  <2> QED BY <2>1, <2>2
<1>6. CASE DeltaAdvance
  <2>1. /\ pc[k] = "fetch" /\ pc'[k] = "search" /\ UNCHANGED <<server, local>> /\ r.empty /\ ~s.empty
        /\ s.epoch = r.epoch /\ r.todo = {} /\ s.gap = r.gap
        /\ box'.deltaEpoch = r.epoch /\ box'.seen = r.frontier
        /\ box'.backfillEpoch = box.backfillEpoch /\ box'.frontier = box.frontier
    BY <1>6, DeltaAdvanceIs
  <2>2. \A u : Kept(u)' = Kept(u) /\ Reached(u)' = Reached(u)
    BY <1>4, <2>1 DEF Reached
  <2>3. OldReached'
    BY <2>1, <2>2 DEF Covered, OldReached
  <2>4. r.epoch # 0
    BY <1>0, <2>1 DEF Typed, RunsOK, Reading
  <2>5. BeforeDelta'
    BY <2>1, <2>4 DEF BeforeDelta
  <2>6. Passed'
    <3> SUFFICES ASSUME r.epoch = server.epoch, NEW u \in DOMAIN server.mail, Reached(u), u <= r.frontier
                 PROVE  Kept(u)
      BY <2>1, <2>2 DEF Passed
    <3>1. Sweeping(k)
      BY <2>1 DEF Sweeping, Reads, Live, Reading
    <3>2. u \in Int /\ r.frontier \in Int
      BY <1>0, ServerSets, NumbersOf DEF Typed, RunOK
    <3>3. u \in OldDated => Kept(u)
      BY DEF Covered, OldReached
    <3>4. u \notin OldDated => Kept(u) \/ u > r.frontier
      BY <2>1, <3>1 DEF Covered, Swept
    <3> QED BY <3>2, <3>3, <3>4
  <2>7. Advanced'
    BY <2>1 DEF Covered, Advanced, Reading
  <2> QED BY <1>1, <1>3, <2>1, <2>3, <2>5, <2>6, <2>7 DEF Covered
<1>7. CASE DeltaSearch
  <2>1. /\ pc[k] = "search" /\ pc'[k] = "fetch" /\ UNCHANGED <<server, box, local>> /\ s.empty = r.empty
        /\ s.epoch = r.epoch /\ s.seen = r.seen /\ s.gap = r.gap /\ s.todo = {u \in DOMAIN server.mail : u > r.seen}
    BY <1>7, DeltaSearchIs
  <2>2. ~r.empty /\ r.gap = 0
    BY <2>1 DEF Epochal, DeltaEpoch, Reading, Covered, Advanced
  <2>3. OldReached' /\ BeforeDelta' /\ Passed'
    BY <1>4, <2>1, RowsStay DEF Covered
  <2>4. \A u \in DOMAIN server.mail : u <= r.seen \/ u \in s.todo
    <3>1. r.seen \in Int /\ \A u \in DOMAIN server.mail : u \in Int
      BY <1>0, ServerSets, NumbersOf DEF Typed, RunOK
    <3> QED BY <2>1, <3>1
  <2>5. Advanced'
    BY <2>1, <2>2, <2>4 DEF Advanced
  <2> QED BY <1>1, <1>3, <2>1, <2>2, <2>3, <2>5 DEF Covered
<1>8. CASE DeltaFetch
  <2>1. /\ pc[k] = "fetch" /\ pc'[k] = "store" /\ UNCHANGED <<server, box, local>> /\ Live(k)
        /\ s.todo = r.todo /\ s.epoch = r.epoch /\ s.empty = r.empty /\ s.frontier = r.frontier
        /\ s.seen = r.seen /\ s.gap = r.gap /\ Batch(k)' = Batch(k)
    BY <1>8, FetchIs DEF DeltaFetch
  <2>2. r.empty => DOMAIN s.got = Batch(k) \cap DOMAIN server.mail
    <3>1. r.empty => Fetch(k, "empty")
      BY <1>8 DEF DeltaFetch
    <3>2. "empty" \notin MayOmit
      BY DEF Plain
    <3>3. Fetch(k, "empty") => DOMAIN s.got = Batch(k) \cap DOMAIN server.mail
      BY <3>2, FetchIs
    <3> QED BY <3>1, <3>3
  <2>3. OldReached' /\ BeforeDelta' /\ Passed'
    BY <1>4, <2>1, RowsStay DEF Covered
  <2>4. Reads(k)
    BY <2>1 DEF Reads, Reading
  <2>5. Swept'
    <3>1. CASE r.empty
      <4>1. Sweeping(k)
        BY <2>4, <3>1 DEF Sweeping
      <4> QED BY <1>0, <1>1, <1>4, <2>1, <2>2, <3>1, <4>1 DEF Covered, Swept, Kinds
    <3> QED BY <1>3, <2>1, <3>1
  <2>6. Advanced'
    <3>1. \A u : Kept(u)' = Kept(u)
      BY <1>4, <2>1
    <3> QED BY <2>1, <2>4, <3>1 DEF Covered, Advanced, Reading
  <2> QED BY <1>1, <2>3, <2>5, <2>6 DEF Covered
<1>9. CASE DeltaStore
  <2>1. /\ UNCHANGED server /\ pc[k] = "store" /\ pc'[k] = "fetch"
        /\ local' = Stored(r.epoch, r.got, Condstore)
        /\ box'.epoch = box.epoch /\ box'.deltaEpoch = box.deltaEpoch
        /\ box'.backfillEpoch = box.backfillEpoch /\ box'.frontier = box.frontier
        /\ box'.seen = IF ~r.empty /\ r.got # <<>> /\ box.deltaEpoch = r.epoch THEN DeltaThrough ELSE box.seen
        /\ s.epoch = r.epoch /\ s.todo = r.todo \ Batch(k) /\ s.empty = r.empty /\ s.frontier = r.frontier
        /\ s.gap = IF r.empty THEN 0 ELSE DeltaGap
        /\ s.seen = IF r.empty \/ r.got = <<>> THEN r.seen ELSE DeltaThrough
    BY <1>9, DeltaStoreIs
  <2>2. /\ \A u : Kept(u) => Kept(u)'
        /\ \A u : Live(k) /\ u \in DOMAIN r.got => Kept(u)'
        /\ \A u : Kept(u)' => Kept(u) \/ (Live(k) /\ u \in DOMAIN r.got)
    BY <1>0, <2>1, StoredKeeps
  <2>3. DOMAIN r.got \subseteq Batch(k) /\ Batch(k) \subseteq r.todo
    BY <2>1 DEF InBatch, Batch, Lowest
  <2>4. \A u \in Batch(k) : \A v \in r.todo \ Batch(k) : u < v
    <3>1. r.todo \subseteq Uids /\ BatchSize \in Nat
      BY <1>0, NumbersOf, Numbers DEF RunOK
    <3> QED BY <3>1, LowestIs DEF Batch
  <2>5. /\ r.seen \in Int /\ r.gap \in Int /\ r.frontier \in Int /\ \A u \in r.todo : u \in Int /\ u >= 1
        /\ \A u \in DOMAIN server.mail : u \in Int
    <3>1. /\ r.seen \in Uids \cup {0} /\ r.gap \in Uids \cup {0} /\ r.frontier \in Uids \cup {0}
          /\ r.todo \subseteq Uids /\ DOMAIN server.mail \subseteq Uids
      BY <1>0, NumbersOf, ServerSets DEF Typed, RunOK
    <3> QED BY <3>1, NumbersOf
  <2>6. Live(k) => Reads(k)
    BY <2>1 DEF Reads, Reading
  <2>7. CASE r.empty
    <3>1. r.epoch = box.epoch /\ box.deltaEpoch = 0 /\ box'.seen = box.seen
      BY <2>1, <2>7 DEF Epochal, DeltaEpoch, Reading
    <3>2. Live(k) => Sweeping(k)
      BY <2>6, <2>7 DEF Sweeping
    <3>3. Live(k) => \A u \in Batch(k) \cap DOMAIN server.mail : Kept(u)'
      BY <1>0, <2>1, <2>2, <3>2 DEF Covered, Swept
    <3>4. ASSUME NEW v \in DOMAIN r.got, Live(k), NEW u \in DOMAIN server.mail, Reached(u), ~Kept(u)'
          PROVE  v < u
      <4>1. ~Kept(u) /\ u \notin OldDated
        BY <2>2, <3>4 DEF Covered, OldReached
      <4>2. u \in r.todo \/ u > r.frontier
        BY <3>2, <3>4, <4>1 DEF Covered, Swept
      <4>3. u \notin Batch(k)
        BY <3>3, <3>4
      <4>4. v \in Batch(k) /\ v \in r.todo /\ v <= r.frontier
        BY <2>3, <2>6, <2>7, <3>4 DEF Assigned
      <4>5. u > r.frontier => v < u
        BY <2>5, <4>4
      <4> QED BY <2>4, <4>2, <4>3, <4>4, <4>5
    <3>5. OldReached' /\ BeforeDelta' /\ Passed'
      BY <2>1, <2>2, <3>1, <3>4, RowsStay DEF Covered
    <3>6. Sweeping(k)' => Live(k)
      BY <2>1 DEF Sweeping, Reads, Live
    <3>7. ASSUME Sweeping(k)', NEW u \in DOMAIN server'.mail \ OldDated
          PROVE  u \in s.todo \/ Kept(u)' \/ u > s.frontier
      BY <2>1, <2>2, <3>2, <3>3, <3>6, <3>7 DEF Covered, Swept
    <3>8. Swept'
      BY <1>0, <1>1, <2>1, <3>7 DEF Swept, Kinds
    <3>9. Advanced'
      BY <2>1, <2>7 DEF Advanced
    <3> QED BY <1>1, <3>5, <3>8, <3>9 DEF Covered
  <2>8. CASE ~r.empty
    <3>1. r.epoch = box.epoch /\ box.deltaEpoch = r.epoch /\ r.seen = box.seen /\ r.epoch # 0
      BY <1>0, <2>1, <2>8 DEF Epochal, DeltaEpoch, Reading, Typed, RunsOK
    <3>2. Swept'
      BY <1>3, <2>1, <2>8
    <3>3. /\ DeltaGap \in Int /\ (r.gap # 0 => DeltaGap = r.gap)
          /\ r.gap = 0 => \/ DeltaLeft = {} /\ DeltaGap = 0
                          \/ DeltaGap \in DeltaLeft /\ \A u \in DeltaLeft : DeltaGap <= u
          /\ DeltaThrough \in Int /\ r.seen <= DeltaThrough
          /\ DeltaThrough = r.seen \/ (DeltaThrough \in DOMAIN r.got /\ (DeltaGap = 0 \/ DeltaThrough < DeltaGap))
      BY <2>1, GapIs, ThroughIs
    <3>4. s.seen = r.seen \/ s.seen = DeltaThrough
      BY <2>1
    <3>5. r.gap # 0 => \A v \in r.todo : r.gap < v
      BY <2>1 DEF Covered, Advanced
    <3>6. DeltaLeft \subseteq Batch(k) /\ DeltaLeft \subseteq r.todo
      BY <2>3 DEF DeltaLeft
    <3>7. \A u \in DeltaLeft : DeltaGap # 0 /\ DeltaGap <= u
      BY <2>5, <3>3, <3>5, <3>6
    <3>8. Live(k) => \A u \in DOMAIN server.mail :
            \/ u <= r.seen \/ u \in r.todo \/ Kept(u)
            \/ r.gap # 0 /\ r.gap <= u
            \/ \A v \in r.todo : v < u
      BY <2>1, <2>6, <2>8 DEF Covered, Advanced
    <3>9. ASSUME Live(k), NEW u \in DOMAIN server.mail
          PROVE  \/ u <= r.seen \/ Kept(u)'
                 \/ u \in s.todo
                 \/ DeltaGap # 0 /\ DeltaGap <= u
                 \/ \A v \in r.todo : v < u
      <4>1. CASE u \in Batch(k)
        BY <2>2, <3>7, <3>9, <4>1 DEF DeltaLeft
      <4>2. CASE u \notin Batch(k)
        BY <2>1, <2>2, <3>3, <3>8, <3>9, <4>2
      <4> QED BY <4>1, <4>2
    <3>10. Advanced'
      <4>1. Reads(k)' => Live(k)
        BY <2>1 DEF Reads, Live
      <4>2. ASSUME Reads(k)', NEW u \in DOMAIN server.mail
            PROVE  \/ u <= s.seen \/ u \in s.todo \/ Kept(u)'
                   \/ s.gap # 0 /\ s.gap <= u
                   \/ \A v \in s.todo : v < u
        <5>1. u <= r.seen => u <= s.seen
          BY <2>5, <3>3, <3>4
        <5> QED BY <2>1, <2>8, <3>9, <4>1, <4>2, <5>1
      <4>3. s.gap # 0 => \A v \in s.todo : s.gap < v
        BY <2>1, <2>4, <2>8, <3>3, <3>5, <3>6
      <4> QED BY <2>1, <2>8, <4>2, <4>3 DEF Advanced
    <3>11. \A u : Reached(u)' = Reached(u)
      BY <2>1 DEF Reached
    <3>12. OldReached'
      BY <2>1, <2>2, <3>11 DEF Covered, OldReached
    <3>13. BeforeDelta'
      BY <2>1, <3>1 DEF BeforeDelta
    <3>14. Passed'
      <4> SUFFICES ASSUME box.deltaEpoch = server.epoch, NEW u \in DOMAIN server.mail, Reached(u), u <= box'.seen
                   PROVE  Kept(u)'
        BY <2>1, <3>11 DEF Passed
      <4>1. Live(k)
        BY <3>1 DEF Live
      <4>2. CASE u <= box.seen
        BY <2>2, <4>2 DEF Covered, Passed
      <4>3. CASE ~(u <= box.seen)
        <5>1. box'.seen = DeltaThrough /\ DeltaThrough \in DOMAIN r.got /\ (DeltaGap = 0 \/ DeltaThrough < DeltaGap)
          BY <2>1, <3>1, <3>3, <4>3
        <5>2. DeltaThrough \in r.todo /\ u <= DeltaThrough
          BY <2>3, <5>1
        <5>3. ~(DeltaGap # 0 /\ DeltaGap <= u) /\ ~(\A v \in r.todo : v < u)
          BY <2>5, <3>3, <5>1, <5>2
        <5>4. u \notin s.todo
          <6>1. \A v \in r.todo \ Batch(k) : DeltaThrough < v /\ v \in Int
            BY <2>3, <2>4, <2>5, <5>1
          <6>2. ~(DeltaThrough < u)
            BY <2>5, <3>3, <5>2
          <6> QED BY <2>1, <6>1, <6>2
        <5> QED BY <3>1, <3>9, <4>1, <4>3, <5>3, <5>4
      <4> QED BY <4>2, <4>3
    <3> QED BY <1>1, <3>2, <3>10, <3>12, <3>13, <3>14 DEF Covered
  <2> QED BY <2>7, <2>8
<1>10. CASE DeltaFetchFlags
  <2>1. /\ pc[k] = "fetch" /\ pc'[k] = "flags" /\ UNCHANGED <<server, box, local>> /\ ~r.empty
        /\ s.empty = r.empty
    BY <1>10, DeltaFetchFlagsIs
  <2>2. OldReached' /\ BeforeDelta' /\ Passed'
    BY <1>4, <2>1, RowsStay DEF Covered
  <2>3. Advanced'
    BY <2>1 DEF Advanced
  <2> QED BY <1>1, <1>3, <2>1, <2>2, <2>3 DEF Covered
<1>11. CASE DeltaStoreFlags \/ DeltaRemove
  <2>1. /\ pc[k] \in {"flags", "removed"} /\ pc'[k] \in {"removed", "complete"} /\ UNCHANGED <<server, run, box>>
        /\ DOMAIN local' \subseteq DOMAIN local
        /\ \A u \in DOMAIN server.mail : Kept(u) => Kept(u)'
    <3>1. CASE DeltaStoreFlags
      BY <1>0, <3>1 DEF DeltaStoreFlags, Steps, Kept
    <3>2. CASE DeltaRemove
      BY <1>0, <3>2 DEF DeltaRemove, Without, Steps, Kept
    <3> QED BY <1>11, <3>1, <3>2
  <2>2. ~r.empty
    BY <2>1 DEF Epochal, DeltaEpoch, Reading
  <2>3. \A v : Kept(v)' => Kept(v)
    BY <2>1 DEF Kept
  <2>4. OldReached' /\ BeforeDelta' /\ Passed'
    BY <2>1, <2>3, RowsStay DEF Covered
  <2>5. Advanced'
    BY <2>1, <2>2 DEF Advanced
  <2> QED BY <1>1, <1>3, <2>1, <2>2, <2>4, <2>5 DEF Covered
<1>12. CASE DeltaComplete
  <2>1. /\ UNCHANGED <<server, local>> /\ pc'[k] \in {"idle", "caught"}
        /\ box'.backfillEpoch = box.backfillEpoch /\ box'.deltaEpoch = box.deltaEpoch
        /\ box'.frontier = box.frontier /\ box'.seen = box.seen
    BY <1>0, <1>12 DEF DeltaComplete, Done, Leave, Throws, Goto, Steps, Typed, RowOK
  <2>2. OldReached' /\ BeforeDelta' /\ Passed'
    BY <1>4, <2>1, RowsStay DEF Covered
  <2> QED BY <1>1, <1>2, <2>1, <2>2 DEF Covered, Reading
<1> QED BY <1>5, <1>6, <1>7, <1>8, <1>9, <1>10, <1>11, <1>12

LEMMA CoveredKeeps ==
  ASSUME Typed, Alone, Epochal, Assigned, InBatch, Plain, Covered, [Next]_vars, ~LoseSession
  PROVE  Covered'
BY Splits, QuietOutside, QuietEnds, CoveredQuiet, CoveredOutside, CoveredRecent, CoveredDelta, CoveredBackfill
   DEF Recent, Delta, Backfill

-----------------------------------------------------------------------------
(* The theorems.                                                           *)

LEMMA SoundStarts == Init => Sound
<1> SUFFICES ASSUME Init PROVE Sound
  OBVIOUS
<1>1. PICK n \in 1..MaxUid : \E present \in SUBSET (1..n - 1) :
        /\ Starts(n)
        /\ server = [epoch |-> 1, next |-> n, modseq |-> 1, mail |-> [u \in present |-> 1]]
  BY DEF Init
<1>2. /\ server.epoch = 1 /\ server.next = n /\ server.modseq = 1
  BY <1>1
<1>3. \A k \in Kinds : pc[k] = "idle"
  BY DEF Init, Kinds, Processes
<1>4. box = NewBox /\ DOMAIN local = {} /\ alerts = {} /\ window = {}
  BY DEF Init
<1>5. /\ box.epoch = 0 /\ box.deltaEpoch = 0 /\ box.backfillEpoch = 0 /\ box.modseq = 0 /\ box.frontier = 0
      /\ box.seen = 0 /\ box.backfill = "not_started"
  BY <1>4 DEF NewBox
<1>6. \A u : ~Kept(u) /\ ~Reached(u)
  BY <1>2, <1>4, <1>5 DEF Kept, Reached
<1>7. \A k \in Kinds : ~Reads(k)
  BY <1>3 DEF Reads, Reading
<1>8. Alone
  BY <1>3 DEF Alone
<1>9. Epochal
  BY <1>2, <1>3, <1>4, <1>5
     DEF Epochal, RowEpoch, RecentEpoch, DeltaEpoch, BackfillEpoch, Reading, Kinds
<1>10. Assigned /\ InBatch
  BY <1>2, <1>3, <1>4, <1>5, <1>7 DEF Assigned, InBatch, Kinds
<1>11. Told
  BY <1>3, <1>4 DEF Told, Reading, Kinds
<1>12. Followed
  BY <1>2, <1>3, <1>5, <1>6, <1>7 DEF Followed, Older, Fetched, Unasked, Checkpointed, Reading, Kinds
<1>13. ASSUME Plain PROVE Covered
  <2>1. OldDated \subseteq 1..server.next - 1
    BY <1>1, <1>2, <1>13 DEF Plain, Starts
  <2>2. OldReached /\ BeforeDelta /\ Passed
    BY <1>6, <2>1 DEF OldReached, BeforeDelta, Passed
  <2>3. Swept /\ Chunked /\ Advanced
    BY <1>3, <1>7 DEF Swept, Sweeping, Chunked, Advanced, Reading, Kinds
  <2> QED BY <2>2, <2>3 DEF Covered
<1> QED BY <1>8, <1>9, <1>10, <1>11, <1>12, <1>13 DEF Sound

\* While no session is lost, what the runs rely on of each other stays true.
LEMMA SoundKeeps ==
  ASSUME Typed, Sound, [Next]_vars, ~LoseSession
  PROVE  Sound'
<1>1. Alone' /\ Epochal' /\ Assigned' /\ InBatch' /\ Told' /\ Followed'
  BY AloneKeeps, EpochKeeps, AssignedKeeps, ToldKeeps, FollowedKeeps DEF Sound
<1>2. Plain' = Plain
  BY DEF Plain
<1>3. ASSUME Plain PROVE Covered'
  BY <1>3, CoveredKeeps DEF Sound
<1> QED BY <1>1, <1>2, <1>3 DEF Sound

\* Every step of the server, the runs, the queues and the faults keeps the types;
\* and until the session of a lock is lost it keeps the runs apart, the row,
\* placements and runs in one epoch, answers and checkpoints in their bounds,
\* and what is not stored in front of the delta run or of the backfill.
THEOREM InvariantHolds == Spec => []IInv
<1>1. Init => IInv
  BY TypeStarts, SoundStarts DEF IInv
<1>2. IInv /\ [Next]_vars => IInv'
  <2> SUFFICES ASSUME IInv, [Next]_vars PROVE IInv'
    OBVIOUS
  <2>1. Typed /\ Typed' /\ (UNCHANGED vars \/ budget'.lost = budget.lost \/ LoseSession)
    BY TypeKeeps DEF IInv
  <2>2. LoseSession => budget'.lost = budget.lost + 1
    BY <2>1, LoseTyped
  <2>3. budget.lost \in Nat /\ (UNCHANGED vars => budget'.lost = budget.lost)
    BY <2>1 DEF Typed, ServerOK, vars
  <2>4. budget'.lost = 0 => budget.lost = 0 /\ ~LoseSession
    BY <2>1, <2>2, <2>3
  <2>5. budget'.lost = 0 => Sound'
    BY <2>1, <2>4, SoundKeeps DEF IInv
  <2> QED BY <2>1, <2>5 DEF IInv
<1> QED BY <1>1, <1>2, PTL DEF Spec

\* The fields of the row, the placements, the locals of the handlers and the
\* queues keep their types whatever the server does, whatever fails, and also
\* after sessions of the lock were lost.
THEOREM TypeCorrect == Spec => []TypeOK
<1>1. IInv => TypeOK
  BY TypedIs DEF IInv
<1> QED BY <1>1, InvariantHolds, PTL

\* A backfill that is called complete has reached the first UID of the epoch that
\* is shown, and placements, the delta checkpoint and the backfill frontier are of
\* one epoch: recent, delta and backfill runs reset each other's state when they
\* find another UIDVALIDITY, and the lock of the mailbox orders them.
THEOREM EpochsAgree == Spec => [](budget.lost = 0 => OneEpoch)
<1>1. IInv => (budget.lost = 0 => OneEpoch)
  <2> SUFFICES ASSUME IInv, budget.lost = 0 PROVE OneEpoch
    OBVIOUS
  <2>1. TypeOK
    BY TypedIs DEF IInv
  <2>2. RowEpoch
    BY DEF IInv, Sound, Epochal
  <2> QED BY <2>1, <2>2 DEF OneEpoch, RowEpoch
<1> QED BY <1>1, InvariantHolds, PTL

\* Mail that was there when the window was read first is never announced as new,
\* by no delta run, however the runs, retries and renumberings interleave.
THEOREM ArrivalsAnnounced == Spec => []AlertsAreArrivals
<1>1. IInv => AlertsAreArrivals
  BY DEF IInv, Sound, Told, AlertsAreArrivals
<1> QED BY <1>1, InvariantHolds, PTL

\* A placement whose flags differ from the server's has changed there after the
\* MODSEQ checkpoint, so the next delta run asks for it: no change of flags that
\* races a fetch, a window without MODSEQ or a backfill is lost.
THEOREM FlagsFollow == Spec => []FlagsWillFollow
<1>1. IInv => FlagsWillFollow
  <2> SUFFICES ASSUME IInv, budget.lost = 0, Current, box.modseq # 0, NEW u \in DOMAIN server.mail,
                      <<server.epoch, u>> \in DOMAIN local, local[<<server.epoch, u>>].flags # server.mail[u]
               PROVE  server.mail[u] > box.modseq
    BY DEF FlagsWillFollow
  <2>1. Checkpointed
    BY DEF IInv, Sound, Followed
  <2> QED BY <2>1 DEF Checkpointed, Current, Kept, FlagsOf
<1> QED BY <1>1, InvariantHolds, PTL

\* No message is skipped: one that is not stored is above the delta checkpoint or
\* below the frontier that the backfill has still to reach, unless the server
\* leaves messages out of the window's own FETCH or old mail is moved in later.
THEOREM NothingIsSkipped ==
  ASSUME Plain
  PROVE  Spec => [](budget.lost = 0 => NothingSkipped)
<1>1. IInv => (budget.lost = 0 => NothingSkipped)
  <2> SUFFICES ASSUME IInv, budget.lost = 0, Current, NEW u \in DOMAIN server.mail,
                      ~(u > box.seen), box.backfillEpoch = server.epoch, ~(u <= box.frontier)
               PROVE  <<server.epoch, u>> \in DOMAIN local
    BY DEF NothingSkipped
  <2>1. u \in Int /\ box.seen \in Int /\ box.frontier \in Int
    BY NumbersOf, ServerSets DEF IInv, Typed
  <2>2. Reached(u) /\ u <= box.seen
    BY <2>1 DEF Reached
  <2>3. Passed
    BY DEF IInv, Sound, Covered
  <2> QED BY <2>2, <2>3 DEF Passed, Current, Kept
<1> QED BY <1>1, InvariantHolds, PTL

-----------------------------------------------------------------------------
(* Notifications of what synchronization announces *)

CONSTANTS Tabs, NewsKinds, Page, MaxNews, MaxMounts, MaxAsks, MaxFaults
VARIABLES sequence, newsCheckpoint, wanted, event, tab, stray, shown, opened, excluded, newsBudget

News == INSTANCE Notifications WITH
  Kinds <- NewsKinds, MaxEvents <- MaxNews, checkpoint <- newsCheckpoint, budget <- newsBudget

\* What an answer tells is below the checkpoint and was not shown, and no two answers tell the same.
ToldOnce ==
  /\ \A s \in News!Seqs : shown[s] \in {0, 1} /\ (shown[s] = 1 => s <= newsCheckpoint)
  /\ \A t \in Tabs : \A s \in tab[t].answer : s <= newsCheckpoint /\ shown[s] = 0
  /\ \A t, u \in Tabs : t # u => tab[t].answer \cap tab[u].answer = {}

\* A tab polls only once its start has passed over what was there when it was opened.
StartedLater ==
  \A t \in Tabs :
    /\ opened[t] \in 0..sequence
    /\ tab[t].started \/ tab[t].pc = "answered" => opened[t] <= newsCheckpoint

\* What is still to be told and was not wanted at some time is not wanted now.
NotWanted == \A s \in excluded : s \in DOMAIN event /\ s > newsCheckpoint => event[s].kind \notin wanted

NewsInv ==
  /\ News!TypeOK /\ ToldOnce /\ StartedLater /\ NotWanted
  /\ excluded \subseteq 1..sequence /\ shown \in [News!Seqs -> Nat] /\ opened \in [Tabs -> Nat]

NewsTab == [pc : {"gone", "idle", "asks", "answered"}, started : BOOLEAN,
         answer : SUBSET News!Seqs, seen : SUBSET News!Seqs]
EventRow == [kind : NewsKinds, is : News!States]

LEMMA NewsInitHolds == ASSUME News!NotificationsAssumption, News!Init PROVE NewsInv
<1>1. MaxNews \in Nat
  BY DEF News!NotificationsAssumption
<1>2. News!Gone \in NewsTab /\ News!Gone.answer = {} /\ ~News!Gone.started /\ News!Gone.pc = "gone"
  BY DEF News!Gone, NewsTab
<1>3. /\ tab \in [Tabs -> NewsTab] /\ \A t \in Tabs : tab[t] = News!Gone
      /\ DOMAIN event = {} /\ sequence = 0 /\ newsCheckpoint = 0 /\ wanted = {} /\ excluded = {} /\ stray = {}
      /\ shown = [s \in News!Seqs |-> 0] /\ opened = [t \in Tabs |-> 0]
  BY <1>2 DEF News!Init
<1>4. News!TypeOK
  BY <1>1, <1>3 DEF News!TypeOK, NewsTab
<1>5. ToldOnce /\ StartedLater /\ NotWanted
  BY <1>2, <1>3 DEF ToldOnce, StartedLater, NotWanted
<1> QED BY <1>3, <1>4, <1>5 DEF NewsInv

LEMMA NewsFacts ==
  ASSUME News!NotificationsAssumption, NewsInv
  PROVE  /\ sequence \in Nat /\ newsCheckpoint \in Nat /\ newsCheckpoint <= sequence /\ sequence <= MaxNews /\ MaxNews \in Nat
         /\ tab \in [Tabs -> NewsTab] /\ DOMAIN event \subseteq 1..sequence /\ 1..sequence \subseteq News!Seqs
         /\ \A s \in DOMAIN event : event[s] \in EventRow
         /\ excluded \subseteq 1..sequence /\ shown \in [News!Seqs -> Nat] /\ opened \in [Tabs -> Nat]
         /\ News!Gone \in NewsTab /\ News!Gone.answer = {} /\ ~News!Gone.started /\ News!Gone.pc = "gone"
BY DEF News!NotificationsAssumption, NewsInv, News!TypeOK, NewsTab, EventRow, News!Seqs, News!Gone

\* The checkpoint passes over what is told.
LEMMA ConsumeDoes ==
  ASSUME News!NotificationsAssumption, NewsInv, NEW action \in {"start", "poll"}, News!Consume(action)
  PROVE  /\ UNCHANGED <<sequence, wanted>> /\ newsCheckpoint' \in Nat /\ newsCheckpoint <= newsCheckpoint' /\ newsCheckpoint' <= sequence
         /\ action = "start" => newsCheckpoint' = sequence
         /\ action = "poll" => \A s \in News!Delivered : s <= newsCheckpoint'
         /\ \A s \in News!Delivered : s \in DOMAIN event /\ s > newsCheckpoint /\ event[s].kind \in wanted
         /\ DOMAIN event' \subseteq DOMAIN event /\ \A s \in DOMAIN event' : event'[s] = event[s]
<1>1. /\ News!Rows \subseteq 0..sequence /\ \A s \in News!Rows : s \in DOMAIN event /\ s \in Nat /\ s > newsCheckpoint /\ s <= sequence
      /\ News!Delivered \subseteq News!Rows
  BY NewsFacts DEF News!Rows, News!Pending, News!Kept, News!Delivered
<1>2. News!Read \in Nat /\ newsCheckpoint <= News!Read /\ News!Read <= sequence /\ \A s \in News!Rows : s <= News!Read
  <2>1. CASE News!Rows = {}
    BY <2>1, NewsFacts DEF News!Read
  <2>2. CASE News!Rows # {}
    <3>1. \E s \in News!Rows : \A q \in News!Rows : q <= s
      BY <1>1, <2>2, NewsFacts, HasGreatest
    <3>2. News!Read \in News!Rows /\ \A q \in News!Rows : q <= News!Read
      BY <2>2, <3>1, Zenon DEF News!Read
    <3> QED BY <1>1, <3>2, NewsFacts
  <2> QED BY <2>1, <2>2
<1>3. /\ UNCHANGED <<sequence, wanted>> /\ newsCheckpoint' = IF action = "start" THEN sequence ELSE News!Read
      /\ event' = [s \in News!Kept |-> event[s]]
  BY DEF News!Consume, News!Started
<1>4. DOMAIN event' \subseteq DOMAIN event /\ \A s \in DOMAIN event' : event'[s] = event[s]
  BY <1>3 DEF News!Kept
<1>5. \A s \in News!Delivered : s \in DOMAIN event /\ s > newsCheckpoint /\ event[s].kind \in wanted
  BY <1>1 DEF News!Delivered
<1>6. /\ newsCheckpoint' \in Nat /\ newsCheckpoint <= newsCheckpoint' /\ newsCheckpoint' <= sequence
      /\ action = "start" => newsCheckpoint' = sequence
  BY <1>2, <1>3, NewsFacts
<1>7. action = "poll" => \A s \in News!Delivered : s <= newsCheckpoint'
  BY <1>1, <1>2, <1>3
<1> QED BY <1>3, <1>4, <1>5, <1>6, <1>7

\* The events and the checkpoint change alone.
Feeds ==
  /\ sequence' \in 0..MaxNews /\ newsCheckpoint' \in 0..MaxNews /\ sequence <= sequence'
  /\ newsCheckpoint <= newsCheckpoint' /\ newsCheckpoint' <= sequence' /\ wanted' \subseteq NewsKinds
  /\ DOMAIN event' \subseteq 1..sequence' /\ \A s \in DOMAIN event' : event'[s] \in EventRow
  /\ excluded' \subseteq 1..sequence' /\ NotWanted'

LEMMA ConsumeFeeds ==
  ASSUME News!NotificationsAssumption, NewsInv, NEW action \in {"start", "poll"}, News!Consume(action), UNCHANGED excluded
  PROVE  Feeds
<1>1. NotWanted'
  BY ConsumeDoes, NewsFacts DEF NotWanted, NewsInv
<1> QED BY <1>1, ConsumeDoes, NewsFacts DEF Feeds, NewsInv, News!TypeOK

LEMMA FeedKeeps ==
  ASSUME News!NotificationsAssumption, NewsInv, Feeds, UNCHANGED <<tab, shown, opened>>, stray' \subseteq stray
  PROVE  NewsInv'
<1>1. News!TypeOK'
  BY DEF NewsInv, News!TypeOK, Feeds, EventRow
<1>2. ToldOnce'
  BY NewsFacts DEF NewsInv, ToldOnce, Feeds, NewsTab, News!Seqs
<1>3. StartedLater'
  BY NewsFacts DEF NewsInv, StartedLater, Feeds
<1> QED BY <1>1, <1>2, <1>3 DEF NewsInv, Feeds

LEMMA ArriveKeeps ==
  ASSUME News!NotificationsAssumption, NewsInv, NEW kind \in NewsKinds, News!Arrive(kind)
  PROVE  NewsInv'
<1>1. /\ sequence' = sequence + 1 /\ sequence' \in 0..MaxNews /\ UNCHANGED <<newsCheckpoint, wanted, tab, stray, shown, opened>>
      /\ sequence' \notin DOMAIN event
  BY NewsFacts DEF News!Arrive
<1>2. /\ DOMAIN event' = DOMAIN event \cup {sequence'} /\ event'[sequence'] = News!Row(kind)
      /\ \A s \in DOMAIN event : event'[s] = event[s]
  BY <1>1 DEF News!Arrive
<1>3. excluded' = IF kind \in wanted THEN excluded ELSE excluded \cup {sequence'}
  BY DEF News!Arrive
<1>4. News!Row(kind) \in EventRow /\ News!Row(kind).kind = kind
  BY DEF News!Row, EventRow, News!States
<1>5. NotWanted'
  <2> SUFFICES ASSUME NEW s \in excluded', s \in DOMAIN event', s > newsCheckpoint' PROVE event'[s].kind \notin wanted'
    BY DEF NotWanted
  <2>1. CASE s = sequence'
    BY <1>1, <1>2, <1>3, <1>4, <2>1, NewsFacts
  <2>2. CASE s # sequence'
    BY <1>1, <1>2, <1>3, <2>2 DEF NewsInv, NotWanted
  <2> QED BY <2>1, <2>2
<1>6. \A s \in DOMAIN event' : event'[s] \in EventRow
  BY <1>2, <1>4, NewsFacts
<1>7. DOMAIN event' \subseteq 1..sequence' /\ excluded' \subseteq 1..sequence'
  BY <1>1, <1>2, <1>3, NewsFacts
<1>8. Feeds
  BY <1>1, <1>5, <1>6, <1>7, NewsFacts DEF Feeds, NewsInv, News!TypeOK
<1> QED BY <1>1, <1>8, FeedKeeps

LEMMA FadeKeeps ==
  ASSUME News!NotificationsAssumption, NewsInv, NEW s \in DOMAIN event, News!Fade(s)
  PROVE  NewsInv'
<1>1. /\ UNCHANGED <<sequence, newsCheckpoint, wanted, tab, stray, shown, opened, excluded>>
      /\ DOMAIN event' = DOMAIN event
      /\ \A q \in DOMAIN event : event'[q] \in EventRow /\ event'[q].kind = event[q].kind
  BY NewsFacts DEF News!Fade, News!history, EventRow, News!States
<1>2. Feeds
  BY <1>1, NewsFacts DEF Feeds, NewsInv, News!TypeOK, NotWanted
<1> QED BY <1>1, <1>2, FeedKeeps

LEMMA SetPreferencesKeeps ==
  ASSUME News!NotificationsAssumption, NewsInv, NEW kinds \in SUBSET NewsKinds, News!SetPreferences(kinds)
  PROVE  NewsInv'
<1>1. /\ UNCHANGED <<sequence, event, tab, stray, shown, opened>> /\ wanted' = kinds /\ newsCheckpoint' = sequence
      /\ excluded' \subseteq excluded \cup DOMAIN event
  BY DEF News!SetPreferences, News!Rebased
<1>2. NotWanted'
  BY <1>1, NewsFacts DEF NotWanted
<1>3. Feeds
  BY <1>1, <1>2, NewsFacts DEF Feeds, NewsInv, News!TypeOK
<1> QED BY <1>1, <1>3, FeedKeeps

\* A tab does something of its own, in which it is told nothing new.
LEMMA TabKeeps ==
  ASSUME News!NotificationsAssumption, NewsInv, NEW t \in Tabs, NEW x \in NewsTab, tab' = [tab EXCEPT ![t] = x],
         x.answer \in {{}, tab[t].answer}, UNCHANGED <<News!state, excluded>>, stray' \subseteq {"start", "poll"},
         \/ UNCHANGED <<opened, shown>> /\ (x.started \/ x.pc = "answered" => opened[t] <= newsCheckpoint)
         \/ /\ \E n \in {0, sequence} : opened' = [opened EXCEPT ![t] = n]
            /\ UNCHANGED shown /\ ~x.started /\ x.pc # "answered"
         \/ /\ UNCHANGED opened /\ opened[t] <= newsCheckpoint /\ x.answer = {}
            /\ shown' = [s \in News!Seqs |-> IF s \in tab[t].answer \ tab[t].seen THEN shown[s] + 1 ELSE shown[s]]
  PROVE  NewsInv' /\ tab'[t].answer \in {{}, tab[t].answer} /\ \A u \in Tabs \ {t} : tab'[u] = tab[u]
<1>1. /\ tab' \in [Tabs -> NewsTab] /\ tab'[t] = x /\ \A u \in Tabs \ {t} : tab'[u] = tab[u]
      /\ UNCHANGED <<sequence, newsCheckpoint, wanted, event, excluded>>
  BY NewsFacts DEF News!state
<1>2. News!TypeOK'
  BY <1>1 DEF NewsInv, News!TypeOK, NewsTab
<1>3. opened' \in [Tabs -> Nat] /\ StartedLater'
  <2>1. opened' \in [Tabs -> Nat] /\ opened'[t] \in {opened[t], 0, sequence} /\ \A u \in Tabs \ {t} : opened'[u] = opened[u]
    BY NewsFacts
  <2>2. x.started \/ x.pc = "answered" => opened'[t] <= newsCheckpoint
    BY <2>1, NewsFacts
  <2> QED BY <1>1, <2>1, <2>2, NewsFacts DEF NewsInv, StartedLater
<1>4. shown' \in [News!Seqs -> Nat] /\ ToldOnce'
  <2>1. CASE UNCHANGED shown
    BY <1>1, <2>1, NewsFacts DEF NewsInv, ToldOnce
  <2>2. CASE /\ shown' = [s \in News!Seqs |-> IF s \in tab[t].answer \ tab[t].seen THEN shown[s] + 1 ELSE shown[s]]
             /\ x.answer = {}
    <3>1. \A s \in News!Seqs : shown'[s] = IF s \in tab[t].answer \ tab[t].seen THEN 1 ELSE shown[s]
      BY <2>2, NewsFacts DEF NewsInv, ToldOnce
    <3>2. \A s \in News!Seqs : shown'[s] \in {0, 1} /\ (shown'[s] = 1 => s <= newsCheckpoint)
      BY <3>1 DEF NewsInv, ToldOnce
    <3>3. \A u \in Tabs : \A s \in tab'[u].answer : s <= newsCheckpoint /\ shown'[s] = 0
      BY <1>1, <2>2, <3>1, NewsFacts DEF NewsInv, ToldOnce, NewsTab
    <3>4. \A u, v \in Tabs : u # v => tab'[u].answer \cap tab'[v].answer = {}
      BY <1>1, <2>2 DEF NewsInv, ToldOnce
    <3> QED BY <1>1, <2>2, <3>2, <3>3, <3>4 DEF ToldOnce
  <2> QED BY <2>1, <2>2
<1>5. NotWanted'
  BY <1>1 DEF NewsInv, NotWanted
<1> QED BY <1>1, <1>2, <1>3, <1>4, <1>5, NewsFacts DEF NewsInv

LEMMA OwnStepKeeps ==
  ASSUME News!NotificationsAssumption, NewsInv, NEW t \in Tabs,
         News!Mount(t) \/ News!Poll(t) \/ News!Lose(t) \/ News!Show(t) \/ News!Unmount(t)
  PROVE  NewsInv' /\ tab'[t].answer \in {{}, tab[t].answer} /\ \A u \in Tabs \ {t} : tab'[u] = tab[u]
<1>1. stray \subseteq {"start", "poll"} /\ tab[t] \in NewsTab /\ (tab[t].started \/ tab[t].pc = "answered" => opened[t] <= newsCheckpoint)
  BY NewsFacts DEF NewsInv, News!TypeOK, StartedLater
<1>2. CASE News!Mount(t)
  <2> DEFINE x == [News!Gone EXCEPT !.pc = "idle"]
  <2>1. x \in NewsTab /\ x.answer = {} /\ ~x.started /\ x.pc = "idle"
    BY NewsFacts DEF NewsTab
  <2>2. /\ tab' = [tab EXCEPT ![t] = x] /\ \E n \in {0, sequence} : opened' = [opened EXCEPT ![t] = n]
        /\ UNCHANGED <<News!state, excluded, shown, stray>>
    BY <1>2 DEF News!Mount
  <2> HIDE DEF x
  <2> QED BY <1>1, <2>1, <2>2, TabKeeps
<1>3. CASE News!Poll(t)
  <2> DEFINE x == [tab[t] EXCEPT !.pc = "asks"]
  <2>1. x \in NewsTab /\ x.answer = tab[t].answer /\ x.started = tab[t].started /\ x.pc = "asks"
    BY <1>1 DEF NewsTab
  <2>2. tab' = [tab EXCEPT ![t] = x] /\ UNCHANGED <<News!state, excluded, shown, opened, stray>>
    BY <1>3 DEF News!Poll, News!history
  <2> HIDE DEF x
  <2> QED BY <1>1, <2>1, <2>2, TabKeeps
<1>4. CASE News!Lose(t)
  <2> DEFINE x == [tab[t] EXCEPT !.pc = "idle", !.answer = {}]
  <2>1. x \in NewsTab /\ x.answer = {} /\ x.started = tab[t].started /\ x.pc = "idle"
    BY <1>1 DEF NewsTab
  <2>2. tab' = [tab EXCEPT ![t] = x] /\ UNCHANGED <<News!state, excluded, shown, opened, stray>>
    BY <1>4, NewsFacts DEF News!Lose, News!history
  <2> HIDE DEF x
  <2> QED BY <1>1, <2>1, <2>2, TabKeeps
<1>5. CASE News!Show(t)
  <2> DEFINE new == tab[t].answer \ tab[t].seen
             x == [tab[t] EXCEPT !.pc = "idle", !.started = TRUE, !.answer = {}, !.seen = @ \cup new]
  <2>1. x \in NewsTab /\ x.answer = {} /\ opened[t] <= newsCheckpoint
    BY <1>1, <1>5 DEF NewsTab, News!Show
  <2>2. /\ tab' = [tab EXCEPT ![t] = x] /\ UNCHANGED <<News!state, excluded, opened, stray>>
        /\ \/ shown' = [s \in News!Seqs |-> IF s \in new THEN shown[s] + 1 ELSE shown[s]]
           \/ UNCHANGED shown
    <3>1. tab' = [tab EXCEPT ![t] = x]
      BY <1>5, Zenon DEF News!Show
    <3> QED BY <1>5, <3>1, Zenon DEF News!Show
  <2> HIDE DEF x
  <2> QED BY <1>1, <2>1, <2>2, TabKeeps
<1>6. CASE News!Unmount(t)
  <2>1. /\ tab' = [tab EXCEPT ![t] = News!Gone] /\ opened' = [opened EXCEPT ![t] = 0]
        /\ UNCHANGED <<News!state, excluded, shown>> /\ stray' \subseteq {"start", "poll"}
    BY <1>1, <1>6 DEF News!Unmount, News!Action
  <2>2. News!Gone \in NewsTab /\ News!Gone.answer = {} /\ ~News!Gone.started /\ News!Gone.pc # "answered"
    BY NewsFacts DEF News!Gone, NewsTab
  <2> QED BY <2>1, <2>2, TabKeeps
<1> QED BY <1>2, <1>3, <1>4, <1>5, <1>6

LEMMA ServeDoes ==
  ASSUME News!NotificationsAssumption, NewsInv, NEW t \in Tabs, News!Serve(t)
  PROVE  /\ News!Consume(News!Action(t)) /\ News!Action(t) \in {"start", "poll"} /\ UNCHANGED <<stray, shown, opened, excluded>>
         /\ tab' \in [Tabs -> NewsTab] /\ \A u \in Tabs \ {t} : tab'[u] = tab[u]
         /\ tab'[t].pc = "answered" /\ tab'[t].started = tab[t].started
         /\ tab'[t].answer = IF tab[t].started THEN News!Delivered ELSE {}
         /\ News!Action(t) = "poll" <=> tab[t].started
<1>1. News!Delivered \subseteq News!Seqs
  BY NewsFacts DEF News!Delivered, News!Rows, News!Pending, News!Kept
<1> DEFINE x == [tab[t] EXCEPT !.pc = "answered", !.answer = IF tab[t].started THEN News!Delivered ELSE {}]
<1>2. x \in NewsTab /\ x.pc = "answered" /\ x.started = tab[t].started /\ x.answer = IF tab[t].started THEN News!Delivered ELSE {}
  BY <1>1, NewsFacts DEF NewsTab
<1>3. tab' = [tab EXCEPT ![t] = x]
  BY NewsFacts DEF News!Serve
<1>4. News!Consume(News!Action(t)) /\ UNCHANGED <<stray, shown, opened, excluded>>
  BY DEF News!Serve, News!history
<1> HIDE DEF x
<1> QED BY <1>2, <1>3, <1>4, NewsFacts DEF News!Action

LEMMA ServeKeeps ==
  ASSUME News!NotificationsAssumption, NewsInv, NEW t \in Tabs, News!Serve(t)
  PROVE  NewsInv'
<1>1. Feeds
  BY ServeDoes, ConsumeFeeds
<1>2. News!TypeOK'
  BY <1>1, ServeDoes DEF NewsInv, News!TypeOK, Feeds, EventRow, NewsTab
<1>3. StartedLater'
  <2>1. tab[t].started => opened[t] <= newsCheckpoint
    BY DEF NewsInv, StartedLater
  <2>2. ~tab[t].started => newsCheckpoint' = sequence
    BY ServeDoes, ConsumeDoes
  <2>3. opened[t] <= newsCheckpoint'
    BY <1>1, <2>1, <2>2, NewsFacts DEF Feeds, NewsInv, StartedLater
  <2> QED BY <1>1, <2>3, ServeDoes, NewsFacts DEF Feeds, NewsInv, StartedLater
<1>4. ToldOnce'
  <2>1. \A s \in News!Delivered : s \in News!Seqs /\ s > newsCheckpoint /\ (tab[t].started => s <= newsCheckpoint') /\ shown[s] = 0
    <3> TAKE s \in News!Delivered
    <3>1. s \in DOMAIN event /\ s > newsCheckpoint /\ s \in News!Seqs /\ (tab[t].started => s <= newsCheckpoint')
      BY ServeDoes, ConsumeDoes, NewsFacts
    <3> QED BY <3>1, NewsFacts DEF NewsInv, ToldOnce, News!Seqs
  <2>2. \A s \in News!Seqs : shown'[s] \in {0, 1} /\ (shown'[s] = 1 => s <= newsCheckpoint')
    BY <1>1, ServeDoes, NewsFacts DEF NewsInv, ToldOnce, Feeds, News!Seqs
  <2>3. \A u \in Tabs : \A s \in tab'[u].answer : s <= newsCheckpoint' /\ shown'[s] = 0
    <3> TAKE u \in Tabs
    <3> TAKE s \in tab'[u].answer
    <3>1. CASE u = t
      BY <2>1, <3>1, ServeDoes
    <3>2. CASE u # t
      <4>1. s \in tab[u].answer /\ s \in News!Seqs
        BY <3>2, ServeDoes, NewsFacts DEF NewsTab
      <4> QED BY <1>1, <4>1, ServeDoes, NewsFacts DEF NewsInv, ToldOnce, Feeds, News!Seqs
    <3> QED BY <3>1, <3>2
  <2>4. \A u \in Tabs \ {t} : News!Delivered \cap tab[u].answer = {}
    BY <2>1, NewsFacts DEF NewsInv, ToldOnce, News!Seqs
  <2>5. \A u, v \in Tabs : u # v => tab'[u].answer \cap tab'[v].answer = {}
    BY <2>4, ServeDoes DEF NewsInv, ToldOnce
  <2> QED BY <2>2, <2>3, <2>5 DEF ToldOnce
<1> QED BY <1>1, <1>2, <1>3, <1>4, ServeDoes DEF NewsInv, Feeds

LEMMA NewsNextKeeps == ASSUME News!NotificationsAssumption, NewsInv, [News!Next]_News!vars PROVE NewsInv'
<1>1. CASE News!ServeStray
  <2>1. PICK action \in stray : stray' = stray \ {action} /\ News!Consume(action) /\ UNCHANGED <<tab, News!history>>
    BY <1>1 DEF News!ServeStray
  <2>2. action \in {"start", "poll"}
    BY DEF NewsInv, News!TypeOK
  <2>3. Feeds
    BY <2>1, <2>2, ConsumeFeeds DEF News!history
  <2> QED BY <2>1, <2>3, FeedKeeps DEF News!history
<1>2. CASE UNCHANGED News!vars
  BY <1>2 DEF News!vars, NewsInv, News!TypeOK, ToldOnce, StartedLater, NotWanted
<1> QED BY <1>1, <1>2, ArriveKeeps, FadeKeeps, SetPreferencesKeeps, OwnStepKeeps, ServeKeeps DEF News!Next

\* A tab that is told something is told of what the checkpoint had not passed.
LEMMA ToldIsNew ==
  ASSUME News!NotificationsAssumption, NewsInv, [News!Next]_News!vars, NEW t \in Tabs, tab'[t].answer # tab[t].answer,
         NEW s \in tab'[t].answer
  PROVE  s > opened[t] /\ s \notin excluded
<1>1. ASSUME NEW u \in Tabs, News!Mount(u) \/ News!Poll(u) \/ News!Lose(u) \/ News!Show(u) \/ News!Unmount(u) PROVE FALSE
  BY <1>1, OwnStepKeeps
<1>2. ASSUME NEW u \in Tabs, News!Serve(u) PROVE s > opened[t] /\ s \notin excluded
  <2>1. u = t /\ tab[t].started /\ s \in News!Delivered /\ News!Consume(News!Action(t)) /\ News!Action(t) \in {"start", "poll"}
    BY <1>2, ServeDoes
  <2>2. s \in DOMAIN event /\ s > newsCheckpoint /\ event[s].kind \in wanted
    BY <2>1, ConsumeDoes
  <2>3. opened[t] <= newsCheckpoint /\ opened[t] \in Nat /\ s \in Nat
    BY <2>1, <2>2, NewsFacts DEF NewsInv, StartedLater
  <2> QED BY <2>2, <2>3, NewsFacts DEF NewsInv, NotWanted
<1>3. ASSUME UNCHANGED tab PROVE FALSE
  BY <1>3
<1> QED BY <1>1, <1>2, <1>3 DEF News!Next, News!Arrive, News!Fade, News!SetPreferences, News!ServeStray, News!vars

\* The events, the checkpoint that all tabs share and what the tabs were told of them keep
\* the invariant, whichever tabs come, go and lose answers.
THEOREM NewsInvariantHolds == ASSUME News!NotificationsAssumption PROVE News!Spec => []NewsInv
<1>1. News!Init => NewsInv
  BY NewsInitHolds
<1>2. NewsInv /\ [News!Next]_News!vars => NewsInv'
  BY NewsNextKeeps
<1> QED BY <1>1, <1>2, PTL DEF News!Spec

\* An arrival is shown once at most, whichever tabs poll at the same time or lose answers: consume()
\* moves the checkpoint past what it answers, under the lock of the row.
THEOREM ArrivalIsShownOnce == ASSUME News!NotificationsAssumption PROVE News!Spec => [](News!TypeOK /\ News!ShownOnce)
<1>1. NewsInv => News!TypeOK /\ News!ShownOnce
  BY DEF NewsInv, ToldOnce, News!ShownOnce
<1> QED BY <1>1, NewsInvariantHolds, PTL

\* A tab is told only of mail that came after it was opened and that the preferences wanted ever since.
THEOREM OnlyNewsIsTold == ASSUME News!NotificationsAssumption PROVE News!Spec => News!NoOldNews
<1>1. ASSUME NewsInv, [News!Next]_News!vars
      PROVE  [\A t \in Tabs : tab'[t].answer # tab[t].answer =>
                \A s \in tab'[t].answer : s > opened[t] /\ s \notin excluded]_News!vars
  BY <1>1, ToldIsNew
<1> QED BY <1>1, NewsInvariantHolds, PTL DEF News!Spec, News!NoOldNews

-----------------------------------------------------------------------------
(* Conversations of the messages that synchronization stores *)

CONSTANTS Mails, Headers, MaxRows, MaxLeaves
VARIABLES row, group, reference, merged

Threads == INSTANCE Conversation

\* What the headers of the rows of R say, whatever the tables make of it: the ids of a
\* row, the rows with an id of their own, and what two rows are joined by.
OwnIds(R, x) == Headers[R[x].mail].own
RefIds(R, x) == Headers[R[x].mail].refs
Holding(R, t) == {x \in DOMAIN R : t \in OwnIds(R, x)}
Clear(R, t) == Cardinality(Holding(R, t)) <= 1
Evidence(R, x) == {t \in OwnIds(R, x) \cup RefIds(R, x) : Clear(R, t)}
Shares(R, x, y) == Evidence(R, x) \cap Evidence(R, y) # {}

\* y is in every set of rows that has x and all that shares evidence with a row of it.
Closed(R, S) == \A x \in S, y \in DOMAIN R : Shares(R, x, y) => y \in S
Linked(R, x, y) == \A S \in SUBSET DOMAIN R : Closed(R, S) /\ x \in S => y \in S

Filed(R) == DOMAIN R \subseteq Threads!Rows /\ R \in [DOMAIN R -> Threads!MessageRow]
TablesOf(R) ==
  [row : {R}, group : [DOMAIN R -> DOMAIN R], reference : [Threads!Ids -> DOMAIN R \cup {0}],
   merged : [DOMAIN R -> DOMAIN R \cup {0}]]

\* A row is in the conversation that the redirect of its own leads to, which has none.
Led(s) == \A x \in DOMAIN s.group :
  s.group[x] = (IF s.merged[x] = 0 THEN x ELSE s.merged[x]) /\ s.merged[s.group[x]] = 0

\* Nothing is in one conversation, or noted for one, without evidence.
Evidenced(R, s) ==
  /\ \A x, y \in DOMAIN R : s.group[x] = s.group[y] => Linked(R, x, y)
  /\ \A t \in Threads!Ids : s.reference[t] # 0 =>
       \E x \in DOMAIN R : t \in RefIds(R, x) /\ s.group[x] = s.reference[t]

\* What the rows of X refer to is noted for their conversation, and has the rows of Y in it.
Complete(R, s, X, Y) == \A x \in X : \A t \in RefIds(R, x) : Clear(R, t) =>
  /\ s.reference[t] = s.group[x]
  /\ \A y \in Y : t \in OwnIds(R, y) => s.group[y] = s.group[x]

ThreadInv ==
  /\ Filed(row) /\ Threads!Tables \in TablesOf(row)
  /\ Led(Threads!Tables) /\ Evidenced(row, Threads!Tables) /\ Complete(row, Threads!Tables, DOMAIN row, DOMAIN row)

LEMMA SameCount == ASSUME NEW S PROVE Threads!Cardinality(S) = Cardinality(S)
BY DEF Threads!Cardinality, Cardinality

LEMMA ThreadBounds == ASSUME Threads!ConversationAssumption PROVE MaxRows \in Nat /\ MaxLeaves \in Nat
BY DEF Threads!ConversationAssumption

LEMMA IdsAreIds == ASSUME NEW R, Filed(R), NEW x \in DOMAIN R
  PROVE OwnIds(R, x) \subseteq Threads!Ids /\ RefIds(R, x) \subseteq Threads!Ids
<1>1. R[x].mail \in Mails
  BY DEF Filed, Threads!MessageRow
<1> QED BY <1>1 DEF OwnIds, RefIds, Threads!Ids

\* An id is clear if it is the own id of one row at most.
LEMMA OneHolder == ASSUME Threads!ConversationAssumption, NEW R, Filed(R), NEW t
  PROVE /\ IsFiniteSet(Holding(R, t)) /\ Cardinality(Holding(R, t)) \in Nat
        /\ \A x, y \in Holding(R, t) : Clear(R, t) => x = y
        /\ \A x \in Holding(R, t) : Clear(R, t) <=> Cardinality(Holding(R, t)) = 1
        /\ (\A x, y \in Holding(R, t) : x = y) => Clear(R, t)
<1>1. IsFiniteSet(Threads!Rows) /\ DOMAIN R \subseteq Threads!Rows
  BY ThreadBounds, FS_Interval DEF Threads!Rows, Filed
<1>2. Holding(R, t) \subseteq Threads!Rows
  BY <1>1 DEF Holding
<1>3. IsFiniteSet(Holding(R, t)) /\ Cardinality(Holding(R, t)) \in Nat
  BY <1>1, <1>2, FS_Subset, FS_CardinalityType
<1>4. ASSUME NEW x \in Holding(R, t) PROVE Cardinality(Holding(R, t)) # 0
  BY <1>3, FS_EmptySet
<1>5. ASSUME NEW x \in Holding(R, t), NEW y \in Holding(R, t), x # y PROVE ~Clear(R, t)
  <2>1. {x, y} \subseteq Holding(R, t)
    OBVIOUS
  <2>2. Cardinality({x, y}) = 2
    <3>1. Cardinality({x}) = 1 /\ IsFiniteSet({x})
      BY FS_Singleton
    <3>2. Cardinality({x} \cup {y}) = Cardinality({x}) + 1
      BY <1>5, <3>1, FS_AddElement
    <3>3. {x} \cup {y} = {x, y}
      OBVIOUS
    <3> QED BY <3>1, <3>2, <3>3
  <2>3. Cardinality({x, y}) <= Cardinality(Holding(R, t))
    BY <1>3, <2>1, FS_Subset
  <2> QED BY <1>3, <2>2, <2>3 DEF Clear
<1>6. ASSUME \A x, y \in Holding(R, t) : x = y PROVE Clear(R, t)
  <2>1. CASE Holding(R, t) = {}
    BY <2>1, FS_EmptySet DEF Clear
  <2>2. CASE Holding(R, t) # {}
    <3>1. PICK x : Holding(R, t) = {x}
      BY <1>6, <2>2
    <3> QED BY <3>1, FS_Singleton DEF Clear
  <2> QED BY <2>1, <2>2
<1>7. \A x \in Holding(R, t) : Clear(R, t) <=> Cardinality(Holding(R, t)) = 1
  BY <1>3, <1>4 DEF Clear
<1> QED BY <1>3, <1>5, <1>6, <1>7

LEMMA LinkedIsEquivalence == ASSUME NEW R
  PROVE /\ \A x \in DOMAIN R : Linked(R, x, x)
        /\ \A x, y \in DOMAIN R : Linked(R, x, y) => Linked(R, y, x)
        /\ \A x, y, z \in DOMAIN R : Linked(R, x, y) /\ Linked(R, y, z) => Linked(R, x, z)
        /\ \A x, y \in DOMAIN R : Shares(R, x, y) => Linked(R, x, y)
<1>1. ASSUME NEW x \in DOMAIN R, NEW y \in DOMAIN R, Linked(R, x, y) PROVE Linked(R, y, x)
  <2> SUFFICES ASSUME NEW S \in SUBSET DOMAIN R, Closed(R, S), y \in S, x \notin S PROVE FALSE
    BY DEF Linked
  <2> DEFINE rest == DOMAIN R \ S
  <2>1. Closed(R, rest)
    <3> SUFFICES ASSUME NEW a \in rest, NEW b \in DOMAIN R, Shares(R, a, b), b \in S PROVE FALSE
      BY DEF Closed
    <3>1. Shares(R, b, a)
      BY DEF Shares
    <3> QED BY <3>1 DEF Closed
  <2>2. rest \in SUBSET DOMAIN R /\ x \in rest /\ y \notin rest
    OBVIOUS
  <2> QED BY <1>1, <2>1, <2>2 DEF Linked
<1>2. ASSUME NEW x \in DOMAIN R, NEW y \in DOMAIN R, NEW z \in DOMAIN R, Linked(R, x, y), Linked(R, y, z)
        PROVE Linked(R, x, z)
  BY <1>2 DEF Linked
<1>3. ASSUME NEW x \in DOMAIN R, NEW y \in DOMAIN R, Shares(R, x, y) PROVE Linked(R, x, y)
  BY <1>3 DEF Linked, Closed
<1>4. \A x \in DOMAIN R : Linked(R, x, x)
  BY DEF Linked
<1> QED BY <1>1, <1>2, <1>3, <1>4

\* Everything that shares evidence is in one conversation of complete tables.
LEMMA SharersTogether ==
  ASSUME Threads!ConversationAssumption, NEW R, Filed(R), NEW s, Complete(R, s, DOMAIN R, DOMAIN R),
         NEW x \in DOMAIN R, NEW y \in DOMAIN R, Shares(R, x, y)
  PROVE  s.group[x] = s.group[y]
<1>1. PICK t : t \in Evidence(R, x) /\ t \in Evidence(R, y)
  BY DEF Shares
<1>2. Clear(R, t)
  BY <1>1 DEF Evidence
<1>3. CASE t \in RefIds(R, x) /\ t \in RefIds(R, y)
  BY <1>2, <1>3 DEF Complete
<1>4. CASE t \in RefIds(R, x) /\ t \in OwnIds(R, y)
  BY <1>2, <1>4 DEF Complete
<1>5. CASE t \in OwnIds(R, x) /\ t \in RefIds(R, y)
  BY <1>2, <1>5 DEF Complete
<1>6. CASE t \in OwnIds(R, x) /\ t \in OwnIds(R, y)
  <2>1. x \in Holding(R, t) /\ y \in Holding(R, t)
    BY <1>6 DEF Holding
  <2> QED BY <1>2, <2>1, OneHolder
<1> QED BY <1>1, <1>3, <1>4, <1>5, <1>6 DEF Evidence

LEMMA WordsAre == ASSUME Threads!ConversationAssumption, NEW R, Filed(R), NEW s, s.row = R
  PROVE /\ \A t : Threads!Holders(s, t) = Holding(R, t) /\ (Threads!Collides(s, t) <=> ~Clear(R, t))
        /\ \A t : \A x \in Holding(R, t) : Threads!Unique(s, t) <=> Clear(R, t)
        /\ \A x \in DOMAIN R : /\ Threads!Own(s, x) = OwnIds(R, x)
                               /\ Threads!Referred(s, x) = {t \in RefIds(R, x) : Clear(R, t)}
                               /\ Threads!Answered(s, x) = {t \in OwnIds(R, x) : Clear(R, t)}
<1>1. \A x : Threads!Own(s, x) = OwnIds(R, x)
  BY DEF Threads!Own, OwnIds
<1>2. ASSUME NEW t PROVE Threads!Holders(s, t) = Holding(R, t)
  BY <1>1 DEF Threads!Holders, Holding
<1>3. ASSUME NEW t PROVE Threads!Collides(s, t) <=> ~Clear(R, t)
  BY <1>2, OneHolder, SameCount DEF Threads!Collides, Clear
<1>4. ASSUME NEW t, NEW x \in Holding(R, t) PROVE Threads!Unique(s, t) <=> Clear(R, t)
  BY <1>2, OneHolder, SameCount DEF Threads!Unique
<1>5. ASSUME NEW x \in DOMAIN R PROVE Threads!Referred(s, x) = {t \in RefIds(R, x) : Clear(R, t)}
  BY <1>3 DEF Threads!Referred, RefIds
<1>6. ASSUME NEW x \in DOMAIN R PROVE Threads!Answered(s, x) = {t \in OwnIds(R, x) : Clear(R, t)}
  <2>1. \A t \in OwnIds(R, x) : x \in Holding(R, t)
    BY DEF Holding
  <2> QED BY <1>1, <1>4, <2>1 DEF Threads!Answered
<1> QED BY <1>1, <1>2, <1>3, <1>4, <1>5, <1>6

\* The conversations that a row is evidence for.
Joined(s, r) == Threads!Groups(s, r, Threads!Referred(s, r))

LEMMA JoinedAre ==
  ASSUME Threads!ConversationAssumption, NEW R, Filed(R), NEW s \in TablesOf(R), NEW r \in DOMAIN R
  PROVE /\ Joined(s, r) \subseteq DOMAIN R /\ s.group[r] \in Joined(s, r)
        /\ \A t \in OwnIds(R, r) \cup RefIds(R, r) : Clear(R, t) /\ s.reference[t] # 0 => s.reference[t] \in Joined(s, r)
        /\ \A x \in DOMAIN R : \A t \in OwnIds(R, x) : t \in RefIds(R, r) /\ Clear(R, t) => s.group[x] \in Joined(s, r)
        /\ \A g \in Joined(s, r) :
             \/ g = s.group[r]
             \/ \E t \in OwnIds(R, r) \cup RefIds(R, r) : Clear(R, t) /\ g = s.reference[t] /\ g # 0
             \/ \E x \in DOMAIN R : \E t \in OwnIds(R, x) : t \in RefIds(R, r) /\ Clear(R, t) /\ g = s.group[x]
<1> DEFINE refs == Threads!Referred(s, r)
           noted == Threads!Noted(s, refs \cup Threads!Answered(s, r))
           owners == {y \in DOMAIN s.row : \E t \in Threads!Own(s, y) \cap refs : Threads!Unique(s, t)}
           held == {s.group[x] : x \in owners}
<1>1. s.row = R /\ s.group \in [DOMAIN R -> DOMAIN R] /\ s.reference \in [Threads!Ids -> DOMAIN R \cup {0}]
  BY DEF TablesOf
<1>2. refs = {t \in RefIds(R, r) : Clear(R, t)} /\ Threads!Answered(s, r) = {t \in OwnIds(R, r) : Clear(R, t)}
  BY <1>1, WordsAre
<1>3. Joined(s, r) = {s.group[r]} \cup noted \cup held
  BY DEF Joined, Threads!Groups
<1>4. noted = {s.reference[t] : t \in {u \in OwnIds(R, r) \cup RefIds(R, r) : Clear(R, u)}} \ {0}
  <2>1. refs \cup Threads!Answered(s, r) = {u \in OwnIds(R, r) \cup RefIds(R, r) : Clear(R, u)}
    BY <1>2
  <2> QED BY <2>1 DEF Threads!Noted
<1>5. owners = {y \in DOMAIN R : \E t \in OwnIds(R, y) : t \in RefIds(R, r) /\ Clear(R, t)}
  <2>1. ASSUME NEW y \in DOMAIN R, NEW t \in OwnIds(R, y) PROVE Threads!Unique(s, t) <=> Clear(R, t)
    <3>1. y \in Holding(R, t)
      BY DEF Holding
    <3> QED BY <1>1, <3>1, WordsAre
  <2>2. \A y \in DOMAIN R : Threads!Own(s, y) = OwnIds(R, y)
    BY <1>1, WordsAre
  <2> QED BY <1>1, <1>2, <2>1, <2>2
<1>6. OwnIds(R, r) \subseteq Threads!Ids /\ RefIds(R, r) \subseteq Threads!Ids
  BY IdsAreIds
<1> HIDE DEF refs, noted, owners
<1>7. noted \subseteq DOMAIN R
  BY <1>1, <1>4, <1>6
<1>8. held \subseteq DOMAIN R
  BY <1>1, <1>5
<1>9. \A t \in OwnIds(R, r) \cup RefIds(R, r) : Clear(R, t) /\ s.reference[t] # 0 => s.reference[t] \in noted
  BY <1>4
<1>10. \A g \in noted : \E t \in OwnIds(R, r) \cup RefIds(R, r) : Clear(R, t) /\ g = s.reference[t] /\ g # 0
  BY <1>4
<1>11. \A x \in DOMAIN R : \A t \in OwnIds(R, x) : t \in RefIds(R, r) /\ Clear(R, t) => s.group[x] \in held
  BY <1>5
<1>12. \A g \in held : \E x \in DOMAIN R : \E t \in OwnIds(R, x) : t \in RefIds(R, r) /\ Clear(R, t) /\ g = s.group[x]
  BY <1>5
<1> HIDE DEF held
<1> QED BY <1>1, <1>3, <1>7, <1>8, <1>9, <1>10, <1>11, <1>12

LEMMA LeastIs == ASSUME Threads!ConversationAssumption, NEW J, J \subseteq Threads!Rows, J # {} PROVE Threads!Least(J) \in J
<1>1. MaxRows \in Nat /\ J \subseteq 0..MaxRows
  BY ThreadBounds DEF Threads!Rows
<1>2. \E x \in J : \A y \in J : x <= y
  BY <1>1, HasLeast
<1> QED BY <1>2 DEF Threads!Least

\* The tables k after the conversations J of the tables s have become w.
Merges(R, s, r, J, w, k) ==
  /\ w \in J /\ J \subseteq DOMAIN R /\ 0 \notin J /\ k \in TablesOf(R)
  /\ \A x \in DOMAIN R : /\ k.group[x] = (IF s.group[x] \in J THEN w ELSE s.group[x])
                         /\ k.merged[x] = (IF x # w /\ (x \in J \/ s.merged[x] \in J) THEN w ELSE s.merged[x])
  /\ \A t \in Threads!Ids : k.reference[t] = (IF t \in RefIds(R, r) /\ Clear(R, t) /\ s.reference[t] = 0 THEN w
                                      ELSE IF s.reference[t] \in J THEN w ELSE s.reference[t])

LEMMA JoinIs ==
  ASSUME Threads!ConversationAssumption, NEW R, Filed(R), NEW s \in TablesOf(R), NEW r \in DOMAIN R
  PROVE  Merges(R, s, r, Joined(s, r), Threads!Least(Joined(s, r)), Threads!Join(s, r))
<1> DEFINE J == Joined(s, r)
           w == Threads!Least(J)
           k == Threads!Join(s, r)
           g == [x \in DOMAIN R |-> IF s.group[x] \in J THEN w ELSE s.group[x]]
           e == [t \in Threads!Ids |-> IF t \in RefIds(R, r) /\ Clear(R, t) /\ s.reference[t] = 0 THEN w
                               ELSE IF s.reference[t] \in J THEN w ELSE s.reference[t]]
           m == [x \in DOMAIN R |-> IF x # w /\ (x \in J \/ s.merged[x] \in J) THEN w ELSE s.merged[x]]
<1>1. s = [row |-> R, group |-> s.group, reference |-> s.reference, merged |-> s.merged]
      /\ s.row = R /\ s.group \in [DOMAIN R -> DOMAIN R]
      /\ s.reference \in [Threads!Ids -> DOMAIN R \cup {0}] /\ s.merged \in [DOMAIN R -> DOMAIN R \cup {0}]
  BY DEF TablesOf
<1>2. J \subseteq DOMAIN R /\ J # {} /\ DOMAIN R \subseteq Threads!Rows
  BY JoinedAre DEF Filed
<1>3. w \in J /\ 0 \notin J
  BY <1>2, LeastIs, ThreadBounds DEF Threads!Rows
<1>4. Threads!Referred(s, r) = {t \in RefIds(R, r) : Clear(R, t)}
  BY <1>1, WordsAre
<1>5. k = [row |-> R, group |-> g, reference |-> e, merged |-> m]
  <2>1. DOMAIN s.group = DOMAIN R /\ DOMAIN s.merged = DOMAIN R
    BY <1>1
  <2>2. Threads!Groups(s, r, Threads!Referred(s, r)) = J
    BY DEF Joined
  <2>3. Threads!Redirect(s, J, w) = m
    BY <2>1 DEF Threads!Redirect
  <2> HIDE DEF J, w, m
  <2>4. k = [s EXCEPT !.group = g, !.reference = e, !.merged = m]
    BY <1>4, <2>1, <2>2, <2>3 DEF Threads!Join, w
  <2> HIDE DEF g, e, k
  <2> QED BY <1>1, <2>4
<1> HIDE DEF J, w, k
<1>6. g \in [DOMAIN R -> DOMAIN R] /\ e \in [Threads!Ids -> DOMAIN R \cup {0}] /\ m \in [DOMAIN R -> DOMAIN R \cup {0}]
  BY <1>1, <1>2, <1>3
<1>7. k \in TablesOf(R) /\ k.group = g /\ k.reference = e /\ k.merged = m
  <2> HIDE DEF g, e, m
  <2> QED BY <1>5, <1>6 DEF TablesOf
<1>8. \A x \in DOMAIN R : /\ k.group[x] = (IF s.group[x] \in J THEN w ELSE s.group[x])
                          /\ k.merged[x] = (IF x # w /\ (x \in J \/ s.merged[x] \in J) THEN w ELSE s.merged[x])
  BY <1>7
<1>9. \A t \in Threads!Ids : k.reference[t] = (IF t \in RefIds(R, r) /\ Clear(R, t) /\ s.reference[t] = 0 THEN w
                                       ELSE IF s.reference[t] \in J THEN w ELSE s.reference[t])
  BY <1>7
<1> QED BY <1>2, <1>3, <1>7, <1>8, <1>9 DEF Merges, J, w, k

\* What a row is evidence for is linked to it.
LEMMA JoinedAreLinked ==
  ASSUME Threads!ConversationAssumption, NEW R, Filed(R), NEW s \in TablesOf(R),
         Evidenced(R, s), NEW r \in DOMAIN R, NEW g \in Joined(s, r)
  PROVE  \E x \in DOMAIN R : s.group[x] = g /\ Linked(R, r, x)
<1>1. CASE g = s.group[r]
  BY <1>1, LinkedIsEquivalence
<1>2. ASSUME NEW t \in OwnIds(R, r) \cup RefIds(R, r), Clear(R, t), g = s.reference[t], g # 0
      PROVE \E x \in DOMAIN R : s.group[x] = g /\ Linked(R, r, x)
  <2>1. t \in Threads!Ids
    BY IdsAreIds
  <2>2. PICK x \in DOMAIN R : t \in RefIds(R, x) /\ s.group[x] = g
    BY <1>2, <2>1 DEF Evidenced
  <2>3. Shares(R, r, x)
    BY <1>2, <2>2 DEF Shares, Evidence
  <2> QED BY <2>2, <2>3, LinkedIsEquivalence
<1>3. ASSUME NEW x \in DOMAIN R, NEW t \in OwnIds(R, x), t \in RefIds(R, r), Clear(R, t), g = s.group[x]
      PROVE \E y \in DOMAIN R : s.group[y] = g /\ Linked(R, r, y)
  <2>1. Shares(R, r, x)
    BY <1>3 DEF Shares, Evidence
  <2> QED BY <1>3, <2>1, LinkedIsEquivalence
<1> QED BY <1>1, <1>2, <1>3, JoinedAre

\* A join keeps old ids leading to conversations, adds no conversation without evidence, and completes the row.
LEMMA JoinKeepsLed ==
  ASSUME Threads!ConversationAssumption, NEW R, Filed(R), NEW s \in TablesOf(R), Led(s), Evidenced(R, s), NEW r \in DOMAIN R
  PROVE  Led(Threads!Join(s, r))
<1> DEFINE J == Joined(s, r)
           w == Threads!Least(J)
           k == Threads!Join(s, r)
<1>0. Merges(R, s, r, J, w, k)
  BY JoinIs
<1>1. /\ w \in J /\ J \subseteq DOMAIN R /\ 0 \notin J
      /\ \A x \in DOMAIN R : /\ k.group[x] = (IF s.group[x] \in J THEN w ELSE s.group[x])
                             /\ k.merged[x] = (IF x # w /\ (x \in J \/ s.merged[x] \in J) THEN w ELSE s.merged[x])
      /\ k \in TablesOf(R)
  BY <1>0 DEF Merges
<1>2. DOMAIN s.group = DOMAIN R /\ DOMAIN k.group = DOMAIN R /\ s.group \in [DOMAIN R -> DOMAIN R]
  BY <1>1 DEF TablesOf
<1>3. ASSUME NEW g \in J PROVE s.merged[g] = 0
  <2>1. PICK x \in DOMAIN R : s.group[x] = g
    BY JoinedAreLinked
  <2> QED BY <1>2, <2>1 DEF Led
<1> HIDE DEF J, w, k
<1>4. ASSUME NEW x \in DOMAIN R PROVE k.group[x] = (IF k.merged[x] = 0 THEN x ELSE k.merged[x])
  <2>1. s.group[x] = (IF s.merged[x] = 0 THEN x ELSE s.merged[x])
    BY <1>2 DEF Led
  <2> QED BY <1>1, <1>3, <2>1
<1>5. ASSUME NEW x \in DOMAIN R PROVE k.merged[k.group[x]] = 0
  <2>1. s.merged[s.group[x]] = 0 /\ s.group[x] \in DOMAIN R
    BY <1>2 DEF Led
  <2> QED BY <1>1, <1>3, <2>1
<1> QED BY <1>2, <1>4, <1>5 DEF Led, k

LEMMA JoinKeepsSound ==
  ASSUME Threads!ConversationAssumption, NEW R, Filed(R), NEW s \in TablesOf(R), Evidenced(R, s), NEW r \in DOMAIN R
  PROVE  Evidenced(R, Threads!Join(s, r))
<1> DEFINE J == Joined(s, r)
           w == Threads!Least(J)
           k == Threads!Join(s, r)
<1>0. Merges(R, s, r, J, w, k)
  BY JoinIs
<1>1. /\ w \in J /\ J \subseteq DOMAIN R /\ 0 \notin J
      /\ \A x \in DOMAIN R : k.group[x] = (IF s.group[x] \in J THEN w ELSE s.group[x])
      /\ \A t \in Threads!Ids : k.reference[t] = (IF t \in RefIds(R, r) /\ Clear(R, t) /\ s.reference[t] = 0 THEN w
                                          ELSE IF s.reference[t] \in J THEN w ELSE s.reference[t])
  BY <1>0 DEF Merges
<1>2. ASSUME NEW x \in DOMAIN R, s.group[x] \in J PROVE Linked(R, r, x)
  <2>1. PICK z \in DOMAIN R : s.group[z] = s.group[x] /\ Linked(R, r, z)
    BY <1>2, JoinedAreLinked
  <2>2. Linked(R, z, x)
    BY <2>1 DEF Evidenced
  <2> QED BY <2>1, <2>2, LinkedIsEquivalence
<1>3. s.group[r] \in J
  BY JoinedAre
<1> HIDE DEF J, w, k
<1>4. ASSUME NEW x \in DOMAIN R, NEW y \in DOMAIN R, k.group[x] = k.group[y] PROVE Linked(R, x, y)
  <2>1. CASE s.group[x] \in J /\ s.group[y] \in J
    BY <1>2, <2>1, LinkedIsEquivalence
  <2>2. CASE ~(s.group[x] \in J /\ s.group[y] \in J)
    <3>1. s.group[x] = s.group[y]
      BY <1>1, <1>4, <2>2
    <3> QED BY <3>1 DEF Evidenced
  <2> QED BY <2>1, <2>2
<1>5. ASSUME NEW t \in Threads!Ids, k.reference[t] # 0
        PROVE \E x \in DOMAIN R : t \in RefIds(R, x) /\ k.group[x] = k.reference[t]
  <2>1. CASE t \in RefIds(R, r) /\ s.reference[t] = 0
    BY <1>1, <1>3, <1>5, <2>1
  <2>2. CASE s.reference[t] # 0
    <3>1. PICK x \in DOMAIN R : t \in RefIds(R, x) /\ s.group[x] = s.reference[t]
      BY <2>2 DEF Evidenced
    <3>2. k.group[x] = k.reference[t]
      BY <1>1, <2>2, <3>1
    <3> QED BY <3>1, <3>2
  <2>3. CASE t \notin RefIds(R, r) /\ s.reference[t] = 0
    BY <1>1, <1>5, <2>3
  <2> QED BY <2>1, <2>2, <2>3
<1> QED BY <1>4, <1>5 DEF Evidenced, k

LEMMA JoinCompletes ==
  ASSUME Threads!ConversationAssumption, NEW R, Filed(R), NEW s \in TablesOf(R),
         NEW r \in DOMAIN R, NEW X, X \subseteq DOMAIN R,
         NEW Y, Y \subseteq DOMAIN R, DOMAIN R \subseteq Y \cup {r}, Complete(R, s, X, Y)
  PROVE  Complete(R, Threads!Join(s, r), X \cup {r}, DOMAIN R)
<1> DEFINE J == Joined(s, r)
           w == Threads!Least(J)
           k == Threads!Join(s, r)
<1>0. Merges(R, s, r, J, w, k)
  BY JoinIs
<1>1. /\ w \in J /\ J \subseteq DOMAIN R /\ 0 \notin J
      /\ \A x \in DOMAIN R : k.group[x] = (IF s.group[x] \in J THEN w ELSE s.group[x])
      /\ \A t \in Threads!Ids : k.reference[t] = (IF t \in RefIds(R, r) /\ Clear(R, t) /\ s.reference[t] = 0 THEN w
                                          ELSE IF s.reference[t] \in J THEN w ELSE s.reference[t])
  BY <1>0 DEF Merges
<1>2. /\ s.group[r] \in J
      /\ \A t \in OwnIds(R, r) \cup RefIds(R, r) : Clear(R, t) /\ s.reference[t] # 0 => s.reference[t] \in J
      /\ \A x \in DOMAIN R : \A t \in OwnIds(R, x) : t \in RefIds(R, r) /\ Clear(R, t) => s.group[x] \in J
  BY JoinedAre
<1>3. \A x \in DOMAIN R : s.group[x] \in DOMAIN R /\ s.group[x] # 0
  BY ThreadBounds DEF TablesOf, Filed, Threads!Rows
<1> HIDE DEF J, w, k
<1>4. ASSUME NEW x \in X, NEW t \in RefIds(R, x), Clear(R, t)
      PROVE k.reference[t] = k.group[x] /\ \A y \in DOMAIN R : t \in OwnIds(R, y) => k.group[y] = k.group[x]
  <2>1. s.reference[t] = s.group[x] /\ \A y \in Y : t \in OwnIds(R, y) => s.group[y] = s.group[x]
    BY <1>4 DEF Complete
  <2>2. t \in Threads!Ids /\ x \in DOMAIN R /\ s.reference[t] # 0
    BY <1>3, <2>1, IdsAreIds
  <2>3. k.reference[t] = k.group[x]
    BY <1>1, <2>1, <2>2
  <2>4. ASSUME NEW y \in DOMAIN R, t \in OwnIds(R, y) PROVE k.group[y] = k.group[x]
    <3>1. CASE y \in Y
      BY <1>1, <2>1, <2>2, <2>4, <3>1
    <3>2. CASE y = r
      BY <1>1, <1>2, <1>4, <2>1, <2>2, <2>4, <3>2
    <3> QED BY <3>1, <3>2
  <2> QED BY <2>3, <2>4
<1>5. ASSUME NEW t \in RefIds(R, r), Clear(R, t)
      PROVE k.reference[t] = k.group[r] /\ \A y \in DOMAIN R : t \in OwnIds(R, y) => k.group[y] = k.group[r]
  <2>1. t \in Threads!Ids
    BY IdsAreIds
  <2>2. k.reference[t] = w
    BY <1>1, <1>2, <1>5, <2>1
  <2> QED BY <1>1, <1>2, <1>5, <2>2
<1> QED BY <1>4, <1>5 DEF Complete, k

\* Tables that old ids lead through, with nothing joined without evidence.
Good(R, s) == s \in TablesOf(R) /\ Led(s) /\ Evidenced(R, s)

LEMMA JoinKeepsGood ==
  ASSUME Threads!ConversationAssumption, NEW R, Filed(R), NEW s, Good(R, s), NEW r \in DOMAIN R
  PROVE  Good(R, Threads!Join(s, r))
<1>1. Threads!Join(s, r) \in TablesOf(R)
  BY JoinIs DEF Good, Merges
<1> QED BY <1>1, JoinKeepsLed, JoinKeepsSound DEF Good

\* A function on an interval may be defined by what it does from each number to the next.
Stepwise(m, V, v, G) == \E f \in [0..m -> V] : f[0] = v /\ \A n \in 1..m : f[n] = G[n][f[n - 1]]

LEMMA StepByStep == ASSUME NEW m \in Nat, NEW V, NEW v \in V, NEW G \in [1..m -> [V -> V]] PROVE Stepwise(m, V, v, G)
<1> SUFFICES \E f \in [0..m -> V] : f[0] = v /\ \A n \in 1..m : f[n] = G[n][f[n - 1]]
  BY DEF Stepwise
<1> DEFINE Fits(f, k) == f[0] = v /\ \A n \in 1..k : f[n] = G[n][f[n - 1]]
           bad == {k \in 0..m : ~ \E f \in [0..m -> V] : Fits(f, k)}
<1>1. SUFFICES ASSUME bad # {} PROVE FALSE
  OBVIOUS
<1>2. PICK k \in bad : \A j \in bad : k <= j
  <2>1. bad \subseteq 0..m
    OBVIOUS
  <2> HIDE DEF bad
  <2> QED BY <1>1, <2>1, HasLeast
<1>3. k \in 0..m /\ ~ \E f \in [0..m -> V] : Fits(f, k)
  OBVIOUS
<1>4. CASE k = 0
  <2> DEFINE f == [n \in 0..m |-> v]
  <2>1. f \in [0..m -> V] /\ Fits(f, 0)
    OBVIOUS
  <2> QED BY <1>3, <1>4, <2>1
<1>5. CASE k # 0
  <2>1. k - 1 \in 0..m /\ k - 1 \notin bad /\ k \in 1..m
    <3> HIDE DEF bad
    <3> QED BY <1>2, <1>3, <1>5
  <2>2. PICK f \in [0..m -> V] : Fits(f, k - 1)
    BY <2>1
  <2> DEFINE g == [n \in 0..m |-> IF n = k THEN G[k][f[k - 1]] ELSE f[n]]
  <2>3. g \in [0..m -> V]
    <3>1. G[k][f[k - 1]] \in V
      BY <2>1
    <3> QED BY <3>1
  <2>4. g[0] = v
    BY <2>1, <2>2
  <2>5. ASSUME NEW n \in 1..k PROVE g[n] = G[n][g[n - 1]]
    <3>1. n \in 0..m /\ n - 1 \in 0..m /\ n - 1 # k
      BY <2>1
    <3>2. g[n - 1] = f[n - 1]
      BY <3>1
    <3>3. CASE n = k
      BY <3>1, <3>2, <3>3
    <3>4. CASE n # k
      <4>1. n \in 1..(k - 1)
        BY <2>1, <3>4
      <4> QED BY <2>2, <3>1, <3>2, <3>4, <4>1
    <3> QED BY <3>3, <3>4
  <2> HIDE DEF g
  <2> QED BY <1>3, <2>3, <2>4, <2>5
<1> QED BY <1>4, <1>5

\* The joins of a rebuild, one after another.
LEMMA TogetherIs ==
  ASSUME Threads!ConversationAssumption, NEW R, Filed(R), NEW s \in TablesOf(R), NEW M, M \subseteq DOMAIN R
  PROVE  \E f : /\ f[0] = s /\ Threads!Together(s, M) = f[MaxRows]
                /\ \A n \in 1..MaxRows : f[n] = (IF n \in M THEN Threads!Join(f[n - 1], n) ELSE f[n - 1])
<1>1. MaxRows \in Nat
  BY ThreadBounds
<1> DEFINE V == TablesOf(R)
           G == [n \in 1..MaxRows |-> [k \in V |-> IF n \in M THEN Threads!Join(k, n) ELSE k]]
           after == CHOOSE f : f = [n \in 0..MaxRows |->
             IF n = 0 THEN s ELSE IF n \in M THEN Threads!Join(f[n - 1], n) ELSE f[n - 1]]
<1>2. \E f : f = [n \in 0..MaxRows |-> IF n = 0 THEN s ELSE IF n \in M THEN Threads!Join(f[n - 1], n) ELSE f[n - 1]]
  <2>1. G \in [1..MaxRows -> [V -> V]]
    <3>1. \A n \in M, k \in V : Threads!Join(k, n) \in V
      BY JoinIs DEF Merges
    <3> HIDE DEF V
    <3> QED BY <3>1
  <2> HIDE DEF V, G, after
  <2>2. PICK f \in [0..MaxRows -> V] : f[0] = s /\ \A n \in 1..MaxRows : f[n] = G[n][f[n - 1]]
    <3>1. s \in V
      BY DEF V
    <3>2. Stepwise(MaxRows, V, s, G)
      BY <1>1, <2>1, <3>1, StepByStep
    <3> QED BY <3>2 DEF Stepwise
  <2>3. ASSUME NEW n \in 0..MaxRows
          PROVE f[n] = (IF n = 0 THEN s ELSE IF n \in M THEN Threads!Join(f[n - 1], n) ELSE f[n - 1])
    <3>1. CASE n # 0
      <4>1. n \in 1..MaxRows /\ n - 1 \in 0..MaxRows
        BY <1>1, <3>1
      <4>2. f[n - 1] \in V
        BY <4>1
      <4>3. G[n][f[n - 1]] = (IF n \in M THEN Threads!Join(f[n - 1], n) ELSE f[n - 1])
        BY <4>1, <4>2 DEF G
      <4> QED BY <2>2, <3>1, <4>1, <4>3
    <3> QED BY <2>2, <3>1
  <2>4. f = [n \in 0..MaxRows |-> f[n]]
    OBVIOUS
  <2> QED BY <2>3, <2>4
<1>3. after = [n \in 0..MaxRows |-> IF n = 0 THEN s ELSE IF n \in M THEN Threads!Join(after[n - 1], n) ELSE after[n - 1]]
  <2> HIDE DEF V, G
  <2> QED BY <1>2
<1>4. Threads!Together(s, M) = after[MaxRows]
  BY DEF Threads!Together
<1> HIDE DEF after, V, G
<1>5. after[0] = s
  BY <1>1, <1>3
<1>6. ASSUME NEW n \in 1..MaxRows PROVE after[n] = (IF n \in M THEN Threads!Join(after[n - 1], n) ELSE after[n - 1])
  <2>1. n \in 0..MaxRows /\ n # 0
    BY <1>1
  <2> QED BY <1>3, <2>1
<1> QED BY <1>4, <1>5, <1>6

\* A rebuild completes the rows that it took apart.
LEMMA TogetherCompletes ==
  ASSUME Threads!ConversationAssumption, NEW R, Filed(R), NEW s, Good(R, s), NEW M, M \subseteq DOMAIN R,
         Complete(R, s, DOMAIN R \ M, DOMAIN R)
  PROVE  Good(R, Threads!Together(s, M)) /\ Complete(R, Threads!Together(s, M), DOMAIN R, DOMAIN R)
<1>1. MaxRows \in Nat /\ DOMAIN R \subseteq 1..MaxRows
  BY ThreadBounds DEF Filed, Threads!Rows
<1>2. PICK f : /\ f[0] = s /\ Threads!Together(s, M) = f[MaxRows]
               /\ \A n \in 1..MaxRows : f[n] = (IF n \in M THEN Threads!Join(f[n - 1], n) ELSE f[n - 1])
  BY TogetherIs DEF Good
<1> DEFINE Past(n) == {x \in DOMAIN R : x \notin M \/ x <= n}
           Holds(n) == Good(R, f[n]) /\ Complete(R, f[n], Past(n), DOMAIN R)
           bad == {n \in 0..MaxRows : ~Holds(n)}
<1>3. Holds(0)
  <2>1. Past(0) = DOMAIN R \ M
    BY <1>1
  <2> QED BY <1>2, <2>1
<1>4. ASSUME NEW n \in 1..MaxRows, Holds(n - 1) PROVE Holds(n)
  <2>1. CASE n \in M
    <3>1. f[n] = Threads!Join(f[n - 1], n) /\ n \in DOMAIN R
      BY <1>2, <2>1
    <3>2. Past(n) = Past(n - 1) \cup {n}
      BY <1>1, <3>1
    <3>3. Good(R, f[n])
      BY <1>4, <3>1, JoinKeepsGood
    <3>4. Complete(R, f[n - 1], Past(n - 1), DOMAIN R) /\ f[n - 1] \in TablesOf(R)
      BY <1>4 DEF Good
    <3>5. Past(n - 1) \subseteq DOMAIN R /\ DOMAIN R \subseteq DOMAIN R \cup {n}
      OBVIOUS
    <3> HIDE DEF Past
    <3>6. Complete(R, Threads!Join(f[n - 1], n), Past(n - 1) \cup {n}, DOMAIN R)
      BY <3>1, <3>4, <3>5, JoinCompletes
    <3> QED BY <3>1, <3>2, <3>3, <3>6
  <2>2. CASE n \notin M
    <3>1. f[n] = f[n - 1]
      BY <1>2, <2>2
    <3>2. Past(n) = Past(n - 1)
      BY <1>1, <2>2
    <3> HIDE DEF Past
    <3> QED BY <1>4, <3>1, <3>2
  <2> QED BY <2>1, <2>2
<1> HIDE DEF Holds
<1>5. bad = {}
  <2> SUFFICES ASSUME bad # {} PROVE FALSE
    OBVIOUS
  <2>1. bad \subseteq 0..MaxRows
    OBVIOUS
  <2> HIDE DEF bad
  <2>2. PICK k \in bad : \A j \in bad : k <= j
    BY <1>1, <2>1, HasLeast
  <2> USE DEF bad
  <2>3. k \in 0..MaxRows /\ ~Holds(k)
    OBVIOUS
  <2>4. k \in 1..MaxRows /\ k - 1 \in 0..MaxRows
    BY <1>1, <1>3, <2>3
  <2>5. Holds(k - 1)
    BY <1>1, <2>2, <2>3, <2>4
  <2> QED BY <1>4, <2>3, <2>4, <2>5
<1>6. Holds(MaxRows)
  BY <1>1, <1>5
<1>7. Past(MaxRows) = DOMAIN R
  <2>1. \A x \in DOMAIN R : x \in 1..MaxRows
    BY <1>1
  <2>2. \A x \in 1..MaxRows : x <= MaxRows
    BY <1>1
  <2>3. \A x \in DOMAIN R : x <= MaxRows
    BY <2>1, <2>2
  <2> QED BY <2>3
<1> QED BY <1>2, <1>6, <1>7 DEF Holds

\* Rows that keep their evidence, with all that shares it, stay linked when a row comes.
LEMMA StayLinked ==
  ASSUME NEW R, NEW Q, DOMAIN R \subseteq DOMAIN Q, NEW S \in SUBSET DOMAIN R,
         \A x \in S : Evidence(Q, x) = Evidence(R, x),
         \A x \in S, y \in DOMAIN R : Shares(R, x, y) => y \in S,
         NEW x \in S, NEW y \in S, Linked(R, x, y)
  PROVE  Linked(Q, x, y)
<1> SUFFICES ASSUME NEW T \in SUBSET DOMAIN Q, Closed(Q, T), x \in T PROVE y \in T
  BY DEF Linked
<1>1. Closed(R, S \cap T)
  <2> SUFFICES ASSUME NEW a \in S \cap T, NEW b \in DOMAIN R, Shares(R, a, b) PROVE b \in S \cap T
    BY DEF Closed
  <2>1. b \in S
    OBVIOUS
  <2>2. Shares(Q, a, b)
    BY <2>1 DEF Shares
  <2> QED BY <2>1, <2>2 DEF Closed
<1> QED BY <1>1 DEF Linked

\* The rows with one more.
Extended(r, m) == [x \in DOMAIN row \cup {r} |-> IF x = r THEN [mail |-> m, placed |-> TRUE] ELSE row[x]]

LEMMA ExtendedIs ==
  ASSUME Threads!ConversationAssumption, Filed(row), NEW r \in Threads!Rows \ DOMAIN row, NEW m \in Mails
  PROVE  LET Q == Extended(r, m)
         IN /\ Filed(Q) /\ DOMAIN Q = DOMAIN row \cup {r}
            /\ \A x \in DOMAIN row : OwnIds(Q, x) = OwnIds(row, x) /\ RefIds(Q, x) = RefIds(row, x)
            /\ \A t : Clear(Q, t) => Clear(row, t)
            /\ \A t : t \notin OwnIds(Q, r) /\ Clear(row, t) => Clear(Q, t)
<1> DEFINE Q == Extended(r, m)
<1>1. DOMAIN Q = DOMAIN row \cup {r} /\ Q[r] = [mail |-> m, placed |-> TRUE] /\ \A x \in DOMAIN row : Q[x] = row[x]
  BY DEF Extended
<1>2. Filed(Q)
  <2>1. ASSUME NEW x \in DOMAIN Q PROVE Q[x] \in Threads!MessageRow
    <3>1. CASE x = r
      <4>1. [mail |-> m, placed |-> TRUE] \in Threads!MessageRow
        BY DEF Threads!MessageRow
      <4> HIDE DEF Q
      <4> QED BY <1>1, <3>1, <4>1
    <3>2. CASE x \in DOMAIN row
      <4> HIDE DEF Q
      <4> QED BY <1>1, <3>2 DEF Filed
    <3> HIDE DEF Q
    <3> QED BY <1>1, <3>1, <3>2
  <2>2. Q = [x \in DOMAIN Q |-> Q[x]]
    BY DEF Extended
  <2> HIDE DEF Q
  <2> QED BY <1>1, <2>1, <2>2 DEF Filed
<1> HIDE DEF Q
<1>3. \A x \in DOMAIN row : OwnIds(Q, x) = OwnIds(row, x) /\ RefIds(Q, x) = RefIds(row, x)
  BY <1>1 DEF OwnIds, RefIds
<1>4. ASSUME NEW t, Clear(Q, t) PROVE Clear(row, t)
  <2>1. Holding(row, t) \subseteq Holding(Q, t)
    BY <1>1, <1>3 DEF Holding
  <2>2. \A x, y \in Holding(row, t) : x = y
    BY <1>2, <1>4, <2>1, OneHolder
  <2> QED BY <2>2, OneHolder
<1>5. ASSUME NEW t, t \notin OwnIds(Q, r), Clear(row, t) PROVE Clear(Q, t)
  <2>1. Holding(row, t) = Holding(Q, t)
    BY <1>1, <1>3, <1>5 DEF Holding
  <2> QED BY <1>5, <2>1 DEF Clear
<1> QED BY <1>1, <1>2, <1>3, <1>4, <1>5 DEF Q

LEMMA InsertedIs ==
  ASSUME Threads!ConversationAssumption, ThreadInv, NEW r \in Threads!Rows \ DOMAIN row, NEW m \in Mails
  PROVE  LET Q == Extended(r, m)
             s == Threads!Inserted(r, m)
         IN /\ s \in TablesOf(Q) /\ Led(s)
            /\ s.group[r] = r /\ \A x \in DOMAIN row : s.group[x] = group[x] /\ group[x] \in DOMAIN row
            /\ s.reference = reference
<1> DEFINE Q == Extended(r, m)
           s == Threads!Inserted(r, m)
           D == DOMAIN row \cup {r}
           g == [x \in D |-> IF x = r THEN r ELSE group[x]]
           n == [x \in D |-> IF x = r THEN 0 ELSE merged[x]]
<1>1. /\ group \in [DOMAIN row -> DOMAIN row] /\ reference \in [Threads!Ids -> DOMAIN row \cup {0}]
      /\ merged \in [DOMAIN row -> DOMAIN row \cup {0}]
  BY DEF ThreadInv, TablesOf, Threads!Tables
<1>2. s = [row |-> Q, group |-> g, reference |-> reference, merged |-> n]
  BY DEF Threads!Inserted, Extended
<1>3. g \in [D -> D] /\ reference \in [Threads!Ids -> D \cup {0}] /\ n \in [D -> D \cup {0}]
  BY <1>1
<1>4. DOMAIN Q = D
  BY DEF Extended
<1>5. \A x \in DOMAIN row : group[x] = (IF merged[x] = 0 THEN x ELSE merged[x]) /\ merged[group[x]] = 0
  BY <1>1 DEF ThreadInv, Led, Threads!Tables
<1>6. g[r] = r /\ n[r] = 0 /\ \A x \in DOMAIN row : x # r /\ g[x] = group[x] /\ n[x] = merged[x] /\ group[x] \in DOMAIN row
  BY <1>1
<1> HIDE DEF Q, s, g, n
<1>7. s \in TablesOf(Q) /\ s.row = Q /\ s.group = g /\ s.reference = reference /\ s.merged = n
  BY <1>2, <1>3, <1>4 DEF TablesOf
<1>8. Led(s)
  <2>1. DOMAIN s.group = D
    BY <1>3, <1>7
  <2>2. ASSUME NEW x \in D PROVE s.group[x] = (IF s.merged[x] = 0 THEN x ELSE s.merged[x]) /\ s.merged[s.group[x]] = 0
    <3>1. CASE x = r
      BY <1>6, <1>7, <3>1
    <3>2. CASE x \in DOMAIN row
      BY <1>5, <1>6, <1>7, <3>2
    <3> QED BY <3>1, <3>2
  <2> QED BY <2>1, <2>2 DEF Led
<1> QED BY <1>6, <1>7, <1>8 DEF Q, s

\* A row whose id is its own takes nothing away from the others.
LEMMA FreshRow ==
  ASSUME Threads!ConversationAssumption, ThreadInv, NEW r \in Threads!Rows \ DOMAIN row, NEW m \in Mails,
         \A t \in OwnIds(Extended(r, m), r) : Clear(Extended(r, m), t)
  PROVE  /\ Evidenced(Extended(r, m), Threads!Inserted(r, m))
         /\ Complete(Extended(r, m), Threads!Inserted(r, m), DOMAIN row, DOMAIN row)
<1> DEFINE Q == Extended(r, m)
           s == Threads!Inserted(r, m)
<1>0. Filed(row) /\ Evidenced(row, Threads!Tables) /\ Complete(row, Threads!Tables, DOMAIN row, DOMAIN row)
  BY DEF ThreadInv
<1>1. /\ Filed(Q) /\ DOMAIN Q = DOMAIN row \cup {r}
      /\ \A x \in DOMAIN row : OwnIds(Q, x) = OwnIds(row, x) /\ RefIds(Q, x) = RefIds(row, x)
      /\ \A t : Clear(Q, t) <=> Clear(row, t)
  BY <1>0, ExtendedIs
<1>2. /\ s.group[r] = r /\ \A x \in DOMAIN row : s.group[x] = group[x] /\ group[x] \in DOMAIN row
      /\ s.reference = reference
  BY InsertedIs
<1> HIDE DEF Q, s
<1>3. \A x \in DOMAIN row : Evidence(Q, x) = Evidence(row, x)
  BY <1>1 DEF Evidence
<1>4. ASSUME NEW x \in DOMAIN row, NEW y \in DOMAIN row, group[x] = group[y] PROVE Linked(Q, x, y)
  <2>1. Linked(row, x, y)
    BY <1>0, <1>4 DEF Evidenced, Threads!Tables
  <2> QED BY <1>1, <1>3, <2>1, StayLinked
<1>5. ASSUME NEW x \in DOMAIN Q, NEW y \in DOMAIN Q, s.group[x] = s.group[y] PROVE Linked(Q, x, y)
  <2>1. CASE x = y
    BY <2>1, LinkedIsEquivalence
  <2>2. CASE x # y
    <3>1. x # r /\ y # r
      BY <1>1, <1>2, <1>5, <2>2
    <3> QED BY <1>1, <1>2, <1>4, <1>5, <3>1
  <2> QED BY <2>1, <2>2
<1>6. ASSUME NEW t \in Threads!Ids, s.reference[t] # 0
        PROVE \E x \in DOMAIN Q : t \in RefIds(Q, x) /\ s.group[x] = s.reference[t]
  BY <1>0, <1>1, <1>2, <1>6 DEF Evidenced, Threads!Tables
<1>7. Complete(Q, s, DOMAIN row, DOMAIN row)
  BY <1>0, <1>1, <1>2 DEF Complete, Threads!Tables
<1> QED BY <1>5, <1>6, <1>7 DEF Evidenced, Q, s

LEMMA ApartIs ==
  ASSUME NEW R, Filed(R), NEW s \in TablesOf(R), NEW A
  PROVE  LET k == Threads!Apart(s, A)
             M == Threads!Members(s, A)
         IN /\ k \in TablesOf(R) /\ M \subseteq DOMAIN R /\ \A x \in DOMAIN R : x \in M <=> s.group[x] \in A
            /\ \A x \in DOMAIN R : /\ k.group[x] = (IF x \in M THEN x ELSE s.group[x])
                                    /\ k.merged[x] = (IF x \in M THEN 0 ELSE s.merged[x])
            /\ \A t \in Threads!Ids : k.reference[t] = (IF s.reference[t] \in A THEN 0 ELSE s.reference[t])
<1> DEFINE k == Threads!Apart(s, A)
           M == Threads!Members(s, A)
           g == [x \in DOMAIN R |-> IF x \in M THEN x ELSE s.group[x]]
           e == [t \in Threads!Ids |-> IF s.reference[t] \in A THEN 0 ELSE s.reference[t]]
           n == [x \in DOMAIN R |-> IF x \in M THEN 0 ELSE s.merged[x]]
<1>1. s = [row |-> R, group |-> s.group, reference |-> s.reference, merged |-> s.merged]
      /\ s.row = R /\ s.group \in [DOMAIN R -> DOMAIN R]
      /\ s.reference \in [Threads!Ids -> DOMAIN R \cup {0}] /\ s.merged \in [DOMAIN R -> DOMAIN R \cup {0}]
  BY DEF TablesOf
<1>2. M \subseteq DOMAIN R /\ \A x \in DOMAIN R : x \in M <=> s.group[x] \in A
  BY <1>1 DEF Threads!Members
<1>3. DOMAIN s.group = DOMAIN R /\ DOMAIN s.merged = DOMAIN R
  BY <1>1
<1> HIDE DEF M
<1>4. g \in [DOMAIN R -> DOMAIN R] /\ e \in [Threads!Ids -> DOMAIN R \cup {0}] /\ n \in [DOMAIN R -> DOMAIN R \cup {0}]
  BY <1>1
<1>5. k = [s EXCEPT !.group = g, !.reference = e, !.merged = n]
  BY <1>3 DEF Threads!Apart, M
<1>6. k \in TablesOf(R) /\ k.group = g /\ k.reference = e /\ k.merged = n
  <2> HIDE DEF g, e, n, k
  <2>1. k = [row |-> R, group |-> g, reference |-> e, merged |-> n]
    BY <1>1, <1>5
  <2> QED BY <1>4, <2>1 DEF TablesOf
<1> QED BY <1>2, <1>6 DEF M

\* What a row with an id that appears again touches is taken apart; the rest is as it was.
LEMMA TakenApart ==
  ASSUME Threads!ConversationAssumption, ThreadInv, NEW r \in Threads!Rows \ DOMAIN row, NEW m \in Mails
  PROVE  LET Q == Extended(r, m)
             s == Threads!Inserted(r, m)
             A == Threads!Touched(s, r)
         IN Good(Q, Threads!Apart(s, A)) /\ Complete(Q, Threads!Apart(s, A), DOMAIN Q \ Threads!Members(s, A), DOMAIN Q)
<1> DEFINE Q == Extended(r, m)
           s == Threads!Inserted(r, m)
           A == Threads!Touched(s, r)
           M == Threads!Members(s, A)
           k == Threads!Apart(s, A)
<1>0. Filed(row) /\ Evidenced(row, Threads!Tables) /\ Complete(row, Threads!Tables, DOMAIN row, DOMAIN row)
  BY DEF ThreadInv
<1>1. /\ Filed(Q) /\ DOMAIN Q = DOMAIN row \cup {r}
      /\ \A x \in DOMAIN row : OwnIds(Q, x) = OwnIds(row, x) /\ RefIds(Q, x) = RefIds(row, x)
      /\ \A t : Clear(Q, t) => Clear(row, t)
      /\ \A t : t \notin OwnIds(Q, r) /\ Clear(row, t) => Clear(Q, t)
  BY <1>0, ExtendedIs
<1>2. /\ s \in TablesOf(Q) /\ Led(s)
      /\ s.group[r] = r /\ \A x \in DOMAIN row : s.group[x] = group[x] /\ group[x] \in DOMAIN row
      /\ s.reference = reference
  BY InsertedIs
<1>3. s.row = Q /\ DOMAIN s.group = DOMAIN Q /\ s.group \in [DOMAIN Q -> DOMAIN Q]
  BY <1>2 DEF TablesOf
<1> HIDE DEF Q, s
<1>4. /\ k \in TablesOf(Q) /\ M \subseteq DOMAIN Q /\ \A x \in DOMAIN Q : x \in M <=> s.group[x] \in A
      /\ \A x \in DOMAIN Q : /\ k.group[x] = (IF x \in M THEN x ELSE s.group[x])
                              /\ k.merged[x] = (IF x \in M THEN 0 ELSE s.merged[x])
      /\ \A t \in Threads!Ids : k.reference[t] = (IF s.reference[t] \in A THEN 0 ELSE s.reference[t])
  BY <1>1, <1>2, ApartIs
<1>5. Threads!Own(s, r) = OwnIds(Q, r) /\ \A t : Threads!Holders(s, t) = Holding(Q, t)
  BY <1>1, <1>3, WordsAre
<1>6. /\ r \in A
      /\ \A t \in OwnIds(Q, r) : \A x \in Holding(Q, t) : s.group[x] \in A
      /\ \A t \in OwnIds(Q, r) : s.reference[t] # 0 => s.reference[t] \in A
  BY <1>2, <1>5 DEF Threads!Touched, Threads!Noted
<1> HIDE DEF A, M, k
<1>7. r \in M
  BY <1>1, <1>2, <1>4, <1>6
<1>8. \A x \in DOMAIN row : group[x] # 0
  BY <1>0, <1>2, ThreadBounds DEF Filed, Threads!Rows
\* A row that stays is no evidence of the id that appears again.
<1>9. ASSUME NEW x \in DOMAIN row, x \notin M PROVE Evidence(Q, x) = Evidence(row, x)
  <2> SUFFICES ASSUME NEW t \in OwnIds(row, x) \cup RefIds(row, x), Clear(row, t), t \in OwnIds(Q, r) PROVE FALSE
    BY <1>1 DEF Evidence
  <2>1. CASE t \in OwnIds(row, x)
    <3>1. x \in Holding(Q, t)
      BY <1>1, <2>1 DEF Holding
    <3> QED BY <1>1, <1>4, <1>6, <1>9, <3>1
  <2>2. CASE t \in RefIds(row, x)
    <3>1. reference[t] = group[x]
      BY <1>0, <2>2 DEF Complete, Threads!Tables
    <3> QED BY <1>1, <1>2, <1>4, <1>6, <1>8, <1>9, <3>1
  <2> QED BY <2>1, <2>2
<1>10. Led(k)
  <2>1. DOMAIN k.group = DOMAIN Q
    BY <1>4 DEF TablesOf
  <2>2. ASSUME NEW x \in DOMAIN Q PROVE k.group[x] = (IF k.merged[x] = 0 THEN x ELSE k.merged[x]) /\ k.merged[k.group[x]] = 0
    <3>1. s.group[x] = (IF s.merged[x] = 0 THEN x ELSE s.merged[x]) /\ s.merged[s.group[x]] = 0 /\ s.group[x] \in DOMAIN Q
      BY <1>2, <1>3 DEF Led
    <3> QED BY <1>4, <3>1
  <2> QED BY <2>1, <2>2 DEF Led
<1>11. ASSUME NEW x \in DOMAIN Q, NEW y \in DOMAIN Q, k.group[x] = k.group[y] PROVE Linked(Q, x, y)
  <2>1. ASSUME NEW a \in DOMAIN Q \ M, NEW b \in M PROVE s.group[a] # b
    <3>1. s.group[a] = b => s.merged[b] = 0 /\ s.group[b] = b
      BY <1>2, <1>3, <1>4 DEF Led
    <3> QED BY <1>4, <3>1
  <2>2. CASE x \in M /\ y \in M
    BY <1>4, <1>11, <2>2, LinkedIsEquivalence
  <2>3. CASE x \notin M /\ y \notin M
    <3> DEFINE S == {z \in DOMAIN row : group[z] = group[x]}
    <3>1. x \in DOMAIN row /\ y \in DOMAIN row /\ group[x] = group[y] /\ group[x] \notin A
      BY <1>1, <1>2, <1>4, <1>7, <1>11, <2>3
    <3>2. \A z \in S : z \in DOMAIN row /\ z \notin M
      BY <1>1, <1>2, <1>4, <3>1
    <3>3. \A z \in S : Evidence(Q, z) = Evidence(row, z)
      BY <1>9, <3>2
    <3>4. \A z \in S, w \in DOMAIN row : Shares(row, z, w) => w \in S
      <4>1. \A z, w \in DOMAIN row : Shares(row, z, w) => group[z] = group[w]
        BY <1>0, SharersTogether DEF Threads!Tables
      <4> QED BY <4>1
    <3>5. Linked(row, x, y)
      BY <1>0, <3>1 DEF Evidenced, Threads!Tables
    <3>6. x \in S /\ y \in S /\ S \in SUBSET DOMAIN row /\ DOMAIN row \subseteq DOMAIN Q
      BY <1>1, <3>1
    <3> HIDE DEF S
    <3> QED BY <3>3, <3>4, <3>5, <3>6, StayLinked
  <2>4. CASE x \in M /\ y \notin M
    BY <1>4, <1>11, <2>1, <2>4
  <2>5. CASE x \notin M /\ y \in M
    BY <1>4, <1>11, <2>1, <2>5
  <2> QED BY <2>2, <2>3, <2>4, <2>5
<1>12. ASSUME NEW t \in Threads!Ids, k.reference[t] # 0
         PROVE \E x \in DOMAIN Q : t \in RefIds(Q, x) /\ k.group[x] = k.reference[t]
  <2>1. reference[t] # 0 /\ reference[t] \notin A /\ k.reference[t] = reference[t]
    BY <1>2, <1>4, <1>12
  <2>2. PICK x \in DOMAIN row : t \in RefIds(row, x) /\ group[x] = reference[t]
    BY <1>0, <2>1 DEF Evidenced, Threads!Tables
  <2> QED BY <1>1, <1>2, <1>4, <2>1, <2>2
<1>13. Complete(Q, k, DOMAIN Q \ M, DOMAIN Q)
  <2> SUFFICES ASSUME NEW x \in DOMAIN Q \ M, NEW t \in RefIds(Q, x), Clear(Q, t)
               PROVE  k.reference[t] = k.group[x] /\ \A y \in DOMAIN Q : t \in OwnIds(Q, y) => k.group[y] = k.group[x]
    BY DEF Complete
  <2>1. x \in DOMAIN row /\ t \in RefIds(row, x) /\ Clear(row, t) /\ group[x] \notin A /\ t \in Threads!Ids
    BY <1>0, <1>1, <1>2, <1>4, <1>7, IdsAreIds
  <2>2. reference[t] = group[x] /\ \A y \in DOMAIN row : t \in OwnIds(row, y) => group[y] = group[x]
    BY <1>0, <2>1 DEF Complete, Threads!Tables
  <2>3. k.reference[t] = k.group[x]
    BY <1>2, <1>4, <2>1, <2>2
  <2>4. t \notin OwnIds(Q, r)
    BY <1>2, <1>6, <1>8, <2>1, <2>2
  <2> QED BY <1>1, <1>2, <1>4, <2>1, <2>2, <2>3, <2>4
<1> QED BY <1>4, <1>10, <1>11, <1>12, <1>13 DEF Good, Evidenced, Q, s, A, M, k

\* A row that comes is joined by what it is evidence for, whether its id is new or appears again.
LEMMA ReconcileCompletes ==
  ASSUME Threads!ConversationAssumption, ThreadInv, NEW r \in Threads!Rows \ DOMAIN row, NEW m \in Mails
  PROVE  LET Q == Extended(r, m)
             k == Threads!Reconcile(Threads!Inserted(r, m), r)
         IN Filed(Q) /\ Good(Q, k) /\ Complete(Q, k, DOMAIN Q, DOMAIN Q)
<1> DEFINE Q == Extended(r, m)
           s == Threads!Inserted(r, m)
           k == Threads!Reconcile(s, r)
<1> SUFFICES Filed(Q) /\ Good(Q, k) /\ Complete(Q, k, DOMAIN Q, DOMAIN Q)
  OBVIOUS
<1>1. Filed(Q) /\ DOMAIN Q = DOMAIN row \cup {r}
  BY ExtendedIs DEF ThreadInv
<1>2. s \in TablesOf(Q) /\ Led(s) /\ s.row = Q
  BY InsertedIs DEF TablesOf
<1>3. (\E t \in Threads!Own(s, r) : Threads!Collides(s, t)) <=> (\E t \in OwnIds(Q, r) : ~Clear(Q, t))
  <2> HIDE DEF Q, s
  <2> QED BY <1>1, <1>2, WordsAre
<1>4. CASE \A t \in OwnIds(Q, r) : Clear(Q, t)
  <2>1. k = Threads!Join(s, r)
    <3> HIDE DEF Q, s
    <3> QED BY <1>3, <1>4 DEF Threads!Reconcile
  <2>2. Evidenced(Q, s) /\ Complete(Q, s, DOMAIN row, DOMAIN row)
    BY <1>4, FreshRow
  <2> HIDE DEF Q, s, k
  <2>3. Good(Q, k)
    BY <1>1, <1>2, <2>1, <2>2, JoinKeepsGood DEF Good
  <2>4. Complete(Q, k, DOMAIN row \cup {r}, DOMAIN Q)
    BY <1>1, <1>2, <2>1, <2>2, JoinCompletes
  <2> QED BY <1>1, <2>3, <2>4
<1>5. CASE ~ \A t \in OwnIds(Q, r) : Clear(Q, t)
  <2> DEFINE A == Threads!Touched(s, r)
             M == Threads!Members(s, A)
  <2>1. k = Threads!Together(Threads!Apart(s, A), M)
    <3> HIDE DEF Q, s
    <3> QED BY <1>3, <1>5 DEF Threads!Reconcile, Threads!Rebuild
  <2>2. Good(Q, Threads!Apart(s, A)) /\ Complete(Q, Threads!Apart(s, A), DOMAIN Q \ M, DOMAIN Q)
    BY TakenApart
  <2>3. M \subseteq DOMAIN Q
    BY <1>2 DEF Threads!Members, TablesOf
  <2> HIDE DEF Q, s, k, A, M
  <2> QED BY <1>1, <2>1, <2>2, <2>3, TogetherCompletes
<1> QED BY <1>1, <1>4, <1>5

LEMMA SynchronizeKeeps == ASSUME Threads!ConversationAssumption, ThreadInv, NEW m \in Mails, Threads!Synchronize(m)
  PROVE ThreadInv'
<1>1. PICK r \in Threads!Rows \ DOMAIN row :
        LET k == Threads!Reconcile(Threads!Inserted(r, m), r)
        IN row' = k.row /\ group' = k.group /\ reference' = k.reference /\ merged' = k.merged
  BY DEF Threads!Synchronize
<1> DEFINE Q == Extended(r, m)
           k == Threads!Reconcile(Threads!Inserted(r, m), r)
<1>2. Filed(Q) /\ Good(Q, k) /\ Complete(Q, k, DOMAIN Q, DOMAIN Q)
  BY ReconcileCompletes
<1>3. row' = k.row /\ group' = k.group /\ reference' = k.reference /\ merged' = k.merged
  BY <1>1
<1> HIDE DEF Q, k
<1>4. k.row = Q /\ k = [row |-> Q, group |-> k.group, reference |-> k.reference, merged |-> k.merged]
  BY <1>2 DEF Good, TablesOf
<1>5. Threads!Tables' = k /\ row' = Q
  BY <1>3, <1>4 DEF Threads!Tables
<1> QED BY <1>2, <1>5 DEF ThreadInv, Good

\* A mail that leaves takes no evidence away: its row stays.
LEMMA LeaveKeeps == ASSUME Threads!ConversationAssumption, ThreadInv, NEW r \in DOMAIN row, Threads!Leave(r) PROVE ThreadInv'
<1>1. DOMAIN row' = DOMAIN row /\ \A x \in DOMAIN row : row'[x].mail = row[x].mail /\ row'[x] \in Threads!MessageRow
  BY DEF Threads!Leave, ThreadInv, Filed, Threads!MessageRow
<1>2. row' = [x \in DOMAIN row' |-> row'[x]]
  BY DEF Threads!Leave
<1>3. Filed(row')
  BY <1>1, <1>2 DEF ThreadInv, Filed
<1>4. \A x \in DOMAIN row : OwnIds(row', x) = OwnIds(row, x) /\ RefIds(row', x) = RefIds(row, x)
  BY <1>1 DEF OwnIds, RefIds
<1>5. \A t : Clear(row', t) <=> Clear(row, t)
  <2>1. \A t : Holding(row', t) = Holding(row, t)
    BY <1>1, <1>4 DEF Holding
  <2> QED BY <2>1 DEF Clear
<1>6. \A x \in DOMAIN row : Evidence(row', x) = Evidence(row, x)
  BY <1>4, <1>5 DEF Evidence
<1>7. Threads!Tables' = [row |-> row', group |-> group, reference |-> reference, merged |-> merged]
  BY DEF Threads!Leave, Threads!Tables
<1>8. Threads!Tables' \in TablesOf(row') /\ Led(Threads!Tables')
  BY <1>1, <1>7 DEF ThreadInv, TablesOf, Led, Threads!Tables
<1>9. ASSUME NEW x \in DOMAIN row, NEW y \in DOMAIN row, Linked(row, x, y) PROVE Linked(row', x, y)
  <2>1. Closed(row, DOMAIN row) /\ DOMAIN row \in SUBSET DOMAIN row
    BY DEF Closed
  <2> QED BY <1>1, <1>6, <1>9, StayLinked
<1>10. Evidenced(row', Threads!Tables')
  BY <1>1, <1>4, <1>7, <1>9 DEF ThreadInv, Evidenced, Threads!Tables
<1>11. Complete(row', Threads!Tables', DOMAIN row', DOMAIN row')
  BY <1>1, <1>4, <1>5, <1>7 DEF ThreadInv, Complete, Threads!Tables
<1> QED BY <1>3, <1>8, <1>10, <1>11 DEF ThreadInv

LEMMA ThreadInitHolds == ASSUME Threads!ConversationAssumption, Threads!Init PROVE ThreadInv
<1>1. DOMAIN row = {} /\ row = [r \in {} |-> 0] /\ group = row /\ merged = row /\ reference = [t \in Threads!Ids |-> 0]
  BY DEF Threads!Init
<1>2. Filed(row) /\ Threads!Tables \in TablesOf(row)
  BY <1>1 DEF Filed, TablesOf, Threads!Tables
<1>3. Led(Threads!Tables) /\ Evidenced(row, Threads!Tables) /\ Complete(row, Threads!Tables, DOMAIN row, DOMAIN row)
  BY <1>1 DEF Led, Evidenced, Complete, Threads!Tables
<1> QED BY <1>2, <1>3 DEF ThreadInv

LEMMA ThreadNextKeeps == ASSUME Threads!ConversationAssumption, ThreadInv, [Threads!Next]_Threads!vars PROVE ThreadInv'
<1>1. CASE UNCHANGED Threads!vars
  BY <1>1 DEF Threads!vars, ThreadInv, Threads!Tables
<1>2. CASE \E m \in Mails : Threads!Synchronize(m)
  BY <1>2, SynchronizeKeeps
<1>3. CASE \E r \in DOMAIN row : Threads!Leave(r)
  BY <1>3, LeaveKeeps
<1> QED BY <1>1, <1>2, <1>3 DEF Threads!Next

\* The inductive invariant of conversations holds for any mails, headers, numbers of rows and orders of arrival.
THEOREM ThreadInvariantHolds == ASSUME Threads!ConversationAssumption PROVE Threads!Spec => []ThreadInv
<1>1. Threads!Init => ThreadInv
  BY ThreadInitHolds
<1>2. ThreadInv /\ [Threads!Next]_Threads!vars => ThreadInv'
  BY ThreadNextKeeps
<1> QED BY <1>1, <1>2, PTL DEF Threads!Spec

-----------------------------------------------------------------------------
(* The components of the graph of the rows *)

LEMMA NearIs == ASSUME NEW R, NEW S \in SUBSET DOMAIN R
  PROVE LET N == Threads!Near([x \in DOMAIN R |-> Evidence(R, x)], S)
        IN N \in SUBSET DOMAIN R /\ S \subseteq N /\ (\A x \in S, y \in DOMAIN R : Shares(R, x, y) => y \in N)
           /\ \A y \in N : y \in S \/ \E x \in S : Shares(R, x, y)
BY DEF Threads!Near, Shares

\* The component as it grows from r.
Spreads(R, e, r, f) ==
  /\ f \in [0..MaxRows -> SUBSET DOMAIN R] /\ f[0] = {r} /\ Threads!Component(e, r) = f[MaxRows]
  /\ \A n \in 1..MaxRows : f[n] = Threads!Near(e, f[n - 1])

LEMMA ComponentIs == ASSUME Threads!ConversationAssumption, NEW R, NEW e, e = [x \in DOMAIN R |-> Evidence(R, x)],
  NEW r \in DOMAIN R
  PROVE \E f : Spreads(R, e, r, f)
<1>1. MaxRows \in Nat
  BY ThreadBounds
<1> DEFINE V == SUBSET DOMAIN R
           G == [n \in 1..MaxRows |-> [S \in V |-> Threads!Near(e, S)]]
           within == CHOOSE f : f = [n \in 0..MaxRows |-> IF n = 0 THEN {r} ELSE Threads!Near(e, f[n - 1])]
<1>2. \A S \in V : Threads!Near(e, S) \in V
  BY NearIs
<1>3. Stepwise(MaxRows, V, {r}, G)
  <2>1. {r} \in V
    OBVIOUS
  <2> HIDE DEF V, within
  <2>2. G \in [1..MaxRows -> [V -> V]]
    BY <1>2
  <2> HIDE DEF G
  <2> QED BY <1>1, <2>1, <2>2, StepByStep
<1> HIDE DEF within
<1>4. PICK f \in [0..MaxRows -> V] : f[0] = {r} /\ \A n \in 1..MaxRows : f[n] = G[n][f[n - 1]]
  <2> HIDE DEF V, G
  <2> QED BY <1>3 DEF Stepwise
<1>5. ASSUME NEW n \in 1..MaxRows PROVE f[n] = Threads!Near(e, f[n - 1])
  <2> HIDE DEF V
  <2>1. n - 1 \in 0..MaxRows
    BY <1>1
  <2>2. f[n - 1] \in V
    BY <2>1
  <2> QED BY <1>4, <2>2
<1>6. f = [n \in 0..MaxRows |-> IF n = 0 THEN {r} ELSE Threads!Near(e, f[n - 1])]
  <2> HIDE DEF V, G
  <2>1. ASSUME NEW n \in 0..MaxRows PROVE f[n] = (IF n = 0 THEN {r} ELSE Threads!Near(e, f[n - 1]))
    <3>1. n = 0 \/ n \in 1..MaxRows
      BY <1>1
    <3> QED BY <1>4, <1>5, <3>1
  <2>2. f = [n \in 0..MaxRows |-> f[n]]
    OBVIOUS
  <2> QED BY <2>1, <2>2
<1>7. within = [n \in 0..MaxRows |-> IF n = 0 THEN {r} ELSE Threads!Near(e, within[n - 1])]
  BY <1>6 DEF within
<1>8. Threads!Component(e, r) = within[MaxRows]
  BY DEF Threads!Component, within
<1>9. within[0] = {r} /\ \A n \in 1..MaxRows : within[n] = Threads!Near(e, within[n - 1])
  <2>1. \A n \in 1..MaxRows : n \in 0..MaxRows /\ n # 0
    BY <1>1
  <2>2. 0 \in 0..MaxRows
    BY <1>1
  <2> QED BY <1>7, <2>1, <2>2
<1> DEFINE bad == {n \in 0..MaxRows : within[n] \notin V}
<1>10. bad = {}
  <2> SUFFICES ASSUME bad # {} PROVE FALSE
    OBVIOUS
  <2>1. PICK k \in bad : \A j \in bad : k <= j
    <3>1. bad \subseteq 0..MaxRows
      OBVIOUS
    <3> HIDE DEF bad
    <3> QED BY <1>1, <3>1, HasLeast
  <2>2. k \in 0..MaxRows /\ within[k] \notin V
    OBVIOUS
  <2>3. k # 0
    BY <1>9, <2>2
  <2>4. k \in 1..MaxRows /\ k - 1 \in 0..MaxRows
    BY <1>1, <2>2, <2>3
  <2>5. within[k - 1] \in V
    <3>1. k - 1 \notin bad
      <4> HIDE DEF bad
      <4> QED BY <1>1, <2>1, <2>4
    <3> QED BY <2>4, <3>1
  <2> QED BY <1>2, <1>9, <2>2, <2>4, <2>5
<1>11. within \in [0..MaxRows -> V]
  <2> HIDE DEF V
  <2>1. \A n \in 0..MaxRows : within[n] \in V
    BY <1>10
  <2>2. within = [n \in 0..MaxRows |-> within[n]]
    BY <1>7
  <2> HIDE DEF bad
  <2> QED BY <2>1, <2>2
<1>12. Spreads(R, e, r, within)
  BY <1>8, <1>9, <1>11 DEF Spreads
<1> QED BY <1>12

\* Whoever is in the component of a row is linked to it, and the other way round.
LEMMA ComponentIsLinked ==
  ASSUME Threads!ConversationAssumption, NEW R, Filed(R), NEW e, e = [x \in DOMAIN R |-> Evidence(R, x)], NEW r \in DOMAIN R
  PROVE  Threads!Component(e, r) = {x \in DOMAIN R : Linked(R, r, x)}
<1>1. MaxRows \in Nat /\ IsFiniteSet(DOMAIN R) /\ Cardinality(DOMAIN R) <= MaxRows
  <2>1. IsFiniteSet(Threads!Rows) /\ Cardinality(Threads!Rows) = MaxRows
    BY ThreadBounds, FS_Interval DEF Threads!Rows
  <2> QED BY <2>1, ThreadBounds, FS_Subset DEF Filed
<1>0. \E f : Spreads(R, e, r, f)
  BY ComponentIs
<1>2. PICK f : /\ f \in [0..MaxRows -> SUBSET DOMAIN R] /\ f[0] = {r} /\ Threads!Component(e, r) = f[MaxRows]
               /\ \A n \in 1..MaxRows : f[n] = Threads!Near(e, f[n - 1])
  BY <1>0 DEF Spreads
<1>3. ASSUME NEW S \in SUBSET DOMAIN R
      PROVE /\ Threads!Near(e, S) \in SUBSET DOMAIN R /\ S \subseteq Threads!Near(e, S)
            /\ \A x \in S, y \in DOMAIN R : Shares(R, x, y) => y \in Threads!Near(e, S)
            /\ \A y \in Threads!Near(e, S) : y \in S \/ \E x \in S : Shares(R, x, y)
  BY NearIs
\* After n steps the component is closed, or has more than n rows.
<1> DEFINE Grown(n) == /\ r \in f[n] /\ \A x \in f[n] : Linked(R, r, x)
                       /\ Threads!Near(e, f[n]) = f[n] \/ Cardinality(f[n]) > n
           bad == {n \in 0..MaxRows : ~Grown(n)}
<1>4. Grown(0)
  <2>1. Cardinality(f[0]) = 1
    BY <1>2, FS_Singleton
  <2>2. Linked(R, r, r)
    BY LinkedIsEquivalence
  <2> QED BY <1>2, <2>1, <2>2
<1>5. ASSUME NEW n \in 1..MaxRows, Grown(n - 1) PROVE Grown(n)
  <2> DEFINE S == f[n - 1]
  <2>1. S \in SUBSET DOMAIN R /\ f[n] = Threads!Near(e, S) /\ n \in Nat
    <3>1. n - 1 \in 0..MaxRows
      BY <1>1
    <3> QED BY <1>1, <1>2, <3>1
  <2>2. r \in S /\ (\A x \in S : Linked(R, r, x)) /\ (Threads!Near(e, S) = S \/ Cardinality(S) > n - 1)
    BY <1>5
  <2> HIDE DEF S, Grown
  <2>3. r \in f[n] /\ \A x \in f[n] : Linked(R, r, x)
    <3>1. ASSUME NEW x \in f[n] PROVE Linked(R, r, x)
      <4>1. x \in S \/ \E y \in S : Shares(R, y, x)
        BY <1>3, <2>1
      <4>2. \A y \in S : Shares(R, y, x) => Linked(R, y, x)
        BY <1>3, <2>1, LinkedIsEquivalence
      <4> QED BY <1>3, <2>1, <2>2, <4>1, <4>2, LinkedIsEquivalence
    <3> QED BY <1>3, <2>1, <2>2, <3>1
  <2>4. Threads!Near(e, f[n]) = f[n] \/ Cardinality(f[n]) > n
    <3>1. CASE Threads!Near(e, S) = S
      BY <2>1, <3>1
    <3>2. CASE Threads!Near(e, S) # S
      <4>1. S \subseteq f[n] /\ S # f[n] /\ f[n] \subseteq DOMAIN R
        BY <1>3, <2>1, <3>2
      <4>2. IsFiniteSet(f[n]) /\ IsFiniteSet(S)
        BY <1>1, <4>1, FS_Subset
      <4>3. Cardinality(S) < Cardinality(f[n]) /\ Cardinality(S) \in Nat /\ Cardinality(f[n]) \in Nat
        BY <4>1, <4>2, FS_Subset, FS_CardinalityType
      <4> QED BY <2>1, <2>2, <3>2, <4>3
    <3> QED BY <3>1, <3>2
  <2> QED BY <2>3, <2>4 DEF Grown
<1> HIDE DEF Grown
<1>6. bad = {}
  <2> SUFFICES ASSUME bad # {} PROVE FALSE
    OBVIOUS
  <2>1. PICK k \in bad : \A j \in bad : k <= j
    <3>1. bad \subseteq 0..MaxRows
      OBVIOUS
    <3> HIDE DEF bad
    <3> QED BY <1>1, <3>1, HasLeast
  <2>2. k \in 0..MaxRows /\ ~Grown(k)
    OBVIOUS
  <2>3. k \in 1..MaxRows /\ k - 1 \in 0..MaxRows
    BY <1>1, <1>4, <2>2
  <2>4. Grown(k - 1)
    <3>1. k - 1 \notin bad
      <4> HIDE DEF bad
      <4> QED BY <1>1, <2>1, <2>3
    <3> QED BY <2>3, <3>1
  <2> QED BY <1>5, <2>2, <2>3, <2>4
<1>7. Grown(MaxRows) /\ f[MaxRows] \in SUBSET DOMAIN R
  BY <1>1, <1>2, <1>6
<1> DEFINE C == f[MaxRows]
<1>8. /\ r \in C /\ (\A x \in C : Linked(R, r, x)) /\ C \subseteq DOMAIN R
      /\ (Threads!Near(e, C) = C \/ Cardinality(C) > MaxRows)
  BY <1>7 DEF Grown
<1> HIDE DEF C
<1>9. Threads!Near(e, C) = C
  <2>1. IsFiniteSet(C) /\ Cardinality(C) <= Cardinality(DOMAIN R) /\ Cardinality(C) \in Nat /\ Cardinality(DOMAIN R) \in Nat
    BY <1>1, <1>8, FS_Subset, FS_CardinalityType
  <2> QED BY <1>1, <1>8, <2>1
<1>10. Closed(R, C)
  BY <1>3, <1>8, <1>9 DEF Closed
<1>11. \A x \in DOMAIN R : Linked(R, r, x) => x \in C
  BY <1>8, <1>10 DEF Linked
<1> QED BY <1>2, <1>8, <1>11 DEF C

\* The conversations are the components of the graph of what the headers of the rows say, in whatever order the
\* rows came, and the ids of conversations that were merged or taken apart lead to the conversation of their message.
THEOREM OrderOfArrivalIsForgotten ==
  ASSUME Threads!ConversationAssumption
  PROVE  Threads!Spec => [](Threads!TypeOK /\ Threads!RedirectsFollow /\ Threads!OrderIsForgotten)
<1>1. ThreadInv => Threads!TypeOK
  BY DEF ThreadInv, Filed, TablesOf, Threads!Tables, Threads!TypeOK
<1>2. ThreadInv => Threads!RedirectsFollow
  BY DEF ThreadInv, TablesOf, Threads!Tables, Led, Threads!RedirectsFollow
<1>3. ASSUME ThreadInv PROVE Threads!OrderIsForgotten
  <2> SUFFICES ASSUME NEW r \in DOMAIN row
                 PROVE {x \in DOMAIN row : group[x] = group[r]} = Threads!Component(Threads!evidence, r)
    BY DEF Threads!OrderIsForgotten
  <2>1. /\ Filed(row) /\ Evidenced(row, Threads!Tables)
        /\ Complete(row, Threads!Tables, DOMAIN row, DOMAIN row) /\ Threads!Tables.row = row
    BY <1>3 DEF ThreadInv, Threads!Tables
  <2>2. Threads!evidence = [x \in DOMAIN row |-> Evidence(row, x)]
    BY <2>1, WordsAre, SameCount DEF Threads!evidence, Evidence, Clear, RefIds
  <2>3. Threads!Component(Threads!evidence, r) = {x \in DOMAIN row : Linked(row, r, x)}
    BY <2>1, <2>2, ComponentIsLinked
  <2>4. \A x \in DOMAIN row : group[x] = group[r] => Linked(row, r, x)
    BY <2>1 DEF Evidenced, Threads!Tables
  <2>5. ASSUME NEW x \in DOMAIN row, Linked(row, r, x) PROVE group[x] = group[r]
    <3> DEFINE S == {y \in DOMAIN row : group[y] = group[r]}
    <3>1. \A y, z \in DOMAIN row : Shares(row, y, z) => group[y] = group[z]
      BY <2>1, SharersTogether DEF Threads!Tables
    <3>2. Closed(row, S) /\ r \in S /\ S \in SUBSET DOMAIN row
      BY <3>1 DEF Closed
    <3>3. x \in S
      <4> HIDE DEF S
      <4> QED BY <2>5, <3>2 DEF Linked
    <3> QED BY <3>3
  <2> QED BY <2>3, <2>4, <2>5
<1> QED BY <1>1, <1>2, <1>3, ThreadInvariantHolds, PTL
=============================================================================
