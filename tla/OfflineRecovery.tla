--------------------------- MODULE OfflineRecovery ---------------------------
(***************************************************************************)
(* Backup, restore and the offline recovery command: recovery-process.ts    *)
(* with restoreSecurityState and its verification.  A backup brings back     *)
(* sessions, authorizations and work that was under way; maintenance fences  *)
(* all of it in one transaction, issues new recovery codes and a receipt,    *)
(* and `verify` accepts a receipt file before the instance is reopened.  The *)
(* command may die between any two of its steps, its output may be lost      *)
(* after the commit, and a backup may itself hold an old receipt.  Wrong     *)
(* proofs are counted in the database, for the running instance and the      *)
(* command together, so that a restore puts their counts back.               *)
(***************************************************************************)
EXTENDS Integers

CONSTANTS
  MaxFiles,    \* bound: names of output files
  MaxCodes,    \* bound: generations of recovery codes
  MaxReceipts, \* bound: receipts
  MaxChanges,  \* bound: steps of the running instance, backups and restores
  MaxFaults,   \* bound: commands that die
  MaxWork,     \* commands admitted in sixty seconds (12 in the code)
  MaxProofs    \* wrong proofs in fifteen minutes (5 in the code)

RecoveryAssumption ==
  {MaxFiles, MaxCodes, MaxReceipts, MaxChanges, MaxFaults, MaxWork, MaxProofs} \subseteq Nat \ {0}

\* What a restored database could let in, or carry out a second time.
Things == {"session", "verification", "oauth", "outgoing", "copy", "command"}
Stages == {"password", "factor"}
Sets == {"matched", "schema", "keys", "blobs"}
Files == 1..MaxFiles
NoReceipt == [id |-> 0, codes |-> 0, status |-> "none"]
Unused == [NoReceipt EXCEPT !.status = "unused"]
Empty == [NoReceipt EXCEPT !.status = "empty"]
NoRun == [op |-> "none", pc |-> "none", file |-> 0, right |-> {}]

VARIABLES
  db,       \* factor, ceremony, recovery codes, what is under way, the receipt's row
  set,      \* what was restored: a matched set, or schema, keys or blobs of another one
  backup,   \* the last backup: the database, with its rows of auth_admission
  old,      \* history: what is under way since before the last restore
  files,    \* the output files
  last,     \* the last recovery codes and the last receipt that were made
  run,      \* the command: operation, step, output, which of its proofs are right
  fails,    \* manage:password, manage:factor
  work,     \* work:management
  guessed,  \* history: wrong proofs that were examined in the window
  rolled,   \* history: those of them that a restore has taken off the count
  online,   \* writers run
  must,     \* the operator has to verify before the instance is reopened
  accepted, \* the file that `verify` accepted last, until something is begun
  budget    \* what the bounds have left

admission == <<fails, work, guessed, rolled>>
vars == <<db, set, backup, old, files, last, run, admission, online, must, accepted, budget>>

Init ==
  /\ db = [verified |-> TRUE, live |-> FALSE, codes |-> 1, left |-> {}, receipt |-> NoReceipt]
  /\ set = "matched" /\ old = {}
  /\ files = [f \in Files |-> Unused] /\ run = NoRun
  /\ last = [codes |-> 1, receipt |-> 0]
  /\ fails = [s \in Stages |-> 0] /\ work = 0 /\ guessed = fails /\ rolled = fails
  /\ backup = [db |-> db, fails |-> fails, work |-> work]
  /\ online = TRUE /\ must = FALSE /\ accepted = 0
  /\ budget = [changes |-> MaxChanges, faults |-> MaxFaults]

Spend(what) == budget[what] > 0 /\ budget' = [budget EXCEPT ![what] = @ - 1]

-----------------------------------------------------------------------------
(* The instance, its backups and its operator *)

\* Somebody signs in, a message is queued, a command is given; or it ends.
Serve ==
  /\ online /\ Spend("changes")
  /\ \E t \in Things :
       \/ db' = [db EXCEPT !.left = @ \cup {t}] /\ UNCHANGED old
       \/ t \in db.left /\ db' = [db EXCEPT !.left = @ \ {t}] /\ old' = old \ {t}
  /\ UNCHANGED <<last, set, backup, files, run, admission, online, must, accepted>>

\* A wrong proof commits its count, and only then it is refused; a right one deletes
\* the row of its stage, except in the command.
RolledBack(s) == fails[s]
Counted(s) == fails[s] + 1
Examined(wrong, cleared) ==
  /\ fails' = [s \in Stages |-> IF s \in cleared THEN 0 ELSE IF s \in wrong THEN Counted(s) ELSE fails[s]]
  /\ guessed' = [s \in Stages |-> IF s \in cleared THEN 0 ELSE IF s \in wrong THEN guessed[s] + 1 ELSE guessed[s]]
  /\ rolled' = [s \in Stages |-> IF s \in cleared THEN 0 ELSE rolled[s]]
Delayed == \E s \in Stages : fails[s] = MaxProofs

\* Another factor, which is pending until its first code verifies it; both ends the
\* sessions, and the sign-ins that were under way.
Factor(d, verified) ==
  [d EXCEPT !.verified = verified, !.live = ~verified, !.left = @ \ {"session", "verification"}]
Renew(d) ==
  /\ last.codes < MaxCodes /\ last' = [last EXCEPT !.codes = @ + 1]
  /\ db' = [d EXCEPT !.codes = last'.codes]

\* The owner asks for new codes or another factor, with proofs of both stages; it is
\* refused before they are read without a session, or while a stage is delayed.
Manage ==
  /\ online /\ work < MaxWork /\ work' = work + 1 /\ Spend("changes")
  /\ \/ UNCHANGED <<last, db, fails, guessed, rolled>>
     \/ /\ db.verified /\ ~Delayed
        /\ \/ Examined({"password"}, {}) /\ UNCHANGED <<last, db>>
           \/ Examined({"factor"}, {"password"}) /\ UNCHANGED <<last, db>>
           \/ Examined({}, Stages) /\ (Renew(db) \/ Renew(Factor(db, FALSE)))
  /\ UNCHANGED <<set, backup, old, files, run, online, must, accepted>>

\* A recovery code is used to sign in; or the owner's recovery is begun on the host.
Replace ==
  /\ online /\ db.verified /\ (Renew(db) \/ Renew(Factor(db, FALSE))) /\ Spend("changes")
  /\ UNCHANGED <<set, backup, old, files, run, admission, online, must, accepted>>

\* The pending factor: the password opens the owner's recovery, and a first code
\* verifies the factor; a replacement has a budget of its own for its codes.
Ceremony ==
  /\ online /\ db.live /\ Spend("changes")
  /\ \/ /\ fails["password"] < MaxProofs /\ UNCHANGED <<last, db>>
        /\ Examined({"password"}, {}) \/ Examined({}, {"password"})
     \/ fails["factor"] < MaxProofs /\ Examined({"factor"}, {}) /\ UNCHANGED <<last, db>>
     \/ /\ (fails["factor"] < MaxProofs /\ Examined({}, {"factor"})) \/ UNCHANGED <<fails, guessed, rolled>>
        /\ db' = Factor(db, TRUE) /\ UNCHANGED last
  /\ UNCHANGED <<set, backup, old, files, run, work, online, must, accepted>>

StopWriters ==
  /\ online /\ online' = FALSE
  /\ UNCHANGED <<last, db, set, backup, old, files, run, admission, must, accepted, budget>>

\* The operator reopens the instance after `verify` where the documents ask for it.
Reopen ==
  /\ ~online /\ run = NoRun /\ ~must
  /\ online' = TRUE /\ accepted' = 0
  /\ UNCHANGED <<last, db, set, backup, old, files, run, admission, must, budget>>

Capture ==
  /\ ~online /\ run = NoRun /\ Spend("changes")
  /\ backup' = [db |-> db, fails |-> fails, work |-> work] /\ backup' # backup
  /\ UNCHANGED <<last, db, set, old, files, run, admission, online, must, accepted>>

\* The last backup, with the keys and blobs of that moment or with others.  Its
\* counts come with it, those whose time is not over.
Restore ==
  /\ ~online /\ run = NoRun /\ Spend("changes")
  /\ db' = backup.db /\ old' = backup.db.left /\ set' \in Sets
  /\ \E over \in SUBSET Stages : fails' = [s \in Stages |-> IF s \in over THEN 0 ELSE backup.fails[s]]
  /\ rolled' = [s \in Stages |-> IF guessed[s] > fails'[s] THEN guessed[s] - fails'[s] ELSE 0]
  /\ work' \in {0, backup.work}
  /\ must' = TRUE /\ accepted' = 0
  /\ UNCHANGED <<last, backup, files, run, guessed, online>>

-----------------------------------------------------------------------------
(* The command *)

\* pg_stat_activity shows another session; the flag on the command line is not trusted alone.
Writers == online

\* The migrations, columns, search functions and the index are those of the release.
SchemaFits == set # "schema"

\* One owner with a credential and one factor, every secret can be decrypted, and
\* every blob that a row names has its bytes.
StateFits == set \notin {"keys", "blobs"}

\* The output is created, exclusively, before the database is touched.
Begin(op, right) ==
  /\ run = NoRun /\ ~Writers /\ SchemaFits
  /\ \E f \in Files :
       /\ files[f] = Unused /\ \A e \in 1..f - 1 : files[e] # Unused
       /\ files' = [files EXCEPT ![f] = Empty]
       /\ run' = [op |-> op, pc |-> IF op = "maintain" THEN "tx" ELSE "admit", file |-> f, right |-> right]
  /\ accepted' = 0
  /\ UNCHANGED <<last, db, set, backup, old, admission, online, must, budget>>

Refuse == run' = NoRun

\* Admitted on the root connection: a rollback or a crash still spends it.
Admit ==
  /\ run.pc = "admit"
  /\ IF ~StateFits \/ work = MaxWork
     THEN Refuse /\ UNCHANGED work
     ELSE run' = [run EXCEPT !.pc = "tx"] /\ work' = work + 1
  /\ UNCHANGED <<last, db, set, backup, old, files, fails, guessed, rolled, online, must, accepted, budget>>

Status(d) == IF d.verified THEN "verified" ELSE "pending"

\* The receipt speaks of this factor, these codes, and of nothing left under way.
Fenced(d, id) ==
  /\ d.receipt.id = id /\ id # 0
  /\ d.receipt.codes = d.codes /\ d.receipt.status = Status(d)
  /\ d.left = {} /\ ~d.live
AnyCodes(d, id) ==
  /\ d.receipt.id = id /\ id # 0 /\ d.receipt.status = Status(d)
  /\ d.left = {} /\ ~d.live
AnyWork(d, id) ==
  /\ d.receipt.id = id /\ id # 0
  /\ d.receipt.codes = d.codes /\ d.receipt.status = Status(d)
  /\ ~d.live
Maintained(d, id) == Fenced(d, id)

\* Fencing, new codes where the factor is verified, dead authority where it is
\* pending, and a receipt: one transaction.
Fence(verified) ==
  LET codes == IF verified THEN last.codes + 1 ELSE db.codes
  IN [verified |-> verified, live |-> FALSE, codes |-> codes, left |-> {},
      receipt |-> [id |-> last.receipt + 1, codes |-> codes, status |-> IF verified THEN "verified" ELSE "pending"]]
CommitFence(verified) ==
  /\ last.codes < MaxCodes /\ last.receipt < MaxReceipts
  /\ db' = Fence(verified)
  /\ last' = [codes |-> IF verified THEN last.codes + 1 ELSE last.codes, receipt |-> last.receipt + 1]
  /\ old' = {} /\ must' = TRUE
  /\ run' = [run EXCEPT !.pc = "deliver"]
  /\ UNCHANGED admission

Maintain ==
  /\ run.pc = "tx" /\ run.op = "maintain"
  /\ IF StateFits THEN CommitFence(db.verified) ELSE Refuse /\ UNCHANGED <<db, old, must, last, admission>>
  /\ UNCHANGED <<set, backup, files, online, accepted, budget>>

WrongProof(s) ==
  /\ s \notin run.right /\ Examined({s}, {})
  /\ Refuse /\ UNCHANGED <<db, old, must, last, work>>

\* resume-mfa shows the pending factor; complete-mfa verifies its code.  Both
\* follow a committed fence, and never take the place of one.
Continue ==
  /\ run.pc = "tx" /\ run.op # "maintain"
  /\ IF db.verified \/ ~Maintained(db, db.receipt.id) \/ Delayed
     THEN Refuse /\ UNCHANGED <<db, old, must, last, admission>>
     ELSE \/ WrongProof("password")
          \/ /\ "password" \in run.right /\ run.op = "resume"
             /\ run' = [run EXCEPT !.pc = "deliver"]
             /\ UNCHANGED <<db, old, must, last, admission>>
          \/ "password" \in run.right /\ run.op = "complete" /\ WrongProof("factor")
          \/ run.right = Stages /\ run.op = "complete" /\ CommitFence(TRUE)
  /\ UNCHANGED <<set, backup, files, online, accepted, budget>>

\* The codes are in the file of the command that made them, and nowhere else.
Deliver ==
  /\ run.pc = "deliver"
  /\ files' = [files EXCEPT ![run.file] =
                 [id |-> db.receipt.id, status |-> db.receipt.status,
                  codes |-> IF db.verified THEN db.codes ELSE 0]]
  /\ run' = NoRun
  /\ UNCHANGED <<last, db, set, backup, old, admission, online, must, accepted, budget>>

\* It dies, or its output cannot be written: after the commit, too.
Die ==
  /\ run # NoRun /\ Refuse /\ Spend("faults")
  /\ UNCHANGED <<last, db, set, backup, old, files, admission, online, must, accepted>>

\* verify: exit code 0, after which the instance may be reopened.
Verify(f) ==
  /\ run = NoRun /\ ~Writers /\ SchemaFits /\ StateFits /\ files[f] \notin {Unused, Empty}
  /\ Maintained(db, files[f].id) /\ db.verified
  /\ must' = FALSE /\ accepted' = f
  /\ UNCHANGED <<last, db, set, backup, old, files, run, admission, online, budget>>

WindowEnds ==
  /\ \/ \E s \in Stages :
          /\ fails[s] + guessed[s] > 0
          /\ Examined({}, {s}) /\ UNCHANGED work
     \/ work > 0 /\ work' = 0 /\ UNCHANGED <<fails, guessed, rolled>>
  /\ UNCHANGED <<last, db, set, backup, old, files, run, online, must, accepted, budget>>

Next ==
  \/ Serve \/ Manage \/ Replace \/ Ceremony \/ StopWriters \/ Reopen \/ Capture \/ Restore
  \/ Begin("maintain", {}) \/ \E right \in SUBSET {"password"} : Begin("resume", right)
  \/ \E right \in SUBSET Stages : Begin("complete", right)
  \/ Admit \/ Maintain \/ Continue \/ Deliver \/ Die \/ WindowEnds
  \/ \E f \in Files : Verify(f)

Spec == Init /\ [][Next]_vars

-----------------------------------------------------------------------------
(* What recovery promises *)

Receipt == [id : 0..MaxReceipts, codes : 0..MaxCodes, status : {"none", "pending", "verified"}]
Database == [verified : BOOLEAN, live : BOOLEAN, codes : 1..MaxCodes, left : SUBSET Things, receipt : Receipt]

TypeOK ==
  /\ db \in Database /\ backup \in [db : Database, fails : [Stages -> 0..MaxProofs], work : 0..MaxWork]
  /\ \A f \in Files : files[f] \in {Unused, Empty} \cup Receipt
  /\ run.pc \in {"none", "admit", "tx", "deliver"} /\ run.op \in {"none", "maintain", "resume", "complete"}
  /\ run.file \in 0..MaxFiles /\ run.right \subseteq Stages
  /\ last \in [codes : 1..MaxCodes, receipt : 0..MaxReceipts]
  /\ fails \in [Stages -> 0..MaxProofs] /\ work \in 0..MaxWork
  /\ {online, must} \subseteq BOOLEAN /\ set \in Sets /\ accepted \in 0..MaxFiles

\* A file that `verify` has accepted holds the recovery codes in force, whatever
\* was restored, maintained, lost or completed before; and nothing that a backup
\* brought back is under way when the instance is open again.
ReopenedSafely ==
  /\ accepted # 0 => db.verified /\ db.left = {} /\ files[accepted].codes = db.codes
  /\ online => old = {}

\* In one window no more than five wrong passwords, and five wrong codes, are
\* examined, by the instance and the command together: the count survives the
\* refusal that it causes.  Only a restore takes counted proofs off it.
ProofsAreCounted == \A s \in Stages : guessed[s] <= MaxProofs + rolled[s]
==============================================================================
