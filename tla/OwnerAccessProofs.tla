-------------------------- MODULE OwnerAccessProofs --------------------------
(***************************************************************************)
(* The owner is never locked out, and a request is allowed only with what    *)
(* is proved now, for any number of processes, ceremonies and attempts.       *)
(* NeverLockedOut is not inductive: that the rows of a ceremony are never     *)
(* taken for "no ceremony" rests on the factor they name (CeremonyHasFactor), *)
(* that the first owner finds nothing of an earlier one on NoOwner.           *)
(***************************************************************************)
EXTENDS OwnerAccess, TLAPS

\* Before there is an owner, there is nothing of one.
NoOwner == password = 0 =>
  /\ factor.id = 0 /\ ~factor.verified /\ ~enabled
  /\ replacement = NoRow /\ recovery = NoRow /\ sessions = {} /\ challenges = {}

\* What was submitted was a secret, not the 0 of an instance without one.
SubmitsSecret == \A s \in Setups : submit[s].pc \in {"lock", "hash"} => submit[s].secret # 0

\* An instance with an owner has no active lease.
LeaseIsOver == password # 0 => ~setup.active

\* A ceremony names the factor it began with.
CeremonyHasFactor ==
  /\ replacement # NoRow => replacement.factor # 0
  /\ recovery # NoRow => recovery.factor # 0

\* For what lives, the present password was proved, and the present factor if
\* there is one; of a sign-in, the first of the two.
SessionsProved ==
  /\ \A s \in sessions : s.password = password /\ (enabled => s.factor = factor.id)
  /\ \A c \in challenges : c.password = password

IInv ==
  /\ TypeOK /\ NoOwner /\ SubmitsSecret /\ LeaseIsOver /\ CeremonyHasFactor /\ SessionsProved
  /\ NeverLockedOut
LEMMA Numbers ==
  /\ MaxSecrets \in Nat /\ MaxFactors \in Nat /\ MaxSessions \in Nat /\ MaxTokens \in Nat
  /\ MaxAttempts \in Nat \ {0}
BY Bounds DEF Bounds

LEMMA ConstantRows ==
  /\ NoRow \in Ceremony /\ NoRow.factor = 0 /\ NoRow.token = 0 /\ ~NoRow.live
  /\ [secret |-> 0, active |-> FALSE] \in SetupRow
  /\ [pc |-> "none", session |-> NoRead] \in RequestRow
<1>1. NoRow \in Ceremony /\ NoRow.factor = 0 /\ NoRow.token = 0 /\ ~NoRow.live
  BY Numbers DEF NoRow, Ceremony
<1>2. [secret |-> 0, active |-> FALSE] \in SetupRow
  BY Numbers DEF SetupRow
<1>3. [pc |-> "none", session |-> NoRead] \in RequestRow
  BY DEF RequestRow
<1> QED BY <1>1, <1>2, <1>3

(* What the actions write is of its type. *)

LEMMA NewFactor ==
  ASSUME last \in LastRow, last.factor < MaxFactors
  PROVE  /\ last.factor + 1 \in 1..MaxFactors
         /\ [last EXCEPT !.factor = @ + 1] \in LastRow
         /\ [last EXCEPT !.factor = @ + 1].factor = last.factor + 1
         /\ \A v \in BOOLEAN : [id |-> last.factor + 1, verified |-> v] \in FactorRow
BY Numbers DEF LastRow, FactorRow

LEMMA NewSession ==
  ASSUME last \in LastRow, last.session < MaxSessions, NEW p \in Nat, NEW f \in 0..MaxFactors
  PROVE  /\ [last EXCEPT !.session = @ + 1] \in LastRow
         /\ [last EXCEPT !.session = @ + 1].session = last.session + 1
         /\ [id |-> last.session + 1, password |-> p, factor |-> f] \in SessionRow
BY Numbers DEF LastRow, SessionRow

LEMMA NewToken ==
  ASSUME last \in LastRow, last.token < MaxTokens
  PROVE  /\ [last EXCEPT !.token = @ + 1] \in LastRow
         /\ [last EXCEPT !.token = @ + 1].token = last.token + 1
         /\ last.token + 1 \in 0..MaxTokens
BY Numbers DEF LastRow

LEMMA NewBoth ==
  ASSUME last \in LastRow, NEW f \in 0..MaxFactors, NEW t \in 0..MaxTokens
  PROVE  /\ [last EXCEPT !.factor = f, !.token = t] \in LastRow
         /\ [last EXCEPT !.factor = f, !.token = t].factor = f
         /\ [last EXCEPT !.factor = f, !.token = t].token = t
BY DEF LastRow

LEMMA NewSecret ==
  ASSUME last \in LastRow, last.secret < MaxSecrets
  PROVE  /\ [last EXCEPT !.secret = @ + 1] \in LastRow
         /\ [last EXCEPT !.secret = @ + 1].secret = last.secret + 1
         /\ last.secret + 1 \in 1..MaxSecrets
         /\ [secret |-> last.secret + 1, active |-> TRUE] \in SetupRow
BY Numbers DEF LastRow, SetupRow

LEMMA Verified ==
  ASSUME factor \in FactorRow
  PROVE  /\ [factor EXCEPT !.verified = TRUE] \in FactorRow
         /\ [factor EXCEPT !.verified = TRUE].id = factor.id
         /\ [factor EXCEPT !.verified = TRUE].verified
BY DEF FactorRow

LEMMA OneMoreFailure ==
  ASSUME NEW row \in Ceremony, row.failed < MaxAttempts
  PROVE  [row EXCEPT !.failed = @ + 1] \in Ceremony /\ [row EXCEPT !.failed = @ + 1].factor = row.factor
<1>0. row.failed \in 0..MaxAttempts
  BY DEF Ceremony
<1>1. row.failed + 1 \in 0..MaxAttempts
  BY <1>0, Numbers
<1> QED BY <1>1 DEF Ceremony

LEMMA NewAttempts ==
  ASSUME NEW row \in Ceremony, NEW token \in 0..MaxTokens
  PROVE  /\ [row EXCEPT !.token = token, !.failed = 0, !.live = TRUE] \in Ceremony
         /\ [row EXCEPT !.token = token, !.failed = 0, !.live = TRUE].factor = row.factor
<1>1. 0 \in 0..MaxAttempts /\ TRUE \in BOOLEAN
  BY Numbers
<1> QED BY <1>1 DEF Ceremony

LEMMA NoLonger ==
  ASSUME NEW row \in Ceremony
  PROVE  /\ [row EXCEPT !.live = FALSE] \in Ceremony /\ [row EXCEPT !.live = FALSE].factor = row.factor
         /\ [row EXCEPT !.token = 0, !.live = FALSE] \in Ceremony
         /\ [row EXCEPT !.token = 0, !.live = FALSE].factor = row.factor
<1>1. 0 \in 0..MaxTokens /\ FALSE \in BOOLEAN
  BY Numbers
<1>2. [row EXCEPT !.live = FALSE] \in Ceremony /\ [row EXCEPT !.live = FALSE].factor = row.factor
  BY <1>1 DEF Ceremony
<1> QED BY <1>1, <1>2 DEF Ceremony

LEMMA LeaseOver ==
  ASSUME setup \in SetupRow
  PROVE  /\ [setup EXCEPT !.active = FALSE] \in SetupRow
         /\ [setup EXCEPT !.active = FALSE].secret = setup.secret /\ ~[setup EXCEPT !.active = FALSE].active
BY DEF SetupRow

\* The situations exclude each other: one row tells which one it is.
LEMMA Situation ==
  ASSUME NeverLockedOut, password # 0
  PROVE  /\ Ready => InUse
         /\ recovery # NoRow => InRecovery
         /\ replacement # NoRow => InReplacement
         /\ Enrolling => InEnrolment
BY DEF NeverLockedOut, Accepted, Ready, InUse, InRecovery, InReplacement, InEnrolment, Enrolling

LEMMA InitHolds == Init => IInv
<1> SUFFICES ASSUME Init PROVE IInv
  OBVIOUS
<1>1. TypeOK
  <2>1. submit \in [Setups -> SubmitRow] /\ request \in [Requests -> RequestRow] /\ held \in [Webs -> 0..MaxSecrets]
    BY Numbers, ConstantRows DEF Init, SubmitRow
  <2>2. last \in LastRow /\ factor \in FactorRow /\ setup \in SetupRow
    BY Numbers DEF Init, LastRow, FactorRow, SetupRow
  <2> QED BY <2>1, <2>2, ConstantRows DEF Init, TypeOK
<1>2. NoOwner /\ SubmitsSecret /\ LeaseIsOver /\ CeremonyHasFactor /\ SessionsProved /\ NeverLockedOut
  BY DEF Init, NoOwner, SubmitsSecret, LeaseIsOver, CeremonyHasFactor, SessionsProved, NeverLockedOut
<1> QED BY <1>1, <1>2 DEF IInv

(* Setup *)

LEMMA SettingKeeps ==
  ASSUME IInv, Setting
  PROVE  IInv'
<1> USE DEF IInv, bootstrap, rows
<1> DEFINE Unmoved == UNCHANGED <<password, factor, enabled, replacement, recovery, sessions, challenges>>
<1>1. CASE LeaseEnds
  <2>1. setup' \in SetupRow /\ ~setup'.active /\ setup'.secret = setup.secret /\ password = 0
    BY <1>1, LeaseOver DEF LeaseEnds, TypeOK, LeaseIsOver
  <2> QED BY <1>1, <2>1 DEF LeaseEnds, TypeOK, NoOwner, SubmitsSecret, LeaseIsOver, CeremonyHasFactor, SessionsProved, NeverLockedOut
<1>2. ASSUME NEW w \in Webs, MaintainBootstrap(w) PROVE IInv'
  <2>1. setup' \in SetupRow /\ held' \in [Webs -> 0..MaxSecrets] /\ last' \in LastRow
    <3>1. CASE Renew(w) \/ Wait(w)
      BY <3>1, Numbers DEF Renew, Wait, TypeOK
    <3>2. CASE Replace(w)
      BY <3>2, NewSecret, Numbers DEF Replace, TypeOK
    <3> QED BY <1>2, <3>1, <3>2 DEF MaintainBootstrap
  <2>2. password = 0 /\ UNCHANGED <<told, submit, rows, sessions, challenges, request>>
    BY <1>2 DEF MaintainBootstrap
  <2> QED BY <2>1, <2>2 DEF TypeOK, NoOwner, SubmitsSecret, LeaseIsOver, CeremonyHasFactor, SessionsProved, NeverLockedOut
<1>3. ASSUME NEW w \in Webs, Announce(w) PROVE IInv'
  <2>1. told' \subseteq 1..MaxSecrets
    <3>1. held[w] \in 1..MaxSecrets
      BY <1>3, Numbers DEF Announce, TypeOK
    <3> QED BY <1>3, <3>1 DEF Announce, TypeOK
  <2>2. password = 0 /\ UNCHANGED <<setup, held, submit, rows, sessions, challenges, request, last>>
    BY <1>3 DEF Announce
  <2> QED BY <2>1, <2>2 DEF TypeOK, NoOwner, SubmitsSecret, LeaseIsOver, CeremonyHasFactor, SessionsProved, NeverLockedOut
<1>4. ASSUME NEW s \in Setups, Submit(s) \/ LockSetup(s) PROVE IInv'
  <2>1. submit' \in [Setups -> SubmitRow] /\ SubmitsSecret'
    <3>1. CASE Submit(s)
      <4>1. PICK secret \in told : submit' = [submit EXCEPT ![s] = [pc |-> "lock", secret |-> secret]]
        BY <3>1 DEF Submit
      <4>2. secret # 0 /\ [pc |-> "lock", secret |-> secret] \in SubmitRow
        BY Numbers DEF TypeOK, SubmitRow
      <4> QED BY <4>1, <4>2 DEF TypeOK, SubmitsSecret
    <3>2. CASE LockSetup(s)
      <4>1. PICK then \in {"hash", "end"} : submit' = [submit EXCEPT ![s].pc = then]
        BY <3>2 DEF LockSetup
      <4>2. submit' \in [Setups -> SubmitRow]
        BY <4>1 DEF TypeOK, SubmitRow
      <4>3. \A t \in Setups : submit'[t].secret = submit[t].secret /\ (t # s => submit'[t] = submit[t])
        BY <4>1 DEF TypeOK, SubmitRow
      <4>4. submit[s].secret # 0
        BY <3>2 DEF LockSetup, SubmitsSecret
      <4> QED BY <4>2, <4>3, <4>4 DEF SubmitsSecret
    <3> QED BY <1>4, <3>1, <3>2
  <2>2. UNCHANGED <<setup, held, told, rows, sessions, challenges, request, last>>
    BY <1>4 DEF Submit, LockSetup
  <2>3. TypeOK' /\ NoOwner' /\ LeaseIsOver' /\ CeremonyHasFactor' /\ SessionsProved'
    BY <2>1, <2>2 DEF TypeOK, NoOwner, LeaseIsOver, CeremonyHasFactor, SessionsProved
  <2>4. NeverLockedOut'
    BY <2>2 DEF NeverLockedOut, Accepted, InRecovery, InReplacement, InUse, InEnrolment, Ready
  <2> QED BY <2>1, <2>3, <2>4
<1>5. ASSUME NEW s \in Setups, CreateOwner(s) PROVE IInv'
  <2>1. submit' \in [Setups -> SubmitRow] /\ SubmitsSecret'
    <3>1. submit' = [submit EXCEPT ![s].pc = "end"]
      BY <1>5 DEF CreateOwner
    <3>2. submit' \in [Setups -> SubmitRow]
      BY <3>1 DEF TypeOK, SubmitRow
    <3>3. \A t \in Setups : t # s => submit'[t] = submit[t]
      BY <3>1 DEF TypeOK
    <3>4. submit'[s].pc = "end"
      BY <3>1 DEF TypeOK, SubmitRow
    <3> QED BY <3>2, <3>3, <3>4 DEF SubmitsSecret
  <2>2. UNCHANGED <<held, told, factor, enabled, replacement, recovery, sessions, challenges, request, last>>
    BY <1>5 DEF CreateOwner
  <2>3. CASE Provable(submit[s].secret)
    <3>1. password = 0 /\ password' = 1 /\ setup.secret # 0 /\ setup' = [setup EXCEPT !.active = FALSE]
      BY <1>5, <2>3 DEF CreateOwner, Provable, SetupProof, SubmitsSecret
    <3>2. setup' \in SetupRow /\ setup'.secret # 0 /\ ~setup'.active
      BY <3>1, LeaseOver DEF TypeOK
    <3>3. TypeOK'
      BY <2>1, <2>2, <3>1, <3>2 DEF TypeOK
    <3>4. NoOwner' /\ LeaseIsOver' /\ CeremonyHasFactor' /\ SessionsProved'
      BY <2>2, <3>1, <3>2 DEF NoOwner, LeaseIsOver, CeremonyHasFactor, SessionsProved
    <3>5. NeverLockedOut'
      BY <2>2, <3>1, <3>2 DEF NoOwner, NeverLockedOut, Accepted, InEnrolment
    <3> QED BY <2>1, <3>3, <3>4, <3>5
  <2>4. CASE ~Provable(submit[s].secret)
    <3>1. UNCHANGED <<password, setup>>
      BY <1>5, <2>4 DEF CreateOwner
    <3>2. TypeOK' /\ NoOwner' /\ LeaseIsOver' /\ CeremonyHasFactor' /\ SessionsProved'
      BY <2>1, <2>2, <3>1 DEF TypeOK, NoOwner, LeaseIsOver, CeremonyHasFactor, SessionsProved
    <3>3. NeverLockedOut'
      BY <2>2, <3>1 DEF NeverLockedOut, Accepted, InRecovery, InReplacement, InUse, InEnrolment, Ready
    <3> QED BY <2>1, <3>2, <3>3
  <2> QED BY <2>3, <2>4
<1> QED BY <1>1, <1>2, <1>3, <1>4, <1>5 DEF Setting

(* Requests and sign-in *)

\* A session less.
LEMMA LogoutKeeps ==
  ASSUME IInv, NEW s \in sessions, Logout(s)
  PROVE  IInv'
<1> USE DEF IInv, bootstrap, rows
<1>1. sessions' \subseteq sessions /\ UNCHANGED <<bootstrap, rows, challenges, request, last>>
  BY DEF Logout
<1>2. TypeOK' /\ SubmitsSecret' /\ LeaseIsOver' /\ CeremonyHasFactor' /\ SessionsProved'
  BY <1>1 DEF TypeOK, SubmitsSecret, LeaseIsOver, CeremonyHasFactor, SessionsProved
<1>3. NoOwner' /\ NeverLockedOut'
  BY <1>1 DEF NoOwner, NeverLockedOut, Accepted, InRecovery, InReplacement, InUse, InEnrolment, Ready
<1> QED BY <1>2, <1>3

LEMMA ReadingKeeps ==
  ASSUME IInv, Reading
  PROVE  IInv'
<1> USE DEF IInv, bootstrap, rows
<1>1. ASSUME NEW r \in Requests, ReadSession(r) \/ Authorize(r) \/ Answer(r) PROVE IInv'
  <2>1. request' \in [Requests -> RequestRow]
    <3>1. CASE ReadSession(r)
      <4>1. PICK s \in sessions : request' = [request EXCEPT ![r] = [pc |-> "read", session |-> s]]
        BY <3>1 DEF ReadSession
      <4>2. [pc |-> "read", session |-> s] \in RequestRow
        BY DEF TypeOK, RequestRow
      <4> QED BY <4>1, <4>2 DEF TypeOK
    <3>2. CASE Authorize(r)
      <4>1. [request[r] EXCEPT !.pc = "allowed"] \in RequestRow
        BY DEF TypeOK, RequestRow
      <4> QED BY <3>2, <4>1, ConstantRows DEF Authorize, TypeOK
    <3>3. CASE Answer(r)
      BY <3>3, ConstantRows DEF Answer, TypeOK
    <3> QED BY <1>1, <3>1, <3>2, <3>3
  <2>2. UNCHANGED <<bootstrap, rows, sessions, challenges, last>>
    BY <1>1 DEF ReadSession, Authorize, Answer
  <2>3. TypeOK' /\ NoOwner' /\ SubmitsSecret' /\ LeaseIsOver' /\ CeremonyHasFactor' /\ SessionsProved'
    BY <2>1, <2>2 DEF TypeOK, NoOwner, SubmitsSecret, LeaseIsOver, CeremonyHasFactor, SessionsProved
  <2>4. NeverLockedOut'
    BY <2>2 DEF NeverLockedOut, Accepted, InRecovery, InReplacement, InUse, InEnrolment, Ready
  <2> QED BY <2>3, <2>4
<1> QED BY <1>1, LogoutKeeps DEF Reading

\* One session more, issued outside of every ceremony.
LEMMA IssueKeeps ==
  ASSUME IInv, password # 0, replacement = NoRow, recovery = NoRow, last.session < MaxSessions,
         last' = [last EXCEPT !.session = @ + 1],
         NEW f \in 0..MaxFactors, enabled => f = factor.id,
         sessions' = sessions \cup {[id |-> last'.session, password |-> password, factor |-> f]},
         challenges' \subseteq challenges,
         UNCHANGED <<bootstrap, rows, request>>
  PROVE  IInv'
<1> USE DEF IInv, bootstrap, rows
<1> DEFINE new == [id |-> last'.session, password |-> password, factor |-> f]
<1>1. new \in SessionRow /\ last' \in LastRow
  BY NewSession DEF TypeOK
<1>2. new.password = password /\ (enabled => new.factor = factor.id)
  OBVIOUS
<1>3. sessions' = sessions \cup {new}
  OBVIOUS
<1> HIDE DEF new
<1>4. TypeOK'
  BY <1>1, <1>3 DEF TypeOK
<1>5. NoOwner' /\ SubmitsSecret' /\ LeaseIsOver' /\ CeremonyHasFactor'
  BY DEF NoOwner, SubmitsSecret, LeaseIsOver, CeremonyHasFactor
<1>6. SessionsProved'
  BY <1>2, <1>3 DEF SessionsProved
<1>7. NeverLockedOut'
  BY DEF NeverLockedOut, Accepted, InRecovery, InReplacement, InUse, InEnrolment, Ready
<1> QED BY <1>4, <1>5, <1>6, <1>7

LEMMA SignInKeeps ==
  ASSUME IInv, SignIn
  PROVE  IInv'
<1> USE DEF IInv, bootstrap, rows
<1>1. password # 0
  BY DEF SignIn
<1>2. CASE recovery # NoRow
  <2> DEFINE begun == [recovery EXCEPT !.token = last'.token, !.failed = 0, !.live = TRUE]
  <2>1. last' \in LastRow /\ last'.token \in 0..MaxTokens
    BY <1>2, NewToken DEF SignIn, TypeOK
  <2>2. begun \in Ceremony /\ begun.factor = recovery.factor
    BY <2>1, NewAttempts DEF TypeOK
  <2>3. /\ recovery' = begun
        /\ UNCHANGED <<bootstrap, password, factor, enabled, replacement, request, sessions, challenges>>
    BY <1>2 DEF SignIn
  <2> HIDE DEF begun
  <2>4. TypeOK' /\ NoOwner' /\ SubmitsSecret' /\ LeaseIsOver' /\ SessionsProved'
    BY <1>1, <2>1, <2>2, <2>3 DEF TypeOK, NoOwner, SubmitsSecret, LeaseIsOver, SessionsProved
  <2>5. recovery'.factor # 0 /\ recovery' # NoRow
    BY <1>2, <2>2, <2>3, ConstantRows DEF CeremonyHasFactor
  <2>6. CeremonyHasFactor'
    BY <2>3, <2>5 DEF CeremonyHasFactor
  <2>7. NeverLockedOut'
    BY <1>1, <1>2, <2>2, <2>3, <2>5, Situation DEF NeverLockedOut, Accepted, InRecovery
  <2> QED BY <2>4, <2>6, <2>7
<1>3. CASE recovery = NoRow /\ enabled
  <2> DEFINE asked == [password |-> password, factor |-> factor.id]
  <2>1. asked \in ChallengeRow /\ asked.password = password
    BY DEF TypeOK, ChallengeRow, FactorRow
  <2>2. challenges' = challenges \cup {asked} /\ UNCHANGED <<bootstrap, rows, request, sessions, last>>
    BY <1>3 DEF SignIn
  <2> HIDE DEF asked
  <2>3. TypeOK' /\ NoOwner' /\ SubmitsSecret' /\ LeaseIsOver' /\ CeremonyHasFactor' /\ SessionsProved'
    BY <1>1, <2>1, <2>2 DEF TypeOK, NoOwner, SubmitsSecret, LeaseIsOver, CeremonyHasFactor, SessionsProved
  <2>4. NeverLockedOut'
    BY <2>2 DEF NeverLockedOut, Accepted, InRecovery, InReplacement, InUse, InEnrolment, Ready
  <2> QED BY <2>3, <2>4
<1>4. CASE recovery = NoRow /\ ~enabled
  <2>1. Issue(0) /\ UNCHANGED <<bootstrap, rows, request, challenges>>
    BY <1>4 DEF SignIn
  <2>2. 0 \in 0..MaxFactors
    BY Numbers
  <2> QED BY <1>1, <1>4, <2>1, <2>2, IssueKeeps DEF Issue, MayIssue
<1> QED BY <1>2, <1>3, <1>4 DEF TypeOK

LEMMA SigningKeeps ==
  ASSUME IInv, Signing
  PROVE  IInv'
<1> USE DEF IInv, bootstrap, rows
<1>1. ASSUME NEW c \in challenges, VerifyLogin(c) PROVE IInv'
  <2>1. /\ password # 0 /\ replacement = NoRow /\ recovery = NoRow /\ last.session < MaxSessions
        /\ last' = [last EXCEPT !.session = @ + 1] /\ challenges' \subseteq challenges
        /\ UNCHANGED <<bootstrap, rows, request>>
    BY <1>1 DEF VerifyLogin, Ready
  <2>2. factor.id \in 0..MaxFactors
    BY DEF TypeOK, FactorRow
  <2>3. sessions' = sessions \cup {[id |-> last'.session, password |-> password, factor |-> factor.id]}
    BY <1>1 DEF VerifyLogin, SessionsProved
  <2> QED BY <2>1, <2>2, <2>3, IssueKeeps
<1>2. ASSUME NEW c \in challenges, DropChallenge(c) PROVE IInv'
  <2>1. challenges' \subseteq challenges /\ UNCHANGED <<bootstrap, rows, sessions, request, last>>
    BY <1>2 DEF DropChallenge
  <2>2. TypeOK' /\ NoOwner' /\ SubmitsSecret' /\ LeaseIsOver' /\ CeremonyHasFactor' /\ SessionsProved'
    BY <2>1 DEF TypeOK, NoOwner, SubmitsSecret, LeaseIsOver, CeremonyHasFactor, SessionsProved
  <2>3. NeverLockedOut'
    BY <2>1 DEF NeverLockedOut, Accepted, InRecovery, InReplacement, InUse, InEnrolment, Ready
  <2> QED BY <2>2, <2>3
<1> QED BY <1>1, <1>2, SignInKeeps DEF Signing

(* Enrolment *)

LEMMA EnrolmentKeeps ==
  ASSUME IInv, Enrolment
  PROVE  IInv'
<1> USE DEF IInv, bootstrap, rows
<1>1. ASSUME NEW s \in sessions, NEW secret \in told, StartInitialMfa(s, secret) PROVE IInv'
  <2>1. password # 0 /\ ~enabled /\ replacement = NoRow /\ recovery = NoRow /\ InEnrolment
    BY <1>1, Situation DEF StartInitialMfa, Enrolling, EnrolProof
  <2>2. last' \in LastRow /\ factor' \in FactorRow /\ factor' = [id |-> last'.factor, verified |-> FALSE]
    BY <1>1, NewFactor DEF StartInitialMfa, TypeOK
  <2>3. UNCHANGED <<bootstrap, password, enabled, replacement, recovery, sessions, challenges, request>>
    BY <1>1 DEF StartInitialMfa
  <2>4. TypeOK' /\ NoOwner' /\ SubmitsSecret' /\ LeaseIsOver' /\ CeremonyHasFactor' /\ SessionsProved'
    BY <2>1, <2>2, <2>3 DEF TypeOK, NoOwner, SubmitsSecret, LeaseIsOver, CeremonyHasFactor, SessionsProved
  <2>5. NeverLockedOut'
    BY <2>1, <2>2, <2>3 DEF NeverLockedOut, Accepted, InEnrolment
  <2> QED BY <2>4, <2>5
<1>2. ASSUME NEW s \in sessions, NEW secret \in told, CompleteInitialMfa(s, secret) PROVE IInv'
  <2>1. password # 0 /\ replacement = NoRow /\ recovery = NoRow /\ factor.id # 0
    BY <1>2 DEF CompleteInitialMfa, Enrolling, EnrolProof
  <2>2. factor' \in FactorRow /\ factor'.id = factor.id /\ factor'.verified
    BY <1>2, Verified DEF CompleteInitialMfa, TypeOK
  <2>3. /\ enabled' = TRUE /\ sessions' = {} /\ setup' = [secret |-> 0, active |-> FALSE]
        /\ UNCHANGED <<held, told, submit, password, replacement, recovery, challenges, request, last>>
    BY <1>2 DEF CompleteInitialMfa
  <2>4. TypeOK' /\ NoOwner' /\ SubmitsSecret' /\ LeaseIsOver' /\ CeremonyHasFactor' /\ SessionsProved'
    BY <2>1, <2>2, <2>3, ConstantRows DEF TypeOK, NoOwner, SubmitsSecret, LeaseIsOver, CeremonyHasFactor, SessionsProved
  <2>5. NeverLockedOut'
    BY <2>1, <2>2, <2>3 DEF NeverLockedOut, Accepted, InUse, Ready
  <2> QED BY <2>4, <2>5
<1> QED BY <1>1, <1>2 DEF Enrolment

(* Replacement, and recovery from the console *)

\* The conjuncts that say nothing of ceremonies, when the owner and the lease stay.
LEMMA OwnerStays ==
  ASSUME IInv, password # 0, password' # 0, setup' = setup \/ ~setup'.active, submit' = submit
  PROVE  NoOwner' /\ SubmitsSecret' /\ LeaseIsOver'
BY DEF IInv, NoOwner, SubmitsSecret, LeaseIsOver

LEMMA StartReplacementKeeps ==
  ASSUME IInv, NEW s \in sessions, StartReplacement(s)
  PROVE  IInv'
<1> USE DEF IInv, bootstrap
<1>1. password # 0 /\ InUse /\ recovery = NoRow
  BY Situation DEF StartReplacement, BusinessSession, Ready
<1>2. last' \in LastRow /\ last'.factor \in 1..MaxFactors /\ last'.token \in 0..MaxTokens
  <2>1. last' = [last EXCEPT !.factor = @ + 1, !.token = @ + 1] /\ last.factor < MaxFactors /\ last.token < MaxTokens
    BY DEF StartReplacement
  <2>2. last.factor + 1 \in 1..MaxFactors /\ last.token + 1 \in 0..MaxTokens
    BY <2>1, Numbers DEF TypeOK, LastRow
  <2>3. last.factor + 1 \in 0..MaxFactors /\ last \in LastRow
    BY <2>2, Numbers DEF TypeOK
  <2> QED BY <2>1, <2>2, <2>3, NewBoth
<1> DEFINE begun == [factor |-> last'.factor, token |-> last'.token, failed |-> 0, live |-> TRUE]
<1> DEFINE pending == [id |-> last'.factor, verified |-> FALSE]
<1>3. begun \in Ceremony /\ begun.factor = last'.factor
  BY <1>2, Numbers DEF Ceremony
<1>4. pending \in FactorRow
  BY <1>2, Numbers DEF FactorRow
<1>5. /\ factor' = pending /\ ~enabled' /\ enabled' \in BOOLEAN /\ replacement' = begun
      /\ sessions' = {} /\ challenges' = {}
      /\ UNCHANGED <<bootstrap, password, recovery, request>>
  BY DEF StartReplacement
<1> HIDE DEF begun
<1>6. TypeOK'
  BY <1>2, <1>3, <1>4, <1>5 DEF TypeOK
<1>7. replacement'.factor # 0 /\ replacement' # NoRow
  BY <1>2, <1>3, <1>5, ConstantRows
<1>8. CeremonyHasFactor' /\ SessionsProved'
  BY <1>1, <1>5, <1>7 DEF CeremonyHasFactor, SessionsProved
<1>9. NeverLockedOut'
  BY <1>1, <1>3, <1>5, <1>7 DEF NeverLockedOut, Accepted, InReplacement, InUse
<1> QED BY <1>1, <1>5, <1>6, <1>8, <1>9, OwnerStays

LEMMA ReplacementKeeps ==
  ASSUME IInv, NEW t, CompleteReplacement(t) \/ FailReplacement(t)
  PROVE  IInv'
<1> USE DEF IInv, bootstrap
<1>1. replacement # NoRow /\ recovery = NoRow
  BY ConstantRows DEF CompleteReplacement, FailReplacement, Replaceable
<1>2. password # 0 /\ InReplacement /\ ~setup.active
  BY <1>1, Situation DEF NoOwner, LeaseIsOver
<1>3. replacement.factor # 0 /\ factor.id # 0
  BY <1>1, <1>2 DEF CeremonyHasFactor, InReplacement
<1>4. CASE CompleteReplacement(t)
  <2>1. factor' \in FactorRow /\ factor'.id = factor.id /\ factor'.verified
    BY <1>4, Verified DEF CompleteReplacement, TypeOK
  <2>2. /\ enabled' = TRUE /\ replacement' = NoRow /\ sessions = {}
        /\ UNCHANGED <<bootstrap, password, recovery, sessions, challenges, request, last>>
    BY <1>4 DEF CompleteReplacement, Replaceable
  <2>3. TypeOK' /\ CeremonyHasFactor' /\ SessionsProved'
    BY <1>1, <2>1, <2>2, ConstantRows DEF TypeOK, CeremonyHasFactor, SessionsProved
  <2>4. setup = [secret |-> 0, active |-> FALSE]
    BY <1>2 DEF InReplacement, TypeOK, SetupRow
  <2>5. NeverLockedOut'
    BY <1>1, <1>2, <1>3, <2>1, <2>2, <2>4 DEF NeverLockedOut, Accepted, InUse, Ready
  <2> QED BY <1>2, <2>2, <2>3, <2>5, OwnerStays
<1>5. CASE FailReplacement(t)
  <2>1. replacement' \in Ceremony /\ replacement'.factor = replacement.factor
    BY <1>5, OneMoreFailure DEF FailReplacement, Replaceable, TypeOK
  <2>2. UNCHANGED <<bootstrap, password, factor, enabled, recovery, sessions, challenges, request, last>>
    BY <1>5 DEF FailReplacement
  <2>3. replacement' # NoRow
    BY <1>3, <2>1, ConstantRows
  <2>4. TypeOK' /\ CeremonyHasFactor' /\ SessionsProved'
    BY <1>1, <1>3, <2>1, <2>2 DEF TypeOK, CeremonyHasFactor, SessionsProved
  <2>5. NeverLockedOut'
    BY <1>2, <2>1, <2>2, <2>3 DEF NeverLockedOut, Accepted, InReplacement
  <2> QED BY <1>2, <2>2, <2>4, <2>5, OwnerStays
<1> QED BY <1>4, <1>5

LEMMA RecoverOwnerKeeps ==
  ASSUME IInv, RecoverOwner
  PROVE  IInv'
<1> USE DEF IInv
<1>1. last' \in LastRow /\ last'.factor \in 1..MaxFactors
  BY NewFactor DEF RecoverOwner, TypeOK
<1> DEFINE begun == [factor |-> last'.factor, token |-> 0, failed |-> 0, live |-> FALSE]
<1> DEFINE pending == [id |-> last'.factor, verified |-> FALSE]
<1>2. begun \in Ceremony /\ begun.factor = last'.factor
  BY <1>1, Numbers DEF Ceremony
<1>3. pending \in FactorRow
  BY <1>1, Numbers DEF FactorRow
<1>4. /\ factor' = pending /\ ~enabled' /\ enabled' \in BOOLEAN /\ replacement' = NoRow /\ recovery' = begun
      /\ setup' = [secret |-> 0, active |-> FALSE] /\ sessions' = {} /\ challenges' = {}
      /\ UNCHANGED <<held, told, submit, request>>
  BY DEF RecoverOwner
<1>5. password # 0 /\ password' = password + 1 /\ password' \in Nat \ {0}
  BY DEF RecoverOwner, TypeOK
<1> HIDE DEF begun
<1>6. TypeOK'
  BY <1>1, <1>2, <1>3, <1>4, <1>5, ConstantRows DEF TypeOK
<1>7. recovery'.factor # 0 /\ recovery' # NoRow
  BY <1>1, <1>2, <1>4, ConstantRows
<1>8. CeremonyHasFactor' /\ SessionsProved'
  BY <1>4, <1>7 DEF CeremonyHasFactor, SessionsProved
<1>9. NeverLockedOut'
  BY <1>2, <1>4, <1>7 DEF NeverLockedOut, Accepted, InRecovery
<1> QED BY <1>4, <1>5, <1>6, <1>8, <1>9, OwnerStays

LEMMA RecoveryKeeps ==
  ASSUME IInv, NEW t, CompleteRecovery(t) \/ FailRecovery(t) \/ CancelRecovery(t)
  PROVE  IInv'
<1> USE DEF IInv, bootstrap
<1>1. InRecovery /\ password # 0
  BY DEF CompleteRecovery, FailRecovery, CancelRecovery, Recoverable, InRecovery, NoOwner
<1>2. recovery.factor # 0 /\ factor.id # 0
  BY <1>1 DEF CeremonyHasFactor, InRecovery
<1>3. CASE CompleteRecovery(t)
  <2>1. factor' \in FactorRow /\ factor'.id = factor.id /\ factor'.verified
    BY <1>3, Verified DEF CompleteRecovery, TypeOK
  <2>2. /\ enabled' = TRUE /\ recovery' = NoRow /\ sessions' = {} /\ challenges' = {}
        /\ UNCHANGED <<bootstrap, password, replacement, request, last>>
    BY <1>3 DEF CompleteRecovery
  <2>3. TypeOK' /\ CeremonyHasFactor' /\ SessionsProved'
    BY <2>1, <2>2, ConstantRows DEF TypeOK, CeremonyHasFactor, SessionsProved
  <2>4. NeverLockedOut'
    BY <1>1, <1>2, <2>1, <2>2 DEF NeverLockedOut, Accepted, InUse, Ready, InRecovery
  <2> QED BY <1>1, <2>2, <2>3, <2>4, OwnerStays
<1>4. CASE FailRecovery(t) \/ CancelRecovery(t)
  <2>1. recovery' \in Ceremony /\ recovery'.factor = recovery.factor
    <3>1. CASE FailRecovery(t)
      BY <3>1, OneMoreFailure DEF FailRecovery, Recoverable, TypeOK
    <3>2. CASE CancelRecovery(t)
      BY <3>2, NoLonger DEF CancelRecovery, TypeOK
    <3> QED BY <1>4, <3>1, <3>2
  <2>2. UNCHANGED <<bootstrap, password, factor, enabled, replacement, sessions, challenges, request, last>>
    BY <1>4 DEF FailRecovery, CancelRecovery
  <2>3. recovery' # NoRow
    BY <1>2, <2>1, ConstantRows
  <2>4. TypeOK' /\ CeremonyHasFactor' /\ SessionsProved'
    BY <1>2, <2>1, <2>2 DEF TypeOK, CeremonyHasFactor, SessionsProved
  <2>5. NeverLockedOut'
    BY <1>1, <2>1, <2>2, <2>3 DEF NeverLockedOut, Accepted, InRecovery
  <2> QED BY <1>1, <2>2, <2>4, <2>5, OwnerStays
<1> QED BY <1>3, <1>4

LEMMA CeremonyExpiresKeeps ==
  ASSUME IInv, CeremonyExpires
  PROVE  IInv'
<1> USE DEF IInv, bootstrap
<1>1. UNCHANGED <<bootstrap, password, factor, enabled, sessions, challenges, request, last>>
  BY DEF CeremonyExpires
<1>2. CASE replacement.live /\ replacement' = [replacement EXCEPT !.live = FALSE] /\ UNCHANGED recovery
  <2>1. replacement' \in Ceremony /\ replacement'.factor = replacement.factor
    BY <1>2, NoLonger DEF TypeOK
  <2>2. password # 0 /\ InReplacement /\ replacement.factor # 0
    BY <1>2, ConstantRows, Situation DEF NoOwner, CeremonyHasFactor
  <2>3. replacement' # NoRow
    BY <2>1, <2>2, ConstantRows
  <2>4. TypeOK' /\ CeremonyHasFactor' /\ SessionsProved'
    BY <1>1, <1>2, <2>1, <2>2 DEF TypeOK, CeremonyHasFactor, SessionsProved
  <2>5. NeverLockedOut'
    BY <1>1, <1>2, <2>1, <2>2, <2>3 DEF NeverLockedOut, Accepted, InReplacement
  <2> QED BY <1>1, <2>2, <2>4, <2>5, OwnerStays
<1>3. CASE recovery.live /\ recovery' = [recovery EXCEPT !.live = FALSE] /\ UNCHANGED replacement
  <2>1. recovery' \in Ceremony /\ recovery'.factor = recovery.factor
    BY <1>3, NoLonger DEF TypeOK
  <2>2. password # 0 /\ InRecovery /\ recovery.factor # 0
    BY <1>3, ConstantRows, Situation DEF NoOwner, CeremonyHasFactor
  <2>3. recovery' # NoRow
    BY <2>1, <2>2, ConstantRows
  <2>4. TypeOK' /\ CeremonyHasFactor' /\ SessionsProved'
    BY <1>1, <1>3, <2>1, <2>2 DEF TypeOK, CeremonyHasFactor, SessionsProved
  <2>5. NeverLockedOut'
    BY <1>1, <1>3, <2>1, <2>2, <2>3 DEF NeverLockedOut, Accepted, InRecovery
  <2> QED BY <1>1, <2>2, <2>4, <2>5, OwnerStays
<1> QED BY <1>2, <1>3 DEF CeremonyExpires

LEMMA ManagingKeeps ==
  ASSUME IInv, Managing
  PROVE  IInv'
BY StartReplacementKeeps, ReplacementKeeps, RecoverOwnerKeeps, RecoveryKeeps, CeremonyExpiresKeeps DEF Managing

LEMMA NextKeeps ==
  ASSUME IInv, [Next]_vars
  PROVE  IInv'
<1>1. CASE UNCHANGED vars
  <2> USE <1>1 DEF IInv, vars, bootstrap, rows
  <2>1. TypeOK' /\ NoOwner' /\ SubmitsSecret' /\ LeaseIsOver' /\ CeremonyHasFactor' /\ SessionsProved'
    BY DEF TypeOK, NoOwner, SubmitsSecret, LeaseIsOver, CeremonyHasFactor, SessionsProved
  <2>2. NeverLockedOut'
    BY DEF NeverLockedOut, Accepted, InRecovery, InReplacement, InUse, InEnrolment, Ready
  <2> QED BY <2>1, <2>2
<1> QED BY <1>1, SettingKeeps, ReadingKeeps, SigningKeeps, EnrolmentKeeps, ManagingKeeps DEF Next

-----------------------------------------------------------------------------
(* The theorems *)

\* The inductive invariant holds in every behaviour.
THEOREM InvariantHolds == Spec => []IInv
<1> QED BY InitHolds, NextKeeps, PTL DEF Spec

\* The rows have their types: attempts, tokens and factors stay in their bounds.
THEOREM TypeCorrect == Spec => []TypeOK
<1>1. IInv => TypeOK
  BY DEF IInv
<1> QED BY <1>1, InvariantHolds, PTL

\* The console accepts the owner's rows in every situation, so that the owner can
\* always be recovered (owner-recovery.ts, inspectOwnerRecovery()).
THEOREM OwnerNeverLockedOut == Spec => []NeverLockedOut
<1>1. IInv => NeverLockedOut
  BY DEF IInv
<1> QED BY <1>1, InvariantHolds, PTL

\* What an authorization reads in its second step was proved with the present
\* password and the present, verified factor (owner-session.ts).
THEOREM AllowedIsFullyProved == Spec => FullyProved
<1> DEFINE Proved ==
      \A r \in Requests :
        request[r].pc = "read" /\ request'[r].pc = "allowed" =>
          /\ request[r].session.password = password
          /\ request[r].session.factor = factor.id /\ factor.verified
<1>1. ASSUME IInv, [Next]_vars PROVE [Proved]_vars
  <2> SUFFICES ASSUME Next, NEW r \in Requests, request[r].pc = "read", request'[r].pc = "allowed"
               PROVE  /\ request[r].session.password = password
                      /\ request[r].session.factor = factor.id /\ factor.verified
    BY <1>1
  <2> USE <1>1 DEF IInv
  <2>1. ASSUME NEW q \in Requests, Authorize(q)
        PROVE  Ready /\ request[r].session \in sessions
    <3>1. q = r
      BY <2>1 DEF Authorize, TypeOK
    <3>2. request'[r] = IF Ready /\ StillThere(request[r].session) THEN [request[r] EXCEPT !.pc = "allowed"]
                                                                   ELSE [pc |-> "none", session |-> NoRead]
      BY <2>1, <3>1 DEF Authorize, TypeOK
    <3> QED BY <3>2 DEF StillThere
  <2>2. ASSUME NEW q \in Requests, ReadSession(q) \/ Answer(q)
        PROVE  FALSE
    BY <2>2 DEF ReadSession, Answer, TypeOK
  <2>3. request' # request
    OBVIOUS
  <2>4. \E q \in Requests : ReadSession(q) \/ Authorize(q) \/ Answer(q)
    <3>1. CASE Setting
      BY <3>1, <2>3 DEF Setting, LeaseEnds, MaintainBootstrap, Announce, Submit, LockSetup, CreateOwner
    <3>2. CASE Signing \/ Enrolment
      BY <3>2, <2>3 DEF Signing, Enrolment, SignIn, VerifyLogin, DropChallenge, StartInitialMfa, CompleteInitialMfa
    <3>3. CASE Managing
      BY <3>3, <2>3 DEF Managing, StartReplacement, CompleteReplacement, FailReplacement, RecoverOwner,
                        CompleteRecovery, FailRecovery, CancelRecovery, CeremonyExpires
    <3>4. CASE Reading
      BY <3>4, <2>3 DEF Reading, Logout
    <3> QED BY <3>1, <3>2, <3>3, <3>4 DEF Next
  <2> QED BY <2>1, <2>2, <2>4 DEF Ready, SessionsProved
<1> QED BY <1>1, InvariantHolds, PTL DEF Spec, FullyProved

\* The owner is created with the secret that is the present one then
\* (instance-service.ts, createOwner() and its second check).
THEOREM OwnerHasPresentSecret == Spec => SecretStands
<1> DEFINE Stands ==
      password = 0 /\ password' # 0 =>
        \E s \in Setups : /\ submit[s].pc = "hash" /\ submit'[s].pc = "end"
                          /\ setup = [secret |-> submit[s].secret, active |-> TRUE]
<1>1. ASSUME IInv, [Next]_vars PROVE [Stands]_vars
  <2> SUFFICES ASSUME Next, password = 0, password' # 0
               PROVE  \E s \in Setups : /\ submit[s].pc = "hash" /\ submit'[s].pc = "end"
                                        /\ setup = [secret |-> submit[s].secret, active |-> TRUE]
    BY <1>1
  <2> USE <1>1 DEF IInv
  <2>1. PICK s \in Setups : CreateOwner(s)
    <3>1. CASE Setting
      BY <3>1 DEF Setting, LeaseEnds, MaintainBootstrap, Announce, Submit, LockSetup, rows
    <3>2. CASE Signing \/ Enrolment \/ Reading
      BY <3>2 DEF Signing, Enrolment, Reading, SignIn, VerifyLogin, DropChallenge, StartInitialMfa, CompleteInitialMfa,
                  ReadSession, Authorize, Answer, Logout, rows
    <3>3. CASE Managing
      BY <3>3 DEF Managing, StartReplacement, CompleteReplacement, FailReplacement, RecoverOwner,
                  CompleteRecovery, FailRecovery, CancelRecovery, CeremonyExpires
    <3> QED BY <3>1, <3>2, <3>3 DEF Next
  <2>2. Provable(submit[s].secret) /\ submit[s].pc = "hash"
    BY <2>1 DEF CreateOwner
  <2>3. submit'[s].pc = "end"
    BY <2>1 DEF CreateOwner, TypeOK, SubmitRow
  <2> QED BY <2>2, <2>3 DEF Provable, SetupProof
<1> QED BY <1>1, InvariantHolds, PTL DEF Spec, SecretStands

-----------------------------------------------------------------------------
(* The grants of the mail accounts that the owner connects *)

CONSTANTS Workers, Flows, None, Issuers, MaxGrants, MaxFaults
VARIABLES issuer, account, grants, ours, valid, rowLock, work, flow, budget

Grant == INSTANCE OAuthGrant WITH issued <- grants, own <- ours, lock <- rowLock

\* What an accessToken() in progress may rely on.  While it has the row, the account has the
\* grant it sent, and a refusal is of that grant; Google's processes mark nothing without the row.
WorkerKnows(w) ==
  /\ work[w].sent <= grants /\ work[w].got <= grants
  /\ work[w].pc = "mark" => issuer # "google"
  /\ work[w].pc \in {"request", "commit", "refused"} => rowLock = w
  /\ work[w].pc = "request" => account.status = "connected" /\ work[w].sent = account.grant
  /\ work[w].pc = "commit" => work[w].got \in ours
  /\ work[w].pc = "refused" => account.status # "connected" \/ account.grant \notin valid

\* The mailbox of a grant was compared before Microsoft's account is given it.
FlowKnows(f) ==
  /\ flow[f].grant <= grants
  /\ flow[f].pc = "checked" => issuer # "google" /\ flow[f].grant \in ours

GrantInv ==
  /\ Grant!TypeOK /\ Grant!OwnMailbox
  /\ \A w \in Workers : WorkerKnows(w)
  /\ \A f \in Flows : FlowKnows(f)

\* The provider may issue and revoke; what was refused stays refused.
Grows ==
  /\ issuer' = issuer /\ grants' \in Grant!Grants /\ grants <= grants'
  /\ ours \subseteq ours' /\ ours' \subseteq 1..grants' /\ valid' \subseteq 1..grants'
  /\ \A g \in 1..grants : g \in valid' => g \in valid

Work == [pc : {"idle", "lock", "request", "commit", "refused", "mark"},
         sent : Grant!Grants \cup {Grant!NoGrant}, got : Grant!Grants \cup {Grant!NoGrant}]

LEMMA GrantInitHolds == ASSUME Grant!OAuthAssumption, Grant!Init PROVE GrantInv
<1>1. 1 \in Grant!Grants /\ Grant!Grants \subseteq Nat /\ Grant!NoGrant \in Nat
  BY DEF Grant!OAuthAssumption, Grant!Grants, Grant!NoGrant
<1>2. Grant!Resting \in Work /\ Grant!Unbegun \in Grant!FlowRow /\ account \in Grant!AccountRow
  BY <1>1 DEF Grant!Init, Grant!Resting, Work, Grant!Unbegun, Grant!FlowRow, Grant!AccountRow
<1>3. /\ \A w \in Workers : work[w] = Grant!Resting
      /\ \A f \in Flows : flow[f] = Grant!Unbegun
      /\ grants = 1 /\ ours = {1} /\ account.grant = 1
  BY DEF Grant!Init
<1>4. Grant!TypeOK
  <2>1. work \in [Workers -> Work] /\ flow \in [Flows -> Grant!FlowRow]
    BY <1>2 DEF Grant!Init
  <2>2. rowLock = None /\ (\A w \in Workers : rowLock # w) /\ grants \in Grant!Grants /\ ours \subseteq 1..grants /\ valid \subseteq 1..grants
        /\ issuer \in Issuers
    BY <1>1 DEF Grant!Init, Grant!OAuthAssumption
  <2> QED BY <1>2, <2>1, <2>2 DEF Grant!TypeOK, Work
<1> QED BY <1>3, <1>4 DEF GrantInv, Grant!OwnMailbox, WorkerKnows, FlowKnows, Grant!Resting, Grant!Unbegun, Grant!NoGrant

LEMMA IssueGrows ==
  ASSUME Grant!OAuthAssumption, Grant!TypeOK, NEW old, NEW mine \in BOOLEAN, Grant!Issue(old, mine)
  PROVE  /\ Grows /\ grants' = grants + 1 /\ grants' \in Grant!Grants /\ (mine => grants' \in ours')
<1>1. /\ grants \in Nat /\ grants >= 1 /\ grants' = grants + 1 /\ grants' \in Grant!Grants
      /\ ours \subseteq 1..grants /\ valid \subseteq 1..grants
  BY DEF Grant!OAuthAssumption, Grant!TypeOK, Grant!Grants, Grant!Issue
<1>2. /\ valid' = (valid \ old) \cup {grants'} /\ issuer' = issuer
      /\ ours' \in {ours, ours \cup {grants'}} /\ (mine => grants' \in ours')
  BY <1>1 DEF Grant!Issue
<1>3. grants <= grants' /\ 1..grants \subseteq 1..grants' /\ grants' \in 1..grants'
  BY <1>1
<1>5. ours \subseteq ours' /\ ours' \subseteq 1..grants' /\ valid' \subseteq 1..grants'
  <2>1. ours \subseteq ours' /\ ours' \subseteq ours \cup {grants'}
    BY <1>2
  <2> QED BY <1>1, <1>2, <1>3, <2>1
<1>4. \A g \in 1..grants : g \in valid' => g \in valid
  BY <1>1, <1>2
<1> QED BY <1>1, <1>2, <1>3, <1>4, <1>5 DEF Grows

LEMMA SameProviderGrows == ASSUME Grant!TypeOK, UNCHANGED Grant!provider PROVE Grows
BY DEF Grant!TypeOK, Grows, Grant!provider, Grant!Grants

\* A process that keeps its place keeps what it relies on, unless another has the row and it has not.
LEMMA WorkerStays ==
  ASSUME Grant!TypeOK, Grant!OwnMailbox, Grows, NEW w \in Workers, WorkerKnows(w), work'[w] = work[w],
         UNCHANGED <<account, rowLock>> \/ rowLock # w
  PROVE  WorkerKnows(w)'
<1>1. grants \in Nat /\ grants' \in Nat /\ account.grant \in Nat /\ account.grant >= 1
  BY DEF Grant!TypeOK, Grows, Grant!Grants, Grant!AccountRow
<1>2. work[w].sent \in Nat /\ work[w].got \in Nat
  BY DEF Grant!TypeOK, Grant!Grants, Grant!NoGrant
<1>3. account.grant \in 1..grants /\ account.grant \in ours
  BY DEF Grant!TypeOK, Grant!OwnMailbox
<1> QED BY <1>1, <1>2, <1>3 DEF WorkerKnows, Grows

LEMMA FlowStays ==
  ASSUME Grant!TypeOK, Grows, NEW f \in Flows, FlowKnows(f), flow'[f] = flow[f]
  PROVE  FlowKnows(f)'
<1>1. grants \in Nat /\ grants' \in Nat /\ flow[f].grant \in Nat
  BY DEF Grant!TypeOK, Grows, Grant!Grants, Grant!FlowRow, Grant!NoGrant
<1> QED BY <1>1 DEF FlowKnows, Grows

\* A process goes on: what it does of its own, and that it disturbs nobody.
LEMMA WorkerStep ==
  ASSUME GrantInv, NEW w \in Workers, NEW x \in Work, work' = [work EXCEPT ![w] = x],
         Grows, UNCHANGED flow, account' \in Grant!AccountRow, account'.grant \in ours',
         \/ rowLock' = rowLock /\ UNCHANGED account
         \/ rowLock \in {None, w} /\ rowLock' \in {None, w} /\ None \notin Workers,
         rowLock' \in Workers \cup Flows \cup {None},
         rowLock' = w => x.pc \in {"request", "commit", "refused"},
         WorkerKnows(w)'
  PROVE  GrantInv'
<1> USE DEF GrantInv
<1>1. work' \in [Workers -> Work] /\ work'[w] = x /\ \A v \in Workers \ {w} : work'[v] = work[v]
  BY DEF Grant!TypeOK, Work
<1>2. \A v \in Workers : rowLock' = v => work'[v].pc \in {"request", "commit", "refused"}
  BY <1>1 DEF Grant!TypeOK
<1>3. Grant!TypeOK'
  BY <1>1, <1>2 DEF Grant!TypeOK, Work, Grows
<1>4. ASSUME NEW v \in Workers PROVE WorkerKnows(v)'
  <2>1. CASE v # w
    <3>1. work'[v] = work[v] /\ (UNCHANGED <<account, rowLock>> \/ rowLock # v)
      BY <1>1, <2>1
    <3> QED BY <3>1, WorkerStays
  <2> QED BY <2>1
<1>5. ASSUME NEW f \in Flows PROVE FlowKnows(f)'
  BY <1>5, FlowStays
<1> QED BY <1>3, <1>4, <1>5 DEF Grant!OwnMailbox

LEMMA FlowStep ==
  ASSUME Grant!OAuthAssumption, GrantInv, NEW f \in Flows, NEW y \in Grant!FlowRow, flow' = [flow EXCEPT ![f] = y],
         Grows, UNCHANGED <<work, rowLock>>, account' \in Grant!AccountRow, account'.grant \in ours',
         UNCHANGED account \/ rowLock = None, FlowKnows(f)'
  PROVE  GrantInv'
<1> USE DEF GrantInv
<1>1. flow' \in [Flows -> Grant!FlowRow] /\ \A g \in Flows \ {f} : flow'[g] = flow[g]
  BY DEF Grant!TypeOK
<1>2. Grant!TypeOK'
  BY <1>1 DEF Grant!TypeOK, Grows
<1>3. ASSUME NEW w \in Workers PROVE WorkerKnows(w)'
  BY <1>3, WorkerStays DEF Grant!OAuthAssumption
<1>4. ASSUME NEW g \in Flows PROVE FlowKnows(g)'
  BY <1>1, <1>4, FlowStays
<1> QED BY <1>2, <1>3, <1>4 DEF Grant!OwnMailbox

\* What the proofs below need of the state.
LEMMA GrantFacts ==
  ASSUME Grant!OAuthAssumption, GrantInv
  PROVE  /\ account \in Grant!AccountRow /\ account.grant \in ours /\ ours \subseteq 1..grants
         /\ grants \in Nat /\ 1..grants \subseteq Grant!Grants /\ None \notin Workers /\ None \notin Flows
         /\ \A w \in Workers : work[w] \in Work /\ WorkerKnows(w)
         /\ \A f \in Flows : flow[f] \in Grant!FlowRow /\ FlowKnows(f)
         /\ work \in [Workers -> Work] /\ rowLock \in Workers \cup Flows \cup {None}
         /\ flow \in [Flows -> Grant!FlowRow]
         /\ Grant!Resting \in Work /\ Grant!Resting.pc = "idle" /\ Grant!Resting.sent = 0 /\ Grant!Resting.got = 0
<1> USE DEF GrantInv
<1>1. grants \in Nat /\ 1..grants \subseteq Grant!Grants /\ ours \subseteq 1..grants
  BY DEF Grant!OAuthAssumption, Grant!TypeOK, Grant!Grants
<1> QED BY <1>1 DEF Grant!OAuthAssumption, Grant!TypeOK, Grant!OwnMailbox, Work, Grant!Resting, Grant!NoGrant

LEMMA NeedKeeps ==
  ASSUME Grant!OAuthAssumption, GrantInv, NEW w \in Workers, Grant!Need(w) \/ Grant!LockRow(w)
  PROVE  GrantInv'
<1>1. CASE Grant!Need(w)
  <2> DEFINE x == [work[w] EXCEPT !.pc = "lock"]
  <2>1. x \in Work /\ x.pc = "lock" /\ x.sent = work[w].sent /\ x.got = work[w].got
    BY GrantFacts DEF Work
  <2>2. work' = [work EXCEPT ![w] = x] /\ UNCHANGED <<account, Grant!provider, rowLock, flow>>
    BY <1>1 DEF Grant!Need
  <2>3. Grows /\ WorkerKnows(w)'
    BY <2>1, <2>2, GrantFacts, SameProviderGrows DEF GrantInv, WorkerKnows, Grant!provider
  <2>4. rowLock # w
    BY <1>1 DEF Grant!Need, Grant!At, GrantInv, Grant!TypeOK
  <2> QED BY <2>1, <2>2, <2>3, <2>4, GrantFacts, WorkerStep DEF Grant!provider
<1>2. CASE Grant!LockRow(w)
  <2> DEFINE x == IF account.status = "connected" THEN [pc |-> "request", sent |-> account.grant, got |-> Grant!NoGrant]
                  ELSE [Grant!Resting EXCEPT !.pc = "refused"]
  <2>1. /\ x \in Work /\ x.pc \in {"request", "refused"} /\ x.sent <= grants /\ x.got = 0
        /\ x.pc = "request" => account.status = "connected" /\ x.sent = account.grant
        /\ x.pc = "refused" => account.status # "connected"
    BY GrantFacts DEF Work, Grant!Resting, Grant!NoGrant
  <2>2. work' = [work EXCEPT ![w] = x] /\ UNCHANGED <<account, Grant!provider, flow>> /\ rowLock = None /\ rowLock' = w
    BY <1>2 DEF Grant!LockRow, Grant!RowFree
  <2> HIDE DEF x
  <2>3. Grows /\ WorkerKnows(w)'
    BY <2>1, <2>2, GrantFacts, SameProviderGrows DEF GrantInv, WorkerKnows, Grant!provider
  <2> QED BY <2>1, <2>2, <2>3, GrantFacts, WorkerStep DEF Grant!provider
<1> QED BY <1>1, <1>2

\* The process leaves the row as it was, with nothing in hand.
LEMMA WorkerRests ==
  ASSUME Grant!OAuthAssumption, GrantInv, NEW w \in Workers, work' = [work EXCEPT ![w] = Grant!Resting],
         UNCHANGED <<Grant!provider, flow>>, account' \in Grant!AccountRow, account'.grant \in ours,
         \/ rowLock' = rowLock /\ rowLock # w /\ UNCHANGED account
         \/ rowLock \in {None, w} /\ rowLock' = None
  PROVE  GrantInv'
<1>1. Grows /\ WorkerKnows(w)' /\ rowLock' # w
  BY GrantFacts, SameProviderGrows DEF GrantInv, WorkerKnows, Grant!provider
<1> QED BY <1>1, GrantFacts, WorkerStep DEF Grant!provider

LEMMA RequestKeeps ==
  ASSUME Grant!OAuthAssumption, GrantInv, NEW w \in Workers, Grant!Request(w)
  PROVE  GrantInv'
<1>1. /\ UNCHANGED <<account, flow>> /\ work[w].pc = "request" /\ rowLock = w /\ work[w].sent = account.grant
      /\ account.grant \in ours /\ account.status = "connected"
  BY GrantFacts DEF Grant!Request, Grant!At, WorkerKnows
<1>2. ASSUME NEW g \in Grant!Grants, work' = [work EXCEPT ![w].pc = "commit", ![w].got = g], g \in ours',
             Grows, UNCHANGED rowLock
      PROVE  GrantInv'
  <2> DEFINE x == [work[w] EXCEPT !.pc = "commit", !.got = g]
  <2>1. x \in Work /\ x.pc = "commit" /\ x.sent = work[w].sent /\ x.got = g
    BY GrantFacts DEF Work
  <2>2. work' = [work EXCEPT ![w] = x]
    <3>1. work' = [[work EXCEPT ![w].pc = "commit"] EXCEPT ![w].got = g]
      BY <1>2
    <3>2. work' = [v \in Workers |-> IF v = w THEN x ELSE work[v]]
      BY <3>1, GrantFacts DEF Work
    <3> QED BY <3>2, GrantFacts
  <2>5. g <= grants'
    BY <1>2, GrantFacts DEF Grows
  <2>3. WorkerKnows(w)'
    BY <1>1, <1>2, <2>1, <2>2, <2>5, GrantFacts DEF WorkerKnows, Grows, Grant!Grants
  <2> HIDE DEF x
  <2>4. account' \in Grant!AccountRow /\ account'.grant \in ours'
    BY <1>1, <1>2, GrantFacts DEF Grows
  <2> QED BY <1>1, <1>2, <2>1, <2>2, <2>3, <2>4, GrantFacts, WorkerStep
<1>3. CASE UNCHANGED <<Grant!provider, rowLock>> /\ work' = [work EXCEPT ![w].pc = "commit", ![w].got = work[w].sent]
  <2>1. Grows /\ work[w].sent \in Grant!Grants /\ work[w].sent \in ours'
    BY <1>1, <1>3, GrantFacts, SameProviderGrows DEF GrantInv, Grant!provider
  <2> QED BY <1>2, <1>3, <2>1
<1>4. ASSUME NEW old, Grant!Issue(old, work[w].sent \in ours), UNCHANGED rowLock,
             work' = [work EXCEPT ![w].pc = "commit", ![w].got = grants + 1]
      PROVE  GrantInv'
  <2>1. Grows /\ grants' = grants + 1 /\ grants' \in Grant!Grants /\ grants' \in ours'
    BY <1>1, <1>4, IssueGrows DEF GrantInv
  <2> QED BY <1>2, <1>4, <2>1
<1>5. CASE work[w].sent \notin valid /\ work' = [work EXCEPT ![w].pc = "refused"] /\ UNCHANGED <<Grant!provider, rowLock>>
  <2> DEFINE x == [work[w] EXCEPT !.pc = "refused"]
  <2>1. x \in Work /\ x.pc = "refused" /\ x.sent = work[w].sent /\ x.got = work[w].got
    BY GrantFacts DEF Work
  <2>2. work' = [work EXCEPT ![w] = x]
    BY <1>5, GrantFacts
  <2>3. Grows /\ WorkerKnows(w)'
    BY <1>1, <1>5, <2>1, <2>2, GrantFacts, SameProviderGrows DEF WorkerKnows, Grant!provider, GrantInv
  <2> HIDE DEF x
  <2> QED BY <1>1, <1>5, <2>1, <2>2, <2>3, GrantFacts, WorkerStep DEF Grant!provider
<1>6. CASE work' = [work EXCEPT ![w] = Grant!Resting] /\ rowLock' = None /\ UNCHANGED Grant!provider
  BY <1>1, <1>6, GrantFacts, WorkerRests
<1> QED BY <1>3, <1>4, <1>5, <1>6 DEF Grant!Request

LEMMA WorkerEndKeeps ==
  ASSUME Grant!OAuthAssumption, GrantInv, NEW w \in Workers,
         Grant!Commit(w) \/ Grant!GoogleRefused(w) \/ Grant!MicrosoftRefused(w) \/ Grant!MicrosoftMark(w) \/ Grant!Die(w)
  PROVE  GrantInv'
<1>1. CASE Grant!Commit(w)
  <2>1. /\ rowLock = w /\ rowLock' = None /\ work[w].got \in ours /\ UNCHANGED <<Grant!provider, flow>>
        /\ account' = [account EXCEPT !.grant = work[w].got] /\ work' = [work EXCEPT ![w] = Grant!Resting]
    BY <1>1, GrantFacts DEF Grant!Commit, Grant!At, WorkerKnows
  <2>2. account' \in Grant!AccountRow /\ account'.grant \in ours
    BY <2>1, GrantFacts DEF Grant!AccountRow
  <2> QED BY <2>1, <2>2, WorkerRests
<1>2. CASE Grant!GoogleRefused(w) \/ Grant!MicrosoftMark(w)
  <2>1. /\ rowLock \in {None, w} /\ rowLock' = None /\ UNCHANGED <<Grant!provider, flow>>
        /\ account' = [account EXCEPT !.status = "reconnect_required"] /\ work' = [work EXCEPT ![w] = Grant!Resting]
    BY <1>2, GrantFacts DEF Grant!GoogleRefused, Grant!MicrosoftMark, Grant!At, WorkerKnows, Grant!RowFree
  <2>2. account' \in Grant!AccountRow /\ account'.grant \in ours
    BY <2>1, GrantFacts DEF Grant!AccountRow
  <2> QED BY <2>1, <2>2, WorkerRests
<1>3. CASE Grant!MicrosoftRefused(w)
  <2> DEFINE x == [work[w] EXCEPT !.pc = "mark"]
  <2>1. x \in Work /\ x.pc = "mark" /\ x.sent = work[w].sent /\ x.got = work[w].got
    BY GrantFacts DEF Work
  <2>2. /\ work' = [work EXCEPT ![w] = x] /\ rowLock = w /\ rowLock' = None /\ issuer = "microsoft"
        /\ UNCHANGED <<account, Grant!provider, flow>>
    BY <1>3, GrantFacts DEF Grant!MicrosoftRefused, Grant!At, WorkerKnows
  <2>3. Grows /\ WorkerKnows(w)'
    BY <2>1, <2>2, GrantFacts, SameProviderGrows DEF WorkerKnows, Grant!provider, GrantInv
  <2> HIDE DEF x
  <2> QED BY <2>1, <2>2, <2>3, GrantFacts, WorkerStep DEF Grant!provider
<1>4. CASE Grant!Die(w)
  BY <1>4, GrantFacts, WorkerRests DEF Grant!Die
<1> QED BY <1>1, <1>2, <1>3, <1>4

\* A reconnection goes on; the account changes under the lock alone, to a grant of its mailbox.
LEMMA StoreKeeps ==
  ASSUME Grant!OAuthAssumption, GrantInv, NEW f \in Flows, NEW pc \in {"begun", "code", "store", "checked", "done"},
         flow' = [flow EXCEPT ![f].pc = pc], pc = "checked" => issuer # "google" /\ flow[f].grant \in ours,
         Grows, UNCHANGED <<work, rowLock>>,
         \/ UNCHANGED account
         \/ rowLock = None /\ account' \in Grant!AccountRow /\ account'.grant \in ours'
  PROVE  GrantInv'
<1> DEFINE y == [flow[f] EXCEPT !.pc = pc]
<1>1. y \in Grant!FlowRow /\ y.pc = pc /\ y.grant = flow[f].grant
  BY GrantFacts DEF Grant!FlowRow
<1>2. flow' = [flow EXCEPT ![f] = y] /\ flow'[f] = y
  BY GrantFacts
<1>3. y.grant \in Nat /\ y.grant <= grants /\ grants \in Nat /\ grants' \in Nat /\ account.grant \in ours'
  BY <1>1, GrantFacts DEF Grant!FlowRow, Grant!Grants, Grant!NoGrant, Grows, FlowKnows
<1> HIDE DEF y
<1>4. FlowKnows(f)'
  BY <1>1, <1>2, <1>3 DEF FlowKnows, Grows
<1>5. account' \in Grant!AccountRow /\ account'.grant \in ours'
  BY <1>3, GrantFacts
<1> QED BY <1>1, <1>2, <1>4, <1>5, FlowStep

LEMMA ExchangeKeeps ==
  ASSUME Grant!OAuthAssumption, GrantInv, NEW f \in Flows, Grant!Exchange(f)
  PROVE  GrantInv'
<1>1. UNCHANGED <<account, rowLock, work>>
  BY DEF Grant!Exchange
<1>2. ASSUME NEW mine \in BOOLEAN, Grant!Issue({}, mine), flow' = [flow EXCEPT ![f] = [pc |-> "store", grant |-> grants + 1]]
      PROVE  GrantInv'
  <2> DEFINE y == [pc |-> "store", grant |-> grants + 1]
  <2>1. Grows /\ grants' = grants + 1 /\ grants' \in Grant!Grants
    BY <1>2, IssueGrows DEF GrantInv
  <2>2. y \in Grant!FlowRow /\ flow'[f] = y /\ account' \in Grant!AccountRow /\ account'.grant \in ours'
    BY <1>1, <1>2, <2>1, GrantFacts DEF Grant!FlowRow, Grows
  <2>3. FlowKnows(f)'
    BY <2>1, <2>2 DEF FlowKnows, Grant!Grants
  <2> QED BY <1>1, <1>2, <2>1, <2>2, <2>3, FlowStep
<1>3. ASSUME UNCHANGED Grant!provider, NEW pc \in {"store", "done"}, Grant!Step(f, pc) PROVE GrantInv'
  <2>1. Grows
    BY <1>3, SameProviderGrows DEF GrantInv
  <2> QED BY <1>1, <1>3, <2>1, StoreKeeps DEF Grant!Step
<1> QED BY <1>2, <1>3 DEF Grant!Exchange

LEMMA KeepGrantDoes ==
  ASSUME Grant!OAuthAssumption, GrantInv, Grant!KeepGrant
  PROVE  Grows /\ account' \in Grant!AccountRow /\ account'.grant \in ours' /\ (UNCHANGED account \/ account'.status = "connected")
<1>1. CASE UNCHANGED Grant!provider /\ account' \in {account, Grant!Connected(account.grant)}
  BY <1>1, GrantFacts, SameProviderGrows DEF GrantInv, Grant!provider, Grant!Connected, Grant!AccountRow
<1>2. ASSUME NEW old, Grant!Issue(old, account.grant \in ours), account' = Grant!Connected(grants + 1)
      PROVE  Grows /\ account' \in Grant!AccountRow /\ account'.grant \in ours' /\ account'.status = "connected"
  <2>1. Grows /\ grants' = grants + 1 /\ grants' \in Grant!Grants /\ grants' \in ours'
    BY <1>2, GrantFacts, IssueGrows DEF GrantInv
  <2> QED BY <1>2, <2>1 DEF Grant!Connected, Grant!AccountRow
<1> QED BY <1>1, <1>2 DEF Grant!KeepGrant

LEMMA ReconnectKeeps ==
  ASSUME Grant!OAuthAssumption, GrantInv, NEW f \in Flows, Grant!Reconnect(f)
  PROVE  GrantInv'
<1>1. ASSUME UNCHANGED Grant!provider PROVE Grows
  BY <1>1, SameProviderGrows DEF GrantInv
<1>2. CASE Grant!Begin(f)
  BY <1>1, <1>2, StoreKeeps DEF Grant!Begin, Grant!Step
<1>3. CASE Grant!Callback(f)
  BY <1>1, <1>3, StoreKeeps DEF Grant!Callback, Grant!Step
<1>4. CASE Grant!GoogleStore(f)
  <2>1. rowLock = None /\ UNCHANGED <<rowLock, work>> /\ flow' = [flow EXCEPT ![f].pc = "done"]
    BY <1>4 DEF Grant!GoogleStore, Grant!RowFree, Grant!Step
  <2>2. Grows /\ account' \in Grant!AccountRow /\ account'.grant \in ours'
    <3>1. CASE flow[f].grant = Grant!NoGrant
      BY <1>4, <3>1, KeepGrantDoes DEF Grant!GoogleStore
    <3>2. CASE flow[f].grant # Grant!NoGrant
      <4>1. account' \in {account, Grant!Connected(flow[f].grant)} /\ (account' = account \/ flow[f].grant \in ours) /\ UNCHANGED Grant!provider
        BY <1>4, <3>2 DEF Grant!GoogleStore, Grant!Mine
      <4> QED BY <1>1, <4>1, GrantFacts DEF Grant!Connected, Grant!AccountRow, Grant!provider
    <3> QED BY <3>1, <3>2
  <2> QED BY <2>1, <2>2, StoreKeeps
<1>5. CASE Grant!MicrosoftCheck(f)
  <2>1. /\ issuer = "microsoft" /\ UNCHANGED <<account, Grant!provider, rowLock, work>>
        /\ (Grant!Step(f, "checked") /\ flow[f].grant \in ours) \/ Grant!Step(f, "done")
    BY <1>5 DEF Grant!MicrosoftCheck, Grant!Mine
  <2> QED BY <1>1, <2>1, StoreKeeps DEF Grant!Step
<1>6. CASE Grant!MicrosoftStore(f)
  <2>1. /\ rowLock = None /\ UNCHANGED <<Grant!provider, rowLock, work>> /\ flow[f].grant \in ours
        /\ flow' = [flow EXCEPT ![f].pc = "done"] /\ account' = Grant!Connected(flow[f].grant)
    BY <1>6, GrantFacts DEF Grant!MicrosoftStore, Grant!In, Grant!RowFree, Grant!Step, FlowKnows
  <2>2. account' \in Grant!AccountRow /\ account'.grant \in ours'
    BY <2>1, GrantFacts DEF Grant!Connected, Grant!AccountRow, Grant!provider
  <2> QED BY <1>1, <2>1, <2>2, StoreKeeps
<1> QED BY <1>2, <1>3, <1>4, <1>5, <1>6, ExchangeKeeps DEF Grant!Reconnect

LEMMA RevokeKeeps ==
  ASSUME Grant!OAuthAssumption, GrantInv, Grant!Revoke \/ UNCHANGED Grant!vars
  PROVE  GrantInv'
<1>1. UNCHANGED <<issuer, account, grants, ours, rowLock, work, flow>> /\ valid' \subseteq valid
  BY DEF Grant!Revoke, Grant!vars, Grant!provider
<1>2. Grows
  BY <1>1 DEF GrantInv, Grant!TypeOK, Grows, Grant!Grants
<1>3. Grant!TypeOK' /\ Grant!OwnMailbox'
  BY <1>1 DEF GrantInv, Grant!TypeOK, Grant!OwnMailbox
<1>4. \A w \in Workers : WorkerKnows(w)'
  BY <1>1, <1>2, WorkerStays DEF GrantInv
<1>5. \A f \in Flows : FlowKnows(f)'
  BY <1>1, <1>2, FlowStays DEF GrantInv
<1> QED BY <1>3, <1>4, <1>5 DEF GrantInv

LEMMA GrantNextKeeps == ASSUME Grant!OAuthAssumption, GrantInv, [Grant!Next]_Grant!vars PROVE GrantInv'
<1>1. ASSUME NEW w \in Workers, Grant!Need(w) \/ Grant!Renew(w) \/ Grant!Die(w) PROVE GrantInv'
  BY <1>1, NeedKeeps, RequestKeeps, WorkerEndKeeps DEF Grant!Renew
<1> QED BY <1>1, ReconnectKeeps, RevokeKeeps DEF Grant!Next

\* A refusal is recorded only by who has the row, or by Microsoft's processes.
LEMMA RefusalStands == ASSUME Grant!OAuthAssumption, GrantInv, [Grant!Next]_Grant!vars, issuer = "google" PROVE Grant!Stands
<1>1. ASSUME NEW w \in Workers, Grant!Need(w) \/ Grant!Renew(w) \/ Grant!Die(w) PROVE Grant!Stands
  <2>1. CASE Grant!GoogleRefused(w)
    BY <2>1, GrantFacts DEF Grant!GoogleRefused, Grant!At, WorkerKnows, Grant!Stands
  <2>2. CASE Grant!MicrosoftMark(w)
    BY <2>2, GrantFacts DEF Grant!MicrosoftMark, Grant!At, WorkerKnows
  <2>3. CASE Grant!Commit(w)
    BY <2>3, GrantFacts DEF Grant!Commit, Grant!Stands, Grant!AccountRow
  <2>4. CASE UNCHANGED account
    BY <2>4 DEF Grant!Stands
  <2> QED BY <1>1, <2>1, <2>2, <2>3, <2>4 DEF Grant!Need, Grant!Renew, Grant!Die, Grant!LockRow, Grant!Request, Grant!MicrosoftRefused
<1>2. ASSUME NEW f \in Flows, Grant!Reconnect(f) PROVE Grant!Stands
  <2>1. CASE Grant!GoogleStore(f)
    BY <2>1, KeepGrantDoes DEF Grant!GoogleStore, Grant!Stands, Grant!Connected
  <2>2. CASE Grant!MicrosoftStore(f)
    BY <2>2 DEF Grant!MicrosoftStore, Grant!Stands, Grant!Connected
  <2>3. CASE UNCHANGED account
    BY <2>3 DEF Grant!Stands
  <2> QED BY <1>2, <2>1, <2>2, <2>3 DEF Grant!Reconnect, Grant!Begin, Grant!Callback, Grant!Exchange, Grant!MicrosoftCheck
<1> QED BY <1>1, <1>2 DEF Grant!Next, Grant!Revoke, Grant!vars, Grant!Stands

\* Whatever renewals, reconnections, revocations and dying processes follow each other, what each
\* of them knows of the account's row holds.
THEOREM GrantInvariantHolds == ASSUME Grant!OAuthAssumption PROVE Grant!Spec => []GrantInv
<1>1. Grant!Init => GrantInv
  BY GrantInitHolds
<1>2. GrantInv /\ [Grant!Next]_Grant!vars => GrantInv'
  BY GrantNextKeeps
<1> QED BY <1>1, <1>2, PTL DEF Grant!Spec

\* google-oauth.ts:415: "A stale failure cannot revoke a newly replaced grant".  A Google account
\* is marked for reconnection only while the provider refuses the very grant that it has.
THEOREM RefusedGrantIsThePresent == ASSUME Grant!OAuthAssumption PROVE Grant!Spec => Grant!GrantStands
<1>1. GrantInv /\ [Grant!Next]_Grant!vars => [issuer = "google" => Grant!Stands]_Grant!vars
  BY RefusalStands
<1> QED BY <1>1, GrantInvariantHolds, PTL DEF Grant!Spec, Grant!GrantStands

\* The account never has a grant of another mailbox, although Microsoft's is compared before the row
\* is locked: the account's mailbox stays the same in between.
THEOREM GrantIsOfTheMailbox == ASSUME Grant!OAuthAssumption PROVE Grant!Spec => [](Grant!TypeOK /\ Grant!OwnMailbox)
<1>1. GrantInv => Grant!TypeOK /\ Grant!OwnMailbox
  BY DEF GrantInv
<1> QED BY <1>1, GrantInvariantHolds, PTL

-----------------------------------------------------------------------------
(* Recovery from the host: what verify accepts, and what a restore brought back *)

CONSTANTS MaxFiles, MaxCodes, MaxReceipts, MaxChanges, MaxWork, MaxProofs
VARIABLES db, set, backup, old, files, newest, run, fails, admitted, guessed, rolled, online, must, accepted, allowance

Recovery == INSTANCE OfflineRecovery WITH last <- newest, work <- admitted, budget <- allowance

CommandRow == [op : {"none", "maintain", "resume", "complete"}, pc : {"none", "admit", "tx", "deliver"},
               file : 0..MaxFiles, right : SUBSET Recovery!Stages]
RecoveryTypes ==
  /\ db \in Recovery!Database /\ set \in Recovery!Sets
  /\ backup \in [db : Recovery!Database, fails : [Recovery!Stages -> 0..MaxProofs], work : 0..MaxWork]
  /\ old \subseteq Recovery!Things
  /\ files \in [Recovery!Files -> {Recovery!Unused, Recovery!Empty} \cup Recovery!Receipt]
  /\ newest \in [codes : 1..MaxCodes, receipt : 0..MaxReceipts]
  /\ run \in CommandRow
  /\ fails \in [Recovery!Stages -> 0..MaxProofs] /\ admitted \in 0..MaxWork
  /\ guessed \in [Recovery!Stages -> Nat] /\ rolled \in [Recovery!Stages -> Nat]
  /\ online \in BOOLEAN /\ must \in BOOLEAN /\ accepted \in 0..MaxFiles
  /\ allowance \in [changes : Nat, faults : Nat]

\* The number of a receipt, in a row or a file, has been given out.
Issued ==
  /\ db.receipt.id <= newest.receipt /\ backup.db.receipt.id <= newest.receipt
  /\ \A f \in Recovery!Files : files[f].id <= newest.receipt

\* A number is of one receipt, whatever was restored since.
OneReceipt == db.receipt.id = backup.db.receipt.id => db.receipt = backup.db.receipt

\* A file with the number of a verified receipt has the codes of that receipt.
FilesAgree == \A f \in Recovery!Files :
  /\ files[f].id = db.receipt.id /\ db.receipt.id # 0 /\ db.receipt.status = "verified" => files[f].codes = db.receipt.codes
  /\ files[f].id = backup.db.receipt.id /\ backup.db.receipt.id # 0 /\ backup.db.receipt.status = "verified"
       => files[f].codes = backup.db.receipt.codes

\* A command runs while the writers are stopped, and what it delivers was fenced.
Offline ==
  /\ run.pc # "none" => ~online /\ run.file \in Recovery!Files
  /\ run.pc = "deliver" => Recovery!Fenced(db, db.receipt.id)

\* What `verify` accepted holds until something is begun.
AcceptedHolds == accepted # 0 =>
  /\ ~online /\ run.pc = "none"
  /\ db.verified /\ db.left = {} /\ files[accepted].codes = db.codes

\* What a restore brought back is under way until it is fenced, and is fenced before
\* the instance is opened.
Brought == old \subseteq db.left /\ (~must \/ online => old = {})

\* Each examined proof was counted, and is counted still unless a restore took it off.
Counts == \A s \in Recovery!Stages : guessed[s] <= fails[s] + rolled[s]

RecoveryInv ==
  /\ RecoveryTypes /\ Issued /\ OneReceipt /\ FilesAgree /\ Offline /\ AcceptedHolds /\ Brought /\ Counts

LEMMA RecoveryBounds == ASSUME Recovery!RecoveryAssumption
  PROVE /\ MaxFiles \in Nat \ {0} /\ MaxCodes \in Nat \ {0} /\ MaxReceipts \in Nat \ {0}
        /\ MaxChanges \in Nat \ {0} /\ MaxFaults \in Nat \ {0} /\ MaxWork \in Nat \ {0} /\ MaxProofs \in Nat \ {0}
BY DEF Recovery!RecoveryAssumption

LEMMA NoRunIsTyped == ASSUME Recovery!RecoveryAssumption PROVE Recovery!NoRun \in CommandRow /\ Recovery!NoRun.pc = "none"
BY RecoveryBounds DEF Recovery!NoRun, CommandRow, Recovery!Stages

LEMMA Spent == ASSUME RecoveryTypes, NEW what \in {"changes", "faults"}, Recovery!Spend(what)
               PROVE allowance' \in [changes : Nat, faults : Nat]
BY DEF RecoveryTypes, Recovery!Spend

LEMMA RecoveryInitHolds == ASSUME Recovery!RecoveryAssumption, Recovery!Init PROVE RecoveryInv
<1>1. Recovery!NoReceipt \in Recovery!Receipt /\ Recovery!NoReceipt.id = 0
  BY RecoveryBounds DEF Recovery!NoReceipt, Recovery!Receipt
<1>2. db \in Recovery!Database /\ db.receipt = Recovery!NoReceipt /\ db.left = {}
  BY <1>1, RecoveryBounds DEF Recovery!Init, Recovery!Database, Recovery!Things
<1>3. Recovery!Unused.id = 0
  BY DEF Recovery!Unused, Recovery!NoReceipt
<1>4. /\ fails \in [Recovery!Stages -> 0..MaxProofs] /\ admitted \in 0..MaxWork
      /\ guessed \in [Recovery!Stages -> Nat] /\ rolled \in [Recovery!Stages -> Nat]
  BY RecoveryBounds DEF Recovery!Init
<1>5. backup = [db |-> db, fails |-> fails, work |-> admitted]
  BY DEF Recovery!Init
<1>6. RecoveryTypes
  <2>1. backup \in [db : Recovery!Database, fails : [Recovery!Stages -> 0..MaxProofs], work : 0..MaxWork]
    BY <1>2, <1>4, <1>5
  <2>2. newest \in [codes : 1..MaxCodes, receipt : 0..MaxReceipts] /\ allowance \in [changes : Nat, faults : Nat]
    BY RecoveryBounds DEF Recovery!Init
  <2>3. files \in [Recovery!Files -> {Recovery!Unused, Recovery!Empty} \cup Recovery!Receipt] /\ set \in Recovery!Sets /\ old = {} /\ run \in CommandRow
    BY NoRunIsTyped DEF Recovery!Init, Recovery!Sets
  <2>4. online = TRUE /\ must = FALSE /\ accepted = 0 /\ accepted \in 0..MaxFiles
    BY RecoveryBounds DEF Recovery!Init
  <2> QED BY <1>2, <1>4, <2>1, <2>2, <2>3, <2>4, Zenon DEF RecoveryTypes
<1>7. \A f \in Recovery!Files : files[f] = Recovery!Unused
  BY DEF Recovery!Init
<1>8. Issued /\ OneReceipt /\ FilesAgree
  BY <1>1, <1>2, <1>3, <1>5, <1>6, <1>7 DEF Recovery!Init, Issued, OneReceipt, FilesAgree
<1>9. Offline /\ AcceptedHolds /\ Brought /\ Counts
  BY <1>2, NoRunIsTyped DEF Recovery!Init, Offline, AcceptedHolds, Brought, Counts
<1> QED BY <1>6, <1>8, <1>9 DEF RecoveryInv

LEMMA DatabaseFields == ASSUME NEW d \in Recovery!Database
  PROVE /\ d.verified \in BOOLEAN /\ d.live \in BOOLEAN /\ d.codes \in 1..MaxCodes /\ d.left \in SUBSET Recovery!Things
        /\ d.receipt \in Recovery!Receipt /\ d.receipt.id \in 0..MaxReceipts
BY DEF Recovery!Database, Recovery!Receipt

LEMMA ServeKeeps == ASSUME Recovery!RecoveryAssumption, RecoveryInv, Recovery!Serve PROVE RecoveryInv'
<1>1. PICK t \in Recovery!Things :
       \/ db' = [db EXCEPT !.left = @ \cup {t}] /\ UNCHANGED old
       \/ t \in db.left /\ db' = [db EXCEPT !.left = @ \ {t}] /\ old' = old \ {t}
  BY DEF Recovery!Serve
<1>2. /\ db' \in Recovery!Database /\ db'.receipt = db.receipt
      /\ old' \subseteq old /\ old' \subseteq db'.left
  BY <1>1 DEF RecoveryInv, RecoveryTypes, Brought, Recovery!Database
<1>3. run.pc = "none" /\ accepted = 0
  BY DEF Recovery!Serve, RecoveryInv, Offline, AcceptedHolds, RecoveryTypes, CommandRow
<1>4. RecoveryTypes'
  BY <1>2, Spent DEF Recovery!Serve, RecoveryInv, RecoveryTypes, Recovery!admission
<1>5. Issued' /\ OneReceipt' /\ FilesAgree'
  BY <1>2 DEF Recovery!Serve, RecoveryInv, Issued, OneReceipt, FilesAgree
<1>6. Offline' /\ AcceptedHolds' /\ Brought' /\ Counts'
  BY <1>2, <1>3 DEF Recovery!Serve, RecoveryInv, Offline, AcceptedHolds, Brought, Counts, Recovery!admission
<1> QED BY <1>4, <1>5, <1>6 DEF RecoveryInv

\* A wrong proof is counted as it is examined, where there is room to count it.
LEMMA ExaminedCounts ==
  ASSUME Recovery!RecoveryAssumption, RecoveryInv, NEW wrong \in SUBSET Recovery!Stages, NEW cleared \in SUBSET Recovery!Stages,
         \A s \in wrong : fails[s] # MaxProofs, Recovery!Examined(wrong, cleared)
  PROVE  /\ fails' \in [Recovery!Stages -> 0..MaxProofs]
         /\ guessed' \in [Recovery!Stages -> Nat] /\ rolled' \in [Recovery!Stages -> Nat] /\ Counts'
<1>1. \A s \in Recovery!Stages : fails[s] \in 0..MaxProofs /\ guessed[s] \in Nat /\ rolled[s] \in Nat /\ guessed[s] <= fails[s] + rolled[s]
  BY DEF RecoveryInv, RecoveryTypes, Counts
<1>2. \A s \in wrong : fails[s] + 1 \in 0..MaxProofs
  BY <1>1, RecoveryBounds
<1>3. fails' \in [Recovery!Stages -> 0..MaxProofs] /\ guessed' \in [Recovery!Stages -> Nat] /\ rolled' \in [Recovery!Stages -> Nat]
  BY <1>1, <1>2, RecoveryBounds DEF Recovery!Examined, Recovery!Counted
<1>4. \A s \in Recovery!Stages : guessed'[s] <= fails'[s] + rolled'[s]
  BY <1>1, RecoveryBounds DEF Recovery!Examined, Recovery!Counted
<1> QED BY <1>3, <1>4 DEF Counts, Recovery!Stages

LEMMA NotDelayed == ASSUME ~Recovery!Delayed PROVE \A s \in Recovery!Stages : fails[s] # MaxProofs
BY DEF Recovery!Delayed

\* Another factor ends what was under way of some kinds; the receipt's row is not touched.
LEMMA FactorOf == ASSUME NEW d \in Recovery!Database, NEW verified \in BOOLEAN
  PROVE /\ Recovery!Factor(d, verified) \in Recovery!Database
        /\ Recovery!Factor(d, verified).receipt = d.receipt /\ Recovery!Factor(d, verified).left \subseteq d.left
BY DEF Recovery!Factor, Recovery!Database

LEMMA RenewGives == ASSUME Recovery!RecoveryAssumption, RecoveryTypes, NEW d \in Recovery!Database, Recovery!Renew(d)
  PROVE /\ newest' \in [codes : 1..MaxCodes, receipt : 0..MaxReceipts] /\ newest'.receipt = newest.receipt
        /\ db' \in Recovery!Database /\ db'.receipt = d.receipt /\ db'.left = d.left
<1>1. newest.codes \in 1..MaxCodes /\ newest.codes + 1 \in 1..MaxCodes /\ newest.receipt \in 0..MaxReceipts
  BY RecoveryBounds DEF RecoveryTypes, Recovery!Renew
<1>2. newest' = [codes |-> newest.codes + 1, receipt |-> newest.receipt]
  BY DEF RecoveryTypes, Recovery!Renew
<1>3. db' = [d EXCEPT !.codes = newest.codes + 1]
  BY <1>2 DEF Recovery!Renew
<1> QED BY <1>1, <1>2, <1>3 DEF Recovery!Database

\* A step of the running instance: the receipt's row stays, and what is under way only shrinks.
LEMMA OnlineKeeps ==
  ASSUME Recovery!RecoveryAssumption, RecoveryInv, online = TRUE, Recovery!Spend("changes"),
         newest' \in [codes : 1..MaxCodes, receipt : 0..MaxReceipts], newest'.receipt = newest.receipt,
         db' \in Recovery!Database, db'.receipt = db.receipt, admitted' \in 0..MaxWork,
         fails' \in [Recovery!Stages -> 0..MaxProofs],
         guessed' \in [Recovery!Stages -> Nat], rolled' \in [Recovery!Stages -> Nat], Counts',
         UNCHANGED <<set, backup, old, files, run, online, must, accepted>>
  PROVE  RecoveryInv'
<1>1. run.pc = "none" /\ accepted = 0 /\ old = {}
  BY DEF RecoveryInv, Offline, AcceptedHolds, Brought
<1>2. RecoveryTypes'
  BY Spent DEF RecoveryInv, RecoveryTypes
<1>3. Issued' /\ OneReceipt' /\ FilesAgree'
  BY DEF RecoveryInv, Issued, OneReceipt, FilesAgree
<1>4. Offline' /\ AcceptedHolds' /\ Brought'
  BY <1>1 DEF Offline, AcceptedHolds, Brought
<1> QED BY <1>2, <1>3, <1>4 DEF RecoveryInv

LEMMA AsItWas == ASSUME RecoveryInv, UNCHANGED <<fails, guessed, rolled>>
  PROVE /\ fails' \in [Recovery!Stages -> 0..MaxProofs]
        /\ guessed' \in [Recovery!Stages -> Nat] /\ rolled' \in [Recovery!Stages -> Nat] /\ Counts'
BY DEF RecoveryInv, RecoveryTypes, Counts

\* New codes, for the present factor or for another one.
LEMMA Renewed == ASSUME Recovery!RecoveryAssumption, RecoveryInv, Recovery!Renew(db) \/ Recovery!Renew(Recovery!Factor(db, FALSE))
  PROVE /\ newest' \in [codes : 1..MaxCodes, receipt : 0..MaxReceipts] /\ newest'.receipt = newest.receipt
        /\ db' \in Recovery!Database /\ db'.receipt = db.receipt
<1>1. RecoveryTypes /\ db \in Recovery!Database
  BY DEF RecoveryInv, RecoveryTypes
<1>2. Recovery!Factor(db, FALSE) \in Recovery!Database /\ Recovery!Factor(db, FALSE).receipt = db.receipt
  BY <1>1, FactorOf
<1>3. CASE Recovery!Renew(db)
  BY <1>1, <1>3, RenewGives
<1>4. CASE Recovery!Renew(Recovery!Factor(db, FALSE))
  BY <1>1, <1>2, <1>4, RenewGives
<1> QED BY <1>3, <1>4

LEMMA NothingRenewed == ASSUME RecoveryInv, UNCHANGED <<newest, db>>
  PROVE /\ newest' \in [codes : 1..MaxCodes, receipt : 0..MaxReceipts] /\ newest'.receipt = newest.receipt
        /\ db' \in Recovery!Database /\ db'.receipt = db.receipt
BY DEF RecoveryInv, RecoveryTypes

LEMMA ManageKeeps == ASSUME Recovery!RecoveryAssumption, RecoveryInv, Recovery!Manage PROVE RecoveryInv'
<1>1. /\ online = TRUE /\ Recovery!Spend("changes")
      /\ UNCHANGED <<set, backup, old, files, run, online, must, accepted>>
  BY DEF Recovery!Manage, RecoveryInv, RecoveryTypes
<1>2. admitted' \in 0..MaxWork
  BY RecoveryBounds DEF Recovery!Manage, RecoveryInv, RecoveryTypes
<1>3. \/ UNCHANGED <<newest, db, fails, guessed, rolled>>
      \/ ~Recovery!Delayed /\ Recovery!Examined({"password"}, {}) /\ UNCHANGED <<newest, db>>
      \/ ~Recovery!Delayed /\ Recovery!Examined({"factor"}, {"password"}) /\ UNCHANGED <<newest, db>>
      \/ Recovery!Examined({}, Recovery!Stages) /\ (Recovery!Renew(db) \/ Recovery!Renew(Recovery!Factor(db, FALSE)))
  BY DEF Recovery!Manage
<1>4. {"password"} \in SUBSET Recovery!Stages /\ {"factor"} \in SUBSET Recovery!Stages /\ {} \in SUBSET Recovery!Stages
      /\ Recovery!Stages \in SUBSET Recovery!Stages
  BY DEF Recovery!Stages
<1>5. CASE UNCHANGED <<newest, db, fails, guessed, rolled>>
  BY <1>1, <1>2, <1>5, AsItWas, NothingRenewed, OnlineKeeps
<1>6. CASE ~Recovery!Delayed /\ Recovery!Examined({"password"}, {}) /\ UNCHANGED <<newest, db>>
  <2>1. \A s \in {"password"} : fails[s] # MaxProofs
    BY <1>4, <1>6, NotDelayed
  <2> QED BY <1>1, <1>2, <1>4, <1>6, <2>1, ExaminedCounts, NothingRenewed, OnlineKeeps
<1>7. CASE ~Recovery!Delayed /\ Recovery!Examined({"factor"}, {"password"}) /\ UNCHANGED <<newest, db>>
  <2>1. \A s \in {"factor"} : fails[s] # MaxProofs
    BY <1>4, <1>7, NotDelayed
  <2> QED BY <1>1, <1>2, <1>4, <1>7, <2>1, ExaminedCounts, NothingRenewed, OnlineKeeps
<1>8. CASE Recovery!Examined({}, Recovery!Stages) /\ (Recovery!Renew(db) \/ Recovery!Renew(Recovery!Factor(db, FALSE)))
  <2>1. \A s \in {} : fails[s] # MaxProofs
    OBVIOUS
  <2> QED BY <1>1, <1>2, <1>4, <1>8, <2>1, ExaminedCounts, Renewed, OnlineKeeps
<1> QED BY <1>3, <1>5, <1>6, <1>7, <1>8

LEMMA ReplaceKeeps == ASSUME Recovery!RecoveryAssumption, RecoveryInv, Recovery!Replace PROVE RecoveryInv'
<1>1. /\ online = TRUE /\ Recovery!Spend("changes") /\ admitted' \in 0..MaxWork /\ UNCHANGED <<fails, guessed, rolled>>
      /\ UNCHANGED <<set, backup, old, files, run, online, must, accepted>>
  BY DEF Recovery!Replace, Recovery!admission, RecoveryInv, RecoveryTypes
<1>2. Recovery!Renew(db) \/ Recovery!Renew(Recovery!Factor(db, FALSE))
  BY DEF Recovery!Replace
<1> QED BY <1>1, <1>2, AsItWas, Renewed, OnlineKeeps

LEMMA CeremonyKeeps == ASSUME Recovery!RecoveryAssumption, RecoveryInv, Recovery!Ceremony PROVE RecoveryInv'
<1>1. /\ online = TRUE /\ Recovery!Spend("changes") /\ admitted' \in 0..MaxWork
      /\ UNCHANGED <<set, backup, old, files, run, online, must, accepted>>
  BY DEF Recovery!Ceremony, RecoveryInv, RecoveryTypes
<1>2. {"password"} \in SUBSET Recovery!Stages /\ {"factor"} \in SUBSET Recovery!Stages /\ {} \in SUBSET Recovery!Stages
  BY DEF Recovery!Stages
<1>3. fails["password"] < MaxProofs => fails["password"] # MaxProofs
  BY RecoveryBounds DEF RecoveryInv, RecoveryTypes, Recovery!Stages
<1>4. fails["factor"] < MaxProofs => fails["factor"] # MaxProofs
  BY RecoveryBounds DEF RecoveryInv, RecoveryTypes, Recovery!Stages
<1>5. CASE /\ fails["password"] < MaxProofs /\ UNCHANGED <<newest, db>>
           /\ Recovery!Examined({"password"}, {}) \/ Recovery!Examined({}, {"password"})
  <2>1. (\A s \in {"password"} : fails[s] # MaxProofs) /\ \A s \in {} : fails[s] # MaxProofs
    BY <1>3, <1>5
  <2>2. /\ fails' \in [Recovery!Stages -> 0..MaxProofs]
        /\ guessed' \in [Recovery!Stages -> Nat] /\ rolled' \in [Recovery!Stages -> Nat] /\ Counts'
    <3>1. CASE Recovery!Examined({"password"}, {})
      BY <1>2, <2>1, <3>1, ExaminedCounts
    <3>2. CASE Recovery!Examined({}, {"password"})
      BY <1>2, <2>1, <3>2, ExaminedCounts
    <3> QED BY <1>5, <3>1, <3>2
  <2> QED BY <1>1, <1>5, <2>2, NothingRenewed, OnlineKeeps
<1>6. CASE fails["factor"] < MaxProofs /\ Recovery!Examined({"factor"}, {}) /\ UNCHANGED <<newest, db>>
  <2>1. \A s \in {"factor"} : fails[s] # MaxProofs
    BY <1>4, <1>6
  <2> QED BY <1>1, <1>2, <1>6, <2>1, ExaminedCounts, NothingRenewed, OnlineKeeps
<1>7. CASE /\ (fails["factor"] < MaxProofs /\ Recovery!Examined({}, {"factor"})) \/ UNCHANGED <<fails, guessed, rolled>>
           /\ db' = Recovery!Factor(db, TRUE) /\ UNCHANGED newest
  <2>1. \A s \in {} : fails[s] # MaxProofs
    OBVIOUS
  <2>2. /\ fails' \in [Recovery!Stages -> 0..MaxProofs]
        /\ guessed' \in [Recovery!Stages -> Nat] /\ rolled' \in [Recovery!Stages -> Nat] /\ Counts'
    <3>1. CASE Recovery!Examined({}, {"factor"})
      BY <1>2, <2>1, <3>1, ExaminedCounts
    <3>2. CASE UNCHANGED <<fails, guessed, rolled>>
      BY <3>2, AsItWas
    <3> QED BY <1>7, <3>1, <3>2
  <2>3. newest' = newest /\ newest' \in [codes : 1..MaxCodes, receipt : 0..MaxReceipts] /\ db \in Recovery!Database
    BY <1>7 DEF RecoveryInv, RecoveryTypes
  <2>4. db' \in Recovery!Database /\ db'.receipt = db.receipt
    BY <1>7, <2>3, FactorOf
  <2> QED BY <1>1, <2>2, <2>3, <2>4, OnlineKeeps
<1> QED BY <1>5, <1>6, <1>7 DEF Recovery!Ceremony

LEMMA OperatorKeeps == ASSUME Recovery!RecoveryAssumption, RecoveryInv,
  Recovery!StopWriters \/ Recovery!Reopen \/ Recovery!Capture \/ Recovery!Restore
  PROVE RecoveryInv'
<1>1. CASE Recovery!StopWriters
  <2>1. RecoveryTypes' /\ Issued' /\ OneReceipt' /\ FilesAgree' /\ Counts'
    BY <1>1 DEF Recovery!StopWriters, RecoveryInv, RecoveryTypes, Issued, OneReceipt, FilesAgree, Counts, Recovery!admission
  <2>2. Offline' /\ AcceptedHolds' /\ Brought'
    BY <1>1 DEF Recovery!StopWriters, RecoveryInv, RecoveryTypes, Offline, AcceptedHolds, Brought, Recovery!Fenced,
       Recovery!Status, CommandRow
  <2> QED BY <2>1, <2>2 DEF RecoveryInv
<1>2. CASE Recovery!Reopen
  <2>1. RecoveryTypes' /\ Issued' /\ OneReceipt' /\ FilesAgree' /\ Counts'
    BY <1>2, RecoveryBounds DEF Recovery!Reopen, RecoveryInv, RecoveryTypes, Issued, OneReceipt, FilesAgree, Counts,
       Recovery!admission
  <2>2. Offline' /\ AcceptedHolds' /\ Brought'
    BY <1>2, NoRunIsTyped DEF Recovery!Reopen, RecoveryInv, RecoveryTypes, Offline, AcceptedHolds, Brought
  <2> QED BY <2>1, <2>2 DEF RecoveryInv
<1>3. CASE Recovery!Capture
  <2>1. backup' = [db |-> db, fails |-> fails, work |-> admitted]
    BY <1>3 DEF Recovery!Capture
  <2>2. RecoveryTypes'
    <3>1. backup' \in [db : Recovery!Database, fails : [Recovery!Stages -> 0..MaxProofs], work : 0..MaxWork]
      BY <2>1 DEF RecoveryInv, RecoveryTypes
    <3> QED BY <1>3, <3>1, Spent DEF Recovery!Capture, RecoveryInv, RecoveryTypes, Recovery!admission
  <2>3. Issued' /\ OneReceipt' /\ FilesAgree' /\ Counts'
    BY <1>3, <2>1 DEF Recovery!Capture, RecoveryInv, Issued, OneReceipt, FilesAgree, Counts, Recovery!admission
  <2>4. Offline' /\ AcceptedHolds' /\ Brought'
    BY <1>3 DEF Recovery!Capture, RecoveryInv, Offline, AcceptedHolds, Brought, Recovery!Fenced, Recovery!Status
  <2> QED BY <2>2, <2>3, <2>4 DEF RecoveryInv
<1>4. CASE Recovery!Restore
  <2>1. PICK over \in SUBSET Recovery!Stages : fails' = [s \in Recovery!Stages |-> IF s \in over THEN 0 ELSE backup.fails[s]]
    BY <1>4 DEF Recovery!Restore
  <2>2. rolled' = [s \in Recovery!Stages |-> IF guessed[s] > fails'[s] THEN guessed[s] - fails'[s] ELSE 0] /\ guessed' = guessed
    BY <1>4 DEF Recovery!Restore
  <2>3. backup.fails \in [Recovery!Stages -> 0..MaxProofs] /\ backup.work \in 0..MaxWork /\ guessed \in [Recovery!Stages -> Nat]
    BY DEF RecoveryInv, RecoveryTypes
  <2>4. fails' \in [Recovery!Stages -> 0..MaxProofs]
    BY <2>1, <2>3, RecoveryBounds
  <2>5. rolled' \in [Recovery!Stages -> Nat]
    <3>1. \A s \in Recovery!Stages : fails'[s] \in Nat /\ guessed[s] \in Nat
      BY <2>3, <2>4, RecoveryBounds
    <3> QED BY <2>2, <3>1
  <2>6. Counts'
    <3>1. \A s \in Recovery!Stages : guessed'[s] <= fails'[s] + rolled'[s]
      BY <2>2, <2>3, <2>4, RecoveryBounds
    <3> QED BY <3>1 DEF Counts, Recovery!Stages
  <2>7. RecoveryTypes'
    BY <1>4, <2>3, <2>4, <2>5, Spent, RecoveryBounds, DatabaseFields DEF Recovery!Restore, RecoveryInv, RecoveryTypes
  <2>8. Issued' /\ OneReceipt' /\ FilesAgree'
    BY <1>4, DatabaseFields DEF Recovery!Restore, RecoveryInv, RecoveryTypes, Issued, OneReceipt, FilesAgree
  <2>9. Offline' /\ AcceptedHolds' /\ Brought'
    BY <1>4, NoRunIsTyped DEF Recovery!Restore, RecoveryInv, Offline, AcceptedHolds, Brought
  <2> QED BY <2>6, <2>7, <2>8, <2>9 DEF RecoveryInv
<1> QED BY <1>1, <1>2, <1>3, <1>4

LEMMA BeginKeeps ==
  ASSUME Recovery!RecoveryAssumption, RecoveryInv, NEW op \in {"maintain", "resume", "complete"}, NEW right \in SUBSET Recovery!Stages, Recovery!Begin(op, right)
  PROVE  RecoveryInv'
<1>1. PICK f \in Recovery!Files :
       /\ files[f] = Recovery!Unused
       /\ files' = [files EXCEPT ![f] = Recovery!Empty]
       /\ run' = [op |-> op, pc |-> IF op = "maintain" THEN "tx" ELSE "admit", file |-> f, right |-> right]
  BY DEF Recovery!Begin
<1>2. run' \in CommandRow /\ run'.pc \in {"tx", "admit"} /\ run'.file = f
  BY <1>1 DEF CommandRow, Recovery!Files
<1>3. Recovery!Empty.id = 0 /\ Recovery!Unused.id = 0
  BY DEF Recovery!Empty, Recovery!Unused, Recovery!NoReceipt
<1>4. \A e \in Recovery!Files : files'[e] \in {Recovery!Unused, Recovery!Empty} \cup Recovery!Receipt /\ (files'[e].id = 0 \/ files'[e] = files[e])
  BY <1>1, <1>3 DEF RecoveryInv, RecoveryTypes
<1>5. RecoveryTypes'
  BY <1>1, <1>2, RecoveryBounds DEF Recovery!Begin, RecoveryInv, RecoveryTypes, Recovery!admission
<1>6. Issued' /\ OneReceipt' /\ FilesAgree'
  BY <1>4, RecoveryBounds DEF Recovery!Begin, RecoveryInv, RecoveryTypes, Issued, OneReceipt, FilesAgree
<1>7. Offline' /\ AcceptedHolds' /\ Brought' /\ Counts'
  BY <1>2 DEF Recovery!Begin, RecoveryInv, Offline, AcceptedHolds, Brought, Counts, Recovery!admission, Recovery!Writers
<1> QED BY <1>5, <1>6, <1>7 DEF RecoveryInv

LEMMA AdmitKeeps == ASSUME Recovery!RecoveryAssumption, RecoveryInv, Recovery!Admit PROVE RecoveryInv'
<1>1. run' \in CommandRow /\ run'.pc \in {"none", "tx"} /\ (run'.pc # "none" => run'.file = run.file) /\ admitted' \in 0..MaxWork
  BY NoRunIsTyped, RecoveryBounds DEF Recovery!Admit, Recovery!Refuse, RecoveryInv, RecoveryTypes, CommandRow
<1>2. RecoveryTypes'
  BY <1>1 DEF Recovery!Admit, RecoveryInv, RecoveryTypes
<1>3. Issued' /\ OneReceipt' /\ FilesAgree' /\ Brought' /\ Counts'
  BY DEF Recovery!Admit, RecoveryInv, Issued, OneReceipt, FilesAgree, Brought, Counts
<1>4. Offline' /\ AcceptedHolds'
  BY <1>1 DEF Recovery!Admit, RecoveryInv, Offline, AcceptedHolds
<1> QED BY <1>2, <1>3, <1>4 DEF RecoveryInv

\* Fencing: a new number, nothing left under way.
LEMMA FenceKeeps ==
  ASSUME Recovery!RecoveryAssumption, RecoveryInv, NEW verified \in BOOLEAN, Recovery!CommitFence(verified), run.pc = "tx",
         UNCHANGED <<set, backup, files, online, accepted, allowance>>
  PROVE  RecoveryInv'
<1>1. /\ newest.codes \in 1..MaxCodes /\ newest.receipt \in 0..MaxReceipts /\ newest.codes + 1 \in 1..MaxCodes
      /\ newest.receipt + 1 \in 0..MaxReceipts /\ newest.receipt + 1 # 0
  BY RecoveryBounds DEF Recovery!CommitFence, RecoveryInv, RecoveryTypes
<1>2. PICK c \in 1..MaxCodes : c = (IF verified THEN newest.codes + 1 ELSE db.codes)
  BY <1>1 DEF RecoveryInv, RecoveryTypes, Recovery!Database
<1>3. db' = [verified |-> verified, live |-> FALSE, codes |-> c, left |-> {},
             receipt |-> [id |-> newest.receipt + 1, codes |-> c, status |-> IF verified THEN "verified" ELSE "pending"]]
  BY <1>2 DEF Recovery!CommitFence, Recovery!Fence
<1>4. /\ db' \in Recovery!Database /\ Recovery!Fenced(db, db.receipt.id)' /\ db'.receipt.id = newest.receipt + 1 /\ db'.left = {}
  <2>1. db'.receipt \in Recovery!Receipt
    BY <1>1, <1>3 DEF Recovery!Receipt
  <2> QED BY <1>1, <1>3, <2>1 DEF Recovery!Database, Recovery!Fenced, Recovery!Status, Recovery!Things
<1>5. newest' \in [codes : 1..MaxCodes, receipt : 0..MaxReceipts] /\ newest'.receipt = newest.receipt + 1
  BY <1>1 DEF Recovery!CommitFence
<1>6. run' \in CommandRow /\ run'.pc = "deliver" /\ run'.file = run.file
  BY DEF Recovery!CommitFence, RecoveryInv, RecoveryTypes, CommandRow
<1>7. RecoveryTypes'
  BY <1>4, <1>5, <1>6 DEF Recovery!CommitFence, RecoveryInv, RecoveryTypes, Recovery!admission, Recovery!Things
<1>8. \A f \in Recovery!Files : files[f].id \in Nat
  BY RecoveryBounds DEF RecoveryInv, RecoveryTypes, Recovery!Receipt, Recovery!Unused, Recovery!Empty, Recovery!NoReceipt
<1>9. Issued' /\ OneReceipt' /\ FilesAgree'
  BY <1>1, <1>4, <1>5, <1>8, DatabaseFields DEF RecoveryInv, RecoveryTypes, Issued, OneReceipt, FilesAgree
<1>10. Offline' /\ AcceptedHolds'
  BY <1>4, <1>6 DEF RecoveryInv, Offline, AcceptedHolds
<1>11. Brought' /\ Counts'
  BY <1>4 DEF Recovery!CommitFence, RecoveryInv, Brought, Counts, Recovery!admission
<1> QED BY <1>7, <1>9, <1>10, <1>11 DEF RecoveryInv

LEMMA MaintainKeeps == ASSUME Recovery!RecoveryAssumption, RecoveryInv, Recovery!Maintain PROVE RecoveryInv'
<1>1. CASE Recovery!StateFits
  <2>1. db.verified \in BOOLEAN
    BY DatabaseFields DEF RecoveryInv, RecoveryTypes
  <2> QED BY <1>1, <2>1, FenceKeeps DEF Recovery!Maintain
<1>2. CASE ~Recovery!StateFits
  <2>1. run' = Recovery!NoRun /\ UNCHANGED <<db, old, must, newest, Recovery!admission, set, backup, files, online, accepted, allowance>>
    BY <1>2 DEF Recovery!Maintain, Recovery!Refuse
  <2>2. RecoveryTypes'
    BY <2>1, NoRunIsTyped DEF RecoveryInv, RecoveryTypes, Recovery!admission
  <2>3. Issued' /\ OneReceipt' /\ FilesAgree' /\ Brought' /\ Counts'
    BY <2>1 DEF RecoveryInv, Issued, OneReceipt, FilesAgree, Brought, Counts, Recovery!admission
  <2>4. Offline' /\ AcceptedHolds'
    BY <2>1, NoRunIsTyped DEF RecoveryInv, Offline, AcceptedHolds
  <2> QED BY <2>2, <2>3, <2>4 DEF RecoveryInv
<1> QED BY <1>1, <1>2

LEMMA WrongProofKeeps ==
  ASSUME Recovery!RecoveryAssumption, RecoveryInv, ~Recovery!Delayed, NEW s \in Recovery!Stages, Recovery!WrongProof(s),
         UNCHANGED <<set, backup, files, online, accepted, allowance>>
  PROVE  RecoveryInv'
<1>1. Recovery!Examined({s}, {}) /\ run' = Recovery!NoRun /\ UNCHANGED <<db, old, must, newest, admitted>>
  BY DEF Recovery!WrongProof, Recovery!Refuse
<1>2. \A x \in {s} : fails[x] # MaxProofs
  BY NotDelayed
<1>3. /\ fails' \in [Recovery!Stages -> 0..MaxProofs]
      /\ guessed' \in [Recovery!Stages -> Nat] /\ rolled' \in [Recovery!Stages -> Nat] /\ Counts'
  BY <1>1, <1>2, ExaminedCounts
<1>4. RecoveryTypes'
  BY <1>1, <1>3, NoRunIsTyped DEF RecoveryInv, RecoveryTypes
<1>5. Issued' /\ OneReceipt' /\ FilesAgree' /\ Brought'
  BY <1>1 DEF RecoveryInv, Issued, OneReceipt, FilesAgree, Brought
<1>6. Offline' /\ AcceptedHolds'
  BY <1>1, NoRunIsTyped DEF RecoveryInv, Offline, AcceptedHolds
<1> QED BY <1>3, <1>4, <1>5, <1>6 DEF RecoveryInv

LEMMA ContinueKeeps == ASSUME Recovery!RecoveryAssumption, RecoveryInv, Recovery!Continue PROVE RecoveryInv'
<1>0. UNCHANGED <<set, backup, files, online, accepted, allowance>> /\ run.pc = "tx" /\ run.op # "maintain"
  BY DEF Recovery!Continue
<1>1. CASE db.verified \/ ~Recovery!Maintained(db, db.receipt.id) \/ Recovery!Delayed
  <2>1. run' = Recovery!NoRun /\ UNCHANGED <<db, old, must, newest, Recovery!admission>>
    BY <1>1 DEF Recovery!Continue, Recovery!Refuse
  <2>2. RecoveryTypes'
    BY <1>0, <2>1, NoRunIsTyped DEF RecoveryInv, RecoveryTypes, Recovery!admission
  <2>3. Issued' /\ OneReceipt' /\ FilesAgree' /\ Brought' /\ Counts'
    BY <1>0, <2>1 DEF RecoveryInv, Issued, OneReceipt, FilesAgree, Brought, Counts, Recovery!admission
  <2>4. Offline' /\ AcceptedHolds'
    BY <1>0, <2>1, NoRunIsTyped DEF RecoveryInv, Offline, AcceptedHolds
  <2> QED BY <2>2, <2>3, <2>4 DEF RecoveryInv
<1>2. CASE ~db.verified /\ Recovery!Maintained(db, db.receipt.id) /\ ~Recovery!Delayed
  <2>1. CASE Recovery!WrongProof("password") \/ Recovery!WrongProof("factor")
    BY <1>0, <1>2, <2>1, WrongProofKeeps DEF Recovery!Stages
  <2>2. CASE run' = [run EXCEPT !.pc = "deliver"] /\ UNCHANGED <<db, old, must, newest, Recovery!admission>>
    <3>1. run' \in CommandRow /\ run'.pc = "deliver" /\ run'.file = run.file
      BY <2>2 DEF RecoveryInv, RecoveryTypes, CommandRow
    <3>2. RecoveryTypes'
      BY <1>0, <2>2, <3>1 DEF RecoveryInv, RecoveryTypes, Recovery!admission
    <3>3. Issued' /\ OneReceipt' /\ FilesAgree' /\ Brought' /\ Counts'
      BY <1>0, <2>2 DEF RecoveryInv, Issued, OneReceipt, FilesAgree, Brought, Counts, Recovery!admission
    <3>4. Offline' /\ AcceptedHolds'
      BY <1>0, <1>2, <2>2, <3>1 DEF RecoveryInv, Offline, AcceptedHolds, Recovery!Maintained, Recovery!Fenced, Recovery!Status
    <3> QED BY <3>2, <3>3, <3>4 DEF RecoveryInv
  <2>3. CASE Recovery!CommitFence(TRUE)
    BY <1>0, <2>3, FenceKeeps
  <2> QED BY <1>2, <2>1, <2>2, <2>3 DEF Recovery!Continue
<1> QED BY <1>1, <1>2

LEMMA DeliverKeeps == ASSUME Recovery!RecoveryAssumption, RecoveryInv, Recovery!Deliver PROVE RecoveryInv'
<1>1. run.file \in Recovery!Files /\ Recovery!Fenced(db, db.receipt.id) /\ accepted = 0 /\ run' = Recovery!NoRun
  BY DEF Recovery!Deliver, RecoveryInv, Offline, AcceptedHolds
<1>2. PICK new : /\ new = [id |-> db.receipt.id, status |-> db.receipt.status, codes |-> IF db.verified THEN db.codes ELSE 0]
                 /\ files' = [files EXCEPT ![run.file] = new]
  BY DEF Recovery!Deliver
<1>3. /\ new \in Recovery!Receipt /\ new.id = db.receipt.id
      /\ (db.receipt.status = "verified" => new.codes = db.receipt.codes)
  BY <1>1, <1>2, RecoveryBounds DEF RecoveryInv, RecoveryTypes, Recovery!Database, Recovery!Receipt, Recovery!Fenced,
     Recovery!Status
<1>4. \A f \in Recovery!Files : files'[f] = new \/ files'[f] = files[f]
  BY <1>2 DEF RecoveryInv, RecoveryTypes
<1>5. RecoveryTypes'
  <2>1. files' \in [Recovery!Files -> {Recovery!Unused, Recovery!Empty} \cup Recovery!Receipt]
    BY <1>1, <1>2, <1>3 DEF RecoveryInv, RecoveryTypes
  <2> QED BY <2>1, <1>1, NoRunIsTyped DEF Recovery!Deliver, RecoveryInv, RecoveryTypes, Recovery!admission
<1>6. Issued' /\ OneReceipt' /\ FilesAgree'
  BY <1>3, <1>4 DEF Recovery!Deliver, RecoveryInv, Issued, OneReceipt, FilesAgree
<1>7. Offline' /\ AcceptedHolds' /\ Brought' /\ Counts'
  BY <1>1, NoRunIsTyped DEF Recovery!Deliver, RecoveryInv, Offline, AcceptedHolds, Brought, Counts, Recovery!admission
<1> QED BY <1>5, <1>6, <1>7 DEF RecoveryInv

LEMMA DieKeeps == ASSUME Recovery!RecoveryAssumption, RecoveryInv, Recovery!Die PROVE RecoveryInv'
<1>1. run' = Recovery!NoRun
  BY DEF Recovery!Die, Recovery!Refuse
<1>2. RecoveryTypes'
  BY <1>1, Spent, NoRunIsTyped DEF Recovery!Die, RecoveryInv, RecoveryTypes, Recovery!admission
<1>3. Issued' /\ OneReceipt' /\ FilesAgree' /\ Brought' /\ Counts'
  BY DEF Recovery!Die, RecoveryInv, Issued, OneReceipt, FilesAgree, Brought, Counts, Recovery!admission
<1>4. Offline' /\ AcceptedHolds'
  BY <1>1, NoRunIsTyped DEF Recovery!Die, RecoveryInv, Offline, AcceptedHolds
<1> QED BY <1>2, <1>3, <1>4 DEF RecoveryInv

LEMMA VerifyKeeps == ASSUME Recovery!RecoveryAssumption, RecoveryInv, NEW f \in Recovery!Files, Recovery!Verify(f)
  PROVE RecoveryInv'
<1>1. /\ ~online /\ run.pc = "none" /\ db.verified /\ Recovery!Fenced(db, files[f].id)
      /\ must' = FALSE /\ accepted' = f
  BY NoRunIsTyped DEF Recovery!Verify, Recovery!Writers, Recovery!Maintained
<1>2. files[f].codes = db.codes /\ db.left = {}
  <2>1. files[f].id = db.receipt.id /\ db.receipt.id # 0 /\ db.receipt.status = "verified" /\ db.receipt.codes = db.codes
    BY <1>1 DEF Recovery!Fenced, Recovery!Status
  <2> QED BY <1>1, <2>1 DEF RecoveryInv, FilesAgree, Recovery!Fenced
<1>3. RecoveryTypes'
  <2>1. f \in 0..MaxFiles /\ accepted' \in 0..MaxFiles
    BY <1>1, RecoveryBounds DEF Recovery!Files
  <2> QED BY <1>1, <2>1 DEF Recovery!Verify, RecoveryInv, RecoveryTypes, Recovery!admission
<1>4. Issued' /\ OneReceipt' /\ FilesAgree' /\ Counts'
  BY DEF Recovery!Verify, RecoveryInv, Issued, OneReceipt, FilesAgree, Counts, Recovery!admission
<1>5. Offline' /\ AcceptedHolds' /\ Brought'
  BY <1>1, <1>2 DEF Recovery!Verify, RecoveryInv, Offline, AcceptedHolds, Brought
<1> QED BY <1>3, <1>4, <1>5 DEF RecoveryInv

LEMMA WindowEndsKeeps == ASSUME Recovery!RecoveryAssumption, RecoveryInv, Recovery!WindowEnds PROVE RecoveryInv'
<1>1. /\ fails' \in [Recovery!Stages -> 0..MaxProofs] /\ guessed' \in [Recovery!Stages -> Nat]
      /\ rolled' \in [Recovery!Stages -> Nat] /\ Counts' /\ admitted' \in 0..MaxWork
  <2>1. CASE admitted' = 0 /\ UNCHANGED <<fails, guessed, rolled>>
    BY <2>1, AsItWas, RecoveryBounds
  <2>2. ASSUME NEW s \in Recovery!Stages, Recovery!Examined({}, {s}), UNCHANGED admitted
        PROVE  /\ fails' \in [Recovery!Stages -> 0..MaxProofs] /\ guessed' \in [Recovery!Stages -> Nat]
               /\ rolled' \in [Recovery!Stages -> Nat] /\ Counts' /\ admitted' \in 0..MaxWork
    <3>1. \A x \in {} : fails[x] # MaxProofs
      OBVIOUS
    <3>2. admitted' \in 0..MaxWork
      BY <2>2 DEF RecoveryInv, RecoveryTypes
    <3> QED BY <2>2, <3>1, <3>2, ExaminedCounts
  <2> QED BY <2>1, <2>2 DEF Recovery!WindowEnds
<1>2. RecoveryTypes'
  BY <1>1 DEF Recovery!WindowEnds, RecoveryInv, RecoveryTypes
<1>3. Issued' /\ OneReceipt' /\ FilesAgree'
  BY DEF Recovery!WindowEnds, RecoveryInv, Issued, OneReceipt, FilesAgree
<1>4. Offline' /\ AcceptedHolds' /\ Brought'
  BY DEF Recovery!WindowEnds, RecoveryInv, Offline, AcceptedHolds, Brought, Recovery!Fenced, Recovery!Status
<1> QED BY <1>1, <1>2, <1>3, <1>4 DEF RecoveryInv

LEMMA RecoveryNextKeeps == ASSUME Recovery!RecoveryAssumption, RecoveryInv, [Recovery!Next]_Recovery!vars PROVE RecoveryInv'
<1>1. CASE UNCHANGED Recovery!vars
  <2>1. RecoveryTypes' /\ Issued' /\ OneReceipt' /\ FilesAgree'
    BY <1>1 DEF Recovery!vars, Recovery!admission, RecoveryInv, RecoveryTypes, Issued, OneReceipt, FilesAgree
  <2>2. Offline' /\ AcceptedHolds' /\ Brought' /\ Counts'
    BY <1>1 DEF Recovery!vars, Recovery!admission, RecoveryInv, Offline, AcceptedHolds, Brought, Counts,
       Recovery!Fenced, Recovery!Status
  <2> QED BY <2>1, <2>2 DEF RecoveryInv
<1>2. ASSUME \/ Recovery!Begin("maintain", {})
             \/ \E right \in SUBSET {"password"} : Recovery!Begin("resume", right)
             \/ \E right \in SUBSET Recovery!Stages : Recovery!Begin("complete", right)
      PROVE  RecoveryInv'
  BY <1>2, BeginKeeps DEF Recovery!Stages
<1> QED BY <1>1, <1>2, ServeKeeps, ManageKeeps, ReplaceKeeps, CeremonyKeeps, OperatorKeeps, AdmitKeeps, MaintainKeeps, ContinueKeeps, DeliverKeeps,
           DieKeeps, VerifyKeeps, WindowEndsKeeps DEF Recovery!Next

\* Whatever is restored, fenced, completed, lost and verified in whichever order, what the files,
\* the rows and the restored work have to do with each other holds.
THEOREM RecoveryInvariantHolds == ASSUME Recovery!RecoveryAssumption PROVE Recovery!Spec => []RecoveryInv
<1>1. Recovery!Init => RecoveryInv
  BY RecoveryInitHolds
<1>2. RecoveryInv /\ [Recovery!Next]_Recovery!vars => RecoveryInv'
  BY RecoveryNextKeeps
<1> QED BY <1>1, <1>2, PTL DEF Recovery!Spec

\* A file that `verify` has accepted holds the recovery codes in force, and nothing that a backup
\* brought back is under way when the instance is open: the number of a receipt is never given out
\* twice, because it does not come from the restored rows.
THEOREM ReopenedIsSafe == ASSUME Recovery!RecoveryAssumption PROVE Recovery!Spec => [](Recovery!TypeOK /\ Recovery!ReopenedSafely)
<1>1. RecoveryInv => Recovery!TypeOK
  BY DEF RecoveryInv, RecoveryTypes, Recovery!TypeOK, CommandRow
<1>2. RecoveryInv => Recovery!ReopenedSafely
  BY DEF RecoveryInv, Recovery!ReopenedSafely, AcceptedHolds, Brought
<1> QED BY <1>1, <1>2, RecoveryInvariantHolds, PTL

\* In one window at most MaxProofs wrong passwords, and as many wrong codes, are examined, by the
\* instance and the command together; more than that only by the counts that a restored backup does
\* not have.
THEOREM EveryProofCounts == ASSUME Recovery!RecoveryAssumption PROVE Recovery!Spec => []Recovery!ProofsAreCounted
<1>1. RecoveryInv => Recovery!ProofsAreCounted
  BY RecoveryBounds DEF RecoveryInv, RecoveryTypes, Counts, Recovery!ProofsAreCounted
<1> QED BY <1>1, RecoveryInvariantHolds, PTL
==============================================================================
