---------------------------- MODULE OwnerAccess ----------------------------
(***************************************************************************)
(* The one owner of an instance: setup, enrolment of the second factor,      *)
(* sign-in, replacement of the authenticator, recovery from the console.     *)
(* Whatever issues or revokes a session is one transaction under an         *)
(* advisory lock ("M") and one action here; setup has the lock of           *)
(* instance_state, and the authorization of a request reads in two steps     *)
(* outside every lock.  Codes and passwords are right or wrong; recovery     *)
(* codes, throttling and cookies are left out.                              *)
(***************************************************************************)
EXTENDS Integers

CONSTANTS
  Webs,         \* web processes
  Setups,       \* submissions of the setup form
  Requests,     \* requests for the owner's mail
  MaxSecrets,   \* bound: setup secrets issued
  MaxFactors,   \* bound: factors enrolled
  MaxSessions,  \* bound: sessions issued
  MaxTokens,    \* bound: tokens of ceremonies issued
  MaxAttempts   \* the literal 5 of both ceremonies

ASSUME Bounds == {MaxSecrets, MaxFactors, MaxSessions, MaxTokens} \subseteq Nat /\ MaxAttempts \in Nat \ {0}

VARIABLES
  setup,        \* instance_state: the bootstrap secret, 0 without; its lease is active
  held,         \* per web process: the secret whose lease it renews
  told,         \* secrets that were printed
  submit,       \* createOwner(): what it does next, and the secret supplied
  password,     \* generation of the owner's password, 0 before there is an owner
  factor,       \* two_factor: its generation, 0 without; verified
  enabled,      \* user.twoFactorEnabled
  replacement,  \* mfa_replacement: factor, token, failed attempts, not expired; or NoRow
  recovery,     \* owner_recovery: the same, token 0 before sign-in; or NoRow
  sessions,     \* live sessions: id, and the password and factor that were proved for it
  challenges,   \* sign-ins that wait for the second factor: the password and factor asked
  request,      \* an authorization: what it does next, and the session it has read
  last          \* the newest secret, factor, session and token

NoRow == [factor |-> 0, token |-> 0, failed |-> 0, live |-> FALSE]
NoRead == [id |-> 0, password |-> 0, factor |-> 0]
bootstrap == <<setup, held, told, submit>>
rows == <<password, factor, enabled, replacement, recovery>>
vars == <<bootstrap, rows, sessions, challenges, request, last>>

Init ==
  /\ setup = [secret |-> 0, active |-> FALSE]
  /\ held = [w \in Webs |-> 0] /\ told = {}
  /\ submit = [s \in Setups |-> [pc |-> "form", secret |-> 0]]
  /\ password = 0 /\ factor = [id |-> 0, verified |-> FALSE] /\ enabled = FALSE
  /\ replacement = NoRow /\ recovery = NoRow
  /\ sessions = {} /\ challenges = {}
  /\ request = [r \in Requests |-> [pc |-> "none", session |-> NoRead]]
  /\ last = [secret |-> 0, factor |-> 0, session |-> 0, token |-> 0]

-----------------------------------------------------------------------------
(* Setup *)

\* The lease of the secret runs out when no web process renews it.
LeaseEnds ==
  /\ setup.active
  /\ setup' = [setup EXCEPT !.active = FALSE]
  /\ UNCHANGED <<held, told, submit, rows, sessions, challenges, request, last>>

\* maintainBootstrap(): the lease is ours, or another process has it, or it is over.
Renew(w) == setup.active /\ setup.secret = held[w] /\ UNCHANGED <<setup, held, last>>
Wait(w) == setup.active /\ setup.secret # held[w] /\ held' = [held EXCEPT ![w] = 0] /\ UNCHANGED <<setup, last>>
Replace(w) ==
  /\ ~setup.active /\ last.secret < MaxSecrets
  /\ last' = [last EXCEPT !.secret = @ + 1]
  /\ setup' = [secret |-> last'.secret, active |-> TRUE]
  /\ held' = [held EXCEPT ![w] = last'.secret]
MaintainBootstrap(w) ==
  /\ password = 0
  /\ Renew(w) \/ Wait(w) \/ Replace(w)
  /\ UNCHANGED <<told, submit, rows, sessions, challenges, request>>

\* The secret is printed in a transaction of its own, while it is still the one.
Announce(w) ==
  /\ held[w] # 0 /\ setup = [secret |-> held[w], active |-> TRUE] /\ password = 0
  /\ told' = told \cup {held[w]}
  /\ UNCHANGED <<setup, held, submit, rows, sessions, challenges, request, last>>

\* authorizeBootstrap(): of the setup form, and of the first enrolment.
SetupProof(secret) == password = 0 /\ setup = [secret |-> secret, active |-> TRUE]
EnrolProof(secret) == password # 0 /\ secret # 0 /\ setup.secret = secret

\* initializeOwner(): the first check, then createOwner() under the setup lock.
Submit(s) ==
  /\ submit[s].pc = "form"
  /\ \E secret \in told : /\ SetupProof(secret)
                          /\ submit' = [submit EXCEPT ![s] = [pc |-> "lock", secret |-> secret]]
  /\ UNCHANGED <<setup, held, told, rows, sessions, challenges, request, last>>

Hashing == \E s \in Setups : submit[s].pc = "hash"
LockSetup(s) ==
  /\ submit[s].pc = "lock"
  /\ submit' = [submit EXCEPT ![s].pc = IF ~Hashing /\ password = 0 THEN "hash" ELSE "end"]
  /\ UNCHANGED <<setup, held, told, rows, sessions, challenges, request, last>>

\* The second check, of the row that is locked now, after the password was hashed.
ProvableAtFirst(secret) == password = 0
Provable(secret) == SetupProof(secret)
CreateOwner(s) ==
  /\ submit[s].pc = "hash"
  /\ submit' = [submit EXCEPT ![s].pc = "end"]
  /\ IF Provable(submit[s].secret)
       THEN password' = 1 /\ setup' = [setup EXCEPT !.active = FALSE]
       ELSE UNCHANGED <<password, setup>>
  /\ UNCHANGED <<held, told, factor, enabled, replacement, recovery, sessions, challenges, request, last>>

-----------------------------------------------------------------------------
(* Readiness, and the reading of sessions *)

\* isInstanceReady()
Ready == /\ password # 0 /\ enabled /\ factor.id # 0 /\ factor.verified
         /\ replacement = NoRow /\ recovery = NoRow

\* getValidOwnerSession()
OwnerSession(s) == recovery = NoRow /\ s \in sessions

\* getValidBusinessSession() in a transaction that holds M
BusinessSession(s) == OwnerSession(s) /\ Ready

\* The first reads of a request: no recovery, and the session is there.
ReadSession(r) ==
  /\ request[r].pc = "none"
  /\ \E s \in sessions : /\ OwnerSession(s)
                         /\ request' = [request EXCEPT ![r] = [pc |-> "read", session |-> s]]
  /\ UNCHANGED <<bootstrap, rows, sessions, challenges, last>>

\* One statement, one snapshot: the instance is ready and the session exists.
StillThereAssumed(s) == TRUE
StillThere(s) == s \in sessions
Authorize(r) ==
  /\ request[r].pc = "read"
  /\ request' = [request EXCEPT ![r] =
       IF Ready /\ StillThere(request[r].session) THEN [@ EXCEPT !.pc = "allowed"]
                                                  ELSE [pc |-> "none", session |-> NoRead]]
  /\ UNCHANGED <<bootstrap, rows, sessions, challenges, last>>

Answer(r) ==
  /\ request[r].pc = "allowed"
  /\ request' = [request EXCEPT ![r] = [pc |-> "none", session |-> NoRead]]
  /\ UNCHANGED <<bootstrap, rows, sessions, challenges, last>>

\* logoutCurrentSession(), and the end of a session's lifetime
Logout(s) ==
  /\ s \in sessions /\ OwnerSession(s)
  /\ sessions' = sessions \ {s}
  /\ UNCHANGED <<bootstrap, rows, challenges, request, last>>

-----------------------------------------------------------------------------
(* Sign-in *)

\* The hook before a session is created: not in a ceremony, expired or not.
MayIssueOutsideRecovery == recovery = NoRow
MayIssue == replacement = NoRow /\ recovery = NoRow
Issue(proved) ==
  /\ MayIssue /\ last.session < MaxSessions
  /\ last' = [last EXCEPT !.session = @ + 1]
  /\ sessions' = sessions \cup {[id |-> last'.session, password |-> password, factor |-> proved]}

\* The right password: recoveryPasswordLogin(), or Better Auth, which asks for
\* the second factor of an owner who has one.
SignIn ==
  /\ password # 0
  /\ IF recovery # NoRow
       THEN /\ last.token < MaxTokens
            /\ last' = [last EXCEPT !.token = @ + 1]
            /\ recovery' = [recovery EXCEPT !.token = last'.token, !.failed = 0, !.live = TRUE]
            /\ UNCHANGED <<sessions, challenges>>
       ELSE /\ UNCHANGED recovery
            /\ IF enabled
                 THEN /\ challenges' = challenges \cup {[password |-> password, factor |-> factor.id]}
                      /\ UNCHANGED <<sessions, last>>
                 ELSE Issue(0) /\ UNCHANGED challenges
  /\ UNCHANGED <<bootstrap, password, factor, enabled, replacement, request>>

\* verifyMfaLogin() with a right code; the new session is authorized before the commit.
VerifyLogin(c) ==
  /\ c \in challenges /\ Ready
  /\ last.session < MaxSessions
  /\ last' = [last EXCEPT !.session = @ + 1]
  /\ sessions' = sessions \cup {[id |-> last'.session, password |-> c.password, factor |-> factor.id]}
  /\ challenges' = challenges \ {c}
  /\ UNCHANGED <<bootstrap, rows, request>>

\* Five wrong codes, or 600 seconds, end a challenge.
DropChallenge(c) ==
  /\ c \in challenges /\ challenges' = challenges \ {c}
  /\ UNCHANGED <<bootstrap, rows, sessions, request, last>>

-----------------------------------------------------------------------------
(* The first enrolment *)

\* pendingState()
Enrolling == replacement = NoRow /\ recovery = NoRow /\ ~enabled /\ ~factor.verified

\* startInitialMfa(): a pending factor is resumed.
StartInitialMfa(s, secret) ==
  /\ OwnerSession(s) /\ Enrolling /\ EnrolProof(secret)
  /\ factor.id = 0 /\ last.factor < MaxFactors
  /\ last' = [last EXCEPT !.factor = @ + 1]
  /\ factor' = [id |-> last'.factor, verified |-> FALSE]
  /\ UNCHANGED <<bootstrap, password, enabled, replacement, recovery, sessions, challenges, request>>

\* completeInitialMfa() with a right code: the session that verifyTOTP rotates
\* goes with all others, and the setup secret with them.
CompleteInitialMfa(s, secret) ==
  /\ OwnerSession(s) /\ Enrolling /\ EnrolProof(secret)
  /\ factor.id # 0
  /\ factor' = [factor EXCEPT !.verified = TRUE] /\ enabled' = TRUE
  /\ sessions' = {}
  /\ setup' = [secret |-> 0, active |-> FALSE]
  /\ UNCHANGED <<held, told, submit, password, replacement, recovery, challenges, request, last>>

-----------------------------------------------------------------------------
(* Replacement of the authenticator *)

\* startAuthenticatorReplacement() with right proofs: nothing that was proved
\* with the old factor survives, neither sessions nor challenges.
StartReplacement(s) ==
  /\ BusinessSession(s)
  /\ last.factor < MaxFactors /\ last.token < MaxTokens
  /\ last' = [last EXCEPT !.factor = @ + 1, !.token = @ + 1]
  /\ factor' = [id |-> last'.factor, verified |-> FALSE] /\ enabled' = FALSE
  /\ replacement' = [factor |-> last'.factor, token |-> last'.token, failed |-> 0, live |-> TRUE]
  /\ sessions' = {} /\ challenges' = {}
  /\ UNCHANGED <<bootstrap, password, recovery, request>>

\* pendingReplacement() with the token of a cookie
Replaceable(token) ==
  /\ recovery = NoRow
  /\ token # 0 /\ replacement.token = token /\ replacement.live /\ replacement.failed < MaxAttempts
  /\ ~enabled /\ factor = [id |-> replacement.factor, verified |-> FALSE] /\ sessions = {}

CompleteReplacement(token) ==
  /\ Replaceable(token)
  /\ factor' = [factor EXCEPT !.verified = TRUE] /\ enabled' = TRUE
  /\ replacement' = NoRow
  /\ UNCHANGED <<bootstrap, password, recovery, sessions, challenges, request, last>>

FailReplacement(token) ==
  /\ Replaceable(token)
  /\ replacement' = [replacement EXCEPT !.failed = @ + 1]
  /\ UNCHANGED <<bootstrap, password, factor, enabled, recovery, sessions, challenges, request, last>>

-----------------------------------------------------------------------------
(* Recovery from the console *)

\* inspectOwnerRecovery(): the rows are those of one of four situations.
\* Anything else it refuses, and there is no other way back in.
InRecovery ==
  /\ recovery # NoRow /\ replacement = NoRow
  /\ factor = [id |-> recovery.factor, verified |-> FALSE] /\ ~enabled
  /\ setup = [secret |-> 0, active |-> FALSE] /\ sessions = {}
InReplacement ==
  /\ replacement # NoRow /\ recovery = NoRow
  /\ factor = [id |-> replacement.factor, verified |-> FALSE] /\ ~enabled
  /\ setup.secret = 0 /\ sessions = {}
InUse == Ready /\ setup = [secret |-> 0, active |-> FALSE]
InEnrolment ==
  /\ replacement = NoRow /\ recovery = NoRow
  /\ ~enabled /\ ~factor.verified /\ setup.secret # 0 /\ ~setup.active
Accepted == InRecovery \/ InReplacement \/ InUse \/ InEnrolment

\* recoverOwner(), first or again
RecoverOwner ==
  /\ password # 0 /\ Accepted
  /\ last.factor < MaxFactors
  /\ last' = [last EXCEPT !.factor = @ + 1]
  /\ password' = password + 1
  /\ factor' = [id |-> last'.factor, verified |-> FALSE] /\ enabled' = FALSE
  /\ replacement' = NoRow
  /\ recovery' = [factor |-> last'.factor, token |-> 0, failed |-> 0, live |-> FALSE]
  /\ setup' = [secret |-> 0, active |-> FALSE]
  /\ sessions' = {} /\ challenges' = {}
  /\ UNCHANGED <<held, told, submit, request>>

\* authorizeRecovery() with the token of a cookie
Recoverable(token) ==
  InRecovery /\ token # 0 /\ recovery.token = token /\ recovery.live /\ recovery.failed < MaxAttempts

CompleteRecovery(token) ==
  /\ Recoverable(token)
  /\ factor' = [factor EXCEPT !.verified = TRUE] /\ enabled' = TRUE
  /\ recovery' = NoRow /\ sessions' = {} /\ challenges' = {}
  /\ UNCHANGED <<bootstrap, password, replacement, request, last>>

FailRecovery(token) ==
  /\ Recoverable(token)
  /\ recovery' = [recovery EXCEPT !.failed = @ + 1]
  /\ UNCHANGED <<bootstrap, password, factor, enabled, replacement, sessions, challenges, request, last>>

CancelRecovery(token) ==
  /\ Recoverable(token)
  /\ recovery' = [recovery EXCEPT !.token = 0, !.live = FALSE]
  /\ UNCHANGED <<bootstrap, password, factor, enabled, replacement, sessions, challenges, request, last>>

\* Ten minutes pass.
CeremonyExpires ==
  /\ \/ replacement.live /\ replacement' = [replacement EXCEPT !.live = FALSE] /\ UNCHANGED recovery
     \/ recovery.live /\ recovery' = [recovery EXCEPT !.live = FALSE] /\ UNCHANGED replacement
  /\ UNCHANGED <<bootstrap, password, factor, enabled, sessions, challenges, request, last>>

-----------------------------------------------------------------------------
Setting == \/ LeaseEnds
           \/ \E w \in Webs : MaintainBootstrap(w) \/ Announce(w)
           \/ \E s \in Setups : Submit(s) \/ LockSetup(s) \/ CreateOwner(s)
Reading == \/ \E r \in Requests : ReadSession(r) \/ Authorize(r) \/ Answer(r)
           \/ \E s \in sessions : Logout(s)
Signing == \/ SignIn
           \/ \E c \in challenges : VerifyLogin(c) \/ DropChallenge(c)
Enrolment == \E s \in sessions, secret \in told : StartInitialMfa(s, secret) \/ CompleteInitialMfa(s, secret)
Managing == \/ \E s \in sessions : StartReplacement(s)
            \/ \E t \in 1..last.token :
                 \/ CompleteReplacement(t) \/ FailReplacement(t)
                 \/ CompleteRecovery(t) \/ FailRecovery(t) \/ CancelRecovery(t)
            \/ RecoverOwner \/ CeremonyExpires

Next == Setting \/ Reading \/ Signing \/ Enrolment \/ Managing

Spec == Init /\ [][Next]_vars

-----------------------------------------------------------------------------
(* What access promises *)

SessionRow == [id : 1..MaxSessions, password : Nat, factor : 0..MaxFactors]
Ceremony == [factor : 0..MaxFactors, token : 0..MaxTokens, failed : 0..MaxAttempts, live : BOOLEAN]
SetupRow == [secret : 0..MaxSecrets, active : BOOLEAN]
FactorRow == [id : 0..MaxFactors, verified : BOOLEAN]
ChallengeRow == [password : Nat, factor : 0..MaxFactors]
SubmitRow == [pc : {"form", "lock", "hash", "end"}, secret : 0..MaxSecrets]
RequestRow == [pc : {"none", "read", "allowed"}, session : SessionRow \cup {NoRead}]
LastRow == [secret : 0..MaxSecrets, factor : 0..MaxFactors, session : 0..MaxSessions, token : 0..MaxTokens]

TypeOK ==
  /\ setup \in SetupRow
  /\ held \in [Webs -> 0..MaxSecrets] /\ told \subseteq 1..MaxSecrets
  /\ submit \in [Setups -> SubmitRow]
  /\ password \in Nat
  /\ factor \in FactorRow /\ enabled \in BOOLEAN
  /\ replacement \in Ceremony /\ recovery \in Ceremony
  /\ sessions \subseteq SessionRow
  /\ challenges \subseteq ChallengeRow
  /\ request \in [Requests -> RequestRow]
  /\ last \in LastRow

\* The owner can always be recovered: whatever is begun, abandoned or expires,
\* the rows never contradict each other so that the console refuses them.
NeverLockedOut == password # 0 => Accepted

\* A request is allowed only with a session for which the present password and
\* the present factor were proved, also when enrolment, replacement or recovery
\* ends between its reads.
FullyProved ==
  [][\A r \in Requests :
       request[r].pc = "read" /\ request'[r].pc = "allowed" =>
         /\ request[r].session.password = password
         /\ request[r].session.factor = factor.id /\ factor.verified]_vars

\* An owner is created with the secret that is the present one then, not with
\* one that was replaced while the password was hashed.
SecretStands ==
  [][password = 0 /\ password' # 0 =>
       \E s \in Setups : /\ submit[s].pc = "hash" /\ submit'[s].pc = "end"
                         /\ setup = [secret |-> submit[s].secret, active |-> TRUE]]_vars
=============================================================================
