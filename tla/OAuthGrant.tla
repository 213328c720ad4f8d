----------------------------- MODULE OAuthGrant -----------------------------
(***************************************************************************)
(* The grant (refresh token) of one OAuth account: accessToken() of several *)
(* processes that renew it, and the owner who connects the account again    *)
(* (begin, complete).  GoogleOAuthProvider does all of it under the lock of *)
(* the account's row; MicrosoftOAuthProvider checks and marks outside it.   *)
(*                                                                         *)
(* `valid` is the provider's side: the grants that it still honours.        *)
(***************************************************************************)
EXTENDS Integers

CONSTANTS
  Workers,    \* processes that need an access token
  Flows,      \* authorization states, one per click on "Reconnect"
  None,       \* no holder of the lock
  Issuers,    \* the providers looked at: "google", "microsoft"
  MaxGrants,  \* bound: grants issued
  MaxFaults   \* bound: revocations, failed requests, dead processes

Grants == 1..MaxGrants
NoGrant == 0

OAuthAssumption ==
  /\ None \notin Workers \cup Flows /\ Workers \cap Flows = {}
  /\ Issuers \subseteq {"google", "microsoft"} /\ MaxGrants \in Nat \ {0} /\ MaxFaults \in Nat

VARIABLES
  issuer,   \* oauthProviderId of the account
  account,  \* oauthStatus and the grant in oauthCache
  issued,   \* number of grants issued
  own,      \* grants of the account's mailbox, not of another that the owner chose
  valid,    \* grants that the provider honours
  lock,     \* holder of the row lock of the account
  work,     \* accessToken(): what it does next, the grant it sent, the one it got
  flow,     \* a reconnection: what happens next, the grant its code was exchanged for
  budget    \* what the bounds have left

provider == <<issuer, issued, own, valid>>
vars == <<account, provider, lock, work, flow, budget>>

Resting == [pc |-> "idle", sent |-> NoGrant, got |-> NoGrant]
Unbegun == [pc |-> "none", grant |-> NoGrant]
AccountRow == [status : {"connected", "reconnect_required"}, grant : Grants]
FlowRow == [pc : {"none", "begun", "code", "store", "checked", "done"}, grant : Grants \cup {NoGrant}]

TypeOK ==
  /\ issuer \in Issuers
  /\ account \in AccountRow
  /\ issued \in Grants /\ own \subseteq 1..issued /\ valid \subseteq 1..issued
  /\ lock \in Workers \cup Flows \cup {None}
  /\ work \in [Workers -> [pc : {"idle", "lock", "request", "commit", "refused", "mark"},
                           sent : Grants \cup {NoGrant}, got : Grants \cup {NoGrant}]]
  /\ flow \in [Flows -> FlowRow]
  /\ \A w \in Workers : lock = w => work[w].pc \in {"request", "commit", "refused"}

Init ==
  /\ issuer \in Issuers
  /\ account = [status |-> "connected", grant |-> 1]
  /\ issued = 1 /\ own = {1} /\ valid = {1}
  /\ lock = None
  /\ work = [w \in Workers |-> Resting]
  /\ flow = [f \in Flows |-> Unbegun]
  /\ budget = MaxFaults

Fault == budget > 0 /\ budget' = budget - 1

-----------------------------------------------------------------------------
(* accessToken *)

At(w, pc) == work[w].pc = pc

RowFreeAssumed == TRUE
RowFree == lock = None

\* The credentials of the application are read before the transaction.
Need(w) ==
  /\ At(w, "idle")
  /\ work' = [work EXCEPT ![w].pc = "lock"]
  /\ UNCHANGED <<account, provider, lock, flow, budget>>

\* SELECT ... FOR UPDATE; an account that is not connected is not tried.
LockRow(w) ==
  /\ At(w, "lock") /\ RowFree
  /\ lock' = w
  /\ work' = [work EXCEPT ![w] =
       IF account.status = "connected" THEN [pc |-> "request", sent |-> account.grant, got |-> NoGrant]
       ELSE [Resting EXCEPT !.pc = "refused"]]
  /\ UNCHANGED <<account, provider, flow, budget>>

\* A grant is issued, and `old` ones end with it.
Issue(old, mine) ==
  /\ issued < MaxGrants /\ issued' = issued + 1
  /\ valid' = (valid \ old) \cup {issued + 1}
  /\ own' = IF mine THEN own \cup {issued + 1} ELSE own
  /\ UNCHANGED issuer

\* The provider answers: the same grant, a new one that may end the old, a
\* refusal, or nothing usable.  Microsoft's cache may still hold an access token.
Request(w) ==
  /\ At(w, "request")
  /\ \/ /\ work[w].sent \in valid \/ issuer = "microsoft"
        /\ work' = [work EXCEPT ![w].pc = "commit", ![w].got = work[w].sent]
        /\ UNCHANGED <<provider, lock, budget>>
     \/ /\ work[w].sent \in valid
        /\ \E old \in {{}, {work[w].sent}} : Issue(old, work[w].sent \in own)
        /\ work' = [work EXCEPT ![w].pc = "commit", ![w].got = issued + 1]
        /\ UNCHANGED <<lock, budget>>
     \/ /\ work[w].sent \notin valid
        /\ work' = [work EXCEPT ![w].pc = "refused"]
        /\ UNCHANGED <<provider, lock, budget>>
     \/ /\ Fault
        /\ work' = [work EXCEPT ![w] = Resting] /\ lock' = None
        /\ UNCHANGED provider
  /\ UNCHANGED <<account, flow>>

\* A new grant is stored, and the transaction commits.
Commit(w) ==
  /\ At(w, "commit")
  /\ account' = [account EXCEPT !.grant = work[w].got]
  /\ lock' = None
  /\ work' = [work EXCEPT ![w] = Resting]
  /\ UNCHANGED <<provider, flow, budget>>

\* Google: the refusal is recorded under the lock that the request was made under.
GoogleRefused(w) ==
  /\ issuer = "google" /\ At(w, "refused")
  /\ account' = [account EXCEPT !.status = "reconnect_required"]
  /\ lock' = None
  /\ work' = [work EXCEPT ![w] = Resting]
  /\ UNCHANGED <<provider, flow, budget>>

\* Microsoft: the transaction is rolled back first, then the account is marked.
MicrosoftRefused(w) ==
  /\ issuer = "microsoft" /\ At(w, "refused")
  /\ lock' = None
  /\ work' = [work EXCEPT ![w].pc = "mark"]
  /\ UNCHANGED <<account, provider, flow, budget>>
MicrosoftMark(w) ==
  /\ At(w, "mark") /\ RowFree
  /\ account' = [account EXCEPT !.status = "reconnect_required"]
  /\ work' = [work EXCEPT ![w] = Resting]
  /\ UNCHANGED <<provider, lock, flow, budget>>

\* A process dies; its transaction is rolled back, and a new grant is lost with it.
Die(w) ==
  /\ ~At(w, "idle")
  /\ work' = [work EXCEPT ![w] = Resting]
  /\ lock' = IF lock = w THEN None ELSE lock
  /\ Fault
  /\ UNCHANGED <<account, provider, flow>>

-----------------------------------------------------------------------------
(* begin and complete *)

In(f, pc) == flow[f].pc = pc
Step(f, pc) == flow' = [flow EXCEPT ![f].pc = pc]

Begin(f) ==
  /\ In(f, "none")
  /\ Step(f, "begun")
  /\ UNCHANGED <<account, provider, lock, work, budget>>

\* complete(): the state is deleted with the answer of the query, so that each
\* state is used once; consent may be denied.
Callback(f) ==
  /\ In(f, "begun")
  /\ Step(f, "code") \/ Step(f, "done")
  /\ UNCHANGED <<account, provider, lock, work, budget>>

\* The code is exchanged: for a grant of the same mailbox, or of another one.
\* Google may send none when it has already granted offline access.
Exchange(f) ==
  /\ In(f, "code")
  /\ \/ /\ \E mine \in BOOLEAN : Issue({}, mine)
        /\ flow' = [flow EXCEPT ![f] = [pc |-> "store", grant |-> issued + 1]]
        /\ UNCHANGED budget
     \/ /\ issuer = "google"
        /\ Step(f, "store")
        /\ UNCHANGED <<provider, budget>>
     \/ Fault /\ Step(f, "done") /\ UNCHANGED provider
  /\ UNCHANGED <<account, lock, work>>

Connected(grant) == [status |-> "connected", grant |-> grant]
MineAssumed(grant) == TRUE
Mine(grant) == grant \in own

\* A grant that is kept is tried, and may be renewed with that; the code of
\* another mailbox and a refusal change nothing.
KeepGrant ==
  \/ account.grant \in valid /\ account' = Connected(account.grant) /\ UNCHANGED provider
  \/ /\ account.grant \in valid
     /\ \E old \in {{}, {account.grant}} : Issue(old, account.grant \in own)
     /\ account' = Connected(issued + 1)
  \/ UNCHANGED <<account, provider>>

\* Google: all of it under the lock of the row.
GoogleStore(f) ==
  /\ issuer = "google" /\ In(f, "store") /\ RowFree
  /\ IF flow[f].grant = NoGrant THEN KeepGrant
     ELSE /\ account' = IF Mine(flow[f].grant) THEN Connected(flow[f].grant) ELSE account
          /\ UNCHANGED provider
  /\ Step(f, "done")
  /\ UNCHANGED <<lock, work, budget>>

\* Microsoft: the mailbox is compared without the lock, then the row is updated.
MicrosoftCheck(f) ==
  /\ issuer = "microsoft" /\ In(f, "store")
  /\ Step(f, IF Mine(flow[f].grant) THEN "checked" ELSE "done")
  /\ UNCHANGED <<account, provider, lock, work, budget>>
MicrosoftStore(f) ==
  /\ In(f, "checked") /\ RowFree
  /\ account' = Connected(flow[f].grant)
  /\ Step(f, "done")
  /\ UNCHANGED <<provider, lock, work, budget>>

\* The owner or the provider revokes a grant.
Revoke ==
  /\ \E g \in valid : valid' = valid \ {g}
  /\ Fault
  /\ UNCHANGED <<issuer, account, issued, own, lock, work, flow>>

Renew(w) == \/ LockRow(w) \/ Request(w) \/ Commit(w) \/ GoogleRefused(w)
            \/ MicrosoftRefused(w) \/ MicrosoftMark(w)
Reconnect(f) == \/ Begin(f) \/ Callback(f) \/ Exchange(f) \/ GoogleStore(f)
                \/ MicrosoftCheck(f) \/ MicrosoftStore(f)
Next ==
  \/ \E w \in Workers : Need(w) \/ Renew(w) \/ Die(w)
  \/ \E f \in Flows : Reconnect(f)
  \/ Revoke

Spec == Init /\ [][Next]_vars

-----------------------------------------------------------------------------
(* What a grant promises *)

\* "A stale failure cannot revoke a newly replaced grant": a connected account
\* is marked for reconnection only while the provider refuses the very grant
\* that it has, whatever renewals and reconnections are under way.
Stands == account.status = "connected" /\ account'.status # "connected" => account.grant \notin valid
GrantStands == [][issuer = "google" => Stands]_vars

\* The same of Microsoft accounts, whose refusals are recorded after the lock.
MicrosoftGrantStands == [][issuer = "microsoft" => Stands]_vars

\* Renewals and reconnections together never give the account a grant of
\* another mailbox.
OwnMailbox == account.grant \in own
=============================================================================
