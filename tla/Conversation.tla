---------------------------- MODULE Conversation ----------------------------
(***************************************************************************)
(* Conversations: maildock_reconcile_conversation, the trigger that joins a *)
(* message to the conversations that its Message-ID, In-Reply-To and       *)
(* References are evidence for.  Every placement that synchronization finds *)
(* gets a row of its own, so a message that is copied or moved is in the   *)
(* table twice, with one Message-ID; such an ID is evidence of nothing.    *)
(***************************************************************************)
EXTENDS Naturals, FiniteSets

CONSTANTS
  Mails,     \* mails on the servers of one account
  Headers,   \* the bracketed ids of a mail: own, a set of at most one, and refs
  MaxRows,   \* bound: rows; their uuids come in any order
  MaxLeaves  \* bound: mails that leave their mailbox

ConversationAssumption ==
  /\ {MaxRows, MaxLeaves} \subseteq Nat
  /\ \A m \in Mails : IsFiniteSet(Headers[m].refs) /\ Cardinality(Headers[m].own) <= 1

VARIABLES
  row,        \* messages: uuid -> the mail, and whether its placement is still there
  group,      \* conversation_members.conversation_id
  reference,  \* conversation_references: header id -> conversation
  merged      \* conversations.merged_into, 0 for null

vars == <<row, group, reference, merged>>

Ids == UNION {Headers[m].own \cup Headers[m].refs : m \in Mails}
Rows == 1..MaxRows
MessageRow == [mail : Mails, placed : BOOLEAN]

TypeOK ==
  /\ DOMAIN row \subseteq Rows /\ row \in [DOMAIN row -> MessageRow]
  /\ group \in [DOMAIN row -> DOMAIN row]
  /\ reference \in [Ids -> DOMAIN row \cup {0}]
  /\ merged \in [DOMAIN row -> DOMAIN row \cup {0}]

Init ==
  /\ row = [r \in {} |-> 0] /\ group = row /\ merged = row
  /\ reference = [t \in Ids |-> 0]

\* The tables as one value: the function works on them in one transaction that
\* holds the advisory lock of the account.
Tables == [row |-> row, group |-> group, reference |-> reference, merged |-> merged]

Own(s, r) == Headers[s.row[r].mail].own
Holders(s, t) == {r \in DOMAIN s.row : t \in Own(s, r)}
Unique(s, t) == Cardinality(Holders(s, t)) = 1
Collides(s, t) == Cardinality(Holders(s, t)) > 1

\* The ids that a row may be joined by.
ReferredAll(s, r) == Headers[s.row[r].mail].refs          \* mutant
Referred(s, r) == {t \in Headers[s.row[r].mail].refs : ~Collides(s, t)}
Answered(s, r) == {t \in Own(s, r) : Unique(s, t)}

Noted(s, ids) == {s.reference[t] : t \in ids} \ {0}

Groups(s, r, refs) ==
  {s.group[r]} \cup Noted(s, refs \cup Answered(s, r))
    \cup {s.group[x] : x \in {y \in DOMAIN s.row : \E t \in Own(s, y) \cap refs : Unique(s, t)}}

Least(S) == CHOOSE x \in S : \A y \in S : x <= y

RedirectLosers(s, joined, winner) ==                        \* mutant
  [c \in DOMAIN s.merged |-> IF c # winner /\ c \in joined THEN winner ELSE s.merged[c]]
Redirect(s, joined, winner) ==
  [c \in DOMAIN s.merged |-> IF c # winner /\ (c \in joined \/ s.merged[c] \in joined)
                             THEN winner ELSE s.merged[c]]

\* All that a row is evidence for becomes one conversation.
Join(s, r) ==
  LET refs == Referred(s, r)
      joined == Groups(s, r, refs)
      winner == Least(joined)
      Into(g) == IF g \in joined THEN winner ELSE g
  IN [s EXCEPT !.group = [x \in DOMAIN s.group |-> Into(s.group[x])],
               !.reference = [t \in Ids |-> IF t \in refs /\ s.reference[t] = 0
                                            THEN winner ELSE Into(s.reference[t])],
               !.merged = Redirect(s, joined, winner)]

\* A Message-ID that appears again takes back what it was evidence for: the
\* conversations it touches are taken apart and put together again, in the order
\* of the uuids.
Touched(s, r) ==
  {s.group[r]} \cup {s.group[x] : x \in UNION {Holders(s, t) : t \in Own(s, r)}} \cup Noted(s, Own(s, r))

Members(s, affected) == {x \in DOMAIN s.group : s.group[x] \in affected}

Apart(s, affected) ==
  [s EXCEPT
     !.group = [x \in DOMAIN s.group |-> IF x \in Members(s, affected) THEN x ELSE s.group[x]],
     !.reference = [t \in Ids |-> IF s.reference[t] \in affected THEN 0 ELSE s.reference[t]],
     !.merged = [x \in DOMAIN s.merged |-> IF x \in Members(s, affected) THEN 0 ELSE s.merged[x]]]

Together(s, members) ==
  LET after[n \in 0..MaxRows] ==
        IF n = 0 THEN s ELSE IF n \in members THEN Join(after[n - 1], n) ELSE after[n - 1]
  IN after[MaxRows]

Rebuild(s, r) ==
  LET affected == Touched(s, r) IN Together(Apart(s, affected), Members(s, affected))

Reconcile(s, r) ==
  IF \E t \in Own(s, r) : Collides(s, t) THEN Rebuild(s, r) ELSE Join(s, r)

Inserted(r, m) ==
  [row |-> [x \in DOMAIN row \cup {r} |-> IF x = r THEN [mail |-> m, placed |-> TRUE] ELSE row[x]],
   group |-> [x \in DOMAIN row \cup {r} |-> IF x = r THEN r ELSE group[x]],
   reference |-> reference,
   merged |-> [x \in DOMAIN row \cup {r} |-> IF x = r THEN 0 ELSE merged[x]]]

\* Synchronization finds a placement that it does not have: of a new mail, of a
\* copy, or of the mail that was moved.
Synchronize(m) == \E r \in Rows \ DOMAIN row :
  LET s == Reconcile(Inserted(r, m), r)
  IN row' = s.row /\ group' = s.group /\ reference' = s.reference /\ merged' = s.merged

\* The mail has left its mailbox: the placement goes, the row of the mail stays.
Leave(r) ==
  /\ row[r].placed /\ Cardinality({x \in DOMAIN row : ~row[x].placed}) < MaxLeaves
  /\ row' = [row EXCEPT ![r].placed = FALSE]
  /\ UNCHANGED <<group, reference, merged>>

Next == (\E m \in Mails : Synchronize(m)) \/ (\E r \in DOMAIN row : Leave(r))

Spec == Init /\ [][Next]_vars

-----------------------------------------------------------------------------
(* What it is meant to compute, and properties.                            *)

\* What a row is joined by, in its headers.
evidence ==
  [r \in DOMAIN row |->
    {t \in Own(Tables, r) \cup Headers[row[r].mail].refs : Cardinality(Holders(Tables, t)) <= 1}]

Near(e, S) == {y \in DOMAIN e : \E x \in S : x = y \/ e[x] \cap e[y] # {}}

Component(e, r) ==
  LET within[n \in 0..MaxRows] == IF n = 0 THEN {r} ELSE Near(e, within[n - 1]) IN within[MaxRows]

\* The conversations are the components of a graph, whatever the order in which
\* the rows came: two rows are neighbours if an id is in the headers of both that
\* is not the Message-ID of several rows.  Synchronization in another order, an
\* ancestor that comes last, and an id that collides late end in the same
\* conversations.
OrderIsForgotten ==
  \A r \in DOMAIN row : {x \in DOMAIN row : group[x] = group[r]} = Component(evidence, r)

\* The id that a client has of a conversation still opens the conversation of
\* the message it was made for, after merges and after it was taken apart.
RedirectsFollow ==
  \A r \in DOMAIN row : group[r] = IF merged[r] = 0 THEN r ELSE merged[r]

\* A mail and its answer that are in the mailboxes once each are shown in one
\* conversation, wherever they have been moved.
PlacementKeepsGroup ==
  \A x, y \in {r \in DOMAIN row : row[r].placed} :
    /\ Headers[row[x].mail].own \cap Headers[row[y].mail].refs # {}
    /\ \A z \in DOMAIN row : row[z].placed /\ Headers[row[z].mail].own = Headers[row[x].mail].own => z = x
    => group[x] = group[y]
=============================================================================
