-------------------------- MODULE SignatureInsertion --------------------------
(***************************************************************************)
(* The signature of a message being composed (rich-composer.tsx, From in     *)
(* mail-composer.tsx).  For every sender the composer loads the catalog of    *)
(* signatures and then puts the sender's default into the document, replaces   *)
(* the one put there before if it is untouched, or removes it; both are        *)
(* asynchronous, and until they are done the message is neither saved nor      *)
(* sent.  The user edits, undoes, and inserts signatures by hand meanwhile,    *)
(* and changes the settings in another tab.                                    *)
(***************************************************************************)
EXTENDS Integers, FiniteSets

CONSTANTS
  Accounts,    \* accounts one can send from
  Signatures,  \* signatures in the settings
  None,        \* no signature, no account
  MaxEdits,    \* bound: edits of the signature in the document
  MaxUndos,    \* bound: uses of Undo and Redo
  MaxFaults,   \* bound: requests that fail
  MaxSettings, \* bound: changes of the settings
  MaxStrays    \* bound: choices from a list left open, and changes of From after one

VARIABLES
  alive,       \* the signatures that exist
  defaults,    \* of each account: its default for this kind of message
  from,        \* the account in the From field
  initialize,  \* the message is new: an automatic signature is wanted
  ready,       \* signatureReady of the composer
  busy,
  failed,      \* loadError is not empty
  loading,     \* the catalog of `from` is being loaded
  catalog,     \* the catalog, and the account it was loaded for
  previous,    \* the account the document was last filled for
  emptied,     \* managedEmpty
  node,        \* the automatic signature in the document
  past,        \* the one Undo brings back
  fill,        \* the filling under way
  late,        \* cancelled fillings that still write `previous`
  menu,        \* the list of signatures is open
  insert,      \* the account a signature is inserted for by hand
  removed,     \* history: the user took the automatic signature out
  undone,      \* history: Undo was used
  strayed,     \* history: one was chosen from the list before the catalog was there
  budget       \* what the bounds have left

settings == <<alive, defaults>>
document == <<node, past, removed, undone>>
gate == <<ready, busy, failed>>
filled == <<previous, emptied, fill, late>>
vars == <<settings, from, initialize, gate, loading, catalog, filled, document, menu, insert, strayed, budget>>

\* The automatic node: which signature it came from, and how often the user has
\* changed it since (the fingerprint it carries is that of its first content).
SignatureNode == [signature: Signatures, edits: 0..MaxEdits + 1]
Fresh(id) == [signature |-> id, edits |-> 0]
Untouched(n) == n # None /\ n.edits = 0
Edited(n) == n # None /\ n.edits > 0

Catalog == [account: Accounts, signatures: SUBSET Signatures, default: Signatures \cup {None}]

\* A filling: what it was started for, the node it saw, and what follows from it.
Filling == [account: Accounts, seen: SignatureNode \cup {None}, id: Signatures \cup {None},
            plan: {"same", "keep", "place"}]

InsertionAssumption ==
  /\ None \notin Accounts \cup Signatures \cup SignatureNode \cup Catalog \cup Filling
  /\ {MaxEdits, MaxUndos, MaxFaults, MaxSettings, MaxStrays} \subseteq Nat

\* A new message is given a signature; a reopened draft keeps the one it has.
Init ==
  /\ alive = Signatures /\ defaults \in [Accounts -> Signatures \cup {None}]
  /\ from \in Accounts /\ initialize \in BOOLEAN
  /\ ready = FALSE /\ busy = FALSE /\ failed = FALSE /\ loading = TRUE /\ catalog = None
  /\ previous = None /\ emptied = FALSE /\ fill = None /\ late = {}
  /\ node \in {None} \cup (IF initialize THEN {} ELSE [signature: Signatures, edits: {0, 1}])
  /\ past = node /\ removed = FALSE /\ undone = FALSE
  /\ menu = FALSE /\ insert = None /\ strayed = FALSE
  /\ budget = [edits |-> MaxEdits, undos |-> MaxUndos, faults |-> MaxFaults,
                settings |-> MaxSettings, strays |-> MaxStrays]

Spend(what) == budget[what] > 0 /\ budget' = [budget EXCEPT ![what] = @ - 1]

-----------------------------------------------------------------------------
(* The settings, in another tab *)

SetDefault(a, id) ==
  /\ Spend("settings")
  /\ id \in alive \cup {None} /\ defaults' = [defaults EXCEPT ![a] = id]
  /\ UNCHANGED <<alive, from, initialize, gate, loading, catalog, filled, document, menu, insert, strayed>>

\* The foreign key clears the defaults that named it.
Delete(id) ==
  /\ Spend("settings")
  /\ id \in alive /\ alive' = alive \ {id}
  /\ defaults' = [a \in Accounts |-> IF defaults[a] = id THEN None ELSE defaults[a]]
  /\ UNCHANGED <<from, initialize, gate, loading, catalog, filled, document, menu, insert, strayed>>

-----------------------------------------------------------------------------
(* Loading the catalog, and filling the document *)

\* The cleanup of the effect: a cancelled filling writes nothing, except the
\* one that keeps the document, which does not look whether it was cancelled.
Dropped == late \cup (IF fill # None /\ fill.plan = "keep" THEN {fill.account} ELSE {})

\* The effect of the catalog, up to its first await.
Plan(account, id) ==
  LET first == previous = None
      canInsert == IF first THEN initialize ELSE emptied
  IN [account |-> account, seen |-> node, id |-> id,
      plan |-> IF previous = account THEN "same"
               ELSE IF (first /\ ~initialize) \/ (~Untouched(node) /\ ~canInsert) THEN "keep"
               ELSE "place"]

\* The catalog comes: defaults and definitions are read in one moment here.
Load ==
  /\ loading /\ loading' = FALSE
  /\ \/ /\ catalog' = [account |-> from, signatures |-> alive, default |-> defaults[from]]
        /\ busy' = TRUE /\ failed' = FALSE /\ ready' = FALSE
        /\ late' = Dropped /\ fill' = Plan(from, defaults[from])
        /\ UNCHANGED budget
     \/ /\ Spend("faults")
        /\ failed' = TRUE /\ busy' = FALSE
        /\ UNCHANGED <<catalog, ready, late, fill>>
  /\ UNCHANGED <<settings, from, initialize, previous, emptied, document, menu, insert, strayed>>

Retry ==
  /\ failed /\ ~busy
  /\ failed' = FALSE /\ busy' = TRUE /\ ready' = FALSE /\ loading' = TRUE
  /\ UNCHANGED <<settings, from, initialize, catalog, filled, document, menu, insert, strayed, budget>>

Trusted(f) == TRUE
\* The document is the one the filling saw: the exact content is compared again.
Rechecked(f) == node = f.seen

\* A filling that only notes the account.
Note ==
  /\ fill # None /\ fill.plan # "place" /\ fill' = None
  /\ previous' = fill.account
  /\ ready' = TRUE /\ busy' = FALSE
  /\ UNCHANGED <<settings, from, initialize, failed, loading, catalog, emptied, late, document, menu, insert,
                 strayed, budget>>

Late ==
  /\ \E a \in late : previous' = a /\ late' = late \ {a}
  /\ UNCHANGED <<settings, from, initialize, gate, loading, catalog, emptied, fill, document, menu, insert,
                 strayed, budget>>

\* The snapshot has come, and the discrete update of the editor is done.
Place ==
  /\ fill # None /\ fill.plan = "place" /\ fill' = None
  /\ fill.id = None \/ fill.id \in alive
  /\ IF Rechecked(fill)
     THEN /\ node' = (IF fill.id = None THEN None ELSE Fresh(fill.id))
          /\ past' = (IF node' = node THEN past ELSE node)
          /\ emptied' = (fill.id = None)
     ELSE UNCHANGED <<node, past, emptied>>
  /\ previous' = fill.account
  /\ ready' = TRUE /\ busy' = FALSE
  /\ UNCHANGED <<settings, from, initialize, failed, loading, catalog, late, removed, undone, menu, insert,
                 strayed, budget>>

Swallowed == UNCHANGED failed
\* The catch of the filling.
Refused == failed' = TRUE

\* The snapshot is refused because the signature is gone, or the request fails.
PlaceFails ==
  /\ fill # None /\ fill.plan = "place" /\ fill' = None
  /\ fill.id # None
  /\ \/ fill.id \notin alive /\ UNCHANGED budget
     \/ fill.id \in alive /\ Spend("faults")
  /\ Refused
  /\ ready' = FALSE /\ busy' = FALSE
  /\ UNCHANGED <<settings, from, initialize, loading, catalog, previous, emptied, late, document, menu, insert,
                 strayed>>

-----------------------------------------------------------------------------
(* The user *)

Always == TRUE
\* The From field is disabled while the signature is not ready.
Selectable == ready
\* The From field, which is disabled until the signature is ready; a catalog that
\* already is the one of the new account starts a filling at once.
SelectFrom(a) ==
  /\ Selectable /\ a # from /\ from' = a
  /\ IF strayed THEN Spend("strays") ELSE UNCHANGED budget
  /\ ready' = FALSE /\ loading' = TRUE /\ late' = Dropped
  /\ fill' = (IF catalog # None /\ catalog.account = a THEN Plan(a, catalog.default) ELSE None)
  /\ UNCHANGED <<settings, initialize, busy, failed, catalog, previous, emptied, document, menu, insert, strayed>>

Change(n) == node' = n /\ past' = node

Edit ==
  /\ Spend("edits")
  /\ node # None /\ Change([node EXCEPT !.edits = @ + 1])
  /\ UNCHANGED <<settings, from, initialize, gate, loading, catalog, filled, removed, undone, menu, insert,
                 strayed>>

TakeOut ==
  /\ node # None /\ Change(None) /\ removed' = TRUE
  /\ UNCHANGED <<settings, from, initialize, gate, loading, catalog, filled, undone, menu, insert, strayed, budget>>

\* Undo, and Redo after it: the document as it was before its last change.
Undo ==
  /\ Spend("undos")
  /\ past # node /\ Change(past)
  /\ removed' = (past = None) /\ undone' = TRUE
  /\ UNCHANGED <<settings, from, initialize, gate, loading, catalog, filled, menu, insert, strayed>>

\* A signature is inserted by hand, as ordinary content.
StartInsert ==
  /\ insert' = from
  /\ busy' = TRUE /\ ready' = FALSE /\ menu' = FALSE
  /\ UNCHANGED <<settings, from, initialize, failed, loading, catalog, filled, document>>

\* The button: with one signature it is inserted, else the list opens or closes.
Button ==
  /\ ~busy /\ ~failed /\ catalog # None /\ catalog.account = from
  /\ IF Cardinality(catalog.signatures) = 1
     THEN insert = None /\ StartInsert /\ UNCHANGED <<strayed, budget>>
     ELSE /\ menu' = ~menu
          /\ UNCHANGED <<settings, from, initialize, gate, loading, catalog, filled, document, insert, strayed,
                         budget>>

\* An entry of the list, which stays open when the From field is changed.
Choose ==
  /\ menu /\ ~busy /\ catalog.signatures # {}
  /\ insert = None /\ StartInsert
  /\ LET stray == failed \/ catalog.account # from
     IN strayed' = (strayed \/ stray) /\ IF stray THEN Spend("strays") ELSE UNCHANGED budget

\* The answer: the content goes to the caret, if the sender is still the same; the
\* caret may be in the automatic signature.
Inserted ==
  /\ insert # None /\ insert' = None
  /\ busy' = FALSE /\ ready' = TRUE
  /\ \/ UNCHANGED <<node, past, budget>>
     \/ /\ insert = from /\ node # None
        /\ Spend("edits") /\ Change([node EXCEPT !.edits = @ + 1])
  /\ UNCHANGED <<settings, from, initialize, failed, loading, catalog, filled, removed, undone, menu, strayed>>

-----------------------------------------------------------------------------
Next ==
  \/ \E a \in Accounts, id \in Signatures \cup {None} : SetDefault(a, id)
  \/ \E id \in Signatures : Delete(id)
  \/ Load \/ Retry \/ Note \/ Late \/ Place \/ PlaceFails
  \/ \E a \in Accounts : SelectFrom(a)
  \/ Edit \/ TakeOut \/ Undo \/ Button \/ Choose \/ Inserted

Spec == Init /\ [][Next]_vars

-----------------------------------------------------------------------------
(* Properties *)

TypeOK ==
  /\ alive \subseteq Signatures /\ defaults \in [Accounts -> Signatures \cup {None}]
  /\ from \in Accounts /\ catalog \in Catalog \cup {None}
  /\ {initialize, ready, busy, failed, loading, emptied, menu, removed, undone, strayed} \subseteq BOOLEAN
  /\ previous \in Accounts \cup {None} /\ late \subseteq Accounts
  /\ {node, past} \subseteq SignatureNode \cup {None} /\ fill \in Filling \cup {None}
  /\ insert \in Accounts \cup {None}

\* rich-composer.tsx:316: "Recheck exact content after asynchronous work. User edits
\* always win."  A filling neither changes a signature the user has edited nor puts
\* one back that the user has taken out.
Automatic == (Note \/ Late \/ Place \/ PlaceFails) /\ node' # node
UserEditsAlwaysWin == [][Automatic => ~Edited(node) /\ ~removed]_vars

\* The same of a composer in which Undo has not been used: after Undo the signature
\* of another account may be back although the composer remembers that it took it out.
EditsWin == [][Automatic /\ ~undone => ~Edited(node) /\ ~removed]_vars

\* The message can be saved and sent only when its signature is settled: no catalog
\* and no filling is under way or has failed for the account in the From field.
Settled == previous = from /\ ~loading /\ ~failed /\ fill = None
ReadyMeansSettled == ready => Settled

\* The same unless a signature was chosen from a list that had stayed open.  And then
\* a new message carries the signature the catalog names for its account, as long as
\* the user has not touched it.
ReadyIsSettled ==
  ready /\ ~strayed =>
    /\ Settled
    /\ initialize /\ ~Edited(node) /\ ~removed /\ ~undone =>
         node = (IF catalog.default = None THEN None ELSE Fresh(catalog.default))

\* A composer that is not ready waits for an answer that will make it ready, or offers
\* to try again: no order of failures and cancellations leaves it locked.
NeverStuck == ready \/ loading \/ fill # None \/ insert # None \/ (failed /\ ~busy)
=============================================================================
