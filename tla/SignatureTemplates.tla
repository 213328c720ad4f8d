-------------------------- MODULE SignatureTemplates --------------------------
(***************************************************************************)
(* The signatures in the settings (signature-service.ts,                     *)
(* signature-settings.tsx): a definition is a document with a revision and     *)
(* its own inline images, which are uploaded before it is saved.  Several      *)
(* tabs edit, save and delete; a composer takes a snapshot of a definition,    *)
(* its document and then its images, under a share lock on the row.            *)
(***************************************************************************)
EXTENDS Integers

CONSTANTS
  Tabs,       \* windows with the settings open
  Ids,        \* ids of signatures, new ones are random
  Files,      \* uploaded images
  None,
  MaxTexts,   \* bound: versions of the documents, and revisions
  MaxFaults   \* bound: answers lost, uploads expired

VARIABLES
  row,        \* of each id: the row of signatures, None if there is none
  resources,  \* of each id: its rows of signatureResources
  upload,     \* of each file: its stagedAttachments row
  default,    \* the default of an account
  edit,       \* of each tab: the definition it edits
  saving,     \* of each tab: its save has passed the checks before the transaction
  deleting,   \* of each tab: the id and revision it is about to delete
  snapshot,   \* the snapshot under way: its lock and the document it has read
  texts,      \* versions used
  born,       \* history: ids that were saved once
  reborn,     \* history: an id was saved again after it was deleted
  broken,     \* history: a snapshot lacked an image of its document
  faults      \* faults used

store == <<row, resources, upload, default>>
vars == <<store, edit, saving, deleting, snapshot, texts, born, reborn, broken, faults>>

Signature == [revision: 1..MaxTexts, text: 1..MaxTexts, images: SUBSET Files]
\* revision 0: a new one; base: the text that was read, 0 for a new one.
Editing == [id: Ids, revision: 0..MaxTexts, base: 0..MaxTexts, text: 0..MaxTexts, images: SUBSET Files]
Upload == [id: Ids, status: {"ready", "expired", "consumed"}]
Deletion == [id: Ids, revision: 1..MaxTexts]
Snapshot == [id: Ids, images: SUBSET Files]

TemplatesAssumption ==
  /\ {MaxTexts, MaxFaults} \subseteq Nat
  /\ None \notin Ids \cup Signature \cup Editing \cup Upload \cup Deletion \cup Snapshot

Init ==
  /\ row = [i \in Ids |-> None] /\ resources = [i \in Ids |-> {}]
  /\ upload = [f \in Files |-> None] /\ default = None
  /\ edit = [t \in Tabs |-> None] /\ saving = [t \in Tabs |-> FALSE]
  /\ deleting = [t \in Tabs |-> None] /\ snapshot = None
  /\ texts = 0 /\ born = {} /\ reborn = FALSE /\ broken = FALSE /\ faults = 0

Fault == faults < MaxFaults /\ faults' = faults + 1

\* Neither a save nor a deletion is pending in the tab.
Free(t) == ~saving[t] /\ deleting[t] = None

-----------------------------------------------------------------------------
(* Editing *)

Add(t, i) ==
  /\ Free(t) /\ edit[t] = None
  /\ i \notin born /\ \A u \in Tabs : edit[u] # None => edit[u].id # i
  /\ edit' = [edit EXCEPT ![t] = [id |-> i, revision |-> 0, base |-> 0, text |-> 0, images |-> {}]]
  /\ UNCHANGED <<store, saving, deleting, snapshot, texts, born, reborn, broken, faults>>

Open(t, i) ==
  /\ Free(t) /\ edit[t] = None /\ row[i] # None
  /\ edit' = [edit EXCEPT ![t] = [id |-> i, revision |-> row[i].revision, base |-> row[i].text,
                                  text |-> row[i].text, images |-> row[i].images]]
  /\ UNCHANGED <<store, saving, deleting, snapshot, texts, born, reborn, broken, faults>>

\* The document is changed: its text, or the images it shows.
Type(t) ==
  /\ Free(t) /\ edit[t] # None
  /\ texts < MaxTexts /\ texts' = texts + 1
  /\ \E kept \in SUBSET edit[t].images :
       edit' = [edit EXCEPT ![t].text = texts + 1, ![t].images = kept]
  /\ UNCHANGED <<store, saving, deleting, snapshot, born, reborn, broken, faults>>

UploadImage(t, f) ==
  /\ Free(t) /\ edit[t] # None /\ upload[f] = None
  /\ upload' = [upload EXCEPT ![f] = [id |-> edit[t].id, status |-> "ready"]]
  /\ edit' = [edit EXCEPT ![t].images = @ \cup {f}]
  /\ UNCHANGED <<row, resources, default, saving, deleting, snapshot, texts, born, reborn, broken, faults>>

Expire(f) ==
  /\ Fault
  /\ upload[f] # None /\ upload[f].status = "ready"
  /\ upload' = [upload EXCEPT ![f].status = "expired"]
  /\ UNCHANGED <<row, resources, default, edit, saving, deleting, snapshot, texts, born, reborn, broken>>

Cancel(t) ==
  /\ Free(t) /\ edit[t] # None /\ edit' = [edit EXCEPT ![t] = None]
  /\ UNCHANGED <<store, saving, deleting, snapshot, texts, born, reborn, broken, faults>>

-----------------------------------------------------------------------------
(* Saving and deleting *)

Pending(i, f) == upload[f] # None /\ upload[f] = [id |-> i, status |-> "ready"]

\* composeResource, for every image, before the transaction; a refusal leaves the editor open.
Save(t) ==
  /\ Free(t) /\ edit[t] # None /\ edit[t].text # 0 /\ edit[t].revision < MaxTexts
  /\ \A f \in edit[t].images : f \in resources[edit[t].id] \/ Pending(edit[t].id, f)
  /\ saving' = [saving EXCEPT ![t] = TRUE]
  /\ UNCHANGED <<store, edit, deleting, snapshot, texts, born, reborn, broken, faults>>

\* The revision the editor expects is that of the row.
AnyRevision(e) == row[e.id] = None <=> e.revision = 0
Expected(e) == IF row[e.id] = None THEN e.revision = 0 ELSE row[e.id].revision = e.revision

\* The images of the document that become the signature's: its own stay its own.
NewlyClaimed(e) == {f \in e.images : f \notin resources[e.id]}
Claimed(e) == e.images

Unlocked(i) == TRUE
\* The row can be locked for update: no snapshot holds its share lock.
Lockable(i) == snapshot # None => snapshot.id # i

\* The transaction of a save, which the row lock, or for a new row its unique id, makes one step.
Commit(t) ==
  /\ saving[t] /\ saving' = [saving EXCEPT ![t] = FALSE]
  /\ LET e == edit[t]  new == e.images \ resources[e.id]
     IN /\ Lockable(e.id)
        /\ IF Expected(e) /\ \A f \in new : Pending(e.id, f)
           THEN /\ row' = [row EXCEPT ![e.id] =
                             [revision |-> e.revision + 1, text |-> e.text, images |-> e.images]]
                /\ resources' = [resources EXCEPT ![e.id] = Claimed(e)]
                /\ upload' = [f \in Files |-> IF f \in new THEN [upload[f] EXCEPT !.status = "consumed"]
                                              ELSE upload[f]]
                /\ born' = born \cup {e.id}
                /\ reborn' = (reborn \/ (row[e.id] = None /\ e.id \in born))
                /\ \/ edit' = [edit EXCEPT ![t] = None] /\ UNCHANGED faults
                   \/ Fault /\ UNCHANGED edit
           ELSE UNCHANGED <<row, resources, upload, born, reborn, edit, faults>>
  /\ UNCHANGED <<default, deleting, snapshot, texts, broken>>

\* Delete reads the revision first and deletes that one.
AskDelete(t, i) ==
  /\ Free(t) /\ edit[t] = None /\ row[i] # None
  /\ deleting' = [deleting EXCEPT ![t] = [id |-> i, revision |-> row[i].revision]]
  /\ UNCHANGED <<store, edit, saving, snapshot, texts, born, reborn, broken, faults>>

\* The rows of its images and the defaults that name it go with it.
Delete(t) ==
  /\ deleting[t] # None /\ deleting' = [deleting EXCEPT ![t] = None]
  /\ LET i == deleting[t].id
     IN /\ Lockable(i)
        /\ IF row[i] # None /\ row[i].revision = deleting[t].revision
           THEN /\ row' = [row EXCEPT ![i] = None] /\ resources' = [resources EXCEPT ![i] = {}]
                /\ default' = IF default = i THEN None ELSE default
           ELSE UNCHANGED <<row, resources, default>>
  /\ UNCHANGED <<upload, edit, saving, snapshot, texts, born, reborn, broken, faults>>

SetDefault(i) ==
  /\ i # None => row[i] # None
  /\ default # i /\ default' = i
  /\ UNCHANGED <<row, resources, upload, edit, saving, deleting, snapshot, texts, born, reborn, broken, faults>>

-----------------------------------------------------------------------------
(* A composer inserts the signature *)

ReadDocument(i) ==
  /\ snapshot = None /\ row[i] # None
  /\ snapshot' = [id |-> i, images |-> row[i].images]
  /\ UNCHANGED <<store, edit, saving, deleting, texts, born, reborn, broken, faults>>

\* Every image of the document gets an upload of its own for the draft.
ReadImages ==
  /\ snapshot # None /\ snapshot' = None
  /\ broken' = (broken \/ ~(snapshot.images \subseteq resources[snapshot.id]))
  /\ UNCHANGED <<store, edit, saving, deleting, texts, born, reborn, faults>>

-----------------------------------------------------------------------------
Next ==
  \/ \E t \in Tabs, i \in Ids : Add(t, i) \/ Open(t, i) \/ AskDelete(t, i)
  \/ \E t \in Tabs, f \in Files : UploadImage(t, f)
  \/ \E t \in Tabs : Type(t) \/ Cancel(t) \/ Save(t) \/ Commit(t) \/ Delete(t)
  \/ \E f \in Files : Expire(f)
  \/ \E i \in Ids \cup {None} : SetDefault(i)
  \/ \E i \in Ids : ReadDocument(i)
  \/ ReadImages

Spec == Init /\ [][Next]_vars

-----------------------------------------------------------------------------
(* Properties *)

TypeOK ==
  /\ row \in [Ids -> Signature \cup {None}] /\ resources \in [Ids -> SUBSET Files]
  /\ upload \in [Files -> Upload \cup {None}] /\ default \in Ids \cup {None}
  /\ edit \in [Tabs -> Editing \cup {None}] /\ saving \in [Tabs -> BOOLEAN]
  /\ deleting \in [Tabs -> Deletion \cup {None}]
  /\ snapshot \in Snapshot \cup {None}
  /\ texts \in 0..MaxTexts /\ born \subseteq Ids /\ faults \in 0..MaxFaults
  /\ {reborn, broken} \subseteq BOOLEAN

\* Whenever a composer takes a signature, it gets every image of the document it gets,
\* however saves and deletions fall between its reads; and no image is a signature's
\* and still an upload that expires, or of two signatures.
ImagesComplete ==
  /\ ~broken
  /\ \A i \in Ids : row[i] # None => resources[i] = row[i].images
  /\ \A i \in Ids : \A f \in resources[i] : upload[f] = [id |-> i, status |-> "consumed"]

\* signature-service.ts:42: "This signature changed in another tab or was deleted."  A
\* save never replaces a text its editor had not read, unless a signature was saved
\* again under the id of a deleted one (its revisions begin again).
NoUnseenText ==
  [][\A t \in Tabs : saving[t] /\ ~saving'[t] /\ ~reborn /\ edit[t] # None =>
       LET i == edit[t].id
       IN row[i] # None /\ row'[i] # row[i] => edit[t].base = row[i].text]_vars
=============================================================================
