---------------------------- MODULE Notifications ----------------------------
(***************************************************************************)
(* Desktop notifications: the events that synchronization writes, the        *)
(* checkpoint that all tabs of the owner share, and the poll of each tab,    *)
(* while tabs come and go, answers are lost and preferences change.          *)
(***************************************************************************)
EXTENDS Integers, FiniteSets

CONSTANTS
  Tabs,
  Kinds,        \* what the preferences tell apart: accounts, inbox or other folder
  Page,         \* events that one poll reads
  MaxEvents,    \* bound: arrivals
  MaxMounts,    \* bound: tabs that are opened, or opened again
  MaxAsks,      \* bound: changes of the preferences
  MaxFaults     \* bound: lost requests and answers

NotificationsAssumption ==
  {Page, MaxEvents, MaxMounts, MaxAsks, MaxFaults} \subseteq Nat /\ Page > 0

Seqs == 1..MaxEvents
States == {"fit", "unfit", "expired"}

VARIABLES
  sequence,     \* instance_state.notificationSequence
  checkpoint,   \* instance_state.notificationCheckpoint
  wanted,       \* notificationPreferences: the kinds of arrivals they match
  event,        \* notification_events: kind, and whether it is fit to be shown: still in
                \* its mailbox and younger than 120 seconds, or neither, or 7 days old
  tab,          \* a tab: what its poll does, its answer, what it has seen
  stray,        \* requests of tabs that are gone
  shown,        \* history: how often an event was shown
  opened,       \* history: the sequence when a tab was mounted
  excluded,     \* history: events that the preferences did not want at some time
  budget

vars == <<sequence, checkpoint, wanted, event, tab, stray, shown, opened, excluded, budget>>
history == <<shown, opened, excluded>>
state == <<sequence, checkpoint, wanted, event>>

Gone == [pc |-> "gone", started |-> FALSE, answer |-> {}, seen |-> {}]
Row(kind) == [kind |-> kind, is |-> "fit"]

Init ==
  /\ sequence = 0 /\ checkpoint = 0
  /\ wanted = {}
  /\ event = [s \in {} |-> Row(s)]
  /\ tab = [t \in Tabs |-> Gone]
  /\ stray = {}
  /\ shown = [s \in Seqs |-> 0] /\ opened = [t \in Tabs |-> 0]
  /\ excluded = {}
  /\ budget = [mounts |-> MaxMounts, asks |-> MaxAsks, faults |-> MaxFaults]

Spend(what) == budget[what] > 0 /\ budget' = [budget EXCEPT ![what] = @ - 1]

-----------------------------------------------------------------------------
(* The events *)

\* A synchronization commits a message that has newly arrived.  It holds the row
\* of instance_state until then, so that sequences are in the order of commits.
Arrive(kind) ==
  /\ sequence < MaxEvents /\ sequence' = sequence + 1
  /\ event' = [s \in DOMAIN event \cup {sequence'} |-> IF s = sequence' THEN Row(kind) ELSE event[s]]
  /\ excluded' = IF kind \in wanted THEN excluded ELSE excluded \cup {sequence'}
  /\ UNCHANGED <<checkpoint, wanted, tab, stray, shown, opened, budget>>

\* The message is moved, deleted or synchronized away, its account is disabled,
\* or time goes by.
Fade(s) ==
  /\ event[s].is # "expired"
  /\ event' = [event EXCEPT ![s].is = IF @ = "fit" THEN "unfit" ELSE "expired"]
  /\ UNCHANGED <<sequence, checkpoint, wanted, tab, stray, history, budget>>

\* setPreferences(): what has arrived so far will not be shown.
Unmoved == checkpoint
Rebased == sequence
SetPreferences(kinds) ==
  /\ kinds # wanted /\ Spend("asks")
  /\ wanted' = kinds /\ checkpoint' = Rebased
  /\ excluded' = excluded \cup {s \in DOMAIN event : event[s].kind \notin kinds}
  /\ UNCHANGED <<sequence, event, tab, stray, shown, opened>>

-----------------------------------------------------------------------------
(* consume(), under the lock of the row *)

Kept == {s \in DOMAIN event : event[s].is # "expired"}
Pending == {s \in Kept : s > checkpoint}
Rows == {s \in Pending : Cardinality({q \in Pending : q < s}) < Page}
Delivered == {s \in Rows : event[s].is = "fit" /\ event[s].kind \in wanted}

Started == sequence
Read == IF Rows = {} THEN sequence ELSE CHOOSE s \in Rows : \A q \in Rows : q <= s
Consume(action) ==
  /\ checkpoint' = IF action = "start" THEN Started ELSE Read
  /\ event' = [s \in Kept |-> event[s]]
  /\ UNCHANGED <<sequence, wanted>>

-----------------------------------------------------------------------------
(* A tab: DesktopNotifications *)

Mount(t) ==
  /\ tab[t].pc = "gone" /\ Spend("mounts")
  /\ tab' = [tab EXCEPT ![t] = [Gone EXCEPT !.pc = "idle"]]
  /\ opened' = [opened EXCEPT ![t] = sequence]
  /\ UNCHANGED <<state, stray, shown, excluded>>

Action(t) == IF tab[t].started THEN "poll" ELSE "start"

\* At once, and then every ten seconds unless a poll is under way.
Poll(t) ==
  /\ tab[t].pc = "idle"
  /\ tab' = [tab EXCEPT ![t].pc = "asks"]
  /\ UNCHANGED <<state, stray, history, budget>>

Serve(t) ==
  /\ tab[t].pc = "asks"
  /\ Consume(Action(t))
  /\ tab' = [tab EXCEPT ![t].pc = "answered",
                        ![t].answer = IF tab[t].started THEN Delivered ELSE {}]
  /\ UNCHANGED <<stray, history, budget>>

\* No answer, before or after the server has done its part: the next tick polls.
Lose(t) ==
  /\ tab[t].pc \in {"asks", "answered"} /\ Spend("faults")
  /\ tab' = [tab EXCEPT ![t].pc = "idle", ![t].answer = {}]
  /\ UNCHANGED <<state, stray, history>>

\* The events of an answer are shown, unless the browser forbids it or the owner
\* looks at the tab.
Show(t) ==
  LET new == tab[t].answer \ tab[t].seen
  IN /\ tab[t].pc = "answered"
     /\ tab' = [tab EXCEPT ![t] = [tab[t] EXCEPT !.pc = "idle", !.started = TRUE, !.answer = {},
                                                 !.seen = @ \cup new]]
     /\ \/ shown' = [s \in Seqs |-> IF s \in new THEN shown[s] + 1 ELSE shown[s]]
        \/ UNCHANGED shown
     /\ UNCHANGED <<state, stray, opened, excluded, budget>>

\* The tab is closed or shows another page; its request may be under way.
Unmount(t) ==
  /\ tab[t].pc # "gone"
  /\ tab' = [tab EXCEPT ![t] = Gone]
  /\ stray' = IF tab[t].pc = "asks" THEN stray \cup {Action(t)} ELSE stray
  /\ opened' = [opened EXCEPT ![t] = 0]
  /\ UNCHANGED <<state, shown, excluded, budget>>

ServeStray ==
  /\ \E action \in stray : stray' = stray \ {action} /\ Consume(action)
  /\ UNCHANGED <<tab, history, budget>>

-----------------------------------------------------------------------------
Next == \/ \E kind \in Kinds : Arrive(kind)
        \/ \E s \in DOMAIN event : Fade(s)
        \/ \E kinds \in SUBSET Kinds : SetPreferences(kinds)
        \/ \E t \in Tabs : Mount(t) \/ Poll(t) \/ Serve(t) \/ Lose(t) \/ Show(t) \/ Unmount(t)
        \/ ServeStray

Spec == Init /\ [][Next]_vars

-----------------------------------------------------------------------------
(* What notifications promise *)

TypeOK ==
  /\ sequence \in 0..MaxEvents /\ checkpoint \in 0..MaxEvents /\ checkpoint <= sequence
  /\ wanted \subseteq Kinds
  /\ DOMAIN event \subseteq 1..sequence
  /\ \A s \in DOMAIN event : event[s] \in [kind : Kinds, is : States]
  /\ tab \in [Tabs -> [pc : {"gone", "idle", "asks", "answered"}, started : BOOLEAN,
                       answer : SUBSET Seqs, seen : SUBSET Seqs]]
  /\ stray \subseteq {"start", "poll"}

\* An arrival is shown at most once, whichever tabs poll at the same time, are
\* reloaded, or lose the answer that it was in.
ShownOnce == \A s \in Seqs : shown[s] <= 1

\* A tab is told only of mail that came after it was opened, and that the
\* preferences wanted all the time since it came: a start makes no burst of what
\* waited, and a change of the preferences no arrival of older mail.
NoOldNews ==
  [][\A t \in Tabs : tab'[t].answer # tab[t].answer =>
       \A s \in tab'[t].answer : s > opened[t] /\ s \notin excluded]_vars
=============================================================================
