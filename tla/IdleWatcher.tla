----------------------------- MODULE IdleWatcher -----------------------------
(***************************************************************************)
(* IdleWatcherManager: the worker's IDLE connection to one inbox.  A timer   *)
(* compares the eligible mailboxes with the watches; a watch is a loop that *)
(* connects, enqueues a delta run, listens, and connects again after a      *)
(* pause.  stop() and the refresh cancel a watch in the middle of whatever  *)
(* it awaits, and a new watch may start while the old loop still unwinds.    *)
(***************************************************************************)
EXTENDS Integers

CONSTANTS
  MaxWatches,  \* bound: watches begun
  MaxChanges,  \* bound: changes in the mailbox and of its eligibility, starts after a stop
  MaxFaults    \* bound: failed calls, broken connections, servers without IDLE

Watches == 1..MaxWatches
NoWatch == 0

ASSUME IdleAssumption == {MaxWatches, MaxChanges, MaxFaults} \subseteq Nat

VARIABLES
  stopped,   \* the manager was stopped
  refresh,   \* refresh(): not running, waiting for the query, or holding its answer
  listed,    \* the answer of the query: the inbox is eligible
  map,       \* the entry of the inbox in `watches`
  watch,     \* the loops: step, cancelled, client, a message from the server, wakeTimer
  eligible,  \* account enabled, inbox active and synchronized
  owed,      \* history: the inbox changed after the last delta run was enqueued
  missed,    \* history: a wake-up was lost that nothing makes good
  budget     \* what the bounds have left

manager == <<stopped, refresh, listed, map>>
vars == <<manager, watch, eligible, owed, missed, budget>>

Unused == [pc |-> "none", cancelled |-> FALSE, client |-> "none", notice |-> FALSE, wake |-> FALSE]
Steps == {"account", "connect", "open", "enqueue", "listen", "sleep"}

TypeOK ==
  /\ {stopped, listed, eligible, owed, missed} \subseteq BOOLEAN
  /\ refresh \in {"idle", "query", "apply"}
  /\ map \in Watches \cup {NoWatch}
  /\ watch \in [Watches -> [pc : Steps \cup {"none", "ended"}, cancelled : BOOLEAN,
                            client : {"none", "open", "closed"}, notice : BOOLEAN, wake : BOOLEAN]]
  /\ \A w \in Watches : watch[w].client # "none" => watch[w].pc \in Steps \ {"account", "sleep"}

Init ==
  /\ stopped = FALSE /\ refresh = "idle" /\ listed = FALSE /\ map = NoWatch
  /\ watch = [w \in Watches |-> Unused]
  /\ eligible = TRUE /\ owed = FALSE /\ missed = FALSE
  /\ budget = [changes |-> MaxChanges, faults |-> MaxFaults]

Spend(what) == budget[what] > 0 /\ budget' = [budget EXCEPT ![what] = @ - 1]

-----------------------------------------------------------------------------
(* The manager *)

\* stop() of a watch: the client that the loop has is closed.
Cancelled(w) ==
  [watch[w] EXCEPT !.cancelled = TRUE, !.wake = FALSE,
                   !.client = IF @ = "open" THEN "closed" ELSE @]

RefreshBegin ==
  /\ ~stopped /\ refresh = "idle"
  /\ refresh' = "query"
  /\ UNCHANGED <<stopped, listed, map, watch, eligible, owed, missed, budget>>

RefreshQuery ==
  /\ refresh = "query"
  /\ \/ refresh' = "apply" /\ listed' = eligible /\ UNCHANGED budget
     \/ refresh' = "idle" /\ Spend("faults") /\ UNCHANGED listed
  /\ UNCHANGED <<stopped, map, watch, eligible, owed, missed>>

\* The answer is applied even if the manager was stopped meanwhile: the loop of a
\* watch that is begun then ends at once, and its entry stays in the map.
RefreshApply ==
  /\ refresh = "apply"
  /\ refresh' = "idle"
  /\ \/ /\ listed /\ map = NoWatch
        /\ \E w \in Watches :
             /\ watch[w] = Unused /\ \A v \in 1..w - 1 : watch[v] # Unused
             /\ map' = w
             /\ watch' = [watch EXCEPT ![w].pc = IF stopped THEN "ended" ELSE "account"]
        /\ missed' = (missed \/ stopped)
     \/ /\ ~listed /\ map # NoWatch
        /\ map' = NoWatch
        /\ watch' = [watch EXCEPT ![map] = Cancelled(map)]
        /\ UNCHANGED missed
     \/ listed = (map # NoWatch) /\ UNCHANGED <<map, watch, missed>>
  /\ UNCHANGED <<stopped, listed, eligible, owed, budget>>

\* start() of a manager that was stopped, and the refresh that it begins with.
Start ==
  /\ stopped /\ stopped' = FALSE
  /\ refresh' = IF refresh = "idle" THEN "query" ELSE refresh
  /\ Spend("changes")
  /\ UNCHANGED <<listed, map, watch, eligible, owed, missed>>

Stop ==
  /\ ~stopped /\ stopped' = TRUE
  /\ map' = NoWatch
  /\ watch' = IF map = NoWatch THEN watch ELSE [watch EXCEPT ![map] = Cancelled(map)]
  /\ UNCHANGED <<refresh, listed, eligible, owed, missed, budget>>

-----------------------------------------------------------------------------
(* The loop of a watch *)

At(w, pc) == watch[w].pc = pc
Goto(w, pc) == watch' = [watch EXCEPT ![w].pc = pc]
Over(w) == watch[w].cancelled \/ stopped

\* finally: the client is closed; the loop ends or pauses.
Leave(w) ==
  watch' = [watch EXCEPT ![w].pc = IF Over(w) THEN "ended" ELSE "sleep",
                         ![w].client = "none", ![w].notice = FALSE]

\* The account is awaited; the loop looks again before it makes a client.
OverForgotten(w) == FALSE
OverAfterAccount(w) == Over(w)
Account(w) ==
  /\ At(w, "account")
  /\ \/ OverAfterAccount(w) /\ Leave(w) /\ UNCHANGED budget
     \/ /\ ~OverAfterAccount(w)
        /\ watch' = [watch EXCEPT ![w].pc = "connect", ![w].client = "open"]
        /\ UNCHANGED budget
     \/ Leave(w) /\ Spend("faults")
  /\ UNCHANGED <<manager, eligible, owed, missed>>

\* A server without IDLE ends the loop, and the entry stays in the map.
Connect(w) ==
  /\ At(w, "connect")
  /\ \/ watch[w].client = "open" /\ Goto(w, "open") /\ UNCHANGED <<missed, budget>>
     \/ watch[w].client = "closed" /\ Leave(w) /\ UNCHANGED <<missed, budget>>
     \/ /\ watch[w].client = "open"
        /\ watch' = [watch EXCEPT ![w].pc = "ended", ![w].client = "none"]
        /\ missed' = TRUE
        /\ Spend("faults")
  /\ UNCHANGED <<manager, eligible, owed>>

Open(w) ==
  /\ At(w, "open")
  /\ IF watch[w].client = "open" THEN Goto(w, "enqueue") ELSE Leave(w)
  /\ UNCHANGED <<manager, eligible, owed, missed, budget>>

\* What happened while nobody listened is caught by a delta run.
OwedStill == owed
OwedOnConnect == FALSE
Enqueue(w) ==
  /\ At(w, "enqueue")
  /\ \/ Goto(w, "listen") /\ owed' = OwedOnConnect /\ UNCHANGED budget
     \/ Leave(w) /\ Spend("faults") /\ UNCHANGED owed
  /\ UNCHANGED <<manager, eligible, missed>>

Listen(w) ==
  /\ At(w, "listen") /\ watch[w].client = "closed"
  /\ Leave(w)
  /\ UNCHANGED <<manager, eligible, owed, missed, budget>>

\* The pause ends by its timer, or because the watch is stopped.
Sleep(w) ==
  /\ At(w, "sleep")
  /\ Goto(w, IF Over(w) THEN "ended" ELSE "account")
  /\ UNCHANGED <<manager, eligible, owed, missed, budget>>

\* exists, flags, expunge: wake() sets a timer of half a second unless it runs.
Hear(w) ==
  /\ watch[w].notice /\ watch[w].client = "open"
  /\ watch' = [watch EXCEPT ![w].notice = FALSE, ![w].wake = @ \/ ~watch[w].cancelled]
  /\ UNCHANGED <<manager, eligible, owed, missed, budget>>

\* The timer enqueues a delta run; a failure is swallowed.
Wake(w) ==
  /\ watch[w].wake
  /\ watch' = [watch EXCEPT ![w].wake = FALSE]
  /\ \/ owed' = FALSE /\ UNCHANGED <<missed, budget>>
     \/ missed' = TRUE /\ Spend("faults") /\ UNCHANGED owed
  /\ UNCHANGED <<manager, eligible>>

-----------------------------------------------------------------------------
(* Around it *)

\* A connection that has the mailbox open is told of each change.
Change ==
  /\ owed' = TRUE
  /\ watch' = [w \in Watches |-> [watch[w] EXCEPT !.notice = @ \/ (/\ watch[w].pc \in {"enqueue", "listen"}
                                                                   /\ watch[w].client = "open")]]
  /\ Spend("changes")
  /\ UNCHANGED <<manager, eligible, missed>>

Break(w) ==
  /\ watch[w].client = "open"
  /\ watch' = [watch EXCEPT ![w].client = "closed"]
  /\ Spend("faults")
  /\ UNCHANGED <<manager, eligible, owed, missed>>

Toggle ==
  /\ eligible' = ~eligible
  /\ Spend("changes")
  /\ UNCHANGED <<manager, watch, owed, missed>>

Refresh == RefreshBegin \/ RefreshQuery \/ RefreshApply
Loop(w) == \/ Account(w) \/ Connect(w) \/ Open(w) \/ Enqueue(w) \/ Listen(w) \/ Sleep(w)
Next ==
  \/ Refresh \/ Start \/ Stop \/ Change \/ Toggle
  \/ \E w \in Watches : Loop(w) \/ Hear(w) \/ Wake(w) \/ Break(w)

Spec == Init /\ [][Next]_vars

\* Timers fire, awaited calls return, and a connection delivers what it was sent.
FairSpec ==
  /\ Spec /\ WF_vars(Refresh)
  /\ \A w \in Watches : WF_vars(Loop(w)) /\ WF_vars(Hear(w)) /\ WF_vars(Wake(w))

-----------------------------------------------------------------------------
(* What the watchers promise *)

\* At most one connection is open, that of the watch in the map, and none
\* once the manager has stopped: whatever a cancelled loop was waiting for, it
\* does not connect afterwards.
OneConnection ==
  \A w \in Watches : watch[w].client = "open" => w = map /\ ~stopped

\* A change in a watched inbox is followed by a delta run, through broken
\* connections, pauses, and watches that are replaced, unless the queue
\* refused the wake-up, the server took IDLE back, or the entry is that of a
\* watch which was begun while the manager was stopped.
ChangeHeard == owed ~> (~owed \/ missed \/ ~eligible \/ stopped)
==============================================================================
