---------------------------- MODULE WorkerProofs ----------------------------
(***************************************************************************)
(* The worker process: its supervisor, and the IDLE connections that the    *)
(* watchers it starts hold open.                                            *)
(*                                                                         *)
(* Whatever the order of starts, failures, signals and changes of the        *)
(* instance's readiness, nothing is left running while the supervisor waits  *)
(* or has closed the database.  NothingLeftRunning is not inductive: it says *)
(* nothing of the supervisor's way from a start to a pause.  What carries it *)
(* is that a poller ticks only if its timer can be cleared (Owned), that a   *)
(* start finds every poller after its own step stopped (NotYet), and that    *)
(* the teardown stops them before the runtime is drained (Quiet).            *)
(*                                                                         *)
(* At most one IDLE connection is open, that of the watch in the map, for   *)
(* any number of watches, changes and faults.  OneConnection says nothing of *)
(* the loops that have not connected yet; what carries it is that every loop *)
(* outside the map is cancelled or over.                                    *)
(***************************************************************************)
EXTENDS WorkerProcess, FiniteSetTheorems, TLAPS

\* The intervals that tick are those `timer` names.
Owned == \A p \in Pollers : timer[p] = IF own[p] THEN 1 ELSE 0

\* A start comes to a poller that was never started, or was stopped.
NotYet == pc = "starting" => \A i \in next..Len(Startup) : Startup[i] \in Pollers => ~own[Startup[i]]

\* Nothing was started yet, or stopBusinessWorkers() has ended.
Quiet == pc \in {"validate", "waiting", "draining", "closed"} =>
           watchers = "stopped" /\ \A p \in Pollers : ~own[p]

\* The runtime's stop was awaited.
Settled == pc \in {"validate", "waiting", "closed"} => jobs = "stopped" \/ undrained

IInv == TypeOK /\ Owned /\ NotYet /\ Quiet /\ Settled

LEMMA StartupOrder ==
  /\ Len(Startup) = 8
  /\ \A i \in 1..8 : Startup[i] \in Pollers <=> i \in 2..7
  /\ \A i, j \in 1..8 : Startup[i] = Startup[j] => i = j
<1>1. Len(Startup) = 8
  BY DEF Startup
<1>2. \A i \in 1..8 : Startup[i] \in Pollers <=> i \in 2..7
  BY DEF Startup, Pollers
<1>3. \A i, j \in 1..8 : Startup[i] = Startup[j] => i = j
  BY DEF Startup
<1> QED BY <1>1, <1>2, <1>3

LEMMA InitHolds == Init => IInv
<1> SUFFICES ASSUME Init PROVE IInv
  OBVIOUS
<1>1. TypeOK
  <2>1. timer \in [Pollers -> 0..1] /\ own \in [Pollers -> BOOLEAN] /\ polling \in [Pollers -> BOOLEAN]
    BY DEF Init
  <2>2. next \in 1..Len(Startup)
    BY StartupOrder DEF Init
  <2> QED BY <2>1, <2>2 DEF Init, TypeOK
<1>2. Owned /\ NotYet /\ Quiet /\ Settled
  BY DEF Init, Owned, NotYet, Quiet, Settled
<1> QED BY <1>1, <1>2 DEF IInv

(* What a poller's interval does to the invariant. *)

LEMMA IntervalKeeps ==
  ASSUME IInv, NEW p \in Pollers, Starting(p), Onwards, SetsTimer(p),
         UNCHANGED <<ready, jobs, undrained, handler, watchers, polling>>
  PROVE  IInv'
<1> USE DEF IInv
<1>1. next \in 2..7 /\ next' = next + 1 /\ pc = "starting" /\ pc' = "starting"
  BY StartupOrder DEF Starting, Onwards, Go, TypeOK
<1>2. ~own[p] /\ timer[p] = 0
  <2>1. next \in next..Len(Startup) /\ Startup[next] = p
    BY <1>1, StartupOrder DEF Starting
  <2> QED BY <2>1, <1>1 DEF NotYet, Owned
<1>3. /\ timer'[p] = 1 /\ own'[p] = TRUE
      /\ \A q \in Pollers \ {p} : timer'[q] = timer[q] /\ own'[q] = own[q]
      /\ timer' \in [Pollers -> 0..1] /\ own' \in [Pollers -> BOOLEAN]
  BY <1>2, WorkerAssumption DEF SetsTimer, TypeOK, WorkerAssumption
<1>4. TypeOK'
  <2>1. next' \in 1..Len(Startup)
    BY <1>1, StartupOrder
  <2>2. first' \in BOOLEAN
    BY DEF Onwards
  <2>3. closing' = closing /\ stopping' = stopping /\ exit' = exit
    BY DEF Onwards, Go
  <2> QED BY <1>1, <1>3, <2>1, <2>2, <2>3 DEF TypeOK
<1>5. Owned'
  BY <1>3 DEF Owned
<1>6. NotYet'
  <2> SUFFICES ASSUME NEW i \in next'..Len(Startup), Startup[i] \in Pollers PROVE ~own'[Startup[i]]
    BY DEF NotYet
  <2>1. i \in 1..8 /\ i \in next..Len(Startup) /\ i # next
    BY <1>1, StartupOrder
  <2>2. Startup[i] # p
    BY <2>1, <1>1, StartupOrder DEF Starting
  <2> QED BY <1>1, <1>3, <2>1, <2>2 DEF NotYet
<1>7. Quiet' /\ Settled'
  BY <1>1 DEF Quiet, Settled
<1> QED BY <1>4, <1>5, <1>6, <1>7

(* One lemma per step of the supervisor. *)

LEMMA StartPollerKeeps ==
  ASSUME IInv, NEW p \in Pollers, StartPoller(p) \/ FirstPolled(p)
  PROVE  IInv'
<1> USE DEF IInv
<1>1. CASE Onwards /\ SetsTimer(p)
  BY <1>1, IntervalKeeps DEF StartPoller, FirstPolled
<1>2. CASE Throw /\ UNCHANGED <<timer, own>>
  <2>1. TypeOK'
    BY <1>2 DEF StartPoller, FirstPolled, Throw, TypeOK
  <2>2. Owned'
    BY <1>2 DEF StartPoller, FirstPolled, Throw, Owned
  <2>3. NotYet'
    BY <1>2 DEF StartPoller, FirstPolled, Throw, NotYet
  <2>4. Quiet'
    BY <1>2 DEF StartPoller, FirstPolled, Throw, Quiet
  <2>5. Settled'
    BY <1>2 DEF StartPoller, FirstPolled, Throw, Settled
  <2> QED BY <2>1, <2>2, <2>3, <2>4, <2>5
<1>3. CASE first' = TRUE /\ Go("starting") /\ UNCHANGED <<next, timer, own>>
  <2>1. TypeOK'
    BY <1>3 DEF StartPoller, FirstPolled, Starting, Go, TypeOK
  <2>2. Owned'
    BY <1>3 DEF StartPoller, FirstPolled, Starting, Go, Owned
  <2>3. NotYet'
    BY <1>3 DEF StartPoller, FirstPolled, Starting, Go, NotYet
  <2>4. Quiet'
    BY <1>3 DEF StartPoller, FirstPolled, Starting, Go, Quiet
  <2>5. Settled'
    BY <1>3 DEF StartPoller, FirstPolled, Starting, Go, Settled
  <2> QED BY <2>1, <2>2, <2>3, <2>4, <2>5
<1> QED BY <1>1, <1>2, <1>3 DEF StartPoller, FirstPolled

LEMMA StartOthersKeeps ==
  ASSUME IInv, StartJobs \/ StartWatchers
  PROVE  IInv'
<1> USE DEF IInv
<1>1. CASE Onwards
  <2>1. pc' \in {"starting", "running"} /\ next' \in 1..Len(Startup) /\ next \in 1..Len(Startup)
        /\ (pc' = "starting" => next' = next + 1 /\ pc = "starting")
    BY <1>1, StartupOrder DEF StartJobs, StartWatchers, pollers, Onwards, Go, Starting, TypeOK
  <2>2. first' \in BOOLEAN /\ closing' \in BOOLEAN /\ stopping' \in BOOLEAN /\ exit' \in {0, 1}
    BY <1>1 DEF Onwards, Go, TypeOK
  <2> QED
    <3>1. TypeOK'
      BY <2>1, <2>2, StartupOrder DEF StartJobs, StartWatchers, pollers, TypeOK
    <3>2. Owned'
      BY <2>1, <2>2, StartupOrder DEF StartJobs, StartWatchers, pollers, Owned
    <3>3. NotYet'
      BY <2>1, <2>2, StartupOrder DEF StartJobs, StartWatchers, pollers, NotYet
    <3>4. Quiet'
      BY <2>1, <2>2, StartupOrder DEF StartJobs, StartWatchers, pollers, Quiet
    <3>5. Settled'
      BY <2>1, <2>2, StartupOrder DEF StartJobs, StartWatchers, pollers, Settled
    <3> QED BY <3>1, <3>2, <3>3, <3>4, <3>5
<1>2. CASE Throw
  <2>1. TypeOK'
    BY <1>2 DEF StartJobs, StartWatchers, Throw, pollers, TypeOK
  <2>2. Owned'
    BY <1>2 DEF StartJobs, StartWatchers, Throw, pollers, Owned
  <2>3. NotYet'
    BY <1>2 DEF StartJobs, StartWatchers, Throw, pollers, NotYet
  <2>4. Quiet'
    BY <1>2 DEF StartJobs, StartWatchers, Throw, pollers, Quiet
  <2>5. Settled'
    BY <1>2 DEF StartJobs, StartWatchers, Throw, pollers, Settled
  <2> QED BY <2>1, <2>2, <2>3, <2>4, <2>5
<1> QED BY <1>1, <1>2 DEF StartJobs, StartWatchers, pollers

LEMMA StopBusinessKeeps ==
  ASSUME IInv, StopBusiness
  PROVE  IInv'
<1> USE DEF IInv, StopBusiness, Stopped
<1>1. \A p \in Pollers : timer'[p] = 0 /\ own'[p] = FALSE
  <2> SUFFICES ASSUME NEW p \in Pollers PROVE timer'[p] = 0 /\ own'[p] = FALSE
    OBVIOUS
  <2>1. own'[p] = FALSE
    BY Zenon
  <2>2. timer'[p] = IF own[p] THEN timer[p] - 1 ELSE timer[p]
    BY DEF TypeOK
  <2> QED BY <2>1, <2>2 DEF Owned
<1>2. timer' \in [Pollers -> 0..1] /\ own' \in [Pollers -> BOOLEAN]
  <2>1. \A p \in Pollers : timer'[p] \in 0..1
    BY <1>1, WorkerAssumption DEF WorkerAssumption
  <2>2. \A p \in Pollers : own'[p] \in BOOLEAN
    BY <1>1
  <2>3. timer' = [p \in Pollers |-> timer'[p]] /\ own' = [p \in Pollers |-> own'[p]]
    OBVIOUS
  <2> QED BY <2>1, <2>2, <2>3
<1>3. TypeOK'
  BY <1>2 DEF TypeOK
<1>4. Owned' /\ NotYet' /\ Quiet' /\ Settled'
  BY <1>1 DEF Owned, NotYet, Quiet, Settled
<1> QED BY <1>3, <1>4

LEMMA SupervisorKeeps ==
  ASSUME IInv, Supervisor
  PROVE  IInv'
<1> USE DEF IInv
<1>1. CASE Validate \/ Wait \/ Supervise
  <2> USE DEF Validate, Wait, Supervise, Asked, Lost, Go, Throw, pollers
  <2>1. TypeOK'
    <3>1. next' \in 1..Len(Startup)
      BY <1>1, StartupOrder DEF TypeOK
    <3>2. /\ pc' \in {"validate", "waiting", "starting", "running", "pause", "teardown", "closed"}
          /\ first' \in BOOLEAN /\ closing' = closing /\ stopping' \in BOOLEAN /\ exit' \in {0, 1}
      BY <1>1 DEF TypeOK
    <3>3. UNCHANGED <<ready, jobs, undrained, handler, watchers, pollers>>
      BY <1>1
    <3> QED BY <3>1, <3>2, <3>3 DEF TypeOK
  <2>2. Owned' /\ Quiet' /\ Settled'
    BY <1>1 DEF Owned, Quiet, Settled
  <2>3. NotYet'
    BY <1>1, StartupOrder DEF NotYet, Quiet
  <2> QED BY <2>1, <2>2, <2>3
<1>2. CASE Drained
  <2>1. TypeOK'
    BY <1>2 DEF Drained, Throw, pollers, TypeOK
  <2>2. Owned'
    BY <1>2 DEF Drained, Throw, pollers, Owned
  <2>3. NotYet'
    BY <1>2 DEF Drained, Throw, pollers, NotYet
  <2>4. Quiet'
    BY <1>2 DEF Drained, Throw, pollers, Quiet
  <2>5. Settled'
    BY <1>2 DEF Drained, Throw, pollers, Settled
  <2> QED BY <2>1, <2>2, <2>3, <2>4, <2>5
<1> QED BY <1>1, <1>2, StartOthersKeeps, StopBusinessKeeps, StartPollerKeeps DEF Supervisor

LEMMA NextKeeps ==
  ASSUME IInv, [Next]_vars
  PROVE  IInv'
<1> USE DEF IInv
<1>1. CASE Supervisor
  BY <1>1, SupervisorKeeps
<1>2. CASE Signal \/ Flip \/ HandlerBegins \/ HandlerEnds
  <2> USE DEF Signal, Flip, HandlerBegins, HandlerEnds, supervisor, pollers
  <2>1. ready' \in BOOLEAN /\ handler' \in BOOLEAN /\ stopping' \in BOOLEAN
    BY <1>2 DEF TypeOK
  <2>2. UNCHANGED <<supervisor, exit, jobs, undrained, watchers, pollers>>
    BY <1>2
  <2> QED BY <2>1, <2>2 DEF TypeOK, Owned, NotYet, Quiet, Settled
<1>3. ASSUME NEW p \in Pollers, Tick(p) \/ PollEnds(p) PROVE IInv'
  <2> USE DEF Tick, PollEnds, supervisor
  <2>1. polling' \in [Pollers -> BOOLEAN]
    BY <1>3 DEF TypeOK
  <2>2. UNCHANGED <<supervisor, stopping, exit, ready, jobs, undrained, handler, watchers, timer, own>>
    BY <1>3
  <2> QED BY <2>1, <2>2 DEF TypeOK, Owned, NotYet, Quiet, Settled
<1>4. CASE UNCHANGED vars
  BY <1>4 DEF vars, supervisor, pollers, TypeOK, Owned, NotYet, Quiet, Settled
<1> QED BY <1>1, <1>2, <1>3, <1>4 DEF Next

-----------------------------------------------------------------------------
(* The theorems *)

\* The inductive invariant holds in every behaviour.
THEOREM InvariantHolds == Spec => []IInv
<1>1. Init => IInv
  BY InitHolds
<1>2. IInv /\ [Next]_vars => IInv'
  BY NextKeeps
<1> QED BY <1>1, <1>2, PTL DEF Spec

\* The supervisor's state has its type, however often readiness changes: no
\* poller gathers more intervals than one.
THEOREM TypeCorrect == Spec => []TypeOK
<1>1. IInv => TypeOK
  BY DEF IInv
<1> QED BY <1>1, InvariantHolds, PTL

\* While the supervisor waits for the owner's factor, and when it has closed the
\* database, no interval, watcher or consumer is left; a poller never has two
\* intervals (worker-process.ts, stopBusinessWorkers()).
THEOREM NothingRunsWhilePaused == Spec => []NothingLeftRunning
<1>1. IInv => NothingLeftRunning
  BY DEF IInv, Owned, Quiet, Settled, NothingLeftRunning, Idle
<1> QED BY <1>1, InvariantHolds, PTL

-----------------------------------------------------------------------------
(* The watchers *)

CONSTANTS MaxWatches, MaxChanges, WatchFaults
VARIABLES stopped, refresh, listed, map, watch, eligible, owed, missed, watchBudget

Idling == INSTANCE IdleWatcher WITH MaxFaults <- WatchFaults, budget <- watchBudget

\* A loop that is not that of the map was cancelled, has ended or was never begun.
OthersCancelled == \A w \in Idling!Watches : w # map => watch[w].cancelled \/ watch[w].pc \in {"none", "ended"}

\* stop() of a watch closed its client, and the loop makes no new one.
CancelledCloses == \A w \in Idling!Watches : watch[w].cancelled => watch[w].client # "open"

\* An entry of the map while the manager is stopped is that of a loop that ended at once.
StoppedEnds == stopped /\ map # Idling!NoWatch => watch[map].pc = "ended"

\* The type of a loop.
Loops == [pc : Idling!Steps \cup {"none", "ended"}, cancelled : BOOLEAN,
          client : {"none", "open", "closed"}, notice : BOOLEAN, wake : BOOLEAN]

IdlingInv == Idling!TypeOK /\ OthersCancelled /\ CancelledCloses /\ StoppedEnds

LEMMA IdlingInitHolds == Idling!Init => IdlingInv
<1> SUFFICES ASSUME Idling!Init PROVE IdlingInv
  OBVIOUS
<1>1. Idling!TypeOK
  <2>1. Idling!Unused \in Loops
    BY DEF Idling!Unused, Loops
  <2> QED BY <2>1 DEF Idling!Init, Idling!TypeOK, Loops, Idling!Unused
<1>2. OthersCancelled /\ CancelledCloses /\ StoppedEnds
  BY DEF Idling!Init, OthersCancelled, CancelledCloses, StoppedEnds, Idling!Unused
<1> QED BY <1>1, <1>2 DEF IdlingInv

(* What the two building blocks of the loops do to a watch. *)

LEMMA CancelledType ==
  ASSUME IdlingInv, NEW w \in Idling!Watches
  PROVE  /\ Idling!Cancelled(w) \in Loops
         /\ Idling!Cancelled(w).cancelled /\ Idling!Cancelled(w).client # "open"
         /\ Idling!Cancelled(w).pc = watch[w].pc
         /\ Idling!Cancelled(w).client # "none" => watch[w].client # "none"
<1> DEFINE client == IF watch[w].client = "open" THEN "closed" ELSE watch[w].client
<1>1. Idling!Cancelled(w) = [watch[w] EXCEPT !.cancelled = TRUE, !.wake = FALSE, !.client = client]
  BY DEF Idling!Cancelled
<1>2. watch[w] \in Loops
  BY DEF IdlingInv, Idling!TypeOK, Loops
<1>3. client \in {"none", "closed"} /\ (client # "none" => watch[w].client # "none")
  BY <1>2 DEF Loops
<1> HIDE DEF client
<1> QED BY <1>1, <1>2, <1>3 DEF Loops

\* The record of a loop that leaves.
LEMMA LeftType ==
  ASSUME NEW r \in Loops, NEW then \in Idling!Steps \cup {"none", "ended"}
  PROVE  [r EXCEPT !.pc = then, !.client = "none", !.notice = FALSE] \in Loops
BY DEF Loops

\* A loop that leaves ends if it is cancelled or the manager is stopped, and has no client.
LEMMA LeaveKeeps ==
  ASSUME IdlingInv, NEW w \in Idling!Watches, watch[w].pc \in Idling!Steps, Idling!Leave(w),
         UNCHANGED <<Idling!manager, eligible>>, {owed, missed}' \subseteq BOOLEAN
  PROVE  IdlingInv'
<1> USE DEF IdlingInv, Idling!manager
<1>0. PICK then \in {"ended", "sleep"} :
        /\ watch' = [watch EXCEPT ![w].pc = then, ![w].client = "none", ![w].notice = FALSE]
        /\ Idling!Over(w) => then = "ended"
  BY DEF Idling!Leave
<1>1. /\ watch'[w].pc = then /\ watch'[w].client = "none" /\ watch'[w].cancelled = watch[w].cancelled
      /\ \A v \in Idling!Watches \ {w} : watch'[v] = watch[v]
      /\ watch' \in [Idling!Watches -> Loops]
  <2>1. watch \in [Idling!Watches -> Loops] /\ then \in Idling!Steps \cup {"none", "ended"}
    BY <1>0 DEF Idling!TypeOK, Loops, Idling!Steps
  <2>2. watch' \in [Idling!Watches -> Loops]
    BY <1>0, <2>1, LeftType
  <2>3. \A v \in Idling!Watches \ {w} : watch'[v] = watch[v]
    BY <1>0, <2>1
  <2>4. watch'[w].pc = then /\ watch'[w].client = "none" /\ watch'[w].cancelled = watch[w].cancelled
    BY <1>0, <2>1 DEF Loops
  <2> QED BY <2>2, <2>3, <2>4
<1>2. Idling!TypeOK'
  BY <1>1 DEF Idling!TypeOK, Idling!Steps, Loops
<1>3. OthersCancelled'
  <2>1. w # map => watch[w].cancelled
    BY DEF OthersCancelled, Idling!Steps
  <2> QED BY <1>0, <1>1, <2>1 DEF OthersCancelled, Idling!Over
<1>4. CancelledCloses'
  BY <1>1 DEF CancelledCloses, Idling!TypeOK
<1>5. StoppedEnds'
  BY <1>0, <1>1 DEF StoppedEnds, Idling!TypeOK, Idling!Over, Idling!NoWatch
<1> QED BY <1>2, <1>3, <1>4, <1>5

\* The record of a loop that goes on, of one that has a client, and what it hears.
LEMMA MovedType ==
  ASSUME NEW r \in Loops, NEW then \in Idling!Steps, NEW heard \in BOOLEAN
  PROVE  /\ [r EXCEPT !.pc = then] \in Loops
         /\ [r EXCEPT !.pc = then, !.client = "open"] \in Loops
         /\ [r EXCEPT !.client = "closed"] \in Loops
         /\ [r EXCEPT !.wake = FALSE] \in Loops
         /\ [r EXCEPT !.notice = FALSE, !.wake = heard] \in Loops
         /\ [r EXCEPT !.notice = heard] \in Loops
<1>1. [r EXCEPT !.pc = then] \in Loops /\ [r EXCEPT !.pc = then, !.client = "open"] \in Loops
  BY DEF Loops
<1>2. [r EXCEPT !.client = "closed"] \in Loops /\ [r EXCEPT !.wake = FALSE] \in Loops
  BY DEF Loops
<1>3. [r EXCEPT !.notice = FALSE, !.wake = heard] \in Loops /\ [r EXCEPT !.notice = heard] \in Loops
  BY DEF Loops
<1> QED BY <1>1, <1>2, <1>3

\* A loop that goes on: it may have a client only past its connect, and an open one
\* only while it is not cancelled.
LEMMA MovedKeeps ==
  ASSUME IdlingInv, NEW w \in Idling!Watches, UNCHANGED <<Idling!manager, eligible>>, {owed, missed}' \subseteq BOOLEAN,
         watch' \in [Idling!Watches -> Loops], \A v \in Idling!Watches \ {w} : watch'[v] = watch[v],
         watch[w].pc \in Idling!Steps, watch'[w].cancelled = watch[w].cancelled,
         watch'[w].client # "none" => watch'[w].pc \in Idling!Steps \ {"account", "sleep"},
         watch'[w].client = "open" => ~watch[w].cancelled
  PROVE  IdlingInv'
<1> USE DEF IdlingInv, Idling!manager
<1>1. Idling!TypeOK'
  BY DEF Idling!TypeOK, Loops
<1>2. OthersCancelled'
  BY DEF OthersCancelled, Idling!Steps
<1>3. CancelledCloses'
  BY DEF CancelledCloses
<1>4. StoppedEnds'
  <2>1. stopped /\ map # Idling!NoWatch => map \in Idling!Watches \ {w}
    BY DEF StoppedEnds, Idling!TypeOK, Idling!Steps
  <2> QED BY <2>1 DEF StoppedEnds
<1> QED BY <1>1, <1>2, <1>3, <1>4

\* Goto, by name of the step.
LEMMA GotoKeeps ==
  ASSUME IdlingInv, NEW w \in Idling!Watches, UNCHANGED <<Idling!manager, eligible>>, {owed, missed}' \subseteq BOOLEAN,
         watch[w].pc \in Idling!Steps, NEW then \in Idling!Steps \ {"account", "sleep"}, Idling!Goto(w, then)
  PROVE  IdlingInv'
<1>1. watch \in [Idling!Watches -> Loops]
  BY DEF IdlingInv, Idling!TypeOK, Loops
<1>2. watch' \in [Idling!Watches -> Loops] /\ \A v \in Idling!Watches \ {w} : watch'[v] = watch[v]
  BY <1>1, MovedType DEF Idling!Goto
<1>3. /\ watch'[w].pc = then /\ watch'[w].cancelled = watch[w].cancelled
      /\ watch'[w].client = watch[w].client
  BY <1>1 DEF Idling!Goto, Loops
<1>4. watch[w].client = "open" => ~watch[w].cancelled
  BY DEF IdlingInv, CancelledCloses
<1> QED BY <1>2, <1>3, <1>4, MovedKeeps

(* One lemma per part of the next-state relation. *)

LEMMA RefreshKeeps ==
  ASSUME IdlingInv, Idling!Refresh
  PROVE  IdlingInv'
<1> USE DEF IdlingInv
<1>1. CASE Idling!RefreshBegin \/ Idling!RefreshQuery
  BY <1>1 DEF Idling!RefreshBegin, Idling!RefreshQuery, Idling!TypeOK, OthersCancelled, CancelledCloses, StoppedEnds, Idling!Steps
<1>2. CASE Idling!RefreshApply
  <2>1. CASE listed /\ map = Idling!NoWatch
    <3> DEFINE begun == IF stopped THEN "ended" ELSE "account"
    <3>1. PICK w \in Idling!Watches :
            watch[w] = Idling!Unused /\ map' = w /\ watch' = [watch EXCEPT ![w].pc = begun]
      BY <1>2, <2>1 DEF Idling!RefreshApply, Idling!NoWatch
    <3>2. begun \in {"ended", "account"} /\ (stopped => begun = "ended")
      OBVIOUS
    <3> HIDE DEF begun
    <3>3. /\ watch'[w].pc = begun /\ watch'[w].client = "none" /\ ~watch'[w].cancelled
          /\ \A v \in Idling!Watches \ {w} : watch'[v] = watch[v]
          /\ watch' \in [Idling!Watches -> Loops]
      <4>1. watch \in [Idling!Watches -> Loops]
        BY DEF Idling!TypeOK, Loops
      <4>2. begun \in Idling!Steps \cup {"none", "ended"}
        BY <3>2 DEF Idling!Steps
      <4>3. watch' \in [Idling!Watches -> Loops] /\ \A v \in Idling!Watches \ {w} : watch'[v] = watch[v]
        BY <3>1, <4>1, <4>2 DEF Loops
      <4>4. watch'[w].pc = begun /\ watch'[w].client = watch[w].client /\ watch'[w].cancelled = watch[w].cancelled
        BY <3>1, <4>1 DEF Loops
      <4> QED BY <3>1, <4>3, <4>4 DEF Idling!Unused
    <3>4. Idling!TypeOK'
      BY <1>2, <3>1, <3>3 DEF Idling!RefreshApply, Idling!TypeOK, Loops
    <3>5. OthersCancelled' /\ CancelledCloses'
      BY <2>1, <3>1, <3>3 DEF OthersCancelled, CancelledCloses, Idling!Watches, Idling!NoWatch
    <3>6. StoppedEnds'
      BY <1>2, <3>1, <3>2, <3>3 DEF Idling!RefreshApply, StoppedEnds
    <3> QED BY <3>4, <3>5, <3>6
  <2>2. CASE ~listed /\ map # Idling!NoWatch
    <3>1. map \in Idling!Watches /\ map' = Idling!NoWatch /\ watch' = [watch EXCEPT ![map] = Idling!Cancelled(map)]
      BY <1>2, <2>2 DEF Idling!RefreshApply, Idling!TypeOK
    <3>2. Idling!TypeOK'
      BY <1>2, <3>1, CancelledType DEF Idling!RefreshApply, Idling!TypeOK, Loops
    <3>3. OthersCancelled' /\ CancelledCloses' /\ StoppedEnds'
      BY <3>1, CancelledType DEF OthersCancelled, CancelledCloses, StoppedEnds, Idling!TypeOK
    <3> QED BY <3>2, <3>3
  <2>3. CASE listed = (map # Idling!NoWatch)
    BY <1>2, <2>3 DEF Idling!RefreshApply, Idling!TypeOK, OthersCancelled, CancelledCloses, StoppedEnds, Idling!Steps
  <2> QED BY <1>2, <2>1, <2>2, <2>3 DEF Idling!RefreshApply, Idling!TypeOK
<1> QED BY <1>1, <1>2 DEF Idling!Refresh

LEMMA ManagerKeeps ==
  ASSUME IdlingInv, Idling!Start \/ Idling!Stop \/ Idling!Change \/ Idling!Toggle
  PROVE  IdlingInv'
<1> USE DEF IdlingInv, Idling!manager
<1>1. CASE Idling!Start \/ Idling!Toggle
  <2>1. Idling!TypeOK'
    BY <1>1 DEF Idling!Start, Idling!Toggle, Idling!TypeOK
  <2>2. OthersCancelled' /\ CancelledCloses' /\ StoppedEnds'
    BY <1>1 DEF Idling!Start, Idling!Toggle, OthersCancelled, CancelledCloses, StoppedEnds
  <2> QED BY <2>1, <2>2
<1>2. CASE Idling!Stop
  <2>1. Idling!TypeOK'
    BY <1>2, CancelledType DEF Idling!Stop, Idling!TypeOK, Loops
  <2>2. OthersCancelled' /\ CancelledCloses' /\ StoppedEnds'
    BY <1>2, CancelledType DEF Idling!Stop, Idling!TypeOK, OthersCancelled, CancelledCloses, StoppedEnds
  <2> QED BY <2>1, <2>2
<1>3. CASE Idling!Change
  <2>1. \A w \in Idling!Watches : /\ watch'[w].pc = watch[w].pc /\ watch'[w].cancelled = watch[w].cancelled
                           /\ watch'[w].client = watch[w].client
    BY <1>3 DEF Idling!Change, Idling!TypeOK
  <2>2. Idling!TypeOK'
    <3>1. watch \in [Idling!Watches -> Loops]
      BY DEF Idling!TypeOK, Loops
    <3>2. watch' \in [Idling!Watches -> Loops]
      <4> DEFINE Heard(w) == watch[w].notice \/ (watch[w].pc \in {"enqueue", "listen"} /\ watch[w].client = "open")
      <4>1. watch' = [w \in Idling!Watches |-> [watch[w] EXCEPT !.notice = Heard(w)]]
        BY <1>3 DEF Idling!Change
      <4>2. \A w \in Idling!Watches : Heard(w) \in BOOLEAN
        BY <3>1 DEF Loops
      <4> HIDE DEF Heard
      <4>3. \A w \in Idling!Watches : [watch[w] EXCEPT !.notice = Heard(w)] \in Loops
        BY <3>1, <4>2, MovedType DEF Idling!Steps
      <4> QED BY <4>1, <4>3
    <3>3. UNCHANGED <<Idling!manager, eligible, missed>> /\ owed' = TRUE
      BY <1>3 DEF Idling!Change
    <3>4. \A w \in Idling!Watches : watch'[w].client # "none" => watch'[w].pc \in Idling!Steps \ {"account", "sleep"}
      BY <2>1 DEF Idling!TypeOK
    <3> QED BY <3>2, <3>3, <3>4 DEF Idling!TypeOK, Loops
  <2>3. OthersCancelled' /\ CancelledCloses' /\ StoppedEnds'
    <3>1. UNCHANGED <<stopped, map>>
      BY <1>3 DEF Idling!Change
    <3> QED BY <2>1, <3>1 DEF Idling!TypeOK, OthersCancelled, CancelledCloses, StoppedEnds, Idling!NoWatch
  <2> QED BY <2>2, <2>3
<1> QED BY <1>1, <1>2, <1>3

LEMMA LoopKeeps ==
  ASSUME IdlingInv, NEW w \in Idling!Watches, Idling!Loop(w)
  PROVE  IdlingInv'
<1> USE DEF IdlingInv, Idling!manager
<1> DEFINE Others == OthersCancelled' /\ CancelledCloses' /\ StoppedEnds'
<1>1. CASE Idling!Account(w)
  <2>1. CASE Idling!Leave(w)
    BY <1>1, <2>1, LeaveKeeps DEF Idling!Account, Idling!At, Idling!Steps, Idling!TypeOK
  <2>2. CASE ~Idling!Over(w) /\ watch' = [watch EXCEPT ![w].pc = "connect", ![w].client = "open"]
    <3>1. /\ watch[w].pc = "account" /\ ~watch[w].cancelled
          /\ UNCHANGED <<Idling!manager, eligible, owed, missed>> /\ {owed, missed}' \subseteq BOOLEAN
      BY <1>1, <2>2 DEF Idling!Account, Idling!At, Idling!Over, Idling!TypeOK
    <3>2. watch \in [Idling!Watches -> Loops] /\ "account" \in Idling!Steps /\ "connect" \in Idling!Steps
      BY DEF Idling!TypeOK, Loops, Idling!Steps
    <3>3. watch' \in [Idling!Watches -> Loops] /\ \A v \in Idling!Watches \ {w} : watch'[v] = watch[v]
      BY <2>2, <3>2, MovedType
    <3>4. watch'[w].cancelled = watch[w].cancelled /\ watch'[w].pc = "connect"
      BY <2>2, <3>2 DEF Loops
    <3> QED BY <3>1, <3>2, <3>3, <3>4, MovedKeeps
  <2> QED BY <1>1, <2>1, <2>2 DEF Idling!Account, Idling!OverAfterAccount
<1>2. CASE Idling!Connect(w)
  <2>1. CASE Idling!Leave(w)
    BY <1>2, <2>1, LeaveKeeps DEF Idling!Connect, Idling!At, Idling!Steps, Idling!TypeOK
  <2>2. CASE Idling!Goto(w, "open")
    BY <1>2, <2>2, GotoKeeps DEF Idling!Connect, Idling!At, Idling!Steps, Idling!TypeOK
  <2>3. CASE watch' = [watch EXCEPT ![w].pc = "ended", ![w].client = "none"]
    <3>1. Idling!TypeOK'
      BY <1>2, <2>3 DEF Idling!Connect, Idling!At, Idling!TypeOK, Idling!Steps
    <3>2. Others
      BY <1>2, <2>3 DEF Idling!Connect, Idling!At, Idling!TypeOK, OthersCancelled, CancelledCloses, StoppedEnds
    <3> QED BY <3>1, <3>2
  <2> QED BY <1>2, <2>1, <2>2, <2>3 DEF Idling!Connect
<1>3. CASE Idling!Open(w)
  <2>1. CASE Idling!Leave(w)
    BY <1>3, <2>1, LeaveKeeps DEF Idling!Open, Idling!At, Idling!Steps, Idling!TypeOK
  <2>2. CASE Idling!Goto(w, "enqueue")
    BY <1>3, <2>2, GotoKeeps DEF Idling!Open, Idling!At, Idling!Steps, Idling!TypeOK
  <2> QED BY <1>3, <2>1, <2>2 DEF Idling!Open
<1>6. CASE Idling!Enqueue(w)
  <2>1. CASE Idling!Leave(w)
    BY <1>6, <2>1, LeaveKeeps DEF Idling!Enqueue, Idling!OwedOnConnect, Idling!At, Idling!Steps, Idling!TypeOK
  <2>2. CASE Idling!Goto(w, "listen")
    BY <1>6, <2>2, GotoKeeps DEF Idling!Enqueue, Idling!OwedOnConnect, Idling!At, Idling!Steps, Idling!TypeOK
  <2> QED BY <1>6, <2>1, <2>2 DEF Idling!Enqueue
<1>4. CASE Idling!Listen(w)
  BY <1>4, LeaveKeeps DEF Idling!Listen, Idling!At, Idling!Steps, Idling!TypeOK
<1>5. CASE Idling!Sleep(w)
  <2> DEFINE then == IF Idling!Over(w) THEN "ended" ELSE "account"
  <2>1. /\ watch[w].pc = "sleep" /\ watch' = [watch EXCEPT ![w].pc = then]
        /\ then \in {"ended", "account"} /\ (Idling!Over(w) => then = "ended")
    BY <1>5 DEF Idling!Sleep, Idling!Goto, Idling!At
  <2> HIDE DEF then
  <2>2. Idling!TypeOK'
    BY <1>5, <2>1 DEF Idling!Sleep, Idling!TypeOK, Idling!Steps
  <2>3. Others
    BY <1>5, <2>1 DEF Idling!Sleep, Idling!Over, Idling!TypeOK, OthersCancelled, CancelledCloses, StoppedEnds
  <2> QED BY <2>2, <2>3
<1> QED BY <1>1, <1>2, <1>3, <1>4, <1>5, <1>6 DEF Idling!Loop

LEMMA ConnectionKeeps ==
  ASSUME IdlingInv, NEW w \in Idling!Watches, Idling!Hear(w) \/ Idling!Wake(w) \/ Idling!Break(w)
  PROVE  IdlingInv'
<1> USE DEF IdlingInv, Idling!manager
<1>1. \/ \E heard \in BOOLEAN : watch' = [watch EXCEPT ![w].notice = FALSE, ![w].wake = heard]
      \/ watch' = [watch EXCEPT ![w].wake = FALSE]
      \/ watch[w].client = "open" /\ watch' = [watch EXCEPT ![w].client = "closed"]
  BY Zenon DEF Idling!Hear, Idling!Wake, Idling!Break
<1>2. watch \in [Idling!Watches -> Loops]
  BY DEF Idling!TypeOK, Loops
<1>3. /\ watch' \in [Idling!Watches -> Loops]
      /\ \A v \in Idling!Watches : /\ watch'[v].pc = watch[v].pc /\ watch'[v].cancelled = watch[v].cancelled
                             /\ \/ watch'[v].client = watch[v].client
                                \/ watch[v].client = "open" /\ watch'[v].client = "closed"
  <2>1. ASSUME NEW heard \in BOOLEAN, watch' = [watch EXCEPT ![w].notice = FALSE, ![w].wake = heard]
        PROVE  <1>3!:
    <3>1. watch' \in [Idling!Watches -> Loops] /\ \A v \in Idling!Watches \ {w} : watch'[v] = watch[v]
      BY <1>2, <2>1, MovedType DEF Idling!Steps
    <3>2. /\ watch'[w].pc = watch[w].pc /\ watch'[w].cancelled = watch[w].cancelled
          /\ watch'[w].client = watch[w].client
      BY <1>2, <2>1 DEF Loops
    <3> QED BY <3>1, <3>2
  <2>2. CASE watch' = [watch EXCEPT ![w].wake = FALSE]
    BY <1>2, <2>2 DEF Loops
  <2>3. CASE watch[w].client = "open" /\ watch' = [watch EXCEPT ![w].client = "closed"]
    BY <1>2, <2>3 DEF Loops
  <2> QED BY <1>1, <2>1, <2>2, <2>3
<1>4. UNCHANGED <<Idling!manager, eligible>> /\ {owed, missed}' \subseteq BOOLEAN
  BY DEF Idling!Hear, Idling!Wake, Idling!Break, Idling!TypeOK
<1>5. Idling!TypeOK'
  BY <1>3, <1>4 DEF Idling!TypeOK, Loops
<1>6. OthersCancelled' /\ CancelledCloses' /\ StoppedEnds'
  BY <1>3, <1>4 DEF OthersCancelled, CancelledCloses, StoppedEnds, Idling!TypeOK
<1> QED BY <1>5, <1>6

LEMMA IdlingNextKeeps == IdlingInv /\ [Idling!Next]_Idling!vars => IdlingInv'
<1> SUFFICES ASSUME IdlingInv, [Idling!Next]_Idling!vars PROVE IdlingInv'
  OBVIOUS
<1>1. CASE UNCHANGED Idling!vars
  BY <1>1 DEF Idling!vars, Idling!manager, IdlingInv, Idling!TypeOK, OthersCancelled, CancelledCloses, StoppedEnds
<1>2. CASE Idling!Next
  BY <1>2, RefreshKeeps, ManagerKeeps, LoopKeeps, ConnectionKeeps DEF Idling!Next
<1> QED BY <1>1, <1>2

LEMMA IdlingInvImplies == IdlingInv => Idling!OneConnection
BY DEF IdlingInv, Idling!OneConnection, Idling!TypeOK, OthersCancelled, CancelledCloses, StoppedEnds, Idling!Steps, Idling!Watches, Idling!NoWatch

\* Whatever refreshes, stops, starts and broken connections follow each other, the
\* loops and the map of IdleWatcherManager keep the invariant.
THEOREM IdlingInvariantHolds == Idling!Spec => []IdlingInv
<1> QED BY IdlingInitHolds, IdlingNextKeeps, PTL DEF Idling!Spec

\* Every variable keeps its type, and only a loop past its connect has a client.
THEOREM IdlingTypeCorrect == Idling!Spec => []Idling!TypeOK
<1>1. IdlingInv => Idling!TypeOK BY DEF IdlingInv
<1> QED BY <1>1, IdlingInvariantHolds, PTL

\* At most one IDLE connection to the inbox is open, that of the watch in the map,
\* and none while the manager is stopped.
THEOREM AtMostOneConnection == Idling!Spec => []Idling!OneConnection
<1> QED BY IdlingInvImplies, IdlingInvariantHolds, PTL

-----------------------------------------------------------------------------
(* The mailboxes of an account, and the role that the owner gave to one *)

CONSTANTS Special, RetryLimit, MaxPaths, MaxBoxes, MaxRows, MaxAsks, MaxChoices, MaxOutlived
VARIABLES server, created, row, stands, blind, role, chosen, enabled, status, job, work, web, asked, spent, listBudget

Discovery == INSTANCE MailboxDiscovery WITH budget <- listBudget

Listing == [at : UNION {[P -> Discovery!Boxes] : P \in SUBSET Discovery!Paths}, ids : BOOLEAN]
DiscoveryWork == [pc : {"idle", "start", "list", "reconcile", "detect", "success", "fail"}, listing : Listing, young : BOOLEAN]
Limits == {"changes", "asks", "choices", "faults", "outlived"}

DiscoveryTypes ==
  /\ server \in Listing /\ created \in Discovery!Boxes
  /\ row \in [Discovery!Rows -> Discovery!MailboxRow] /\ stands \in [Discovery!Rows -> Discovery!Boxes \cup {Discovery!None}] /\ blind \in BOOLEAN
  /\ role \in Discovery!RoleRow /\ chosen \in Discovery!Boxes \cup {Discovery!None} /\ enabled \in BOOLEAN /\ status \in Discovery!Statuses
  /\ job \in Discovery!JobState /\ work \in [Discovery!Handlers -> DiscoveryWork]
  /\ web \in {"none", "send", "sent", "coalesced", "refused"} /\ asked \in BOOLEAN /\ spent \in BOOLEAN
  /\ listBudget \in [Limits -> Nat]

\* The rows that are known are the first ones, and each has the path it was last seen at: a new row is none of them.
InOrder == \E k \in 0..MaxRows : \A r \in Discovery!Rows : row[r] # Discovery!Unused <=> r <= k
SeenAtPath == \A r \in Discovery!Rows : row[r] # Discovery!Unused => row[r].path # Discovery!None

\* A row with an id stands for the mailbox of that id.
StandsForId == ~blind => \A r \in Discovery!Rows : row[r].active /\ row[r].id # Discovery!None => stands[r] = row[r].id

\* The choice is the mapping of the role, to the row with the id of the chosen mailbox.
ChoiceIsMapped == chosen # Discovery!None => role.source = "manual" /\ role.row \in Discovery!Rows /\ row[role.row].id = chosen

DiscoveryInv == DiscoveryTypes /\ InOrder /\ SeenAtPath /\ StandsForId /\ ChoiceIsMapped

LEMMA DiscoveryBounds == ASSUME Discovery!DiscoveryAssumption
  PROVE /\ MaxPaths \in Nat \ {0} /\ MaxBoxes \in Nat \ {0} /\ MaxRows \in Nat \ {0} /\ RetryLimit \in Nat
        /\ MaxChanges \in Nat /\ MaxAsks \in Nat /\ MaxChoices \in Nat /\ MaxFaults \in Nat /\ MaxOutlived \in Nat
        /\ 1 \in Discovery!Boxes /\ 1 \in Discovery!Paths /\ Discovery!None \notin Discovery!Boxes /\ Discovery!None \notin Discovery!Paths /\ Discovery!None \notin Discovery!Rows
BY DEF Discovery!DiscoveryAssumption, Discovery!Boxes, Discovery!Paths, Discovery!Rows, Discovery!None

\* FiniteSets as the instance has it.
LEMMA SameCount == ASSUME NEW S PROVE Discovery!Cardinality(S) = Cardinality(S)
BY DEF Discovery!Cardinality, Cardinality

\* The members of a set of numbers, counted from the least, are numbered from 1 to their number.
LEMMA Ranks == ASSUME NEW n \in Nat, NEW N \in SUBSET (1..n)
  PROVE  /\ IsFiniteSet(N) /\ Cardinality(N) \in Nat
         /\ \A p \in N : Cardinality({q \in N : q <= p}) \in 1..Cardinality(N)
         /\ \A k \in 1..Cardinality(N) : \E p \in N : Cardinality({q \in N : q <= p}) = k
<1> DEFINE Below(p) == {q \in N : q <= p}
           f == [p \in N |-> Cardinality(Below(p))]
<1>1. IsFiniteSet(N) /\ Cardinality(N) \in Nat
  <2>1. IsFiniteSet(1..n)
    BY FS_Interval
  <2>2. IsFiniteSet(N)
    BY <2>1, FS_Subset
  <2> QED BY <2>2, FS_CardinalityType
<1>2. ASSUME NEW p \in N PROVE IsFiniteSet(Below(p)) /\ Cardinality(Below(p)) \in 1..Cardinality(N)
  <2>1. Below(p) \in SUBSET N /\ p \in Below(p)
    OBVIOUS
  <2>2. IsFiniteSet(Below(p)) /\ Cardinality(Below(p)) <= Cardinality(N)
    BY <1>1, <2>1, FS_Subset
  <2>3. Cardinality(Below(p)) \in Nat /\ Cardinality(Below(p)) # 0
    BY <2>1, <2>2, FS_CardinalityType, FS_EmptySet
  <2> QED BY <1>1, <2>2, <2>3
<1>3. ASSUME NEW p \in N, NEW q \in N, p < q PROVE Cardinality(Below(p)) # Cardinality(Below(q))
  <2>1. Below(p) \in SUBSET Below(q) /\ q \in Below(q) /\ q \notin Below(p)
    <3>1. \A x \in N : x \in Nat
      OBVIOUS
    <3>2. \A x \in N : x <= p => x <= q
      BY <1>3, <3>1
    <3>3. q <= q /\ ~(q <= p)
      BY <1>3, <3>1
    <3> QED BY <3>2, <3>3
  <2> QED BY <1>2, <2>1, FS_Subset
<1>4. f \in Injection(N, 1..Cardinality(N))
  <2>1. f \in [N -> 1..Cardinality(N)]
    BY <1>2
  <2>2. ASSUME NEW p \in N, NEW q \in N, f[p] = f[q] PROVE p = q
    BY <1>3, <2>2
  <2> QED BY <2>1, <2>2 DEF Injection, IsInjective
<1>5. IsFiniteSet(1..Cardinality(N)) /\ Cardinality(1..Cardinality(N)) = Cardinality(N)
  BY <1>1, FS_Interval
<1>6. f \in Surjection(N, 1..Cardinality(N))
  BY <1>1, <1>4, <1>5, FS_Injection
<1>7. \A k \in 1..Cardinality(N) : \E p \in N : f[p] = k
  BY <1>6 DEF Surjection
<1> QED BY <1>1, <1>2, <1>7

\* As many rows are known as come first.
LEMMA KnownRows == ASSUME Discovery!DiscoveryAssumption, DiscoveryInv
  PROVE /\ Cardinality(Discovery!Known) \in 0..MaxRows
        /\ \A r \in Discovery!Rows : row[r] # Discovery!Unused <=> r <= Cardinality(Discovery!Known)
<1>1. PICK k \in 0..MaxRows : \A r \in Discovery!Rows : row[r] # Discovery!Unused <=> r <= k
  BY DEF DiscoveryInv, InOrder
<1>2. Discovery!Known = 1..k
  BY <1>1, DiscoveryBounds DEF Discovery!Known, Discovery!Rows
<1>3. Cardinality(Discovery!Known) = k
  BY <1>2, DiscoveryBounds, FS_Interval
<1> QED BY <1>1, <1>3

LEMMA ListingFields == ASSUME NEW l \in Listing
  PROVE DOMAIN l.at \subseteq Discovery!Paths /\ l.ids \in BOOLEAN /\ \A p \in DOMAIN l.at : l.at[p] \in Discovery!Boxes
BY DEF Listing

\* What reconcile() does with the mailbox at a path.
LEMMA TargetIs == ASSUME Discovery!DiscoveryAssumption, DiscoveryInv, NEW l \in Listing,
  Cardinality(Discovery!Known) + Cardinality(Discovery!New(l)) <= MaxRows
  PROVE /\ Cardinality(Discovery!New(l)) \in Nat
        /\ \A p \in Discovery!New(l) : Discovery!NewRow(l, p) \in (Cardinality(Discovery!Known) + 1)..(Cardinality(Discovery!Known) + Cardinality(Discovery!New(l)))
        /\ \A r \in (Cardinality(Discovery!Known) + 1)..(Cardinality(Discovery!Known) + Cardinality(Discovery!New(l))) : \E p \in Discovery!New(l) : r = Discovery!NewRow(l, p)
        /\ \A p \in DOMAIN l.at, r \in Discovery!Rows : r \in Discovery!Target(l, p) =>
             \/ p \in Discovery!New(l) /\ r = Discovery!NewRow(l, p) /\ row[r] = Discovery!Unused
             \/ l.ids /\ row[r].id = l.at[p] /\ row[r] # Discovery!Unused
             \/ ~l.ids /\ row[r] # Discovery!Unused
             \/ row[r].id = Discovery!None /\ row[r] # Discovery!Unused
<1> DEFINE N == Discovery!New(l)  k == Cardinality(Discovery!Known)
<1>1. N \in SUBSET (1..MaxPaths) /\ MaxPaths \in Nat
  BY ListingFields, DiscoveryBounds DEF Discovery!New, Discovery!Paths
<1>2. /\ Cardinality(N) \in Nat
      /\ \A p \in N : Cardinality({q \in N : q <= p}) \in 1..Cardinality(N)
      /\ \A j \in 1..Cardinality(N) : \E p \in N : Cardinality({q \in N : q <= p}) = j
  BY <1>1, Ranks
<1>3. k \in 0..MaxRows /\ \A r \in Discovery!Rows : row[r] # Discovery!Unused <=> r <= k
  BY KnownRows
<1>4. \A p \in N : Discovery!NewRow(l, p) = k + Cardinality({q \in N : q <= p})
  BY SameCount DEF Discovery!NewRow
<1> HIDE DEF N, k
<1>5. \A p \in N : Discovery!NewRow(l, p) \in (k + 1)..(k + Cardinality(N))
  <2> SUFFICES ASSUME NEW p \in N PROVE Discovery!NewRow(l, p) \in (k + 1)..(k + Cardinality(N))
    OBVIOUS
  <2>1. PICK c \in 1..Cardinality(N) : Discovery!NewRow(l, p) = k + c
    BY <1>2, <1>4
  <2> QED BY <1>2, <1>3, <2>1
<1>6. ASSUME NEW r \in (k + 1)..(k + Cardinality(N)) PROVE \E p \in N : r = Discovery!NewRow(l, p)
  <2>1. r - k \in 1..Cardinality(N)
    BY <1>2, <1>3
  <2>2. PICK p \in N : Cardinality({q \in N : q <= p}) = r - k
    BY <1>2, <2>1
  <2> QED BY <1>3, <1>4, <2>2
<1>7. ASSUME NEW p \in DOMAIN l.at, NEW r \in Discovery!Rows, r \in Discovery!Target(l, p)
      PROVE  \/ p \in N /\ r = Discovery!NewRow(l, p) /\ row[r] = Discovery!Unused
             \/ l.ids /\ row[r].id = l.at[p] /\ row[r] # Discovery!Unused
             \/ ~l.ids /\ row[r] # Discovery!Unused
             \/ row[r].id = Discovery!None /\ row[r] # Discovery!Unused
  <2>1. CASE p \in N
    <3>1. r = Discovery!NewRow(l, p)
      BY <1>7, <2>1 DEF Discovery!Target, N
    <3>2. ~(r <= k)
      BY <1>2, <1>3, <1>5, <2>1, <3>1
    <3> QED BY <1>3, <2>1, <3>1, <3>2
  <2>2. CASE p \notin N
    <3>1. r \in Discovery!Match(l, p)
      BY <1>7, <2>2 DEF Discovery!Target, N
    <3>2. r \in Discovery!ById(l, p) \/ r \in Discovery!ByPath(l, p)
      BY <3>1 DEF Discovery!Match
    <3>3. CASE r \in Discovery!ById(l, p)
      <4>1. l.ids /\ row[r].id = l.at[p] /\ l.at[p] # Discovery!None
        BY <3>3, ListingFields, DiscoveryBounds DEF Discovery!ById
      <4>2. row[r] # Discovery!Unused
        BY <4>1 DEF Discovery!Unused
      <4> QED BY <4>1, <4>2
    <3>4. CASE r \in Discovery!ByPath(l, p)
      <4>1. row[r].active /\ (l.ids => row[r].id = Discovery!None)
        BY <3>4 DEF Discovery!ByPath
      <4>2. row[r] # Discovery!Unused
        BY <4>1 DEF Discovery!Unused
      <4>3. l.ids \in BOOLEAN
        BY ListingFields
      <4> QED BY <4>1, <4>2, <4>3
    <3> QED BY <3>2, <3>3, <3>4
  <2> QED BY <2>1, <2>2
<1> QED BY <1>2, <1>5, <1>6, <1>7 DEF N, k

LEMMA WorkFields == ASSUME DiscoveryInv, NEW h \in Discovery!Handlers
  PROVE work[h] \in DiscoveryWork /\ work[h].listing \in Listing /\ work[h].young \in BOOLEAN
BY DEF DiscoveryInv, DiscoveryTypes, DiscoveryWork

LEMMA GotoTypes == ASSUME DiscoveryInv, NEW h \in Discovery!Handlers,
  NEW step \in {"idle", "start", "list", "reconcile", "detect", "success", "fail"}, Discovery!Goto(h, step)
  PROVE work' \in [Discovery!Handlers -> DiscoveryWork]
<1>1. [work[h] EXCEPT !.pc = step] \in DiscoveryWork
  BY WorkFields DEF DiscoveryWork
<1>2. work' = [work EXCEPT ![h] = [work[h] EXCEPT !.pc = step]]
  BY DEF Discovery!Goto
<1> QED BY <1>1, <1>2 DEF DiscoveryInv, DiscoveryTypes

LEMMA SpendTypes == ASSUME DiscoveryInv, NEW what \in Limits, Discovery!Spend(what) PROVE listBudget' \in [Limits -> Nat]
<1>1. listBudget \in [Limits -> Nat] /\ listBudget[what] \in Nat /\ listBudget[what] > 0
  BY DEF DiscoveryInv, DiscoveryTypes, Discovery!Spend
<1>2. listBudget[what] - 1 \in Nat
  BY <1>1
<1> QED BY <1>1, <1>2 DEF Discovery!Spend

LEMMA IdleWork == ASSUME Discovery!DiscoveryAssumption
  PROVE Discovery!NoListing \in Listing /\ Discovery!NoWork \in DiscoveryWork /\ Discovery!NoWork.pc = "idle" /\ Discovery!NoWork.listing = Discovery!NoListing /\ Discovery!NoWork.young = FALSE
<1>1. [p \in {} |-> Discovery!None] \in [{} -> Discovery!Boxes]
  OBVIOUS
<1>2. {} \in SUBSET Discovery!Paths
  OBVIOUS
<1>3. Discovery!NoListing \in Listing
  BY <1>1, <1>2 DEF Discovery!NoListing, Listing
<1> QED BY <1>3 DEF Discovery!NoWork, DiscoveryWork

LEMMA JobFields == ASSUME Discovery!DiscoveryAssumption, DiscoveryInv
  PROVE /\ job.waits \in BOOLEAN /\ job.again \in 0..RetryLimit /\ job.runs \in 0..RetryLimit + 1
        /\ [job EXCEPT !.runs = 0] \in Discovery!JobState /\ Discovery!Repeat \in Discovery!JobState
<1>1. job \in Discovery!JobState /\ RetryLimit \in Nat
  BY DiscoveryBounds DEF DiscoveryInv, DiscoveryTypes
<1>2. job.waits \in BOOLEAN /\ job.again \in 0..RetryLimit /\ job.runs \in 0..RetryLimit + 1
  BY <1>1 DEF Discovery!JobState
<1>3. [job EXCEPT !.runs = 0] \in Discovery!JobState
  BY <1>1, <1>2 DEF Discovery!JobState
<1>4. PICK a : a = IF job.runs <= RetryLimit THEN job.runs ELSE job.again
  OBVIOUS
<1>5. Discovery!Repeat \in Discovery!JobState
  <2>1. a \in 0..RetryLimit
    BY <1>1, <1>2, <1>4
  <2>2. Discovery!Repeat = [job EXCEPT !.runs = 0, !.again = a]
    BY <1>4 DEF Discovery!Repeat
  <2>3. 0 \in 0..RetryLimit + 1
    BY <1>1
  <2>4. [job EXCEPT !.runs = 0, !.again = a] \in Discovery!JobState
    BY <1>1, <1>2, <2>1, <2>3 DEF Discovery!JobState
  <2> QED BY <2>2, <2>4
<1> QED BY <1>2, <1>3, <1>5

\* A step that leaves rows and mapping alone has only types to keep.
LEMMA OthersKeep == ASSUME DiscoveryInv, DiscoveryTypes', UNCHANGED <<Discovery!local, Discovery!mapping>> PROVE DiscoveryInv'
BY DEF DiscoveryInv, Discovery!local, Discovery!mapping, InOrder, SeenAtPath, StandsForId, ChoiceIsMapped, Discovery!Known

LEMMA ServerKeeps == ASSUME Discovery!DiscoveryAssumption, DiscoveryInv, Discovery!ServerChanges PROVE DiscoveryInv'
<1>1. listBudget' \in [Limits -> Nat] /\ UNCHANGED <<Discovery!local, Discovery!mapping, enabled, status, Discovery!queue, work>>
  BY SpendTypes DEF Discovery!ServerChanges, Limits
<1>2. server \in Listing /\ created \in Discovery!Boxes /\ DOMAIN server.at \subseteq Discovery!Paths /\ server.ids \in BOOLEAN
      /\ \A p \in DOMAIN server.at : server.at[p] \in Discovery!Boxes
  BY ListingFields DEF DiscoveryInv, DiscoveryTypes
<1>3. server' \in Listing /\ created' \in Discovery!Boxes
  <2>1. ASSUME NEW P \in SUBSET Discovery!Paths, NEW g \in [P -> Discovery!Boxes], server' = [server EXCEPT !.at = g]
          PROVE server' \in Listing
    BY <1>2, <2>1 DEF Listing
  <2>2. ASSUME NEW p \in DOMAIN server.at, NEW q \in Discovery!Paths \ DOMAIN server.at,
               server' = [server EXCEPT !.at = [x \in (DOMAIN server.at \ {p}) \cup {q} |-> server.at[IF x = q THEN p ELSE x]]]
        PROVE  server' \in Listing
    <3>1. (DOMAIN server.at \ {p}) \cup {q} \in SUBSET Discovery!Paths
      BY <1>2
    <3>2. [x \in (DOMAIN server.at \ {p}) \cup {q} |-> server.at[IF x = q THEN p ELSE x]] \in [(DOMAIN server.at \ {p}) \cup {q} -> Discovery!Boxes]
      BY <1>2
    <3> QED BY <2>1, <2>2, <3>1, <3>2
  <2>3. ASSUME NEW p \in DOMAIN server.at, server' = [server EXCEPT !.at = [x \in DOMAIN server.at \ {p} |-> server.at[x]]]
        PROVE  server' \in Listing
    <3>1. DOMAIN server.at \ {p} \in SUBSET Discovery!Paths
      BY <1>2
    <3>2. [x \in DOMAIN server.at \ {p} |-> server.at[x]] \in [DOMAIN server.at \ {p} -> Discovery!Boxes]
      BY <1>2
    <3> QED BY <2>1, <2>3, <3>1, <3>2
  <2>4. ASSUME NEW q \in Discovery!Paths \ DOMAIN server.at, created < MaxBoxes, created' = created + 1,
               server' = [server EXCEPT !.at = [x \in DOMAIN server.at \cup {q} |-> IF x = q THEN created' ELSE server.at[x]]]
        PROVE  server' \in Listing /\ created' \in Discovery!Boxes
    <3>1. created' \in Discovery!Boxes
      BY <1>2, <2>4, DiscoveryBounds DEF Discovery!Boxes
    <3>2. DOMAIN server.at \cup {q} \in SUBSET Discovery!Paths
      BY <1>2
    <3>3. [x \in DOMAIN server.at \cup {q} |-> IF x = q THEN created' ELSE server.at[x]] \in [DOMAIN server.at \cup {q} -> Discovery!Boxes]
      BY <1>2, <3>1
    <3> QED BY <2>1, <2>4, <3>1, <3>2, <3>3
  <2>5. ASSUME server' = [server EXCEPT !.ids = TRUE] PROVE server' \in Listing
    BY <1>2, <2>5 DEF Listing
  <2> QED BY <1>2, <2>2, <2>3, <2>4, <2>5 DEF Discovery!ServerChanges
<1>4. DiscoveryTypes'
  BY <1>1, <1>3 DEF DiscoveryInv, DiscoveryTypes, Discovery!local, Discovery!mapping, Discovery!queue
<1> QED BY <1>1, <1>4, OthersKeep

LEMMA RequestKeeps == ASSUME Discovery!DiscoveryAssumption, DiscoveryInv,
  Discovery!Disable \/ Discovery!Ask \/ Discovery!Web
  PROVE DiscoveryInv'
<1>1. CASE Discovery!Disable
  <2>1. listBudget' \in [Limits -> Nat]
    BY <1>1, SpendTypes DEF Discovery!Disable, Limits
  <2>2. DiscoveryTypes'
    BY <1>1, <2>1 DEF Discovery!Disable, DiscoveryInv, DiscoveryTypes, Discovery!remote, Discovery!local,
       Discovery!mapping, Discovery!queue
  <2> QED BY <1>1, <2>2, OthersKeep DEF Discovery!Disable
<1>2. CASE Discovery!Ask
  <2>1. listBudget' \in [Limits -> Nat]
    BY <1>2, SpendTypes DEF Discovery!Ask, Limits
  <2>2. DiscoveryTypes'
    BY <1>2, <2>1 DEF Discovery!Ask, DiscoveryInv, DiscoveryTypes, Discovery!remote, Discovery!local, Discovery!mapping
  <2> QED BY <1>2, <2>2, OthersKeep DEF Discovery!Ask
<1>3. CASE Discovery!Send
  <2>1. listBudget' \in [Limits -> Nat]
    BY <1>3, SpendTypes DEF Discovery!Send, Limits, DiscoveryInv, DiscoveryTypes
  <2>2. [job EXCEPT !.waits = TRUE] \in Discovery!JobState
    BY DEF Discovery!JobState, DiscoveryInv, DiscoveryTypes
  <2>3. [h \in Discovery!Handlers |-> [work[h] EXCEPT !.young = FALSE]] \in [Discovery!Handlers -> DiscoveryWork]
    BY WorkFields DEF DiscoveryWork
  <2>4. job' \in Discovery!JobState /\ work' \in [Discovery!Handlers -> DiscoveryWork] /\ asked' \in BOOLEAN
        /\ web' \in {"none", "send", "sent", "coalesced", "refused"}
    BY <1>3, <2>2, <2>3 DEF Discovery!Send, DiscoveryInv, DiscoveryTypes
  <2>5. DiscoveryTypes'
    BY <1>3, <2>1, <2>4 DEF Discovery!Send, DiscoveryInv, DiscoveryTypes, Discovery!remote, Discovery!local, Discovery!mapping
  <2> QED BY <1>3, <2>5, OthersKeep DEF Discovery!Send
<1>4. CASE Discovery!Mark
  <2>1. status' \in Discovery!Statuses
    BY <1>4 DEF Discovery!Mark, Discovery!Statuses, DiscoveryInv, DiscoveryTypes
  <2>2. DiscoveryTypes'
    BY <1>4, <2>1 DEF Discovery!Mark, DiscoveryInv, DiscoveryTypes, Discovery!remote, Discovery!local, Discovery!mapping
  <2> QED BY <1>4, <2>2, OthersKeep DEF Discovery!Mark
<1> QED BY <1>1, <1>2, <1>3, <1>4 DEF Discovery!Web

LEMMA TakeKeeps == ASSUME Discovery!DiscoveryAssumption, DiscoveryInv, Discovery!Take PROVE DiscoveryInv'
<1>1. [Discovery!NoWork EXCEPT !.pc = "start"] \in DiscoveryWork
  BY IdleWork DEF DiscoveryWork
<1>2. work' \in [Discovery!Handlers -> DiscoveryWork]
  BY <1>1 DEF Discovery!Take, DiscoveryInv, DiscoveryTypes
<1>3. job' \in Discovery!JobState
  <2>1. job \in Discovery!JobState /\ RetryLimit \in Nat /\ job.again \in 0..RetryLimit
    BY JobFields, DiscoveryBounds DEF DiscoveryInv, DiscoveryTypes
  <2>2. job.again + 1 \in 0..RetryLimit + 1 /\ 1 \in 0..RetryLimit + 1 /\ 0 \in 0..RetryLimit
    BY <2>1
  <2>3. [job EXCEPT !.waits = FALSE, !.runs = 1] \in Discovery!JobState /\ [job EXCEPT !.again = 0, !.runs = job.again + 1] \in Discovery!JobState
    BY <2>1, <2>2 DEF Discovery!JobState
  <2> QED BY <2>3 DEF Discovery!Take
<1>4. DiscoveryTypes'
  BY <1>2, <1>3 DEF Discovery!Take, DiscoveryInv, DiscoveryTypes, Discovery!remote, Discovery!local, Discovery!mapping
<1> QED BY <1>4, OthersKeep DEF Discovery!Take

LEMMA StartKeeps == ASSUME Discovery!DiscoveryAssumption, DiscoveryInv, NEW h \in Discovery!Handlers,
  Discovery!Start(h)
  PROVE DiscoveryInv'
<1>1. work' \in [Discovery!Handlers -> DiscoveryWork]
  BY GotoTypes DEF Discovery!Start
<1>2. DiscoveryTypes'
  BY <1>1 DEF Discovery!Start, Discovery!Statuses, DiscoveryInv, DiscoveryTypes, Discovery!remote, Discovery!local,
     Discovery!mapping, Discovery!queue
<1> QED BY <1>2, OthersKeep DEF Discovery!Start

LEMMA ListKeeps == ASSUME Discovery!DiscoveryAssumption, DiscoveryInv, NEW h \in Discovery!Handlers, Discovery!List(h)
  PROVE DiscoveryInv'
<1>1. [pc |-> "reconcile", listing |-> server, young |-> asked] \in DiscoveryWork
  BY DEF DiscoveryWork, DiscoveryInv, DiscoveryTypes
<1>2. work' \in [Discovery!Handlers -> DiscoveryWork]
  <2>1. CASE work' = [work EXCEPT ![h] = [pc |-> "reconcile", listing |-> server, young |-> asked]]
    BY <1>1, <2>1 DEF DiscoveryInv, DiscoveryTypes
  <2> QED BY <2>1, GotoTypes DEF Discovery!List
<1>3. listBudget' \in [Limits -> Nat]
  <2>1. CASE Discovery!Spend("faults")
    BY <2>1, SpendTypes DEF Limits
  <2> QED BY <2>1 DEF Discovery!List, DiscoveryInv, DiscoveryTypes
<1>4. DiscoveryTypes'
  BY <1>2, <1>3 DEF Discovery!List, DiscoveryInv, DiscoveryTypes, Discovery!remote, Discovery!local,
     Discovery!mapping, Discovery!queue
<1> QED BY <1>4, OthersKeep DEF Discovery!List

LEMMA EndKeeps == ASSUME Discovery!DiscoveryAssumption, DiscoveryInv, NEW h \in Discovery!Handlers,
  Discovery!Succeed(h) \/ Discovery!Fail(h)
  PROVE DiscoveryInv'
<1>1. work' \in [Discovery!Handlers -> DiscoveryWork]
  BY IdleWork DEF Discovery!Succeed, Discovery!Fail, DiscoveryInv, DiscoveryTypes
<1>2. job' \in Discovery!JobState
  BY JobFields DEF Discovery!Succeed, Discovery!Fail, DiscoveryInv, DiscoveryTypes
<1>3. asked' \in BOOLEAN
  BY DEF Discovery!Succeed, Discovery!Fail, DiscoveryInv, DiscoveryTypes
<1>4. DiscoveryTypes'
  BY <1>1, <1>2, <1>3 DEF Discovery!Succeed, Discovery!Fail, Discovery!Statuses, DiscoveryInv, DiscoveryTypes,
     Discovery!remote, Discovery!local, Discovery!mapping
<1> QED BY <1>4, OthersKeep DEF Discovery!Succeed, Discovery!Fail

LEMMA CrashKeeps == ASSUME Discovery!DiscoveryAssumption, DiscoveryInv, Discovery!Die \/ Discovery!Outlive PROVE DiscoveryInv'
<1>1. work' \in [Discovery!Handlers -> DiscoveryWork]
  <2>1. CASE Discovery!Die
    BY <2>1, IdleWork DEF Discovery!Die
  <2>2. CASE Discovery!Outlive
    BY <2>2, IdleWork DEF Discovery!Outlive, Discovery!Handlers, DiscoveryInv, DiscoveryTypes
  <2> QED BY <2>1, <2>2
<1>2. listBudget' \in [Limits -> Nat] /\ job' \in Discovery!JobState
  BY JobFields, SpendTypes DEF Discovery!Die, Discovery!Outlive, Limits
<1>3. spent' \in BOOLEAN
  BY DEF Discovery!Die, Discovery!Outlive, DiscoveryInv, DiscoveryTypes
<1>4. DiscoveryTypes'
  BY <1>1, <1>2, <1>3 DEF Discovery!Die, Discovery!Outlive, DiscoveryInv, DiscoveryTypes, Discovery!remote,
     Discovery!local, Discovery!mapping
<1> QED BY <1>4, OthersKeep DEF Discovery!Die, Discovery!Outlive

LEMMA ReconcileKeeps == ASSUME Discovery!DiscoveryAssumption, DiscoveryInv, NEW h \in Discovery!Handlers,
  Discovery!Reconcile(h)
  PROVE DiscoveryInv'
<1> DEFINE l == work[h].listing
           at(r) == {p \in DOMAIN l.at : r \in Discovery!Target(l, p)}
           k == Cardinality(Discovery!Known)  n == Cardinality(Discovery!New(l))
<1>1. l \in Listing /\ DOMAIN l.at \subseteq Discovery!Paths /\ l.ids \in BOOLEAN /\ \A p \in DOMAIN l.at : l.at[p] \in Discovery!Boxes
  BY WorkFields, ListingFields
<1>2. /\ k + n <= MaxRows
      /\ row' = [r \in Discovery!Rows |-> IF at(r) # {} THEN Discovery!Observed(l, CHOOSE p \in at(r) : TRUE, r) ELSE [row[r] EXCEPT !.active = FALSE]]
      /\ stands' = [r \in Discovery!Rows |-> IF at(r) # {} THEN l.at[CHOOSE p \in at(r) : TRUE] ELSE stands[r]]
      /\ blind' = (blind \/ (~l.ids /\ \E r \in Discovery!Rows : row[r].id # Discovery!None))
      /\ asked' = (asked /\ ~work[h].young)
      /\ UNCHANGED <<Discovery!remote, Discovery!mapping, enabled, status, job, web, spent, listBudget>>
  BY SameCount DEF Discovery!Reconcile
<1>3. /\ k \in 0..MaxRows /\ MaxRows \in Nat /\ n \in Nat
      /\ \A r \in Discovery!Rows : row[r] # Discovery!Unused <=> r <= k
      /\ \A p \in Discovery!New(l) : Discovery!NewRow(l, p) \in (k + 1)..(k + n)
      /\ \A r \in (k + 1)..(k + n) : \E p \in Discovery!New(l) : r = Discovery!NewRow(l, p)
      /\ \A p \in DOMAIN l.at, r \in Discovery!Rows : r \in Discovery!Target(l, p) =>
             \/ p \in Discovery!New(l) /\ r = Discovery!NewRow(l, p) /\ row[r] = Discovery!Unused
             \/ l.ids /\ row[r].id = l.at[p] /\ row[r] # Discovery!Unused
             \/ ~l.ids /\ row[r] # Discovery!Unused
             \/ row[r].id = Discovery!None /\ row[r] # Discovery!Unused
  BY <1>1, <1>2, KnownRows, TargetIs, DiscoveryBounds
<1>4. ASSUME NEW r \in Discovery!Rows, at(r) # {}
      PROVE  \E p \in DOMAIN l.at : /\ r \in Discovery!Target(l, p) /\ row'[r] = Discovery!Observed(l, p, r) /\ stands'[r] = l.at[p]
  <2>1. PICK p : p = CHOOSE x \in at(r) : TRUE
    OBVIOUS
  <2>2. p \in at(r)
    BY <1>4, <2>1
  <2> QED BY <1>2, <1>4, <2>1, <2>2
<1>5. ASSUME NEW r \in Discovery!Rows, at(r) = {} PROVE row'[r] = [row[r] EXCEPT !.active = FALSE] /\ stands'[r] = stands[r]
  BY <1>2, <1>5
<1>6. \A r \in Discovery!Rows : row[r] \in Discovery!MailboxRow /\ stands[r] \in Discovery!Boxes \cup {Discovery!None}
  BY DEF DiscoveryInv, DiscoveryTypes
<1>7. \A r \in Discovery!Rows : row[r].id \in Discovery!Boxes \cup {Discovery!None} /\ row[r].active \in BOOLEAN /\ row[r].path \in Discovery!Paths \cup {Discovery!None}
  BY <1>6 DEF Discovery!MailboxRow
<1> HIDE DEF l, at, k, n
<1>8. ASSUME NEW r \in Discovery!Rows, NEW p \in DOMAIN l.at
      PROVE  /\ Discovery!Observed(l, p, r) \in Discovery!MailboxRow /\ Discovery!Observed(l, p, r) # Discovery!Unused /\ Discovery!Observed(l, p, r).path # Discovery!None
             /\ Discovery!Observed(l, p, r).id = (IF l.ids THEN l.at[p] ELSE row[r].id) /\ Discovery!Observed(l, p, r).active
  <2>1. p \in Discovery!Paths /\ p # Discovery!None /\ l.at[p] \in Discovery!Boxes
    BY <1>1, DiscoveryBounds
  <2>2. Discovery!Observed(l, p, r) \in Discovery!MailboxRow
    BY <1>1, <1>7, <2>1 DEF Discovery!Observed, Discovery!MailboxRow
  <2>3. Discovery!Observed(l, p, r).path = p /\ Discovery!Observed(l, p, r).active /\ Discovery!Observed(l, p, r).id = (IF l.ids THEN l.at[p] ELSE row[r].id)
    BY DEF Discovery!Observed
  <2> QED BY <2>1, <2>2, <2>3 DEF Discovery!Unused
<1>9. ASSUME NEW r \in Discovery!Rows
      PROVE  /\ [row[r] EXCEPT !.active = FALSE] \in Discovery!MailboxRow
             /\ [row[r] EXCEPT !.active = FALSE].active = FALSE /\ [row[r] EXCEPT !.active = FALSE].id = row[r].id
             /\ [row[r] EXCEPT !.active = FALSE].path = row[r].path
             /\ row[r] = Discovery!Unused => [row[r] EXCEPT !.active = FALSE] = Discovery!Unused
  <2>1. [row[r] EXCEPT !.active = FALSE] \in Discovery!MailboxRow
    BY <1>6 DEF Discovery!MailboxRow
  <2>2. /\ [row[r] EXCEPT !.active = FALSE].active = FALSE /\ [row[r] EXCEPT !.active = FALSE].id = row[r].id
        /\ [row[r] EXCEPT !.active = FALSE].path = row[r].path
    BY <1>6 DEF Discovery!MailboxRow
  <2>3. ASSUME row[r] = Discovery!Unused PROVE [row[r] EXCEPT !.active = FALSE] = Discovery!Unused
    <3>1. Discovery!Unused \in Discovery!MailboxRow
      BY DEF Discovery!Unused, Discovery!MailboxRow
    <3>2. PICK x \in Discovery!MailboxRow : x = [row[r] EXCEPT !.active = FALSE]
      BY <2>1
    <3>3. x.id = Discovery!Unused.id /\ x.path = Discovery!Unused.path /\ x.active = Discovery!Unused.active /\ x.special = Discovery!Unused.special
      BY <1>6, <2>3, <3>2 DEF Discovery!MailboxRow, Discovery!Unused
    <3> QED BY <3>1, <3>2, <3>3 DEF Discovery!MailboxRow
  <2> QED BY <2>1, <2>2, <2>3
<1>10. DiscoveryTypes'
  <2>1. ASSUME NEW r \in Discovery!Rows
          PROVE row'[r] \in Discovery!MailboxRow /\ stands'[r] \in Discovery!Boxes \cup {Discovery!None}
    <3>1. CASE at(r) # {}
      BY <1>1, <1>4, <1>8, <3>1
    <3>2. CASE at(r) = {}
      BY <1>5, <1>6, <1>9, <3>2
    <3> QED BY <3>1, <3>2
  <2>2. row' \in [Discovery!Rows -> Discovery!MailboxRow] /\ stands' \in [Discovery!Rows -> Discovery!Boxes \cup {Discovery!None}]
    BY <1>2, <2>1
  <2>3. work' \in [Discovery!Handlers -> DiscoveryWork]
    BY GotoTypes DEF Discovery!Reconcile
  <2>4. blind' \in BOOLEAN /\ asked' \in BOOLEAN
    BY <1>2 DEF DiscoveryInv, DiscoveryTypes
  <2> QED BY <1>2, <2>2, <2>3, <2>4 DEF DiscoveryInv, DiscoveryTypes, Discovery!remote, Discovery!mapping
<1>11. InOrder'
  <2>1. k + n \in 0..MaxRows
    BY <1>2, <1>3
  <2>2. ASSUME NEW r \in Discovery!Rows PROVE row'[r] # Discovery!Unused <=> r <= k + n
    <3>1. r \in Nat /\ r >= 1 /\ k \in Nat
      BY <1>3 DEF Discovery!Rows
    <3>2. CASE at(r) # {}
      <4>1. PICK p \in DOMAIN l.at : r \in Discovery!Target(l, p) /\ row'[r] = Discovery!Observed(l, p, r)
        BY <1>4, <3>2
      <4>2. r <= k \/ (p \in Discovery!New(l) /\ r = Discovery!NewRow(l, p))
        BY <1>3, <4>1
      <4>3. r <= k + n
        BY <1>3, <3>1, <4>2
      <4> QED BY <1>8, <4>1, <4>3
    <3>3. CASE at(r) = {}
      <4>1. ~(r \in (k + 1)..(k + n))
        <5> SUFFICES ASSUME r \in (k + 1)..(k + n) PROVE FALSE
          OBVIOUS
        <5>1. PICK p \in Discovery!New(l) : r = Discovery!NewRow(l, p)
          BY <1>3
        <5>2. p \in DOMAIN l.at /\ r \in Discovery!Target(l, p)
          BY <5>1 DEF Discovery!Target, Discovery!New
        <5> QED BY <3>3, <5>2 DEF at
      <4>2. CASE r <= k
        <5>1. row[r] # Discovery!Unused /\ row[r].path # Discovery!None
          BY <1>3, <4>2 DEF DiscoveryInv, SeenAtPath
        <5>2. row'[r].path # Discovery!None
          BY <1>5, <1>9, <3>3, <5>1
        <5> QED BY <1>3, <3>1, <4>2, <5>2 DEF Discovery!Unused
      <4>3. CASE ~(r <= k)
        <5>1. row[r] = Discovery!Unused
          BY <1>3, <4>3
        <5>2. row'[r] = Discovery!Unused
          BY <1>5, <1>9, <3>3, <5>1
        <5>3. ~(r <= k + n)
          BY <1>3, <3>1, <4>1, <4>3
        <5> QED BY <5>2, <5>3
      <4> QED BY <4>2, <4>3
    <3> QED BY <3>2, <3>3
  <2> QED BY <2>1, <2>2 DEF InOrder
<1>12. SeenAtPath'
  <2> SUFFICES ASSUME NEW r \in Discovery!Rows, row'[r] # Discovery!Unused PROVE row'[r].path # Discovery!None
    BY DEF SeenAtPath
  <2>1. CASE at(r) # {}
    BY <1>4, <1>8, <2>1
  <2>2. CASE at(r) = {}
    <3>1. row[r] # Discovery!Unused /\ row'[r].path = row[r].path
      BY <1>5, <1>9, <2>2
    <3> QED BY <3>1 DEF DiscoveryInv, SeenAtPath
  <2> QED BY <2>1, <2>2
<1>13. StandsForId'
  <2> SUFFICES ASSUME ~blind', NEW r \in Discovery!Rows, row'[r].active, row'[r].id # Discovery!None
                 PROVE stands'[r] = row'[r].id
    BY DEF StandsForId
  <2>1. l.ids \/ \A x \in Discovery!Rows : row[x].id = Discovery!None
    BY <1>2
  <2>2. at(r) # {}
    BY <1>5, <1>9
  <2>3. PICK p \in DOMAIN l.at : row'[r] = Discovery!Observed(l, p, r) /\ stands'[r] = l.at[p]
    BY <1>4, <2>2
  <2>4. row'[r].id = (IF l.ids THEN l.at[p] ELSE row[r].id)
    BY <1>8, <2>3
  <2> QED BY <2>1, <2>3, <2>4
<1>14. ChoiceIsMapped'
  <2> SUFFICES ASSUME chosen # Discovery!None
                 PROVE role.source = "manual" /\ role.row \in Discovery!Rows /\ row'[role.row].id = chosen
    BY <1>2 DEF ChoiceIsMapped, Discovery!mapping
  <2>1. role.source = "manual" /\ role.row \in Discovery!Rows /\ row[role.row].id = chosen
    BY DEF DiscoveryInv, ChoiceIsMapped
  <2>2. PICK r \in Discovery!Rows : r = role.row
    BY <2>1
  <2>3. CASE at(r) = {}
    BY <1>5, <1>9, <2>1, <2>2, <2>3
  <2>4. CASE at(r) # {}
    <3>1. PICK p \in DOMAIN l.at : r \in Discovery!Target(l, p) /\ row'[r] = Discovery!Observed(l, p, r)
      BY <1>4, <2>4
    <3>2. row'[r].id = (IF l.ids THEN l.at[p] ELSE row[r].id)
      BY <1>8, <3>1
    <3>3. row[r].id # Discovery!None /\ row[r] # Discovery!Unused
      BY <2>1, <2>2 DEF Discovery!Unused
    <3>4. ~l.ids \/ row[r].id = l.at[p]
      BY <1>3, <3>1, <3>3
    <3> QED BY <1>1, <2>1, <2>2, <3>2, <3>4
  <2> QED BY <2>1, <2>2, <2>3, <2>4
<1> QED BY <1>10, <1>11, <1>12, <1>13, <1>14 DEF DiscoveryInv

\* A role that is detected is one without a mapping: a choice stays.
LEMMA OneMarked == ASSUME Cardinality(Discovery!Marked) = 1 PROVE (CHOOSE r \in Discovery!Marked : TRUE) \in Discovery!Rows
<1>1. Discovery!Marked # {}
  BY FS_EmptySet
<1> QED BY <1>1 DEF Discovery!Marked

LEMMA MappingKeeps == ASSUME DiscoveryInv, DiscoveryTypes', UNCHANGED Discovery!local, ChoiceIsMapped' PROVE DiscoveryInv'
BY DEF DiscoveryInv, Discovery!local, InOrder, SeenAtPath, StandsForId

LEMMA DetectKeeps == ASSUME Discovery!DiscoveryAssumption, DiscoveryInv, NEW h \in Discovery!Handlers,
  Discovery!Detect(h)
  PROVE DiscoveryInv'
<1>1. role' \in Discovery!RoleRow /\ (role # Discovery!NoRole => role' = role)
  <2>1. role \in Discovery!RoleRow
    BY DEF DiscoveryInv, DiscoveryTypes
  <2>2. CASE role = Discovery!NoRole /\ Cardinality(Discovery!Marked) = 1
    BY <2>2, OneMarked, SameCount DEF Discovery!Detect, Discovery!Detected, Discovery!RoleRow
  <2> QED BY <2>1, <2>2, SameCount DEF Discovery!Detect, Discovery!Detected
<1>2. work' \in [Discovery!Handlers -> DiscoveryWork]
  BY GotoTypes DEF Discovery!Detect
<1>3. DiscoveryTypes'
  BY <1>1, <1>2 DEF Discovery!Detect, DiscoveryInv, DiscoveryTypes, Discovery!remote, Discovery!local, Discovery!queue
<1>4. ChoiceIsMapped'
  BY <1>1 DEF Discovery!Detect, DiscoveryInv, ChoiceIsMapped, Discovery!NoRole, Discovery!local
<1> QED BY <1>3, <1>4, MappingKeeps DEF Discovery!Detect

LEMMA ChoosingKeeps == ASSUME Discovery!DiscoveryAssumption, DiscoveryInv,
  Discovery!SetManual \/ Discovery!ClearManual
  PROVE DiscoveryInv'
<1>1. CASE Discovery!SetManual
  <2>1. PICK r \in Discovery!Rows : role' = [row |-> r, source |-> "manual"] /\ chosen' = row[r].id
    BY <1>1 DEF Discovery!SetManual
  <2>2. row[r].id \in Discovery!Boxes \cup {Discovery!None}
    BY DEF DiscoveryInv, DiscoveryTypes, Discovery!MailboxRow
  <2>3. listBudget' \in [Limits -> Nat]
    BY <1>1, SpendTypes DEF Discovery!SetManual, Limits
  <2>4. role' \in Discovery!RoleRow
    BY <2>1 DEF Discovery!RoleRow
  <2>5. DiscoveryTypes'
    BY <1>1, <2>1, <2>2, <2>3, <2>4 DEF Discovery!SetManual, DiscoveryInv, DiscoveryTypes, Discovery!remote,
       Discovery!local, Discovery!queue
  <2>6. ChoiceIsMapped'
    BY <1>1, <2>1 DEF Discovery!SetManual, ChoiceIsMapped, Discovery!local
  <2> QED BY <1>1, <2>5, <2>6, MappingKeeps DEF Discovery!SetManual
<1>2. CASE Discovery!ClearManual
  <2>1. role' \in Discovery!RoleRow
    BY <1>2, OneMarked, SameCount DEF Discovery!ClearManual, Discovery!RoleRow, Discovery!NoRole
  <2>2. DiscoveryTypes'
    BY <1>2, <2>1 DEF Discovery!ClearManual, DiscoveryInv, DiscoveryTypes, Discovery!remote, Discovery!local, Discovery!queue
  <2>3. ChoiceIsMapped'
    BY <1>2 DEF Discovery!ClearManual, ChoiceIsMapped
  <2> QED BY <1>2, <2>2, <2>3, MappingKeeps DEF Discovery!ClearManual
<1> QED BY <1>1, <1>2

LEMMA DiscoveryInitHolds == ASSUME Discovery!DiscoveryAssumption, Discovery!Init PROVE DiscoveryInv
<1>1. server \in Listing
  <2>1. [p \in {1} |-> 1] \in [{1} -> Discovery!Boxes] /\ {1} \in SUBSET Discovery!Paths
    BY DiscoveryBounds
  <2>2. PICK b \in BOOLEAN : server = [at |-> [p \in {1} |-> 1], ids |-> b]
    BY DEF Discovery!Init
  <2> QED BY <2>1, <2>2 DEF Listing
<1>2. created \in Discovery!Boxes
  BY DiscoveryBounds DEF Discovery!Init
<1>3. row \in [Discovery!Rows -> Discovery!MailboxRow] /\ stands \in [Discovery!Rows -> Discovery!Boxes \cup {Discovery!None}]
  BY DEF Discovery!Init, Discovery!MailboxRow, Discovery!Unused
<1>4. role \in Discovery!RoleRow /\ chosen \in Discovery!Boxes \cup {Discovery!None} /\ status \in Discovery!Statuses /\ web = "none"
  BY DEF Discovery!Init, Discovery!RoleRow, Discovery!NoRole, Discovery!Statuses
<1>5. job \in Discovery!JobState
  <2>1. 0 \in 0..RetryLimit /\ 0 \in 0..RetryLimit + 1
    BY DiscoveryBounds
  <2> QED BY <2>1 DEF Discovery!Init, Discovery!JobState
<1>6. work \in [Discovery!Handlers -> DiscoveryWork]
  BY IdleWork DEF Discovery!Init
<1>7. listBudget \in [Limits -> Nat]
  BY DiscoveryBounds DEF Discovery!Init, Limits
<1>8. enabled \in BOOLEAN /\ blind \in BOOLEAN /\ asked \in BOOLEAN /\ spent \in BOOLEAN
  BY DEF Discovery!Init
<1>9. DiscoveryTypes
  BY <1>1, <1>2, <1>3, <1>4, <1>5, <1>6, <1>7, <1>8 DEF DiscoveryTypes
<1>10. InOrder
  <2>1. 0 \in 0..MaxRows /\ \A r \in Discovery!Rows : ~(r <= 0) /\ row[r] = Discovery!Unused
    BY DiscoveryBounds DEF Discovery!Rows, Discovery!Init
  <2> QED BY <2>1 DEF InOrder
<1>11. SeenAtPath /\ StandsForId /\ ChoiceIsMapped
  BY DEF Discovery!Init, SeenAtPath, StandsForId, ChoiceIsMapped, Discovery!Unused
<1> QED BY <1>9, <1>10, <1>11 DEF DiscoveryInv

LEMMA DiscoveryNextKeeps == ASSUME Discovery!DiscoveryAssumption, DiscoveryInv, [Discovery!Next]_Discovery!vars
  PROVE DiscoveryInv'
<1>1. CASE UNCHANGED Discovery!vars
  <2>1. DiscoveryTypes'
    BY <1>1 DEF Discovery!vars, DiscoveryInv, DiscoveryTypes
  <2> QED BY <1>1, <2>1, OthersKeep DEF Discovery!vars, Discovery!local, Discovery!mapping
<1>2. ASSUME NEW h \in Discovery!Handlers, Discovery!Run(h) PROVE DiscoveryInv'
  BY <1>2, StartKeeps, ListKeeps, ReconcileKeeps, DetectKeeps, EndKeeps DEF Discovery!Run
<1>3. {"current", "outlived"} \subseteq Discovery!Handlers
  BY DEF Discovery!Handlers
<1> QED BY <1>1, <1>2, <1>3, ServerKeeps, RequestKeeps, TakeKeeps, CrashKeeps, ChoosingKeeps DEF Discovery!Next,
           Discovery!Worker

\* However renames, listings, handlers that outlive their job and choices follow each other, the rows stand for their ids
\* and the choice is what the role is mapped to.
THEOREM DiscoveryInvariantHolds == ASSUME Discovery!DiscoveryAssumption PROVE Discovery!Spec => []DiscoveryInv
<1>1. Discovery!Init => DiscoveryInv
  BY DiscoveryInitHolds
<1>2. DiscoveryInv /\ [Discovery!Next]_Discovery!vars => DiscoveryInv'
  BY DiscoveryNextKeeps
<1> QED BY <1>1, <1>2, PTL DEF Discovery!Spec

\* The mailbox that the owner chose for a role is the one that the role resolves to, or there is none.
THEOREM ChosenMailboxStays == ASSUME Discovery!DiscoveryAssumption PROVE Discovery!Spec => [](Discovery!TypeOK /\ Discovery!ChosenStays)
<1>1. ASSUME DiscoveryInv PROVE Discovery!TypeOK
  <2>1. DOMAIN server.at \subseteq Discovery!Paths /\ server.ids \in BOOLEAN
    BY <1>1, ListingFields DEF DiscoveryInv, DiscoveryTypes
  <2> QED BY <1>1, <2>1 DEF DiscoveryInv, DiscoveryTypes, Discovery!TypeOK
<1>2. ASSUME DiscoveryInv PROVE Discovery!ChosenStays
  <2> SUFFICES ASSUME ~blind, chosen # Discovery!None, Discovery!Resolved # Discovery!None
                 PROVE stands[Discovery!Resolved] = chosen
    BY DEF Discovery!ChosenStays
  <2>1. Discovery!Resolved = role.row /\ row[role.row].active
    BY DEF Discovery!Resolved
  <2> QED BY <1>2, <2>1 DEF DiscoveryInv, ChoiceIsMapped, StandsForId
<1> QED BY <1>1, <1>2, DiscoveryInvariantHolds, PTL
=============================================================================
