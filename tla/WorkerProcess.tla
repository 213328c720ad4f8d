---------------------------- MODULE WorkerProcess ----------------------------
(***************************************************************************)
(* The supervisor of the worker process (worker-process.ts): it waits until *)
(* the owner's second factor is verified, starts the job runtime, the six    *)
(* pollers and the IDLE watchers one after another, pauses them when the     *)
(* instance is no longer ready, and tears everything down on a signal or a   *)
(* failure.  A signal only asks: the step under way is finished first,       *)
(* because a poller sets its interval after its first poll.                 *)
(***************************************************************************)
EXTENDS Integers, Sequences

CONSTANTS
  MaxFlips,  \* bound: changes of the instance's readiness
  MaxFaults  \* bound: calls that fail

ASSUME WorkerAssumption == {MaxFlips, MaxFaults} \subseteq Nat

Startup == <<"jobs", "attachment", "outgoing", "delta", "backfill", "command", "sentCopy", "watchers">>
Pollers == {"attachment", "outgoing", "delta", "backfill", "command", "sentCopy"}

VARIABLES
  pc,        \* the supervisor's step
  next,      \* the step of Startup it has come to
  first,     \* it awaits the first poll of that poller
  closing,   \* the teardown, not a pause, is under way
  stopping,  \* a shutdown was requested
  exit,      \* process.exitCode
  ready,     \* isInstanceReady, as PostgreSQL has it
  jobs,      \* the job runtime
  undrained, \* history: its last stop failed
  handler,   \* a job handler runs
  watchers,  \* the IDLE watchers
  timer,     \* of each poller: the intervals that tick
  own,       \* of each poller: `timer` names one of them
  polling,   \* of each poller: a poll of an interval is under way
  budget     \* what the bounds have left

supervisor == <<pc, next, first, closing>>
pollers == <<timer, own, polling>>
vars == <<supervisor, stopping, exit, ready, jobs, undrained, handler, watchers, pollers, budget>>

Init ==
  /\ pc = "validate" /\ next = 1 /\ first = FALSE /\ closing = FALSE
  /\ stopping = FALSE /\ exit = 0 /\ ready \in BOOLEAN
  /\ jobs = "stopped" /\ undrained = FALSE /\ handler = FALSE /\ watchers = "stopped"
  /\ timer = [p \in Pollers |-> 0]
  /\ own = [p \in Pollers |-> FALSE] /\ polling = [p \in Pollers |-> FALSE]
  /\ budget = [flips |-> MaxFlips, faults |-> MaxFaults]

Spend(what) == budget[what] > 0 /\ budget' = [budget EXCEPT ![what] = @ - 1]

-----------------------------------------------------------------------------
(* The supervisor *)

\* An error anywhere in the supervision: exit code 1, and the same teardown.
Throw ==
  /\ pc' = "teardown" /\ first' = FALSE /\ closing' = closing
  /\ exit' = 1 /\ stopping' = TRUE
  /\ UNCHANGED next

Go(step) == pc' = step /\ UNCHANGED <<closing, stopping, exit>>

\* The database's authority is validated once, before anything is started.
Validate ==
  /\ pc = "validate"
  /\ \/ Go("waiting") /\ UNCHANGED <<next, first, budget>>
     \/ pc' = "closed" /\ exit' = 1 /\ UNCHANGED <<next, first, closing, stopping>> /\ Spend("faults")
  /\ UNCHANGED <<ready, jobs, undrained, handler, watchers, pollers>>

\* Each second the instance is read again, until it is ready or a shutdown is asked for.
Wait ==
  /\ pc = "waiting"
  /\ \/ stopping /\ Go("teardown") /\ UNCHANGED <<next, first, budget>>
     \/ ~stopping /\ ready /\ Go("starting") /\ next' = 1 /\ UNCHANGED <<first, budget>>
     \/ ~stopping /\ Throw /\ Spend("faults")
  /\ UNCHANGED <<ready, jobs, undrained, handler, watchers, pollers>>

Starting(what) == pc = "starting" /\ Startup[next] = what

Onwards ==
  /\ IF next = Len(Startup) THEN Go("running") /\ UNCHANGED next ELSE Go("starting") /\ next' = next + 1
  /\ first' = FALSE

\* The runtime may have started although its start fails: the queues are read afterwards.
StartJobs ==
  /\ Starting("jobs")
  /\ \/ Onwards /\ jobs' = "started" /\ UNCHANGED budget
     \/ Throw /\ jobs' \in {jobs, "started"} /\ Spend("faults")
  /\ UNCHANGED <<ready, undrained, handler, watchers, pollers>>

\* The workers of some queues are registered before a poller starts: that may fail too.
\* A poll under way makes the first one return at once, except the commands', which
\* do not look.
Unguarded == {"command"}
SetsTimer(p) == /\ timer' = [timer EXCEPT ![p] = @ + 1]
                /\ own' = [own EXCEPT ![p] = TRUE]
StartPoller(p) ==
  /\ Starting(p) /\ ~first
  /\ \/ /\ p \in Unguarded \/ ~polling[p]
        /\ first' = TRUE /\ Go("starting") /\ UNCHANGED <<next, timer, own, budget>>
     \/ p \notin Unguarded /\ polling[p] /\ Onwards /\ SetsTimer(p) /\ UNCHANGED budget
     \/ Throw /\ UNCHANGED <<timer, own>> /\ Spend("faults")
  /\ UNCHANGED <<ready, jobs, undrained, handler, watchers, polling>>

\* The interval is set when the first poll has ended, whatever was asked meanwhile.
FirstPolled(p) ==
  /\ Starting(p) /\ first
  /\ \/ Onwards /\ SetsTimer(p) /\ UNCHANGED budget
     \/ Throw /\ UNCHANGED <<timer, own>> /\ Spend("faults")
  /\ UNCHANGED <<ready, jobs, undrained, handler, watchers, polling>>

\* The watchers are open for refreshes before their first one is awaited.
StartWatchers ==
  /\ Starting("watchers") /\ watchers' = "started"
  /\ \/ Onwards /\ UNCHANGED budget
     \/ Throw /\ Spend("faults")
  /\ UNCHANGED <<ready, jobs, undrained, handler, pollers>>

\* Readiness is read from PostgreSQL each second, never remembered from the start.
Remembered == FALSE
Lost == ~ready
Unheeded == FALSE
Asked == stopping
Supervise ==
  /\ pc = "running"
  /\ \/ Asked /\ Go("teardown") /\ UNCHANGED <<next, first, budget>>
     \/ ~Asked /\ Lost /\ Go("pause") /\ UNCHANGED <<next, first, budget>>
     \/ ~Asked /\ Throw /\ Spend("faults")
  /\ UNCHANGED <<ready, jobs, undrained, handler, watchers, pollers>>

-----------------------------------------------------------------------------
(* stopBusinessWorkers, for a pause or for good *)

AllButLast == Pollers \ {"sentCopy"}
Stopped == Pollers
StopBusiness ==
  /\ pc \in {"pause", "teardown"}
  /\ timer' = [p \in Pollers |-> IF p \in Stopped /\ own[p] THEN timer[p] - 1 ELSE timer[p]]
  /\ own' = [p \in Pollers |-> own[p] /\ p \notin Stopped]
  /\ watchers' = "stopped"
  /\ pc' = "draining" /\ closing' = (pc = "teardown")
  /\ stopping' = (stopping \/ pc = "teardown")
  /\ UNCHANGED <<next, first, exit, ready, jobs, undrained, handler, polling, budget>>

\* The runtime stops when its handlers have ended or, handlers or not, after thirty
\* seconds.  After a pause the supervisor waits again; in the teardown the database is closed last.
Drained ==
  /\ pc = "draining"
  /\ \/ /\ jobs' = "stopped" /\ undrained' = FALSE /\ UNCHANGED budget
        /\ pc' = IF closing THEN "closed" ELSE "waiting"
        /\ UNCHANGED <<next, first, closing, stopping, exit>>
     \/ /\ Spend("faults") /\ undrained' = TRUE /\ UNCHANGED jobs
        /\ IF closing THEN pc' = "closed" /\ exit' = 1 /\ UNCHANGED <<next, first, closing, stopping>> ELSE Throw
  /\ UNCHANGED <<ready, handler, watchers, pollers>>

-----------------------------------------------------------------------------
(* What runs beside it *)

\* requestShutdown: SIGTERM or SIGINT.
Signal ==
  /\ pc \notin {"validate", "closed"} /\ ~stopping /\ stopping' = TRUE
  /\ UNCHANGED <<supervisor, exit, ready, jobs, undrained, handler, watchers, pollers, budget>>

\* The owner's factor is replaced, or verified.
Flip ==
  /\ ready' = ~ready /\ Spend("flips")
  /\ UNCHANGED <<supervisor, stopping, exit, jobs, undrained, handler, watchers, pollers>>

HandlerBegins ==
  /\ jobs = "started" /\ pc \notin {"draining", "closed"}
  /\ ~handler /\ handler' = TRUE
  /\ UNCHANGED <<supervisor, stopping, exit, ready, jobs, undrained, watchers, pollers, budget>>

HandlerEnds ==
  /\ handler /\ handler' = FALSE
  /\ UNCHANGED <<supervisor, stopping, exit, ready, jobs, undrained, watchers, pollers, budget>>

\* A poll of an interval: its error is swallowed, and it may outlive the interval.
Tick(p) ==
  /\ timer[p] > 0 /\ ~polling[p]
  /\ polling' = [polling EXCEPT ![p] = TRUE]
  /\ UNCHANGED <<supervisor, stopping, exit, ready, jobs, undrained, handler, watchers, timer, own, budget>>

PollEnds(p) ==
  /\ polling[p]
  /\ polling' = [polling EXCEPT ![p] = FALSE]
  /\ UNCHANGED <<supervisor, stopping, exit, ready, jobs, undrained, handler, watchers, timer, own, budget>>

Supervisor ==
  \/ Validate \/ Wait \/ StartJobs \/ StartWatchers \/ Supervise \/ StopBusiness \/ Drained
  \/ \E p \in Pollers : StartPoller(p) \/ FirstPolled(p)
Next ==
  \/ Supervisor \/ Signal \/ Flip \/ HandlerBegins \/ HandlerEnds
  \/ \E p \in Pollers : Tick(p) \/ PollEnds(p)

Spec == Init /\ [][Next]_vars

\* What the supervisor awaits returns, polls and handlers end.  That it fails is
\* possible, but nothing has it fail.
Succeeding == Supervisor /\ UNCHANGED budget
FairSpec ==
  /\ Spec /\ WF_vars(Succeeding) /\ WF_vars(HandlerEnds)
  /\ \A p \in Pollers : WF_vars(PollEnds(p))

-----------------------------------------------------------------------------
(* What the supervisor promises *)

TypeOK ==
  /\ pc \in {"validate", "waiting", "starting", "running", "pause", "teardown", "draining", "closed"}
  /\ next \in 1..Len(Startup)
  /\ first \in BOOLEAN /\ closing \in BOOLEAN /\ stopping \in BOOLEAN
  /\ ready \in BOOLEAN /\ undrained \in BOOLEAN /\ handler \in BOOLEAN
  /\ exit \in {0, 1} /\ jobs \in {"stopped", "started"} /\ watchers \in {"stopped", "started"}
  /\ timer \in [Pollers -> 0..1] /\ own \in [Pollers -> BOOLEAN] /\ polling \in [Pollers -> BOOLEAN]

Idle ==
  /\ \A p \in Pollers : timer[p] = 0
  /\ watchers = "stopped"
  /\ jobs = "stopped" \/ undrained

\* Whatever the order of a start, a signal, a loss of readiness and a failure:
\* while the supervisor waits for the owner's factor, and when it has closed the
\* database, no interval, watcher or consumer is left, and a poller never has
\* two intervals, of which only one could be cleared.
NothingLeftRunning ==
  /\ pc \in {"validate", "waiting", "closed"} => Idle
  /\ \A p \in Pollers : timer[p] <= 1

\* A requested shutdown ends the process: nothing calls process.exit, so every
\* interval and handler has to be gone.
Gone == pc = "closed" /\ Idle /\ ~handler /\ \A p \in Pollers : ~polling[p]
ShutdownEnds == stopping ~> Gone

\* The business workers follow the instance: lastingly ready, they run;
\* lastingly not ready, they are paused.
FollowsReadiness ==
  /\ <>[]ready => <>[](pc = "running" \/ stopping \/ exit = 1)
  /\ <>[]~ready => <>[](pc = "waiting" \/ stopping \/ exit = 1)
==============================================================================
