--------------------------- MODULE DesktopBackend ---------------------------
(***************************************************************************)
(* One backend process of the desktop application and what keeps it running:  *)
(* backend/DesktopBackendManager.ts.  Starts, stops, the end of a run and the  *)
(* clean-up of a stop take the instance's mutex in turn; the restart timer,     *)
(* the process and its readiness probe work beside it.                          *)
(*                                                                         *)
(* Abstractions: the mutex serves its waiters in order (the runtime's            *)
(* semaphore); what a section does without waiting is one step, and a start       *)
(* waits once, for its configuration.  Delays are steps at any time, so the        *)
(* back-off counter is left out.                                                   *)
(***************************************************************************)
EXTENDS Naturals, Sequences, FiniteSets

CONSTANTS
    MaxRuns,          \* bound: runs
    MaxRequests,      \* bound: calls of start and stop
    MaxFaults,        \* bound: exits, failed spawns, configurations and preflights
    FatalLimit,       \* MAX_PREFLIGHT_FAILURE_ATTEMPTS
    BoundedLimit      \* the retryLimit of a transient failure

ASSUME BackendAssumption ==
    /\ MaxRuns \in Nat \ {0} /\ MaxRequests \in Nat /\ MaxFaults \in Nat
    /\ FatalLimit \in Nat \ {0} /\ BoundedLimit \in Nat \ {0}

VARIABLES
    desired, ready,   \* desiredRunning, ready
    active,           \* the active run
    restart,          \* a restart fiber sleeps
    preflight,        \* preflightFailureAttempt
    nextRunId,
    waiting,          \* who waits for the mutex, in order
    resolving,        \* a start holds it, and resolves its configuration
    program,          \* how far the program of each run is
    closed,           \* runs whose scope was closed
    stops,            \* stops that wait for their run to end
    crashed, kept,    \* runs that exited by themselves; those whose log was kept
    requests, faults

vars == <<desired, ready, active, restart, preflight, nextRunId, waiting, resolving, program,
          closed, stops, crashed, kept, requests, faults>>

manager == <<desired, ready, active, restart, preflight, nextRunId>>
process == <<program, closed>>
history == <<crashed, kept>>
bounds == <<requests, faults>>

RunIds == 1 .. MaxRuns
NoRun == [id |-> 0, pid |-> FALSE, probed |-> FALSE, exitObserved |-> FALSE, stopRequested |-> FALSE]
Task(op, r) == [op |-> op, run |-> r]

Init ==
    /\ desired = FALSE /\ ready = FALSE /\ active = NoRun /\ restart = FALSE
    /\ preflight = 0 /\ nextRunId = 1
    /\ waiting = <<>> /\ resolving = FALSE
    /\ program = [r \in RunIds |-> "none"] /\ closed = {} /\ stops = {}
    /\ crashed = {} /\ kept = {}
    /\ requests = 0 /\ faults = 0

Fault == faults < MaxFaults /\ faults' = faults + 1

\* A task is served: it has the mutex, and leaves the queue.
Served(op, r) ==
    /\ ~resolving /\ waiting /= <<>> /\ Head(waiting) = Task(op, r)
Enqueued(op, r) == Append(waiting, Task(op, r))

-----------------------------------------------------------------------------
(* Calls from outside.                                                       *)

Request(op) ==
    /\ requests < MaxRequests /\ requests' = requests + 1
    /\ waiting' = Enqueued(op, 0)
    /\ UNCHANGED <<manager, resolving, process, stops, history, faults>>

-----------------------------------------------------------------------------
(* start                                                                    *)

\* A run that is there, even one that is being stopped, is only wanted again.
StartWhileActive ==
    /\ Served("start", 0) /\ active /= NoRun
    /\ desired' = TRUE /\ waiting' = Tail(waiting)
    /\ UNCHANGED <<ready, active, restart, preflight, nextRunId, resolving, process, stops,
                   history, bounds>>

StartResolves ==
    /\ Served("start", 0) /\ active = NoRun /\ nextRunId \in RunIds
    /\ ready' = FALSE
    /\ resolving' = TRUE /\ waiting' = Tail(waiting)
    /\ UNCHANGED <<desired, active, restart, preflight, nextRunId, process, stops, history, bounds>>

\* scheduleRestart: nothing when the backend is not wanted, or one is scheduled.
Scheduled(wanted, already) == already \/ wanted

ConfigFails ==
    /\ resolving /\ resolving' = FALSE /\ Fault
    /\ restart' = Scheduled(desired, restart)
    /\ UNCHANGED <<desired, ready, active, preflight, nextRunId, waiting, process, stops,
                   history, requests>>

\* With a configuration, a sleeping restart is cancelled and the backend is wanted.
\* After a stop or a give-up the series of failures starts again.
Attempts == IF desired THEN preflight ELSE 0
Resolved == resolving /\ resolving' = FALSE /\ ready' = FALSE

\* A transient failure without a limit starts over the count and is retried.
PreflightTransient ==
    /\ Resolved /\ Fault
    /\ desired' = TRUE /\ restart' = TRUE /\ preflight' = 0
    /\ UNCHANGED <<active, nextRunId, waiting, process, stops, crashed, kept, requests>>

\* The last attempt of a limit shows the reason and may fall back, the one after it
\* gives up.
PreflightFails(limit, falledBack) ==
    /\ Resolved /\ Fault
    /\ LET attempt == Attempts + 1
           wanted == attempt < limit \/ (attempt = limit /\ falledBack)
       IN  /\ preflight' = attempt
           /\ desired' = wanted /\ restart' = wanted
    /\ UNCHANGED <<active, nextRunId, waiting, process, stops, crashed, kept, requests>>

EntryMissing ==
    /\ Resolved /\ Fault
    /\ desired' = TRUE /\ restart' = TRUE /\ preflight' = 0
    /\ UNCHANGED <<active, nextRunId, waiting, process, stops, crashed, kept, requests>>

StartRun ==
    /\ Resolved
    /\ desired' = TRUE /\ restart' = FALSE /\ preflight' = 0
    /\ active' = [NoRun EXCEPT !.id = nextRunId] /\ nextRunId' = nextRunId + 1
    /\ program' = [program EXCEPT ![nextRunId] = "spawning"]
    /\ UNCHANGED <<waiting, closed, stops, crashed, kept, bounds>>

-----------------------------------------------------------------------------
(* The program of a run.                                                     *)

IfActive(r, run) == IF active.id = r THEN run ELSE active

\* In a closed scope the process is killed as soon as it is there.
Spawned(r) ==
    /\ program[r] = "spawning"
    /\ program' = [program EXCEPT ![r] = IF r \in closed THEN "draining" ELSE "alive"]
    /\ active' = IfActive(r, [active EXCEPT !.pid = r \notin closed])
    /\ UNCHANGED <<desired, ready, restart, preflight, nextRunId, waiting, resolving, closed, stops,
                   history, bounds>>

SpawnFails(r) ==
    /\ program[r] = "spawning" /\ Fault
    /\ program' = [program EXCEPT ![r] = "draining"]
    /\ UNCHANGED <<manager, waiting, resolving, closed, stops, history, requests>>

\* The readiness probe succeeds once, perhaps on an answer of a process that has just
\* exited; it ends with the scope of its run.
BecomesReady(r) ==
    /\ program[r] \in {"alive", "draining"} /\ r \notin closed
    /\ active.id = r /\ active.pid /\ ~active.probed
    /\ ready' = TRUE /\ active' = [active EXCEPT !.probed = TRUE]
    /\ UNCHANGED <<desired, restart, preflight, nextRunId, waiting, resolving, process, stops,
                   history, bounds>>

Exits(r) ==
    /\ program[r] = "alive"
    /\ IF r \in closed THEN UNCHANGED <<faults, crashed>>
       ELSE Fault /\ crashed' = (IF active.id = r /\ active.stopRequested THEN crashed
                                 ELSE crashed \cup {r})
    /\ program' = [program EXCEPT ![r] = "draining"]
    /\ active' = IfActive(r, [active EXCEPT !.exitObserved = TRUE])
    /\ UNCHANGED <<desired, ready, restart, preflight, nextRunId, waiting, resolving, closed, stops,
                   kept, requests>>

\* When its output is drained the run asks for the mutex, to be finalized.
Drained(r) ==
    /\ program[r] = "draining"
    /\ program' = [program EXCEPT ![r] = "finalizing"] /\ waiting' = Enqueued("finalize", r)
    /\ UNCHANGED <<manager, resolving, closed, stops, history, bounds>>

RestartsAfterCrash(r) == active.id = r /\ ~active.stopRequested
RestartsAfter(r) == active.id = r

Ended(run) == NoRun

FinalizeRun(r) ==
    /\ Served("finalize", r) /\ waiting' = Tail(waiting)
    /\ program' = [program EXCEPT ![r] = "done"]
    /\ IF active.id = r
       THEN /\ active' = Ended(active) /\ ready' = FALSE
            /\ kept' = IF active.pid /\ active.exitObserved /\ ~active.stopRequested
                       THEN kept \cup {r} ELSE kept
            /\ restart' = Scheduled(desired /\ RestartsAfter(r), restart)
       ELSE UNCHANGED <<active, ready, kept, restart>>
    /\ UNCHANGED <<desired, preflight, nextRunId, resolving, closed, stops, crashed, bounds>>

\* The restart fiber is no longer there to cancel when it calls start.  Its delay of half
\* a second or more does not end before somebody who can be served at once.
RestartFires ==
    /\ restart /\ restart' = FALSE /\ (waiting = <<>> \/ resolving)
    /\ waiting' = IF desired THEN Enqueued("start", 0) ELSE waiting
    /\ UNCHANGED <<desired, ready, active, preflight, nextRunId, resolving, process, stops,
                   history, bounds>>

-----------------------------------------------------------------------------
(* stop                                                                     *)

Forgotten(run) == NoRun
AlwaysAsked(run) == IF run = NoRun THEN run ELSE [run EXCEPT !.stopRequested = TRUE]
Asked(run) == IF run = NoRun \/ run.exitObserved THEN run ELSE [run EXCEPT !.stopRequested = TRUE]

Stop ==
    /\ Served("stop", 0) /\ waiting' = Tail(waiting)
    /\ desired' = FALSE /\ ready' = FALSE /\ restart' = FALSE
    /\ active' = Asked(active)
    /\ stops' = IF active = NoRun THEN stops ELSE stops \cup {active.id}
    /\ UNCHANGED <<preflight, nextRunId, resolving, process, history, bounds>>

CloseScope(r) ==
    /\ r \in stops \ closed /\ closed' = closed \cup {r}
    /\ UNCHANGED <<manager, waiting, resolving, program, stops, history, bounds>>

\* A stop with a time-out leaves the run to its own end.
StopTimesOut(r) ==
    /\ r \in stops \cap closed /\ program[r] /= "done" /\ stops' = stops \ {r}
    /\ UNCHANGED <<manager, waiting, resolving, process, history, bounds>>

StopEnds(r) ==
    /\ r \in stops \cap closed /\ program[r] = "done" /\ stops' = stops \ {r}
    /\ waiting' = Enqueued("cleanup", r)
    /\ UNCHANGED <<manager, resolving, process, history, bounds>>

\* What the stop finds when its run has ended: somebody wanted the backend meanwhile.
StartsAgain(r) == desired /\ (active.id = r \/ (active = NoRun /\ ~restart))

CleanUp(r) ==
    /\ Served("cleanup", r)
    /\ active' = IfActive(r, NoRun)
    /\ waiting' = IF StartsAgain(r) THEN Append(Tail(waiting), Task("start", 0)) ELSE Tail(waiting)
    /\ UNCHANGED <<desired, ready, restart, preflight, nextRunId, resolving, process, stops,
                   history, bounds>>

-----------------------------------------------------------------------------

Section ==
    \/ StartWhileActive \/ StartResolves \/ ConfigFails \/ PreflightTransient \/ EntryMissing
    \/ \E limit \in {FatalLimit, BoundedLimit}, falledBack \in BOOLEAN :
           PreflightFails(limit, falledBack)
    \/ StartRun \/ Stop
    \/ \E r \in RunIds : FinalizeRun(r) \/ CleanUp(r)

Program(r) == Spawned(r) \/ SpawnFails(r) \/ Exits(r) \/ Drained(r)

Next ==
    \/ \E op \in {"start", "stop"} : Request(op)
    \/ Section \/ RestartFires
    \/ \E r \in RunIds : \/ Program(r) \/ BecomesReady(r)
                         \/ CloseScope(r) \/ StopTimesOut(r) \/ StopEnds(r)

Spec == Init /\ [][Next]_vars

\* Sections end, timers fire, processes come up, and die when their scope is closed.
FairSpec ==
    /\ Spec /\ WF_vars(Section) /\ WF_vars(RestartFires)
    /\ \A r \in RunIds : /\ WF_vars(Spawned(r)) /\ WF_vars(Drained(r)) /\ WF_vars(BecomesReady(r))
                         /\ WF_vars(r \in closed /\ Exits(r))
                         /\ WF_vars(CloseScope(r)) /\ WF_vars(StopEnds(r))

-----------------------------------------------------------------------------
(* Properties.                                                              *)

TypeOK ==
    /\ desired \in BOOLEAN /\ ready \in BOOLEAN /\ restart \in BOOLEAN /\ resolving \in BOOLEAN
    /\ active \in [id : {0} \cup RunIds, pid : BOOLEAN, probed : BOOLEAN, exitObserved : BOOLEAN,
                   stopRequested : BOOLEAN]
    /\ active /= NoRun => program[active.id] \notin {"none", "done"}
    /\ preflight \in Nat /\ nextRunId \in 1 .. MaxRuns + 1
    /\ waiting \in Seq([op : {"start", "stop", "finalize", "cleanup"}, run : {0} \cup RunIds])
    /\ program \in [RunIds -> {"none", "spawning", "alive", "draining", "finalizing", "done"}]
    /\ closed \subseteq RunIds /\ stops \subseteq RunIds
    /\ crashed \subseteq RunIds /\ kept \subseteq RunIds
    /\ requests \in 0 .. MaxRequests /\ faults \in 0 .. MaxFaults

\* Two backend processes never run at once, on one port and one database: a new run
\* waits until the last one has ended, also when a stop gave up waiting for it.
OneBackend == Cardinality({r \in RunIds : program[r] \in {"spawning", "alive"}}) <= 1

\* A backend that is wanted is never forgotten: when everybody who works on the instance
\* is done there is a run, or a restart is scheduled.
Quiet == waiting = <<>> /\ ~resolving /\ stops = {}
NeverStranded ==
    desired /\ Quiet /\ nextRunId \in RunIds => active /= NoRun \/ restart

\* The log of a run that exited by itself is kept, even when a stop came in while its
\* output was still being drained.
CrashesAreKept == \A r \in RunIds : program[r] = "done" /\ r \in crashed => r \in kept

\* When nothing fails any more, a backend that is wanted becomes ready.
WantedComesUp == desired ~> (ready \/ ~desired \/ nextRunId \notin RunIds)
=============================================================================
