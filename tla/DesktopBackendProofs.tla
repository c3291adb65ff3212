------------------------- MODULE DesktopBackendProofs -------------------------
(***************************************************************************)
(* Theorems of one desktop backend for any number of runs, requests and faults. *)
(* They rest on one fact: the active run is exactly the one whose program has   *)
(* begun and is not finalized.  A stop's clean-up cannot break it, since it is   *)
(* queued only when the program is done.                                        *)
(***************************************************************************)
EXTENDS DesktopBackend, FiniteSetTheorems, SequenceTheorems, TLAPS

TaskType == [op : {"start", "stop", "finalize", "cleanup"}, run : {0} \cup RunIds]
RunType == [id : {0} \cup RunIds, pid : BOOLEAN, probed : BOOLEAN, exitObserved : BOOLEAN,
            stopRequested : BOOLEAN]
ProgramType == [RunIds -> {"none", "spawning", "alive", "draining", "finalizing", "done"}]

Live(r) == program[r] \notin {"none", "done"}

ActiveIsLive ==
    /\ \A r \in RunIds : Live(r) <=> active.id = r
    /\ active.id = 0 => active = NoRun

ResolvesForNobody == resolving => active = NoRun /\ nextRunId \in RunIds

FutureRuns == \A r \in RunIds : r >= nextRunId => program[r] = "none"

\* The members of a sequence.
In(q) == {q[n] : n \in 1..Len(q)}

TasksAreDue ==
    \A w \in In(waiting) :
        /\ w.op = "finalize" => w.run \in RunIds /\ program[w.run] # "none"
        /\ w.op = "cleanup" => w.run \in RunIds /\ program[w.run] = "done"

\* What a run that exited by itself leaves until it is finalized.
CrashIsRemembered ==
    /\ \A r \in RunIds : program[r] = "alive" => active.pid
    /\ \A r \in crashed : program[r] # "done" =>
          /\ program[r] \in {"draining", "finalizing"}
          /\ active.pid /\ active.exitObserved /\ ~active.stopRequested

\* Somebody is about to start the backend that is wanted.
SomebodyStarts ==
    desired /\ active = NoRun /\ ~restart /\ nextRunId \in RunIds
        => resolving \/ Task("start", 0) \in In(waiting)

IInv ==
    /\ TypeOK /\ ActiveIsLive /\ ResolvesForNobody /\ FutureRuns /\ TasksAreDue
    /\ CrashIsRemembered /\ CrashesAreKept /\ SomebodyStarts

---------------------------------------------------------------------------
(* The queue of the mutex and the records.                                   *)

LEMMA RunIdsAre == 0 \notin RunIds /\ RunIds \subseteq Nat
BY BackendAssumption DEF RunIds

LEMMA Queued ==
    ASSUME NEW S, NEW q \in Seq(S), NEW t \in S
    PROVE  Append(q, t) \in Seq(S) /\ In(Append(q, t)) = In(q) \cup {t}
<1>1. /\ Append(q, t) \in Seq(S) /\ Len(Append(q, t)) = Len(q) + 1
      /\ Append(q, t)[Len(q) + 1] = t /\ \A n \in 1..Len(q) : Append(q, t)[n] = q[n]
  BY AppendProperties
<1>2. Len(q) \in Nat
  BY LenProperties
<1>3. 1..(Len(q) + 1) = 1..Len(q) \cup {Len(q) + 1}
  BY <1>2
<1> QED BY <1>1, <1>3 DEF In

LEMMA Dequeued ==
    ASSUME NEW S, NEW q \in Seq(S), q # <<>>
    PROVE  /\ Head(q) \in S /\ Tail(q) \in Seq(S) /\ Head(q) \in In(q)
           /\ In(Tail(q)) \subseteq In(q) /\ In(q) \ {Head(q)} \subseteq In(Tail(q))
<1>1. /\ Head(q) \in S /\ Tail(q) \in Seq(S) /\ Len(Tail(q)) = Len(q) - 1 /\ Head(q) = q[1]
      /\ \A n \in 1..Len(Tail(q)) : Tail(q)[n] = q[n + 1]
  BY HeadTailProperties
<1>2. Len(q) \in Nat /\ Len(q) # 0
  BY LenProperties, EmptySeq
<1>3. Head(q) \in In(q)
  <2>1. 1 \in 1..Len(q)
    BY <1>2
  <2> QED BY <1>1, <2>1 DEF In
<1>4. In(Tail(q)) \subseteq In(q)
  <2>1. \A n \in 1..Len(Tail(q)) : n + 1 \in 1..Len(q)
    BY <1>1, <1>2
  <2> QED BY <1>1, <2>1 DEF In
<1>5. ASSUME NEW n \in 1..Len(q), q[n] # Head(q)
      PROVE  q[n] \in In(Tail(q))
  <2>1. n # 1
    BY <1>1, <1>5
  <2>2. n - 1 \in 1..Len(Tail(q)) /\ Tail(q)[n - 1] = q[n - 1 + 1] /\ n - 1 + 1 = n
    BY <1>1, <1>2, <2>1
  <2>3. Tail(q)[n - 1] \in In(Tail(q))
    BY <2>2 DEF In
  <2> QED BY <2>2, <2>3
<1>6. In(q) \ {Head(q)} \subseteq In(Tail(q))
  BY <1>5 DEF In
<1> QED BY <1>1, <1>3, <1>4, <1>6

LEMMA TasksAre ==
    /\ \A op \in {"start", "stop"} : Task(op, 0) \in TaskType
    /\ \A op \in {"finalize", "cleanup"}, r \in RunIds : Task(op, r) \in TaskType
    /\ \A op, r : Task(op, r).op = op /\ Task(op, r).run = r
BY DEF Task, TaskType

LEMMA RunsAre ==
    /\ NoRun \in RunType /\ NoRun.id = 0 /\ ~NoRun.pid /\ ~NoRun.exitObserved /\ ~NoRun.stopRequested
    /\ \A r \in RunIds : [NoRun EXCEPT !.id = r] \in RunType /\ [NoRun EXCEPT !.id = r].id = r
BY DEF NoRun, RunType

\* The head of the queue when a task is served, and what remains without it.
LEMMA ServedTask ==
    ASSUME TypeOK, NEW op, NEW r, Served(op, r)
    PROVE  /\ ~resolving /\ Task(op, r) \in In(waiting) /\ waiting \in Seq(TaskType)
           /\ Tail(waiting) \in Seq(TaskType) /\ In(Tail(waiting)) \subseteq In(waiting)
           /\ In(waiting) \ {Task(op, r)} \subseteq In(Tail(waiting))
<1>1. ~resolving /\ waiting # <<>> /\ Head(waiting) = Task(op, r) /\ waiting \in Seq(TaskType)
  BY DEF Served, TypeOK, TaskType
<1> QED BY <1>1, Dequeued

\* What a step keeps that changes neither programs nor the active run.
LEMMA RunsUntouched ==
    ASSUME IInv, UNCHANGED <<active, nextRunId, program, crashed>>, kept \subseteq kept'
    PROVE  /\ ActiveIsLive' /\ FutureRuns' /\ CrashIsRemembered' /\ CrashesAreKept'
           /\ active' \in RunType /\ program' \in ProgramType
           /\ active' /= NoRun => program'[active'.id] \notin {"none", "done"}
BY DEF IInv, TypeOK, ActiveIsLive, FutureRuns, CrashIsRemembered, CrashesAreKept, Live, RunType,
       ProgramType

---------------------------------------------------------------------------
LEMMA InitInv == Init => IInv
<1> SUFFICES ASSUME Init PROVE IInv
  OBVIOUS
<1>1. waiting \in Seq(TaskType) /\ In(waiting) = {}
  BY DEF Init, In
<1>2. nextRunId \in 1 .. MaxRuns + 1 /\ requests \in 0 .. MaxRequests /\ faults \in 0 .. MaxFaults
  BY BackendAssumption DEF Init
<1>3. TypeOK
  <2>1. desired \in BOOLEAN /\ ready \in BOOLEAN /\ restart \in BOOLEAN /\ resolving \in BOOLEAN
    BY DEF Init
  <2>2. active \in RunType /\ program \in ProgramType /\ preflight \in Nat
    BY RunsAre DEF Init, ProgramType
  <2>3. closed \subseteq RunIds /\ stops \subseteq RunIds /\ crashed \subseteq RunIds /\ kept \subseteq RunIds
    BY DEF Init
  <2>4. active = NoRun
    BY DEF Init
  <2> QED BY <1>1, <1>2, <2>1, <2>2, <2>3, <2>4 DEF TypeOK, TaskType, RunType, ProgramType
<1>4. ActiveIsLive /\ FutureRuns
  BY RunIdsAre, RunsAre DEF Init, ActiveIsLive, FutureRuns, Live
<1>5. /\ ResolvesForNobody /\ TasksAreDue /\ CrashIsRemembered /\ CrashesAreKept
      /\ SomebodyStarts
  BY <1>1 DEF Init, ResolvesForNobody, TasksAreDue, CrashIsRemembered, CrashesAreKept, SomebodyStarts
<1> QED BY <1>3, <1>4, <1>5 DEF IInv

\* A task joins the queue: the call of a client, of the restart fiber or of a stop.
LEMMA JoinsKeep ==
    ASSUME IInv, NEW t \in TaskType, waiting' = Append(waiting, t),
           t.op = "finalize" => t.run \in RunIds /\ program'[t.run] # "none",
           t.op = "cleanup" => t.run \in RunIds /\ program'[t.run] = "done",
           \A r \in RunIds : /\ program'[r] = "none" => program[r] = "none"
                             /\ program[r] = "done" => program'[r] = "done"
    PROVE  TasksAreDue' /\ waiting' \in Seq(TaskType) /\ In(waiting') = In(waiting) \cup {t}
<1>1. waiting \in Seq(TaskType)
  BY DEF IInv, TypeOK, TaskType
<1>2. waiting' \in Seq(TaskType) /\ In(waiting') = In(waiting) \cup {t}
  BY <1>1, Queued
<1>3. TasksAreDue'
  BY <1>2 DEF IInv, TasksAreDue
<1> QED BY <1>2, <1>3

LEMMA RequestKeeps ==
    ASSUME IInv, NEW op \in {"start", "stop"}, Request(op)
    PROVE  IInv'
<1>1. /\ requests' = requests + 1 /\ requests < MaxRequests
      /\ waiting' = Append(waiting, Task(op, 0))
      /\ UNCHANGED <<desired, ready, active, restart, preflight, nextRunId, resolving, program,
                     closed, stops, crashed, kept, faults>>
  BY DEF Request, Enqueued, manager, process, history
<1>2. Task(op, 0) \in TaskType /\ Task(op, 0).op = op
  BY TasksAre
<1>3. TasksAreDue' /\ waiting' \in Seq(TaskType) /\ In(waiting') = In(waiting) \cup {Task(op, 0)}
  BY <1>1, <1>2, JoinsKeep
<1>4. requests' \in 0 .. MaxRequests
  BY <1>1, BackendAssumption DEF IInv, TypeOK
<1>5. TypeOK'
  BY <1>1, <1>3, <1>4 DEF IInv, TypeOK, TaskType
<1>6. ResolvesForNobody' /\ SomebodyStarts'
  BY <1>1, <1>3 DEF IInv, ResolvesForNobody, SomebodyStarts
<1> QED BY <1>1, <1>3, <1>5, <1>6, RunsUntouched DEF IInv

---------------------------------------------------------------------------
(* start                                                                    *)

\* A section of the mutex leaves the queue without its head.
LEMMA HeadLeaves ==
    ASSUME IInv, NEW op, NEW r, Served(op, r), waiting' = Tail(waiting),
           \A s \in RunIds : /\ program'[s] = "none" => program[s] = "none"
                             /\ program[s] = "done" => program'[s] = "done"
    PROVE  /\ TasksAreDue' /\ waiting' \in Seq(TaskType)
           /\ op # "start" /\ Task("start", 0) \in In(waiting) => Task("start", 0) \in In(waiting')
<1>1. /\ waiting' \in Seq(TaskType) /\ In(waiting') \subseteq In(waiting)
      /\ In(waiting) \ {Task(op, r)} \subseteq In(waiting')
  BY ServedTask DEF IInv
<1>2. TasksAreDue'
  BY <1>1 DEF IInv, TasksAreDue
<1>3. op # "start" => Task("start", 0) # Task(op, r)
  <2>1. Task("start", 0).op = "start" /\ Task(op, r).op = op
    BY TasksAre
  <2> QED BY <2>1
<1> QED BY <1>1, <1>2, <1>3

LEMMA StartWhileActiveKeeps ==
    ASSUME IInv, StartWhileActive
    PROVE  IInv'
<1>1. /\ Served("start", 0) /\ active # NoRun /\ desired' = TRUE /\ waiting' = Tail(waiting)
      /\ UNCHANGED <<ready, active, restart, preflight, nextRunId, resolving, program, closed,
                     stops, crashed, kept, requests, faults>>
  BY DEF StartWhileActive, process, history, bounds
<1>2. TasksAreDue' /\ waiting' \in Seq(TaskType)
  BY <1>1, HeadLeaves
<1>3. TypeOK'
  BY <1>1, <1>2 DEF IInv, TypeOK, TaskType
<1>4. ResolvesForNobody' /\ SomebodyStarts'
  BY <1>1 DEF IInv, ResolvesForNobody, SomebodyStarts
<1> QED BY <1>1, <1>2, <1>3, <1>4, RunsUntouched DEF IInv

LEMMA StartResolvesKeeps ==
    ASSUME IInv, StartResolves
    PROVE  IInv'
<1>1. /\ Served("start", 0) /\ active = NoRun /\ nextRunId \in RunIds /\ ready' = FALSE
      /\ resolving' = TRUE /\ waiting' = Tail(waiting)
      /\ UNCHANGED <<desired, active, restart, preflight, nextRunId, program, closed,
                     stops, crashed, kept, requests, faults>>
  BY DEF StartResolves, process, history, bounds
<1>2. TasksAreDue' /\ waiting' \in Seq(TaskType)
  BY <1>1, HeadLeaves
<1>3. TypeOK'
  BY <1>1, <1>2 DEF IInv, TypeOK, TaskType
<1>4. ResolvesForNobody' /\ SomebodyStarts'
  BY <1>1 DEF ResolvesForNobody, SomebodyStarts
<1> QED BY <1>1, <1>2, <1>3, <1>4, RunsUntouched DEF IInv

\* A start ends without a run: it leaves a restart, or a backend nobody wants.
LEMMA NoRunKeeps ==
    ASSUME IInv, resolving, resolving' = FALSE, ready' \in BOOLEAN,
           desired' \in BOOLEAN, restart' \in BOOLEAN, desired' => restart',
           preflight' \in Nat, Fault,
           UNCHANGED <<active, nextRunId, waiting, program, closed, stops, crashed, kept, requests>>
    PROVE  IInv'
<1>1. faults' \in 0 .. MaxFaults
  BY BackendAssumption DEF Fault, IInv, TypeOK
<1>2. resolving' \in BOOLEAN
  OBVIOUS
<1>3. TypeOK'
  BY <1>1, <1>2 DEF IInv, TypeOK
<1>4. TasksAreDue' /\ ResolvesForNobody' /\ SomebodyStarts'
  BY DEF IInv, TasksAreDue, ResolvesForNobody, SomebodyStarts
<1> QED BY <1>3, <1>4, RunsUntouched DEF IInv

LEMMA ConfigFailsKeeps ==
    ASSUME IInv, ConfigFails
    PROVE  IInv'
<1>1. /\ resolving /\ resolving' = FALSE /\ Fault /\ restart' = (restart \/ desired)
      /\ UNCHANGED <<desired, ready, active, preflight, nextRunId, waiting, program, closed,
                     stops, crashed, kept, requests>>
  BY DEF ConfigFails, Scheduled, process, history
<1>2. ready' \in BOOLEAN /\ desired' \in BOOLEAN /\ preflight' \in Nat
  BY <1>1 DEF IInv, TypeOK
<1>3. restart' \in BOOLEAN /\ (desired' => restart')
  BY <1>1
<1> QED BY <1>1, <1>2, <1>3, NoRunKeeps

LEMMA PreflightKeeps ==
    ASSUME IInv,
           \/ PreflightTransient \/ EntryMissing
           \/ \E limit \in {FatalLimit, BoundedLimit}, falledBack \in BOOLEAN :
                 PreflightFails(limit, falledBack)
    PROVE  IInv'
<1>1. /\ resolving /\ resolving' = FALSE /\ ready' = FALSE /\ Fault
      /\ UNCHANGED <<active, nextRunId, waiting, program, closed, stops, crashed, kept, requests>>
  BY DEF PreflightTransient, EntryMissing, PreflightFails, Resolved, process
<1>2. desired' \in BOOLEAN /\ restart' \in BOOLEAN /\ (desired' => restart')
  BY DEF PreflightTransient, EntryMissing, PreflightFails
<1>3. Attempts \in Nat
  BY DEF Attempts, IInv, TypeOK
<1>4. preflight' \in Nat
  BY <1>3 DEF PreflightTransient, EntryMissing, PreflightFails
<1>5. ready' \in BOOLEAN
  BY <1>1
<1> QED BY <1>1, <1>2, <1>4, <1>5, NoRunKeeps

LEMMA StartRunKeeps ==
    ASSUME IInv, StartRun
    PROVE  IInv'
<1>1. /\ resolving /\ resolving' = FALSE /\ ready' = FALSE /\ desired' = TRUE /\ restart' = FALSE
      /\ preflight' = 0 /\ active' = [NoRun EXCEPT !.id = nextRunId] /\ nextRunId' = nextRunId + 1
      /\ program' = [program EXCEPT ![nextRunId] = "spawning"]
      /\ UNCHANGED <<waiting, closed, stops, crashed, kept, requests, faults>>
  BY DEF StartRun, Resolved, bounds
<1>2. active = NoRun /\ nextRunId \in RunIds /\ program[nextRunId] = "none"
  BY <1>1, RunIdsAre DEF IInv, ResolvesForNobody, FutureRuns
<1>3. active' \in RunType /\ active'.id = nextRunId
  BY <1>1, <1>2, RunsAre
<1>4. program \in ProgramType /\ program' \in ProgramType
  BY <1>1 DEF IInv, TypeOK, ProgramType
<1>5. /\ program'[nextRunId] = "spawning"
      /\ \A r \in RunIds : r # nextRunId => program'[r] = program[r]
  BY <1>1, <1>2, <1>4 DEF ProgramType
<1>6. \A r \in RunIds : ~Live(r)
  BY <1>2, RunsAre, RunIdsAre DEF IInv, ActiveIsLive
<1>7. TypeOK'
  <2>1. nextRunId' \in 1 .. MaxRuns + 1
    BY <1>1, <1>2, BackendAssumption DEF RunIds
  <2>2. desired' \in BOOLEAN /\ restart' \in BOOLEAN /\ ready' \in BOOLEAN /\ resolving' \in BOOLEAN
    BY <1>1
  <2> QED BY <1>1, <1>3, <1>4, <1>5, <2>1, <2>2 DEF IInv, TypeOK, RunType, ProgramType
<1>8. ActiveIsLive'
  BY <1>2, <1>3, <1>5, <1>6, RunIdsAre DEF ActiveIsLive, Live
<1>9. FutureRuns'
  BY <1>1, <1>2, <1>5, RunIdsAre DEF IInv, FutureRuns
<1>10. TasksAreDue'
  BY <1>1, <1>2, <1>5 DEF IInv, TasksAreDue
<1>11. CrashIsRemembered'
  <2>1. \A r \in RunIds : program'[r] # "alive"
    BY <1>5, <1>6 DEF Live
  <2>2. \A r \in crashed : program'[r] = "done"
    BY <1>2, <1>5, <1>6 DEF IInv, TypeOK, CrashIsRemembered, Live
  <2> QED BY <1>1, <2>1, <2>2 DEF CrashIsRemembered
<1>12. CrashesAreKept'
  BY <1>1, <1>5 DEF IInv, CrashesAreKept
<1>13. SomebodyStarts' /\ ResolvesForNobody'
  <2>1. active' # NoRun
    BY <1>2, <1>3, RunsAre, RunIdsAre
  <2> QED BY <1>1, <2>1 DEF SomebodyStarts, ResolvesForNobody
<1> QED BY <1>7, <1>8, <1>9, <1>10, <1>11, <1>12, <1>13 DEF IInv

---------------------------------------------------------------------------
(* The program of a run.                                                     *)

\* The flags of the active run and the phase of its program change, and the run
\* stays active.
LEMMA RunGoesOn ==
    ASSUME IInv, NEW r \in RunIds, active.id = r, active' \in RunType, active'.id = r,
           program' \in ProgramType, program'[r] \notin {"none", "done"},
           \A s \in RunIds : s # r => program'[s] = program[s],
           UNCHANGED <<desired, restart, nextRunId, resolving>>,
           waiting' \in Seq(TaskType), In(waiting) \subseteq In(waiting')
    PROVE  /\ ActiveIsLive' /\ ResolvesForNobody' /\ FutureRuns' /\ SomebodyStarts'
           /\ active' /= NoRun => program'[active'.id] \notin {"none", "done"}
<1>1. Live(r) /\ r # 0
  BY RunIdsAre DEF IInv, ActiveIsLive
<1>2. active # NoRun /\ active' # NoRun
  BY <1>1, RunsAre
<1>3. ActiveIsLive'
  BY <1>1 DEF IInv, ActiveIsLive, Live
<1>4. ~resolving
  BY <1>2 DEF IInv, ResolvesForNobody
<1>5. FutureRuns'
  BY <1>1 DEF IInv, FutureRuns, Live
<1> QED BY <1>2, <1>3, <1>4, <1>5 DEF ResolvesForNobody, SomebodyStarts

LEMMA SpawnedKeeps ==
    ASSUME IInv, NEW r \in RunIds, Spawned(r)
    PROVE  IInv'
<1>1. /\ program[r] = "spawning"
      /\ program' = [program EXCEPT ![r] = IF r \in closed THEN "draining" ELSE "alive"]
      /\ UNCHANGED <<desired, ready, restart, preflight, nextRunId, waiting, resolving, closed,
                     stops, crashed, kept, requests, faults>>
  BY DEF Spawned, history, bounds
<1>2. active.id = r /\ active \in RunType /\ program \in ProgramType /\ waiting \in Seq(TaskType)
  BY <1>1 DEF IInv, TypeOK, ActiveIsLive, Live, RunType, ProgramType, TaskType
<1>3. active' = [active EXCEPT !.pid = r \notin closed]
  BY <1>2 DEF Spawned, IfActive
<1>4. active' \in RunType /\ active'.id = r /\ (r \notin closed => active'.pid)
  BY <1>2, <1>3 DEF RunType
<1>5. /\ program' \in ProgramType /\ program'[r] \in {"draining", "alive"}
      /\ r \in closed => program'[r] = "draining"
      /\ \A s \in RunIds : s # r => program'[s] = program[s]
  BY <1>1, <1>2 DEF ProgramType
<1>6. /\ ActiveIsLive' /\ ResolvesForNobody' /\ FutureRuns' /\ SomebodyStarts'
      /\ active' /= NoRun => program'[active'.id] \notin {"none", "done"}
  BY <1>1, <1>2, <1>4, <1>5, RunGoesOn
<1>7. TypeOK'
  BY <1>1, <1>4, <1>5, <1>6 DEF IInv, TypeOK, RunType, ProgramType
<1>8. TasksAreDue'
  BY <1>1, <1>5 DEF IInv, TasksAreDue
<1>9. CrashIsRemembered'
  <2>1. \A s \in RunIds : program'[s] = "alive" => active'.pid
    BY <1>2, <1>4, <1>5 DEF IInv, ActiveIsLive, Live
  <2>2. \A s \in crashed : s # r
    BY <1>1 DEF IInv, CrashIsRemembered
  <2>3. \A s \in crashed : program'[s] = "done"
    BY <1>2, <1>5, <2>2 DEF IInv, TypeOK, CrashIsRemembered, ActiveIsLive, Live
  <2> QED BY <1>1, <2>1, <2>3 DEF CrashIsRemembered
<1>10. CrashesAreKept'
  BY <1>1, <1>5 DEF IInv, CrashesAreKept
<1> QED BY <1>6, <1>7, <1>8, <1>9, <1>10 DEF IInv

LEMMA SpawnFailsKeeps ==
    ASSUME IInv, NEW r \in RunIds, SpawnFails(r)
    PROVE  IInv'
<1>1. /\ program[r] = "spawning" /\ Fault
      /\ program' = [program EXCEPT ![r] = "draining"]
      /\ UNCHANGED <<desired, ready, active, restart, preflight, nextRunId, waiting, resolving,
                     closed, stops, crashed, kept, requests>>
  BY DEF SpawnFails, manager, history
<1>2. active.id = r /\ active \in RunType /\ program \in ProgramType /\ waiting \in Seq(TaskType)
  BY <1>1 DEF IInv, TypeOK, ActiveIsLive, Live, RunType, ProgramType, TaskType
<1>3. /\ program' \in ProgramType /\ program'[r] = "draining"
      /\ \A s \in RunIds : s # r => program'[s] = program[s]
  BY <1>1, <1>2 DEF ProgramType
<1>4. /\ ActiveIsLive' /\ ResolvesForNobody' /\ FutureRuns' /\ SomebodyStarts'
      /\ active' /= NoRun => program'[active'.id] \notin {"none", "done"}
  BY <1>1, <1>2, <1>3, RunGoesOn
<1>5. faults' \in 0 .. MaxFaults
  BY <1>1, BackendAssumption DEF Fault, IInv, TypeOK
<1>6. TypeOK'
  BY <1>1, <1>3, <1>4, <1>5 DEF IInv, TypeOK, ProgramType
<1>7. TasksAreDue' /\ CrashesAreKept'
  BY <1>1, <1>3 DEF IInv, TasksAreDue, CrashesAreKept
<1>8. CrashIsRemembered'
  BY <1>1, <1>3 DEF IInv, CrashIsRemembered, TypeOK
<1> QED BY <1>4, <1>6, <1>7, <1>8 DEF IInv

LEMMA BecomesReadyKeeps ==
    ASSUME IInv, NEW r \in RunIds, BecomesReady(r)
    PROVE  IInv'
<1>1. /\ active.id = r /\ ready' = TRUE /\ active' = [active EXCEPT !.probed = TRUE]
      /\ program[r] \in {"alive", "draining"}
      /\ UNCHANGED <<desired, restart, preflight, nextRunId, waiting, resolving, program, closed,
                     stops, crashed, kept, requests, faults>>
  BY DEF BecomesReady, process, history, bounds
<1>2. active \in RunType /\ program \in ProgramType /\ waiting \in Seq(TaskType)
  BY DEF IInv, TypeOK, RunType, ProgramType, TaskType
<1>3. /\ active' \in RunType /\ active'.id = r /\ active'.pid = active.pid
      /\ active'.exitObserved = active.exitObserved
      /\ active'.stopRequested = active.stopRequested
  BY <1>1, <1>2 DEF RunType
<1>4. /\ ActiveIsLive' /\ ResolvesForNobody' /\ FutureRuns' /\ SomebodyStarts'
      /\ active' /= NoRun => program'[active'.id] \notin {"none", "done"}
  BY <1>1, <1>2, <1>3, RunGoesOn
<1>5. TypeOK'
  <2>1. ready' \in BOOLEAN
    BY <1>1
  <2> QED BY <1>1, <1>3, <1>4, <2>1 DEF IInv, TypeOK, RunType
<1>6. TasksAreDue' /\ CrashesAreKept'
  BY <1>1 DEF IInv, TasksAreDue, CrashesAreKept
<1>7. CrashIsRemembered'
  BY <1>1, <1>3 DEF IInv, CrashIsRemembered
<1> QED BY <1>4, <1>5, <1>6, <1>7 DEF IInv

LEMMA ExitsKeeps ==
    ASSUME IInv, NEW r \in RunIds, Exits(r)
    PROVE  IInv'
<1>1. /\ program[r] = "alive" /\ program' = [program EXCEPT ![r] = "draining"]
      /\ UNCHANGED <<desired, ready, restart, preflight, nextRunId, waiting, resolving, closed,
                     stops, kept, requests>>
  BY DEF Exits
<1>2. /\ active.id = r /\ active \in RunType /\ program \in ProgramType
      /\ waiting \in Seq(TaskType) /\ active.pid
  BY <1>1 DEF IInv, TypeOK, ActiveIsLive, Live, RunType, ProgramType, TaskType, CrashIsRemembered
<1>3. active' = [active EXCEPT !.exitObserved = TRUE]
  BY <1>2 DEF Exits, IfActive
<1>4. /\ active' \in RunType /\ active'.id = r /\ active'.pid = active.pid /\ active'.exitObserved
      /\ active'.stopRequested = active.stopRequested
  BY <1>2, <1>3 DEF RunType
<1>5. /\ program' \in ProgramType /\ program'[r] = "draining"
      /\ \A s \in RunIds : s # r => program'[s] = program[s]
  BY <1>1, <1>2 DEF ProgramType
<1>6. /\ ActiveIsLive' /\ ResolvesForNobody' /\ FutureRuns' /\ SomebodyStarts'
      /\ active' /= NoRun => program'[active'.id] \notin {"none", "done"}
  BY <1>1, <1>2, <1>4, <1>5, RunGoesOn
<1>7. faults' \in 0 .. MaxFaults
  BY BackendAssumption DEF Exits, Fault, IInv, TypeOK
<1>8. crashed' = crashed \/ (crashed' = crashed \cup {r} /\ ~active.stopRequested)
  BY <1>2 DEF Exits
<1>9. TypeOK'
  <2>1. crashed' \subseteq RunIds
    BY <1>8 DEF IInv, TypeOK
  <2> QED BY <1>1, <1>4, <1>5, <1>6, <1>7, <2>1 DEF IInv, TypeOK, RunType, ProgramType
<1>10. TasksAreDue'
  BY <1>1, <1>5 DEF IInv, TasksAreDue
<1>11. CrashesAreKept'
  BY <1>1, <1>5, <1>8 DEF IInv, CrashesAreKept
<1>12. CrashIsRemembered'
  <2>1. \A s \in RunIds : program'[s] = "alive" => active'.pid
    BY <1>2, <1>4
  <2>2. ASSUME NEW s \in crashed', program'[s] # "done"
        PROVE  /\ program'[s] \in {"draining", "finalizing"}
               /\ active'.pid /\ active'.exitObserved /\ ~active'.stopRequested
    <3>1. CASE s \in crashed
      <4>1. s \in RunIds /\ s # r
        BY <1>1, <3>1 DEF IInv, TypeOK, CrashIsRemembered
      <4> QED BY <1>4, <1>5, <2>2, <3>1, <4>1 DEF IInv, CrashIsRemembered
    <3>2. CASE s = r /\ ~active.stopRequested
      BY <1>2, <1>4, <1>5, <3>2
    <3> QED BY <1>8, <2>2, <3>1, <3>2
  <2> QED BY <2>1, <2>2 DEF CrashIsRemembered
<1> QED BY <1>6, <1>9, <1>10, <1>11, <1>12 DEF IInv

LEMMA DrainedKeeps ==
    ASSUME IInv, NEW r \in RunIds, Drained(r)
    PROVE  IInv'
<1>1. /\ program[r] = "draining" /\ program' = [program EXCEPT ![r] = "finalizing"]
      /\ waiting' = Append(waiting, Task("finalize", r))
      /\ UNCHANGED <<desired, ready, active, restart, preflight, nextRunId, resolving, closed,
                     stops, crashed, kept, requests, faults>>
  BY DEF Drained, Enqueued, manager, history, bounds
<1>2. active.id = r /\ active \in RunType /\ program \in ProgramType
  BY <1>1 DEF IInv, TypeOK, ActiveIsLive, Live, RunType, ProgramType
<1>3. /\ program' \in ProgramType /\ program'[r] = "finalizing"
      /\ \A s \in RunIds : s # r => program'[s] = program[s]
  BY <1>1, <1>2 DEF ProgramType
<1>4. /\ Task("finalize", r) \in TaskType /\ Task("finalize", r).op = "finalize"
      /\ Task("finalize", r).run = r
  BY TasksAre
<1>5. /\ TasksAreDue' /\ waiting' \in Seq(TaskType)
      /\ In(waiting') = In(waiting) \cup {Task("finalize", r)}
  BY <1>1, <1>3, <1>4, JoinsKeep
<1>6. /\ ActiveIsLive' /\ ResolvesForNobody' /\ FutureRuns' /\ SomebodyStarts'
      /\ active' /= NoRun => program'[active'.id] \notin {"none", "done"}
  BY <1>1, <1>2, <1>3, <1>5, RunGoesOn
<1>7. TypeOK'
  BY <1>1, <1>3, <1>5, <1>6 DEF IInv, TypeOK, ProgramType, TaskType
<1>8. CrashesAreKept'
  BY <1>1, <1>3 DEF IInv, CrashesAreKept
<1>9. CrashIsRemembered'
  BY <1>1, <1>3 DEF IInv, CrashIsRemembered, TypeOK
<1> QED BY <1>5, <1>6, <1>7, <1>8, <1>9 DEF IInv

LEMMA FinalizeRunKeeps ==
    ASSUME IInv, NEW r \in RunIds, FinalizeRun(r)
    PROVE  IInv'
<1>1. /\ Served("finalize", r) /\ waiting' = Tail(waiting)
      /\ program' = [program EXCEPT ![r] = "done"]
      /\ UNCHANGED <<desired, preflight, nextRunId, resolving, closed, stops, crashed, requests,
                     faults>>
  BY DEF FinalizeRun, bounds
<1>2. /\ active \in RunType /\ program \in ProgramType /\ r # 0
      /\ Task("finalize", r) \in In(waiting) /\ ~resolving
  BY <1>1, ServedTask, RunIdsAre DEF IInv, TypeOK, RunType, ProgramType
<1>3. program[r] # "none"
  <2>1. Task("finalize", r).op = "finalize" /\ Task("finalize", r).run = r
    BY TasksAre
  <2> QED BY <1>2, <2>1 DEF IInv, TasksAreDue
<1>4. /\ program' \in ProgramType /\ program'[r] = "done"
      /\ \A s \in RunIds : s # r => program'[s] = program[s]
  BY <1>1, <1>2 DEF ProgramType
<1>5. /\ TasksAreDue' /\ waiting' \in Seq(TaskType)
      /\ Task("start", 0) \in In(waiting) => Task("start", 0) \in In(waiting')
  BY <1>1, <1>4, HeadLeaves
<1>6. ResolvesForNobody'
  BY <1>1, <1>2 DEF ResolvesForNobody
<1>7. FutureRuns'
  BY <1>1, <1>3, <1>4 DEF IInv, FutureRuns
<1>8. CASE active.id = r
  <2>1. /\ active' = NoRun /\ ready' = FALSE
        /\ kept' = IF active.pid /\ active.exitObserved /\ ~active.stopRequested
                   THEN kept \cup {r} ELSE kept
        /\ restart' = (restart \/ desired)
    BY <1>8 DEF FinalizeRun, Ended, Scheduled, RestartsAfter
  <2>2. TypeOK'
    <3>1. ready' \in BOOLEAN /\ kept' \subseteq RunIds /\ active' \in RunType
      BY <2>1, RunsAre DEF IInv, TypeOK
    <3>2. restart' \in BOOLEAN
      BY <2>1
    <3> QED BY <1>1, <1>4, <1>5, <2>1, <3>1, <3>2 DEF IInv, TypeOK, RunType, ProgramType, TaskType
  <2>3. ActiveIsLive'
    <3>1. \A s \in RunIds : ~Live(s)'
      BY <1>4, <1>8 DEF IInv, ActiveIsLive, Live
    <3> QED BY <2>1, <3>1, RunsAre, RunIdsAre DEF ActiveIsLive
  <2>4. \A s \in crashed : program'[s] = "done"
    BY <1>4, <1>8 DEF IInv, TypeOK, CrashIsRemembered, ActiveIsLive, Live
  <2>5. CrashIsRemembered'
    BY <1>1, <2>3, <2>4, RunsAre, RunIdsAre, <2>1 DEF CrashIsRemembered, ActiveIsLive, Live
  <2>6. CrashesAreKept'
    <3>1. r \in crashed => r \in kept'
      BY <2>1 DEF IInv, CrashIsRemembered, CrashesAreKept
    <3>2. kept \subseteq kept'
      BY <2>1
    <3> QED BY <1>1, <1>4, <3>1, <3>2 DEF IInv, CrashesAreKept
  <2>7. SomebodyStarts'
    BY <1>1, <2>1 DEF SomebodyStarts
  <2> QED BY <1>5, <1>6, <1>7, <2>2, <2>3, <2>5, <2>6, <2>7 DEF IInv
<1>9. CASE active.id # r
  <2>1. UNCHANGED <<active, ready, kept, restart>> /\ program[r] = "done"
    BY <1>2, <1>3, <1>9 DEF FinalizeRun, IInv, ActiveIsLive, Live
  <2>2. program' = program
    BY <1>1, <1>2, <2>1 DEF ProgramType
  <2>3. TypeOK'
    BY <1>1, <1>5, <2>1, <2>2 DEF IInv, TypeOK, TaskType
  <2>4. SomebodyStarts'
    BY <1>1, <1>5, <2>1 DEF IInv, SomebodyStarts
  <2> QED BY <1>1, <1>5, <1>6, <2>1, <2>2, <2>3, <2>4, RunsUntouched DEF IInv
<1> QED BY <1>8, <1>9

LEMMA RestartFiresKeeps ==
    ASSUME IInv, RestartFires
    PROVE  IInv'
<1>1. /\ restart' = FALSE
      /\ waiting' = IF desired THEN Append(waiting, Task("start", 0)) ELSE waiting
      /\ UNCHANGED <<desired, ready, active, preflight, nextRunId, resolving, program, closed,
                     stops, crashed, kept, requests, faults>>
  BY DEF RestartFires, Enqueued, process, history, bounds
<1>2. Task("start", 0) \in TaskType /\ Task("start", 0).op = "start"
  BY TasksAre
<1>3. /\ TasksAreDue' /\ waiting' \in Seq(TaskType)
      /\ desired => Task("start", 0) \in In(waiting')
  <2>1. CASE desired
    BY <1>1, <1>2, <2>1, JoinsKeep
  <2>2. CASE ~desired
    BY <1>1, <2>2 DEF IInv, TypeOK, TaskType, TasksAreDue
  <2> QED BY <2>1, <2>2
<1>4. restart' \in BOOLEAN
  BY <1>1
<1>5. TypeOK'
  BY <1>1, <1>3, <1>4 DEF IInv, TypeOK, TaskType
<1>6. ResolvesForNobody' /\ SomebodyStarts'
  BY <1>1, <1>3 DEF IInv, ResolvesForNobody, SomebodyStarts
<1> QED BY <1>1, <1>3, <1>5, <1>6, RunsUntouched DEF IInv

---------------------------------------------------------------------------
(* stop                                                                     *)

LEMMA StopKeeps ==
    ASSUME IInv, Stop
    PROVE  IInv'
<1>1. /\ Served("stop", 0) /\ waiting' = Tail(waiting) /\ active' = Asked(active)
      /\ desired' = FALSE /\ ready' = FALSE /\ restart' = FALSE
      /\ stops' \in {stops, stops \cup {active.id}} /\ (active = NoRun => stops' = stops)
      /\ UNCHANGED <<preflight, nextRunId, resolving, program, closed, crashed, kept, requests,
                     faults>>
  BY DEF Stop, process, history, bounds
<1>2. active \in RunType /\ ~resolving
  BY <1>1, ServedTask DEF IInv, TypeOK, RunType
<1>3. /\ active' \in RunType /\ active'.id = active.id /\ active'.pid = active.pid
      /\ active'.exitObserved = active.exitObserved
      /\ active.exitObserved => active' = active
      /\ active = NoRun => active' = NoRun
  BY <1>1, <1>2 DEF Asked, RunType
<1>4. TasksAreDue' /\ waiting' \in Seq(TaskType)
  BY <1>1, HeadLeaves
<1>5. TypeOK'
  <2>1. desired' \in BOOLEAN /\ ready' \in BOOLEAN /\ restart' \in BOOLEAN
    BY <1>1
  <2>2. stops' \subseteq RunIds
    BY <1>1, <1>2 DEF IInv, TypeOK, ActiveIsLive, RunType
  <2>3. active' /= NoRun => program'[active'.id] \notin {"none", "done"}
    BY <1>1, <1>3 DEF IInv, TypeOK
  <2> QED BY <1>1, <1>3, <1>4, <2>1, <2>2, <2>3 DEF IInv, TypeOK, RunType, TaskType
<1>6. ActiveIsLive' /\ FutureRuns' /\ CrashesAreKept'
  BY <1>1, <1>3 DEF IInv, ActiveIsLive, Live, FutureRuns, CrashesAreKept
<1>7. CrashIsRemembered'
  BY <1>1, <1>3 DEF IInv, CrashIsRemembered
<1>8. ResolvesForNobody' /\ SomebodyStarts'
  BY <1>1, <1>2 DEF ResolvesForNobody, SomebodyStarts
<1> QED BY <1>4, <1>5, <1>6, <1>7, <1>8 DEF IInv

LEMMA StopWaitsKeep ==
    ASSUME IInv, NEW r \in RunIds, CloseScope(r) \/ StopTimesOut(r)
    PROVE  IInv'
<1>1. /\ closed' \subseteq RunIds /\ stops' \subseteq RunIds
      /\ UNCHANGED <<desired, ready, active, restart, preflight, nextRunId, waiting, resolving,
                     program, crashed, kept, requests, faults>>
  BY DEF CloseScope, StopTimesOut, manager, process, history, bounds, IInv, TypeOK
<1>2. TypeOK'
  BY <1>1 DEF IInv, TypeOK
<1>3. TasksAreDue' /\ ResolvesForNobody' /\ SomebodyStarts'
  BY <1>1 DEF IInv, TasksAreDue, ResolvesForNobody, SomebodyStarts
<1> QED BY <1>1, <1>2, <1>3, RunsUntouched DEF IInv

LEMMA StopEndsKeeps ==
    ASSUME IInv, NEW r \in RunIds, StopEnds(r)
    PROVE  IInv'
<1>1. /\ program[r] = "done" /\ stops' = stops \ {r}
      /\ waiting' = Append(waiting, Task("cleanup", r))
      /\ UNCHANGED <<desired, ready, active, restart, preflight, nextRunId, resolving, program,
                     closed, crashed, kept, requests, faults>>
  BY DEF StopEnds, Enqueued, manager, process, history, bounds
<1>2. /\ Task("cleanup", r) \in TaskType /\ Task("cleanup", r).op = "cleanup"
      /\ Task("cleanup", r).run = r
  BY TasksAre
<1>3. /\ TasksAreDue' /\ waiting' \in Seq(TaskType)
      /\ In(waiting') = In(waiting) \cup {Task("cleanup", r)}
  BY <1>1, <1>2, JoinsKeep
<1>4. TypeOK'
  BY <1>1, <1>3 DEF IInv, TypeOK, TaskType
<1>5. ResolvesForNobody' /\ SomebodyStarts'
  BY <1>1, <1>3 DEF IInv, ResolvesForNobody, SomebodyStarts
<1> QED BY <1>1, <1>3, <1>4, <1>5, RunsUntouched DEF IInv

LEMMA CleanUpKeeps ==
    ASSUME IInv, NEW r \in RunIds, CleanUp(r)
    PROVE  IInv'
<1>1. /\ Served("cleanup", r) /\ active' = IfActive(r, NoRun)
      /\ waiting' = IF StartsAgain(r) THEN Append(Tail(waiting), Task("start", 0)) ELSE Tail(waiting)
      /\ UNCHANGED <<desired, ready, restart, preflight, nextRunId, resolving, program, closed,
                     stops, crashed, kept, requests, faults>>
  BY DEF CleanUp, process, history, bounds
<1>2. program[r] = "done"
  <2>1. Task("cleanup", r) \in In(waiting)
    BY <1>1, ServedTask DEF IInv
  <2>2. Task("cleanup", r).op = "cleanup" /\ Task("cleanup", r).run = r
    BY TasksAre
  <2> QED BY <2>1, <2>2 DEF IInv, TasksAreDue
<1>3. active' = active
  BY <1>1, <1>2 DEF IInv, ActiveIsLive, Live, IfActive
<1>4. /\ Tail(waiting) \in Seq(TaskType) /\ In(Tail(waiting)) \subseteq In(waiting)
      /\ Task("start", 0) \in In(waiting) => Task("start", 0) \in In(Tail(waiting))
  <2>1. Task("start", 0).op # Task("cleanup", r).op
    BY TasksAre
  <2>2. Task("start", 0) # Task("cleanup", r)
    BY <2>1
  <2> QED BY <1>1, <2>2, ServedTask DEF IInv
<1>5. Task("start", 0) \in TaskType /\ Task("start", 0).op = "start"
  BY TasksAre
<1>6. /\ waiting' \in Seq(TaskType) /\ In(waiting') \subseteq In(waiting) \cup {Task("start", 0)}
      /\ Task("start", 0) \in In(waiting) => Task("start", 0) \in In(waiting')
  <2>1. CASE StartsAgain(r)
    <3> DEFINE q == Tail(waiting)
               t == Task("start", 0)
    <3>1. /\ waiting' = Append(q, t) /\ q \in Seq(TaskType) /\ t \in TaskType
          /\ In(q) \subseteq In(waiting) /\ (t \in In(waiting) => t \in In(q))
      BY <1>1, <1>4, <1>5, <2>1
    <3> HIDE DEF q, t
    <3>2. waiting' \in Seq(TaskType) /\ In(waiting') = In(q) \cup {t}
      BY <3>1, Queued
    <3>3. In(waiting') \subseteq In(waiting) \cup {t} /\ (t \in In(waiting) => t \in In(waiting'))
      BY <3>1, <3>2
    <3> QED BY <3>2, <3>3 DEF t
  <2>2. CASE ~StartsAgain(r)
    BY <1>1, <1>4, <2>2
  <2> QED BY <2>1, <2>2
<1>7. TasksAreDue'
  BY <1>1, <1>5, <1>6 DEF IInv, TasksAreDue
<1>8. TypeOK'
  BY <1>1, <1>3, <1>6 DEF IInv, TypeOK, TaskType
<1>9. ResolvesForNobody' /\ SomebodyStarts'
  BY <1>1, <1>3, <1>6 DEF IInv, ResolvesForNobody, SomebodyStarts
<1> QED BY <1>1, <1>3, <1>7, <1>8, <1>9, RunsUntouched DEF IInv

---------------------------------------------------------------------------
LEMMA NextInv ==
    ASSUME IInv, [Next]_vars
    PROVE  IInv'
<1>1. CASE UNCHANGED vars
  <2>1. UNCHANGED <<desired, ready, active, restart, preflight, nextRunId, waiting, resolving,
                    program, closed, stops, crashed, kept, requests, faults>>
    BY <1>1 DEF vars
  <2>2. TypeOK'
    BY <2>1 DEF IInv, TypeOK
  <2>3. TasksAreDue' /\ ResolvesForNobody' /\ SomebodyStarts'
    BY <2>1 DEF IInv, TasksAreDue, ResolvesForNobody, SomebodyStarts
  <2> QED BY <2>1, <2>2, <2>3, RunsUntouched DEF IInv
<1>2. CASE Section
  BY <1>2, StartWhileActiveKeeps, StartResolvesKeeps, ConfigFailsKeeps, PreflightKeeps,
     StartRunKeeps, StopKeeps, FinalizeRunKeeps, CleanUpKeeps DEF Section
<1>3. CASE \E r \in RunIds : \/ Program(r) \/ BecomesReady(r)
                              \/ CloseScope(r) \/ StopTimesOut(r) \/ StopEnds(r)
  BY <1>3, SpawnedKeeps, SpawnFailsKeeps, ExitsKeeps, DrainedKeeps, BecomesReadyKeeps,
     StopWaitsKeep, StopEndsKeeps DEF Program
<1> QED BY <1>1, <1>2, <1>3, RequestKeeps, RestartFiresKeeps DEF Next

LEMMA Invariant == Spec => []IInv
BY InitInv, NextInv, PTL DEF Spec

\* Everything stays in its range, and the active run's program is on its way
\* (DesktopBackendManager.ts 304-345).
THEOREM TypeCorrect == Spec => []TypeOK
<1>1. IInv => TypeOK
  BY DEF IInv
<1> QED BY <1>1, Invariant, PTL

\* Two backend processes never run at once, whatever starts, stops and exits
\* come in which order (DesktopBackendManager.ts 691-1135).
THEOREM NeverTwoBackends == Spec => []OneBackend
<1>1. ASSUME IInv PROVE OneBackend
  <2> DEFINE running == {r \in RunIds : program[r] \in {"spawning", "alive"}}
  <2>1. running \subseteq {active.id}
    BY <1>1 DEF IInv, ActiveIsLive, Live
  <2>2. IsFiniteSet({active.id}) /\ Cardinality({active.id}) = 1
    BY FS_Singleton
  <2>3. Cardinality(running) <= Cardinality({active.id})
    BY <2>1, <2>2, FS_Subset
  <2> QED BY <2>2, <2>3 DEF OneBackend
<1> QED BY <1>1, Invariant, PTL

\* A backend that is wanted is never forgotten: when nobody works on it there is
\* a run or a scheduled restart (DesktopBackendManager.ts 900-902, 988-1046).
THEOREM WantedIsNotForgotten == Spec => []NeverStranded
<1>1. ASSUME IInv PROVE NeverStranded
  <2>1. waiting = <<>> => In(waiting) = {}
    BY DEF In
  <2> QED BY <1>1, <2>1 DEF IInv, SomebodyStarts, NeverStranded, Quiet
<1> QED BY <1>1, Invariant, PTL

\* The log of a run that exited by itself is kept, also when a stop came in while
\* its output was drained (DesktopBackendManager.ts 865-899).
THEOREM CrashLogsAreKept == Spec => []CrashesAreKept
<1>1. IInv => CrashesAreKept
  BY DEF IInv
<1> QED BY <1>1, Invariant, PTL
=============================================================================
