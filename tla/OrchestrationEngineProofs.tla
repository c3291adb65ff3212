---------------------- MODULE OrchestrationEngineProofs ----------------------
(***************************************************************************)
(* Theorems of the command engine for every set of clients, commands,        *)
(* projects and threads, and every bound.                                   *)
(***************************************************************************)
EXTENDS OrchestrationEngine, FiniteSetTheorems, SequenceTheorems, WellFoundedInduction, TLAPS

(* A project row or a thread row replaced by one of its type leaves a read     *)
(* model a read model; so does every event (projector.ts).                   *)
LEMMA ProjectEventType ==
    ASSUME NEW m \in ReadModel, NEW e \in Event, NEW s \in Nat
    PROVE  ProjectEvent(m, e, s) \in ReadModel
<1> DEFINE p == e.aggregate
<1>1. \A row \in ProjectRow :
         [m EXCEPT !.snapshotSequence = s, !.projects[p] = row] \in ReadModel
  BY DEF ReadModel
<1>2. \A row \in ThreadRow :
         [m EXCEPT !.snapshotSequence = s, !.threads[p] = row] \in ReadModel
  BY DEF ReadModel
<1>3. \A row : p \notin Projects =>
         [m EXCEPT !.snapshotSequence = s, !.projects[p] = row] \in ReadModel
  BY DEF ReadModel
<1>4. \A row : p \notin Threads =>
         [m EXCEPT !.snapshotSequence = s, !.threads[p] = row] \in ReadModel
  BY DEF ReadModel
<1>5. p \in Projects => m.projects[p] \in ProjectRow
  BY DEF ReadModel
<1>6. p \in Threads => m.threads[p] \in ThreadRow
  BY DEF ReadModel
<1>7. /\ e.root \in Roots \cup {None}
      /\ e.project \in Projects \cup {None}
      /\ e.type \in EventTypes
  BY DEF Event
<1>8. CASE e.type = "project.created"
  BY <1>8, <1>1, <1>7 DEF ProjectEvent, ProjectRow
<1>9. CASE e.type = "project.meta-updated"
  <2>1. p \in Projects => [m.projects[p] EXCEPT !.root = e.root] \in ProjectRow
    BY <1>5, <1>7 DEF ProjectRow
  <2> QED BY <1>9, <2>1, <1>1, <1>3 DEF ProjectEvent
<1>10. CASE e.type = "project.deleted"
  <2>1. p \in Projects => [m.projects[p] EXCEPT !.deleted = TRUE] \in ProjectRow
    BY <1>5 DEF ProjectRow
  <2> QED BY <1>10, <2>1, <1>1, <1>3 DEF ProjectEvent
<1>11. CASE e.type = "thread.created"
  BY <1>11, <1>2, <1>7 DEF ProjectEvent, ThreadRow
<1>12. CASE e.type = "thread.deleted"
  <2>1. p \in Threads => [m.threads[p] EXCEPT !.deleted = TRUE] \in ThreadRow
    BY <1>6 DEF ThreadRow
  <2> QED BY <1>12, <2>1, <1>2, <1>4 DEF ProjectEvent
<1>13. CASE e.type = "thread.archived"
  <2>1. p \in Threads => [m.threads[p] EXCEPT !.archived = TRUE] \in ThreadRow
    BY <1>6 DEF ThreadRow
  <2> QED BY <1>13, <2>1, <1>2, <1>4 DEF ProjectEvent
<1>14. CASE e.type = "thread.unarchived"
  <2>1. p \in Threads => [m.threads[p] EXCEPT !.archived = FALSE] \in ThreadRow
    BY <1>6 DEF ThreadRow
  <2> QED BY <1>14, <2>1, <1>2, <1>4 DEF ProjectEvent
<1> QED BY <1>7, <1>8, <1>9, <1>10, <1>11, <1>12, <1>13, <1>14 DEF EventTypes

LEMMA EmptyReadModelType == EmptyReadModel \in ReadModel
BY DEF EmptyReadModel, ReadModel, ProjectRow, ThreadRow

(* A plan is a non-empty sequence of events, every one under the command's id. *)
LEMMA PlanType ==
    ASSUME NEW m, NEW c, WellFormed(c), NEW plan \in DecidePlans(m, c)
    PROVE  /\ plan \in Seq(Event) /\ plan # <<>>
           /\ \A i \in 1..Len(plan) : plan[i].commandId = c.commandId
<1>1. /\ c \in Command
      /\ CommandToAggregateRef(c) \in Aggregates
      /\ c.type = "project.delete" => c.project \in Projects
  BY DEF WellFormed, Command, CommandToAggregateRef, Aggregates, ProjectCommandTypes,
         ThreadCommandTypes
<1>2. \A type \in EventTypes, a \in Aggregates :
         /\ WithEventBase(c, type, a) \in Event
         /\ WithEventBase(c, type, a).commandId = c.commandId
  BY <1>1 DEF WithEventBase, Event, Command
<1>3. CASE c.type # "project.delete"
  <2>1. EventTypeOf[c.type] \in EventTypes
    BY <1>1 DEF EventTypeOf, EventTypes, Command, ProjectCommandTypes, ThreadCommandTypes
  <2> DEFINE ev == WithEventBase(c, EventTypeOf[c.type], CommandToAggregateRef(c))
  <2>2. ev \in Event /\ ev.commandId = c.commandId
    BY <1>1, <1>2, <2>1
  <2>3. plan = <<ev>>
    BY <1>3 DEF DecidePlans
  <2> HIDE DEF ev
  <2> QED BY <2>2, <2>3
<1>4. CASE c.type = "project.delete"
  <2> DEFINE S == ActiveThreads(m, c.project)
             n == Cardinality(S)
  <2>1. S \subseteq Threads /\ IsFiniteSet(S) /\ n \in Nat
    BY DomainAssumption, FS_Subset, FS_CardinalityType DEF ActiveThreads
  <2>2. PICK q \in Listings(S) :
          plan = [i \in 1..(Len(q) + 1) |->
                    IF i <= Len(q) THEN WithEventBase(c, "thread.deleted", q[i])
                                   ELSE WithEventBase(c, "project.deleted", c.project)]
    BY <1>4 DEF DecidePlans, ForcedDeletion
  <2> HIDE DEF n, S
  <2>3. q \in [1..n -> Threads] /\ q \in Seq(Threads) /\ Len(q) = n
    BY <2>1, <2>2 DEF Listings, n
  <2>4. \A i \in 1..(n + 1) :
          IF i <= n THEN q[i] \in Aggregates ELSE c.project \in Aggregates
    BY <2>1, <2>3, <1>1, <1>4 DEF Aggregates
  <2>5. "thread.deleted" \in EventTypes /\ "project.deleted" \in EventTypes
    BY DEF EventTypes
  <2>6. \A i \in 1..(n + 1) : plan[i] \in Event /\ plan[i].commandId = c.commandId
    BY <2>2, <2>3, <2>4, <2>5, <1>2
  <2>7. plan \in [1..(n + 1) -> Event]
    BY <2>2, <2>3, <2>6
  <2>8. plan \in Seq(Event) /\ Len(plan) = n + 1
    BY <2>1, <2>7
  <2> QED BY <2>1, <2>6, <2>8
<1> QED BY <1>3, <1>4

---------------------------------------------------------------------------
(* Type correctness.                                                        *)

\* The worker holds an envelope whenever it is not resting.
WorkerHasEnvelope == phase # "idle" => envelope \in Envelope

TypeInv == TypeOK /\ WorkerHasEnvelope

LEMMA InitType == Init => TypeInv
BY EmptyReadModelType, EngineAssumption
   DEF Init, TypeInv, TypeOK, WorkerHasEnvelope, Receipt, NoReceipt, Phases, Errors, NoError

(* The command of the envelope is one the wire schema lets through. *)
LEMMA EnvelopeCommand ==
    ASSUME TypeInv, phase # "idle"
    PROVE  /\ envelope.client \in Clients
           /\ envelope.command \in Commands
           /\ WellFormed(envelope.command)
           /\ envelope.command.commandId \in CommandIds
           /\ CommandToAggregateRef(envelope.command) \in Aggregates
<1>1. envelope \in Envelope
  BY DEF TypeInv, WorkerHasEnvelope
<1>2. envelope.client \in Clients /\ envelope.command \in Commands
  BY <1>1 DEF Envelope
<1>3. WellFormed(envelope.command)
  BY <1>2, EngineAssumption
<1>4. /\ envelope.command.commandId \in CommandIds
      /\ CommandToAggregateRef(envelope.command) \in Aggregates
  BY <1>3 DEF WellFormed, Command, CommandToAggregateRef, Aggregates, ProjectCommandTypes,
              ThreadCommandTypes
<1> QED BY <1>2, <1>3, <1>4

(* FailWith keeps the types, whatever error of its type it is given. *)
LEMMA FailWithType ==
    ASSUME TypeInv, phase # "idle", NEW e \in Errors, FailWith(e),
           events' \in Seq(Event), receipts' \in [CommandIds -> Receipt],
           projections' \in ReadModel, faults' \in Nat
    PROVE  TypeInv'
BY DEF TypeInv, TypeOK, WorkerHasEnvelope, FailWith, Phases, Errors

(* What a COMMIT leaves is well typed. *)
LEMMA PersistType ==
    ASSUME TypeInv, phase # "idle", Persist
    PROVE  /\ events' \in Seq(Event) /\ receipts' \in [CommandIds -> Receipt]
           /\ projections' \in ReadModel
<1>1. staged \in Seq(Event) /\ staged # <<>> /\ events \in Seq(Event)
  BY DEF TypeInv, TypeOK, Persist
<1>2. Len(staged) \in 1..Len(staged) /\ staged[Len(staged)] \in Event
  BY <1>1
<1>3. AcceptedReceipt \in Receipt
  BY <1>1, <1>2 DEF AcceptedReceipt, Receipt, Event
<1>4. events \o staged \in Seq(Event)
  BY <1>1
<1> QED BY <1>3, <1>4, EnvelopeCommand DEF Persist, TypeInv, TypeOK

(* Resolve keeps the types of everything it sets. *)
LEMMA ResolveType ==
    ASSUME TypeInv, phase # "idle", NEW a \in {"accepted", "failed"}, Resolve(a),
           receipts' \in [CommandIds -> Receipt], told' \subseteq CommandIds \X Nat,
           faults' \in Nat
    PROVE  TypeInv'
<1>1. answers' \in [Clients -> {"none", "awaited", "accepted", "failed", "lost"}]
  BY DEF Resolve, SettleDeferred, TypeInv, TypeOK
<1> QED BY <1>1, EmptyReadModelType
        DEF Resolve, TypeInv, TypeOK, WorkerHasEnvelope, Phases, Errors, NoError

(* Every step of the worker keeps the types. *)
LEMMA WorkerType == TypeInv /\ Worker => TypeInv'
<1> SUFFICES ASSUME TypeInv, Worker PROVE TypeInv'
  OBVIOUS
<1> USE DEF TypeInv
<1>1. CASE TakeCommand
  <2>1. Head(commandQueue) \in Envelope /\ Tail(commandQueue) \in Seq(Envelope)
    BY <1>1 DEF TakeCommand, TypeOK
  <2>2. commandReadModel.snapshotSequence \in Nat
    BY DEF TypeOK, ReadModel
  <2> QED BY <1>1, <2>1, <2>2
          DEF TakeCommand, TypeOK, WorkerHasEnvelope, Phases, durableVars, stagingVars, boundVars
<1>2. CASE AnswerFromReceipt
  <2>1. phase # "idle" /\ events' = events /\ receipts' = receipts
        /\ projections' = projections /\ faults' = faults
    BY <1>2 DEF AnswerFromReceipt, durableVars
  <2>2. \/ FailWith(IdConflict)
        \/ FailWith(PreviouslyRejected)
        \/ /\ phase' = "settling"
           /\ UNCHANGED <<up, commandQueue, commandReadModel, eventPubSub, envelope,
                          dispatchStartSequence, stagingVars, error, answers, started, told,
                          reconcileFailed, dispatches, crashes>>
    BY <1>2 DEF AnswerFromReceipt
  <2>3. IdConflict \in Errors /\ PreviouslyRejected \in Errors
    BY DEF Errors
  <2>4. CASE FailWith(IdConflict) \/ FailWith(PreviouslyRejected)
    BY <2>1, <2>3, <2>4, FailWithType DEF TypeOK
  <2>5. CASE /\ phase' = "settling"
             /\ UNCHANGED <<up, commandQueue, commandReadModel, eventPubSub, envelope,
                            dispatchStartSequence, stagingVars, error, answers, started, told,
                            reconcileFailed, dispatches, crashes>>
    BY <2>1, <2>5 DEF TypeOK, WorkerHasEnvelope, Phases, stagingVars
  <2> QED BY <2>2, <2>4, <2>5
<1>3. CASE DecideAccepts
  <2>1. phase # "idle" /\ WellFormed(envelope.command)
    BY <1>3, EnvelopeCommand DEF DecideAccepts
  <2>2. pending' \in Seq(Event)
    BY <1>3, <2>1, PlanType DEF DecideAccepts
  <2> QED BY <1>3, <2>1, <2>2
          DEF DecideAccepts, TypeOK, WorkerHasEnvelope, Phases, durableVars, boundVars
<1>4. CASE DecideRejects
  BY <1>4, FailWithType DEF DecideRejects, TypeOK, durableVars, Errors
<1>5. CASE AppendEvent
  <2>1. Head(pending) \in Event /\ Tail(pending) \in Seq(Event)
        /\ Len(events) + Len(staged) + 1 \in Nat
    BY <1>5 DEF AppendEvent, TypeOK
  <2>2. Append(staged, Head(pending)) \in Seq(Event)
    BY <2>1 DEF TypeOK
  <2> QED BY <1>5, <2>1, <2>2, ProjectEventType
          DEF AppendEvent, TypeOK, WorkerHasEnvelope, durableVars, boundVars
<1>6. CASE Commit
  BY <1>6, PersistType
     DEF Commit, TypeOK, WorkerHasEnvelope, Phases, stagingVars, boundVars
<1>7. CASE ReconcileRead
  <2>1. ReadFromSequence(dispatchStartSequence) \in Seq(Event)
    BY DEF ReadFromSequence, TypeOK
  <2> QED BY <1>7, <2>1
          DEF ReconcileRead, TypeOK, WorkerHasEnvelope, Phases, durableVars, boundVars
<1>8. CASE ReplayEvent
  <2>1. Head(pending) \in Event /\ Tail(pending) \in Seq(Event)
        /\ dispatchStartSequence + Len(staged) + 1 \in Nat
    BY <1>8 DEF ReplayEvent, TypeOK
  <2>2. Append(staged, Head(pending)) \in Seq(Event)
    BY <2>1 DEF TypeOK
  <2> QED BY <1>8, <2>1, <2>2, ProjectEventType
          DEF ReplayEvent, TypeOK, WorkerHasEnvelope, durableVars, boundVars
<1>9. CASE ReplayDone
  BY <1>9 DEF ReplayDone, TypeOK, WorkerHasEnvelope, Phases, durableVars, stagingVars, boundVars
<1>10. CASE PublishEvent
  <2>1. Head(staged) \in Event /\ Tail(staged) \in Seq(Event)
    BY <1>10 DEF PublishEvent, TypeOK
  <2>2. Append(eventPubSub, Head(staged)) \in Seq(Event)
    BY <2>1 DEF TypeOK
  <2> QED BY <1>10, <2>1, <2>2
          DEF PublishEvent, TypeOK, WorkerHasEnvelope, durableVars, boundVars
<1>11. CASE PublishDone
  BY <1>11 DEF PublishDone, TypeOK, WorkerHasEnvelope, Phases, durableVars, stagingVars, boundVars
<1>12. CASE Succeed
  <2>1. phase # "idle" /\ receipt.resultSequence \in Nat
        /\ envelope.command.commandId \in CommandIds
    BY <1>12, EnvelopeCommand DEF Succeed, receipt, TypeOK, Receipt
  <2>2. told' \subseteq CommandIds \X Nat
    BY <1>12, <2>1 DEF Succeed, TypeOK
  <2> QED BY <1>12, <2>1, <2>2, ResolveType DEF Succeed, TypeOK
<1>13. CASE FailRejected
  <2>1. phase # "idle" /\ envelope.command.commandId \in CommandIds
        /\ CommandToAggregateRef(envelope.command) \in Aggregates
        /\ commandReadModel.snapshotSequence \in Nat
    BY <1>13, EnvelopeCommand DEF FailRejected, TypeOK, ReadModel
  <2> DEFINE r == [status |-> "rejected", aggregate |-> CommandToAggregateRef(envelope.command),
                   resultSequence |-> commandReadModel.snapshotSequence]
  <2>3. r \in Receipt
    BY <2>1 DEF Receipt
  <2>4. /\ receipts' = receipts \/ receipts' = [receipts EXCEPT ![envelope.command.commandId] = r]
        /\ faults' = faults \/ faults' = faults + 1
    BY <1>13 DEF FailRejected
  <2> HIDE DEF r
  <2>5. receipts \in [CommandIds -> Receipt] /\ faults \in Nat
    BY DEF TypeOK
  <2>6. [receipts EXCEPT ![envelope.command.commandId] = r] \in [CommandIds -> Receipt]
    BY <2>3, <2>5
  <2>2. receipts' \in [CommandIds -> Receipt] /\ faults' \in Nat
    BY <2>4, <2>5, <2>6
  <2> QED BY <1>13, <2>1, <2>2, ResolveType DEF FailRejected, TypeOK
<1>14. CASE Fail
  BY <1>14, ResolveType DEF Fail, TypeOK
<1> QED BY <1>1, <1>2, <1>3, <1>4, <1>5, <1>6, <1>7, <1>8, <1>9, <1>10, <1>11, <1>12, <1>13,
           <1>14 DEF Worker

(* So does every fault. *)
LEMMA FaultType == TypeInv /\ Faults => TypeInv'
<1> SUFFICES ASSUME TypeInv, Faults PROVE TypeInv'
  OBVIOUS
<1> USE DEF TypeInv
<1>1. CASE PreparationFails
  BY <1>1, FailWithType DEF PreparationFails, TypeOK, durableVars, Errors
<1>2. CASE StorageFails
  BY <1>2, FailWithType DEF StorageFails, TypeOK, durableVars, Errors
<1>3. CASE CommitReportsFailure
  <2>1. phase # "idle" /\ Persist /\ FailWith(StorageError) /\ faults' \in Nat
    BY <1>3 DEF CommitReportsFailure, TypeOK
  <2> QED BY <2>1, PersistType, FailWithType DEF Errors
<1>4. CASE ReconcileFails
  BY <1>4 DEF ReconcileFails, TypeOK, WorkerHasEnvelope, Phases, durableVars, stagingVars
<1> QED BY <1>1, <1>2, <1>3, <1>4 DEF Faults

LEMMA NextType == TypeInv /\ [Next]_vars => TypeInv'
<1> SUFFICES ASSUME TypeInv, [Next]_vars PROVE TypeInv'
  OBVIOUS
<1>1. ASSUME NEW client \in Clients, NEW command \in Commands, Dispatch(client, command)
      PROVE  TypeInv'
  <2>1. Append(commandQueue, [client |-> client, command |-> command]) \in Seq(Envelope)
    BY DEF TypeInv, TypeOK, Envelope
  <2> QED BY <1>1, <2>1
          DEF Dispatch, TypeInv, TypeOK, WorkerHasEnvelope, durableVars, workerVars, stagingVars
<1>2. CASE Crash
  <2>1. up' \in BOOLEAN
    BY <1>2 DEF Crash
  <2>2. answers' \in [Clients -> {"none", "awaited", "accepted", "failed", "lost"}]
    BY <1>2 DEF Crash, TypeInv, TypeOK
  <2>3. WorkerHasEnvelope'
    BY <1>2 DEF Crash, WorkerHasEnvelope
  <2>4. /\ crashes' \in Nat /\ events' = events /\ receipts' = receipts
        /\ projections' = projections /\ started' = started /\ told' = told
        /\ reconcileFailed' = reconcileFailed /\ dispatches' = dispatches /\ faults' = faults
    BY <1>2 DEF Crash, durableVars, TypeInv, TypeOK
  <2>5. /\ commandQueue' = <<>> /\ commandReadModel' = EmptyReadModel /\ eventPubSub' = <<>>
        /\ phase' = "idle" /\ envelope' = None /\ dispatchStartSequence' = 0
        /\ pending' = <<>> /\ staged' = <<>> /\ stagedReadModel' = EmptyReadModel
        /\ stagedProjections' = EmptyReadModel /\ error' = NoError
    BY <1>2 DEF Crash
  <2>6. <<>> \in Seq(Event) /\ <<>> \in Seq(Envelope)
    OBVIOUS
  <2>7. TypeOK
    BY DEF TypeInv
  <2>8. "idle" \in Phases /\ NoError \in Errors
    BY DEF Phases, Errors
  <2>9. TypeOK'
    BY <2>1, <2>2, <2>4, <2>5, <2>6, <2>7, <2>8, EmptyReadModelType DEF TypeOK
  <2> QED BY <2>3, <2>9 DEF TypeInv
<1>3. CASE Start
  <2>1. up' \in BOOLEAN
    BY <1>3 DEF Start
  <2>2. reconcileFailed' \in {"never", "now", "before"} /\ started' \in Nat
        /\ commandReadModel' \in ReadModel
    BY <1>3 DEF Start, TypeInv, TypeOK
  <2>3. UNCHANGED <<durableVars, commandQueue, eventPubSub, workerVars, answers, told, boundVars>>
    BY <1>3 DEF Start
  <2> QED BY <2>1, <2>2, <2>3
          DEF TypeInv, TypeOK, WorkerHasEnvelope, durableVars, workerVars, stagingVars, boundVars
<1>4. CASE UNCHANGED vars
  BY <1>4 DEF vars, TypeInv, TypeOK, WorkerHasEnvelope, durableVars, workerVars, stagingVars,
              boundVars
<1> QED BY <1>1, <1>2, <1>3, <1>4, WorkerType, FaultType DEF Next, AtRest

(* Every variable of the engine keeps its type, in every instance. *)
THEOREM TypeCorrect == Spec => []TypeOK
<1>1. Init => TypeInv
  BY InitType
<1>2. TypeInv /\ [Next]_vars => TypeInv'
  BY NextType
<1>3. TypeInv => TypeOK
  BY DEF TypeInv
<1> QED BY <1>1, <1>2, <1>3, PTL DEF Spec

---------------------------------------------------------------------------
(* Exactly once.                                                            *)

\* A command the worker has decided on, or rejected, has no receipt yet.
Undecided ==
    phase = "transaction" \/ (phase # "idle" /\ error = Rejection) => receipt.status = "none"

\* A dispatch that goes on without error is covered by an accepted receipt.
Decided == phase \in {"publishing", "settling"} /\ error = NoError => receipt.status = "accepted"

\* An error is set exactly on the failure path.
ErrorPath ==
    /\ phase \in {"idle", "taken", "transaction"} => error = NoError
    /\ phase \in {"failed", "replaying"} => error # NoError

\* The open transaction holds events of its own command only.
OwnEvents ==
    phase = "transaction" =>
        /\ \A i \in 1..Len(pending) : pending[i].commandId = envelope.command.commandId
        /\ \A i \in 1..Len(staged) : staged[i].commandId = envelope.command.commandId

SafetyInv ==
    TypeInv /\ ReceiptsMatchLog /\ AcknowledgedIsDurable /\ Undecided /\ Decided /\ ErrorPath
    /\ OwnEvents

\* What a step may do to the durable state: nothing to a command with a verdict.
VerdictStep ==
    \A id \in CommandIds : receipts[id].status # "none" =>
        /\ receipts'[id] = receipts[id]
        /\ \A i \in (Len(events) + 1)..Len(events') : events'[i].commandId # id

LEMMA InitSafety == Init => SafetyInv
<1> SUFFICES ASSUME Init PROVE SafetyInv
  OBVIOUS
<1>1. ReceiptsMatchLog
  BY DEF Init, ReceiptsMatchLog, EventsOf, NoReceipt
<1>2. AcknowledgedIsDurable
  BY DEF Init, AcknowledgedIsDurable
<1>3. Undecided /\ Decided /\ ErrorPath /\ OwnEvents
  BY DEF Init, Undecided, Decided, ErrorPath, OwnEvents, NoError, Rejection
<1> QED BY <1>1, <1>2, <1>3, InitType DEF SafetyInv

(* A log that is not touched keeps what is said of it, and a verdict stands
   when its receipt does. *)
LEMMA LogKept ==
    ASSUME SafetyInv, events' = events, receipts' = receipts, told' = told
    PROVE  ReceiptsMatchLog' /\ AcknowledgedIsDurable' /\ VerdictStep
<1>1. ReceiptsMatchLog'
  BY DEF SafetyInv, ReceiptsMatchLog, EventsOf
<1>2. AcknowledgedIsDurable'
  BY DEF SafetyInv, AcknowledgedIsDurable
<1>3. events \in Seq(Event)
  BY DEF SafetyInv, TypeInv, TypeOK
<1>4. VerdictStep
  BY <1>3 DEF VerdictStep
<1> QED BY <1>1, <1>2, <1>4

(* COMMIT: the log grows by events of the undecided command alone, and its
   receipt names the last of them. *)
LEMMA PersistSafety ==
    ASSUME SafetyInv, phase = "transaction", Persist, told' = told
    PROVE  /\ ReceiptsMatchLog' /\ AcknowledgedIsDurable' /\ VerdictStep
           /\ receipts'[envelope.command.commandId].status = "accepted"
<1> DEFINE me == envelope.command.commandId
<1>1. /\ events \in Seq(Event) /\ staged \in Seq(Event) /\ staged # <<>>
      /\ receipts \in [CommandIds -> Receipt] /\ me \in CommandIds
      /\ told \subseteq CommandIds \X Nat
  BY EnvelopeCommand DEF SafetyInv, TypeInv, TypeOK, Persist
<1>2. /\ receipts[me].status = "none"
      /\ \A i \in 1..Len(staged) : staged[i].commandId = me
  BY DEF SafetyInv, Undecided, OwnEvents, receipt
<1>3. /\ Len(events') = Len(events) + Len(staged)
      /\ Len(staged) \in Nat /\ Len(events) \in Nat /\ Len(staged) > 0
      /\ \A i \in 1..Len(events) : events'[i] = events[i]
      /\ \A i \in (Len(events) + 1)..Len(events') : events'[i] = staged[i - Len(events)]
  BY <1>1 DEF Persist
<1>4. receipts' = [receipts EXCEPT ![me] = AcceptedReceipt]
  BY DEF Persist
<1>5. /\ receipts'[me] = AcceptedReceipt
      /\ \A id \in CommandIds : id # me => receipts'[id] = receipts[id]
  BY <1>1, <1>4
<1> HIDE DEF me
<1>6. \A i \in (Len(events) + 1)..Len(events') : events'[i].commandId = me
  BY <1>2, <1>3
<1>7. VerdictStep
  BY <1>2, <1>5, <1>6 DEF VerdictStep
<1>8. AcknowledgedIsDurable'
  BY <1>1, <1>3 DEF SafetyInv, AcknowledgedIsDurable
<1>9. ASSUME NEW id \in CommandIds, id # me
      PROVE  \A i : i \in EventsOf(id)' <=> i \in EventsOf(id)
  BY <1>3, <1>6, <1>9 DEF EventsOf
<1>10. ASSUME NEW id \in CommandIds, id # me
       PROVE  IF receipts'[id].status = "accepted"
              THEN LET last == receipts'[id].resultSequence
                   IN  /\ last \in EventsOf(id)'
                       /\ \A i \in EventsOf(id)' : i <= last
                       /\ events'[last].aggregate = receipts'[id].aggregate
              ELSE EventsOf(id)' = {}
  <2>1. receipts'[id] = receipts[id]
    BY <1>5, <1>10
  <2>2. CASE receipts[id].status = "accepted"
    <3> DEFINE last == receipts[id].resultSequence
    <3>1. /\ last \in EventsOf(id)
          /\ \A i \in EventsOf(id) : i <= last
          /\ events[last].aggregate = receipts[id].aggregate
      BY <2>2 DEF SafetyInv, ReceiptsMatchLog
    <3>2. events'[last] = events[last]
      BY <3>1, <1>3 DEF EventsOf
    <3> QED BY <2>1, <2>2, <3>1, <3>2, <1>9, <1>10
  <2>3. CASE receipts[id].status # "accepted"
    <3>1. EventsOf(id) = {}
      BY <2>3 DEF SafetyInv, ReceiptsMatchLog
    <3> QED BY <2>1, <2>3, <3>1, <1>9, <1>10
  <2> QED BY <2>2, <2>3
<1>11. /\ AcceptedReceipt.status = "accepted"
       /\ AcceptedReceipt.resultSequence = Len(events')
       /\ AcceptedReceipt.aggregate = events'[Len(events')].aggregate
  BY <1>3 DEF AcceptedReceipt
<1>12. ASSUME NEW id \in CommandIds, id = me
       PROVE  IF receipts'[id].status = "accepted"
              THEN LET last == receipts'[id].resultSequence
                   IN  /\ last \in EventsOf(id)'
                       /\ \A i \in EventsOf(id)' : i <= last
                       /\ events'[last].aggregate = receipts'[id].aggregate
              ELSE EventsOf(id)' = {}
  <2>1. /\ Len(events') \in EventsOf(id)'
        /\ \A i \in EventsOf(id)' : i <= Len(events')
    BY <1>3, <1>6, <1>12 DEF EventsOf
  <2> QED BY <2>1, <1>5, <1>11, <1>12
<1>13. \A id \in CommandIds :
         IF receipts'[id].status = "accepted"
         THEN LET last == receipts'[id].resultSequence
              IN  /\ last \in EventsOf(id)'
                  /\ \A i \in EventsOf(id)' : i <= last
                  /\ events'[last].aggregate = receipts'[id].aggregate
         ELSE EventsOf(id)' = {}
  <2> SUFFICES ASSUME NEW id \in CommandIds
               PROVE  IF receipts'[id].status = "accepted"
                      THEN LET last == receipts'[id].resultSequence
                           IN  /\ last \in EventsOf(id)'
                               /\ \A i \in EventsOf(id)' : i <= last
                               /\ events'[last].aggregate = receipts'[id].aggregate
                      ELSE EventsOf(id)' = {}
    OBVIOUS
  <2>1. CASE id = me
    BY <2>1, <1>12
  <2>2. CASE id # me
    BY <2>2, <1>10
  <2> QED BY <2>1, <2>2
<1>14. ReceiptsMatchLog'
  BY <1>13 DEF ReceiptsMatchLog
<1> QED BY <1>5, <1>7, <1>8, <1>11, <1>14 DEF me

(* A dispatch that fails leaves an undecided command undecided. *)
LEMMA FailWithControl ==
    ASSUME SafetyInv, phase # "idle", NEW e \in Errors \ {NoError}, FailWith(e),
           e = Rejection => receipts'[envelope.command.commandId].status = "none"
    PROVE  Undecided' /\ Decided' /\ ErrorPath' /\ OwnEvents'
BY DEF FailWith, Undecided, Decided, ErrorPath, OwnEvents, receipt, Errors, NoError, Rejection,
       PreviouslyRejected, IdConflict, StorageError

(* The worker at rest satisfies what is said of its control. *)
LEMMA RestControl ==
    ASSUME phase' = "idle", error' = NoError
    PROVE  Undecided' /\ Decided' /\ ErrorPath' /\ OwnEvents'
BY DEF Undecided, Decided, ErrorPath, OwnEvents, NoError, Rejection

(* Steps that touch neither the log, the receipts nor what callers were told. *)
LEMMA QuietStep ==
    ASSUME SafetyInv, [Next]_vars, events' = events, receipts' = receipts, told' = told,
           Undecided' /\ Decided' /\ ErrorPath' /\ OwnEvents'
    PROVE  SafetyInv' /\ VerdictStep
<1>1. TypeInv'
  BY NextType DEF SafetyInv
<1> QED BY <1>1, LogKept DEF SafetyInv

LEMMA WorkerSafety == SafetyInv /\ Worker => SafetyInv' /\ VerdictStep
<1> SUFFICES ASSUME SafetyInv, Worker PROVE SafetyInv' /\ VerdictStep
  OBVIOUS
<1>0. [Next]_vars
  BY DEF Next
<1>1. CASE TakeCommand
  <2>1. Undecided' /\ Decided' /\ ErrorPath' /\ OwnEvents'
    BY <1>1 DEF TakeCommand, SafetyInv, Undecided, Decided, ErrorPath, OwnEvents, NoError, Rejection
  <2> QED BY <1>0, <1>1, <2>1, QuietStep DEF TakeCommand, durableVars
<1>2. CASE AnswerFromReceipt
  <2>1. /\ phase = "taken" /\ receipt.status # "none"
        /\ UNCHANGED <<durableVars, faults>>
        /\ \/ FailWith(IdConflict)
           \/ FailWith(PreviouslyRejected)
           \/ /\ receipt.aggregate = CommandToAggregateRef(envelope.command)
              /\ receipt.status # "rejected"
              /\ phase' = "settling"
              /\ UNCHANGED <<up, commandQueue, commandReadModel, eventPubSub, envelope,
                             dispatchStartSequence, stagingVars, error, answers, started, told,
                             reconcileFailed, dispatches, crashes>>
    BY <1>2 DEF AnswerFromReceipt
  <2>2. events' = events /\ receipts' = receipts /\ told' = told
    BY <2>1 DEF durableVars, FailWith
  <2>3. CASE FailWith(IdConflict) \/ FailWith(PreviouslyRejected)
    <3>1. /\ IdConflict \in Errors \ {NoError} /\ PreviouslyRejected \in Errors \ {NoError}
          /\ IdConflict # Rejection /\ PreviouslyRejected # Rejection
      BY DEF Errors, NoError, IdConflict, PreviouslyRejected, Rejection
    <3>2. Undecided' /\ Decided' /\ ErrorPath' /\ OwnEvents'
      BY <2>1, <2>3, <3>1, FailWithControl
    <3> QED BY <1>0, <2>2, <3>2, QuietStep
  <2>4. CASE /\ receipt.status # "rejected"
             /\ phase' = "settling"
             /\ UNCHANGED <<envelope, error>>
    <3>1. receipt \in Receipt
      BY <2>1, EnvelopeCommand DEF SafetyInv, TypeInv, TypeOK, receipt
    <3>2. receipt.status = "accepted"
      BY <3>1, <2>1, <2>4 DEF Receipt
    <3>3. Undecided' /\ Decided' /\ ErrorPath' /\ OwnEvents'
      BY <2>1, <2>2, <2>4, <3>2
         DEF SafetyInv, Undecided, Decided, ErrorPath, OwnEvents, receipt, NoError, Rejection
    <3> QED BY <1>0, <2>2, <3>3, QuietStep
  <2> QED BY <2>1, <2>3, <2>4
<1>3. CASE DecideAccepts
  <2>1. phase = "taken" /\ WellFormed(envelope.command)
    BY <1>3, EnvelopeCommand DEF DecideAccepts, SafetyInv
  <2>2. \A i \in 1..Len(pending') : pending'[i].commandId = envelope.command.commandId
    BY <1>3, <2>1, PlanType DEF DecideAccepts
  <2>3. Undecided' /\ Decided' /\ ErrorPath' /\ OwnEvents'
    BY <1>3, <2>1, <2>2
       DEF DecideAccepts, SafetyInv, Undecided, Decided, ErrorPath, OwnEvents, receipt, durableVars
  <2> QED BY <1>0, <1>3, <2>3, QuietStep DEF DecideAccepts, durableVars
<1>4. CASE DecideRejects
  <2>1. /\ phase = "taken" /\ receipt.status = "none" /\ FailWith(Rejection)
        /\ events' = events /\ receipts' = receipts /\ told' = told
    BY <1>4 DEF DecideRejects, FailWith, durableVars
  <2>2. Rejection \in Errors \ {NoError}
    BY DEF Errors, NoError, Rejection
  <2>3. Undecided' /\ Decided' /\ ErrorPath' /\ OwnEvents'
    BY <2>1, <2>2, FailWithControl DEF receipt
  <2> QED BY <1>0, <2>1, <2>3, QuietStep
<1>5. CASE AppendEvent
  <2>1. /\ phase = "transaction" /\ pending # <<>> /\ pending \in Seq(Event)
        /\ staged \in Seq(Event)
        /\ staged' = Append(staged, Head(pending)) /\ pending' = Tail(pending)
        /\ UNCHANGED <<phase, envelope, error, events, receipts, told>>
    BY <1>5 DEF AppendEvent, SafetyInv, TypeInv, TypeOK, durableVars
  <2>2. OwnEvents'
    <3> DEFINE id == envelope.command.commandId
    <3>1. /\ \A i \in 1..Len(pending) : pending[i].commandId = id
          /\ \A i \in 1..Len(staged) : staged[i].commandId = id
      BY <2>1 DEF SafetyInv, OwnEvents
    <3>2. /\ Len(pending) \in Nat /\ Len(pending) # 0 /\ Head(pending) = pending[1]
          /\ Len(Tail(pending)) = Len(pending) - 1
          /\ \A i \in 1..Len(Tail(pending)) : Tail(pending)[i] = pending[i + 1]
      BY <2>1
    <3>3. \A i \in 1..Len(pending') : i + 1 \in 1..Len(pending) /\ pending'[i] = pending[i + 1]
      BY <2>1, <3>2
    <3>4. \A i \in 1..Len(pending') : pending'[i].commandId = id
      BY <3>1, <3>3
    <3>5. Head(pending).commandId = id
      BY <3>1, <3>2
    <3>6. \A i \in 1..Len(staged') :
             \/ i \in 1..Len(staged) /\ staged'[i] = staged[i]
             \/ staged'[i] = Head(pending)
      BY <2>1
    <3>7. \A i \in 1..Len(staged') : staged'[i].commandId = id
      BY <3>1, <3>5, <3>6
    <3> QED BY <2>1, <3>4, <3>7 DEF OwnEvents
  <2>3. Undecided' /\ Decided' /\ ErrorPath'
    BY <2>1 DEF SafetyInv, Undecided, Decided, ErrorPath, receipt
  <2> QED BY <1>0, <2>1, <2>2, <2>3, QuietStep
<1>6. CASE Commit
  <2>1. /\ phase = "transaction" /\ Persist /\ phase' = "publishing"
        /\ UNCHANGED <<envelope, error, told>>
    BY <1>6 DEF Commit
  <2>2. /\ ReceiptsMatchLog' /\ AcknowledgedIsDurable' /\ VerdictStep
        /\ receipts'[envelope.command.commandId].status = "accepted"
    BY <2>1, PersistSafety
  <2>3. Undecided' /\ Decided' /\ ErrorPath' /\ OwnEvents'
    BY <2>1, <2>2
       DEF SafetyInv, Undecided, Decided, ErrorPath, OwnEvents, receipt, NoError, Rejection
  <2> QED BY <1>0, <2>2, <2>3, NextType DEF SafetyInv
<1>7. CASE ReconcileRead \/ ReplayEvent \/ ReplayDone \/ PublishEvent \/ PublishDone
  <2>1. /\ events' = events /\ receipts' = receipts /\ told' = told
        /\ UNCHANGED <<envelope, error>>
    BY <1>7 DEF ReconcileRead, ReplayEvent, ReplayDone, PublishEvent, PublishDone, durableVars
  <2>2. \/ phase = "failed" /\ phase' = "replaying"
        \/ phase = "replaying" /\ phase' \in {"replaying", "publishing"}
        \/ phase = "publishing" /\ phase' \in {"publishing", "settling"}
    BY <1>7 DEF ReconcileRead, ReplayEvent, ReplayDone, PublishEvent, PublishDone
  <2>3. Undecided' /\ Decided' /\ ErrorPath' /\ OwnEvents'
    BY <2>1, <2>2 DEF SafetyInv, Undecided, Decided, ErrorPath, OwnEvents, receipt
  <2> QED BY <1>0, <2>1, <2>3, QuietStep
<1>8. CASE Succeed
  <2>1. /\ phase = "settling" /\ error = NoError /\ phase' = "idle" /\ error' = NoError
        /\ told' = told \cup {<<envelope.command.commandId, receipt.resultSequence>>}
        /\ events' = events /\ receipts' = receipts
    BY <1>8 DEF Succeed, Resolve
  <2>2. envelope.command.commandId \in CommandIds /\ receipt.status = "accepted"
    BY <2>1, EnvelopeCommand DEF SafetyInv, Decided
  <2>3. receipt.resultSequence \in EventsOf(envelope.command.commandId)
    BY <2>2 DEF SafetyInv, ReceiptsMatchLog, receipt
  <2>4. AcknowledgedIsDurable'
    BY <2>1, <2>3 DEF SafetyInv, AcknowledgedIsDurable, EventsOf
  <2>5. ReceiptsMatchLog'
    BY <2>1 DEF SafetyInv, ReceiptsMatchLog, EventsOf
  <2>6. VerdictStep
    BY <2>1 DEF SafetyInv, TypeInv, TypeOK, VerdictStep
  <2> QED BY <1>0, <2>1, <2>4, <2>5, <2>6, NextType, RestControl DEF SafetyInv
<1>9. CASE FailRejected
  <2> DEFINE r == [status |-> "rejected", aggregate |-> CommandToAggregateRef(envelope.command),
                   resultSequence |-> commandReadModel.snapshotSequence]
  <2>1. /\ phase = "settling" /\ error = Rejection /\ phase' = "idle" /\ error' = NoError
        /\ events' = events /\ told' = told
        /\ receipts' = receipts \/ receipts' = [receipts EXCEPT ![envelope.command.commandId] = r]
    BY <1>9 DEF FailRejected, Resolve, IsRejection
  <2>2. CASE receipts' = receipts
    BY <1>0, <2>1, <2>2, QuietStep, RestControl
  <2>3. CASE receipts' = [receipts EXCEPT ![envelope.command.commandId] = r]
    <3>1. /\ envelope.command.commandId \in CommandIds
          /\ receipts[envelope.command.commandId].status = "none"
          /\ receipts \in [CommandIds -> Receipt] /\ events \in Seq(Event)
      BY <2>1, EnvelopeCommand DEF SafetyInv, TypeInv, TypeOK, Undecided, receipt
    <3>2. r.status = "rejected"
      OBVIOUS
    <3> HIDE DEF r
    <3>3. /\ receipts'[envelope.command.commandId] = r
          /\ \A id \in CommandIds :
               id # envelope.command.commandId => receipts'[id] = receipts[id]
      BY <2>3, <3>1
    <3>4. ReceiptsMatchLog'
      BY <2>1, <3>1, <3>2, <3>3 DEF SafetyInv, ReceiptsMatchLog, EventsOf
    <3>5. AcknowledgedIsDurable'
      BY <2>1 DEF SafetyInv, AcknowledgedIsDurable
    <3>6. VerdictStep
      BY <2>1, <3>1, <3>3 DEF VerdictStep
    <3> QED BY <1>0, <2>1, <3>4, <3>5, <3>6, NextType, RestControl DEF SafetyInv
  <2> QED BY <2>1, <2>2, <2>3
<1>10. CASE Fail
  BY <1>0, <1>10, QuietStep, RestControl DEF Fail, Resolve
<1> QED BY <1>1, <1>2, <1>3, <1>4, <1>5, <1>6, <1>7, <1>8, <1>9, <1>10 DEF Worker

LEMMA FaultSafety == SafetyInv /\ Faults => SafetyInv' /\ VerdictStep
<1> SUFFICES ASSUME SafetyInv, Faults PROVE SafetyInv' /\ VerdictStep
  OBVIOUS
<1>0. [Next]_vars
  BY DEF Next
<1>1. /\ Rejection \in Errors \ {NoError} /\ StorageError \in Errors \ {NoError}
      /\ StorageError # Rejection
  BY DEF Errors, NoError, Rejection, StorageError
<1>2. CASE PreparationFails
  <2>1. /\ phase = "taken" /\ receipt.status = "none" /\ FailWith(Rejection)
        /\ events' = events /\ receipts' = receipts /\ told' = told
    BY <1>2 DEF PreparationFails, FailWith, durableVars
  <2>2. Undecided' /\ Decided' /\ ErrorPath' /\ OwnEvents'
    BY <2>1, <1>1, FailWithControl DEF receipt
  <2> QED BY <1>0, <2>1, <2>2, QuietStep
<1>3. CASE StorageFails
  <2>1. /\ phase # "idle" /\ FailWith(StorageError)
        /\ events' = events /\ receipts' = receipts /\ told' = told
    BY <1>3 DEF StorageFails, FailWith, durableVars
  <2>2. Undecided' /\ Decided' /\ ErrorPath' /\ OwnEvents'
    BY <2>1, <1>1, FailWithControl
  <2> QED BY <1>0, <2>1, <2>2, QuietStep
<1>4. CASE CommitReportsFailure
  <2>1. phase = "transaction" /\ Persist /\ FailWith(StorageError) /\ told' = told
    BY <1>4 DEF CommitReportsFailure, FailWith
  <2>2. ReceiptsMatchLog' /\ AcknowledgedIsDurable' /\ VerdictStep
    BY <2>1, PersistSafety
  <2>3. Undecided' /\ Decided' /\ ErrorPath' /\ OwnEvents'
    BY <2>1, <1>1, FailWithControl
  <2> QED BY <1>0, <2>2, <2>3, NextType DEF SafetyInv
<1>5. CASE ReconcileFails
  <2>1. /\ phase = "failed" /\ phase' = "settling" /\ UNCHANGED <<envelope, error>>
        /\ events' = events /\ receipts' = receipts /\ told' = told
    BY <1>5 DEF ReconcileFails, durableVars
  <2>2. Undecided' /\ Decided' /\ ErrorPath' /\ OwnEvents'
    BY <2>1 DEF SafetyInv, Undecided, Decided, ErrorPath, OwnEvents, receipt
  <2> QED BY <1>0, <2>1, <2>2, QuietStep
<1> QED BY <1>2, <1>3, <1>4, <1>5 DEF Faults

LEMMA NextSafety == SafetyInv /\ [Next]_vars => SafetyInv' /\ VerdictStep
<1> SUFFICES ASSUME SafetyInv, [Next]_vars PROVE SafetyInv' /\ VerdictStep
  OBVIOUS
<1>1. ASSUME NEW client \in Clients, NEW command \in Commands, Dispatch(client, command)
      PROVE  SafetyInv' /\ VerdictStep
  <2>1. /\ events' = events /\ receipts' = receipts /\ told' = told
        /\ UNCHANGED <<phase, envelope, pending, staged, error>>
    BY <1>1 DEF Dispatch, durableVars, workerVars, stagingVars
  <2>2. Undecided' /\ Decided' /\ ErrorPath' /\ OwnEvents'
    BY <2>1 DEF SafetyInv, Undecided, Decided, ErrorPath, OwnEvents, receipt
  <2> QED BY <2>1, <2>2, QuietStep
<1>2. CASE Crash
  BY <1>2, QuietStep, RestControl DEF Crash, durableVars
<1>3. CASE Start \/ UNCHANGED vars
  <2>1. /\ events' = events /\ receipts' = receipts /\ told' = told
        /\ UNCHANGED <<phase, envelope, pending, staged, error>>
    BY <1>3 DEF Start, vars, durableVars, workerVars, stagingVars
  <2>2. Undecided' /\ Decided' /\ ErrorPath' /\ OwnEvents'
    BY <2>1 DEF SafetyInv, Undecided, Decided, ErrorPath, OwnEvents, receipt
  <2> QED BY <2>1, <2>2, QuietStep
<1> QED BY <1>1, <1>2, <1>3, WorkerSafety, FaultSafety DEF Next, AtRest

(* A command takes effect whole or not at all, and its receipt tells which
   (the transaction at OrchestrationEngine.ts:270-317). *)
THEOREM ExactlyOnceEffects == Spec => []ReceiptsMatchLog
<1>1. Init => SafetyInv
  BY InitSafety
<1>2. SafetyInv /\ [Next]_vars => SafetyInv'
  BY NextSafety
<1>3. SafetyInv => ReceiptsMatchLog
  BY DEF SafetyInv
<1> QED BY <1>1, <1>2, <1>3, PTL DEF Spec

(* Once a command has a verdict nothing changes it or acts under its id again. *)
THEOREM FinalVerdicts == Spec => VerdictsAreFinal
<1>1. Init => SafetyInv
  BY InitSafety
<1>2. SafetyInv /\ [Next]_vars => SafetyInv'
  BY NextSafety
<1>3. SafetyInv /\ [Next]_vars
      => [\A id \in CommandIds : receipts[id].status # "none" =>
            /\ receipts'[id] = receipts[id]
            /\ \A i \in (Len(events) + 1)..Len(events') : events'[i].commandId # id]_vars
  BY NextSafety DEF VerdictStep
<1> QED BY <1>1, <1>2, <1>3, PTL DEF Spec, VerdictsAreFinal

(* A sequence a caller was given names an event of its own command, for good. *)
THEOREM DurableAcknowledgements == Spec => []AcknowledgedIsDurable
<1>1. Init => SafetyInv
  BY InitSafety
<1>2. SafetyInv /\ [Next]_vars => SafetyInv'
  BY NextSafety
<1>3. SafetyInv => AcknowledgedIsDurable
  BY DEF SafetyInv
<1> QED BY <1>1, <1>2, <1>3, PTL DEF Spec

---------------------------------------------------------------------------
(* What the engine shows of its log: the read model its commands are decided   *)
(* against, and the events its subscribers are given.                        *)
(*                                                                         *)
(* A failed dispatch may have committed events the read model lacks.  The       *)
(* invariant therefore speaks of the path of read models that leads from the    *)
(* one in memory, event by event, to what the tables hold: the transaction      *)
(* builds such a path, an ambiguous COMMIT leaves it in the log, and the        *)
(* reconciliation walks it.                                                  *)

\* evs, the events after position b, lead from the read model m to the read model t.
Leads(m, evs, b, t) ==
    \E g : /\ g[0] = m /\ g[Len(evs)] = t
           /\ \A i \in 1..Len(evs) : g[i] = ProjectEvent(g[i - 1], evs[i], b + i)

Published == started + Len(eventPubSub)

TablesStandAtTheEnd ==
    /\ projections.snapshotSequence = Len(events)
    /\ phase = "transaction" => stagedProjections.snapshotSequence = Len(events) + Len(staged)

DownIsEmpty == ~up => phase = "idle" /\ eventPubSub = <<>>

PublishedInOrder ==
    /\ Published <= Len(events)
    /\ \A i \in 1..Len(eventPubSub) : eventPubSub[i] = events[started + i]

\* Where the worker is, and what then holds of the log, the tables and the memory.
Resting ==
    phase \in {"idle", "taken", "settling"} =>
        commandReadModel = projections /\ Published = Len(events)
Transacting ==
    phase = "transaction" =>
        /\ commandReadModel = projections /\ Published = Len(events)
        /\ stagedReadModel = stagedProjections
        /\ Leads(commandReadModel, staged, Published, stagedReadModel)
Failed == phase = "failed" =>
    Leads(commandReadModel, ReadFromSequence(Published), Published, projections)
Replaying ==
    phase = "replaying" =>
        /\ staged \o pending = ReadFromSequence(Published)
        /\ Leads(stagedReadModel, pending, Published + Len(staged), projections)
Publishing ==
    phase = "publishing" =>
        commandReadModel = projections /\ staged = ReadFromSequence(Published)
StartsHere ==
    phase \in {"taken", "transaction", "failed", "replaying"} => dispatchStartSequence = Published

MemoryFollows ==
    up /\ reconcileFailed # "now" =>
        /\ PublishedInOrder /\ Resting /\ Transacting /\ Failed /\ Replaying /\ Publishing
        /\ StartsHere

CInv == TablesStandAtTheEnd /\ DownIsEmpty /\ MemoryFollows

---------------------------------------------------------------------------
(* Paths of read models.                                                    *)

LEMMA LeadsNowhere ==
    ASSUME NEW m, NEW b, NEW t
    PROVE  Leads(m, <<>>, b, t) <=> m = t
<1>1. Len(<<>>) = 0 /\ 1..0 = {}
  OBVIOUS
<1>2. ASSUME m = t PROVE Leads(m, <<>>, b, t)
  <2> DEFINE g == [i \in {0} |-> m]
  <2>1. g[0] = m /\ g[Len(<<>>)] = t
    BY <1>1, <1>2
  <2> QED BY <1>1, <2>1 DEF Leads
<1>3. ASSUME Leads(m, <<>>, b, t) PROVE m = t
  BY <1>1, <1>3 DEF Leads
<1> QED BY <1>2, <1>3

LEMMA LeadsOn ==
    ASSUME NEW m, NEW evs \in Seq(Event), NEW b \in Nat, NEW t, NEW e \in Event,
           Leads(m, evs, b, t)
    PROVE  Leads(m, Append(evs, e), b, ProjectEvent(t, e, b + Len(evs) + 1))
<1> DEFINE n == Len(evs)
           u == ProjectEvent(t, e, b + n + 1)
<1>1. PICK g : /\ g[0] = m /\ g[n] = t
               /\ \A i \in 1..n : g[i] = ProjectEvent(g[i - 1], evs[i], b + i)
  BY DEF Leads
<1>2. /\ n \in Nat /\ Len(Append(evs, e)) = n + 1 /\ Append(evs, e)[n + 1] = e
      /\ \A i \in 1..n : Append(evs, e)[i] = evs[i]
  BY LenProperties, AppendProperties
<1> DEFINE h == [i \in 0..(n + 1) |-> IF i <= n THEN g[i] ELSE u]
<1>3. h[0] = m /\ h[n + 1] = u /\ h[n] = t
  BY <1>1, <1>2
<1>4. ASSUME NEW i \in 1..(n + 1)
      PROVE  h[i] = ProjectEvent(h[i - 1], Append(evs, e)[i], b + i)
  <2>1. CASE i \in 1..n
    <3>1. h[i] = g[i] /\ h[i - 1] = g[i - 1]
      BY <1>2, <2>1
    <3> QED BY <1>1, <1>2, <2>1, <3>1
  <2>2. CASE i = n + 1
    <3>1. h[i - 1] = t /\ b + i = b + n + 1
      BY <1>2, <1>3, <2>2
    <3> QED BY <1>2, <1>3, <2>2, <3>1
  <2> QED BY <1>2, <2>1, <2>2
<1> HIDE DEF h, u
<1>5. Leads(m, Append(evs, e), b, u)
  BY <1>2, <1>3, <1>4 DEF Leads
<1> QED BY <1>5 DEF u

LEMMA LeadsFrom ==
    ASSUME NEW m, NEW evs \in Seq(Event), evs # <<>>, NEW b \in Nat, NEW t, Leads(m, evs, b, t)
    PROVE  Leads(ProjectEvent(m, Head(evs), b + 1), Tail(evs), b + 1, t)
<1> DEFINE n == Len(evs)
<1>1. PICK g : /\ g[0] = m /\ g[n] = t
               /\ \A i \in 1..n : g[i] = ProjectEvent(g[i - 1], evs[i], b + i)
  BY DEF Leads
<1>2. /\ n \in Nat /\ n # 0 /\ Len(Tail(evs)) = n - 1 /\ Head(evs) = evs[1]
      /\ \A i \in 1..Len(Tail(evs)) : Tail(evs)[i] = evs[i + 1]
  BY LenProperties, EmptySeq, HeadTailProperties
<1> DEFINE h == [i \in 0..(n - 1) |-> g[i + 1]]
<1>3. h[0] = ProjectEvent(m, Head(evs), b + 1)
  <2>1. 1 \in 1..n /\ 0 \in 0..(n - 1)
    BY <1>2
  <2>2. g[1] = ProjectEvent(g[1 - 1], evs[1], b + 1) /\ 1 - 1 = 0
    BY <1>1, <2>1
  <2>3. h[0] = g[0 + 1] /\ 0 + 1 = 1
    BY <2>1
  <2> QED BY <1>1, <1>2, <2>2, <2>3
<1>4. h[n - 1] = t
  <2>1. n - 1 \in 0..(n - 1) /\ n - 1 + 1 = n
    BY <1>2
  <2> QED BY <1>1, <2>1
<1>5. ASSUME NEW i \in 1..(n - 1)
      PROVE  h[i] = ProjectEvent(h[i - 1], Tail(evs)[i], b + 1 + i)
  <2>1. /\ i + 1 \in 1..n /\ i \in 0..(n - 1) /\ i - 1 \in 0..(n - 1)
        /\ i + 1 - 1 = i /\ i - 1 + 1 = i /\ b + (i + 1) = b + 1 + i
    BY <1>2
  <2>2. g[i + 1] = ProjectEvent(g[i + 1 - 1], evs[i + 1], b + (i + 1))
    BY <1>1, <2>1
  <2>3. h[i] = g[i + 1] /\ h[i - 1] = g[i - 1 + 1]
    BY <2>1
  <2> QED BY <1>2, <2>1, <2>2, <2>3
<1> HIDE DEF h
<1> QED BY <1>2, <1>3, <1>4, <1>5 DEF Leads

\* Every event carries its sequence into the read model.
LEMMA EventSequence ==
    ASSUME NEW m \in ReadModel, NEW e \in Event, NEW s \in Nat
    PROVE  ProjectEvent(m, e, s).snapshotSequence = s
<1>1. \A row, p : /\ [m EXCEPT !.snapshotSequence = s, !.projects[p] = row].snapshotSequence = s
                  /\ [m EXCEPT !.snapshotSequence = s, !.threads[p] = row].snapshotSequence = s
  BY DEF ReadModel
<1>2. e.type \in EventTypes
  BY DEF Event
<1> QED BY <1>1, <1>2 DEF ProjectEvent, EventTypes

---------------------------------------------------------------------------
(* What is read from a position of the log.                                  *)

LEMMA ReadNothing ==
    ASSUME events \in Seq(Event)
    PROVE  ReadFromSequence(Len(events)) = <<>>
<1>1. Len(events) \in Nat
  BY LenProperties
<1> QED BY <1>1, SubSeqEmpty DEF ReadFromSequence

LEMMA ReadNext ==
    ASSUME events \in Seq(Event), NEW n \in Nat, n < Len(events)
    PROVE  /\ ReadFromSequence(n) # <<>> /\ Head(ReadFromSequence(n)) = events[n + 1]
           /\ Tail(ReadFromSequence(n)) = ReadFromSequence(n + 1)
<1>1. Len(events) \in Nat /\ n + 1 \in 1..Len(events) /\ Len(events) \in (n + 1)..Len(events)
  BY LenProperties
<1>2. /\ Head(SubSeq(events, n + 1, Len(events))) = events[n + 1]
      /\ Tail(SubSeq(events, n + 1, Len(events))) = SubSeq(events, n + 1 + 1, Len(events))
  BY <1>1, HeadTailOfSubSeq
<1>3. ReadFromSequence(n) # <<>>
  <2>1. \A i \in (n + 1)..Len(events) : events[i] \in Event
    BY <1>1, ElementOfSeq
  <2>2. Len(SubSeq(events, n + 1, Len(events))) = Len(events) - (n + 1) + 1
    BY <1>1, <2>1, SubSeqProperties
  <2>3. Len(<<>>) = 0 /\ Len(events) - (n + 1) + 1 # 0
    BY <1>1
  <2> QED BY <2>2, <2>3 DEF ReadFromSequence
<1> QED BY <1>2, <1>3 DEF ReadFromSequence

\* A COMMIT appends exactly what is staged.
LEMMA ReadCommitted ==
    ASSUME events \in Seq(Event), staged \in Seq(Event), staged # <<>>, events' = events \o staged
    PROVE  SubSeq(events', Len(events) + 1, Len(events')) = staged
<1>1. /\ Len(events) \in Nat /\ Len(staged) \in Nat /\ Len(staged) # 0
      /\ Len(events') = Len(events) + Len(staged)
  BY LenProperties, EmptySeq, ConcatProperties
<1>2. /\ Len(events) + 1 \in (Len(events) + 1)..(Len(events) + Len(staged))
      /\ Len(events') \in (Len(events) + 1)..(Len(events) + Len(staged))
      /\ Len(events) + 1 - Len(events) = 1 /\ Len(events') - Len(events) = Len(staged)
  BY <1>1
<1>3. SubSeq(events \o staged, Len(events) + 1, Len(events')) = SubSeq(staged, 1, Len(staged))
  BY <1>2, SubSeqOfConcat2
<1> QED BY <1>3, SubSeqFull

\* An event that goes from one sequence to the end of the one before it.
LEMMA ShiftOne ==
    ASSUME NEW q \in Seq(Event), NEW r \in Seq(Event), r # <<>>
    PROVE  Append(q, Head(r)) \o Tail(r) = q \o r
<1>1. /\ Head(r) \in Event /\ Tail(r) \in Seq(Event) /\ Len(Tail(r)) = Len(r) - 1
      /\ Head(r) = r[1] /\ \A i \in 1..Len(Tail(r)) : Tail(r)[i] = r[i + 1]
      /\ Len(r) \in Nat /\ Len(r) # 0 /\ Len(q) \in Nat
  BY LenProperties, EmptySeq, HeadTailProperties
<1> DEFINE a == Append(q, Head(r))
<1>2. /\ a \in Seq(Event) /\ Len(a) = Len(q) + 1 /\ a[Len(q) + 1] = Head(r)
      /\ \A i \in 1..Len(q) : a[i] = q[i]
  BY <1>1, AppendProperties
<1> HIDE DEF a
<1>3. /\ a \o Tail(r) \in Seq(Event) /\ Len(a \o Tail(r)) = Len(a) + Len(Tail(r))
      /\ \A i \in 1..(Len(a) + Len(Tail(r))) :
            (a \o Tail(r))[i] = IF i <= Len(a) THEN a[i] ELSE Tail(r)[i - Len(a)]
  BY <1>1, <1>2, ConcatProperties
<1>4. /\ q \o r \in Seq(Event) /\ Len(q \o r) = Len(q) + Len(r)
      /\ \A i \in 1..(Len(q) + Len(r)) : (q \o r)[i] = IF i <= Len(q) THEN q[i] ELSE r[i - Len(q)]
  BY ConcatProperties
<1>5. Len(a \o Tail(r)) = Len(q \o r)
  BY <1>1, <1>2, <1>3, <1>4
<1>6. ASSUME NEW i \in 1..Len(q \o r)
      PROVE  (a \o Tail(r))[i] = (q \o r)[i]
  <2>1. i \in 1..(Len(q) + Len(r)) /\ i \in 1..(Len(a) + Len(Tail(r)))
    BY <1>1, <1>2, <1>4
  <2>2. CASE i <= Len(q)
    BY <1>1, <1>2, <1>3, <1>4, <2>1, <2>2
  <2>3. CASE i = Len(q) + 1
    BY <1>1, <1>2, <1>3, <1>4, <2>1, <2>3
  <2>4. CASE i > Len(q) + 1
    <3>1. i - Len(a) \in 1..Len(Tail(r)) /\ i - Len(a) + 1 = i - Len(q)
      BY <1>1, <1>2, <2>1, <2>4
    <3> QED BY <1>1, <1>2, <1>3, <1>4, <2>1, <2>4, <3>1
  <2> QED BY <1>1, <2>1, <2>2, <2>3, <2>4
<1>7. a \o Tail(r) = q \o r
  BY <1>3, <1>4, <1>5, <1>6, SeqEqual
<1> QED BY <1>7 DEF a

---------------------------------------------------------------------------
LEMMA InitCurrent == Init => CInv
<1> SUFFICES ASSUME Init PROVE CInv
  OBVIOUS
<1>1. Len(events) = 0 /\ EmptyReadModel.snapshotSequence = 0
  BY DEF Init, EmptyReadModel
<1>2. TablesStandAtTheEnd /\ DownIsEmpty
  BY <1>1 DEF Init, TablesStandAtTheEnd, DownIsEmpty
<1>3. Published = 0 /\ Len(eventPubSub) = 0
  BY DEF Init, Published
<1>4. MemoryFollows
  BY <1>1, <1>3 DEF Init, MemoryFollows, PublishedInOrder, Resting, Transacting, Failed, Replaying,
                    Publishing, StartsHere
<1> QED BY <1>2, <1>4 DEF CInv

\* Of a step that touches none of this.
LEMMA SameCurrent ==
    ASSUME CInv,
           UNCHANGED <<events, projections, up, commandReadModel, eventPubSub, phase,
                       dispatchStartSequence, pending, staged, stagedReadModel, stagedProjections,
                       started, reconcileFailed>>
    PROVE  CInv'
<1>1. Published' = Published /\ \A n : ReadFromSequence(n)' = ReadFromSequence(n)
  BY DEF Published, ReadFromSequence
<1>2. \A m, evs, b, t : Leads(m, evs, b, t)' <=> Leads(m, evs, b, t)
  BY DEF Leads
<1>3. TablesStandAtTheEnd' /\ DownIsEmpty'
  BY DEF CInv, TablesStandAtTheEnd, DownIsEmpty
<1>4. MemoryFollows'
  BY <1>1, <1>2 DEF CInv, MemoryFollows, PublishedInOrder, Resting, Transacting, Failed, Replaying,
                    Publishing, StartsHere
<1> QED BY <1>3, <1>4 DEF CInv

\* Nothing of the log, the tables, the memory and the publications changes, the
\* phase moves between those that say nothing more.
LEMMA RestingStep ==
    ASSUME TypeInv, CInv, up, phase \in {"idle", "taken", "settling"},
           phase' \in {"idle", "taken", "settling"},
           UNCHANGED <<events, projections, up, commandReadModel, eventPubSub, started,
                       reconcileFailed>>,
           phase' = "taken" => dispatchStartSequence' = commandReadModel.snapshotSequence
    PROVE  CInv'
<1>1. Published' = Published
  BY DEF Published
<1>2. TablesStandAtTheEnd' /\ DownIsEmpty'
  BY DEF CInv, TablesStandAtTheEnd, DownIsEmpty
<1>3. MemoryFollows'
  BY <1>1 DEF CInv, TablesStandAtTheEnd, MemoryFollows, PublishedInOrder, Resting, Transacting, Failed,
              Replaying, Publishing, StartsHere
<1> QED BY <1>2, <1>3 DEF CInv

\* A dispatch fails before its COMMIT.
LEMMA FailsClean ==
    ASSUME TypeInv, CInv, phase \in {"taken", "transaction"}, NEW e, FailWith(e),
           UNCHANGED <<events, projections>>
    PROVE  CInv'
<1>1. /\ UNCHANGED <<up, commandReadModel, eventPubSub, dispatchStartSequence, started,
                     reconcileFailed>>
      /\ phase' \in {"settling", "failed"}
  BY DEF FailWith
<1>2. Published' = Published /\ events' \in Seq(Event) /\ events \in Seq(Event)
  BY <1>1 DEF Published, TypeInv, TypeOK
<1>3. TablesStandAtTheEnd' /\ DownIsEmpty'
  BY <1>1 DEF CInv, TablesStandAtTheEnd, DownIsEmpty
<1>4. ASSUME up, reconcileFailed # "now"
      PROVE  commandReadModel = projections /\ Published = Len(events)
             /\ dispatchStartSequence = Published /\ PublishedInOrder
  BY <1>4 DEF CInv, MemoryFollows, Resting, Transacting, StartsHere
<1>5. ASSUME up', reconcileFailed' # "now"
      PROVE  /\ PublishedInOrder' /\ Resting' /\ Transacting' /\ Failed' /\ Replaying' /\ Publishing'
             /\ StartsHere'
  <2>1. commandReadModel = projections /\ Published = Len(events)
        /\ dispatchStartSequence = Published /\ PublishedInOrder
    BY <1>1, <1>4, <1>5
  <2>2. PublishedInOrder' /\ Resting' /\ StartsHere'
    BY <1>1, <1>2, <2>1 DEF PublishedInOrder, Resting, StartsHere
  <2>3. Failed'
    <3>1. ReadFromSequence(Published)' = <<>>
      BY <1>2, <2>1, ReadNothing DEF ReadFromSequence
    <3>2. Leads(commandReadModel', <<>>, Published', projections')
      BY <1>1, <2>1, LeadsNowhere
    <3>3. Leads(commandReadModel, ReadFromSequence(Published), Published, projections)'
      BY <3>1, <3>2 DEF Leads
    <3> QED BY <3>3 DEF Failed
  <2>4. Transacting' /\ Replaying' /\ Publishing'
    BY <1>1 DEF Transacting, Replaying, Publishing
  <2> QED BY <2>2, <2>3, <2>4
<1>6. MemoryFollows'
  BY <1>5 DEF MemoryFollows
<1> QED BY <1>3, <1>6 DEF CInv

LEMMA DecideAcceptsCurrent ==
    ASSUME TypeInv, CInv, DecideAccepts
    PROVE  CInv'
<1>1. /\ up /\ phase = "taken" /\ phase' = "transaction" /\ staged' = <<>>
      /\ stagedReadModel' = commandReadModel /\ stagedProjections' = projections
      /\ UNCHANGED <<events, projections, up, commandReadModel, eventPubSub, dispatchStartSequence,
                     started, reconcileFailed>>
  BY DEF DecideAccepts, durableVars
<1>2. Published' = Published /\ Len(staged') = 0 /\ Len(events) \in Nat
  BY <1>1, LenProperties DEF Published, TypeInv, TypeOK
<1>3. TablesStandAtTheEnd' /\ DownIsEmpty'
  BY <1>1, <1>2 DEF CInv, TablesStandAtTheEnd, DownIsEmpty
<1>4. Leads(commandReadModel', staged', Published', stagedReadModel')
  BY <1>1, LeadsNowhere
<1>5. Leads(commandReadModel, staged, Published, stagedReadModel)'
  BY <1>4 DEF Leads
<1>6. MemoryFollows'
  BY <1>1, <1>2, <1>5 DEF CInv, MemoryFollows, PublishedInOrder, Resting, Transacting, Failed,
                          Replaying, Publishing, StartsHere
<1> QED BY <1>3, <1>6 DEF CInv

LEMMA AppendEventCurrent ==
    ASSUME TypeInv, CInv, AppendEvent
    PROVE  CInv'
<1> DEFINE e == Head(pending)
           s == Len(events) + Len(staged) + 1
<1>1. /\ up /\ phase = "transaction" /\ phase' = phase /\ pending # <<>>
      /\ staged' = Append(staged, e)
      /\ stagedReadModel' = ProjectEvent(stagedReadModel, e, s)
      /\ stagedProjections' = ProjectEvent(stagedProjections, e, s)
      /\ UNCHANGED <<events, projections, up, commandReadModel, eventPubSub, dispatchStartSequence,
                     started, reconcileFailed>>
  BY DEF AppendEvent, durableVars
<1>2. /\ events \in Seq(Event) /\ staged \in Seq(Event) /\ e \in Event
      /\ stagedProjections \in ReadModel /\ Len(events) \in Nat /\ Len(staged) \in Nat
  BY <1>1, LenProperties, HeadTailProperties DEF TypeInv, TypeOK
<1>3. s \in Nat /\ Len(staged') = Len(staged) + 1 /\ Published' = Published
  BY <1>1, <1>2, AppendProperties DEF Published
<1> HIDE DEF e
<1>4. stagedProjections'.snapshotSequence = s
  BY <1>1, <1>2, <1>3, EventSequence
<1>5. TablesStandAtTheEnd' /\ DownIsEmpty'
  BY <1>1, <1>2, <1>3, <1>4 DEF CInv, TablesStandAtTheEnd, DownIsEmpty
<1>6. ASSUME reconcileFailed # "now"
      PROVE  Transacting'
  <2>1. /\ commandReadModel = projections /\ Published = Len(events)
        /\ stagedReadModel = stagedProjections
        /\ Leads(commandReadModel, staged, Published, stagedReadModel)
    BY <1>1, <1>6 DEF CInv, MemoryFollows, Transacting
  <2>2. Leads(commandReadModel, staged', Published, stagedReadModel')
    BY <1>1, <1>2, <2>1, LeadsOn
  <2>3. Leads(commandReadModel, staged, Published, stagedReadModel)'
    BY <1>1, <1>3, <2>2 DEF Leads
  <2> QED BY <1>1, <1>3, <2>1, <2>3 DEF Transacting
<1>7. MemoryFollows'
  BY <1>1, <1>3, <1>6 DEF CInv, MemoryFollows, PublishedInOrder, Resting, Failed, Replaying,
                          Publishing, StartsHere
<1> QED BY <1>5, <1>7 DEF CInv

\* The part of a COMMIT that is common to its success and its reported failure.
LEMMA Commits ==
    ASSUME TypeInv, CInv, up, phase = "transaction", Persist,
           UNCHANGED <<up, eventPubSub, started, reconcileFailed>>,
           phase' \in {"publishing", "failed"}
    PROVE  /\ TablesStandAtTheEnd' /\ DownIsEmpty' /\ Published' = Published
           /\ Len(events) \in Nat
           /\ reconcileFailed # "now" =>
                /\ Published = Len(events) /\ ReadFromSequence(Published)' = staged
                /\ PublishedInOrder' /\ dispatchStartSequence = Published
                /\ stagedReadModel = projections'
                /\ Leads(commandReadModel, staged, Published, projections')
<1>1. /\ events \in Seq(Event) /\ staged \in Seq(Event) /\ staged # <<>>
      /\ events' = events \o staged /\ projections' = stagedProjections
  BY DEF Persist, TypeInv, TypeOK
<1>2. /\ Len(events) \in Nat /\ Len(staged) \in Nat /\ Len(events') = Len(events) + Len(staged)
      /\ \A i \in 1..Len(events) : events'[i] = events[i]
  BY <1>1, LenProperties, ConcatProperties
<1>3. TablesStandAtTheEnd' /\ DownIsEmpty'
  BY <1>1, <1>2 DEF CInv, TablesStandAtTheEnd, DownIsEmpty
<1>4. Published' = Published
  BY DEF Published
<1>5. ASSUME reconcileFailed # "now"
      PROVE  /\ Published = Len(events) /\ ReadFromSequence(Published)' = staged
             /\ PublishedInOrder' /\ dispatchStartSequence = Published
             /\ stagedReadModel = projections'
             /\ Leads(commandReadModel, staged, Published, projections')
  <2>1. /\ Published = Len(events) /\ PublishedInOrder /\ dispatchStartSequence = Published
        /\ stagedReadModel = stagedProjections
        /\ Leads(commandReadModel, staged, Published, stagedReadModel)
    BY <1>5 DEF CInv, MemoryFollows, Transacting, StartsHere
  <2>2. ReadFromSequence(Published)' = staged
    BY <1>1, <1>4, <2>1, ReadCommitted DEF ReadFromSequence
  <2>3. started \in Nat /\ Len(eventPubSub) \in Nat
    BY LenProperties DEF TypeInv, TypeOK
  <2>4. \A i \in 1..Len(eventPubSub) : started + i \in 1..Len(events)
    BY <1>2, <2>1, <2>3 DEF Published
  <2>5. PublishedInOrder'
    BY <1>2, <1>4, <2>1, <2>3, <2>4 DEF PublishedInOrder
  <2> QED BY <1>1, <2>1, <2>2, <2>5
<1> QED BY <1>2, <1>3, <1>4, <1>5

LEMMA CommitCurrent ==
    ASSUME TypeInv, CInv, Commit
    PROVE  CInv'
<1>1. /\ up /\ phase = "transaction" /\ phase' = "publishing" /\ Persist
      /\ commandReadModel' = stagedReadModel /\ staged' = staged
      /\ UNCHANGED <<up, eventPubSub, started, reconcileFailed>>
  BY DEF Commit, stagingVars
<1>2. /\ TablesStandAtTheEnd' /\ DownIsEmpty' /\ Published' = Published
      /\ reconcileFailed # "now" =>
                /\ ReadFromSequence(Published)' = staged /\ PublishedInOrder'
                /\ stagedReadModel = projections'
  BY <1>1, Commits
<1>3. MemoryFollows'
  BY <1>1, <1>2 DEF MemoryFollows, Resting, Transacting, Failed, Replaying, Publishing, StartsHere
<1> QED BY <1>2, <1>3 DEF CInv

LEMMA CommitReportsFailureCurrent ==
    ASSUME TypeInv, CInv, CommitReportsFailure
    PROVE  CInv'
<1>1. /\ up /\ phase = "transaction" /\ phase' = "failed" /\ Persist
      /\ UNCHANGED <<up, commandReadModel, eventPubSub, dispatchStartSequence, started,
                     reconcileFailed>>
  BY DEF CommitReportsFailure, FailWith, StorageError, PreviouslyRejected, IdConflict
<1>2. /\ TablesStandAtTheEnd' /\ DownIsEmpty' /\ Published' = Published
      /\ reconcileFailed # "now" =>
                /\ Published = Len(events) /\ ReadFromSequence(Published)' = staged
                /\ PublishedInOrder' /\ dispatchStartSequence = Published
                /\ Leads(commandReadModel, staged, Published, projections')
  BY <1>1, Commits
<1>3. ASSUME reconcileFailed' # "now"
      PROVE  Failed'
  <2>1. Leads(commandReadModel', ReadFromSequence(Published)', Published', projections')
    BY <1>1, <1>2, <1>3
  <2>2. Leads(commandReadModel, ReadFromSequence(Published), Published, projections)'
    BY <2>1 DEF Leads
  <2> QED BY <2>2 DEF Failed
<1>4. MemoryFollows'
  BY <1>1, <1>2, <1>3 DEF MemoryFollows, Resting, Transacting, Replaying, Publishing, StartsHere
<1> QED BY <1>2, <1>4 DEF CInv

LEMMA ReconcileReadCurrent ==
    ASSUME TypeInv, CInv, ReconcileRead
    PROVE  CInv'
<1>1. /\ up /\ phase = "failed" /\ phase' = "replaying" /\ staged' = <<>>
      /\ pending' = ReadFromSequence(dispatchStartSequence) /\ stagedReadModel' = commandReadModel
      /\ UNCHANGED <<events, projections, up, commandReadModel, eventPubSub,
                     dispatchStartSequence, started, reconcileFailed>>
  BY DEF ReconcileRead, durableVars
<1>2. TablesStandAtTheEnd' /\ DownIsEmpty' /\ Published' = Published
  BY <1>1 DEF CInv, TablesStandAtTheEnd, DownIsEmpty, Published
<1>3. ASSUME reconcileFailed # "now"
      PROVE  Replaying'
  <2>1. /\ dispatchStartSequence = Published
        /\ Leads(commandReadModel, ReadFromSequence(Published), Published, projections)
    BY <1>1, <1>3 DEF CInv, MemoryFollows, Failed, StartsHere
  <2>2. pending' \in Seq(Event) /\ Len(staged') = 0 /\ Published \in Nat
    <3>1. TypeInv'
      BY NextType DEF Next, Worker
    <3> QED BY <1>1, <3>1, LenProperties DEF TypeInv, TypeOK, Published
  <2>3. staged' \o pending' = ReadFromSequence(Published)'
    BY <1>1, <1>2, <2>1, <2>2, ConcatEmptySeq DEF ReadFromSequence
  <2>4. Leads(stagedReadModel', pending', Published' + Len(staged'), projections')
    <3>1. Published' + Len(staged') = Published
      BY <1>2, <2>2
    <3> QED BY <1>1, <2>1, <3>1
  <2>5. Leads(stagedReadModel, pending, Published + Len(staged), projections)'
    BY <2>4 DEF Leads
  <2> QED BY <2>3, <2>5 DEF Replaying
<1>4. MemoryFollows'
  BY <1>1, <1>2, <1>3 DEF CInv, MemoryFollows, PublishedInOrder, Resting, Transacting, Failed,
                          Publishing, StartsHere
<1> QED BY <1>2, <1>4 DEF CInv

LEMMA ReplayEventCurrent ==
    ASSUME TypeInv, CInv, ReplayEvent
    PROVE  CInv'
<1> DEFINE e == Head(pending)
<1>1. /\ up /\ phase = "replaying" /\ phase' = phase /\ pending # <<>>
      /\ stagedReadModel' = ProjectEvent(stagedReadModel, e, dispatchStartSequence + Len(staged) + 1)
      /\ staged' = Append(staged, e) /\ pending' = Tail(pending)
      /\ UNCHANGED <<events, projections, up, commandReadModel, eventPubSub,
                     dispatchStartSequence, started, reconcileFailed>>
  BY DEF ReplayEvent, durableVars
<1>2. TablesStandAtTheEnd' /\ DownIsEmpty' /\ Published' = Published
  BY <1>1 DEF CInv, TablesStandAtTheEnd, DownIsEmpty, Published
<1>3. /\ pending \in Seq(Event) /\ staged \in Seq(Event) /\ e \in Event
      /\ Len(staged) \in Nat /\ Published \in Nat
  BY <1>1, LenProperties, HeadTailProperties DEF TypeInv, TypeOK, Published
<1>4. Len(staged') = Len(staged) + 1
  BY <1>1, <1>3, AppendProperties
<1>5. staged' \o pending' = staged \o pending
  BY <1>1, <1>3, ShiftOne
<1>6. ASSUME reconcileFailed # "now"
      PROVE  Replaying'
  <2>1. /\ dispatchStartSequence = Published /\ staged \o pending = ReadFromSequence(Published)
        /\ Leads(stagedReadModel, pending, Published + Len(staged), projections)
    BY <1>1, <1>6 DEF CInv, MemoryFollows, Replaying, StartsHere
  <2>2. Published + Len(staged) \in Nat
    BY <1>3
  <2>3. Leads(ProjectEvent(stagedReadModel, e, Published + Len(staged) + 1), Tail(pending),
              Published + Len(staged) + 1, projections)
    BY <1>1, <1>3, <2>1, <2>2, LeadsFrom
  <2>4. Published' + Len(staged') = Published + Len(staged) + 1
    BY <1>2, <1>3, <1>4
  <2>5. Leads(stagedReadModel', pending', Published' + Len(staged'), projections')
    BY <1>1, <2>1, <2>3, <2>4
  <2>6. Leads(stagedReadModel, pending, Published + Len(staged), projections)'
    BY <2>5 DEF Leads
  <2>7. staged' \o pending' = ReadFromSequence(Published)'
    BY <1>1, <1>2, <1>5, <2>1 DEF ReadFromSequence
  <2> QED BY <2>6, <2>7 DEF Replaying
<1>7. MemoryFollows'
  BY <1>1, <1>2, <1>6 DEF CInv, MemoryFollows, PublishedInOrder, Resting, Transacting, Failed,
                          Publishing, StartsHere
<1> QED BY <1>2, <1>7 DEF CInv

LEMMA ReplayDoneCurrent ==
    ASSUME TypeInv, CInv, ReplayDone
    PROVE  CInv'
<1>1. /\ up /\ phase = "replaying" /\ phase' = "publishing" /\ pending = <<>>
      /\ commandReadModel' = stagedReadModel /\ staged' = staged
      /\ UNCHANGED <<events, projections, up, eventPubSub, started, reconcileFailed>>
  BY DEF ReplayDone, durableVars, stagingVars
<1>2. TablesStandAtTheEnd' /\ DownIsEmpty' /\ Published' = Published
  BY <1>1 DEF CInv, TablesStandAtTheEnd, DownIsEmpty, Published
<1>3. ASSUME reconcileFailed # "now"
      PROVE  Publishing'
  <2>1. /\ staged \o <<>> = ReadFromSequence(Published)
        /\ Leads(stagedReadModel, <<>>, Published + Len(staged), projections)
    BY <1>1, <1>3 DEF CInv, MemoryFollows, Replaying
  <2>2. staged \in Seq(Event)
    BY DEF TypeInv, TypeOK
  <2>3. staged = ReadFromSequence(Published)
    BY <2>1, <2>2, ConcatEmptySeq
  <2>4. stagedReadModel = projections
    BY <2>1, LeadsNowhere
  <2> QED BY <1>1, <1>2, <2>3, <2>4 DEF Publishing, ReadFromSequence
<1>4. MemoryFollows'
  BY <1>1, <1>2, <1>3 DEF CInv, MemoryFollows, PublishedInOrder, Resting, Transacting, Failed,
                          Replaying, StartsHere
<1> QED BY <1>2, <1>4 DEF CInv

LEMMA PublishEventCurrent ==
    ASSUME TypeInv, CInv, PublishEvent
    PROVE  CInv'
<1>1. /\ up /\ phase = "publishing" /\ phase' = phase /\ staged # <<>>
      /\ eventPubSub' = Append(eventPubSub, Head(staged)) /\ staged' = Tail(staged)
      /\ UNCHANGED <<events, projections, up, commandReadModel, started, reconcileFailed>>
  BY DEF PublishEvent, durableVars
<1>2. /\ eventPubSub \in Seq(Event) /\ staged \in Seq(Event) /\ events \in Seq(Event)
      /\ Head(staged) \in Event /\ started \in Nat /\ Len(eventPubSub) \in Nat /\ Len(events) \in Nat
  BY <1>1, LenProperties, HeadTailProperties DEF TypeInv, TypeOK
<1>3. /\ Len(eventPubSub') = Len(eventPubSub) + 1
      /\ eventPubSub'[Len(eventPubSub) + 1] = Head(staged)
      /\ \A i \in 1..Len(eventPubSub) : eventPubSub'[i] = eventPubSub[i]
  BY <1>1, <1>2, AppendProperties
<1>4. Published' = Published + 1 /\ Published \in Nat
  BY <1>1, <1>2, <1>3 DEF Published
<1>5. TablesStandAtTheEnd' /\ DownIsEmpty'
  BY <1>1 DEF CInv, TablesStandAtTheEnd, DownIsEmpty
<1>6. ASSUME reconcileFailed # "now"
      PROVE  PublishedInOrder' /\ Publishing'
  <2>1. /\ commandReadModel = projections /\ staged = ReadFromSequence(Published)
        /\ PublishedInOrder
    BY <1>1, <1>6 DEF CInv, MemoryFollows, Publishing
  <2>2. Published < Len(events)
    <3>1. Published # Len(events)
      BY <1>1, <1>2, <2>1, ReadNothing
    <3> QED BY <1>2, <1>4, <2>1, <3>1 DEF PublishedInOrder
  <2>3. Head(staged) = events[Published + 1] /\ Tail(staged) = ReadFromSequence(Published + 1)
    BY <1>2, <1>4, <2>1, <2>2, ReadNext
  <2>4. PublishedInOrder'
    <3>1. Published' <= Len(events')
      BY <1>1, <1>2, <1>4, <2>2
    <3>2. ASSUME NEW i \in 1..Len(eventPubSub')
          PROVE  eventPubSub'[i] = events[started + i]
      <4>1. CASE i \in 1..Len(eventPubSub)
        BY <1>3, <2>1, <4>1 DEF PublishedInOrder
      <4>2. CASE i = Len(eventPubSub) + 1
        <5>1. started + i = Published + 1
          BY <1>2, <4>2 DEF Published
        <5> QED BY <1>3, <2>3, <4>2, <5>1
      <4> QED BY <1>2, <1>3, <4>1, <4>2
    <3> QED BY <1>1, <3>1, <3>2 DEF PublishedInOrder
  <2>5. Publishing'
    BY <1>1, <1>4, <2>1, <2>3 DEF Publishing, ReadFromSequence
  <2> QED BY <2>4, <2>5
<1>7. MemoryFollows'
  BY <1>1, <1>6 DEF MemoryFollows, Resting, Transacting, Failed, Replaying, StartsHere
<1> QED BY <1>5, <1>7 DEF CInv

LEMMA PublishDoneCurrent ==
    ASSUME TypeInv, CInv, PublishDone
    PROVE  CInv'
<1>1. /\ up /\ phase = "publishing" /\ phase' = "settling" /\ staged = <<>>
      /\ UNCHANGED <<events, projections, up, commandReadModel, eventPubSub, started, reconcileFailed>>
  BY DEF PublishDone, durableVars
<1>2. TablesStandAtTheEnd' /\ DownIsEmpty' /\ Published' = Published
  BY <1>1 DEF CInv, TablesStandAtTheEnd, DownIsEmpty, Published
<1>3. ASSUME reconcileFailed # "now"
      PROVE  commandReadModel = projections /\ Published = Len(events)
  <2>1. /\ commandReadModel = projections /\ ReadFromSequence(Published) = <<>>
        /\ Published <= Len(events)
    BY <1>1, <1>3 DEF CInv, MemoryFollows, Publishing, PublishedInOrder
  <2>2. events \in Seq(Event) /\ Published \in Nat /\ Len(events) \in Nat
    BY LenProperties DEF TypeInv, TypeOK, Published
  <2>3. ~(Published < Len(events))
    BY <2>1, <2>2, ReadNext
  <2> QED BY <2>1, <2>2, <2>3
<1>4. MemoryFollows'
  BY <1>1, <1>2, <1>3 DEF CInv, MemoryFollows, PublishedInOrder, Resting, Transacting, Failed,
                          Replaying, Publishing, StartsHere
<1> QED BY <1>2, <1>4 DEF CInv

\* Of the steps that leave the log, the tables, the memory and the publications.
LEMMA QuietCurrent ==
    ASSUME TypeInv, CInv, TakeCommand \/ AnswerFromReceipt \/ DecideRejects \/ Succeed
                          \/ FailRejected \/ Fail
    PROVE  CInv'
<1>1. CASE TakeCommand
  <2>1. /\ up /\ phase = "idle" /\ phase' = "taken"
        /\ dispatchStartSequence' = commandReadModel.snapshotSequence
        /\ UNCHANGED <<events, projections, up, commandReadModel, eventPubSub, started,
                       reconcileFailed>>
    BY <1>1 DEF TakeCommand, durableVars
  <2> QED BY <2>1, RestingStep
<1>2. CASE AnswerFromReceipt
  <2>1. up /\ phase = "taken" /\ UNCHANGED <<events, projections>>
    BY <1>2 DEF AnswerFromReceipt, durableVars
  <2>2. \/ FailWith(IdConflict) \/ FailWith(PreviouslyRejected)
        \/ /\ phase' = "settling"
           /\ UNCHANGED <<up, commandReadModel, eventPubSub, started, reconcileFailed>>
    BY <1>2 DEF AnswerFromReceipt
  <2>3. CASE FailWith(IdConflict)
    BY <2>1, <2>3, FailsClean
  <2>4. CASE FailWith(PreviouslyRejected)
    BY <2>1, <2>4, FailsClean
  <2>5. CASE /\ phase' = "settling"
             /\ UNCHANGED <<up, commandReadModel, eventPubSub, started, reconcileFailed>>
    BY <2>1, <2>5, RestingStep
  <2> QED BY <2>2, <2>3, <2>4, <2>5
<1>3. CASE DecideRejects
  <2>1. phase = "taken" /\ FailWith(Rejection) /\ UNCHANGED <<events, projections>>
    BY <1>3 DEF DecideRejects, durableVars
  <2> QED BY <2>1, FailsClean
<1>4. CASE Succeed \/ FailRejected \/ Fail
  <2>1. /\ up /\ phase = "settling" /\ phase' = "idle"
        /\ UNCHANGED <<events, projections, up, commandReadModel, eventPubSub, started,
                       reconcileFailed>>
    BY <1>4 DEF Succeed, FailRejected, Fail, Resolve
  <2> QED BY <2>1, RestingStep
<1> QED BY <1>1, <1>2, <1>3, <1>4

LEMMA FaultCurrent ==
    ASSUME TypeInv, CInv, Faults
    PROVE  CInv'
<1>1. CASE PreparationFails
  <2>1. phase = "taken" /\ FailWith(Rejection) /\ UNCHANGED <<events, projections>>
    BY <1>1 DEF PreparationFails, durableVars
  <2> QED BY <2>1, FailsClean
<1>2. CASE StorageFails
  <2>1. /\ phase \in {"taken", "transaction"} /\ FailWith(StorageError)
        /\ UNCHANGED <<events, projections>>
    BY <1>2 DEF StorageFails, durableVars
  <2> QED BY <2>1, FailsClean
<1>3. CASE CommitReportsFailure
  BY <1>3, CommitReportsFailureCurrent
<1>4. CASE ReconcileFails
  <2>1. /\ up /\ phase' = "settling" /\ reconcileFailed' = "now"
        /\ UNCHANGED <<events, projections, up, eventPubSub>>
    BY <1>4 DEF ReconcileFails, durableVars
  <2> QED BY <2>1 DEF CInv, TablesStandAtTheEnd, DownIsEmpty, MemoryFollows
<1> QED BY <1>1, <1>2, <1>3, <1>4 DEF Faults

LEMMA ProcessCurrent ==
    ASSUME TypeInv, CInv, Crash \/ Start
    PROVE  CInv'
<1>1. CASE Crash
  BY <1>1 DEF Crash, durableVars, CInv, TablesStandAtTheEnd, DownIsEmpty, MemoryFollows
<1>2. CASE Start
  <2>1. /\ up' /\ phase = "idle" /\ phase' = "idle" /\ commandReadModel' = projections
        /\ eventPubSub' = <<>> /\ started' = Len(events)
        /\ UNCHANGED <<events, projections>>
    BY <1>2 DEF Start, durableVars, workerVars, CInv, DownIsEmpty
  <2>2. Len(events) \in Nat /\ Len(eventPubSub') = 0
    BY <2>1, LenProperties DEF TypeInv, TypeOK
  <2>3. Published' = Len(events')
    BY <2>1, <2>2 DEF Published
  <2>4. TablesStandAtTheEnd' /\ DownIsEmpty'
    BY <2>1 DEF CInv, TablesStandAtTheEnd, DownIsEmpty
  <2>5. MemoryFollows'
    BY <2>1, <2>2, <2>3 DEF MemoryFollows, PublishedInOrder, Resting, Transacting, Failed,
                            Replaying, Publishing, StartsHere
  <2> QED BY <2>4, <2>5 DEF CInv
<1> QED BY <1>1, <1>2

LEMMA NextCurrent ==
    ASSUME TypeInv, CInv, [Next]_vars
    PROVE  CInv'
<1>1. CASE \E client \in Clients, command \in Commands : Dispatch(client, command)
  <2>1. UNCHANGED <<events, projections, up, commandReadModel, eventPubSub, phase,
                    dispatchStartSequence, pending, staged, stagedReadModel, stagedProjections,
                    started, reconcileFailed>>
    BY <1>1 DEF Dispatch, durableVars, workerVars, stagingVars
  <2> QED BY <2>1, SameCurrent
<1>2. CASE Worker
  BY <1>2, QuietCurrent, DecideAcceptsCurrent, AppendEventCurrent, CommitCurrent,
     ReconcileReadCurrent, ReplayEventCurrent, ReplayDoneCurrent, PublishEventCurrent,
     PublishDoneCurrent DEF Worker
<1>3. CASE Faults
  BY <1>3, FaultCurrent
<1>4. CASE Crash \/ Start
  BY <1>4, ProcessCurrent
<1>5. CASE UNCHANGED vars
  <2>1. UNCHANGED <<events, projections, up, commandReadModel, eventPubSub, phase,
                    dispatchStartSequence, pending, staged, stagedReadModel, stagedProjections,
                    started, reconcileFailed>>
    BY <1>5 DEF vars, durableVars, workerVars, stagingVars
  <2> QED BY <2>1, SameCurrent
<1> QED BY <1>1, <1>2, <1>3, <1>4, <1>5 DEF Next

LEMMA Current == Spec => [](TypeInv /\ CInv)
<1>1. Init => TypeInv /\ CInv
  BY InitType, InitCurrent
<1>2. (TypeInv /\ CInv) /\ [Next]_vars => (TypeInv /\ CInv)'
  BY NextType, NextCurrent
<1> QED BY <1>1, <1>2, PTL DEF Spec

(* No command is decided against a state the log has left behind: whenever    *)
(* the worker is between two commands, or about to decide one, its read model *)
(* is what the tables say of the whole log.                                   *)
THEOREM CurrentReadModel == Spec => []ReadModelIsCurrent
<1>1. CInv => ReadModelIsCurrent
  BY DEF CInv, TablesStandAtTheEnd, MemoryFollows, Resting, ReadModelIsCurrent
<1> QED BY <1>1, Current, PTL

(* The success path and the failure path together publish every event of the   *)
(* log once and in order.                                                    *)
THEOREM PublicationFollowsLog == Spec => []PublishedIsTheLog
<1>1. ASSUME TypeInv, CInv PROVE PublishedIsTheLog
  <2>1. /\ events \in Seq(Event) /\ eventPubSub \in Seq(Event) /\ started \in Nat
        /\ Len(events) \in Nat /\ Len(eventPubSub) \in Nat
    BY <1>1, LenProperties DEF TypeInv, TypeOK
  <2>2. SUFFICES ASSUME up, reconcileFailed # "now"
                 PROVE  /\ Published <= Len(events)
                        /\ eventPubSub = SubSeq(events, started + 1, Published)
                        /\ phase = "idle" => Published = Len(events)
    BY DEF PublishedIsTheLog, Published
  <2>3. PublishedInOrder /\ Resting
    BY <1>1, <2>2 DEF CInv, MemoryFollows
  <2>4. \A i \in (started + 1)..Published : events[i] \in Event
    <3>1. \A i \in (started + 1)..Published : i \in 1..Len(events)
      BY <2>1, <2>3 DEF PublishedInOrder, Published
    <3> QED BY <2>1, <3>1, ElementOfSeq
  <2> DEFINE t == SubSeq(events, started + 1, Published)
  <2>5. /\ Published \in Int /\ started + 1 \in Int
        /\ Published - (started + 1) + 1 = Len(eventPubSub)
        /\ Len(eventPubSub) = IF started + 1 <= Published THEN Len(eventPubSub) ELSE 0
    BY <2>1 DEF Published
  <2>6. /\ t \in Seq(Event) /\ Len(t) = Len(eventPubSub)
        /\ \A i \in 1..Len(eventPubSub) : t[i] = events[started + 1 + i - 1]
    BY <2>4, <2>5, SubSeqProperties
  <2>7. \A i \in 1..Len(eventPubSub) : started + 1 + i - 1 = started + i
    BY <2>1
  <2> HIDE DEF t
  <2>8. \A i \in 1..Len(eventPubSub) : eventPubSub[i] = t[i]
    BY <2>3, <2>6, <2>7 DEF PublishedInOrder
  <2>9. eventPubSub = t
    BY <2>1, <2>6, <2>8, SeqEqual
  <2> QED BY <2>3, <2>9 DEF PublishedInOrder, Resting, t
<1> QED BY <1>1, Current, PTL

---------------------------------------------------------------------------
(* One live project per workspace root.  The decider looks at the read model   *)
(* in memory and the project is inserted into the tables a transaction later:  *)
(* the root stays free in between because nothing but this plan is applied.   *)

UniqueRoots(m) ==
    \A p, q \in Projects :
        LiveProject(m, p) /\ LiveProject(m, q) /\ m.projects[p].root = m.projects[q].root => p = q

\* The event gives a project a root.
ClaimsRoot(e) == e.type \in {"project.created", "project.meta-updated"}

RootIsFree(m, e) ==
    ClaimsRoot(e) => RequireActiveProjectWorkspaceRootAbsent(m, e.root, e.aggregate)

\* Only a plan of a single event claims a root, and the root is free.
PlanIsSafe(m, plan) ==
    \A i \in 1..Len(plan) : ClaimsRoot(plan[i]) => Len(plan) = 1 /\ RootIsFree(m, plan[i])

RInv ==
    reconcileFailed = "never" =>
        /\ UniqueRoots(projections)
        /\ phase = "transaction" =>
              UniqueRoots(stagedProjections) /\ PlanIsSafe(stagedProjections, pending)

LEMMA EventKeepsRootsUnique ==
    ASSUME NEW m \in ReadModel, NEW e \in Event, NEW s \in Nat, UniqueRoots(m), RootIsFree(m, e)
    PROVE  UniqueRoots(ProjectEvent(m, e, s))
<1> DEFINE n == ProjectEvent(m, e, s)
           a == e.aggregate
<1>1. m.projects \in [Projects -> ProjectRow] /\ e.type \in EventTypes
  BY DEF ReadModel, Event
<1>2. \A row : /\ [m EXCEPT !.snapshotSequence = s, !.projects[a] = row].projects
                    = [m.projects EXCEPT ![a] = row]
               /\ [m EXCEPT !.snapshotSequence = s, !.threads[a] = row].projects = m.projects
  BY DEF ReadModel
<1>3. CASE e.type = "project.created"
  <2>1. n.projects = [m.projects EXCEPT ![a] = [exists |-> TRUE, deleted |-> FALSE, root |-> e.root]]
    BY <1>2, <1>3 DEF ProjectEvent
  <2>2. \A p \in Projects \ {a} : n.projects[p] = m.projects[p]
    BY <1>1, <2>1
  <2>3. a \in Projects => n.projects[a].root = e.root
    BY <1>1, <2>1
  <2> HIDE DEF n
  <2>4. UniqueRoots(n)
    BY <1>3, <2>2, <2>3 DEF UniqueRoots, LiveProject, RootIsFree, ClaimsRoot,
                             RequireActiveProjectWorkspaceRootAbsent
  <2> QED BY <2>4 DEF n
<1>4. CASE e.type = "project.meta-updated"
  <2>1. n.projects = [m.projects EXCEPT ![a] = [m.projects[a] EXCEPT !.root = e.root]]
    BY <1>2, <1>4 DEF ProjectEvent
  <2>2. \A p \in Projects \ {a} : n.projects[p] = m.projects[p]
    BY <1>1, <2>1
  <2>3. a \in Projects => n.projects[a].root = e.root
    BY <1>1, <2>1 DEF ProjectRow
  <2> HIDE DEF n
  <2>4. UniqueRoots(n)
    BY <1>4, <2>2, <2>3 DEF UniqueRoots, LiveProject, RootIsFree, ClaimsRoot,
                             RequireActiveProjectWorkspaceRootAbsent
  <2> QED BY <2>4 DEF n
<1>5. CASE e.type = "project.deleted"
  <2>1. n.projects = [m.projects EXCEPT ![a] = [m.projects[a] EXCEPT !.deleted = TRUE]]
    BY <1>2, <1>5 DEF ProjectEvent
  <2>2. \A p \in Projects \ {a} : n.projects[p] = m.projects[p]
    BY <1>1, <2>1
  <2>3. a \in Projects => n.projects[a].deleted
    BY <1>1, <2>1 DEF ProjectRow
  <2> HIDE DEF n
  <2>4. UniqueRoots(n)
    BY <2>2, <2>3 DEF UniqueRoots, LiveProject
  <2> QED BY <2>4 DEF n
<1>6. CASE e.type \in {"thread.created", "thread.deleted", "thread.archived", "thread.unarchived"}
  <2>1. n.projects = m.projects
    BY <1>2, <1>6 DEF ProjectEvent
  <2> HIDE DEF n
  <2>2. UniqueRoots(n)
    BY <2>1 DEF UniqueRoots, LiveProject
  <2> QED BY <2>2 DEF n
<1> QED BY <1>1, <1>3, <1>4, <1>5, <1>6 DEF EventTypes

LEMMA PlansAreSafe ==
    ASSUME NEW m, NEW c, WellFormed(c), NEW plan \in DecidePlans(m, c)
    PROVE  PlanIsSafe(m, plan)
<1>1. Accepts(m, c) /\ c \in Command
  BY DEF DecidePlans, WellFormed
<1>2. CASE c.type # "project.delete"
  <2> DEFINE ev == WithEventBase(c, EventTypeOf[c.type], CommandToAggregateRef(c))
  <2>1. plan = <<ev>>
    BY <1>2 DEF DecidePlans
  <2>2. ASSUME ClaimsRoot(ev) PROVE RootIsFree(m, ev)
    <3>1. ev.type = EventTypeOf[c.type] /\ ev.root = c.root
          /\ ev.aggregate = CommandToAggregateRef(c)
      BY DEF WithEventBase
    <3> HIDE DEF ev
    <3>2. c.type \in {"project.create", "project.meta.update"}
      BY <1>1, <2>2, <3>1 DEF ClaimsRoot, EventTypeOf, Command, ProjectCommandTypes,
                               ThreadCommandTypes
    <3>3. CommandToAggregateRef(c) = c.project
      BY <3>2 DEF CommandToAggregateRef, ProjectCommandTypes
    <3>4. RequireActiveProjectWorkspaceRootAbsent(m, c.root, c.project)
      BY <1>1, <3>2 DEF Accepts
    <3> QED BY <3>1, <3>3, <3>4 DEF RootIsFree
  <2> HIDE DEF ev
  <2> QED BY <2>1, <2>2 DEF PlanIsSafe
<1>3. CASE c.type = "project.delete"
  <2> DEFINE S == ActiveThreads(m, c.project)
             n == Cardinality(S)
  <2>1. n \in Nat
    BY DomainAssumption, FS_Subset, FS_CardinalityType DEF ActiveThreads
  <2>2. PICK q \in Listings(S) :
          plan = [i \in 1..(Len(q) + 1) |->
                    IF i <= Len(q) THEN WithEventBase(c, "thread.deleted", q[i])
                                   ELSE WithEventBase(c, "project.deleted", c.project)]
    BY <1>1, <1>3 DEF DecidePlans, ForcedDeletion
  <2> HIDE DEF n, S
  <2>3. q \in [1..n -> S] /\ Len(q) = n
    BY <2>1, <2>2 DEF Listings, n
  <2>4. Len(plan) = n + 1
    BY <2>1, <2>2, <2>3
  <2>5. \A i \in 1..(n + 1) : plan[i].type \in {"thread.deleted", "project.deleted"}
    BY <2>2, <2>3 DEF WithEventBase
  <2> QED BY <2>4, <2>5 DEF PlanIsSafe, ClaimsRoot
<1> QED BY <1>2, <1>3

LEMMA NextRoots ==
    ASSUME TypeInv, CInv, RInv, [Next]_vars
    PROVE  RInv'
<1> SUFFICES ASSUME reconcileFailed' = "never"
             PROVE  /\ UniqueRoots(projections)'
                    /\ phase' = "transaction" =>
                          UniqueRoots(stagedProjections)' /\ PlanIsSafe(stagedProjections, pending)'
  BY DEF RInv
<1>1. CASE DecideAccepts
  <2>1. /\ up /\ phase = "taken" /\ projections' = projections
        /\ stagedProjections' = projections /\ reconcileFailed = "never"
        /\ pending' \in DecidePlans(commandReadModel, envelope.command)
    BY <1>1 DEF DecideAccepts, durableVars
  <2>2. WellFormed(envelope.command)
    BY <2>1, EngineAssumption DEF TypeInv, WorkerHasEnvelope, Envelope
  <2>3. commandReadModel = projections
    BY <2>1 DEF CInv, MemoryFollows, Resting
  <2>4. PlanIsSafe(projections, pending')
    BY <2>1, <2>2, <2>3, PlansAreSafe
  <2>5. UniqueRoots(projections)
    BY <2>1 DEF RInv
  <2>6. PlanIsSafe(stagedProjections', pending') /\ UniqueRoots(projections')
    BY <2>1, <2>4, <2>5
  <2> QED BY <2>1, <2>6 DEF PlanIsSafe, RootIsFree, UniqueRoots, LiveProject,
                            RequireActiveProjectWorkspaceRootAbsent
<1>2. CASE AppendEvent
  <2> DEFINE e == Head(pending)
             s == Len(events) + Len(staged) + 1
  <2>1. /\ phase = "transaction" /\ pending # <<>> /\ pending' = Tail(pending)
        /\ stagedProjections' = ProjectEvent(stagedProjections, e, s)
        /\ projections' = projections /\ reconcileFailed = "never"
    BY <1>2 DEF AppendEvent, durableVars
  <2>2. /\ pending \in Seq(Event) /\ stagedProjections \in ReadModel /\ s \in Nat
    BY LenProperties DEF TypeInv, TypeOK
  <2>3. /\ e \in Event /\ e = pending[1] /\ Len(pending) \in Nat /\ Len(pending) # 0
        /\ Len(pending') = Len(pending) - 1
        /\ \A i \in 1..Len(pending') : pending'[i] = pending[i + 1]
    BY <2>1, <2>2, LenProperties, EmptySeq, HeadTailProperties
  <2> HIDE DEF e, s
  <2>4. /\ UniqueRoots(projections) /\ UniqueRoots(stagedProjections)
        /\ PlanIsSafe(stagedProjections, pending)
    BY <2>1 DEF RInv
  <2>5. RootIsFree(stagedProjections, e)
    BY <2>3, <2>4 DEF PlanIsSafe, RootIsFree
  <2>6. UniqueRoots(stagedProjections')
    BY <2>1, <2>2, <2>3, <2>4, <2>5, EventKeepsRootsUnique
  <2>7. \A i \in 1..Len(pending') : ~ClaimsRoot(pending'[i])
    <3> TAKE i \in 1..Len(pending')
    <3>1. i + 1 \in 1..Len(pending) /\ Len(pending) # 1
      BY <2>3
    <3> QED BY <2>3, <2>4, <3>1 DEF PlanIsSafe
  <2>8. UniqueRoots(projections') /\ PlanIsSafe(stagedProjections', pending')
    BY <2>1, <2>4, <2>7 DEF PlanIsSafe
  <2> QED BY <2>6, <2>8 DEF PlanIsSafe, RootIsFree, UniqueRoots, LiveProject,
                            RequireActiveProjectWorkspaceRootAbsent, ClaimsRoot
<1>3. CASE Commit \/ CommitReportsFailure
  <2>1. /\ phase = "transaction" /\ phase' # "transaction" /\ projections' = stagedProjections
        /\ reconcileFailed = "never"
    BY <1>3 DEF Commit, CommitReportsFailure, Persist, FailWith
  <2>2. UniqueRoots(projections')
    BY <2>1 DEF RInv
  <2> QED BY <2>1, <2>2 DEF UniqueRoots, LiveProject
<1>4. ASSUME UNCHANGED <<projections, stagedProjections, pending>>, phase' = phase,
             reconcileFailed' = reconcileFailed
      PROVE  /\ UniqueRoots(projections)'
             /\ phase' = "transaction" =>
                   UniqueRoots(stagedProjections)' /\ PlanIsSafe(stagedProjections, pending)'
  BY <1>4 DEF RInv, PlanIsSafe, RootIsFree, ClaimsRoot, UniqueRoots, LiveProject,
              RequireActiveProjectWorkspaceRootAbsent
<1>5. ASSUME projections' = projections, phase' # "transaction",
             reconcileFailed = "never" \/ reconcileFailed' = reconcileFailed
      PROVE  /\ UniqueRoots(projections)'
             /\ phase' = "transaction" =>
                   UniqueRoots(stagedProjections)' /\ PlanIsSafe(stagedProjections, pending)'
  BY <1>5 DEF RInv, UniqueRoots, LiveProject
<1>6. CASE \E client \in Clients, command \in Commands : Dispatch(client, command)
  BY <1>4, <1>6 DEF Dispatch, durableVars, workerVars, stagingVars
<1>7. CASE TakeCommand \/ ReconcileRead \/ ReplayDone \/ PublishDone
  BY <1>5, <1>7 DEF TakeCommand, ReconcileRead, ReplayDone, PublishDone, durableVars
<1>8. CASE AnswerFromReceipt \/ DecideRejects \/ PreparationFails \/ StorageFails
  BY <1>5, <1>8 DEF AnswerFromReceipt, DecideRejects, PreparationFails, StorageFails, FailWith,
                    durableVars
<1>9. CASE ReplayEvent \/ PublishEvent
  BY <1>5, <1>9 DEF ReplayEvent, PublishEvent, durableVars
<1>10. CASE Succeed \/ FailRejected \/ Fail
  BY <1>5, <1>10 DEF Succeed, FailRejected, Fail, Resolve
<1>11. CASE ReconcileFails
  BY <1>11 DEF ReconcileFails
<1>12. CASE Crash
  BY <1>5, <1>12 DEF Crash, durableVars
<1>13. CASE Start
  <2>1. phase' = "idle" /\ projections' = projections /\ reconcileFailed = "never"
    BY <1>13 DEF Start, durableVars, workerVars, CInv, DownIsEmpty
  <2> QED BY <1>5, <2>1
<1>14. CASE UNCHANGED vars
  BY <1>4, <1>14 DEF vars, durableVars, workerVars, stagingVars
<1> QED BY <1>1, <1>2, <1>3, <1>6, <1>7, <1>8, <1>9, <1>10, <1>11, <1>12, <1>13, <1>14
        DEF Next, Worker, Faults

(* At most one live project has a given workspace root, unless a              *)
(* reconciliation ever failed: the check in memory and the insert in the       *)
(* tables a transaction later agree.                                         *)
THEOREM RootsStayUnique == Spec => []OneLiveProjectPerRoot
<1>1. Init => RInv
  BY DEF Init, RInv, UniqueRoots, LiveProject, EmptyReadModel
<1>2. TypeInv /\ CInv /\ RInv /\ [Next]_vars => RInv'
  BY NextRoots
<1>3. RInv => OneLiveProjectPerRoot
  BY DEF RInv, UniqueRoots, OneLiveProjectPerRoot
<1> QED BY <1>1, <1>2, <1>3, Current, PTL DEF Spec

---------------------------------------------------------------------------
(* Induction over the numbers, from the well-foundedness of < : a set that     *)
(* has 0 and, with a number, the next one, has them all.                      *)

LEMMA LeastNumber ==
    ASSUME NEW T \in SUBSET Nat, T # {}
    PROVE  \E n \in T : \A k \in T : n <= k
<1> DEFINE R == {pair \in Nat \X Nat : pair[1] < pair[2]}
<1>1. IsWellFoundedOn(R, Nat)
  BY NatLessThanWellFounded DEF OpToRel
<1>2. \A x, y \in Nat : <<y, x>> \in R <=> y < x
  OBVIOUS
<1> HIDE DEF R
<1>3. PICK n \in T : \A k \in T : ~(<<k, n>> \in R)
  BY <1>1, WFMin
<1>4. \A k \in T : n \in Nat /\ k \in Nat /\ ~(k < n)
  BY <1>2, <1>3
<1>5. \A k \in T : n <= k
  BY <1>4
<1> QED BY <1>3, <1>5

LEMMA SetInduction ==
    ASSUME NEW T, 0 \in T, \A n \in Nat : n \in T => n + 1 \in T
    PROVE  Nat \subseteq T
<1> SUFFICES ASSUME Nat \ T # {} PROVE FALSE
  OBVIOUS
<1>1. PICK n \in Nat \ T : \A k \in Nat \ T : n <= k
  BY LeastNumber
<1>2. n - 1 \in Nat /\ n - 1 + 1 = n /\ ~(n <= n - 1)
  BY <1>1
<1>3. n - 1 \in T
  BY <1>1, <1>2
<1> QED BY <1>1, <1>2, <1>3

---------------------------------------------------------------------------
(* The engine implements the abstract command log.  The abstract step decides   *)
(* a command and applies its whole plan at once; the engine decides it, walks   *)
(* its plan event by event, and its step is the COMMIT.  Between the two the     *)
(* invariant keeps what is staged and what is pending a plan for the state the   *)
(* tables are still in.                                                       *)

Planned ==
    phase = "transaction" => staged \o pending \in DecidePlans(projections, envelope.command)

PlanInv == reconcileFailed # "now" => Planned

\* The operators of the abstract log are the engine's own.
LEMMA SamePlans == \A m, c : Log!DecidePlans(m, c) = DecidePlans(m, c)
<1>1. \A m, t : Log!LiveThread(m, t) = LiveThread(m, t)
  BY DEF LiveThread, Log!LiveThread
<1>2. \A m, p : Log!LiveProject(m, p) = LiveProject(m, p)
  BY DEF LiveProject, Log!LiveProject
<1>3. \A m, p : Log!ActiveThreads(m, p) = ActiveThreads(m, p)
  BY <1>1 DEF ActiveThreads, Log!ActiveThreads
<1>4. \A m, c : Log!Accepts(m, c) = Accepts(m, c)
  BY <1>1, <1>2, <1>3
     DEF Accepts, Log!Accepts, RequireProject, Log!RequireProject, RequireThread,
         Log!RequireThread, RequireActiveProjectWorkspaceRootAbsent,
         Log!RequireActiveProjectWorkspaceRootAbsent
<1>5. \A c, type, a : Log!WithEventBase(c, type, a) = WithEventBase(c, type, a)
  BY DEF WithEventBase, Log!WithEventBase
<1>6. \A S : Log!Listings(S) = Listings(S)
  BY DEF Listings, Log!Listings, Cardinality, Log!Cardinality
<1>7. ASSUME NEW m, NEW c PROVE Log!ForcedDeletion(m, c) = ForcedDeletion(m, c)
  <2> DEFINE L == Listings(ActiveThreads(m, c.project))
             P(q) == [i \in 1..(Len(q) + 1) |->
                        IF i <= Len(q) THEN WithEventBase(c, "thread.deleted", q[i])
                                       ELSE WithEventBase(c, "project.deleted", c.project)]
             LogP(q) == [i \in 1..(Len(q) + 1) |->
                        IF i <= Len(q) THEN Log!WithEventBase(c, "thread.deleted", q[i])
                                       ELSE Log!WithEventBase(c, "project.deleted", c.project)]
  <2>1. Log!ForcedDeletion(m, c) = {LogP(q) : q \in L}
    BY <1>3, <1>6 DEF Log!ForcedDeletion
  <2>2. ForcedDeletion(m, c) = {P(q) : q \in L}
    BY DEF ForcedDeletion
  <2>3. \A q : P(q) = LogP(q)
    BY <1>5
  <2> HIDE DEF L, P, LogP
  <2> QED BY <2>1, <2>2, <2>3
<1>8. Log!EventTypeOf = EventTypeOf
  BY DEF EventTypeOf, Log!EventTypeOf, ProjectCommandTypes, Log!ProjectCommandTypes,
         ThreadCommandTypes, Log!ThreadCommandTypes
<1>9. \A c : Log!CommandToAggregateRef(c) = CommandToAggregateRef(c)
  BY DEF CommandToAggregateRef, Log!CommandToAggregateRef, ProjectCommandTypes,
         Log!ProjectCommandTypes
<1> QED BY <1>4, <1>5, <1>7, <1>8, <1>9 DEF DecidePlans, Log!DecidePlans

LEMMA SameProjection == \A m, e, s : Log!ProjectEvent(m, e, s) = ProjectEvent(m, e, s)
BY DEF ProjectEvent, Log!ProjectEvent

(* Applying a plan to a read model comes to the end of the path it leads:      *)
(* whatever order the transaction took to build it, the result is the same.   *)
LEMMA ApplyPlanIsThePath ==
    ASSUME NEW m, NEW plan \in Seq(Event), NEW t, Leads(m, plan, m.snapshotSequence, t)
    PROVE  Log!ApplyPlan(m, plan) = t
<1> DEFINE n == Len(plan)
           s == m.snapshotSequence
           Path(g) == [i \in 0..n |-> IF i = 0 THEN m ELSE ProjectEvent(g[i - 1], plan[i], s + i)]
<1>1. PICK g : /\ g[0] = m /\ g[n] = t
               /\ \A i \in 1..n : g[i] = ProjectEvent(g[i - 1], plan[i], s + i)
  BY DEF Leads
<1>2. n \in Nat
  BY LenProperties
<1> DEFINE h == [i \in 0..n |-> g[i]]
<1>3. h = Path(h)
  <2>1. \A i \in 1..n : i \in 0..n /\ i - 1 \in 0..n /\ i # 0 /\ i \in Nat
    BY <1>2
  <2>2. \A i \in 0..n : i = 0 \/ i \in 1..n
    BY <1>2
  <2>3. \A i \in 0..n : h[i] = IF i = 0 THEN m ELSE ProjectEvent(h[i - 1], plan[i], s + i)
    BY <1>1, <2>1, <2>2
  <2> QED BY <2>3
<1> DEFINE f == CHOOSE k : k = Path(k)
<1>4. f = Path(f)
  <2> HIDE DEF h, Path
  <2> QED BY <1>3
<1>5. Log!ApplyPlan(m, plan) = f[n]
  BY SameProjection DEF Log!ApplyPlan
<1>6. h[0] = m /\ h[n] = t
  BY <1>1, <1>2
<1>7. /\ \A i \in 1..n : h[i] = ProjectEvent(h[i - 1], plan[i], s + i)
      /\ \A i \in 1..n : f[i] = ProjectEvent(f[i - 1], plan[i], s + i)
      /\ f[0] = m
  <2>1. \A i \in 1..n : i \in 0..n /\ i # 0
    BY <1>2
  <2>2. 0 \in 0..n
    BY <1>2
  <2> HIDE DEF h, f
  <2>3. \A k : k = Path(k) => /\ \A i \in 1..n : k[i] = ProjectEvent(k[i - 1], plan[i], s + i)
                              /\ k[0] = m
    BY <2>1, <2>2
  <2> QED BY <1>3, <1>4, <2>3
<1> HIDE DEF f, h, Path
<1> DEFINE T == {i \in Nat : i <= n => f[i] = h[i]}
<1>8. 0 \in T
  BY <1>6, <1>7
<1>9. \A i \in Nat : i \in T => i + 1 \in T
  <2> SUFFICES ASSUME NEW i \in Nat, i \in T, i + 1 <= n PROVE f[i + 1] = h[i + 1]
    OBVIOUS
  <2>1. f[i] = h[i] /\ i + 1 \in 1..n /\ i + 1 - 1 = i
    BY <1>2
  <2> QED BY <1>7, <2>1
<1> HIDE DEF T
<1>10. n \in T
  BY <1>2, <1>8, <1>9, SetInduction
<1>11. f[n] = h[n]
  BY <1>2, <1>10 DEF T
<1> QED BY <1>5, <1>6, <1>11

\* The step leaves the plan and what it was decided against.
LEMMA SamePlanned ==
    ASSUME PlanInv, UNCHANGED <<phase, staged, pending, projections, envelope>>,
           reconcileFailed = "now" => phase # "transaction" \/ reconcileFailed' = "now"
    PROVE  PlanInv'
BY SamePlans DEF PlanInv, Planned

LEMMA NextPlanned ==
    ASSUME TypeInv, CInv, PlanInv, [Next]_vars
    PROVE  PlanInv'
<1>1. ASSUME phase' # "transaction" PROVE PlanInv'
  BY <1>1 DEF PlanInv, Planned
<1>2. CASE DecideAccepts
  <2>1. /\ up /\ phase = "taken" /\ staged' = <<>> /\ reconcileFailed' = reconcileFailed
        /\ pending' \in DecidePlans(commandReadModel, envelope.command)
        /\ projections' = projections /\ envelope' = envelope
    BY <1>2 DEF DecideAccepts, durableVars
  <2>2. ASSUME reconcileFailed # "now" PROVE commandReadModel = projections
    BY <2>1, <2>2 DEF CInv, MemoryFollows, Resting
  <2>3. pending' \in Seq(Event)
    BY <2>1, EnvelopeCommand, PlanType
  <2>4. staged' \o pending' = pending'
    BY <2>1, <2>3, ConcatEmptySeq
  <2> QED BY <2>1, <2>2, <2>4 DEF PlanInv, Planned
<1>3. CASE AppendEvent
  <2>1. /\ phase = "transaction" /\ pending # <<>> /\ reconcileFailed' = reconcileFailed
        /\ staged' = Append(staged, Head(pending)) /\ pending' = Tail(pending)
        /\ projections' = projections /\ envelope' = envelope
        /\ staged \in Seq(Event) /\ pending \in Seq(Event)
    BY <1>3 DEF AppendEvent, durableVars, TypeInv, TypeOK
  <2>2. staged' \o pending' = staged \o pending
    BY <2>1, ShiftOne
  <2> QED BY <2>1, <2>2 DEF PlanInv, Planned
<1>4. CASE \E client \in Clients, command \in Commands : Dispatch(client, command)
  BY <1>4, SamePlanned DEF Dispatch, durableVars, workerVars, stagingVars
<1>5. CASE UNCHANGED vars
  BY <1>5, SamePlanned DEF vars, durableVars, workerVars, stagingVars
<1>6. CASE TakeCommand \/ Commit \/ ReconcileRead \/ ReplayEvent \/ ReplayDone \/ PublishEvent
           \/ PublishDone
  BY <1>1, <1>6 DEF TakeCommand, Commit, ReconcileRead, ReplayEvent, ReplayDone, PublishEvent,
                    PublishDone
<1>7. CASE AnswerFromReceipt \/ DecideRejects \/ Faults
  BY <1>1, <1>7 DEF AnswerFromReceipt, DecideRejects, Faults, PreparationFails, StorageFails,
                    CommitReportsFailure, ReconcileFails, FailWith
<1>8. CASE Succeed \/ FailRejected \/ Fail
  BY <1>1, <1>8 DEF Succeed, FailRejected, Fail, Resolve
<1>9. CASE Crash \/ Start
  BY <1>1, <1>9 DEF Crash, Start, workerVars, CInv, DownIsEmpty
<1> QED BY <1>2, <1>3, <1>4, <1>5, <1>6, <1>7, <1>8, <1>9 DEF Next, Worker

(* A COMMIT, whether it reports its success or not, is the abstract acceptance. *)
LEMMA PersistIsAccept ==
    ASSUME SafetyInv, CInv, PlanInv, reconcileFailed # "now", up, phase = "transaction", Persist,
           NEW command \in Commands, envelope.command = command
    PROVE  Log!Accept(command)
<1> DEFINE me == command.commandId
           verdict == [id \in CommandIds |-> receipts[id].status]
<1>1. /\ pending = <<>> /\ events' = events \o staged /\ projections' = stagedProjections
      /\ receipts' = [receipts EXCEPT ![me] = AcceptedReceipt]
  BY DEF Persist
<1>2. /\ me \in CommandIds /\ receipts \in [CommandIds -> Receipt] /\ staged \in Seq(Event)
      /\ receipts[me].status = "none"
  BY EnvelopeCommand DEF SafetyInv, TypeInv, TypeOK, Undecided, receipt
<1>3. verdict[me] = "none"
  BY <1>2
<1>4. staged \in Log!DecidePlans(projections, command)
  <2>1. staged \o pending = staged
    BY <1>1, <1>2, ConcatEmptySeq
  <2> QED BY <2>1, SamePlans DEF PlanInv, Planned
<1>5. projections' = Log!ApplyPlan(projections, staged)
  <2>1. Leads(projections, staged, projections.snapshotSequence, stagedProjections)
    BY DEF CInv, TablesStandAtTheEnd, MemoryFollows, Transacting
  <2> QED BY <1>1, <1>2, <2>1, ApplyPlanIsThePath
<1>6. verdict' = [verdict EXCEPT ![me] = "accepted"]
  <2>1. AcceptedReceipt.status = "accepted"
    BY DEF AcceptedReceipt
  <2>2. \A id \in CommandIds : receipts'[id] = IF id = me THEN AcceptedReceipt ELSE receipts[id]
    BY <1>1, <1>2
  <2> HIDE DEF me
  <2>3. \A id \in CommandIds :
          receipts'[id].status = IF id = me THEN "accepted" ELSE receipts[id].status
    BY <2>1, <2>2
  <2> QED BY <2>3
<1> QED BY <1>1, <1>3, <1>4, <1>5, <1>6 DEF Log!Accept

(* Recording a rejection is the abstract rejection; failing to is no step. *)
LEMMA FailRejectedIsReject ==
    ASSUME SafetyInv, FailRejected, NEW command \in Commands, envelope.command = command
    PROVE  Log!Reject(command) \/ UNCHANGED Log!logVars
<1> DEFINE me == command.commandId
           r == [status |-> "rejected", aggregate |-> CommandToAggregateRef(command),
                 resultSequence |-> commandReadModel.snapshotSequence]
           verdict == [id \in CommandIds |-> receipts[id].status]
<1>1. /\ phase = "settling" /\ error = Rejection
      /\ events' = events /\ projections' = projections
      /\ receipts' = receipts \/ receipts' = [receipts EXCEPT ![me] = r]
  BY DEF FailRejected, Resolve, IsRejection
<1>2. CASE receipts' = receipts
  BY <1>1, <1>2 DEF Log!logVars
<1>3. CASE receipts' = [receipts EXCEPT ![me] = r]
  <2>1. /\ me \in CommandIds /\ receipts \in [CommandIds -> Receipt]
        /\ receipts[me].status = "none"
    BY <1>1, EnvelopeCommand DEF SafetyInv, TypeInv, TypeOK, Undecided, receipt
  <2>2. verdict[me] = "none"
    BY <2>1
  <2>3. r.status = "rejected"
    OBVIOUS
  <2> HIDE DEF r
  <2>4. \A id \in CommandIds : receipts'[id] = IF id = me THEN r ELSE receipts[id]
    BY <1>3, <2>1
  <2>5. verdict' = [verdict EXCEPT ![me] = "rejected"]
    <3> HIDE DEF me
    <3>1. \A id \in CommandIds :
            receipts'[id].status = IF id = me THEN "rejected" ELSE receipts[id].status
      BY <2>3, <2>4
    <3> QED BY <3>1
  <2> QED BY <1>1, <2>2, <2>5 DEF Log!Reject
<1> QED BY <1>1, <1>2, <1>3

LEMMA StepRefines ==
    ASSUME SafetyInv, CInv, PlanInv, reconcileFailed # "now", [Next]_vars
    PROVE  [Log!LogNext]_(Log!logVars)
<1>1. ASSUME UNCHANGED <<events, projections, receipts>>
      PROVE  UNCHANGED Log!logVars
  BY <1>1 DEF Log!logVars
<1>2. ASSUME phase # "idle" PROVE \E command \in Commands : envelope.command = command
  BY <1>2, EnvelopeCommand DEF SafetyInv
<1>3. CASE Commit \/ CommitReportsFailure
  <2>1. up /\ phase = "transaction" /\ Persist
    BY <1>3 DEF Commit, CommitReportsFailure
  <2>2. PICK command \in Commands : envelope.command = command
    BY <1>2, <2>1
  <2>3. Log!Accept(command)
    BY <2>1, <2>2, PersistIsAccept
  <2> QED BY <2>3 DEF Log!LogNext
<1>4. CASE FailRejected
  <2>1. phase = "settling"
    BY <1>4 DEF FailRejected
  <2>2. PICK command \in Commands : envelope.command = command
    BY <1>2, <2>1
  <2>3. Log!Reject(command) \/ UNCHANGED Log!logVars
    BY <1>4, <2>2, FailRejectedIsReject
  <2> QED BY <2>3 DEF Log!LogNext
<1>5. CASE \E client \in Clients, command \in Commands : Dispatch(client, command)
  BY <1>1, <1>5 DEF Dispatch, durableVars
<1>6. CASE TakeCommand \/ AnswerFromReceipt \/ DecideAccepts \/ DecideRejects \/ AppendEvent
  BY <1>1, <1>6 DEF TakeCommand, AnswerFromReceipt, DecideAccepts, DecideRejects, AppendEvent,
                    durableVars
<1>7. CASE ReconcileRead \/ ReplayEvent \/ ReplayDone \/ PublishEvent \/ PublishDone
  BY <1>1, <1>7 DEF ReconcileRead, ReplayEvent, ReplayDone, PublishEvent, PublishDone, durableVars
<1>8. CASE Succeed \/ Fail
  BY <1>1, <1>8 DEF Succeed, Fail, Resolve
<1>9. CASE PreparationFails \/ StorageFails \/ ReconcileFails
  BY <1>1, <1>9 DEF PreparationFails, StorageFails, ReconcileFails, durableVars
<1>10. CASE Crash \/ Start \/ UNCHANGED vars
  BY <1>1, <1>10 DEF Crash, Start, vars, durableVars
<1> QED BY <1>3, <1>4, <1>5, <1>6, <1>7, <1>8, <1>9, <1>10 DEF Next, Worker, Faults

LEMMA InitRefines == Init => Log!LogInit
BY DEF Init, Log!LogInit, EmptyReadModel, Log!EmptyReadModel, NoReceipt

(* As long as no reconciliation fails, an accepted command was decided against *)
(* exactly the state of the log it is appended to, whatever else failed or      *)
(* crashed in between: every behaviour of the engine is one of the abstract log *)
(* (OrchestrationEngine.ts:242-319).                                         *)
THEOREM ReconciledEngineIsCommandLog ==
    Spec /\ [](reconcileFailed # "now") => ImplementsCommandLog
<1>1. Init => SafetyInv /\ PlanInv
  BY InitSafety DEF Init, PlanInv, Planned
<1>2. SafetyInv /\ [Next]_vars => SafetyInv'
  BY NextSafety
<1>3. TypeInv /\ CInv /\ PlanInv /\ [Next]_vars => PlanInv'
  BY NextPlanned
<1>4. SafetyInv /\ CInv /\ PlanInv /\ reconcileFailed # "now" /\ [Next]_vars
      => [Log!LogNext]_(Log!logVars)
  BY StepRefines
<1> QED BY <1>1, <1>2, <1>3, <1>4, Current, InitRefines, PTL
        DEF Spec, ImplementsCommandLog, Log!LogSpec

(* In particular when storage does not fail during a reconciliation. *)
THEOREM EngineIsCommandLog ==
    ASSUME ReconcileMayFail = FALSE
    PROVE  Spec => ImplementsCommandLog
<1>1. Init => reconcileFailed = "never"
  BY DEF Init
<1>2. ASSUME reconcileFailed = "never", [Next]_vars PROVE reconcileFailed' = "never"
  <2>1. ~ReconcileFails
    BY DEF ReconcileFails
  <2> QED BY <1>2, <2>1
          DEF Next, Dispatch, Worker, Faults, TakeCommand, AnswerFromReceipt, DecideAccepts,
              DecideRejects, AppendEvent, Commit, ReconcileRead, ReplayEvent, ReplayDone,
              PublishEvent, PublishDone, Succeed, FailRejected, Fail, Resolve, FailWith,
              PreparationFails, StorageFails, CommitReportsFailure, Crash, Start, vars
<1>3. reconcileFailed = "never" => reconcileFailed # "now"
  OBVIOUS
<1>4. (reconcileFailed = "never") /\ [Next]_vars => (reconcileFailed = "never")'
  BY <1>2
<1> QED BY <1>1, <1>3, <1>4, ReconciledEngineIsCommandLog, PTL DEF Spec
=============================================================================
