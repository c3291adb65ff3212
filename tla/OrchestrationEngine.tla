------------------------ MODULE OrchestrationEngine ------------------------
(***************************************************************************)
(* The command engine (orchestration/Layers/OrchestrationEngine.ts): one     *)
(* worker fiber takes commands from an unbounded queue, answers a repeated   *)
(* command from its receipt, decides a new one against the in-memory read    *)
(* model, and commits its events, their projections and the receipt in one   *)
(* SQLite transaction; then it publishes the events and resolves the          *)
(* caller's Deferred.  A failed dispatch makes the worker re-read the log     *)
(* from where the dispatch started and catch up.                             *)
(*                                                                         *)
(* Durable state: events, receipts, projections.  Everything else is lost    *)
(* when the process crashes, which it may do between any two steps.           *)
(* Storage may fail at every call; a COMMIT may also report failure after     *)
(* it took effect, the case the engine's reconciliation is written for.      *)
(*                                                                         *)
(* Abstractions: a sequence number is a position in the log (the              *)
(* AUTOINCREMENT counter rolls back with its transaction); the projectors'    *)
(* tables hold what the read model holds, and their cursors, committed        *)
(* together, are projections.snapshotSequence; attachment clean-ups,          *)
(* metrics and the origin stamp are left out.                                *)
(***************************************************************************)
EXTENDS OrchestrationDomain

CONSTANTS
    Clients,              \* callers of dispatch, one call in flight each
    Commands,             \* the commands they may send, and send again
    MaxDispatches,        \* bound: calls of dispatch
    MaxFaults,            \* bound: storage failures
    ReconcileMayFail,     \* whether a failure may hit the reconciliation too
    MaxCrashes            \* bound: crashes of the server

ASSUME EngineAssumption ==
    /\ \A c \in Commands : WellFormed(c)
    /\ ReconcileMayFail \in BOOLEAN
    /\ MaxDispatches \in Nat /\ MaxFaults \in Nat /\ MaxCrashes \in Nat

VARIABLES
    (* durable: the SQLite file *)
    events,               \* orchestration_events, in sequence order
    receipts,             \* orchestration_command_receipts by command id
    projections,          \* the projection tables and their cursors
    (* volatile: the server process *)
    up,                   \* the engine is started
    commandQueue,         \* envelopes offered and not taken
    commandReadModel,     \* the decider's read model
    eventPubSub,          \* events published since the engine started
    phase,                \* where the worker is in processEnvelope
    envelope,             \* the envelope being processed
    dispatchStartSequence,\* read-model sequence when processing began
    pending,              \* planned events not yet appended, or persisted ones to replay
    staged,               \* events of the open transaction, or to publish
    stagedReadModel,      \* nextCommandReadModel
    stagedProjections,    \* projection tables as the open transaction sees them
    error,                \* why the dispatch failed, NoError while it has not
    (* the callers *)
    answers,              \* per client: what its last dispatch came to
    (* bookkeeping of the model *)
    started,              \* log length when the engine started
    told,                 \* sequences clients were given for their command ids
    reconcileFailed,      \* whether a reconciliation failed in this process or before it
    dispatches, faults, crashes

durableVars  == <<events, receipts, projections>>
stagingVars  == <<pending, staged, stagedReadModel, stagedProjections>>
workerVars   == <<phase, envelope, dispatchStartSequence, stagingVars, error>>
boundVars    == <<dispatches, faults, crashes>>
vars == <<durableVars, up, commandQueue, commandReadModel, eventPubSub, workerVars,
          answers, started, told, reconcileFailed, boundVars>>

Phases == {"idle", "taken", "transaction", "failed", "replaying", "publishing", "settling"}
NoError == "none"
Rejection == "rejection"                     \* OrchestrationCommandRejection
PreviouslyRejected == "previously-rejected"
IdConflict == "id-conflict"
StorageError == "storage"
Errors == {NoError, Rejection, PreviouslyRejected, IdConflict, StorageError}

Envelope == [client : Clients, command : Commands]
NoReceipt == [status |-> "none", aggregate |-> None, resultSequence |-> 0]
Receipt ==
    [status : {"none", "accepted", "rejected"}, aggregate : Aggregates \cup {None},
     resultSequence : Nat]

Init ==
    /\ events = <<>>
    /\ receipts = [id \in CommandIds |-> NoReceipt]
    /\ projections = EmptyReadModel
    /\ up = TRUE
    /\ commandQueue = <<>>
    /\ commandReadModel = EmptyReadModel
    /\ eventPubSub = <<>>
    /\ phase = "idle"
    /\ envelope = None
    /\ dispatchStartSequence = 0
    /\ pending = <<>>
    /\ staged = <<>>
    /\ stagedReadModel = EmptyReadModel
    /\ stagedProjections = EmptyReadModel
    /\ error = NoError
    /\ answers = [c \in Clients |-> "none"]
    /\ started = 0
    /\ told = {}
    /\ reconcileFailed = "never"
    /\ dispatches = 0 /\ faults = 0 /\ crashes = 0

---------------------------------------------------------------------------
(* The callers.                                                             *)

\* dispatch: offer an envelope and await its Deferred.  A client sends any
\* command, in particular one whose answer it lost or did not like.
Dispatch(client, command) ==
    /\ up
    /\ answers[client] # "awaited"
    /\ dispatches < MaxDispatches
    /\ commandQueue' = Append(commandQueue, [client |-> client, command |-> command])
    /\ answers' = [answers EXCEPT ![client] = "awaited"]
    /\ dispatches' = dispatches + 1
    /\ UNCHANGED <<durableVars, up, commandReadModel, eventPubSub, workerVars, started, told,
                   reconcileFailed, faults, crashes>>

---------------------------------------------------------------------------
(* The worker: processEnvelope.                                             *)

\* A plausible slip: the receipt is not looked up.
ReceiptNotLookedUp == NoReceipt

\* commandReceiptRepository.getByCommandId.
receipt == receipts[envelope.command.commandId]

\* Queue.take, and the start of processEnvelope.
TakeCommand ==
    /\ up /\ phase = "idle"
    /\ commandQueue # <<>>
    /\ envelope' = Head(commandQueue)
    /\ commandQueue' = Tail(commandQueue)
    /\ dispatchStartSequence' = commandReadModel.snapshotSequence
    /\ phase' = "taken"
    /\ UNCHANGED <<durableVars, up, commandReadModel, eventPubSub, stagingVars, error, answers,
                   started, told, reconcileFailed, boundVars>>

\* The dispatch fails with e; the transaction it may have open rolls back.
FailWith(e) ==
    /\ error' = e
    /\ phase' = IF e \in {PreviouslyRejected, IdConflict} THEN "settling" ELSE "failed"
    /\ pending' = <<>> /\ staged' = <<>>
    /\ UNCHANGED <<up, commandQueue, commandReadModel, eventPubSub, envelope,
                   dispatchStartSequence, stagedReadModel, stagedProjections, answers, started,
                   told, reconcileFailed, dispatches, crashes>>

\* A receipt proves this exact command was handled: replay its verdict, or
\* refuse the id when the receipt is of a command on another aggregate.
AnswerFromReceipt ==
    /\ up /\ phase = "taken"
    /\ receipt.status # "none"
    /\ UNCHANGED <<durableVars, faults>>
    /\ CASE receipt.aggregate # CommandToAggregateRef(envelope.command) -> FailWith(IdConflict)
         [] receipt.aggregate = CommandToAggregateRef(envelope.command)
              /\ receipt.status = "rejected" -> FailWith(PreviouslyRejected)
         [] OTHER ->
              /\ phase' = "settling"
              /\ UNCHANGED <<up, commandQueue, commandReadModel, eventPubSub, envelope,
                             dispatchStartSequence, stagingVars, error, answers, started, told,
                             reconcileFailed, dispatches, crashes>>

\* decideOrchestrationCommand accepts: the transaction opens on its plan.
DecideAccepts ==
    /\ up /\ phase = "taken"
    /\ receipt.status = "none"
    /\ \E plan \in DecidePlans(commandReadModel, envelope.command) : pending' = plan
    /\ staged' = <<>>
    /\ stagedReadModel' = commandReadModel
    /\ stagedProjections' = projections
    /\ phase' = "transaction"
    /\ UNCHANGED <<durableVars, up, commandQueue, commandReadModel, eventPubSub, envelope,
                   dispatchStartSequence, error, answers, started, told, reconcileFailed,
                   boundVars>>

\* decideOrchestrationCommand rejects.
DecideRejects ==
    /\ up /\ phase = "taken"
    /\ receipt.status = "none"
    /\ DecidePlans(commandReadModel, envelope.command) = {}
    /\ FailWith(Rejection)
    /\ UNCHANGED <<durableVars, faults>>

\* Resolving the thread's agent or drawing an event id fails; the engine wraps
\* either failure in an OrchestrationCommandInvariantError, a rejection.
PreparationFails ==
    /\ up /\ phase = "taken"
    /\ receipt.status = "none"
    /\ faults < MaxFaults
    /\ FailWith(Rejection)
    /\ faults' = faults + 1
    /\ UNCHANGED durableVars

\* One turn of the transaction's loop: append, project in memory, project in SQL.
AppendEvent ==
    /\ up /\ phase = "transaction"
    /\ pending # <<>>
    /\ LET sequence == Len(events) + Len(staged) + 1
       IN  /\ staged' = Append(staged, Head(pending))
           /\ pending' = Tail(pending)
           /\ stagedReadModel' = ProjectEvent(stagedReadModel, Head(pending), sequence)
           /\ stagedProjections' = ProjectEvent(stagedProjections, Head(pending), sequence)
    /\ UNCHANGED <<durableVars, up, commandQueue, commandReadModel, eventPubSub, phase, envelope,
                   dispatchStartSequence, error, answers, started, told, reconcileFailed,
                   boundVars>>

\* Plausible slips: the receipt has the transaction's first sequence, or the
\* read model's, which the worker swaps in only later.
ReceiptOfFirstEvent ==
    [status |-> "accepted", aggregate |-> staged[Len(staged)].aggregate,
     resultSequence |-> Len(events) + 1]
ReceiptOfReadModel ==
    [status |-> "accepted", aggregate |-> staged[Len(staged)].aggregate,
     resultSequence |-> commandReadModel.snapshotSequence]

\* The receipt carries the last event's aggregate and sequence.
AcceptedReceipt ==
    [status |-> "accepted", aggregate |-> staged[Len(staged)].aggregate,
     resultSequence |-> Len(events) + Len(staged)]

\* What COMMIT makes durable: the events, their projections and the receipt.
Persist ==
    /\ pending = <<>> /\ staged # <<>>
    /\ events' = events \o staged
    /\ projections' = stagedProjections
    /\ receipts' = [receipts EXCEPT ![envelope.command.commandId] = AcceptedReceipt]

\* The transaction commits; the worker swaps its read model in and will publish.
Commit ==
    /\ up /\ phase = "transaction"
    /\ Persist
    /\ commandReadModel' = stagedReadModel
    /\ phase' = "publishing"
    /\ UNCHANGED <<up, commandQueue, eventPubSub, envelope, dispatchStartSequence, stagingVars,
                   error, answers, started, told, reconcileFailed, boundVars>>

\* A storage call fails: the receipt look-up, a statement of the transaction
\* or its COMMIT, without effect.
StorageFails ==
    /\ up /\ phase \in {"taken", "transaction"}
    /\ faults < MaxFaults
    /\ FailWith(StorageError)
    /\ faults' = faults + 1
    /\ UNCHANGED durableVars

\* COMMIT takes effect and reports failure.
CommitReportsFailure ==
    /\ up /\ phase = "transaction"
    /\ faults < MaxFaults
    /\ Persist
    /\ FailWith(StorageError)
    /\ faults' = faults + 1

\* Plausible slips: nothing is re-read, or the read includes its lower bound.
NothingReRead(sequence) == <<>>
PersistedFrom(sequence) ==
    SubSeq(events, IF sequence = 0 THEN 1 ELSE sequence, Len(events))

\* eventStore.readFromSequence(sequenceExclusive).
ReadFromSequence(sequence) == SubSeq(events, sequence + 1, Len(events))

\* reconcileReadModelAfterDispatchFailure: read what is persisted after the
\* dispatch began.
ReconcileRead ==
    /\ up /\ phase = "failed"
    /\ pending' = ReadFromSequence(dispatchStartSequence)
    /\ staged' = <<>>
    /\ stagedReadModel' = commandReadModel
    /\ phase' = "replaying"
    /\ UNCHANGED <<durableVars, up, commandQueue, commandReadModel, eventPubSub, envelope,
                   dispatchStartSequence, stagedProjections, error, answers, started, told,
                   reconcileFailed, boundVars>>

\* The read fails; the engine logs a warning and goes on.
ReconcileFails ==
    /\ up /\ phase = "failed"
    /\ ReconcileMayFail /\ faults < MaxFaults
    /\ reconcileFailed' = "now"
    /\ faults' = faults + 1
    /\ phase' = "settling"
    /\ UNCHANGED <<durableVars, up, commandQueue, commandReadModel, eventPubSub, envelope,
                   dispatchStartSequence, stagingVars, error, answers, started, told,
                   dispatches, crashes>>

\* projectEventsOntoReadModel, one persisted event at a time.
ReplayEvent ==
    /\ up /\ phase = "replaying"
    /\ pending # <<>>
    /\ stagedReadModel' = ProjectEvent(stagedReadModel, Head(pending),
                                       dispatchStartSequence + Len(staged) + 1)
    /\ staged' = Append(staged, Head(pending))
    /\ pending' = Tail(pending)
    /\ UNCHANGED <<durableVars, up, commandQueue, commandReadModel, eventPubSub, phase, envelope,
                   dispatchStartSequence, stagedProjections, error, answers, started, told,
                   reconcileFailed, boundVars>>

ReplayDone ==
    /\ up /\ phase = "replaying"
    /\ pending = <<>>
    /\ commandReadModel' = stagedReadModel
    /\ phase' = "publishing"
    /\ UNCHANGED <<durableVars, up, commandQueue, eventPubSub, envelope, dispatchStartSequence,
                   stagingVars, error, answers, started, told, reconcileFailed, boundVars>>

\* PubSub.publish of the next event.
PublishEvent ==
    /\ up /\ phase = "publishing"
    /\ staged # <<>>
    /\ eventPubSub' = Append(eventPubSub, Head(staged))
    /\ staged' = Tail(staged)
    /\ UNCHANGED <<durableVars, up, commandQueue, commandReadModel, phase, envelope,
                   dispatchStartSequence, pending, stagedReadModel, stagedProjections, error,
                   answers, started, told, reconcileFailed, boundVars>>

PublishDone ==
    /\ up /\ phase = "publishing"
    /\ staged = <<>>
    /\ phase' = "settling"
    /\ UNCHANGED <<durableVars, up, commandQueue, commandReadModel, eventPubSub, envelope,
                   dispatchStartSequence, stagingVars, error, answers, started, told,
                   reconcileFailed, boundVars>>

\* A plausible slip: the Deferred of a failed dispatch is never settled.
SettleSuccessOnly(answer) ==
    answers' = IF answer = "failed" THEN answers ELSE [answers EXCEPT ![envelope.client] = answer]

\* Deferred.succeed and Deferred.fail.
SettleDeferred(answer) == answers' = [answers EXCEPT ![envelope.client] = answer]

\* The caller's Deferred is resolved and the worker goes back to its queue.
Resolve(answer) ==
    /\ SettleDeferred(answer)
    /\ phase' = "idle"
    /\ envelope' = None
    /\ dispatchStartSequence' = 0
    /\ pending' = <<>> /\ staged' = <<>>
    /\ stagedReadModel' = EmptyReadModel /\ stagedProjections' = EmptyReadModel
    /\ error' = NoError
    /\ UNCHANGED <<events, projections, up, commandQueue, commandReadModel, eventPubSub, started,
                   reconcileFailed, dispatches, crashes>>

\* Deferred.succeed with the sequence the receipt holds.
Succeed ==
    /\ up /\ phase = "settling" /\ error = NoError
    /\ Resolve("accepted")
    /\ told' = told \cup {<<envelope.command.commandId, receipt.resultSequence>>}
    /\ UNCHANGED <<receipts, faults>>

\* A plausible slip: every failure is taken for a rejection.
IsAnyFailure(e) == e # NoError

\* isOrchestrationCommandRejection.
IsRejection(e) == e = Rejection

\* A rejection is recorded before the caller hears of it; a failure to record
\* it is swallowed.
FailRejected ==
    /\ up /\ phase = "settling" /\ IsRejection(error)
    /\ Resolve("failed")
    /\ \/ /\ receipts' = [receipts EXCEPT ![envelope.command.commandId] =
                            [status |-> "rejected",
                             aggregate |-> CommandToAggregateRef(envelope.command),
                             resultSequence |-> commandReadModel.snapshotSequence]]
          /\ UNCHANGED faults
       \/ /\ faults < MaxFaults
          /\ faults' = faults + 1
          /\ UNCHANGED receipts
    /\ UNCHANGED told

Fail ==
    /\ up /\ phase = "settling" /\ error # NoError /\ ~IsRejection(error)
    /\ Resolve("failed")
    /\ UNCHANGED <<receipts, told, faults>>

---------------------------------------------------------------------------
(* The process.                                                             *)

\* Everything in memory is gone; callers lose their connection.
Crash ==
    /\ up
    /\ crashes < MaxCrashes
    /\ crashes' = crashes + 1
    /\ up' = FALSE
    /\ commandQueue' = <<>>
    /\ commandReadModel' = EmptyReadModel
    /\ eventPubSub' = <<>>
    /\ phase' = "idle"
    /\ envelope' = None
    /\ dispatchStartSequence' = 0
    /\ pending' = <<>> /\ staged' = <<>>
    /\ stagedReadModel' = EmptyReadModel /\ stagedProjections' = EmptyReadModel
    /\ error' = NoError
    /\ answers' = [c \in Clients |-> IF answers[c] = "awaited" THEN "lost" ELSE answers[c]]
    /\ UNCHANGED <<durableVars, started, told, reconcileFailed, dispatches, faults>>

\* projectionPipeline.bootstrap (a no-op here: the cursors committed with the
\* events) and getCommandReadModel.
Start ==
    /\ ~up
    /\ up' = TRUE
    /\ commandReadModel' = projections
    /\ started' = Len(events)
    /\ reconcileFailed' = IF reconcileFailed = "now" THEN "before" ELSE reconcileFailed
    /\ UNCHANGED <<durableVars, commandQueue, eventPubSub, workerVars, answers, told, boundVars>>

Worker ==
    \/ TakeCommand \/ AnswerFromReceipt \/ DecideAccepts \/ DecideRejects \/ AppendEvent
    \/ Commit \/ ReconcileRead \/ ReplayEvent \/ ReplayDone \/ PublishEvent \/ PublishDone
    \/ Succeed \/ FailRejected \/ Fail

Faults == PreparationFails \/ StorageFails \/ CommitReportsFailure \/ ReconcileFails

\* The engine rests until someone dispatches.
AtRest == up /\ phase = "idle" /\ commandQueue = <<>>

Next ==
    \/ \E client \in Clients, command \in Commands : Dispatch(client, command)
    \/ Worker
    \/ Faults
    \/ Crash
    \/ Start
    \/ AtRest /\ UNCHANGED vars

Spec == Init /\ [][Next]_vars

\* The worker fiber is never abandoned while its process lives.
FairSpec == Spec /\ WF_vars(Worker)

---------------------------------------------------------------------------
(* Properties.                                                              *)

TypeOK ==
    /\ events \in Seq(Event)
    /\ receipts \in [CommandIds -> Receipt]
    /\ projections \in ReadModel
    /\ up \in BOOLEAN
    /\ commandQueue \in Seq(Envelope)
    /\ commandReadModel \in ReadModel
    /\ eventPubSub \in Seq(Event)
    /\ phase \in Phases
    /\ envelope \in Envelope \cup {None}
    /\ dispatchStartSequence \in Nat
    /\ pending \in Seq(Event) /\ staged \in Seq(Event)
    /\ stagedReadModel \in ReadModel /\ stagedProjections \in ReadModel
    /\ error \in Errors
    /\ answers \in [Clients -> {"none", "awaited", "accepted", "failed", "lost"}]
    /\ started \in Nat
    /\ told \subseteq CommandIds \X Nat
    /\ reconcileFailed \in {"never", "now", "before"}
    /\ dispatches \in Nat /\ faults \in Nat /\ crashes \in Nat

\* Where the events of a command stand in the log.
EventsOf(id) == {i \in 1..Len(events) : events[i].commandId = id}

\* A command takes effect whole or not at all: its id has an accepted receipt
\* exactly when the log holds events of it, and the receipt's sequence and
\* aggregate are those of the last of them (the transaction at 270-317, and
\* the rejected receipt at 389-401, which must never land on a command whose
\* events an ambiguous COMMIT kept).
ReceiptsMatchLog ==
    \A id \in CommandIds :
        IF receipts[id].status = "accepted"
        THEN LET last == receipts[id].resultSequence
             IN  /\ last \in EventsOf(id)
                 /\ \A i \in EventsOf(id) : i <= last
                 /\ events[last].aggregate = receipts[id].aggregate
        ELSE EventsOf(id) = {}

\* Once a command id has a verdict, no retry, crash or ambiguous COMMIT changes
\* the verdict or adds another event under that id (the look-up at 145-173 and
\* the guards of the failure path at 371-404).
VerdictsAreFinal ==
    [][\A id \in CommandIds : receipts[id].status # "none" =>
          /\ receipts'[id] = receipts[id]
          /\ \A i \in (Len(events) + 1)..Len(events') : events'[i].commandId # id]_vars

\* A sequence a caller was given names an event of its own command, whatever
\* crashed or failed since (366-368).
AcknowledgedIsDurable ==
    \A a \in told : a[2] \in 1..Len(events) /\ events[a[2]].commandId = a[1]

\* Between two commands the decider's read model is what the projections say
\* and stands at the end of the log, unless a reconciliation failed (319,
\* 120-133): no command is decided against a state the log has left behind.
ReadModelIsCurrent ==
    up /\ phase \in {"idle", "taken"} /\ reconcileFailed # "now" =>
        /\ commandReadModel = projections
        /\ commandReadModel.snapshotSequence = Len(events)

\* Subscribers see the log from where the engine started, in order, each event
\* once, and all of it when the worker rests, unless a reconciliation failed:
\* the success path (323-337) and the failure path (131-133) never both
\* publish an event, and never neither.
PublishedIsTheLog ==
    up /\ reconcileFailed # "now" =>
        /\ started + Len(eventPubSub) <= Len(events)
        /\ eventPubSub = SubSeq(events, started + 1, started + Len(eventPubSub))
        /\ phase = "idle" => started + Len(eventPubSub) = Len(events)

\* At most one live project has a given workspace root
\* (requireActiveProjectWorkspaceRootAbsent, commandInvariants.ts 75-98): the
\* check reads memory and the insert happens later, so it needs the read model
\* to be current whenever a command is decided, that is, no failed
\* reconciliation ever.
OneLiveProjectPerRoot ==
    reconcileFailed = "never" =>
        \A p, q \in Projects :
            /\ LiveProject(projections, p) /\ LiveProject(projections, q)
            /\ projections.projects[p].root = projections.projects[q].root
            => p = q

\* The engine implements the abstract command log, faults and crashes
\* included, as long as every reconciliation succeeds: an accepted command was
\* decided against exactly the state of the log it is appended to (242-319).
Log == INSTANCE CommandLog WITH log <- events, state <- projections,
                                verdicts <- [id \in CommandIds |-> receipts[id].status]
ImplementsCommandLog == Log!LogSpec

\* Every dispatch is answered, or its caller learns that the server went away
\* (the worker settles the Deferred on every path, 345-404).
EveryDispatchAnswered ==
    \A c \in Clients : answers[c] = "awaited" ~> answers[c] # "awaited"
=============================================================================
