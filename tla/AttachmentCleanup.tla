-------------------------- MODULE AttachmentCleanup --------------------------
(***************************************************************************)
(* The files attached to messages and to answers of a thread: who copies     *)
(* them in, who removes them, and how the projection pipeline catches up      *)
(* after a crash (orchestration/Layers/ProjectionPipeline.ts, Normalizer.ts). *)
(*                                                                         *)
(* A request copies an upload to a fresh file of the thread before its        *)
(* command is queued, and removes the copy if the command is answered with    *)
(* a failure.  When a thread is reverted the pipeline removes the thread's    *)
(* files that no message or answer refers to any more; when it is deleted,    *)
(* all of them.  This happens after the transaction has committed, and again   *)
(* at the next start for every event past the clean-up cursor, once every     *)
(* projector has caught up with the log.                                     *)
(*                                                                         *)
(* Abstractions: of the projectors the two that hold references are here, a   *)
(* reference being a file and the turn it belongs to; a revert keeps the      *)
(* turns up to a number, which is what the retain functions compute from the  *)
(* turns table.  A file is an upload claimed once; inline images, which have  *)
(* no copy to fall back on, differ in that no failure removes them.           *)
(***************************************************************************)
EXTENDS Naturals, Sequences, FiniteSets, SequencesExt

CONSTANTS
    Threads,
    Files,           \* fresh attachment ids, each of one claim
    MaxEvents,       \* bound: events in the log
    MaxFaults,       \* bound: failed clean-ups, failed or ambiguous commands
    MaxCrashes       \* bound: crashes

ASSUME CleanupAssumption ==
    /\ IsFiniteSet(Threads) /\ Cardinality(Threads) <= MaxEvents
    /\ MaxEvents \in Nat /\ MaxFaults \in Nat /\ MaxCrashes \in Nat

Projectors == {"messages", "activities"}

\* In the pipeline's order.
ProjectorOrder == <<"messages", "activities">>

VARIABLES
    (* the database *)
    log,             \* committed events
    tables,          \* per projector and thread: its references
    cursors,         \* per projector: lastAppliedSequence
    cleanupCursor,   \* of projection.attachment-cleanup
    (* the attachments directory *)
    disk,
    (* the server *)
    process,         \* "down", "replaying", "cleaning" or "running"
    pendingCleanup,  \* start: sequences whose clean-up is to be done
    cleanup,         \* the clean-up under way
    (* the requests, one per file *)
    claims,
    (* bookkeeping *)
    faults, crashes

dbVars == <<log, tables, cursors, cleanupCursor>>
vars == <<dbVars, disk, process, pendingCleanup, cleanup, claims, faults, crashes>>

EventTypes == {"thread.created", "thread.deleted", "thread.reverted", "messages", "activities"}
NoFile == "none"

\* A message or an answer is named by the projector that keeps its reference.
Event == [type : EventTypes, thread : Threads, file : Files \cup {NoFile}, turn : 0..MaxEvents]

ClaimStatus == {"unused", "claimed", "committed", "failed", "over"}
Claim == [status : ClaimStatus, thread : Threads \cup {"none"}, at : 0..MaxEvents]

NoCleanup == [stage |-> "none", sequence |-> 0, kept |-> {}, entries |-> {}]

\* Every thread has been created once.
Init ==
    /\ \E order \in SetToSeqs(Threads) :
         log = [i \in 1..Len(order) |->
                  [type |-> "thread.created", thread |-> order[i], file |-> NoFile, turn |-> 0]]
    /\ tables = [p \in Projectors |-> [t \in Threads |-> {}]]
    /\ cursors = [p \in Projectors |-> Len(log)]
    /\ cleanupCursor = 0
    /\ disk = {}
    /\ process = "running"
    /\ pendingCleanup = {}
    /\ cleanup = NoCleanup
    /\ claims = [f \in Files |-> [status |-> "unused", thread |-> "none", at |-> 0]]
    /\ faults = 0 /\ crashes = 0

---------------------------------------------------------------------------
(* The projectors.                                                          *)

\* retainProjectionMessagesAfterRevert and its counterpart for activities.
RetainedAfterRevert(rows, turnCount) == {r \in rows : r.turn <= turnCount}

\* What an event makes of a projector's references.
Project(p, table, e) ==
    CASE e.type = "thread.created" -> [table EXCEPT ![e.thread] = {}]
      [] e.type = p ->
           [table EXCEPT ![e.thread] = @ \cup {[file |-> e.file, turn |-> e.turn]}]
      [] e.type = "thread.reverted" ->
           [table EXCEPT ![e.thread] = RetainedAfterRevert(@, e.turn)]
      [] OTHER -> table

ProjectAll(e) == [p \in Projectors |-> Project(p, tables[p], e)]

FilesOf(someTables, t) == {r.file : r \in UNION {someTables[p][t] : p \in Projectors}}

\* What the log says, whatever the tables hold.
TableAt(p, n) ==
    LET after[i \in 0..n] ==
          IF i = 0 THEN [t \in Threads |-> {}] ELSE Project(p, after[i - 1], log[i])
    IN  after[n]

TablesAt(n) == [p \in Projectors |-> TableAt(p, n)]
ReferencedAt(n, t) == FilesOf(TablesAt(n), t)

LastOf(type, t) ==
    Max({0} \cup {i \in 1..Len(log) : log[i].thread = t /\ log[i].type = type})

Live(t) == LastOf("thread.created", t) > LastOf("thread.deleted", t)

\* Turns the thread has now: one per message.
TurnCount(t) == Cardinality(TablesAt(Len(log))["messages"][t])

---------------------------------------------------------------------------
(* The requests.                                                            *)

\* normalizeDispatchCommand copies the upload to a file of the thread.
ClaimFile(f, t) ==
    /\ process = "running"
    /\ claims[f].status = "unused"
    /\ claims' = [claims EXCEPT ![f] = [status |-> "claimed", thread |-> t, at |-> Len(log)]]
    /\ disk' = disk \cup {f}
    /\ UNCHANGED <<dbVars, process, pendingCleanup, cleanup, faults, crashes>>

\* cleanupFailedUploadedAttachments, after a failed answer.
RemoveClaim(f) ==
    /\ process = "running"
    /\ claims[f].status = "failed"
    /\ claims' = [claims EXCEPT ![f].status = "over"]
    /\ disk' = disk \ {f}
    /\ UNCHANGED <<dbVars, process, pendingCleanup, cleanup, faults, crashes>>

---------------------------------------------------------------------------
(* The engine: one command at a time, its clean-up before the next.         *)

Ready == process = "running" /\ cleanup = NoCleanup /\ Len(log) < MaxEvents

\* One transaction appends the event and moves every table and cursor.
AppendEvent(e) ==
    /\ log' = Append(log, e)
    /\ tables' = ProjectAll(e)
    /\ cursors' = [p \in Projectors |-> Len(log) + 1]
    /\ UNCHANGED <<cleanupCursor, disk, process, pendingCleanup, crashes>>

\* The command of a claim commits.  Its answer may report failure all the
\* same, the commit being ambiguous.
CommitClaim(f, kind) ==
    /\ Ready
    /\ claims[f].status = "claimed"
    /\ LET t == claims[f].thread
           turn == IF kind = "messages" THEN TurnCount(t) + 1 ELSE TurnCount(t)
       IN  /\ kind = "activities" => Live(t) /\ turn > 0
           /\ AppendEvent([type |-> kind, thread |-> t, file |-> f, turn |-> turn])
    /\ \/ /\ claims' = [claims EXCEPT ![f].status = "committed"]
          /\ UNCHANGED faults
       \/ /\ faults < MaxFaults /\ faults' = faults + 1
          /\ claims' = [claims EXCEPT ![f].status = "failed"]
    /\ UNCHANGED cleanup

\* It is rejected, or storage fails.
RefuseClaim(f) ==
    /\ Ready
    /\ claims[f].status = "claimed"
    /\ faults < MaxFaults /\ faults' = faults + 1
    /\ claims' = [claims EXCEPT ![f].status = "failed"]
    /\ UNCHANGED <<dbVars, disk, process, pendingCleanup, cleanup, crashes>>

\* thread.create, thread.delete and thread.revert.complete.  If the commit is
\* ambiguous the deferred clean-up is lost.
CommitThreadEvent(e, dropsReferences) ==
    /\ Ready
    /\ AppendEvent(e)
    /\ \/ /\ cleanup' = IF dropsReferences
                        THEN [NoCleanup EXCEPT !.stage = "read", !.sequence = Len(log) + 1]
                        ELSE NoCleanup
          /\ UNCHANGED faults
       \/ /\ dropsReferences
          /\ faults < MaxFaults /\ faults' = faults + 1
          /\ UNCHANGED cleanup
    /\ UNCHANGED claims

ThreadEvent(type, t, turn) == [type |-> type, thread |-> t, file |-> NoFile, turn |-> turn]

Create(t) == ~Live(t) /\ CommitThreadEvent(ThreadEvent("thread.created", t, 0), FALSE)
Delete(t) == CommitThreadEvent(ThreadEvent("thread.deleted", t, 0), TRUE)

\* Only a projector that drops rows asks for the clean-up.
Revert(t) ==
    \E keep \in 0..TurnCount(t) :
        LET e == ThreadEvent("thread.reverted", t, keep)
        IN  CommitThreadEvent(e, ProjectAll(e) # tables)

---------------------------------------------------------------------------
(* A clean-up: applyAttachmentSideEffects and runAttachmentSideEffects.      *)

event == log[cleanup.sequence]

\* Plausible slip: a deletion does not ask whether the thread was created again.
NeverRecreated(t, sequence) == FALSE

\* The paths a revert keeps, from both tables.
RetainedPaths(t) == FilesOf(tables, t)

\* eventStore.hasEventAfter(thread.created).
RecreatedLater(t, sequence) == LastOf("thread.created", t) > sequence

\* What is kept is read first ...
ReadReferences ==
    /\ cleanup.stage = "read"
    /\ cleanup' =
         IF event.type = "thread.deleted"
         THEN [cleanup EXCEPT !.stage = IF RecreatedLater(event.thread, cleanup.sequence)
                                        THEN "remove" ELSE "list"]
         ELSE [cleanup EXCEPT !.stage = "list", !.kept = RetainedPaths(event.thread)]
    /\ UNCHANGED <<dbVars, disk, process, pendingCleanup, claims, faults, crashes>>

\* ... then the directory, the thread's files in it ...
ListDirectory ==
    /\ cleanup.stage = "list"
    /\ cleanup' = [cleanup EXCEPT !.stage = "remove",
                     !.entries = {f \in disk : claims[f].thread = event.thread} \ cleanup.kept]
    /\ UNCHANGED <<dbVars, disk, process, pendingCleanup, claims, faults, crashes>>

\* ... which go one by one.
RemoveEntry(f) ==
    /\ cleanup.stage = "remove" /\ f \in cleanup.entries
    /\ disk' = disk \ {f}
    /\ cleanup' = [cleanup EXCEPT !.entries = @ \ {f}]
    /\ UNCHANGED <<dbVars, process, pendingCleanup, claims, faults, crashes>>

CleanupEnds ==
    /\ cleanup.stage = "remove" /\ cleanup.entries = {}
    /\ cleanup' = NoCleanup
    /\ UNCHANGED <<dbVars, disk, process, pendingCleanup, claims, faults, crashes>>

\* A plausible slip: a failed clean-up is passed over.
PassOver == UNCHANGED <<process, pendingCleanup>>

\* At start a failed clean-up ends the catching up, the cursor left behind.
StopCatchingUp ==
    /\ process' = "running"
    /\ pendingCleanup' = {}

\* A query or a file operation fails; it is logged.
CleanupFails ==
    /\ cleanup # NoCleanup
    /\ faults < MaxFaults /\ faults' = faults + 1
    /\ cleanup' = NoCleanup
    /\ IF process = "cleaning" THEN StopCatchingUp ELSE UNCHANGED <<process, pendingCleanup>>
    /\ UNCHANGED <<dbVars, disk, claims, crashes>>

---------------------------------------------------------------------------
(* The process.                                                             *)

Crash ==
    /\ process # "down"
    /\ crashes < MaxCrashes /\ crashes' = crashes + 1
    /\ process' = "down"
    /\ pendingCleanup' = {}
    /\ cleanup' = NoCleanup
    /\ claims' = [f \in Files |->
                    IF claims[f].status \in {"claimed", "failed"}
                    THEN [claims[f] EXCEPT !.status = "over"] ELSE claims[f]]
    /\ UNCHANGED <<dbVars, disk, faults>>

\* The boundary persisted before replay.
CleanupStart(c) == Min({cleanupCursor, c["messages"], c["activities"]})

\* bootstrap begins.  A release may have reset a projector's cursor.
Start ==
    /\ process = "down"
    /\ process' = "replaying"
    /\ cursors' \in {cursors} \cup {[cursors EXCEPT ![p] = 0] : p \in Projectors}
    /\ cleanupCursor' = CleanupStart(cursors')
    /\ UNCHANGED <<log, tables, disk, pendingCleanup, cleanup, claims, faults, crashes>>

\* runProjectorForEvent: the next event of the first projector that is behind.
ReplayNext ==
    /\ process = "replaying"
    /\ \E i \in 1..Len(ProjectorOrder) :
         LET p == ProjectorOrder[i]
             next == cursors[p] + 1
         IN  /\ cursors[p] < Len(log)
             /\ \A j \in 1..(i - 1) : cursors[ProjectorOrder[j]] = Len(log)
             /\ tables' = [tables EXCEPT ![p] = Project(p, @, log[next])]
             /\ cursors' = [cursors EXCEPT ![p] = next]
    /\ UNCHANGED <<log, cleanupCursor, disk, process, pendingCleanup, cleanup, claims, faults,
                   crashes>>

\* The last revert and the last deletion of every thread past the cursor.
CollectCleanups ==
    /\ process = "replaying"
    /\ \A p \in Projectors : cursors[p] = Len(log)
    /\ pendingCleanup' =
         {i \in (cleanupCursor + 1)..Len(log) :
            /\ log[i].type \in {"thread.reverted", "thread.deleted"}
            /\ i = LastOf(log[i].type, log[i].thread)}
    /\ process' = "cleaning"
    /\ UNCHANGED <<dbVars, disk, cleanup, claims, faults, crashes>>

\* The code takes them in the order of first occurrence; any order will do.
NextCleanup ==
    /\ process = "cleaning" /\ cleanup = NoCleanup
    /\ \E i \in pendingCleanup :
         /\ cleanup' = [NoCleanup EXCEPT !.stage = "read", !.sequence = i]
         /\ pendingCleanup' = pendingCleanup \ {i}
    /\ UNCHANGED <<dbVars, disk, process, claims, faults, crashes>>

CaughtUp ==
    /\ process = "cleaning" /\ cleanup = NoCleanup /\ pendingCleanup = {}
    /\ cleanupCursor' = Len(log)
    /\ process' = "running"
    /\ UNCHANGED <<log, tables, cursors, disk, pendingCleanup, cleanup, claims, faults, crashes>>

---------------------------------------------------------------------------
Requests ==
    \E f \in Files :
        \/ \E t \in Threads : ClaimFile(f, t)
        \/ RemoveClaim(f)
        \/ \E kind \in Projectors : CommitClaim(f, kind)
        \/ RefuseClaim(f)

ThreadCommands == \E t \in Threads : Create(t) \/ Delete(t) \/ Revert(t)

Cleanup ==
    \/ ReadReferences \/ ListDirectory \/ CleanupEnds \/ CleanupFails
    \/ \E f \in Files : RemoveEntry(f)

Bootstrap == Start \/ ReplayNext \/ CollectCleanups \/ NextCleanup \/ CaughtUp

\* The bounds are used up and the server rests.
Idle == process = "running" /\ cleanup = NoCleanup /\ UNCHANGED vars

Next == Requests \/ ThreadCommands \/ Cleanup \/ Bootstrap \/ Crash \/ Idle

Spec == Init /\ [][Next]_vars

---------------------------------------------------------------------------
(* Properties.                                                              *)

TypeOK ==
    /\ log \in Seq(Event)
    /\ tables \in [Projectors -> [Threads -> SUBSET [file : Files, turn : 0..MaxEvents]]]
    /\ cursors \in [Projectors -> 0..MaxEvents]
    /\ cleanupCursor \in 0..MaxEvents
    /\ disk \subseteq Files
    /\ process \in {"down", "replaying", "cleaning", "running"}
    /\ pendingCleanup \subseteq 1..MaxEvents
    /\ cleanup \in [stage : {"none", "read", "list", "remove"}, sequence : 0..MaxEvents,
                    kept : SUBSET Files, entries : SUBSET Files]
    /\ claims \in [Files -> Claim]
    /\ faults \in 0..MaxFaults /\ crashes \in 0..MaxCrashes

Referenced(f) == \E t \in Threads : Live(t) /\ f \in ReferencedAt(Len(log), t)

\* No clean-up, of a running server or of one that catches up after a crash
\* with a projector reset, removes a file that a message or an answer of a live
\* thread refers to; only the request whose own command was answered with a
\* failure does (1847-1891, 2024-2046).
CleanUpKeepsReferencedFiles ==
    [][\A f \in disk \ disk' : Referenced(f) => claims[f].status = "failed"]_vars

\* What the clean-up cursor promises (2021-2053): of a thread deleted at or
\* before it, and not created again, no file claimed before the deletion is
\* left; of a thread reverted, none claimed before the revert but those that
\* something has referred to since.
CursorMeansCleaned ==
    process = "running" =>
    \A f \in disk, i \in 1..cleanupCursor :
        log[i].thread = claims[f].thread /\ claims[f].at < i =>
            /\ log[i].type = "thread.deleted" =>
                 LastOf("thread.created", log[i].thread) > i
            /\ log[i].type = "thread.reverted" =>
                 \E n \in i..Len(log) : f \in ReferencedAt(n, log[i].thread)
=============================================================================
