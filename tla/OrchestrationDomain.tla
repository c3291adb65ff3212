------------------------ MODULE OrchestrationDomain ------------------------
(***************************************************************************)
(* The part of the orchestration domain the command engine is exercised     *)
(* with: projects (with their workspace root) and threads (with their       *)
(* archive and soft-delete marks).  DecidePlans is the decider,              *)
(* ProjectEvent the projector; both are pure.                                *)
(*                                                                         *)
(* Abstractions: ids, roots and command ids are members of small sets;      *)
(* titles, models, timestamps and the other payload fields are left out;    *)
(* a timestamp such as deletedAt is the mark "it is set".                    *)
(***************************************************************************)
EXTENDS Naturals, Sequences, FiniteSets

CONSTANTS
    Projects,       \* project ids
    Threads,        \* thread ids
    Roots,          \* normalized workspace roots
    CommandIds,     \* ids the clients mint for their commands
    None            \* the absent value of an optional field

ASSUME DomainAssumption ==
    /\ None \notin Projects \cup Threads \cup Roots \cup CommandIds
    /\ Projects \cap Threads = {}
    /\ IsFiniteSet(Threads)

ProjectCommandTypes == {"project.create", "project.meta.update", "project.delete"}
ThreadCommandTypes  == {"thread.create", "thread.delete", "thread.archive", "thread.unarchive"}

\* A client command; a field a type does not use is None (or FALSE).
Command ==
    [type : ProjectCommandTypes \cup ThreadCommandTypes, commandId : CommandIds,
     project : Projects \cup {None}, thread : Threads \cup {None},
     root : Roots \cup {None}, force : BOOLEAN]

\* The commands the wire schema lets through: the ids a type needs are there.
WellFormed(c) ==
    /\ c \in Command
    /\ c.type \in ProjectCommandTypes \cup {"thread.create"} => c.project # None
    /\ c.type \in ThreadCommandTypes => c.thread # None
    /\ c.type \in {"project.create", "project.meta.update"} => c.root # None

Aggregates == Projects \cup Threads

CommandToAggregateRef(c) == IF c.type \in ProjectCommandTypes THEN c.project ELSE c.thread

EventTypes ==
    {"project.created", "project.meta-updated", "project.deleted",
     "thread.created", "thread.deleted", "thread.archived", "thread.unarchived"}

Event ==
    [type : EventTypes, commandId : CommandIds, aggregate : Aggregates,
     project : Projects \cup {None}, root : Roots \cup {None}]

WithEventBase(c, type, aggregate) ==
    [type |-> type, commandId |-> c.commandId, aggregate |-> aggregate,
     project |-> c.project, root |-> c.root]

---------------------------------------------------------------------------
(* The read model the decider consults.                                     *)

ProjectRow == [exists : BOOLEAN, deleted : BOOLEAN, root : Roots \cup {None}]
ThreadRow  == [exists : BOOLEAN, deleted : BOOLEAN, archived : BOOLEAN,
               project : Projects \cup {None}]

ReadModel ==
    [snapshotSequence : Nat, projects : [Projects -> ProjectRow], threads : [Threads -> ThreadRow]]

EmptyReadModel ==
    [snapshotSequence |-> 0,
     projects |-> [p \in Projects |-> [exists |-> FALSE, deleted |-> FALSE, root |-> None]],
     threads  |-> [t \in Threads |->
                     [exists |-> FALSE, deleted |-> FALSE, archived |-> FALSE, project |-> None]]]

LiveProject(m, p) == m.projects[p].exists /\ ~m.projects[p].deleted
LiveThread(m, t)  == m.threads[t].exists /\ ~m.threads[t].deleted

ActiveThreads(m, p) == {t \in Threads : LiveThread(m, t) /\ m.threads[t].project = p}

\* The projector.  Every event advances snapshotSequence; a created event
\* replaces the row, any other updates the row of its id (the decider emits
\* one only for a row that exists).
ProjectEvent(m, e, sequence) ==
    LET p == e.aggregate
        t == e.aggregate
        AfterProject(row) == [m EXCEPT !.snapshotSequence = sequence, !.projects[p] = row]
        AfterThread(row)  == [m EXCEPT !.snapshotSequence = sequence, !.threads[t] = row]
    IN  CASE e.type = "project.created" ->
               AfterProject([exists |-> TRUE, deleted |-> FALSE, root |-> e.root])
          [] e.type = "project.meta-updated" ->
               AfterProject([m.projects[p] EXCEPT !.root = e.root])
          [] e.type = "project.deleted" ->
               AfterProject([m.projects[p] EXCEPT !.deleted = TRUE])
          [] e.type = "thread.created" ->
               AfterThread([exists |-> TRUE, deleted |-> FALSE, archived |-> FALSE,
                            project |-> e.project])
          [] e.type = "thread.deleted" ->
               AfterThread([m.threads[t] EXCEPT !.deleted = TRUE])
          [] e.type = "thread.archived" ->
               AfterThread([m.threads[t] EXCEPT !.archived = TRUE])
          [] e.type = "thread.unarchived" ->
               AfterThread([m.threads[t] EXCEPT !.archived = FALSE])

---------------------------------------------------------------------------
(* The decider: the set of plans it may return, none when it rejects.       *)
(* requireProject and requireThread look the row up by id and do not ask     *)
(* whether it is soft-deleted.                                              *)

RequireProject(m, p) == m.projects[p].exists
RequireThread(m, t)  == m.threads[t].exists

RequireActiveProjectWorkspaceRootAbsent(m, root, except) ==
    \A p \in Projects \ {except} : LiveProject(m, p) => m.projects[p].root # root

\* The orders in which the elements of S can be listed.
Listings(S) ==
    {q \in [1..Cardinality(S) -> S] : \A i, j \in DOMAIN q : q[i] = q[j] => i = j}

\* One thread.deleted per active thread, then the project's own event.  The
\* code lists the threads in read-model order, which this read model leaves out.
ForcedDeletion(m, c) ==
    {[i \in 1..(Len(q) + 1) |->
        IF i <= Len(q) THEN WithEventBase(c, "thread.deleted", q[i])
                       ELSE WithEventBase(c, "project.deleted", c.project)] :
        q \in Listings(ActiveThreads(m, c.project))}

Accepts(m, c) ==
    CASE c.type = "project.create" ->
           /\ ~RequireProject(m, c.project)
           /\ RequireActiveProjectWorkspaceRootAbsent(m, c.root, c.project)
      [] c.type = "project.meta.update" ->
           /\ RequireProject(m, c.project)
           /\ RequireActiveProjectWorkspaceRootAbsent(m, c.root, c.project)
      [] c.type = "project.delete" ->
           /\ RequireProject(m, c.project)
           /\ ActiveThreads(m, c.project) # {} => c.force
      [] c.type = "thread.create" ->
           /\ RequireProject(m, c.project)
           /\ ~LiveThread(m, c.thread)
      [] c.type = "thread.delete"    -> RequireThread(m, c.thread)
      [] c.type = "thread.archive"   -> RequireThread(m, c.thread) /\ ~m.threads[c.thread].archived
      [] c.type = "thread.unarchive" -> RequireThread(m, c.thread) /\ m.threads[c.thread].archived

EventTypeOf ==
    [type \in ProjectCommandTypes \cup ThreadCommandTypes |->
       CASE type = "project.create"      -> "project.created"
         [] type = "project.meta.update" -> "project.meta-updated"
         [] type = "project.delete"      -> "project.deleted"
         [] type = "thread.create"       -> "thread.created"
         [] type = "thread.delete"       -> "thread.deleted"
         [] type = "thread.archive"      -> "thread.archived"
         [] type = "thread.unarchive"    -> "thread.unarchived"]

DecidePlans(m, c) ==
    IF ~Accepts(m, c) THEN {}
    ELSE IF c.type = "project.delete" THEN ForcedDeletion(m, c)
    ELSE {<<WithEventBase(c, EventTypeOf[c.type], CommandToAggregateRef(c))>>}
=============================================================================
