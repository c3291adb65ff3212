----------------------- MODULE MCOrchestrationEngine -----------------------
(* Instance of OrchestrationEngine for TLC: two clients, two projects that    *)
(* want one workspace root, one thread.  Command id k1 is used by two          *)
(* commands on different aggregates.                                         *)
EXTENDS OrchestrationEngine, TLC

CONSTANTS p1, p2, t1, t2, r1, k1, k2, k3, k4, k5, k6, k7, k8, c1, c2

Cmd(type, id, project, thread, root, force) ==
    [type |-> type, commandId |-> id, project |-> project, thread |-> thread,
     root |-> root, force |-> force]

CreateP1     == Cmd("project.create", k1, p1, None, r1, FALSE)
CreateP2     == Cmd("project.create", k2, p2, None, r1, FALSE)
CreateT1     == Cmd("thread.create", k3, p1, t1, None, FALSE)
ReusedId     == Cmd("thread.archive", k1, None, t1, None, FALSE)
ForceDelete  == Cmd("project.delete", k4, p1, None, None, TRUE)

MCCommands == {CreateP1, CreateP2, CreateT1, ReusedId, ForceDelete}
\* Every type of command, two threads in p1, and a root p2 may take from p1.
MCCatalogCommands ==
    {CreateP1, CreateT1, ForceDelete, CreateP2,
     Cmd("thread.create", k5, p1, t2, None, FALSE),
     Cmd("thread.delete", k6, None, t1, None, FALSE),
     Cmd("thread.archive", k7, None, t1, None, FALSE),
     Cmd("thread.unarchive", k8, None, t1, None, FALSE),
     Cmd("project.meta.update", k1, p2, None, r1, FALSE)}

\* The clients are interchangeable in every action and invariant.
ClientSymmetry == Permutations(Clients)
============================================================================
