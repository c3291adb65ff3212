------------------------ MODULE MCEnvironmentRegistry ------------------------
(* Instances of EnvironmentRegistry for TLC. *)
EXTENDS EnvironmentRegistry, TLC

CONSTANTS e1, e2, none

\* The bounds are used up and nobody is at work.
Quiet == requests = MaxRequests /\ emissions = <<>> /\ (\A r \in Requesters : task[r].step = "idle") /\ UNCHANGED registryVars

MCFairSpec == RegistryInit /\ [][RegistryNext \/ Quiet]_registryVars /\ RegistryFairness
=============================================================================
