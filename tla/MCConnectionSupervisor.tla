----------------------- MODULE MCConnectionSupervisor -----------------------
(* Instances of ConnectionSupervisor for TLC. *)
EXTENDS ConnectionSupervisor, TLC

\* The bounds are used up and the fiber is at rest.
Quiet ==
    /\ user = MaxUser /\ signals = <<>>
    /\ loop \in {"available", "offline", "blocked"} \/ (loop = "connected" /\ faults = MaxFaults)
    /\ UNCHANGED vars

MCFairSpec == Init /\ [][Next \/ Quiet]_vars /\ Fairness
=============================================================================
