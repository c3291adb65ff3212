----------------------------- MODULE MCThreadSync -----------------------------
(* Instances of ThreadSync for TLC.                                         *)
EXTENDS ThreadSync, TLC

\* Bound: after a save in the first scope, the next step of interest ends that
\* scope.  Nothing is lost: what the client does between a save and the end of
\* its scope leaves nothing behind, and the engine does not depend on it and may
\* take its steps afterwards.
SaveEndsTheScope == disruptions = 0 /\ kept # NoCopy => ~open'
=============================================================================
