----------------------- MODULE MCThreadDeletionReactor -----------------------
(* Instances of ThreadDeletionReactor for TLC. *)
EXTENDS ThreadDeletionReactor, TLC

CONSTANTS t1, q1, q2
=============================================================================
