------------------------- MODULE MCAttachmentCleanup -------------------------
(* Instances of AttachmentCleanup for TLC. *)
EXTENDS AttachmentCleanup, TLC

CONSTANTS t1, t2, f1, f2, f3

Symmetry == Permutations(Files)
=============================================================================
