------------------------- MODULE MCThreadSettlement -------------------------
(* Instances of ThreadSettlement for TLC: an approval and an async question,   *)
(* the sweep of every minute and that of a merge.                              *)
EXTENDS ThreadSettlement, TLC

CONSTANTS approval, question, minute, merge

MCRequests == {approval, question}
MCKindOf == [r \in Requests |-> IF r = approval THEN "approval" ELSE "message"]
MCSweeps == {minute, merge}

=============================================================================
