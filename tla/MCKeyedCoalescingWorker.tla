----------------------- MODULE MCKeyedCoalescingWorker -----------------------
(* Instances of KeyedCoalescingWorker for TLC: three requests for one key and *)
(* two for another.                                                         *)
EXTENDS KeyedCoalescingWorker, TLC

CONSTANTS k1, k2

MCKeys == {k1, k2}
MCInputs == 1..5
MCKeyOf == [r \in MCInputs |-> IF r <= 3 THEN k1 ELSE k2]

=============================================================================
