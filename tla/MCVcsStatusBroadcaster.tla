----------------------- MODULE MCVcsStatusBroadcaster -----------------------
(* Instances of VcsStatusBroadcaster for TLC: two clients that name the        *)
(* directory alike, a refresh and a turn's end by another path, and versions   *)
(* of which the first and the last look alike.                                 *)
EXTENDS VcsStatusBroadcaster, TLC

CONSTANTS f1, f2, plain, link, refresh, turnEnd

MCSpellingOf == [f \in Followers |-> plain]
MCKindOf == [r \in Requests |-> IF r = refresh THEN "refresh" ELSE "turnEnd"]
MCPathOf == [r \in Requests |-> IF r = refresh THEN plain ELSE link]
MCFingerprintOf == [v \in 0..MaxVersion |-> IF v = 3 THEN 1 ELSE v]

=============================================================================
