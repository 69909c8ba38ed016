------------------------------- MODULE MCRank -------------------------------
(* Three files of any length over two lines and a toggle, each hit by any of *)
(* them.                                                                     *)
EXTENDS Rank

CONSTANTS f1, f2, f3

MCFile == {f1, f2, f3}
MCOrder == <<f1, f2, f3>>
MCMetricOf == [p \in Point |-> IF p = 2 THEN "TOGGLE" ELSE "LINE"]
MCWeight == [m \in Metric |-> IF m = "LINE" THEN 1 ELSE 2]
=============================================================================
