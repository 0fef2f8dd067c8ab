------------------------- MODULE MCDataSetController -------------------------
(* Values of DataSetController's constants for TLC, and what the           *)
(* environment may do in each run.                                         *)
EXTENDS DataSetController

CONSTANTS p1, p2, v1, v2, A, B

OnePod  == {p1}
TwoPods == {p1, p2}

(* web-rs-a and web-rs-b, of one Deployment *)
PodNames == [p \in Pods |-> <<"web", "rs", IF p = p1 THEN "a" ELSE "b">>]
(* web-rs-a, and a pod that is called nginx *)
BareName == [p \in Pods |-> IF p = p1 THEN <<"web", "rs", "a">> ELSE <<"nginx">>]
(* web-db-0 and app-db-0, of two StatefulSets web-db and app-db *)
SameEnds == [p \in Pods |-> <<IF p = p1 THEN "web" ELSE "app", "db", "0">>]

Versions   == {v1, v2}
OneVersion == {v1}
OneItem == [t \in Templates |-> 1]
Digests == [t \in Templates |-> IF t = v1 THEN A ELSE B]

Steady   == {"podChurn", "reuseNames", "userDelete", "fault", "restart", "resync"}
Edits    == {"edit"}
Scaling  == {"podChurn"}
Stale    == {"dataLag"}
Hostile  == Disruptions \ {"cleanReuse", "reuseNames"}
=============================================================================
