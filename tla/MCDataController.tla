--------------------------- MODULE MCDataController ---------------------------
(* Values of DataController's constants for TLC, and what the environment  *)
(* may do in each run.                                                     *)
EXTENDS DataController

CONSTANTS p1, v1, v2, A, B

(* One pod of a Deployment: web-rs-a. *)
OnePod == {p1}
PodNames == [p \in Pods |-> <<"web", "rs", "a">>]
OneAccount == [p \in Pods |-> "default"]

Versions == {v1, v2}
OneVersion == {v1}
OneItem == [t \in Templates |-> 1]
(* v2 has one item more than v1. *)
GrowingItems == [t \in Templates |-> IF t = v1 THEN 1 ELSE 2]
Digests == [t \in Templates |-> IF t = v1 THEN A ELSE B]

Progress == {"downloading", "success"}
Successes == {"success"}

Steady   == {"edit", "podChurn", "podUpdate", "cleanReuse", "userDelete", "fault",
             "restart", "resync"}
Rolling  == {"edit", "podChurn", "podUpdate", "cleanReuse", "fault", "restart"}
Misled   == {"edit", "podChurn", "podUpdate", "reuseNames", "podLag", "fault",
             "restart", "resync"}
=============================================================================
