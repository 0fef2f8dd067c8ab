-------------------------------- MODULE MCKuda --------------------------------
(* Values of Kuda's constants for TLC, and what the environment may do in  *)
(* each run.                                                               *)
EXTENDS Kuda

CONSTANTS p1, v1, v2, A, B

OnePod  == {p1}
PodNames == [p \in Pods |-> <<"web", "rs", "a">>]
OneAccount == [p \in Pods |-> "default"]

Versions   == {v1, v2}
(* v2 is a template without items. *)
LastEmptied == [t \in Templates |-> IF t = v1 THEN 1 ELSE 0]
Digests == [t \in Templates |-> IF t = v1 THEN A ELSE B]
Successes == {"success"}

Rolling == {"edit", "podChurn", "dataLag", "dsChurn", "fault", "restart", "resync"}
=============================================================================
