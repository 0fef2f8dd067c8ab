-------------------------- MODULE MCSharedInformers --------------------------
(* Values of SharedInformers' constants for TLC.                           *)
EXTENDS SharedInformers, TLC

CONSTANTS c1, c2, c3, o1, o2

TwoClients == {c1, c2}
ThreeClients == {c1, c2, c3}

(* Two clients share an informer, the third has another kind's. *)
Mixed == [c \in Clients |-> IF c = c3 THEN "DataSet" ELSE "Data"]
OneReader == {c1}
AllObjects == {o1, o2}
InNamespace == {o1}
=============================================================================
