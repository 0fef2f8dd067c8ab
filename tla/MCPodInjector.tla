---------------------------- MODULE MCPodInjector ----------------------------
(* Values of PodInjector's constants for TLC.                              *)
EXTENDS PodInjector

CONSTANTS p1, p2, s1, s2

AllPods == {p1, p2}
AllDataSets == {s1, s2}

(* p1 is selected by both DataSets, p2 by one of them. *)
PodLabels == [p \in Pods |-> IF p = p1 THEN [app |-> "web", tier |-> "front"]
                             ELSE [app |-> "web"]]
Selectors == [s \in DataSets |-> IF s = s1 THEN [app |-> "web"]
                                 ELSE [app |-> "web", tier |-> "front"]]
PodVolumes == [p \in Pods |-> <<"conf">>]
=============================================================================
