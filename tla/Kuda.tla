--------------------------------- MODULE Kuda ---------------------------------
(***************************************************************************)
(* The manager process: both controllers on one API server and one set of  *)
(* informer caches, with the users, the garbage collector and the runtime  *)
(* containers around them.  Each controller does with its own actions what *)
(* the other one's module leaves to its environment.                       *)
(*                                                                         *)
(* A delivery reaches both controllers; a panic in the DataSet controller  *)
(* takes the Data controller down with it; a restart starts both.          *)
(***************************************************************************)
EXTENDS Cluster

CONSTANTS ServiceAccount, ReportPhases,   \* DataController
          Injected                        \* DataSetController

(* What the two modules assume.                                            *)
ASSUME KudaAssumption ==
    /\ ReportPhases \subseteq Phases \ {"waiting"}
    /\ Injected \subseteq Pods
    /\ IsFiniteSet(Pods)

VARIABLES
    queue, pc, key, inst, tag, annotation, bindings, bindingsCache,
    queued, step, set, podList, todo, dataList, dataMap, dataOld

DC == INSTANCE DataController
SC == INSTANCE DataSetController

dcVars == <<queue, pc, key, inst, tag, annotation, bindings, bindingsCache>>
setVars == <<queued, step, set, podList, todo, dataList, dataMap, dataOld>>
vars == <<dsVars, dataVars, podVars, budget, dcVars, setVars>>

Alive == step # "down"

DataWork == Alive /\ DC!Work /\ UNCHANGED setVars
DataSetWork == SC!Work /\ UNCHANGED dcVars

TakeKey(d) ==
    /\ Alive
    /\ DC!GetData(d) \/ DC!GetDataGone(d)
    /\ UNCHANGED setVars

DataFault == Alive /\ DC!Fault /\ UNCHANGED setVars
DataSetFault == SC!Fault /\ UNCHANGED dcVars

Start == DC!Boot /\ SC!Boot
Recover == ~Alive /\ Start /\ UNCHANGED budget
Restart == Alive /\ Disrupt("restart") /\ Start

(* A mutant of OnDataEvents: the DataSet controller does not watch Data.   *)
OnDataEventsUnowned == Alive /\ DC!OnDataEvents /\ UNCHANGED setVars
OnDataEvents == Alive /\ DC!OnDataEvents /\ SC!OnDataEvents
OnPodEvents == Alive /\ DC!OnPodEvents /\ SC!OnPodEvents
OnDataSetEvent == Alive /\ SC!OnDataSetEvent /\ UNCHANGED dcVars
OnBindingEvents == Alive /\ DC!OnBindingEvents /\ UNCHANGED setVars
ResyncData(d) == Alive /\ DC!Resync(d) /\ SC!ResyncData(d)
ResyncDataSet == Alive /\ SC!ResyncDataSet /\ UNCHANGED dcVars
Deliver == \/ OnDataEvents \/ OnPodEvents \/ OnDataSetEvent \/ OnBindingEvents
           \/ ResyncDataSet \/ \E d \in Names : ResyncData(d)

-----------------------------------------------------------------------------
(* The environment.  Once a pod, a Data or a copy has another template,    *)
(* one that some of them still have is brought back only where "undo" is   *)
(* allowed.                                                                *)

Spoken(obj, t) == obj # None /\ obj.spec = t
Heard(t) ==
    \/ \E p \in Pods : pods[p] # None /\ pods[p].digest = Digest[t]
    \/ \E d \in Names : Spoken(data[d], t) \/ Spoken(dataCache[d], t)
    \/ \E obj \in {inst, set, dsCache} : Spoken(obj, t)
Undoes(t) == Heard(t) /\ \E u \in Templates \ {t} : Heard(u)
MayUse(t) == Undoes(t) => "undo" \in Allowed

Users ==
    /\ \/ \E t \in Templates : /\ MayUse(t)
                               /\ SC!EditTemplate(t) \/ SC!CreateDataSet(t)
       \/ SC!DeleteDataSet
       \/ \E d \in Names : SC!UserDeletes(d)
       \/ \E p \in Pods : SC!PodChurn(p)
    /\ UNCHANGED dcVars

Collect(d) == SC!Collect(d) /\ UNCHANGED dcVars

RuntimeReports(d) ==
    /\ \E ph \in ReportPhases : DC!RuntimeReports(d, ph)
    /\ UNCHANGED setVars

Init == SC!Init /\ DC!WorkerInit

Next == \/ DataWork \/ DataSetWork \/ DataFault \/ DataSetFault
        \/ Restart \/ Recover \/ Deliver \/ Users
        \/ \E d \in Names : Collect(d) \/ RuntimeReports(d)

Spec == Init /\ [][Next]_vars

(* As in the two modules: the worker runs and takes the keys in turn, each *)
(* watch delivers, a dead process is started again, and the garbage        *)
(* collector and the runtimes do their part.  Disruptions are never owed,  *)
(* and convergence does not count on a resync.                             *)
Fairness ==
    /\ WF_vars(DataWork) /\ WF_vars(DataSetWork) /\ WF_vars(Recover)
    /\ WF_vars(OnDataEvents) /\ WF_vars(OnPodEvents)
    /\ WF_vars(OnDataSetEvent) /\ WF_vars(OnBindingEvents)
    /\ \A d \in Names : /\ SF_vars(TakeKey(d))
                        /\ WF_vars(Collect(d)) /\ WF_vars(RuntimeReports(d))

FairSpec == Spec /\ Fairness

-----------------------------------------------------------------------------
(* Properties *)

(* Neither controller has anything left to do or to see before a resync.   *)
Quiet == SC!Quiet /\ \A d \in Names : DC!Settled(d)

(* The pod runs the current template: it carries its digest, and of that   *)
(* digest the runtime has reported every item.                             *)
Ready(p) ==
    /\ pods[p].digest = Digest[ds.spec]
    /\ LET st == data[DataName(p)].st
       IN  st # None /\ st.of = ds.spec
           /\ \A i \in Items(ds.spec) : st.phase[i] = "success"

(* When nothing is left to do, every pod of the DataSet has been told of   *)
(* the template as it is now, and the DataSet counts as successes exactly  *)
(* the pods whose runtime has reported all of that template's items.       *)
QuietIsDelivered ==
    Quiet /\ ds # None =>
        /\ \A p \in Existing(pods) :
              /\ data[DataName(p)] # None
              /\ data[DataName(p)].spec = ds.spec
              /\ DC!Delivered(DataName(p))
        /\ ds.status.success = Cardinality({p \in Existing(pods) : Ready(p)})

(* Among the DataSet controller's prunes and creations too, and when it    *)
(* takes the process down, the finalizer leaves a Data only when its pod   *)
(* carries no digest.                                                      *)
FinalizerHolds == DC!FinalizerGuards

(* Everything the DataSet asks for is there, and it says so; without a     *)
(* DataSet nothing is left.                                                *)
InPlace ==
    IF ds = None THEN Existing(data) = {}
    ELSE /\ Existing(data) = {DataName(p) : p \in Existing(pods)}
         /\ \A d \in Existing(data) : ~data[d].del /\ DC!Delivered(d)
         /\ \A p \in Existing(pods) : Ready(p)
         /\ ds.status = [dataItems |-> NumItems[ds.spec],
                         replicas  |-> Cardinality(Existing(pods)),
                         success   |-> Cardinality(Existing(pods))]

(* Once the disruptions end, every pod of the DataSet has the data of its  *)
(* template for good, unless runtimes keep reporting: a reconcile that     *)
(* deletes a Data takes the annotation off, is overtaken by a report, and  *)
(* on its retry tells the pod again (the fixed order of syncData).         *)
Converges ==
    \/ []<><<\E d \in Names : RuntimeReports(d)>>_vars
    \/ <>[]InPlace
=============================================================================
