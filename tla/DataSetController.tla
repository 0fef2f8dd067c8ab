-------------------------- MODULE DataSetController --------------------------
(***************************************************************************)
(* DataSetReconciler: for every pod the DataSet selects it keeps one Data  *)
(* made from the template, deletes the Data of pods that are gone, and     *)
(* counts in the DataSet's status the Data whose items have all arrived.   *)
(*                                                                         *)
(* One action per API call or cache read, with the local code around it.   *)
(* The Data controller, the garbage collector and users are the            *)
(* environment at the end.                                                 *)
(***************************************************************************)
EXTENDS Cluster

CONSTANT Injected    \* the pods that carry the webhook's dataset annotation

ASSUME InjectedAssumption == Injected \subseteq Pods
(* The status counts Data: a cluster has finitely many pods.               *)
ASSUME PodsFinite == IsFiniteSet(Pods)

VARIABLES
    queued,     \* the DataSet's key is in the workqueue
    step,       \* where the one worker is; "down" when the process has died
    set,        \* instance: its copy of the DataSet
    podList,    \* the pods it listed
    todo,       \* the pods it has still to sync
    dataList,   \* dataList.Items, by name
    dataMap,    \* the keys of dataMap
    dataOld     \* what every entry of dataMap points to

localVars == <<step, set, podList, todo, dataList, dataMap, dataOld>>
setVars   == <<queued, localVars>>
vars      == <<dsVars, dataVars, podVars, budget, setVars>>

Drop(f, x) == [y \in DOMAIN f \ {x} |-> f[y]]

-----------------------------------------------------------------------------
(* Frames, and the ends of a reconcile *)

Reads   == UNCHANGED <<dsVars, podVars, budget, queued>>
SameSet == UNCHANGED <<set, podList>>

(* A mutant of Idle: the DataSet is still at hand afterwards.              *)
IdleWithSet == /\ step' = "idle" /\ UNCHANGED set
               /\ podList' = {} /\ todo' = {} /\ dataMap' = {}
               /\ dataList' = <<>> /\ dataOld' = None
Idle == /\ step' = "idle" /\ set' = None
        /\ podList' = {} /\ todo' = {} /\ dataMap' = {}
        /\ dataList' = <<>> /\ dataOld' = None

DropDs(lag)   == lag \cup {"dataset"}
DropData(lag) == [d \in Names |-> lag[d] \cup {"dataset"}]

(* A mutant of Abort: the error is logged and not returned.                *)
AbortSwallowed ==
    /\ Idle /\ UNCHANGED queued
    /\ lagDs' = DropDs(lagDs) /\ lagData' = DropData(lagData)
    /\ UNCHANGED <<ds, dsCache, data, dataCache, podVars>>
(* The reconcile returns an error: the key goes back on the queue.         *)
Abort ==
    /\ Idle /\ queued' = TRUE
    /\ lagDs' = DropDs(lagDs) /\ lagData' = DropData(lagData)
    /\ UNCHANGED <<ds, dsCache, data, dataCache, podVars>>

(* A panic in a reconcile is not recovered: the process exits.             *)
Panic ==
    /\ step' = "down" /\ UNCHANGED <<queued, set, podList, todo>>
    /\ UNCHANGED <<dataList, dataMap, dataOld, dsVars, dataVars, podVars, budget>>

-----------------------------------------------------------------------------
(* Reconcile *)

GetDataSetGone ==
    /\ step = "idle" /\ queued /\ dsCache = None
    /\ queued' = FALSE
    /\ UNCHANGED <<dsVars, dataVars, podVars, budget, localVars>>

GetDataSet ==
    /\ step = "idle" /\ queued /\ dsCache # None
    /\ queued' = FALSE /\ step' = "listPods" /\ set' = dsCache
    /\ TakeDs("dataset")
    /\ UNCHANGED <<dataVars, podVars, budget, podList, todo, dataList, dataMap,
                   dataOld>>

(* The selector and the labels are fixed: Pods are those that match.  In   *)
(* the code a pod that leaves the selector, by an edit of either, is not   *)
(* listed any more, and its Data is pruned although it lives.              *)
ListPods ==
    /\ step = "listPods"
    /\ step' = "listData" /\ podList' = Existing(podsCache)
    /\ UNCHANGED <<set, todo, dataList, dataMap, dataOld, dataVars>> /\ Reads

(* convertDataListToMap takes the address of its loop variable: every      *)
(* entry of the map is the Data listed last, and a List from the cache is  *)
(* in no fixed order.  Without "dataLag" the Data informer has caught up.  *)
DataReadable == "dataLag" \in Allowed \/ DataEvents = {}

ListData ==
    /\ step = "listData" /\ DataReadable
    /\ step' = "sync" /\ todo' = podList
    /\ dataMap' = Existing(dataCache)
    /\ dataList' = [d \in dataMap' |-> dataCache[d]]
    /\ IF dataMap' = {}
       THEN dataOld' = None /\ UNCHANGED dataVars
       ELSE \E last \in dataMap' :
               /\ dataOld' = [name |-> last, obj |-> dataCache[last]]
               /\ TakeData("dataset", last)
    /\ SameSet /\ Reads

-----------------------------------------------------------------------------
(* syncDataSet: the loop over the pods *)

Visit(p) == step = "sync" /\ p \in todo /\ Nameable(p)
(* A mutant of Listed: the map has a single entry.                         *)
ListedLast(p) == dataMap # {} /\ DataName(p) = dataOld.name
Listed(p) == DataName(p) \in dataMap
Outdated == dataOld.obj.spec # set.spec
Synced(p) == todo' = todo \ {p} /\ SameSet /\ UNCHANGED <<step, dataMap>> /\ Reads

UnnameablePod(p) == step = "sync" /\ p \in todo /\ ~Nameable(p) /\ Panic

KeepData(p) ==
    /\ Visit(p) /\ Listed(p) /\ ~Outdated
    /\ Synced(p) /\ UNCHANGED <<dataList, dataOld, dataVars>>

DataOldCurrent == /\ data[dataOld.name] # None
                  /\ Current("dataset", lagData[dataOld.name])

UpdateData(p) ==
    /\ Visit(p) /\ Listed(p) /\ Outdated
    /\ DataOldCurrent
    /\ LET obj == [data[dataOld.name] EXCEPT !.spec = set.spec]
       IN  /\ PutData("dataset", dataOld.name, obj)
           /\ dataOld' = [dataOld EXCEPT !.obj = obj]
    /\ Synced(p) /\ UNCHANGED dataList

UpdateRejected(p) ==
    /\ Visit(p) /\ Listed(p) /\ Outdated
    /\ ~DataOldCurrent
    /\ Abort /\ UNCHANGED budget

CreateData(p) ==
    LET d == DataName(p)
        new == NewData(p, set.spec, set.uid)
    IN  /\ Visit(p) /\ ~Listed(p)
        /\ data[d] = None
        /\ PutData("env", d, new)
        /\ dataList' = [x \in DOMAIN dataList \cup {d} |->
                          IF x = d THEN new ELSE dataList[x]]
        /\ Synced(p) /\ UNCHANGED dataOld

(* The answer AlreadyExists is turned into a nil Data and no error, and    *)
(* the caller dereferences it.                                             *)
DataExists(p) ==
    /\ Visit(p) /\ ~Listed(p)
    /\ data[DataName(p)] # None
    /\ Panic

-----------------------------------------------------------------------------
(* pruneDataResources: Delete goes by name; a NotFound is ignored          *)

(* A mutant of Orphans: the map of pods is searched for the Data's name.   *)
OrphansByName == {d \in DOMAIN dataList : d \notin podList}
Orphans == {d \in DOMAIN dataList : dataList[d].pod \notin podList}

SyncDone == step = "sync" /\ todo = {}

PruneData(d) ==
    /\ SyncDone /\ d \in Orphans
    /\ IF data[d] = None THEN UNCHANGED dataVars ELSE DeleteData("env", d)
    /\ dataList' = Drop(dataList, d)
    /\ SameSet /\ UNCHANGED <<step, todo, dataMap, dataOld>> /\ Reads

-----------------------------------------------------------------------------
(* updateDataSetStatus *)

(* A mutant of NewStatus: it counts the entries of the map, which are all  *)
(* the same.                                                               *)
NewStatusOfMap ==
    [dataItems |-> NumItems[set.spec],
     replicas  |-> Cardinality(DOMAIN dataList),
     success   |-> Cardinality({d \in DOMAIN dataList \cap dataMap :
                       Success(dataOld.obj) = NumItems[set.spec]})]
NewStatus == [dataItems |-> NumItems[set.spec],
              replicas  |-> Cardinality(DOMAIN dataList),
              success   |-> Cardinality({d \in DOMAIN dataList :
                                Success(dataList[d]) = NumItems[set.spec]})]
SetCurrent == ds # None /\ Current("dataset", lagDs)
StatusStep == SyncDone /\ Orphans = {}

UpdateStatus ==
    /\ StatusStep
    /\ NewStatus # set.status => SetCurrent
    /\ Idle
    /\ IF NewStatus = set.status
       THEN lagDs' = DropDs(lagDs) /\ UNCHANGED ds
       ELSE /\ ds' = [ds EXCEPT !.status = NewStatus]
            /\ lagDs' = DropDs(DsHolders)
    /\ lagData' = DropData(lagData)
    /\ UNCHANGED <<queued, dsCache, data, dataCache, podVars, budget>>

StatusRejected ==
    /\ StatusStep
    /\ NewStatus # set.status /\ ~SetCurrent
    /\ Abort /\ UNCHANGED budget

Work == \/ GetDataSet \/ GetDataSetGone \/ ListPods \/ ListData
        \/ \E p \in Pods : \/ KeepData(p) \/ UpdateData(p) \/ UpdateRejected(p)
                           \/ CreateData(p) \/ DataExists(p) \/ UnnameablePod(p)
        \/ \E d \in Names : PruneData(d)
        \/ UpdateStatus \/ StatusRejected

-----------------------------------------------------------------------------
(* Failures: a call fails; the manager restarts, lists everything afresh   *)
(* and gets an event for every object.                                     *)

CallNext ==
    /\ step = "sync"
    /\ \/ \E p \in todo : Nameable(p) /\ (Listed(p) => Outdated)
       \/ SyncDone /\ (Orphans = {} => NewStatus # set.status)
Fault == CallNext /\ Disrupt("fault") /\ Abort

Boot == Idle /\ Relist /\ queued' = TRUE
Restart ==
    /\ IF step = "down" THEN UNCHANGED budget ELSE Disrupt("restart")
    /\ Boot

(* Watches: the DataSet, the Data it owns, and the creation and deletion   *)
(* of injected pods; their updates are filtered out.                       *)
OnDataSetEvent ==
    /\ DeliverDs /\ queued' = TRUE
    /\ UNCHANGED <<dataVars, podVars, budget, localVars>>
OnDataEvents ==
    /\ DeliverData /\ queued' = TRUE
    /\ UNCHANGED <<dsVars, podVars, budget, localVars>>
ComeOrGone  == {p \in PodEvents : (pods[p] = None) # (podsCache[p] = None)}
Replaceable == Allowed \cap {"cleanReuse", "reuseNames"} # {}
(* A mutant of OnPodEvents: the predicate lets only creations through.     *)
OnPodEventsCreated ==
    /\ DeliverPods
    /\ queued' = (queued \/ \E p \in ComeOrGone \cap Injected : pods[p] # None)
    /\ UNCHANGED <<dsVars, dataVars, budget, localVars>>
(* Of a pod that is there before and after, the delivery may have been an  *)
(* update or, where names are used again, a deletion and a creation.       *)
OnPodEvents ==
    /\ DeliverPods
    /\ \/ queued' = (queued \/ ComeOrGone \cap Injected # {})
       \/ Replaceable /\ PodEvents \cap Injected # {} /\ queued' = TRUE
    /\ UNCHANGED <<dsVars, dataVars, budget, localVars>>

(* A resync is an update: of the DataSet and of the Data it passes, of the *)
(* pods it is filtered out.                                                *)
Again == queued' = TRUE /\ UNCHANGED <<dsVars, dataVars, podVars, budget, localVars>>
ResyncDataSet == Resyncs(dsCache) /\ Again
ResyncData(d) == Resyncs(dataCache[d]) /\ Again

-----------------------------------------------------------------------------
(* The environment: users; the garbage collector, which deletes the Data   *)
(* whose owner's uid is gone; and the Data controller with the runtimes,   *)
(* which list the items of the spec and add the finalizer, report the      *)
(* items as downloaded, and let a deleted Data go.                         *)

OnlyDs   == UNCHANGED <<dataVars, podVars, setVars>>
OnlyData == UNCHANGED <<dsVars, podVars, budget, setVars>>

EditTemplate(t) ==
    /\ ds # None /\ ds.spec # t
    /\ Disrupt("edit")
    /\ PutDs("env", [ds EXCEPT !.spec = t]) /\ OnlyDs
DeleteDataSet ==
    /\ ds # None
    /\ Disrupt("dsChurn")
    /\ PutDs("env", None) /\ OnlyDs
CreateDataSet(t) ==
    /\ ds = None
    /\ Disrupt("dsChurn")
    /\ PutDs("env", NewDataSet(t, 1 + MaxDisruptions - budget)) /\ OnlyDs
UserDeletes(d) ==
    /\ data[d] # None /\ ~data[d].del
    /\ Disrupt("userDelete")
    /\ DeleteData("env", d)
    /\ UNCHANGED <<dsVars, podVars, setVars>>
PodChurn(p) ==
    /\ CreatePod(p) \/ DeletePod(p) \/ UpdatePod(p)
    /\ UNCHANGED <<dsVars, dataVars, setVars>>

Collect(d) ==
    /\ data[d] # None /\ ~data[d].del
    /\ ds # None => ds.uid # data[d].owner
    /\ DeleteData("env", d) /\ OnlyData

Track(d) ==
    /\ data[d] # None /\ (data[d].st # None => data[d].st.of # data[d].spec)
    /\ PutData("env", d, [data[d] EXCEPT !.fin = TRUE, !.st =
            Listing(data[d].spec, [i \in Items(data[d].spec) |-> "waiting"])])
    /\ OnlyData
Report(d) ==
    /\ data[d] # None /\ data[d].st # None
    /\ LET t == data[d].st.of
       IN  /\ Success(data[d]) # NumItems[t]
           /\ PutData("env", d, [data[d] EXCEPT !.st =
                  Listing(t, [i \in Items(t) |-> "success"])])
    /\ OnlyData
Release(d) ==
    /\ data[d] # None /\ data[d].del
    /\ PutData("env", d, None) /\ OnlyData

DataController(d) == Track(d) \/ Report(d) \/ Release(d)

Environment ==
    \/ \E t \in Templates : EditTemplate(t) \/ CreateDataSet(t)
    \/ DeleteDataSet
    \/ \E d \in Names : UserDeletes(d) \/ Collect(d) \/ DataController(d)
    \/ \E p \in Pods : PodChurn(p)

Init ==
    /\ \E t \in Templates : ds = NewDataSet(t, 0)
    /\ data = [d \in Names |-> None]
    /\ pods \in [Pods -> {None, [digest |-> None]}]
    /\ ClusterInit
    /\ queued = TRUE
    /\ step = "idle" /\ set = None /\ podList = {} /\ todo = {}
    /\ dataList = <<>> /\ dataMap = {} /\ dataOld = None

Deliver == \/ OnDataSetEvent \/ OnDataEvents \/ OnPodEvents
           \/ ResyncDataSet \/ \E d \in Names : ResyncData(d)

Next == Work \/ Fault \/ Restart \/ Deliver \/ Environment

Spec == Init /\ [][Next]_vars

-----------------------------------------------------------------------------
(* Properties *)

(* The worker's lists are what it may hold at its step, and every name it  *)
(* prunes or updates is one it listed or created.                          *)
TypeOK ==
    /\ ClusterTypeOK
    /\ queued \in BOOLEAN
    /\ step \in {"idle", "listPods", "listData", "sync", "down"}
    /\ set \in DSObject \cup {None} /\ (step = "idle" <=> set = None)
    /\ todo \subseteq podList /\ podList \subseteq Pods
    /\ step \notin {"sync", "down"} => todo = {}
    /\ dataMap \subseteq Names /\ DOMAIN dataList \subseteq Names
    /\ \A d \in DOMAIN dataList : dataList[d] \in DataObject
    /\ IF dataMap = {} THEN dataOld = None
       ELSE dataOld \in [name : dataMap, obj : DataObject]

(* A reconcile does not panic.                                             *)
NeverPanics == step # "down"

(* Nothing but a resync will make the controller look again.               *)
Quiet == /\ ~queued /\ step = "idle" /\ "cache" \notin lagDs
         /\ DataEvents = {} /\ PodEvents = {}

HasPod(d) == data[d] # None /\ pods[data[d].pod] # None

(* When nothing is left to do, every selected pod has a Data of its own.   *)
EveryPodHasData ==
    Quiet /\ ds # None =>
        \A p \in Pods : pods[p] # None =>
            data[DataName(p)] # None /\ data[DataName(p)].pod = p

(* ... and the Data of pods that are gone have been deleted, whatever the  *)
(* order in which pods, Data and DataSets came, went and were seen.        *)
OneDataPerPod ==
    /\ EveryPodHasData
    /\ Quiet /\ ds # None =>
          \A d \in Names : data[d] # None => HasPod(d) \/ data[d].del

(* ... and every Data has the spec of the DataSet's template.              *)
EveryDataUpdated ==
    Quiet /\ ds # None => \A d \in Names : HasPod(d) => data[d].spec = ds.spec

(* ... and the status of the DataSet counts the Data and their successes   *)
(* as they are now.                                                        *)
StatusCounts ==
    Quiet /\ ds # None =>
        LET live == {d \in Names : HasPod(d)}
        IN  ds.status = [dataItems |-> NumItems[ds.spec],
                         replicas  |-> Cardinality(live),
                         success   |-> Cardinality({d \in live :
                                          Success(data[d]) = NumItems[ds.spec]})]

(* The controller only ever deletes the Data of a pod that is gone: among  *)
(* the pods that the selector matches, which do not leave it here.         *)
PruneIsSafe ==
    [][\A d \in Names :
          (/\ step = "sync" /\ dataList' # dataList
           /\ data[d] # None /\ ~data[d].del
           /\ IF data'[d] = None THEN TRUE ELSE data'[d].del)
          => pods[data[d].pod] = None]_vars
=============================================================================
