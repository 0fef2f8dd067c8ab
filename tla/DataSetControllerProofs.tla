----------------------- MODULE DataSetControllerProofs -----------------------
(***************************************************************************)
(* Proofs about DataSetController, for every set of pods and templates,    *)
(* every environment and every bound.                                      *)
(***************************************************************************)
EXTENDS DataSetController, ClusterProofs

-----------------------------------------------------------------------------
(* Types *)

(* There are finitely many Data, so that the status can count them.        *)
LEMMA NamesFinite == IsFiniteSet(Names)
<1> DEFINE nameable == {q \in Pods : Nameable(q)}
           f == [p \in nameable |-> DataName(p)]
<1>1. IsFiniteSet(nameable)  BY PodsFinite, FS_Subset
<1>2. f \in Surjection(nameable, Names)  BY DEF Surjection, Names
<1> QED
  <2> HIDE DEF nameable, f
  <2> QED  BY <1>1, <1>2, FS_Surjection

LEMMA NamesCounted ==
    ASSUME NEW S, S \subseteq Names
    PROVE  Cardinality(S) \in Nat
<1>1. IsFiniteSet(S)  BY NamesFinite, FS_Subset
<1> QED  BY <1>1, FS_CardinalityType

LEMMA NewDataTyped ==
    ASSUME NEW p \in Pods, NEW t \in Templates, NEW uid \in Nat
    PROVE  NewData(p, t, uid) \in DataObject
BY DEF NewData, DataObject

LEMMA NewDataSetTyped ==
    ASSUME NEW t \in Templates, NEW uid \in Nat
    PROVE  NewDataSet(t, uid) \in DSObject
BY DEF NewDataSet, DSObject, DSStatus

WorkerTyped ==
    /\ step \in {"idle", "listPods", "listData", "sync", "down"}
    /\ set \in DSObject \cup {None} /\ (step = "idle" <=> set = None)
    /\ todo \subseteq podList /\ podList \subseteq Pods
    /\ step \notin {"sync", "down"} => todo = {}
    /\ dataMap \subseteq Names /\ DOMAIN dataList \subseteq Names
    /\ \A d \in DOMAIN dataList : dataList[d] \in DataObject
    /\ IF dataMap = {} THEN dataOld = None
       ELSE dataOld \in [name : dataMap, obj : DataObject]
QueuedTyped == queued \in BOOLEAN

LEMMA TypeParts ==
    /\ TypeOK <=> /\ DsTyped /\ DataTyped /\ PodsTyped /\ BudgetTyped
                  /\ WorkerTyped /\ QueuedTyped
    /\ TypeOK' <=> /\ DsTyped' /\ DataTyped' /\ PodsTyped' /\ BudgetTyped'
                   /\ WorkerTyped' /\ QueuedTyped'
BY DEF TypeOK, ClusterTypeOK, DsTyped, DataTyped, PodsTyped, BudgetTyped,
       WorkerTyped, QueuedTyped

LEMMA SameTyped ==
    /\ WorkerTyped /\ UNCHANGED localVars => WorkerTyped'
    /\ QueuedTyped /\ UNCHANGED queued => QueuedTyped'
BY DEF WorkerTyped, localVars, QueuedTyped

(* The set a reconcile works on.                                           *)
LEMMA WorkingTyped ==
    ASSUME TypeOK, step # "idle"
    PROVE  /\ set \in DSObject /\ set.spec \in Templates /\ set.uid \in Nat
           /\ set.status \in DSStatus
BY TypeParts DEF WorkerTyped, DSObject

LEMMA IdleTyped ==
    ASSUME Idle  PROVE WorkerTyped'
BY DEF Idle, WorkerTyped

LEMMA AbortTyped ==
    ASSUME TypeOK, Abort
    PROVE  DsTyped' /\ DataTyped' /\ PodsTyped' /\ WorkerTyped' /\ QueuedTyped'
<1>1. DsTyped'  BY TypeParts DEF Abort, DsTyped, DropDs, DsHolders
<1>2. DataTyped'  BY TypeParts DEF Abort, DataTyped, DropData, DataHolders
<1>3. PodsTyped'  BY TypeParts, SameCluster DEF Abort
<1> QED  BY <1>1, <1>2, <1>3, IdleTyped DEF Abort, QueuedTyped

LEMMA RejectTyped ==
    ASSUME TypeOK, Abort, UNCHANGED budget
    PROVE  TypeOK'
BY AbortTyped, TypeParts, SameCluster

(* A step of the worker that reads, or writes one Data.                    *)
LEMMA ReadsTyped ==
    ASSUME TypeOK, Reads, DataTyped', WorkerTyped'
    PROVE  TypeOK'
BY TypeParts, SameCluster, SameTyped DEF Reads

LEMMA GetDataSetTyped ==
    ASSUME TypeOK, GetDataSet \/ GetDataSetGone
    PROVE  TypeOK'
<1>1. CASE GetDataSetGone
  BY <1>1, TypeParts, SameCluster, SameTyped DEF GetDataSetGone, QueuedTyped
<1>2. CASE GetDataSet
  <2>1. DsTyped'
    BY <1>2, TypeParts DEF GetDataSet, TakeDs, CopyLag, DsTyped, DsHolders
  <2>2. dsCache \in DSObject  BY <1>2, TypeParts DEF GetDataSet, DsTyped
  <2>3. WorkerTyped'
    BY <1>2, <2>2, TypeParts, NoneAssumption DEF GetDataSet, WorkerTyped
  <2>4. DataTyped' /\ PodsTyped' /\ BudgetTyped' /\ QueuedTyped'
    BY <1>2, TypeParts, SameCluster DEF GetDataSet, QueuedTyped
  <2> QED  BY <2>1, <2>3, <2>4, TypeParts
<1> QED  BY <1>1, <1>2

LEMMA ListPodsTyped ==
    ASSUME TypeOK, ListPods
    PROVE  TypeOK'
<1>1. Existing(podsCache) \subseteq Pods
  BY TypeParts DEF Existing, PodsTyped
<1>2. WorkerTyped'  BY <1>1, TypeParts DEF ListPods, WorkerTyped
<1> QED  BY <1>2, TypeParts, SameCluster, ReadsTyped DEF ListPods

LEMMA ListDataTyped ==
    ASSUME TypeOK, ListData
    PROVE  TypeOK'
<1>1. dataMap' = {d \in Names : dataCache[d] # None}
  BY TypeParts DEF ListData, Existing, DataTyped
<1>2. DataTyped'
  BY <1>1, TypeParts, SameCluster, TakeCopyTyped DEF ListData, DataHolders
<1>3. \A d \in dataMap' : dataCache[d] \in DataObject
  BY <1>1, TypeParts DEF DataTyped
<1>4. dataMap' # {} => dataOld' \in [name : dataMap', obj : DataObject]
  BY <1>3 DEF ListData
<1>5. dataMap' = {} => dataOld' = None  BY DEF ListData
<1>6. /\ DOMAIN dataList' = dataMap'
      /\ \A d \in dataMap' : dataList'[d] \in DataObject
  BY <1>3 DEF ListData
<1>7. /\ step' = "sync" /\ todo' = podList /\ podList' = podList /\ set' = set
      /\ step = "listData"
  BY DEF ListData, SameSet
<1>8. WorkerTyped'
  BY <1>1, <1>4, <1>5, <1>6, <1>7, TypeParts DEF WorkerTyped
<1> QED  BY <1>2, <1>8, ReadsTyped DEF ListData

(* Syncing one pod leaves the rest of the worker's state alone.            *)
LEMMA SyncedTyped ==
    ASSUME TypeOK, NEW p, Synced(p), Visit(p), DataTyped',
           DOMAIN dataList' \subseteq Names,
           \A d \in DOMAIN dataList' : dataList'[d] \in DataObject,
           IF dataMap = {} THEN dataOld' = None
           ELSE dataOld' \in [name : dataMap, obj : DataObject]
    PROVE  TypeOK'
<1>1. WorkerTyped'  BY TypeParts DEF Synced, Visit, SameSet, WorkerTyped
<1> QED  BY <1>1, ReadsTyped DEF Synced

LEMMA UpdateDataTyped ==
    ASSUME TypeOK, NEW p, UpdateData(p)
    PROVE  TypeOK'
<1> DEFINE obj == [data[dataOld.name] EXCEPT !.spec = set.spec]
<1>1. dataOld \in [name : dataMap, obj : DataObject] /\ dataMap \subseteq Names
  BY TypeParts DEF UpdateData, Listed, WorkerTyped
<1>2. data[dataOld.name] \in DataObject
  BY <1>1, TypeParts DEF UpdateData, DataOldCurrent, DataTyped
<1>3. set.spec \in Templates  BY WorkingTyped DEF UpdateData, Visit
<1>4. obj \in DataObject  BY <1>2, <1>3 DEF DataObject
<1>5. PutData("dataset", dataOld.name, obj) /\ dataOld' = [dataOld EXCEPT !.obj = obj]
  BY DEF UpdateData
<1> HIDE DEF obj
<1>6. DataTyped'  BY <1>1, <1>4, <1>5, TypeParts, PutDataTyped
<1>7. dataOld' \in [name : dataMap, obj : DataObject]  BY <1>1, <1>4, <1>5
<1>8. dataMap # {} /\ dataList' = dataList  BY DEF UpdateData, Listed
<1>9. Synced(p) /\ Visit(p)  BY DEF UpdateData
<1> QED  BY <1>6, <1>7, <1>8, <1>9, TypeParts, SyncedTyped DEF WorkerTyped

LEMMA CreateDataTyped ==
    ASSUME TypeOK, NEW p \in Pods, CreateData(p)
    PROVE  TypeOK'
<1> DEFINE new == NewData(p, set.spec, set.uid)
           d == DataName(p)
<1>1. d \in Names  BY DEF CreateData, Visit, Names
<1>2. set.spec \in Templates /\ set.uid \in Nat
  BY WorkingTyped DEF CreateData, Visit
<1>3. new \in DataObject  BY <1>2, NewDataTyped
<1>4. /\ PutData("env", d, new)
      /\ dataList' = [x \in DOMAIN dataList \cup {d} |->
                         IF x = d THEN new ELSE dataList[x]]
      /\ Synced(p) /\ Visit(p) /\ UNCHANGED dataOld
  BY DEF CreateData
<1> HIDE DEF new, d
<1>5. DataTyped'  BY <1>1, <1>3, <1>4, TypeParts, PutDataTyped
<1> QED  BY <1>1, <1>3, <1>4, <1>5, TypeParts, SyncedTyped DEF WorkerTyped

LEMMA KeepDataTyped ==
    ASSUME TypeOK, NEW p, KeepData(p)
    PROVE  TypeOK'
<1>1. DataTyped'  BY TypeParts, SameCluster DEF KeepData
<1> QED  BY <1>1, TypeParts, SyncedTyped DEF KeepData, WorkerTyped

LEMMA PanicTyped ==
    ASSUME TypeOK, Panic, step # "idle"
    PROVE  TypeOK'
<1>1. WorkerTyped'  BY TypeParts DEF Panic, WorkerTyped
<1> QED  BY <1>1, TypeParts, SameCluster, SameTyped DEF Panic

LEMMA PruneDataTyped ==
    ASSUME TypeOK, NEW d \in Names, PruneData(d)
    PROVE  TypeOK'
<1>1. DataTyped'
  BY TypeParts, SameCluster, DeleteDataTyped DEF PruneData
<1>2. WorkerTyped'
  BY TypeParts DEF PruneData, Drop, SameSet, WorkerTyped
<1> QED  BY <1>1, <1>2, ReadsTyped DEF PruneData

LEMMA NewStatusTyped ==
    ASSUME TypeOK, step # "idle"
    PROVE  NewStatus \in DSStatus
<1>1. DOMAIN dataList \subseteq Names  BY TypeParts DEF WorkerTyped
<1>2. Cardinality(DOMAIN dataList) \in Nat  BY <1>1, NamesCounted
<1>3. Cardinality({d \in DOMAIN dataList :
                       Success(dataList[d]) = NumItems[set.spec]}) \in Nat
  BY <1>1, NamesCounted
<1>4. NumItems[set.spec] \in Nat  BY WorkingTyped, ItemsFinite
<1> QED  BY <1>2, <1>3, <1>4 DEF NewStatus, DSStatus

LEMMA UpdateStatusTyped ==
    ASSUME TypeOK, UpdateStatus
    PROVE  TypeOK'
<1>1. NewStatus \in DSStatus  BY NewStatusTyped DEF UpdateStatus, StatusStep, SyncDone
<1>2. DsTyped'
  <2>1. CASE NewStatus = set.status
    BY <2>1, TypeParts DEF UpdateStatus, DropDs, DsTyped, DsHolders
  <2>2. CASE NewStatus # set.status
    <3>1. ds \in DSObject
      BY <2>2, TypeParts DEF UpdateStatus, SetCurrent, DsTyped
    <3>2. [ds EXCEPT !.status = NewStatus] \in DSObject
      BY <1>1, <3>1 DEF DSObject
    <3> QED
      BY <2>2, <3>2, TypeParts DEF UpdateStatus, DropDs, DsTyped, DsHolders
  <2> QED  BY <2>1, <2>2
<1>3. DataTyped'
  BY TypeParts DEF UpdateStatus, DataTyped, DropData, DataHolders
<1>4. WorkerTyped'  BY IdleTyped DEF UpdateStatus
<1> QED
  BY <1>2, <1>3, <1>4, TypeParts, SameCluster, SameTyped DEF UpdateStatus

LEMMA WorkTyped ==
    ASSUME TypeOK, Work
    PROVE  TypeOK'
<1>1. ASSUME NEW p \in Pods, UpdateRejected(p) \/ DataExists(p) \/ UnnameablePod(p)
      PROVE  TypeOK'
  BY <1>1, RejectTyped, PanicTyped
  DEF UpdateRejected, DataExists, UnnameablePod, Visit
<1>2. CASE StatusRejected  BY <1>2, RejectTyped DEF StatusRejected
<1> QED
  BY <1>1, <1>2, GetDataSetTyped, ListPodsTyped, ListDataTyped, KeepDataTyped,
     UpdateDataTyped, CreateDataTyped, PruneDataTyped, UpdateStatusTyped
  DEF Work

LEMMA FailureTyped ==
    ASSUME TypeOK, Fault \/ Restart
    PROVE  TypeOK'
<1>1. CASE Fault
  BY <1>1, AbortTyped, DisruptTyped, TypeParts DEF Fault
<1>2. CASE Restart
  <2>1. BudgetTyped'
    BY <1>2, TypeParts, SameCluster, DisruptTyped DEF Restart
  <2>2. DsTyped' /\ DataTyped' /\ PodsTyped'
    BY <1>2, TypeParts, RelistTyped DEF Restart, Boot
  <2>3. WorkerTyped' /\ QueuedTyped'
    BY <1>2, IdleTyped DEF Restart, Boot, QueuedTyped
  <2> QED  BY <2>1, <2>2, <2>3, TypeParts
<1> QED  BY <1>1, <1>2

LEMMA DeliverTyped ==
    ASSUME TypeOK, Deliver
    PROVE  TypeOK'
<1>1. DsTyped' /\ DataTyped' /\ PodsTyped' /\ BudgetTyped'
  BY TypeParts, SameCluster, DeliveriesTyped
  DEF Deliver, OnDataSetEvent, OnDataEvents, OnPodEvents, ResyncDataSet,
      ResyncData, Again
<1>2. WorkerTyped'
  BY TypeParts, SameTyped
  DEF Deliver, OnDataSetEvent, OnDataEvents, OnPodEvents, ResyncDataSet,
      ResyncData, Again
<1>3. QueuedTyped'
  BY TypeParts
  DEF Deliver, OnDataSetEvent, OnDataEvents, OnPodEvents, ResyncDataSet,
      ResyncData, Again, QueuedTyped
<1> QED  BY <1>1, <1>2, <1>3, TypeParts

(* A write by the environment to one kind of object.                       *)
LEMMA EnvironmentParts ==
    ASSUME TypeOK, UNCHANGED setVars,
           DsTyped', DataTyped', PodsTyped', BudgetTyped'
    PROVE  TypeOK'
BY TypeParts, SameTyped DEF setVars

LEMMA DataSetWrittenTyped ==
    ASSUME TypeOK,
           \/ \E t \in Templates : EditTemplate(t) \/ CreateDataSet(t)
           \/ DeleteDataSet
    PROVE  TypeOK'
<1>1. PICK obj \in DSObject \cup {None} : PutDs("env", obj)
  <2>1. ASSUME NEW t \in Templates, EditTemplate(t)
        PROVE  [ds EXCEPT !.spec = t] \in DSObject
    BY <2>1, TypeParts DEF EditTemplate, DsTyped, DSObject
  <2>2. budget \in Nat /\ 1 + MaxDisruptions - budget \in Nat
    BY TypeParts, ClusterAssumption DEF BudgetTyped
  <2>3. ASSUME NEW t \in Templates
        PROVE  NewDataSet(t, 1 + MaxDisruptions - budget) \in DSObject
    BY <2>2, NewDataSetTyped
  <2> QED  BY <2>1, <2>3 DEF EditTemplate, CreateDataSet, DeleteDataSet
<1>2. DsTyped'  BY <1>1, TypeParts, PutDsTyped
<1>3. /\ BudgetTyped'
      /\ OnlyDs
  BY TypeParts, DisruptTyped DEF EditTemplate, CreateDataSet, DeleteDataSet
<1> QED  BY <1>2, <1>3, TypeParts, SameCluster, EnvironmentParts DEF OnlyDs

LEMMA TrackTyped ==
    ASSUME TypeOK, NEW d \in Names, Track(d) \/ Report(d)
    PROVE  DataTyped'
<1>1. data[d] \in DataObject
  BY TypeParts DEF Track, Report, DataTyped
<1>2. CASE Track(d)
  <2> DEFINE st == Listing(data[d].spec, [i \in Items(data[d].spec) |-> "waiting"])
  <2>1. [i \in Items(data[d].spec) |-> "waiting"] \in [Items(data[d].spec) -> Phases]
    BY DEF Phases
  <2>2. st \in Status  BY <1>1, <2>1, ListingType DEF DataObject
  <2>3. PutData("env", d, [data[d] EXCEPT !.fin = TRUE, !.st = st])
    BY <1>2 DEF Track
  <2> HIDE DEF st
  <2>4. [data[d] EXCEPT !.fin = TRUE, !.st = st] \in DataObject
    BY <1>1, <2>2 DEF DataObject
  <2> QED  BY <2>3, <2>4, TypeParts, PutDataTyped
<1>3. CASE Report(d)
  <2> DEFINE t  == data[d].st.of
             st == Listing(t, [i \in Items(t) |-> "success"])
  <2>1. t \in Templates  BY <1>1, <1>3 DEF Report, DataObject, Status
  <2>2. [i \in Items(t) |-> "success"] \in [Items(t) -> Phases]  BY DEF Phases
  <2>3. st \in Status  BY <2>1, <2>2, ListingType
  <2>4. PutData("env", d, [data[d] EXCEPT !.st = st])  BY <1>3 DEF Report
  <2> HIDE DEF st
  <2>5. [data[d] EXCEPT !.st = st] \in DataObject
    BY <1>1, <2>3 DEF DataObject
  <2> QED  BY <2>4, <2>5, TypeParts, PutDataTyped
<1> QED  BY <1>2, <1>3

LEMMA DataWrittenTyped ==
    ASSUME TypeOK, NEW d \in Names, UserDeletes(d) \/ Collect(d) \/ DataController(d)
    PROVE  TypeOK'
<1>1. DataTyped'
  <2>1. CASE UserDeletes(d) \/ Collect(d)
    BY <2>1, TypeParts, DeleteDataTyped DEF UserDeletes, Collect
  <2>2. CASE Release(d)  BY <2>2, TypeParts, PutDataTyped DEF Release
  <2> QED  BY <2>1, <2>2, TrackTyped DEF DataController
<1>2. BudgetTyped'
  BY TypeParts, SameCluster, DisruptTyped
  DEF UserDeletes, Collect, DataController, Track, Report, Release, OnlyData
<1>3. UNCHANGED <<dsVars, podVars, setVars>>
  BY DEF UserDeletes, Collect, DataController, Track, Report, Release, OnlyData
<1> QED  BY <1>1, <1>2, <1>3, TypeParts, SameCluster, EnvironmentParts

LEMMA PodWrittenTyped ==
    ASSUME TypeOK, NEW p \in Pods, PodChurn(p)
    PROVE  TypeOK'
<1>1. PodsTyped' /\ BudgetTyped'
  BY TypeParts, PodChurnTyped DEF PodChurn
<1> QED  BY <1>1, TypeParts, SameCluster, EnvironmentParts DEF PodChurn

LEMMA InitTyped == Init => TypeOK
<1> SUFFICES ASSUME Init PROVE TypeOK  OBVIOUS
<1>1. ds \in DSObject \cup {None}  BY NewDataSetTyped DEF Init
<1>2. pods \in [Pods -> PodObject \cup {None}]  BY DEF Init, PodObject
<1>3. data \in [Names -> DataObject \cup {None}]  BY DEF Init
<1>4. DsTyped /\ DataTyped /\ PodsTyped /\ BudgetTyped
  BY <1>1, <1>2, <1>3, ClusterInitTyped DEF Init
<1>5. WorkerTyped /\ QueuedTyped  BY DEF Init, WorkerTyped, QueuedTyped
<1> QED  BY <1>4, <1>5, TypeParts

LEMMA NextTyped == TypeOK /\ [Next]_vars => TypeOK'
<1> SUFFICES ASSUME TypeOK, [Next]_vars PROVE TypeOK'  OBVIOUS
<1>1. CASE Environment
  BY <1>1, DataSetWrittenTyped, DataWrittenTyped, PodWrittenTyped DEF Environment
<1>2. CASE UNCHANGED vars
  BY <1>2, TypeParts, SameCluster, SameTyped DEF vars, setVars
<1> QED  BY <1>1, <1>2, WorkTyped, DeliverTyped, FailureTyped DEF Next

(* The objects, the caches and the worker's lists always are what their    *)
(* types say, and every name the worker updates or prunes is one that it   *)
(* listed or created, whatever the environment does.                       *)
THEOREM TypeCorrect == Spec => []TypeOK
<1> QED  BY InitTyped, NextTyped, PTL DEF Spec

-----------------------------------------------------------------------------
(* Caches.  Every write of the controller and of the others is an event.   *)

LEMMA DropNoted ==
    /\ lagDs' = DropDs(lagDs) /\ UNCHANGED <<ds, dsCache>> => DsNoted
    /\ DataTyped /\ lagData' = DropData(lagData) /\ UNCHANGED <<data, dataCache>>
       => DataNoted
BY DEF DropDs, DsNoted, DropData, DataNoted, DataTyped

LEMMA AbortNoted ==
    ASSUME TypeOK, Abort
    PROVE  DsNoted /\ DataNoted /\ PodsNoted
BY TypeParts, DropNoted, SameNoted DEF Abort

LEMMA WorkNoted ==
    ASSUME TypeOK, Work
    PROVE  DsNoted /\ DataNoted /\ PodsNoted
<1>0. DataTyped /\ PodsTyped  BY TypeParts
<1>1. PodsNoted
  <2>1. CASE \E p \in Pods : UpdateRejected(p)
    BY <2>1, AbortNoted DEF UpdateRejected
  <2>2. CASE StatusRejected  BY <2>2, AbortNoted DEF StatusRejected
  <2>3. UNCHANGED podVars => PodsNoted  BY SameNoted
  <2> QED
    BY <2>1, <2>2, <2>3
    DEF Work, GetDataSet, GetDataSetGone, ListPods, ListData, KeepData, UpdateData,
        CreateData, DataExists, UnnameablePod, PruneData, UpdateStatus, Synced,
        Reads, Panic
<1>2. DsNoted
  <2>1. CASE \/ \E p \in Pods : UpdateRejected(p)
             \/ StatusRejected
    BY <2>1, AbortNoted DEF UpdateRejected, StatusRejected
  <2>2. CASE GetDataSet  BY <1>0, <2>2, TakeCopyNoted DEF GetDataSet
  <2>3. CASE UpdateStatus
    BY <2>3, DropNoted DEF UpdateStatus, DropDs, DsHolders, DsNoted
  <2>4. UNCHANGED dsVars => DsNoted  BY SameNoted
  <2> QED
    BY <2>1, <2>2, <2>3, <2>4
    DEF Work, GetDataSetGone, ListPods, ListData, KeepData, UpdateData,
        CreateData, DataExists, UnnameablePod, PruneData, Synced, Reads, Panic
<1>3. DataNoted
  <2>1. CASE \/ \E p \in Pods : UpdateRejected(p)
             \/ StatusRejected
    BY <2>1, AbortNoted DEF UpdateRejected, StatusRejected
  <2>2. CASE ListData
    <3>1. Existing(dataCache) \subseteq Names  BY <1>0 DEF Existing, DataTyped
    <3> QED  BY <1>0, <2>2, <3>1, TakeCopyNoted, SameNoted DEF ListData
  <2>3. ASSUME NEW p \in Pods, UpdateData(p)  PROVE DataNoted
    <3>1. dataOld.name \in Names
      BY <2>3, TypeParts DEF UpdateData, Listed, WorkerTyped
    <3> QED  BY <1>0, <2>3, <3>1, PutDataNoted DEF UpdateData
  <2>4. ASSUME NEW p \in Pods, CreateData(p)  PROVE DataNoted
    BY <1>0, <2>4, PutDataNoted DEF CreateData, Visit, Names
  <2>5. ASSUME NEW d \in Names, PruneData(d)  PROVE DataNoted
    BY <1>0, <2>5, DeleteDataNoted, SameNoted DEF PruneData
  <2>6. CASE UpdateStatus  BY <1>0, <2>6, DropNoted DEF UpdateStatus
  <2>7. UNCHANGED dataVars => DataNoted  BY SameNoted
  <2> QED
    BY <2>1, <2>2, <2>3, <2>4, <2>5, <2>6, <2>7
    DEF Work, GetDataSet, GetDataSetGone, ListPods, KeepData, DataExists,
        UnnameablePod, Panic
<1> QED  BY <1>1, <1>2, <1>3

LEMMA EnvironmentNoted ==
    ASSUME TypeOK, Environment
    PROVE  DsNoted /\ DataNoted /\ PodsNoted
<1>0. DataTyped /\ PodsTyped  BY TypeParts
<1>1. CASE \/ \E t \in Templates : EditTemplate(t) \/ CreateDataSet(t)
           \/ DeleteDataSet
  BY <1>1, PutDsNoted, SameNoted DEF EditTemplate, CreateDataSet, DeleteDataSet, OnlyDs
<1>2. ASSUME NEW d \in Names, UserDeletes(d) \/ Collect(d) \/ DataController(d)
      PROVE  DsNoted /\ DataNoted /\ PodsNoted
  <2>1. DataNoted
    BY <1>0, <1>2, DeleteDataNoted, PutDataNoted
    DEF UserDeletes, Collect, DataController, Track, Report, Release
  <2>2. UNCHANGED <<dsVars, podVars>>
    BY <1>2 DEF UserDeletes, Collect, DataController, Track, Report, Release, OnlyData
  <2> QED  BY <2>1, <2>2, SameNoted
<1>3. ASSUME NEW p \in Pods, PodChurn(p)
      PROVE  DsNoted /\ DataNoted /\ PodsNoted
  BY <1>0, <1>3, PodChurnNoted, SameNoted DEF PodChurn
<1> QED  BY <1>1, <1>2, <1>3 DEF Environment

LEMMA CachesNext ==
    ASSUME TypeOK, CachesCurrent, [Next]_vars
    PROVE  CachesCurrent'
<1>0. DataTyped /\ PodsTyped  BY TypeParts
<1>1. CASE Work \/ Fault \/ Environment \/ UNCHANGED vars
  BY <1>1, WorkNoted, EnvironmentNoted, AbortNoted, SameNoted, NotedCurrent
  DEF Fault, vars
<1>2. CASE Deliver
  BY <1>0, <1>2
  DEF Deliver, OnDataSetEvent, DeliverDs, OnDataEvents, DeliverData,
      OnPodEvents, ResyncDataSet, ResyncData, Again, DeliverPods, dsVars,
      dataVars, podVars, CachesCurrent, DataTyped, PodsTyped
<1>3. CASE Restart  BY <1>3, RelistCurrent DEF Restart, Boot
<1> QED  BY <1>1, <1>2, <1>3 DEF Next

-----------------------------------------------------------------------------
(* Beside the Data controller.  No step of this one writes a pod or takes  *)
(* a finalizer, and each leaves the other's copy behind what it changed.   *)

LEMMA WorkForeign ==
    ASSUME TypeOK, Work
    PROVE  ForeignWrites /\ UNCHANGED podVars
<1>0. DataTyped  BY TypeParts
<1>1. UNCHANGED podVars
  BY DEF Work, GetDataSet, GetDataSetGone, ListPods, ListData, KeepData, UpdateData,
         UpdateRejected, CreateData, DataExists, UnnameablePod, PruneData,
         UpdateStatus, StatusRejected, Synced, Reads, Panic, Abort
<1>2. ASSUME lagData' = DropData(lagData), UNCHANGED <<data, dataCache>>
      PROVE  ForeignWrites
  BY <1>0, <1>2 DEF DropData, DataTyped, ForeignWrites
<1>3. ASSUME ListData  PROVE ForeignWrites
  <2>1. \A d \in Names : TakeData("dataset", d) => ForeignWrites
    BY <1>0 DEF TakeData, CopyLag, DataTyped, ForeignWrites
  <2>2. UNCHANGED dataVars => ForeignWrites  BY SameForeign
  <2>3. Existing(dataCache) \subseteq Names  BY <1>0 DEF Existing, DataTyped
  <2> QED  BY <1>3, <2>1, <2>2, <2>3 DEF ListData
<1>4. ASSUME NEW p \in Pods, UpdateData(p)  PROVE ForeignWrites
  <2> DEFINE obj == [data[dataOld.name] EXCEPT !.spec = set.spec]
  <2>1. dataOld.name \in Names
    BY <1>4, TypeParts DEF UpdateData, Listed, WorkerTyped
  <2>2. data[dataOld.name] \in DataObject
    BY <1>0, <1>4, <2>1 DEF UpdateData, DataOldCurrent, DataTyped
  <2>3. set.spec \in Templates  BY <1>4, WorkingTyped DEF UpdateData, Visit
  <2>4. obj \in DataObject /\ obj.fin = data[dataOld.name].fin
    BY <2>2, <2>3 DEF DataObject
  <2>5. PutData("dataset", dataOld.name, obj)  BY <1>4 DEF UpdateData
  <2> HIDE DEF obj
  <2> QED  BY <1>0, <2>1, <2>4, <2>5, PutDataForeign, NoneAssumption
<1>5. ASSUME NEW p \in Pods, CreateData(p)  PROVE ForeignWrites
  BY <1>0, <1>5, PutDataForeign DEF CreateData, Visit, Names
<1>6. ASSUME NEW d \in Names, PruneData(d)  PROVE ForeignWrites
  BY <1>0, <1>6, DeleteDataForeign, SameForeign DEF PruneData
<1>7. UNCHANGED dataVars => ForeignWrites  BY SameForeign
<1>8. ForeignWrites
  BY <1>2, <1>3, <1>4, <1>5, <1>6, <1>7
  DEF Work, GetDataSet, GetDataSetGone, ListPods, KeepData, UpdateRejected,
      DataExists, UnnameablePod, UpdateStatus, StatusRejected, Panic, Abort
<1> QED  BY <1>1, <1>8

LEMMA FaultForeign ==
    ASSUME TypeOK, Fault
    PROVE  ForeignWrites /\ UNCHANGED podVars
BY TypeParts DEF Fault, Abort, DropData, DataTyped, ForeignWrites

LEMMA UsersForeign ==
    ASSUME TypeOK,
           \/ \E t \in Templates : EditTemplate(t) \/ CreateDataSet(t)
           \/ DeleteDataSet
           \/ \E d \in Names : UserDeletes(d) \/ Collect(d)
    PROVE  ForeignWrites /\ UNCHANGED podVars
<1>1. ASSUME NEW d \in Names, UserDeletes(d) \/ Collect(d)
      PROVE  ForeignWrites /\ UNCHANGED podVars
  BY <1>1, TypeParts, DeleteDataForeign DEF UserDeletes, Collect, OnlyData
<1> QED
  BY <1>1, SameForeign DEF EditTemplate, CreateDataSet, DeleteDataSet, OnlyDs

LEMMA OthersTyped ==
    ASSUME TypeOK, ClusterTypeOK', UNCHANGED setVars
    PROVE  TypeOK'
BY ClusterTypeParts, EnvironmentParts DEF ClusterTypeOK, DsTyped, DataTyped,
   PodsTyped, BudgetTyped

-----------------------------------------------------------------------------
(* Data are created by CreateData alone, and keep their pod for life.      *)

LEMMA OnlyCreateDataCreates ==
    ASSUME TypeOK, [Next]_vars, ~ \E p \in Pods : CreateData(p)
    PROVE  NoneCreated
<1>0. DataTyped  BY TypeParts
<1>1. ASSUME NEW p \in Pods, UpdateData(p)  PROVE NoneCreated
  <2> DEFINE obj == [data[dataOld.name] EXCEPT !.spec = set.spec]
  <2>1. dataOld.name \in Names
    BY <1>1, TypeParts DEF UpdateData, Listed, WorkerTyped
  <2>2. data[dataOld.name] # None /\ data[dataOld.name] \in DataObject
    BY <1>0, <1>1, <2>1 DEF UpdateData, DataOldCurrent, DataTyped
  <2>3. obj.pod = data[dataOld.name].pod  BY <2>2 DEF DataObject
  <2>4. PutData("dataset", dataOld.name, obj)  BY <1>1 DEF UpdateData
  <2> HIDE DEF obj
  <2> QED  BY <1>0, <2>1, <2>2, <2>3, <2>4, PutKeepsPod
<1>2. ASSUME NEW d \in Names, PruneData(d)  PROVE NoneCreated
  BY <1>0, <1>2, DeleteKeepsPod, SameKeepsPod DEF PruneData, dataVars
<1>3. ASSUME NEW d \in Names, UserDeletes(d) \/ Collect(d) \/ Release(d)
      PROVE  NoneCreated
  <2>1. CASE UserDeletes(d) \/ Collect(d)
    BY <1>0, <2>1, DeleteKeepsPod DEF UserDeletes, Collect
  <2>2. CASE Release(d)  BY <1>0, <2>2, PutKeepsPod DEF Release
  <2> QED  BY <1>3, <2>1, <2>2
<1>4. ASSUME NEW d \in Names, Track(d) \/ Report(d)
      PROVE  NoneCreated
  <2>1. data[d] # None /\ data[d] \in DataObject
    BY <1>0, <1>4 DEF Track, Report, DataTyped
  <2>2. ASSUME NEW st
        PROVE  /\ [data[d] EXCEPT !.fin = TRUE, !.st = st].pod = data[d].pod
               /\ [data[d] EXCEPT !.st = st].pod = data[d].pod
    BY <2>1 DEF DataObject
  <2> QED  BY <1>0, <1>4, <2>1, <2>2, PutKeepsPod DEF Track, Report
<1>5. UNCHANGED data => NoneCreated  BY SameKeepsPod
<1>6. CASE Work
  BY <1>1, <1>2, <1>5, <1>6
  DEF Work, GetDataSet, GetDataSetGone, ListPods, ListData, TakeData, KeepData,
      UpdateRejected, DataExists, UnnameablePod, UpdateStatus, StatusRejected,
      Abort, Panic, dataVars
<1>7. CASE Fault \/ Restart
  BY <1>5, <1>7 DEF Fault, Abort, Restart, Boot, Relist, storeVars
<1>8. CASE Deliver
  BY <1>5, <1>8
  DEF Deliver, OnDataSetEvent, OnDataEvents, DeliverData, OnPodEvents,
      ResyncDataSet, ResyncData, Again, dataVars
<1>9. CASE Environment
  BY <1>3, <1>4, <1>5, <1>9
  DEF Environment, EditTemplate, CreateDataSet, DeleteDataSet, OnlyDs, PodChurn,
      DataController, dataVars
<1>10. CASE UNCHANGED vars  BY <1>5, <1>10 DEF vars, dataVars
<1> QED  BY <1>6, <1>7, <1>8, <1>9, <1>10 DEF Next

(* What CreateData makes.                                                  *)
LEMMA CreateDataMakes ==
    ASSUME TypeOK, NEW p \in Pods, CreateData(p)
    PROVE  /\ step = "sync" /\ p \in todo /\ Nameable(p) /\ DataName(p) \in Names
           /\ data[DataName(p)] = None /\ DataName(p) \notin dataMap
           /\ data'[DataName(p)] \in DataObject /\ data'[DataName(p)].pod = p
           /\ data'[DataName(p)] # None /\ ~data'[DataName(p)].del
           /\ \A e \in Names \ {DataName(p)} : data'[e] = data[e]
<1> DEFINE new == NewData(p, set.spec, set.uid)
           d == DataName(p)
<1>1. step = "sync" /\ p \in todo /\ Nameable(p) /\ data[d] = None /\ d \notin dataMap
  BY DEF CreateData, Visit, Listed
<1>2. d \in Names  BY <1>1 DEF Names
<1>3. set.spec \in Templates /\ set.uid \in Nat  BY <1>1, WorkingTyped
<1>4. new \in DataObject /\ new.pod = p /\ ~new.del
  BY <1>3, NewDataTyped DEF NewData
<1>5. data' = [data EXCEPT ![d] = new]
  BY DEF CreateData, PutData, WriteData
<1>6. DataTyped  BY TypeParts
<1> HIDE DEF new
<1> QED  BY <1>1, <1>2, <1>4, <1>5, <1>6, NoneAssumption DEF DataTyped

(* A Data is called after its pod, in the store, the cache and the list.   *)
Labelled(obj, d) == Nameable(obj.pod) /\ DataName(obj.pod) = d
LabelInv ==
    /\ \A d \in Names : /\ data[d] # None => Labelled(data[d], d)
                        /\ dataCache[d] # None => Labelled(dataCache[d], d)
    /\ \A d \in DOMAIN dataList : Labelled(dataList[d], d)

LEMMA LabelNext ==
    ASSUME TypeOK, LabelInv, [Next]_vars
    PROVE  LabelInv'
<1>1. \A d \in Names : data'[d] # None => Labelled(data'[d], d)
  <2>1. CASE NoneCreated  BY <2>1 DEF NoneCreated, LabelInv, Labelled
  <2>2. ASSUME NEW p \in Pods, CreateData(p)
        PROVE  \A d \in Names : data'[d] # None => Labelled(data'[d], d)
    BY <2>2, CreateDataMakes DEF LabelInv, Labelled
  <2> QED  BY <2>1, <2>2, OnlyCreateDataCreates
<1>2. \A d \in Names : dataCache'[d] # None => Labelled(dataCache'[d], d)
  <2>1. CASE DataNoted  BY <2>1 DEF DataNoted, LabelInv, Labelled
  <2>2. CASE dataCache' = data'  BY <2>2, <1>1
  <2>3. CASE Work \/ Fault \/ Environment \/ UNCHANGED vars
    BY <2>1, <2>3, WorkNoted, EnvironmentNoted, AbortNoted, SameNoted
    DEF Fault, vars
  <2>4. CASE Deliver
    BY <2>1, <2>2, <2>4, SameNoted
    DEF Deliver, OnDataSetEvent, OnDataEvents, DeliverData, OnPodEvents,
        ResyncDataSet, ResyncData, Again
  <2>5. CASE Restart
    BY <2>2, <2>5 DEF Restart, Boot, Relist, storeVars
  <2> QED  BY <2>3, <2>4, <2>5 DEF Next
<1>3. \A d \in DOMAIN dataList' : Labelled(dataList'[d], d)
  <2>1. CASE dataList' = dataList  BY <2>1 DEF LabelInv, Labelled
  <2>2. CASE Idle  BY <2>2 DEF Idle
  <2>3. CASE ListData
    <3>1. dataMap' = {d \in Names : dataCache[d] # None}
      BY <2>3, TypeParts DEF ListData, Existing, DataTyped
    <3>2. dataList' = [d \in dataMap' |-> dataCache[d]]  BY <2>3 DEF ListData
    <3> QED  BY <3>1, <3>2 DEF LabelInv, Labelled
  <2>4. ASSUME NEW p \in Pods, CreateData(p)
        PROVE  \A d \in DOMAIN dataList' : Labelled(dataList'[d], d)
    <3> DEFINE new == NewData(p, set.spec, set.uid)
    <3>1. dataList' = [x \in DOMAIN dataList \cup {DataName(p)} |->
                         IF x = DataName(p) THEN new ELSE dataList[x]]
      BY <2>4 DEF CreateData
    <3>2. new.pod = p /\ Nameable(p)  BY <2>4, CreateDataMakes DEF NewData
    <3> HIDE DEF new
    <3> QED  BY <3>1, <3>2 DEF LabelInv, Labelled
  <2>5. ASSUME NEW d \in Names, PruneData(d)
        PROVE  \A e \in DOMAIN dataList' : Labelled(dataList'[e], e)
    BY <2>5 DEF PruneData, Drop, LabelInv, Labelled
  <2>6. CASE Work
    BY <2>1, <2>2, <2>3, <2>4, <2>5, <2>6
    DEF Work, GetDataSet, GetDataSetGone, ListPods, KeepData, UpdateData,
        UpdateRejected, DataExists, UnnameablePod, UpdateStatus, StatusRejected,
        Abort, Panic, localVars
  <2>7. CASE Fault \/ Restart  BY <2>2, <2>7 DEF Fault, Abort, Restart, Boot
  <2>8. CASE Deliver \/ Environment \/ UNCHANGED vars
    BY <2>1, <2>8
    DEF Deliver, OnDataSetEvent, OnDataEvents, OnPodEvents, ResyncDataSet,
        ResyncData, Again, Environment, EditTemplate, CreateDataSet,
        DeleteDataSet, OnlyDs, OnlyData, UserDeletes, Collect, DataController,
        Track, Report, Release, PodChurn, vars, setVars, localVars
  <2> QED  BY <2>6, <2>7, <2>8 DEF Next
<1> QED  BY <1>1, <1>2, <1>3 DEF LabelInv

LEMMA LabelInit == Init => LabelInv
BY DEF Init, ClusterInit, LabelInv

-----------------------------------------------------------------------------
(* Pruning.  Where no name is used twice, neither by two pods whose names  *)
(* end alike nor by one pod after another, a pod that was seen and is not  *)
(* in the list is gone for good.                                           *)

DistinctNames ==
    \A p, q \in Pods :
        Nameable(p) /\ Nameable(q) /\ DataName(p) = DataName(q) => p = q
NamesUsedOnce == Allowed \cap {"cleanReuse", "reuseNames"} = {}

Known(p) == p \notin fresh /\ (podsCache[p] # None \/ pods[p] = None)
FreshInv == \A p \in fresh : pods[p] = None /\ podsCache[p] = None
KnownInv ==
    /\ FreshInv
    /\ \A p \in podList : Known(p)
    /\ \A d \in Names : data[d] # None => Known(data[d].pod)
    /\ step \in {"listData", "sync"} =>
          \A d \in Names : data[d] # None /\ data[d].pod \notin podList
                           => pods[data[d].pod] = None

LEMMA KnownStays ==
    ASSUME TypeOK, FreshInv, [Next]_vars, NamesUsedOnce
    PROVE  /\ FreshInv'
           /\ \A p \in Pods : Known(p) => /\ Known(p)'
                                          /\ pods[p] = None => pods'[p] = None
<1>0. PodsTyped  BY TypeParts
<1>1. CASE UNCHANGED <<pods, podsCache, fresh>>
  BY <1>1 DEF FreshInv, Known
<1>2. ASSUME NEW p \in Pods, CreatePod(p) \/ DeletePod(p)
      PROVE  /\ FreshInv'
             /\ \A q \in Pods : Known(q) => /\ Known(q)'
                                            /\ pods[q] = None => pods'[q] = None
  <2>1. CASE CreatePod(p)
    <3>1. p \in fresh  BY <2>1 DEF CreatePod, NameFree, NamesUsedOnce
    <3>2. fresh' = fresh \ {p} /\ podsCache' = podsCache
      BY <2>1 DEF CreatePod, PutPod
    <3>3. \A q \in Pods \ {p} : pods'[q] = pods[q]
      BY <1>0, <2>1 DEF CreatePod, PutPod, PodsTyped
    <3> QED  BY <1>0, <3>1, <3>2, <3>3 DEF FreshInv, Known, PodsTyped
  <2>2. CASE DeletePod(p)
    <3>1. fresh' = fresh /\ podsCache' = podsCache /\ pods' = [pods EXCEPT ![p] = None]
      BY <2>2 DEF DeletePod, PutPod
    <3> QED  BY <1>0, <3>1 DEF FreshInv, Known, PodsTyped
  <2> QED  BY <1>2, <2>1, <2>2
<1>3. CASE OnPodEvents \/ Restart
  <2>1. podsCache' = pods /\ pods' = pods /\ fresh' = fresh
    BY <1>3 DEF OnPodEvents, DeliverPods, Restart, Boot, Relist, storeVars
  <2> QED  BY <2>1 DEF FreshInv, Known
<1>4. CASE Work \/ Fault
  BY <1>1, <1>4
  DEF Work, Fault, GetDataSet, GetDataSetGone, ListPods, ListData, KeepData,
      UpdateData, UpdateRejected, CreateData, DataExists, UnnameablePod, PruneData,
      UpdateStatus, StatusRejected, Synced, Reads, Abort, Panic, podVars
<1>5. CASE \/ OnDataSetEvent \/ OnDataEvents \/ UNCHANGED vars
           \/ ResyncDataSet \/ \E d \in Names : ResyncData(d)
  BY <1>1, <1>5
  DEF OnDataSetEvent, OnDataEvents, ResyncDataSet, ResyncData, Again, vars, podVars
<1>6. CASE Environment
  BY <1>1, <1>2, <1>6
  DEF Environment, EditTemplate, CreateDataSet, DeleteDataSet, OnlyDs, OnlyData,
      UserDeletes, Collect, DataController, Track, Report, Release, PodChurn,
      UpdatePod, podVars
<1> QED  BY <1>2, <1>3, <1>4, <1>5, <1>6 DEF Next, Deliver

(* The list of pods only changes when it is made and when it is dropped.   *)
LEMMA PodListSteps ==
    ASSUME TypeOK, [Next]_vars
    PROVE  \/ podList' = podList /\ (step' = step \/ step' \notin {"listPods", "listData"})
              /\ (step' = "sync" => step \in {"listData", "sync"})
           \/ ListPods
           \/ podList' = {} /\ step' = "idle"
           \/ podList' = podList /\ step' = "listPods"
<1>1. CASE Work \/ Fault \/ Restart
  BY <1>1
  DEF Work, Fault, Restart, Boot, GetDataSet, GetDataSetGone, ListData, KeepData,
      UpdateData, UpdateRejected, CreateData, DataExists, UnnameablePod, PruneData,
      UpdateStatus, StatusRejected, Synced, SameSet, Abort, Panic, Idle, localVars
<1>2. CASE Deliver \/ Environment \/ UNCHANGED vars
  BY <1>2
  DEF Deliver, OnDataSetEvent, OnDataEvents, OnPodEvents, ResyncDataSet,
      ResyncData, Again, Environment, EditTemplate, CreateDataSet,
      DeleteDataSet, OnlyDs, OnlyData, UserDeletes, Collect, DataController,
      Track, Report, Release, PodChurn, vars, setVars, localVars
<1> QED  BY <1>1, <1>2 DEF Next

(* A pod that is listed has been there.                                    *)
LEMMA ListedNext ==
    ASSUME TypeOK, [Next]_vars, \A p \in fresh : podsCache[p] = None,
           podList \cap fresh = {}, fresh' \subseteq fresh
    PROVE  podList' \cap fresh' = {}
BY PodListSteps DEF ListPods, Existing

LEMMA KnownNext ==
    ASSUME TypeOK, KnownInv, [Next]_vars, NamesUsedOnce
    PROVE  KnownInv'
<1>1. /\ FreshInv'
      /\ \A p \in Pods : Known(p) => Known(p)' /\ (pods[p] = None => pods'[p] = None)
  BY KnownStays DEF KnownInv
<1>2. podList \subseteq Pods /\ \A d \in Names : data[d] # None => data[d].pod \in Pods
  BY TypeParts DEF WorkerTyped, DataTyped, DataObject
<1>3. \A p \in podList' : Known(p)'
  <2>1. CASE ListPods
    <3>1. podList' = {p \in Pods : podsCache[p] # None}
      BY <2>1, TypeParts DEF ListPods, Existing, PodsTyped
    <3>2. \A p \in podList' : Known(p)  BY <3>1 DEF Known, FreshInv, KnownInv
    <3> QED  BY <1>1, <3>1, <3>2
  <2>2. CASE podList' = podList  BY <1>1, <1>2, <2>2 DEF KnownInv
  <2>3. CASE podList' = {}  BY <2>3
  <2> QED  BY <2>1, <2>2, <2>3, PodListSteps
<1>4. ASSUME NEW d \in Names, data'[d] # None
      PROVE  Known(data[d].pod)'
  <2>1. PICK p \in Pods : data'[d].pod = p /\ Known(p)
    <3>1. CASE NoneCreated  BY <1>2, <1>4, <3>1 DEF NoneCreated, KnownInv
    <3>2. ASSUME NEW q \in Pods, CreateData(q)
          PROVE  \E p \in Pods : data'[d].pod = p /\ Known(p)
      <4>1. q \in podList /\ Known(q)
        BY <3>2, CreateDataMakes, TypeParts DEF WorkerTyped, KnownInv
      <4>2. CASE d = DataName(q)  BY <3>2, <4>1, <4>2, CreateDataMakes
      <4>3. CASE d # DataName(q)
        BY <1>2, <1>4, <3>2, <4>3, CreateDataMakes DEF KnownInv
      <4> QED  BY <4>2, <4>3
    <3> QED  BY <3>1, <3>2, OnlyCreateDataCreates
  <2> QED  BY <1>1, <2>1 DEF Known
<1>5. ASSUME step' \in {"listData", "sync"}, NEW d \in Names, data'[d] # None,
             data'[d].pod \notin podList'
      PROVE  pods'[data'[d].pod] = None
  <2>1. CASE ListPods
    <3>1. data' = data /\ podList' = {p \in Pods : podsCache[p] # None}
      BY <2>1, TypeParts DEF ListPods, dataVars, Existing, PodsTyped
    <3>2. podsCache[data[d].pod] = None /\ Known(data[d].pod)
      BY <1>2, <1>5, <3>1 DEF KnownInv
    <3> QED  BY <1>1, <1>2, <1>5, <3>1, <3>2 DEF Known
  <2>2. CASE podList' = podList /\ step \in {"listData", "sync"}
    <3>1. CASE NoneCreated
      BY <1>1, <1>2, <1>5, <2>2, <3>1 DEF NoneCreated, KnownInv
    <3>2. ASSUME NEW p \in Pods, CreateData(p)
          PROVE  pods'[data'[d].pod] = None
      <4>1. p \in podList
        BY <3>2, CreateDataMakes, TypeParts DEF WorkerTyped
      <4>2. data'[d] = data[d]  BY <1>5, <2>2, <3>2, <4>1, CreateDataMakes
      <4> QED  BY <1>1, <1>2, <1>5, <2>2, <4>2 DEF KnownInv
    <3> QED  BY <3>1, <3>2, OnlyCreateDataCreates
  <2> QED  BY <1>5, <2>1, <2>2, PodListSteps
<1> QED  BY <1>1, <1>3, <1>4, <1>5 DEF KnownInv

LEMMA KnownInit == Init => KnownInv
BY DEF Init, ClusterInit, KnownInv, FreshInv

(* What PruneIsSafe says of one step.                                      *)
Spared(d) ==
    (/\ step = "sync" /\ dataList' # dataList
     /\ data[d] # None /\ ~data[d].del
     /\ IF data'[d] = None THEN TRUE ELSE data'[d].del)
    => pods[data[d].pod] = None

LEMMA StepSpares ==
    ASSUME TypeOK, LabelInv, KnownInv, Next, DistinctNames, NEW d \in Names
    PROVE  Spared(d)
<1>1. CASE UNCHANGED data \/ UNCHANGED dataList  BY <1>1 DEF Spared
<1>2. ASSUME NEW p \in Pods, CreateData(p)  PROVE Spared(d)
  BY <1>2, CreateDataMakes DEF Spared
<1>3. ASSUME NEW e \in Names, PruneData(e)  PROVE Spared(d)
  <2>1. CASE d # e
    BY <1>1, <1>3, <2>1, TypeParts
    DEF PruneData, DeleteData, PutData, WriteData, dataVars, DataTyped, Spared
  <2>2. CASE d = e
    <3>1. d \in DOMAIN dataList /\ dataList[d].pod \notin podList /\ step = "sync"
      BY <1>3, <2>2 DEF PruneData, Orphans, SyncDone
    <3>2. SUFFICES ASSUME data[d] # None  PROVE pods[data[d].pod] = None
      BY DEF Spared
    <3>3. Labelled(data[d], d) /\ Labelled(dataList[d], d)
      BY <3>1, <3>2 DEF LabelInv
    <3>4. data[d].pod \in Pods /\ dataList[d].pod \in Pods
      BY <3>1, <3>2, TypeParts DEF DataTyped, WorkerTyped, DataObject
    <3>5. data[d].pod = dataList[d].pod
      BY <3>3, <3>4 DEF Labelled, DistinctNames
    <3> QED  BY <3>1, <3>2, <3>5 DEF KnownInv
  <2> QED  BY <2>1, <2>2
<1>4. CASE Work
  BY <1>1, <1>2, <1>3, <1>4
  DEF Work, GetDataSet, GetDataSetGone, ListPods, ListData, TakeData, KeepData,
      UpdateData, UpdateRejected, DataExists, UnnameablePod, UpdateStatus,
      StatusRejected, Abort, Panic, dataVars, localVars
<1>5. CASE Fault \/ Restart
  BY <1>1, <1>5 DEF Fault, Abort, Restart, Boot, Relist, storeVars
<1>6. CASE Deliver \/ Environment
  BY <1>1, <1>6
  DEF Deliver, OnDataSetEvent, OnDataEvents, OnPodEvents, ResyncDataSet,
      ResyncData, Again, Environment, EditTemplate, CreateDataSet,
      DeleteDataSet, OnlyDs, OnlyData, UserDeletes, Collect, DataController,
      Track, Report, Release, PodChurn, setVars, localVars
<1> QED  BY <1>4, <1>5, <1>6 DEF Next

(* The controller deletes the Data of gone pods only, with stale caches,   *)
(* failures, restarts, users and DataSets that come and go, provided that  *)
(* no two pods have names that end alike and no name is used again.        *)
THEOREM PrunesTheGone ==
    ASSUME DistinctNames, NamesUsedOnce
    PROVE  Spec => PruneIsSafe
<1> DEFINE Inv == TypeOK /\ LabelInv /\ KnownInv
<1>1. Init => Inv  BY InitTyped, LabelInit, KnownInit
<1>2. Inv /\ [Next]_vars => Inv'  BY NextTyped, LabelNext, KnownNext
<1>3. Inv /\ [Next]_vars
      => [\A d \in Names :
             (/\ step = "sync" /\ dataList' # dataList
              /\ data[d] # None /\ ~data[d].del
              /\ IF data'[d] = None THEN TRUE ELSE data'[d].del)
             => pods[data[d].pod] = None]_vars
  BY StepSpares DEF Spared
<1> HIDE DEF Inv
<1> QED  BY <1>1, <1>2, <1>3, PTL DEF Spec, PruneIsSafe

-----------------------------------------------------------------------------
(* Panics.  The controller dereferences a nil Data when the API server     *)
(* knows a Data that its list did not show.                                *)

AllNameable == \A p \in Pods : Nameable(p)
Unlisted == step = "sync" => \A p \in todo : DataName(p) \notin dataMap
                                             => data[DataName(p)] = None
PanicInv == NeverPanics /\ Unlisted

LEMMA PanicNext ==
    ASSUME TypeOK, CachesCurrent, PanicInv, [Next]_vars,
           DistinctNames, AllNameable, "dataLag" \notin Allowed
    PROVE  PanicInv'
<1>0. todo \subseteq Pods /\ \A p \in todo : Nameable(p) /\ DataName(p) \in Names
  BY TypeParts DEF WorkerTyped, AllNameable, Names
<1>1. ASSUME step' = step, dataMap' = dataMap, todo' \subseteq todo, NoneCreated
      PROVE  PanicInv'
  BY <1>0, <1>1 DEF PanicInv, NeverPanics, Unlisted, NoneCreated
<1>2. ASSUME step' \in {"idle", "listPods", "listData"}
      PROVE  PanicInv'
  BY <1>2 DEF PanicInv, NeverPanics, Unlisted
<1>3. CASE ListData
  <2>1. \A d \in Names : dataCache[d] = data[d]
    BY <1>3 DEF ListData, DataReadable, DataEvents, CachesCurrent
  <2>2. dataMap' = {d \in Names : data[d] # None} /\ data' = data
    BY <1>3, <2>1, TypeParts
    DEF ListData, Existing, DataTyped, TakeData, dataVars
  <2>3. todo' \subseteq Pods /\ step' = "sync"
    BY <1>3, TypeParts DEF ListData, WorkerTyped
  <2> QED
    BY <2>2, <2>3 DEF PanicInv, NeverPanics, Unlisted, AllNameable, Names
<1>4. ASSUME NEW p \in Pods, CreateData(p)  PROVE PanicInv'
  <2>1. todo' = todo \ {p} /\ dataMap' = dataMap /\ step' = step
    BY <1>4 DEF CreateData, Synced
  <2>2. ASSUME NEW q \in todo', DataName(q) \notin dataMap'
        PROVE  data'[DataName(q)] = None
    <3>1. q \in todo /\ q # p /\ q \in Pods  BY <1>0, <2>1
    <3>2. DataName(q) # DataName(p)
      BY <3>1 DEF DistinctNames, AllNameable
    <3>3. data[DataName(q)] = None
      BY <1>4, <2>1, <2>2, <3>1, CreateDataMakes DEF PanicInv, Unlisted
    <3> QED  BY <1>0, <1>4, <3>1, <3>2, <3>3, CreateDataMakes
  <2> QED  BY <2>1, <2>2 DEF PanicInv, NeverPanics, Unlisted
<1>5. ASSUME NEW p \in Pods, UnnameablePod(p)  PROVE FALSE
  BY <1>5 DEF UnnameablePod, AllNameable
<1>6. ASSUME NEW p \in Pods, DataExists(p)  PROVE FALSE
  BY <1>6 DEF DataExists, Visit, Listed, PanicInv, Unlisted
<1>7. ASSUME ~ \E p \in Pods : CreateData(p)  PROVE NoneCreated
  BY <1>7, OnlyCreateDataCreates
<1>8. CASE Work
  BY <1>1, <1>2, <1>3, <1>4, <1>5, <1>6, <1>7, <1>8
  DEF Work, GetDataSet, GetDataSetGone, ListPods, KeepData, UpdateData,
      UpdateRejected, PruneData, UpdateStatus, StatusRejected, Synced, Abort, Idle,
      localVars
<1>9. CASE Fault \/ Restart
  BY <1>2, <1>9 DEF Fault, Abort, Restart, Boot, Idle
<1>10. CASE Deliver \/ Environment \/ UNCHANGED vars
  <2>1. UNCHANGED localVars
    BY <1>10
    DEF Deliver, OnDataSetEvent, OnDataEvents, OnPodEvents, ResyncDataSet,
        ResyncData, Again, Environment, EditTemplate, CreateDataSet,
        DeleteDataSet, OnlyDs, OnlyData, UserDeletes, Collect, DataController,
        Track, Report, Release, PodChurn, vars, setVars
  <2>2. CASE NoneCreated  BY <1>1, <2>1, <2>2 DEF localVars
  <2>3. ASSUME NEW p \in Pods, CreateData(p)  PROVE PanicInv'
    BY <1>4, <2>3
  <2> QED  BY <1>7, <2>2, <2>3
<1> QED  BY <1>8, <1>9, <1>10 DEF Next

(* The controller never panics when its Data cache has caught up by the    *)
(* time it lists, every pod's name has the two segments that its Data is   *)
(* called after, and no two pods' names end alike.  The runs show that it  *)
(* does without the first; the third is what the API server cannot grant.  *)
THEOREM ReconcilesDoNotPanic ==
    ASSUME DistinctNames, AllNameable, "dataLag" \notin Allowed
    PROVE  Spec => []NeverPanics
<1> DEFINE Inv == TypeOK /\ CachesCurrent /\ PanicInv
<1>1. Init => Inv
  BY InitTyped, InitCurrent DEF Init, PanicInv, NeverPanics, Unlisted
<1>2. Inv /\ [Next]_vars => Inv'  BY NextTyped, CachesNext, PanicNext
<1>3. Inv => NeverPanics  BY DEF PanicInv
<1> HIDE DEF Inv
<1> QED  BY <1>1, <1>2, <1>3, PTL DEF Spec

-----------------------------------------------------------------------------
(* At rest.  When the controller comes to rest, what it was to bring about *)
(* holds, whatever came before: the watches report every change that the   *)
(* last reconcile did not see.  The invariant says, for every step of a    *)
(* reconcile after which nothing else would make the controller look       *)
(* again, what it knows already.  It speaks of the pods of the cache: a    *)
(* pod that comes or goes is an event.                                     *)

Settled == ~queued /\ DataEvents = {}

SetSeen  == step \in {"listPods", "listData", "sync"} /\ ~queued
            /\ "cache" \notin lagDs => set = ds
PodsSeen == step \in {"listData", "sync"} /\ ~queued => podList = Existing(podsCache)

(* What the lists say is so, but for a Data that is on its way out.        *)
ListTrue ==
    /\ \A d \in DOMAIN dataList : data[d] # None /\ dataList[d] = data[d]
    /\ \A d \in Names \ DOMAIN dataList :
          data[d] # None => data[d].pod \notin podList /\ data[d].del
    /\ \A d \in dataMap : data[d] # None
    /\ \A p \in podList \ todo : Nameable(p) /\ data[DataName(p)] # None
DataSeen == step = "sync" /\ Settled => ListTrue

Live == {d \in Names : data[d] # None /\ podsCache[data[d].pod] # None}
StatusOf(live) == [dataItems |-> NumItems[ds.spec],
                   replicas  |-> Cardinality(live),
                   success   |-> Cardinality({d \in live :
                                     Success(data[d]) = NumItems[ds.spec]})]
AtRest ==
    /\ \A p \in Pods : podsCache[p] # None
                       => Nameable(p) /\ data[DataName(p)] # None
    /\ \A d \in Names : data[d] # None => d \in Live \/ data[d].del
    /\ ds.status = StatusOf(Live)
RestSeen == step = "idle" /\ Settled /\ "cache" \notin lagDs /\ ds # None => AtRest

SeenInv == SetSeen /\ PodsSeen /\ DataSeen /\ RestSeen

-----------------------------------------------------------------------------

(* As long as nothing has to be reported, nothing has changed.             *)
LEMMA NotedSame ==
    ASSUME TypeOK, TypeOK', DataNoted, DataEvents' = {}
    PROVE  DataEvents = {} /\ data' = data
<1>1. data \in [Names -> DataObject \cup {None}] /\ data' \in [Names -> DataObject \cup {None}]
  BY TypeParts DEF DataTyped
<1>2. \A d \in Names : "cache" \notin lagData[d] /\ data'[d] = data[d]
  BY DEF DataNoted, DataEvents
<1> QED  BY <1>1, <1>2 DEF DataEvents

(* Once the key is in the queue there is nothing to show.                  *)
LEMMA QueuedSeen ==
    ASSUME queued' \/ step' = "down"
    PROVE  SeenInv'
BY DEF SeenInv, SetSeen, PodsSeen, DataSeen, RestSeen, Settled

(* The others write, and the worker stays where it is.                     *)
LEMMA OthersSeen ==
    ASSUME TypeOK, TypeOK', SeenInv, UNCHANGED setVars, DsNoted, DataNoted, PodsNoted
    PROVE  SeenInv'
<1>1. /\ queued' = queued /\ step' = step /\ set' = set /\ podList' = podList
      /\ todo' = todo /\ dataList' = dataList /\ dataMap' = dataMap
      /\ podsCache' = podsCache
  BY DEF setVars, localVars, PodsNoted
<1>2. "cache" \notin lagDs' => "cache" \notin lagDs /\ ds' = ds  BY DEF DsNoted
<1>3. SetSeen' /\ PodsSeen'
  BY <1>1, <1>2 DEF SeenInv, SetSeen, PodsSeen, Existing
<1>4. Settled' => Settled /\ data' = data
  BY <1>1, NotedSame DEF Settled
<1>5. DataSeen'  BY <1>1, <1>4 DEF SeenInv, DataSeen, ListTrue
<1>6. RestSeen'
  BY <1>1, <1>2, <1>4 DEF SeenInv, RestSeen, AtRest, Live, StatusOf
<1> QED  BY <1>3, <1>5, <1>6 DEF SeenInv

LEMMA GetDataSetSeen ==
    ASSUME TypeOK, CachesCurrent, SeenInv, GetDataSet \/ GetDataSetGone
    PROVE  SeenInv'
<1>1. CASE GetDataSetGone
  BY <1>1
  DEF GetDataSetGone, localVars, dsVars, CachesCurrent, SeenInv, SetSeen, PodsSeen,
      DataSeen, RestSeen
<1>2. CASE GetDataSet
  BY <1>2
  DEF GetDataSet, TakeDs, CopyLag, CachesCurrent, SeenInv, SetSeen, PodsSeen,
      DataSeen, RestSeen
<1> QED  BY <1>1, <1>2

LEMMA ListPodsSeen ==
    ASSUME TypeOK, SeenInv, ListPods
    PROVE  SeenInv'
BY DEF ListPods, Reads, dsVars, podVars, Existing, SeenInv, SetSeen, PodsSeen,
       DataSeen, RestSeen

LEMMA ListDataSeen ==
    ASSUME TypeOK, TypeOK', CachesCurrent, SeenInv, ListData
    PROVE  SeenInv'
<1>0. DataNoted  BY WorkNoted DEF Work
<1>1. SetSeen' /\ PodsSeen' /\ RestSeen'
  BY DEF ListData, SameSet, Reads, dsVars, podVars, Existing, SeenInv, SetSeen,
         PodsSeen, RestSeen
<1>2. ASSUME Settled'  PROVE ListTrue'
  <2>1. DataEvents = {} /\ data' = data  BY <1>0, <1>2, NotedSame DEF Settled
  <2>2. \A d \in Names : dataCache[d] = data[d]
    BY <2>1 DEF DataEvents, CachesCurrent
  <2>3. dataMap' = {d \in Names : data[d] # None}
    BY <2>2, TypeParts DEF ListData, Existing, DataTyped
  <2>4. dataList' = [d \in dataMap' |-> dataCache[d]] /\ todo' = podList'
    BY DEF ListData, SameSet
  <2> QED  BY <2>1, <2>2, <2>3, <2>4 DEF ListTrue
<1> QED  BY <1>1, <1>2 DEF SeenInv, DataSeen

(* Syncing a pod that has its Data.                                        *)
LEMMA ListedSeen ==
    ASSUME TypeOK, TypeOK', SeenInv, NEW p \in Pods, KeepData(p) \/ UpdateData(p)
    PROVE  SeenInv'
<1>0. DataNoted  BY WorkNoted DEF Work
<1>1. /\ step = "sync" /\ step' = "sync" /\ Nameable(p) /\ DataName(p) \in dataMap
      /\ todo' = todo \ {p} /\ dataMap' = dataMap /\ dataList' = dataList
      /\ SameSet /\ Reads
  BY DEF KeepData, UpdateData, Visit, Listed, Synced
<1>2. SetSeen' /\ PodsSeen' /\ RestSeen'
  BY <1>1
  DEF SameSet, Reads, dsVars, podVars, Existing, SeenInv, SetSeen, PodsSeen, RestSeen
<1>3. ASSUME Settled'  PROVE ListTrue'
  <2>1. DataEvents = {} /\ data' = data  BY <1>0, <1>3, NotedSame DEF Settled
  <2>2. ListTrue  BY <1>1, <1>3, <2>1 DEF SeenInv, DataSeen, Settled, Reads
  <2> QED  BY <1>1, <2>1, <2>2 DEF ListTrue, SameSet
<1> QED  BY <1>2, <1>3 DEF SeenInv, DataSeen

LEMMA CreateDataSeen ==
    ASSUME TypeOK, TypeOK', SeenInv, NEW p \in Pods, CreateData(p)
    PROVE  SeenInv'
<1>1. DataNoted  BY WorkNoted DEF Work
<1>2. ~Settled'
  BY <1>1, NotedSame, CreateDataMakes DEF Settled
<1>3. step' = step /\ step = "sync" /\ SameSet /\ Reads
  BY DEF CreateData, Visit, Synced
<1> QED
  BY <1>2, <1>3
  DEF SameSet, Reads, dsVars, podVars, Existing, SeenInv, SetSeen, PodsSeen,
      DataSeen, RestSeen

(* Pruning a Data that is there is an event, unless it is going already.   *)
LEMMA PruneDataSeen ==
    ASSUME TypeOK, TypeOK', SeenInv, NEW d \in Names, PruneData(d)
    PROVE  SeenInv'
<1>0. DataNoted  BY WorkNoted DEF Work
<1>1. /\ step = "sync" /\ step' = "sync" /\ todo' = todo /\ dataMap' = dataMap
      /\ d \in DOMAIN dataList /\ dataList[d].pod \notin podList
      /\ dataList' = [e \in DOMAIN dataList \ {d} |-> dataList[e]]
      /\ SameSet /\ Reads
  BY DEF PruneData, SyncDone, Orphans, Drop
<1>2. SetSeen' /\ PodsSeen' /\ RestSeen'
  BY <1>1
  DEF SameSet, Reads, dsVars, podVars, Existing, SeenInv, SetSeen, PodsSeen, RestSeen
<1>3. ASSUME Settled'  PROVE ListTrue'
  <2>1. DataEvents = {} /\ data' = data  BY <1>0, <1>3, NotedSame DEF Settled
  <2>2. ListTrue  BY <1>1, <1>3, <2>1 DEF SeenInv, DataSeen, Settled, Reads
  <2>3. data[d] # None /\ data[d].pod \notin podList
    BY <1>1, <2>2 DEF ListTrue
  <2>4. data[d].del
    <3> DEFINE obj == IF data[d].fin THEN [data[d] EXCEPT !.del = TRUE] ELSE None
    <3>1. data' = [data EXCEPT ![d] = obj]
      BY <2>3 DEF PruneData, DeleteData, PutData, WriteData
    <3>2. obj = data[d]
      <4> HIDE DEF obj
      <4> QED  BY <2>1, <3>1, TypeParts DEF DataTyped
    <3>3. data[d] \in DataObject  BY <2>3, TypeParts DEF DataTyped
    <3> QED  BY <2>3, <3>2, <3>3 DEF DataObject
  <2> QED  BY <1>1, <2>1, <2>2, <2>3, <2>4 DEF ListTrue, SameSet
<1> QED  BY <1>2, <1>3 DEF SeenInv, DataSeen

(* The last step of a reconcile counts what it leaves behind.              *)
LEMMA UpdateStatusSeen ==
    ASSUME TypeOK, TypeOK', SeenInv, UpdateStatus
    PROVE  SeenInv'
<1>0. DataNoted  BY WorkNoted DEF Work
<1>1. step' = "idle" /\ step = "sync" /\ queued' = queued /\ todo = {}
      /\ data' = data /\ podsCache' = podsCache /\ Orphans = {}
  BY DEF UpdateStatus, StatusStep, SyncDone, Idle, podVars
<1>2. ASSUME Settled', "cache" \notin lagDs', ds' # None
      PROVE  AtRest'
  <2>1. Settled  BY <1>0, <1>1, <1>2, NotedSame DEF Settled
  <2>2. NewStatus = set.status /\ "cache" \notin lagDs /\ ds' = ds
    BY <1>2 DEF UpdateStatus, DropDs, DsHolders
  <2>3. set = ds /\ podList = Existing(podsCache) /\ ListTrue
    BY <1>1, <2>1, <2>2 DEF SeenInv, SetSeen, PodsSeen, DataSeen, Settled
  <2>4. \A p \in Pods : p \in podList <=> podsCache[p] # None
    BY <2>3, TypeParts DEF Existing, PodsTyped
  <2>5. \A d \in Names : data[d] # None => data[d].pod \in Pods
    BY TypeParts DEF DataTyped, DataObject
  <2>6. DOMAIN dataList \subseteq Names  BY TypeParts DEF WorkerTyped
  <2>7. DOMAIN dataList = Live
    <3>1. ASSUME NEW d \in DOMAIN dataList  PROVE d \in Live
      BY <1>1, <2>3, <2>4, <2>5, <2>6 DEF Orphans, ListTrue, Live
    <3>2. ASSUME NEW d \in Live  PROVE d \in DOMAIN dataList
      BY <2>3, <2>4, <2>5 DEF ListTrue, Live
    <3> QED  BY <3>1, <3>2
  <2>8. {d \in DOMAIN dataList : Success(dataList[d]) = NumItems[set.spec]}
        = {d \in Live : Success(data[d]) = NumItems[ds.spec]}
    BY <2>3, <2>7 DEF ListTrue
  <2>9. ds.status = StatusOf(Live)
    BY <2>2, <2>3, <2>7, <2>8 DEF NewStatus, StatusOf
  <2>10. \A d \in Names : data[d] # None => d \in Live \/ data[d].del
    BY <2>3, <2>7 DEF ListTrue
  <2>11. \A p \in Pods : podsCache[p] # None => Nameable(p) /\ data[DataName(p)] # None
    BY <1>1, <2>3, <2>4 DEF ListTrue
  <2>12. AtRest  BY <2>9, <2>10, <2>11 DEF AtRest
  <2> QED  BY <1>1, <2>2, <2>12 DEF AtRest, Live, StatusOf
<1> QED  BY <1>1, <1>2 DEF SeenInv, SetSeen, PodsSeen, DataSeen, RestSeen

LEMMA WorkSeen ==
    ASSUME TypeOK, TypeOK', CachesCurrent, SeenInv, Work
    PROVE  SeenInv'
<1>1. CASE \/ \E p \in Pods : \/ UpdateRejected(p) \/ DataExists(p)
                              \/ UnnameablePod(p)
           \/ StatusRejected
  BY <1>1, QueuedSeen
  DEF UpdateRejected, DataExists, UnnameablePod, StatusRejected, Abort, Panic
<1> QED
  BY <1>1, GetDataSetSeen, ListPodsSeen, ListDataSeen, ListedSeen, CreateDataSeen,
     PruneDataSeen, UpdateStatusSeen
  DEF Work

(* The controller is told of every pod that comes or goes; of the others   *)
(* the cache knows what it knew before.                                    *)
LEMMA DeliverSeen ==
    ASSUME TypeOK, CachesCurrent, SeenInv, Deliver, Injected = Pods
    PROVE  SeenInv'
<1>1. CASE queued'  BY <1>1, QueuedSeen
<1>2. CASE ~queued'
  <2>1. /\ DeliverPods /\ ~queued /\ ComeOrGone = {}
        /\ UNCHANGED <<dsVars, dataVars, localVars>>
    BY <1>2
    DEF Deliver, OnDataSetEvent, OnDataEvents, OnPodEvents, ResyncDataSet,
        ResyncData, Again, ComeOrGone, PodEvents
  <2>2. \A p \in Pods : podsCache'[p] = None <=> podsCache[p] = None
    BY <2>1 DEF DeliverPods, CachesCurrent, ComeOrGone, PodEvents
  <2>3. DOMAIN podsCache = Pods /\ DOMAIN podsCache' = Pods
    BY <2>1, TypeParts DEF PodsTyped, DeliverPods
  <2>4. Existing(podsCache') = Existing(podsCache)  BY <2>2, <2>3 DEF Existing
  <2>5. \A d \in Names : data[d] # None => data[d].pod \in Pods
    BY TypeParts DEF DataTyped, DataObject
  <2>6. Live' = Live
    BY <2>1, <2>2, <2>5 DEF Live, dataVars
  <2>7. SetSeen' /\ PodsSeen'
    BY <1>2, <2>1, <2>4 DEF SeenInv, SetSeen, PodsSeen, dsVars, localVars
  <2>8. Settled' => Settled
    BY <1>2, <2>1 DEF Settled, DataEvents, dataVars
  <2>9. DataSeen'
    BY <2>1, <2>8 DEF SeenInv, DataSeen, ListTrue, dataVars, localVars
  <2>10. AtRest => AtRest'
    BY <2>1, <2>2, <2>6 DEF AtRest, StatusOf, dataVars, dsVars
  <2>11. RestSeen'
    BY <2>1, <2>8, <2>10 DEF SeenInv, RestSeen, dsVars, localVars
  <2> QED  BY <2>7, <2>9, <2>11 DEF SeenInv
<1> QED  BY <1>1, <1>2

LEMMA SeenNext ==
    ASSUME TypeOK, TypeOK', CachesCurrent, SeenInv, [Next]_vars, Injected = Pods
    PROVE  SeenInv'
<1>1. CASE Environment
  <2>1. UNCHANGED setVars
    BY <1>1
    DEF Environment, EditTemplate, CreateDataSet, DeleteDataSet, OnlyDs, OnlyData,
        UserDeletes, Collect, DataController, Track, Report, Release, PodChurn
  <2> QED  BY <1>1, <2>1, EnvironmentNoted, OthersSeen
<1>2. CASE UNCHANGED vars
  BY <1>2, SameNoted, OthersSeen DEF vars
<1>3. CASE Fault \/ Restart
  BY <1>3, QueuedSeen DEF Fault, Abort, Restart, Boot
<1> QED  BY <1>1, <1>2, <1>3, WorkSeen, DeliverSeen DEF Next

(* At rest the caches are what is there.                                   *)
LEMMA QuietIsAtRest ==
    ASSUME TypeOK, CachesCurrent, SeenInv, Quiet, ds # None
    PROVE  /\ \A p \in Pods : pods[p] # None => Nameable(p) /\ data[DataName(p)] # None
           /\ \A d \in Names : data[d] # None => HasPod(d) \/ data[d].del
           /\ ds.status = StatusOf({d \in Names : HasPod(d)})
<1>1. AtRest  BY DEF Quiet, SeenInv, RestSeen, Settled
<1>2. \A p \in Pods : podsCache[p] = pods[p]
  BY DEF Quiet, PodEvents, CachesCurrent
<1>3. \A d \in Names : data[d] # None => data[d].pod \in Pods
  BY TypeParts DEF DataTyped, DataObject
<1>4. Live = {d \in Names : HasPod(d)}  BY <1>2, <1>3 DEF Live, HasPod
<1> QED  BY <1>1, <1>2, <1>4 DEF AtRest

SettledInv == TypeOK /\ CachesCurrent /\ LabelInv /\ SeenInv

LEMMA SettledInit == Init => SettledInv
<1>1. Init => SeenInv
  BY DEF Init, SeenInv, SetSeen, PodsSeen, DataSeen, RestSeen, Settled
<1> QED
  BY <1>1, InitTyped, LabelInit, InitCurrent DEF Init, SettledInv

LEMMA SettledNext ==
    ASSUME Injected = Pods
    PROVE  SettledInv /\ [Next]_vars => SettledInv'
BY NextTyped, CachesNext, LabelNext, SeenNext DEF SettledInv

(* When nothing is left to do, every pod has a Data of its own and every   *)
(* Data a pod of its own, or is going: after any disruptions, with stale   *)
(* caches, panics and restarts, as long as all the pods are injected ones  *)
(* (the others are not watched) and no two names end alike.                *)
THEOREM RestsWithOneDataPerPod ==
    ASSUME Injected = Pods, DistinctNames
    PROVE  Spec => []OneDataPerPod
<1>1. SettledInv => OneDataPerPod
  <2> SUFFICES ASSUME SettledInv, Quiet, ds # None
               PROVE  /\ \A p \in Pods : pods[p] # None =>
                           data[DataName(p)] # None /\ data[DataName(p)].pod = p
                      /\ \A d \in Names : data[d] # None => HasPod(d) \/ data[d].del
    BY DEF OneDataPerPod, EveryPodHasData
  <2>1. /\ \A p \in Pods : pods[p] # None => Nameable(p) /\ data[DataName(p)] # None
        /\ \A d \in Names : data[d] # None => HasPod(d) \/ data[d].del
    BY QuietIsAtRest DEF SettledInv
  <2>2. ASSUME NEW p \in Pods, pods[p] # None
        PROVE  data[DataName(p)] # None /\ data[DataName(p)].pod = p
    <3>1. Nameable(p) /\ DataName(p) \in Names /\ data[DataName(p)] # None
      BY <2>1, <2>2 DEF Names
    <3>2. Labelled(data[DataName(p)], DataName(p))
      BY <3>1 DEF SettledInv, LabelInv
    <3>3. data[DataName(p)].pod \in Pods
      BY <3>1, TypeParts DEF SettledInv, DataTyped, DataObject
    <3> QED  BY <3>1, <3>2, <3>3 DEF Labelled, DistinctNames
  <2> QED  BY <2>1, <2>2
<1> QED  BY <1>1, SettledInit, SettledNext, PTL DEF Spec

(* When nothing is left to do, the status of the DataSet counts the Data   *)
(* of its pods and their successes as they are: whatever the order in      *)
(* which pods, Data, reports and edits came, and whatever two names share. *)
THEOREM RestsWithStatusCounted ==
    ASSUME Injected = Pods
    PROVE  Spec => []StatusCounts
<1>1. SettledInv => StatusCounts
  BY QuietIsAtRest DEF SettledInv, StatusCounts, StatusOf
<1> QED  BY <1>1, SettledInit, SettledNext, PTL DEF Spec

-----------------------------------------------------------------------------
(* Specs.  What the controller, the users and the garbage collector make   *)
(* of a Data: one that stays keeps its pod and its status, and has the     *)
(* spec it had or the one at hand; a new one belongs to a listed pod.      *)

Edits(t) == EditTemplate(t) \/ CreateDataSet(t)
(* Every step but the edits and those of the Data controller.              *)
Plain == \/ Work \/ Fault \/ Restart \/ Deliver \/ DeleteDataSet
         \/ \E e \in Names : UserDeletes(e) \/ Collect(e)
         \/ \E p \in Pods : PodChurn(p)
         \/ UNCHANGED vars

LEMMA StepKinds ==
    ASSUME [Next]_vars
    PROVE  \/ Plain
           \/ \E t \in Templates : Edits(t)
           \/ \E e \in Names : DataController(e)
BY DEF Next, Environment, Plain, Edits

Written(d) ==
    data'[d] # None =>
        IF data[d] # None
        THEN /\ data'[d].pod = data[d].pod /\ data'[d].st = data[d].st
             /\ \/ data'[d].spec = data[d].spec
                \/ set # None /\ set' = set /\ data'[d].spec = set.spec
             /\ data'[d].del => data[d].del \/ data[d].fin
        ELSE /\ data'[d].pod \in podList /\ DataName(data'[d].pod) = d
             /\ data'[d].st = None /\ ~data'[d].del
             /\ set # None /\ set' = set /\ data'[d].spec = set.spec

LEMMA DeleteWritten ==
    ASSUME TypeOK, NEW e \in Names, data[e] # None, NEW w, DeleteData(w, e),
           NEW d \in Names
    PROVE  Written(d)
<1> DEFINE obj == IF data[e].fin THEN [data[e] EXCEPT !.del = TRUE] ELSE None
<1>1. DataTyped /\ data[e] \in DataObject  BY TypeParts DEF DataTyped
<1>2. obj # None => /\ obj.pod = data[e].pod /\ obj.st = data[e].st
                    /\ obj.spec = data[e].spec /\ data[e].fin
  BY <1>1 DEF DataObject
<1>3. data' = [data EXCEPT ![e] = obj]  BY DEF DeleteData, PutData, WriteData
<1> HIDE DEF obj
<1> QED  BY <1>1, <1>2, <1>3 DEF Written, DataTyped

LEMMA UpdateWritten ==
    ASSUME TypeOK, NEW p \in Pods, UpdateData(p), NEW d \in Names
    PROVE  Written(d)
<1> DEFINE e == dataOld.name
           obj == [data[e] EXCEPT !.spec = set.spec]
<1>1. e \in Names /\ DataTyped /\ set # None
  BY TypeParts, WorkingTyped, NoneAssumption DEF UpdateData, Listed, Visit, WorkerTyped
<1>2. data[e] # None /\ data[e] \in DataObject
  BY <1>1 DEF UpdateData, DataOldCurrent, DataTyped
<1>3. /\ obj.pod = data[e].pod /\ obj.st = data[e].st /\ obj.del = data[e].del
      /\ obj.spec = set.spec
  BY <1>2 DEF DataObject
<1>4. data' = [data EXCEPT ![e] = obj] /\ set' = set
  BY DEF UpdateData, PutData, WriteData, Synced, SameSet
<1> HIDE DEF obj, e
<1> QED  BY <1>1, <1>2, <1>3, <1>4 DEF Written, DataTyped

LEMMA CreateWritten ==
    ASSUME TypeOK, NEW p \in Pods, CreateData(p), NEW d \in Names
    PROVE  Written(d)
<1> DEFINE new == NewData(p, set.spec, set.uid)
<1>1. DataTyped /\ set # None /\ p \in podList /\ data[DataName(p)] = None
  BY TypeParts, WorkingTyped, NoneAssumption DEF CreateData, Visit, WorkerTyped
<1>2. new.pod = p /\ new.spec = set.spec /\ new.st = None /\ new.del = FALSE
  BY DEF NewData
<1>3. data' = [data EXCEPT ![DataName(p)] = new] /\ set' = set
  BY DEF CreateData, PutData, WriteData, Synced, SameSet
<1> HIDE DEF new
<1> QED  BY <1>1, <1>2, <1>3 DEF Written, DataTyped

LEMMA StepWritten ==
    ASSUME TypeOK, NEW d \in Names,
           \/ Plain
           \/ \E t \in Templates : Edits(t)
    PROVE  Written(d)
<1>1. UNCHANGED data => Written(d)  BY DEF Written
<1>2. ASSUME NEW e \in Names, PruneData(e)  PROVE Written(d)
  BY <1>1, <1>2, DeleteWritten DEF PruneData, dataVars
<1>3. CASE Work
  BY <1>1, <1>2, <1>3, UpdateWritten, CreateWritten
  DEF Work, GetDataSet, GetDataSetGone, ListPods, ListData, TakeData, KeepData,
      UpdateRejected, DataExists, UnnameablePod, UpdateStatus, StatusRejected,
      Abort, Panic, dataVars
<1>4. CASE Fault \/ Restart \/ Deliver \/ UNCHANGED vars
  BY <1>1, <1>4
  DEF Fault, Abort, Restart, Boot, Relist, storeVars, Deliver, OnDataSetEvent,
      OnDataEvents, DeliverData, OnPodEvents, ResyncDataSet, ResyncData, Again,
      vars, dataVars
<1>5. ASSUME NEW e \in Names, UserDeletes(e) \/ Collect(e)  PROVE Written(d)
  BY <1>5, DeleteWritten DEF UserDeletes, Collect
<1>6. CASE DeleteDataSet \/ \E p \in Pods : PodChurn(p)
  BY <1>1, <1>6 DEF DeleteDataSet, OnlyDs, PodChurn, dataVars
<1>7. ASSUME NEW t \in Templates, Edits(t)  PROVE Written(d)
  BY <1>1, <1>7 DEF Edits, EditTemplate, CreateDataSet, OnlyDs, dataVars
<1> QED  BY <1>3, <1>4, <1>5, <1>6, <1>7 DEF Plain

(* Without edits there is one template.                                    *)
NoEdits == Allowed \cap {"edit", "dsChurn"} = {}

Of(obj, t) == obj # None => obj.spec = t
SpecsAre(t) == /\ Of(ds, t) /\ Of(dsCache, t) /\ Of(set, t)
               /\ \A d \in Names : Of(data[d], t) /\ Of(dataCache[d], t)
OneSpec == \E t \in Templates : SpecsAre(t)

LEMMA CopiesOf ==
    ASSUME TypeOK, [Next]_vars
    PROVE  /\ UNCHANGED dsCache \/ dsCache' = ds
           /\ UNCHANGED dataCache \/ dataCache' = data'
           /\ set' \in {set, None, dsCache}
<1>0. DataTyped /\ PodsTyped  BY TypeParts
<1>1. CASE Work
  <2>1. DsNoted /\ DataNoted  BY <1>1, WorkNoted
  <2>2. set' \in {set, None, dsCache}
    BY <1>1
    DEF Work, GetDataSet, GetDataSetGone, ListPods, ListData, KeepData, UpdateData,
        UpdateRejected, CreateData, DataExists, UnnameablePod, PruneData,
        UpdateStatus, StatusRejected, Synced, SameSet, Abort, Idle, Panic, localVars
  <2> QED  BY <2>1, <2>2 DEF DsNoted, DataNoted
<1>2. CASE Fault \/ Restart
  <2>1. set' = None  BY <1>2 DEF Fault, Restart, Abort, Boot, Idle
  <2>2. (UNCHANGED dsCache \/ dsCache' = ds) /\ (UNCHANGED dataCache \/ dataCache' = data')
    BY <1>2 DEF Fault, Restart, Abort, Boot, Relist, storeVars
  <2> QED  BY <2>1, <2>2
<1>3. CASE Deliver
  BY <1>3
  DEF Deliver, OnDataSetEvent, DeliverDs, OnDataEvents, DeliverData,
      OnPodEvents, ResyncDataSet, ResyncData, Again, dsVars, dataVars, localVars
<1>4. CASE Environment \/ UNCHANGED vars
  <2>1. DsNoted /\ DataNoted  BY <1>4, EnvironmentNoted, SameNoted DEF vars
  <2>2. set' = set
    BY <1>4
    DEF Environment, EditTemplate, CreateDataSet, DeleteDataSet, OnlyDs, OnlyData,
        UserDeletes, Collect, DataController, Track, Report, Release, PodChurn, vars,
        setVars, localVars
  <2> QED  BY <2>1, <2>2 DEF DsNoted, DataNoted
<1> QED  BY <1>1, <1>2, <1>3, <1>4 DEF Next

LEMMA ReportedSpec ==
    ASSUME TypeOK, NEW e \in Names, DataController(e), NEW d \in Names
    PROVE  data'[d] # None => data[d] # None /\ data'[d].spec = data[d].spec
<1>1. DataTyped  BY TypeParts
<1>2. CASE Release(e)
  BY <1>1, <1>2 DEF Release, PutData, WriteData, DataTyped
<1>3. CASE Track(e) \/ Report(e)
  <2>1. data[e] # None /\ data[e] \in DataObject
    BY <1>1, <1>3 DEF Track, Report, DataTyped
  <2>2. PICK st : \/ PutData("env", e, [data[e] EXCEPT !.fin = TRUE, !.st = st])
                  \/ PutData("env", e, [data[e] EXCEPT !.st = st])
    BY <1>3 DEF Track, Report
  <2>3. /\ [data[e] EXCEPT !.fin = TRUE, !.st = st].spec = data[e].spec
        /\ [data[e] EXCEPT !.st = st].spec = data[e].spec
    BY <2>1 DEF DataObject
  <2> QED  BY <1>1, <2>1, <2>2, <2>3 DEF PutData, WriteData, DataTyped
<1> QED  BY <1>2, <1>3 DEF DataController

(* Only the users write the spec of the DataSet.                           *)
LEMMA EditWrites ==
    ASSUME TypeOK, NEW t \in Templates, Edits(t)
    PROVE  ds' # None /\ ds'.spec = t
<1>1. CASE EditTemplate(t)
  <2>1. ds \in DSObject  BY <1>1, TypeParts DEF EditTemplate, DsTyped
  <2>2. [ds EXCEPT !.spec = t] \in DSObject /\ [ds EXCEPT !.spec = t].spec = t
    BY <2>1 DEF DSObject
  <2> QED  BY <1>1, <2>2, NoneAssumption DEF EditTemplate, PutDs
<1>2. CASE CreateDataSet(t)
  <2>1. ds' = NewDataSet(t, 1 + MaxDisruptions - budget)
    BY <1>2 DEF CreateDataSet, PutDs
  <2>2. ds' \in DSObject
    <3>1. budget \in Nat /\ 1 + MaxDisruptions - budget \in Nat
      BY TypeParts, ClusterAssumption DEF BudgetTyped
    <3> QED  BY <2>1, <3>1, NewDataSetTyped
  <2> QED  BY <2>1, <2>2, NoneAssumption DEF NewDataSet
<1> QED  BY <1>1, <1>2 DEF Edits

LEMMA DsSpecStays ==
    ASSUME TypeOK, Plain \/ \E e \in Names : DataController(e), ds' # None
    PROVE  ds # None /\ ds'.spec = ds.spec
<1>1. CASE UpdateStatus
  <2>1. ds \in DSObject \cup {None}  BY TypeParts DEF DsTyped
  <2> QED  BY <1>1, <2>1 DEF UpdateStatus, SetCurrent, DSObject
<1>2. ~UpdateStatus => ds' = ds
  <2>1. CASE Work
    BY <2>1
    DEF Work, GetDataSet, GetDataSetGone, TakeDs, ListPods, ListData, KeepData,
        UpdateData, UpdateRejected, CreateData, DataExists, UnnameablePod, PruneData,
        StatusRejected, Synced, Reads, Abort, Panic, dsVars
  <2>2. CASE Fault \/ Restart \/ Deliver \/ UNCHANGED vars
    BY <2>2
    DEF Fault, Abort, Restart, Boot, Relist, storeVars, Deliver, OnDataSetEvent,
        DeliverDs, OnDataEvents, OnPodEvents, ResyncDataSet, ResyncData, Again,
        vars, dsVars
  <2>3. CASE \/ \E e \in Names : UserDeletes(e) \/ Collect(e) \/ DataController(e)
             \/ \E p \in Pods : PodChurn(p)
    BY <2>3
    DEF UserDeletes, Collect, DataController, Track, Report, Release, OnlyData,
        PodChurn, dsVars
  <2>4. ~DeleteDataSet  BY DEF DeleteDataSet, PutDs
  <2> QED  BY <2>1, <2>2, <2>3, <2>4 DEF Plain
<1> QED  BY <1>1, <1>2

LEMMA OneSpecNext ==
    ASSUME TypeOK, OneSpec, [Next]_vars, NoEdits
    PROVE  OneSpec'
<1>0. \/ Plain
      \/ \E e \in Names : DataController(e)
  BY StepKinds DEF Edits, EditTemplate, CreateDataSet, Disrupt, NoEdits
<1>1. PICK t \in Templates : SpecsAre(t)  BY DEF OneSpec
<1>2. \A d \in Names : Of(data'[d], t)
  <2>1. ASSUME NEW d \in Names, data'[d] # None  PROVE data'[d].spec = t
    <3>1. CASE \E e \in Names : DataController(e)
      BY <1>1, <2>1, <3>1, ReportedSpec DEF SpecsAre, Of
    <3>2. CASE Plain
      BY <1>1, <2>1, <3>2, StepWritten DEF Written, SpecsAre, Of
    <3> QED  BY <1>0, <3>1, <3>2
  <2> QED  BY <2>1 DEF Of
<1>3. Of(ds', t)  BY <1>0, <1>1, DsSpecStays DEF SpecsAre, Of
<1>4. SpecsAre(t)'
  BY <1>1, <1>2, <1>3, CopiesOf DEF SpecsAre, Of
<1> QED  BY <1>4 DEF OneSpec

LEMMA OneSpecInit == Init => OneSpec
<1> SUFFICES ASSUME Init PROVE OneSpec  OBVIOUS
<1>1. PICK t \in Templates : ds = NewDataSet(t, 0)  BY DEF Init
<1>2. SpecsAre(t)
  BY <1>1 DEF Init, ClusterInit, NewDataSet, SpecsAre, Of
<1> QED  BY <1>2 DEF OneSpec

LEMMA OneSpecIsUpdated == OneSpec => EveryDataUpdated
BY DEF OneSpec, SpecsAre, Of, EveryDataUpdated, HasPod

(* With one pod every entry of the map points to the Data it is for: what  *)
(* a reconcile knows of the specs when nothing is left to make it look     *)
(* again.                                                                  *)
OnePod == \A p, q \in Pods : p = q

CopySeen  == step = "sync" /\ Settled /\ dataMap # {} => dataOld.obj = data[dataOld.name]
SpecsSeen == step = "sync" /\ Settled =>
                 \A p \in podList \ todo : Nameable(p) => Of(data[DataName(p)], set.spec)
SpecsRest == step = "idle" /\ Settled /\ "cache" \notin lagDs /\ ds # None =>
                 \A p \in Pods : podsCache[p] # None /\ Nameable(p)
                                 => Of(data[DataName(p)], ds.spec)
UpdatedInv == CopySeen /\ SpecsSeen /\ SpecsRest

LEMMA QueuedUpdated ==
    ASSUME queued' \/ step' = "down"
    PROVE  UpdatedInv'
BY DEF UpdatedInv, CopySeen, SpecsSeen, SpecsRest, Settled

LEMMA OthersUpdated ==
    ASSUME TypeOK, TypeOK', UpdatedInv, UNCHANGED setVars,
           DsNoted, DataNoted, PodsNoted
    PROVE  UpdatedInv'
<1>1. /\ queued' = queued /\ step' = step /\ set' = set /\ podList' = podList
      /\ todo' = todo /\ dataMap' = dataMap /\ dataOld' = dataOld
      /\ podsCache' = podsCache
  BY DEF setVars, localVars, PodsNoted
<1>2. "cache" \notin lagDs' => "cache" \notin lagDs /\ ds' = ds  BY DEF DsNoted
<1>3. Settled' => Settled /\ data' = data
  BY <1>1, NotedSame DEF Settled
<1> QED
  BY <1>1, <1>2, <1>3 DEF UpdatedInv, CopySeen, SpecsSeen, SpecsRest

LEMMA VisitUpdated ==
    ASSUME TypeOK, TypeOK', UpdatedInv, NEW p \in Pods, KeepData(p) \/ UpdateData(p),
           OnePod
    PROVE  UpdatedInv'
<1>0. DataNoted  BY WorkNoted DEF Work
<1>1. /\ step = "sync" /\ step' = "sync" /\ Nameable(p) /\ DataName(p) \in dataMap
      /\ todo' = todo \ {p} /\ dataMap' = dataMap /\ SameSet /\ Reads
  BY DEF KeepData, UpdateData, Visit, Listed, Synced
<1>2. /\ dataOld \in [name : dataMap, obj : DataObject] /\ dataMap \subseteq Names
      /\ DataTyped
  BY <1>1, TypeParts DEF WorkerTyped
<1>3. dataOld.name = DataName(p)  BY <1>2 DEF Names, OnePod
<1> SUFFICES ASSUME Settled'
             PROVE  /\ dataOld'.obj = data'[dataOld'.name]
                    /\ Of(data'[DataName(p)], set.spec)
                    /\ \A q \in podList \ todo : Nameable(q)
                                            => Of(data'[DataName(q)], set.spec)
  BY <1>1 DEF UpdatedInv, CopySeen, SpecsSeen, SpecsRest, SameSet
<1>4. data' = data /\ Settled
  <2>1. DataEvents = {} /\ data' = data  BY <1>0, NotedSame DEF Settled
  <2> QED  BY <1>1, <2>1 DEF Settled, Reads
<1>5. /\ dataOld.obj = data[dataOld.name]
      /\ \A q \in podList \ todo : Nameable(q) => Of(data[DataName(q)], set.spec)
  BY <1>1, <1>4 DEF UpdatedInv, CopySeen, SpecsSeen
<1>6. CASE KeepData(p)
  <2>1. dataOld' = dataOld /\ dataOld.obj.spec = set.spec
    BY <1>6 DEF KeepData, Outdated
  <2> QED  BY <1>3, <1>4, <1>5, <2>1 DEF Of
<1>7. CASE UpdateData(p)
  <2> DEFINE obj == [data[dataOld.name] EXCEPT !.spec = set.spec]
  <2>1. data[dataOld.name] \in DataObject
    BY <1>2, <1>7 DEF UpdateData, DataOldCurrent, DataTyped
  <2>2. obj.spec = set.spec  BY <2>1 DEF DataObject
  <2>3. data' = [data EXCEPT ![dataOld.name] = obj]
        /\ dataOld' = [dataOld EXCEPT !.obj = obj]
    BY <1>7 DEF UpdateData, PutData, WriteData
  <2> HIDE DEF obj
  <2>4. data'[dataOld.name] = obj  BY <1>2, <2>3 DEF DataTyped
  <2>5. dataOld'.obj = obj /\ dataOld'.name = dataOld.name  BY <1>2, <2>3
  <2> QED  BY <1>3, <1>4, <1>5, <2>2, <2>4, <2>5 DEF Of
<1> QED  BY <1>6, <1>7

LEMMA ListDataUpdated ==
    ASSUME TypeOK, TypeOK', CachesCurrent, ListData
    PROVE  UpdatedInv'
<1>1. DataNoted  BY WorkNoted DEF Work
<1>2. step' = "sync" /\ todo' = podList'  BY DEF ListData, SameSet
<1>3. ASSUME Settled', dataMap' # {}  PROVE dataOld'.obj = data'[dataOld'.name]
  <2>1. DataEvents = {} /\ data' = data  BY <1>1, <1>3, NotedSame DEF Settled
  <2>2. \A d \in Names : dataCache[d] = data[d]
    BY <2>1 DEF DataEvents, CachesCurrent
  <2>3. dataMap' \subseteq Names  BY TypeParts DEF WorkerTyped
  <2>4. PICK d \in dataMap' : dataOld' = [name |-> d, obj |-> dataCache[d]]
    BY <1>3 DEF ListData
  <2> QED  BY <2>1, <2>2, <2>3, <2>4
<1> QED  BY <1>2, <1>3 DEF UpdatedInv, CopySeen, SpecsSeen, SpecsRest

LEMMA UpdateStatusUpdated ==
    ASSUME TypeOK, TypeOK', SeenInv, UpdatedInv, UpdateStatus
    PROVE  UpdatedInv'
<1>0. DataNoted  BY WorkNoted DEF Work
<1>1. step' = "idle" /\ step = "sync" /\ queued' = queued /\ todo = {}
      /\ data' = data /\ podsCache' = podsCache
  BY DEF UpdateStatus, StatusStep, SyncDone, Idle, podVars
<1>2. ASSUME Settled', "cache" \notin lagDs', ds' # None,
             NEW p \in Pods, podsCache'[p] # None, Nameable(p)
      PROVE  Of(data'[DataName(p)], ds'.spec)
  <2>1. Settled  BY <1>0, <1>1, <1>2, NotedSame DEF Settled
  <2>2. "cache" \notin lagDs /\ ds' = ds
    BY <1>2 DEF UpdateStatus, DropDs, DsHolders
  <2>3. set = ds /\ podList = Existing(podsCache)
    BY <1>1, <2>1, <2>2 DEF SeenInv, SetSeen, PodsSeen, Settled
  <2>4. p \in podList  BY <1>1, <1>2, <2>3, TypeParts DEF Existing, PodsTyped
  <2> QED  BY <1>1, <1>2, <2>1, <2>2, <2>3, <2>4 DEF UpdatedInv, SpecsSeen
<1> QED  BY <1>1, <1>2 DEF UpdatedInv, CopySeen, SpecsSeen, SpecsRest

LEMMA WorkUpdated ==
    ASSUME TypeOK, TypeOK', CachesCurrent, SeenInv, UpdatedInv, Work, OnePod
    PROVE  UpdatedInv'
<1>0. DataNoted  BY WorkNoted
<1>1. CASE \/ \E p \in Pods : \/ UpdateRejected(p) \/ DataExists(p)
                              \/ UnnameablePod(p)
           \/ StatusRejected
  BY <1>1, QueuedUpdated
  DEF UpdateRejected, DataExists, UnnameablePod, StatusRejected, Abort, Panic
<1>2. CASE GetDataSet \/ ListPods
  BY <1>2 DEF GetDataSet, ListPods, UpdatedInv, CopySeen, SpecsSeen, SpecsRest
<1>3. CASE GetDataSetGone
  BY <1>3
  DEF GetDataSetGone, localVars, dsVars, CachesCurrent, UpdatedInv, CopySeen,
      SpecsSeen, SpecsRest
<1>4. ASSUME NEW p \in Pods, CreateData(p)  PROVE UpdatedInv'
  <2>1. ~Settled'  BY <1>0, <1>4, NotedSame, CreateDataMakes DEF Settled
  <2> QED  BY <2>1 DEF UpdatedInv, CopySeen, SpecsSeen, SpecsRest
<1>5. ASSUME NEW d \in Names, PruneData(d)  PROVE UpdatedInv'
  <2>1. /\ step = "sync" /\ step' = "sync" /\ todo' = todo /\ dataMap' = dataMap
        /\ dataOld' = dataOld /\ SameSet /\ Reads
    BY <1>5 DEF PruneData, SyncDone
  <2>2. Settled' => Settled /\ data' = data
    BY <1>0, <2>1, NotedSame DEF Settled, Reads
  <2> QED
    BY <2>1, <2>2 DEF UpdatedInv, CopySeen, SpecsSeen, SpecsRest, SameSet
<1> QED
  BY <1>1, <1>2, <1>3, <1>4, <1>5, ListDataUpdated, VisitUpdated,
     UpdateStatusUpdated DEF Work

LEMMA DeliverUpdated ==
    ASSUME TypeOK, CachesCurrent, UpdatedInv, Deliver, Injected = Pods
    PROVE  UpdatedInv'
<1>1. CASE queued'  BY <1>1, QueuedUpdated
<1>2. CASE ~queued'
  <2>1. /\ DeliverPods /\ ~queued /\ ComeOrGone = {}
        /\ UNCHANGED <<dsVars, dataVars, localVars>>
    BY <1>2
    DEF Deliver, OnDataSetEvent, OnDataEvents, OnPodEvents, ResyncDataSet,
        ResyncData, Again, ComeOrGone, PodEvents
  <2>2. \A p \in Pods : podsCache'[p] = None <=> podsCache[p] = None
    BY <2>1 DEF DeliverPods, CachesCurrent, ComeOrGone, PodEvents
  <2>3. Settled' => Settled
    BY <1>2, <2>1 DEF Settled, DataEvents, dataVars
  <2> QED
    BY <2>1, <2>2, <2>3
    DEF UpdatedInv, CopySeen, SpecsSeen, SpecsRest, dataVars, localVars, dsVars
<1> QED  BY <1>1, <1>2

LEMMA UpdatedNext ==
    ASSUME TypeOK, TypeOK', CachesCurrent, SeenInv, UpdatedInv, [Next]_vars,
           Injected = Pods, OnePod
    PROVE  UpdatedInv'
<1>1. CASE Environment
  <2>1. UNCHANGED setVars
    BY <1>1
    DEF Environment, EditTemplate, CreateDataSet, DeleteDataSet, OnlyDs, OnlyData,
        UserDeletes, Collect, DataController, Track, Report, Release, PodChurn
  <2> QED  BY <1>1, <2>1, EnvironmentNoted, OthersUpdated
<1>2. CASE UNCHANGED vars
  BY <1>2, SameNoted, OthersUpdated DEF vars
<1>3. CASE Fault \/ Restart
  BY <1>3, QueuedUpdated DEF Fault, Abort, Restart, Boot
<1> QED  BY <1>1, <1>2, <1>3, WorkUpdated, DeliverUpdated DEF Next

LEMMA UpdatedInit == Init => UpdatedInv
BY DEF Init, UpdatedInv, CopySeen, SpecsSeen, SpecsRest, Settled

LEMMA QuietIsUpdated ==
    ASSUME TypeOK, CachesCurrent, LabelInv, UpdatedInv
    PROVE  EveryDataUpdated
<1> SUFFICES ASSUME Quiet, ds # None, NEW d \in Names, HasPod(d)
             PROVE  data[d].spec = ds.spec
  BY DEF EveryDataUpdated
<1>1. /\ \A p \in Pods : podsCache[p] = pods[p]
      /\ step = "idle" /\ Settled /\ "cache" \notin lagDs
  BY DEF Quiet, PodEvents, CachesCurrent, Settled
<1>2. /\ data[d] # None /\ data[d].pod \in Pods /\ pods[data[d].pod] # None
      /\ Nameable(data[d].pod) /\ DataName(data[d].pod) = d
  BY TypeParts DEF HasPod, DataTyped, DataObject, LabelInv, Labelled
<1> QED  BY <1>1, <1>2 DEF UpdatedInv, SpecsRest, Of

(* When nothing is left to do, every Data has the spec of the template as  *)
(* it is: in the two cases that the aliased entries of the map leave, a    *)
(* single pod under any edits, and a template that is never changed under  *)
(* any pods.  With two pods and an edit the runs show that it fails.       *)
THEOREM RestsWithDataUpdated ==
    ASSUME \/ OnePod /\ Injected = Pods
           \/ NoEdits
    PROVE  Spec => []EveryDataUpdated
<1>1. CASE NoEdits
  <2>1. Spec => [](TypeOK /\ OneSpec)
    <3>1. Init => TypeOK /\ OneSpec  BY InitTyped, OneSpecInit
    <3>2. TypeOK /\ OneSpec /\ [Next]_vars => (TypeOK /\ OneSpec)'
      BY <1>1, NextTyped, OneSpecNext
    <3> QED  BY <3>1, <3>2, PTL DEF Spec
  <2> QED  BY <2>1, OneSpecIsUpdated, PTL
<1>2. CASE OnePod /\ Injected = Pods
  <2> DEFINE Inv == SettledInv /\ UpdatedInv
  <2>1. Init => Inv  BY SettledInit, UpdatedInit
  <2>2. Inv /\ [Next]_vars => Inv'
    BY <1>2, SettledNext, UpdatedNext DEF SettledInv
  <2>3. Inv => EveryDataUpdated  BY QuietIsUpdated DEF SettledInv
  <2> HIDE DEF Inv
  <2> QED  BY <2>1, <2>2, <2>3, PTL DEF Spec
<1> QED  BY <1>1, <1>2
=============================================================================
