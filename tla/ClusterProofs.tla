---------------------------- MODULE ClusterProofs ----------------------------
(***************************************************************************)
(* What the proofs about both controllers need to know of Cluster: the     *)
(* types of its operators, for every set of pods and templates.            *)
(***************************************************************************)
EXTENDS Cluster, FiniteSetTheorems, TLAPS

-----------------------------------------------------------------------------
(* Types of the helpers *)

(* Counting phases yields numbers (genLatestStatus).                       *)
LEMMA TallyType ==
    ASSUME NEW phase, IsFiniteSet(DOMAIN phase), NEW n \in Nat
    PROVE  Tally(phase, n) \in [Fields -> Nat]
<1>1. ASSUME NEW f \in Fields
      PROVE  Cardinality({i \in DOMAIN phase : phase[i] = f}) \in Nat
  <2>1. IsFiniteSet({i \in DOMAIN phase : phase[i] = f})
    BY FS_Subset
  <2> QED  BY <2>1, FS_CardinalityType
<1> QED  BY <1>1 DEF Tally

LEMMA ItemsFinite ==
    ASSUME NEW t \in Templates
    PROVE  NumItems[t] \in Nat /\ IsFiniteSet(Items(t))
<1>1. NumItems[t] \in Nat  BY ClusterAssumption
<1>2. IsFiniteSet(1 .. NumItems[t])  BY <1>1, FS_Interval
<1> QED  BY <1>1, <1>2 DEF Items

(* A status that lists t's items in any phases is well-formed.             *)
LEMMA ListingType ==
    ASSUME NEW t \in Templates, NEW phase \in [Items(t) -> Phases]
    PROVE  Listing(t, phase) \in Status
<1>1. Tally(phase, NumItems[t]) \in [Fields -> Nat]
  BY TallyType, ItemsFinite
<1> QED  BY <1>1 DEF Listing, Status

-----------------------------------------------------------------------------
(* The parts of ClusterTypeOK, and the operators that write a part *)

DsTyped == /\ ds \in DSObject \cup {None} /\ dsCache \in DSObject \cup {None}
           /\ lagDs \in SUBSET DsHolders
DataTyped == /\ data \in [Names -> DataObject \cup {None}]
             /\ dataCache \in [Names -> DataObject \cup {None}]
             /\ lagData \in [Names -> SUBSET DataHolders]
PodsTyped == /\ pods \in [Pods -> PodObject \cup {None}]
             /\ podsCache \in [Pods -> PodObject \cup {None}]
             /\ lagPods \in [Pods -> SUBSET PodHolders]
             /\ fresh \subseteq Pods
BudgetTyped == budget \in 0 .. MaxDisruptions

LEMMA ClusterTypeParts ==
    ClusterTypeOK <=> DsTyped /\ DataTyped /\ PodsTyped /\ BudgetTyped
BY DEF ClusterTypeOK, DsTyped, DataTyped, PodsTyped, BudgetTyped

LEMMA SameCluster ==
    /\ DsTyped /\ UNCHANGED dsVars => DsTyped'
    /\ DataTyped /\ UNCHANGED dataVars => DataTyped'
    /\ PodsTyped /\ UNCHANGED podVars => PodsTyped'
    /\ BudgetTyped /\ UNCHANGED budget => BudgetTyped'
<1>1. DsTyped /\ UNCHANGED dsVars => DsTyped'  BY DEF DsTyped, dsVars
<1>2. DataTyped /\ UNCHANGED dataVars => DataTyped'  BY DEF DataTyped, dataVars
<1>3. PodsTyped /\ UNCHANGED podVars => PodsTyped'  BY DEF PodsTyped, podVars
<1>4. BudgetTyped /\ UNCHANGED budget => BudgetTyped'  BY DEF BudgetTyped
<1> QED  BY <1>1, <1>2, <1>3, <1>4

LEMMA WriteDataTyped ==
    ASSUME DataTyped, NEW w, NEW d \in Names, NEW obj \in DataObject \cup {None},
           NEW bump \in BOOLEAN, WriteData(w, d, obj, bump)
    PROVE  DataTyped'
BY DEF DataTyped, WriteData, Behind

LEMMA PutDataTyped ==
    ASSUME DataTyped, NEW w, NEW d \in Names, NEW obj \in DataObject \cup {None},
           PutData(w, d, obj)
    PROVE  DataTyped'
BY WriteDataTyped DEF PutData

LEMMA DeleteDataTyped ==
    ASSUME DataTyped, NEW w, NEW d \in Names, data[d] # None, DeleteData(w, d)
    PROVE  DataTyped'
<1> DEFINE obj == IF data[d].fin THEN [data[d] EXCEPT !.del = TRUE] ELSE None
<1>1. data[d] \in DataObject  BY DEF DataTyped
<1>2. obj \in DataObject \cup {None}  BY <1>1 DEF DataObject
<1>3. PutData(w, d, obj)  BY DEF DeleteData
<1> HIDE DEF obj
<1> QED  BY <1>2, <1>3, PutDataTyped

LEMMA PutPodTyped ==
    ASSUME PodsTyped, NEW w, NEW p \in Pods, NEW obj \in PodObject \cup {None},
           PutPod(w, p, obj), fresh' \subseteq Pods
    PROVE  PodsTyped'
BY DEF PodsTyped, PutPod, Behind

LEMMA DisruptTyped ==
    ASSUME BudgetTyped, NEW kind, Disrupt(kind)
    PROVE  BudgetTyped'
BY ClusterAssumption DEF BudgetTyped, Disrupt

LEMMA TakeCopyTyped ==
    ASSUME DataTyped, PodsTyped
    PROVE  /\ \A w \in DataHolders, d \in Names : TakeData(w, d) => DataTyped'
           /\ \A w \in PodHolders, p \in Pods : TakePod(w, p) => PodsTyped'
<1>1. \A w \in DataHolders, d \in Names : TakeData(w, d) => DataTyped'
  BY DEF TakeData, CopyLag, DataTyped, DataHolders
<1>2. \A w \in PodHolders, p \in Pods : TakePod(w, p) => PodsTyped'
  BY DEF TakePod, CopyLag, PodsTyped, PodHolders
<1> QED  BY <1>1, <1>2

(* Writes to the DataSet.                                                  *)
LEMMA PutDsTyped ==
    ASSUME DsTyped, NEW w, NEW obj \in DSObject \cup {None}, PutDs(w, obj)
    PROVE  DsTyped'
BY DEF DsTyped, PutDs, Behind

(* Deliveries, and the lists of a process that starts.                     *)
LEMMA DeliveriesTyped ==
    /\ DsTyped /\ DeliverDs => DsTyped'
    /\ DataTyped /\ DeliverData => DataTyped'
    /\ PodsTyped /\ DeliverPods => PodsTyped'
<1>1. DsTyped /\ DeliverDs => DsTyped'  BY DEF DsTyped, DeliverDs
<1>2. DataTyped /\ DeliverData => DataTyped'  BY DEF DataTyped, DeliverData
<1>3. PodsTyped /\ DeliverPods => PodsTyped'  BY DEF PodsTyped, DeliverPods
<1> QED  BY <1>1, <1>2, <1>3

LEMMA RelistTyped ==
    ASSUME DsTyped, DataTyped, PodsTyped, Relist
    PROVE  DsTyped' /\ DataTyped' /\ PodsTyped'
<1>1. DsTyped'  BY DEF Relist, DsTyped, DsHolders, storeVars
<1>2. DataTyped'  BY DEF Relist, DataTyped, DataHolders, storeVars
<1>3. PodsTyped'  BY DEF Relist, PodsTyped, PodHolders, storeVars
<1> QED  BY <1>1, <1>2, <1>3

(* Pods come, go and are written to by others.                             *)
LEMMA PodChurnTyped ==
    ASSUME PodsTyped, BudgetTyped, NEW p \in Pods,
           CreatePod(p) \/ DeletePod(p) \/ UpdatePod(p)
    PROVE  PodsTyped' /\ BudgetTyped'
<1>1. [digest |-> None] \in PodObject \cup {None}  BY DEF PodObject
<1>2. fresh' \subseteq Pods
  BY DEF CreatePod, DeletePod, UpdatePod, PodsTyped
<1>3. PodsTyped'
  <2>1. CASE UpdatePod(p)
    BY <2>1, <1>2 DEF UpdatePod, PodsTyped
  <2>2. CASE CreatePod(p) \/ DeletePod(p)
    BY <2>2, <1>1, <1>2, PutPodTyped DEF CreatePod, DeletePod
  <2> QED  BY <2>1, <2>2
<1>4. BudgetTyped'
  BY DisruptTyped DEF CreatePod, DeletePod, UpdatePod
<1> QED  BY <1>3, <1>4

LEMMA ClusterInitTyped ==
    ASSUME ClusterInit, ds \in DSObject \cup {None},
           data \in [Names -> DataObject \cup {None}],
           pods \in [Pods -> PodObject \cup {None}]
    PROVE  DsTyped /\ DataTyped /\ PodsTyped /\ BudgetTyped
<1>1. DsTyped  BY DEF ClusterInit, DsTyped, DsHolders
<1>2. DataTyped  BY DEF ClusterInit, DataTyped, DataHolders
<1>3. PodsTyped  BY DEF ClusterInit, PodsTyped, PodHolders
<1>4. BudgetTyped  BY ClusterAssumption DEF ClusterInit, BudgetTyped
<1> QED  BY <1>1, <1>2, <1>3, <1>4

-----------------------------------------------------------------------------
(* Caches.  Every change of an object is an event for its informer until   *)
(* the informer delivers it; without an event, cache and object agree.     *)

DsNoted == /\ dsCache' = dsCache
           /\ "cache" \in lagDs => "cache" \in lagDs'
           /\ ds' # ds => "cache" \in lagDs'
DataNoted == /\ dataCache' = dataCache
             /\ \A d \in Names : /\ "cache" \in lagData[d] => "cache" \in lagData'[d]
                                 /\ data'[d] # data[d] => "cache" \in lagData'[d]
PodsNoted == /\ podsCache' = podsCache
             /\ \A p \in Pods : /\ "cache" \in lagPods[p] => "cache" \in lagPods'[p]
                                /\ pods'[p] # pods[p] => "cache" \in lagPods'[p]

CachesCurrent ==
    /\ "cache" \notin lagDs => dsCache = ds
    /\ \A d \in Names : "cache" \notin lagData[d] => dataCache[d] = data[d]
    /\ \A p \in Pods : "cache" \notin lagPods[p] => podsCache[p] = pods[p]

LEMMA SameNoted ==
    /\ UNCHANGED dsVars => DsNoted
    /\ UNCHANGED dataVars => DataNoted
    /\ UNCHANGED podVars => PodsNoted
BY DEF dsVars, DsNoted, dataVars, DataNoted, podVars, PodsNoted

(* Writers are controllers or others, never a cache.                       *)
LEMMA PutDsNoted ==
    ASSUME NEW w, w # "cache", NEW obj, PutDs(w, obj)
    PROVE  DsNoted
BY DEF PutDs, Behind, DsHolders, DsNoted

LEMMA WriteDataNoted ==
    ASSUME DataTyped, NEW w, w # "cache", NEW d \in Names, NEW obj,
           NEW bump \in BOOLEAN, obj # data[d] => bump, WriteData(w, d, obj, bump)
    PROVE  DataNoted
BY DEF WriteData, Behind, DataHolders, DataTyped, DataNoted

LEMMA PutDataNoted ==
    ASSUME DataTyped, NEW w, w # "cache", NEW d \in Names, NEW obj,
           PutData(w, d, obj)
    PROVE  DataNoted
BY WriteDataNoted DEF PutData

LEMMA DeleteDataNoted ==
    ASSUME DataTyped, NEW w, w # "cache", NEW d \in Names, DeleteData(w, d)
    PROVE  DataNoted
BY PutDataNoted DEF DeleteData

LEMMA PutPodNoted ==
    ASSUME PodsTyped, NEW w, w # "cache", NEW p \in Pods, NEW obj,
           PutPod(w, p, obj)
    PROVE  PodsNoted
BY DEF PutPod, Behind, PodHolders, PodsTyped, PodsNoted

LEMMA PodChurnNoted ==
    ASSUME PodsTyped, NEW p \in Pods, CreatePod(p) \/ DeletePod(p) \/ UpdatePod(p)
    PROVE  PodsNoted
<1>1. CASE UpdatePod(p)
  BY <1>1 DEF UpdatePod, PodHolders, PodsTyped, PodsNoted
<1>2. CASE CreatePod(p) \/ DeletePod(p)
  BY <1>2, PutPodNoted DEF CreatePod, DeletePod
<1> QED  BY <1>1, <1>2

(* A controller that takes a copy leaves the caches alone.                 *)
LEMMA TakeCopyNoted ==
    ASSUME DataTyped, NEW w, w # "cache"
    PROVE  /\ TakeDs(w) => DsNoted
           /\ \A d \in Names : TakeData(w, d) => DataNoted
<1>1. TakeDs(w) => DsNoted  BY DEF TakeDs, CopyLag, DsNoted
<1>2. \A d \in Names : TakeData(w, d) => DataNoted
  BY DEF TakeData, CopyLag, DataTyped, DataNoted
<1> QED  BY <1>1, <1>2

LEMMA NotedCurrent ==
    ASSUME CachesCurrent, DsNoted, DataNoted, PodsNoted
    PROVE  CachesCurrent'
BY DEF CachesCurrent, DsNoted, DataNoted, PodsNoted

LEMMA RelistCurrent ==
    ASSUME Relist  PROVE CachesCurrent'
BY DEF Relist, CachesCurrent, storeVars

LEMMA InitCurrent ==
    ASSUME ClusterInit  PROVE CachesCurrent
BY DEF ClusterInit, CachesCurrent

-----------------------------------------------------------------------------
(* A Data keeps its pod for life; a step creates none, or one.             *)

NoneCreated ==
    \A d \in Names : data'[d] # None => data[d] # None /\ data'[d].pod = data[d].pod

LEMMA PutKeepsPod ==
    ASSUME DataTyped, NEW w, NEW d \in Names, NEW obj, PutData(w, d, obj),
           obj # None => data[d] # None /\ obj.pod = data[d].pod
    PROVE  NoneCreated
BY DEF PutData, WriteData, DataTyped, NoneCreated

LEMMA DeleteKeepsPod ==
    ASSUME DataTyped, NEW w, NEW d \in Names, data[d] # None, DeleteData(w, d)
    PROVE  NoneCreated
<1> DEFINE obj == IF data[d].fin THEN [data[d] EXCEPT !.del = TRUE] ELSE None
<1>1. data[d] \in DataObject  BY DEF DataTyped
<1>2. obj # None => obj.pod = data[d].pod  BY <1>1 DEF DataObject
<1>3. PutData(w, d, obj)  BY DEF DeleteData
<1> HIDE DEF obj
<1> QED  BY <1>2, <1>3, PutKeepsPod

LEMMA SameKeepsPod ==
    ASSUME UNCHANGED data  PROVE NoneCreated
BY DEF NoneCreated

-----------------------------------------------------------------------------
(* What the Data controller sees of writes that are not its own: whoever   *)
(* holds a copy of what was changed is behind, and finalizers stay.        *)

ForeignWrites ==
    /\ dataCache' = dataCache
    /\ \A d \in Names :
          /\ lagData[d] \cap {"cache", "data"} \subseteq lagData'[d]
          /\ data'[d] # data[d] => {"cache", "data"} \subseteq lagData'[d]
          /\ data[d] # None /\ data[d].fin => data'[d] # None /\ data'[d].fin

LEMMA PutDataForeign ==
    ASSUME DataTyped, NEW w \in {"env", "dataset"}, NEW d \in Names, NEW obj,
           PutData(w, d, obj), data[d] # None /\ data[d].fin => obj # None /\ obj.fin
    PROVE  ForeignWrites
BY DEF PutData, WriteData, Behind, DataHolders, DataTyped, ForeignWrites

LEMMA DeleteDataForeign ==
    ASSUME DataTyped, NEW w \in {"env", "dataset"}, NEW d \in Names, data[d] # None,
           DeleteData(w, d)
    PROVE  ForeignWrites
<1> DEFINE obj == IF data[d].fin THEN [data[d] EXCEPT !.del = TRUE] ELSE None
<1>1. data[d] \in DataObject  BY DEF DataTyped
<1>2. data[d].fin => obj \in DataObject /\ obj.fin  BY <1>1 DEF DataObject
<1>3. PutData(w, d, obj)  BY DEF DeleteData
<1> HIDE DEF obj
<1> QED  BY <1>2, <1>3, PutDataForeign, NoneAssumption

LEMMA SameForeign ==
    ASSUME UNCHANGED dataVars  PROVE ForeignWrites
BY DEF dataVars, ForeignWrites
=============================================================================
