------------------------------- MODULE Cluster -------------------------------
(***************************************************************************)
(* What the two kuda controllers share: the objects kept by the API server *)
(* (one DataSet, the pods its selector matches, one Data per pod) and the  *)
(* manager's informer caches, from which every Get and List is served.     *)
(*                                                                         *)
(* resourceVersions are not counted.  For every object the model keeps the *)
(* set of holders whose copy is behind: the cache, or a controller that    *)
(* read the object and works on its local copy.  A write that carries a    *)
(* resourceVersion is accepted iff the writer's copy is not behind.        *)
(***************************************************************************)
EXTENDS Integers, Sequences, FiniteSets

CONSTANTS
    Pods,            \* names a pod can have; all of them match the selector
    Segments,        \* Segments[p]: the name of p split at "-"
    Templates,       \* the versions of the DataSet's template
    NumItems,        \* NumItems[t]: len(template.dataItems)
    Digest,          \* Digest[t]: MD5 of the JSON of a Data spec made from t
    Allowed,         \* the disruptions the environment may cause in this run
    MaxDisruptions,  \* bound on the number of disruptions
    None             \* no object, no digest, no status

(* edit: the template changes; undo: it changes back before the change has *)
(* reached the pod; podChurn: pods come and go; cleanReuse: a pod may take *)
(* a name used before once no Data is labelled with it; reuseNames: ... or *)
(* at once; podLag, dataLag: reconciles run on a stale pod, Data cache;    *)
(* userDelete: a user deletes a Data; dsChurn: the DataSet is deleted and  *)
(* created again; podUpdate: kubelet, say, writes to a pod; fault: a call  *)
(* fails; restart: the manager restarts.  resync: the informers do so      *)
(* within the run; this one is not counted.                                *)
Disruptions == {"edit", "undo", "podChurn", "cleanReuse", "reuseNames",
                "podLag", "dataLag", "userDelete", "dsChurn", "podUpdate",
                "fault", "restart", "resync"}

(* The digest is taken to be free of collisions on the templates in use.   *)
ASSUME ClusterAssumption ==
    /\ Segments \in [Pods -> Seq(STRING)]
    /\ NumItems \in [Templates -> Nat]
    /\ \A s, t \in Templates : Digest[s] = Digest[t] => s = t
    /\ \A t \in Templates : Digest[t] # None
    /\ Allowed \subseteq Disruptions
    /\ MaxDisruptions \in Nat

VARIABLES
    ds, data, pods,             \* the API server's objects
    dsCache, dataCache, podsCache,
    lagDs, lagData, lagPods,    \* the holders whose copy is behind
    fresh,                      \* the names no pod has had yet
    budget                      \* disruptions left

storeVars == <<ds, data, pods>>
dsVars    == <<ds, dsCache, lagDs>>
dataVars  == <<data, dataCache, lagData>>
podVars   == <<pods, podsCache, lagPods, fresh>>

-----------------------------------------------------------------------------
(* Names and objects *)

(* A Data is named after the last two segments of its pod's name; the code *)
(* slices out of range when there are fewer than two.                      *)
Nameable(p) == Len(Segments[p]) >= 2
DataName(p) == SubSeq(Segments[p], Len(Segments[p]) - 1, Len(Segments[p]))
Names == {DataName(p) : p \in {q \in Pods : Nameable(q)}}

Phases == {"waiting", "downloading", "success", "failed"}
Fields == Phases \cup {"dataItems"}

Items(t) == 1 .. NumItems[t]

(* status.dataItemsStatus is the template it lists the items of and their  *)
(* phases; the counters are kept apart because they are written apart.     *)
Tally(phase, n) ==
    [f \in Fields |-> IF f = "dataItems" THEN n
                      ELSE Cardinality({i \in DOMAIN phase : phase[i] = f})]
Listing(t, phase) ==
    [of |-> t, phase |-> phase, sum |-> Tally(phase, NumItems[t])]
Status == {st \in [of : Templates, sum : [Fields -> Nat],
                   phase : UNION {[Items(t) -> Phases] : t \in Templates}] :
              DOMAIN st.phase = Items(st.of)}
DataObject == [pod : Pods, spec : Templates, owner : Nat, fin : BOOLEAN,
               del : BOOLEAN, st : Status \cup {None}]
PodObject  == [digest : {Digest[t] : t \in Templates} \cup {None}]
DSStatus   == [dataItems : Nat, replicas : Nat, success : Nat]
DSObject   == [uid : Nat, spec : Templates, status : DSStatus]

NewDataSet(t, uid) == [uid |-> uid, spec |-> t, status |->
                          [dataItems |-> 0, replicas |-> 0, success |-> 0]]
NewData(p, t, uid) == [pod |-> p, spec |-> t, owner |-> uid, fin |-> FALSE,
                       del |-> FALSE, st |-> None]
(* None stands apart from every name and every object.                     *)
ASSUME NoneAssumption ==
    None \notin Names \cup DataObject \cup PodObject \cup DSObject \cup Status

Existing(objs) == {x \in DOMAIN objs : objs[x] # None}
Success(d) == IF d.st = None THEN 0 ELSE d.st.sum["success"]

-----------------------------------------------------------------------------
(* The API server.  w is the holder that writes ("env" for everyone else): *)
(* it decodes the answer into its copy.  A write that changes nothing      *)
(* leaves the resourceVersion alone.                                       *)

DsHolders   == {"cache", "dataset"}
DataHolders == {"cache", "dataset", "data"}
PodHolders  == {"cache", "data"}

Behind(lag, changed, holders, w) == (IF changed THEN holders ELSE lag) \ {w}

PutDs(w, obj) ==
    /\ ds' = obj
    /\ lagDs' = Behind(lagDs, obj # ds, DsHolders, w)
    /\ UNCHANGED dsCache
WriteData(w, d, obj, bump) ==
    /\ data' = [data EXCEPT ![d] = obj]
    /\ lagData' = [lagData EXCEPT ![d] = Behind(@, bump, DataHolders, w)]
    /\ UNCHANGED dataCache
PutData(w, d, obj) == WriteData(w, d, obj, obj # data[d])
PutPod(w, p, obj) ==
    /\ pods' = [pods EXCEPT ![p] = obj]
    /\ lagPods' = [lagPods EXCEPT ![p] = Behind(@, obj # pods[p], PodHolders, w)]
    /\ UNCHANGED podsCache

(* Deleting an object that has a finalizer only marks it.                  *)
DeleteData(w, d) ==
    PutData(w, d, IF data[d].fin THEN [data[d] EXCEPT !.del = TRUE] ELSE None)

-----------------------------------------------------------------------------
(* The informer caches.  A delivery brings one kind up to date.  w takes   *)
(* its copy from the cache, and drops it when its reconcile ends.          *)

DeliverDs ==
    /\ "cache" \in lagDs
    /\ dsCache' = ds /\ lagDs' = lagDs \ {"cache"}
    /\ UNCHANGED ds
DataEvents == {d \in Names : "cache" \in lagData[d]}
DeliverData ==
    /\ DataEvents # {}
    /\ dataCache' = data
    /\ lagData' = [d \in Names |-> lagData[d] \ {"cache"}]
    /\ UNCHANGED data
PodEvents == {p \in Pods : "cache" \in lagPods[p]}
DeliverPods ==
    /\ PodEvents # {}
    /\ podsCache' = pods
    /\ lagPods' = [p \in Pods |-> lagPods[p] \ {"cache"}]
    /\ UNCHANGED <<pods, fresh>>

(* A resync hands every object in an informer's store to the handlers once *)
(* more, as an update to what it is, and asks the API server nothing.  The *)
(* manager leaves the period as it is, about ten hours.                    *)
Resyncs(cached) == "resync" \in Allowed /\ cached # None

CopyLag(lag, w) == IF "cache" \in lag THEN lag \cup {w} ELSE lag \ {w}
TakeDs(w)      == lagDs' = CopyLag(lagDs, w) /\ UNCHANGED <<ds, dsCache>>
TakeData(w, d) == /\ lagData' = [lagData EXCEPT ![d] = CopyLag(@, w)]
                  /\ UNCHANGED <<data, dataCache>>
TakePod(w, p)  == /\ lagPods' = [lagPods EXCEPT ![p] = CopyLag(@, w)]
                  /\ UNCHANGED <<pods, podsCache, fresh>>
Current(w, lag) == w \notin lag

(* A process that starts lists every object; no controller holds a copy.   *)
Relist ==
    /\ dsCache' = ds /\ dataCache' = data /\ podsCache' = pods
    /\ lagDs' = DsHolders \ {"cache"}
    /\ lagData' = [d \in Names |-> DataHolders \ {"cache"}]
    /\ lagPods' = [p \in Pods |-> PodHolders \ {"cache"}]
    /\ UNCHANGED <<storeVars, fresh>>

-----------------------------------------------------------------------------
(* The environment's budget, and the pods                                  *)

Disrupt(kind) == kind \in Allowed /\ budget > 0 /\ budget' = budget - 1

Unlabelled(p) == \A d \in Names : data[d] # None => data[d].pod # p
NameFree(p) == \/ p \in fresh \/ "reuseNames" \in Allowed
               \/ "cleanReuse" \in Allowed /\ Unlabelled(p)

CreatePod(p) ==
    /\ pods[p] = None /\ NameFree(p)
    /\ Disrupt("podChurn")
    /\ PutPod("env", p, [digest |-> None])
    /\ fresh' = fresh \ {p}
DeletePod(p) ==
    /\ pods[p] # None
    /\ Disrupt("podChurn")
    /\ PutPod("env", p, None)
    /\ UNCHANGED fresh
(* Someone else's write to a pod, of nothing that kuda reads: all copies   *)
(* of it are behind.                                                       *)
UpdatePod(p) ==
    /\ pods[p] # None
    /\ Disrupt("podUpdate")
    /\ lagPods' = [lagPods EXCEPT ![p] = PodHolders]
    /\ UNCHANGED <<pods, podsCache, fresh>>

ClusterInit ==
    /\ dsCache = ds /\ dataCache = data /\ podsCache = pods
    /\ lagDs = DsHolders \ {"cache"}
    /\ lagData = [d \in Names |-> DataHolders \ {"cache"}]
    /\ lagPods = [p \in Pods |-> PodHolders \ {"cache"}]
    /\ fresh = {p \in Pods : pods[p] = None}
    /\ budget = MaxDisruptions

ClusterTypeOK ==
    /\ ds \in DSObject \cup {None} /\ dsCache \in DSObject \cup {None}
    /\ data \in [Names -> DataObject \cup {None}]
    /\ dataCache \in [Names -> DataObject \cup {None}]
    /\ pods \in [Pods -> PodObject \cup {None}]
    /\ podsCache \in [Pods -> PodObject \cup {None}]
    /\ lagDs \in SUBSET DsHolders
    /\ lagData \in [Names -> SUBSET DataHolders]
    /\ lagPods \in [Pods -> SUBSET PodHolders]
    /\ fresh \subseteq Pods
    /\ budget \in 0 .. MaxDisruptions
=============================================================================
