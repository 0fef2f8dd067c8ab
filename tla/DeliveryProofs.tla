---------------------------- MODULE DeliveryProofs ----------------------------
(***************************************************************************)
(* The Data controller implements Delivery, for every set of pods and      *)
(* templates, every environment and every bound.                           *)
(***************************************************************************)
EXTENDS DataControllerProofs

-----------------------------------------------------------------------------
(* What the finalizer's invariant leaves to be said: a Data is found under *)
(* its pod's name, and between the listing of a digest and the telling of  *)
(* it, the status that lists the items is the one that was written.        *)

Named ==
    \A d \in Names : /\ data[d] # None => DataName(data[d].pod) = d
                     /\ dataCache[d] # None => DataName(dataCache[d].pod) = d

InstNamed == pc # "idle" => DataName(pod) = key
Tagged    == pc \in {"getPod", "status"} => tag = Digest[inst.spec]
Listed ==
    pc \in {"roleBinding", "annotate"} /\ annotation # tag =>
        /\ tag = Digest[inst.spec]
        /\ data[key] # None /\ data[key].st # None => data[key].st.of = inst.spec
LocalInv == InstNamed /\ Tagged /\ Listed

DeliveryInv == Named /\ LocalInv

LEMMA NamedWrite ==
    ASSUME TypeOK, Named, NEW d \in Names, NEW obj,
           obj # None => DataName(obj.pod) = d,
           data' = [data EXCEPT ![d] = obj], dataCache' = dataCache
    PROVE  Named'
BY TypeParts DEF Named, DataTyped

(* A status that lists something after the step listed the same before it. *)
Kept(d) ==
    data'[d] # None /\ data'[d].st # None =>
        data[d] # None /\ data[d].st # None /\ data'[d].st.of = data[d].st.of

LEMMA KeptWrite ==
    ASSUME TypeOK, NEW d \in Names, NEW e \in Names, NEW obj,
           data' = [data EXCEPT ![e] = obj],
           obj # None /\ obj.st # None =>
              data[e] # None /\ data[e].st # None /\ obj.st.of = data[e].st.of
    PROVE  Kept(d)
<1>1. DataTyped  BY TypeParts
<1>2. CASE d # e  BY <1>1, <1>2 DEF Kept, DataTyped
<1>3. CASE d = e
  <2>1. data'[d] = obj  BY <1>1, <1>3 DEF DataTyped
  <2> QED  BY <1>3, <2>1 DEF Kept
<1> QED  BY <1>2, <1>3

LEMMA LocalKept ==
    ASSUME TypeOK, LocalInv, UNCHANGED localVars, \A d \in Names : Kept(d)
    PROVE  LocalInv'
<1>1. pc # "idle" => key \in Names  BY WorkingTyped
<1> QED
  BY <1>1 DEF LocalInv, InstNamed, Tagged, Listed, localVars, Kept, pod

LEMMA IdleLocal ==
    ASSUME pc' = "idle"
    PROVE  LocalInv'
BY DEF LocalInv, InstNamed, Tagged, Listed

-----------------------------------------------------------------------------
(* Every step keeps the invariant *)

(* A step of the worker that writes no Data, and where it leaves the worker.*)
LEMMA MoveDelivery ==
    ASSUME TypeOK, DeliveryInv, UNCHANGED <<data, dataCache, key, inst, tag>>,
           \/ pc' \notin {"getPod", "status", "roleBinding", "annotate"}
           \/ pc = "getPod" /\ pc' = "status"
           \/ pc = "roleBinding" /\ pc' = "annotate" /\ annotation' = annotation,
           pc # "idle"
    PROVE  DeliveryInv'
BY DEF DeliveryInv, Named, LocalInv, InstNamed, Tagged, Listed, pod

LEMMA AbortDelivery ==
    ASSUME DeliveryInv, Abort
    PROVE  DeliveryInv'
<1>1. Named'  BY DEF Abort, DropCopies, DeliveryInv, Named
<1>2. pc' = "idle"  BY DEF Abort, DropCopies, Idle
<1> QED  BY <1>1, <1>2, IdleLocal DEF DeliveryInv

LEMMA FinishDelivery ==
    ASSUME TypeOK, DeliveryInv, pc # "idle", NEW obj, FinishWith(obj),
           obj # None => DataName(obj.pod) = key
    PROVE  DeliveryInv'
<1>1. key \in Names  BY WorkingTyped
<1>2. Named'
  BY <1>1, NamedWrite DEF FinishWith, DropCopies, DeliveryInv
<1>3. pc' = "idle"  BY DEF FinishWith, DropCopies, Idle
<1> QED  BY <1>2, <1>3, IdleLocal DEF DeliveryInv

LEMMA StatusDelivery ==
    ASSUME TypeOK, FinalizerInv, DeliveryInv, ResetStatus \/ PatchStatus
    PROVE  DeliveryInv'
<1>0. pc = "status"  BY DEF ResetStatus, PatchStatus
<1>1. key \in Names /\ DataTyped /\ data[key] \in DataObject \cup {None}
      /\ inst.spec \in Templates
  BY <1>0, WorkingTyped, TypeParts
<1>2. CASE ResetStatus
  <2> DEFINE obj == [data[key] EXCEPT !.st = Default(inst.spec)]
  <2>1. data[key] # None /\ data[key] = inst
    BY <1>2 DEF ResetStatus, InstCurrent, Current, FinalizerInv, DataInv
  <2>2. /\ obj.pod = data[key].pod /\ obj.spec = inst.spec
        /\ obj.st = Default(inst.spec)
    BY <1>1, <2>1 DEF DataObject
  <2>3. obj.st.of = inst.spec  BY <2>2 DEF Default, Listing
  <2>4. /\ data' = [data EXCEPT ![key] = obj] /\ dataCache' = dataCache
        /\ inst' = obj /\ pc' = "roleBinding" /\ key' = key /\ tag' = tag
    BY <1>2 DEF ResetStatus, WriteData, WriteStatus, SameKey
  <2> HIDE DEF obj
  <2>5. DataName(obj.pod) = key  BY <1>1, <2>1, <2>2 DEF DeliveryInv, Named
  <2>6. Named'  BY <1>1, <2>4, <2>5, NamedWrite DEF DeliveryInv
  <2>7. data'[key] = obj  BY <1>1, <2>4 DEF DataTyped
  <2>8. tag = Digest[inst.spec]  BY <1>0 DEF DeliveryInv, LocalInv, Tagged
  <2>9. LocalInv'
    BY <2>2, <2>3, <2>4, <2>5, <2>7, <2>8
    DEF LocalInv, InstNamed, Tagged, Listed, pod
  <2> QED  BY <2>6, <2>9 DEF DeliveryInv
<1>3. CASE PatchStatus
  <2> DEFINE sum == MergePatch(data[key].st.sum, OldSum(inst), LatestSum(inst))
             obj == [data[key] EXCEPT !.st.sum = sum]
  <2>1. data[key] # None  BY <1>3 DEF PatchStatus, PatchAccepted
  <2>2. obj.pod = data[key].pod  BY <1>1, <2>1 DEF DataObject
  <2>4. /\ data' = [data EXCEPT ![key] = obj] /\ dataCache' = dataCache
        /\ inst' = obj /\ pc' = "roleBinding" /\ key' = key
        /\ tag' = tag /\ annotation' = annotation /\ annotation = tag
    BY <1>3 DEF PatchStatus, PutData, WriteData, WriteStatus, SameKey, ResetNeeded
  <2> HIDE DEF obj
  <2>5. DataName(obj.pod) = key  BY <1>1, <2>1, <2>2 DEF DeliveryInv, Named
  <2>6. Named'  BY <1>1, <2>4, <2>5, NamedWrite DEF DeliveryInv
  <2>7. LocalInv'
    BY <2>4, <2>5 DEF LocalInv, InstNamed, Tagged, Listed, pod
  <2> QED  BY <2>6, <2>7 DEF DeliveryInv
<1> QED  BY <1>2, <1>3

LEMMA WorkDelivery ==
    ASSUME TypeOK, FinalizerInv, DeliveryInv, Work
    PROVE  DeliveryInv'
<1>1. ASSUME NEW d \in Names, GetDataGone(d)  PROVE DeliveryInv'
  <2>1. Named'  BY <1>1 DEF GetDataGone, SameApi, dataVars, DeliveryInv, Named
  <2>2. pc' = "idle"  BY <1>1 DEF GetDataGone, localVars
  <2> QED  BY <2>1, <2>2, IdleLocal DEF DeliveryInv
<1>2. ASSUME NEW d \in Names, GetData(d)  PROVE DeliveryInv'
  <2>1. Named'  BY <1>2 DEF GetData, TakeData, DeliveryInv, Named
  <2>2. DataName(dataCache[d].pod) = d  BY <1>2 DEF GetData, DeliveryInv, Named
  <2>3. LocalInv'
    BY <1>2, <2>2 DEF GetData, LocalInv, InstNamed, Tagged, Listed, pod
  <2> QED  BY <2>1, <2>3 DEF DeliveryInv
<1>3. CASE GetPod \/ GetPodGone
  BY <1>3, MoveDelivery
  DEF GetPod, GetPodGone, SameKey, SameCopy, SameApi, dataVars
<1>4. CASE ResetStatus \/ PatchStatus  BY <1>4, StatusDelivery
<1>5. CASE \/ StatusRejected \/ CreateRoleBinding \/ AnnotateRejected
           \/ StripRejected \/ FinalizerRejected
  BY <1>5, AbortDelivery
  DEF StatusRejected, CreateRoleBinding, AnnotateRejected, StripRejected,
      FinalizerRejected
<1>6. CASE RoleBindingFound \/ StripGone
  BY <1>6, MoveDelivery
  DEF RoleBindingFound, StripGone, SameKey, SameCopy, SameApi, dataVars
<1>7. CASE Annotate \/ AlreadyAnnotated \/ Strip
  <2>1. AfterAnnotate \notin {"getPod", "status", "roleBinding", "annotate"}
    BY DEF AfterAnnotate
  <2> QED
    BY <1>7, <2>1, MoveDelivery
    DEF Annotate, AlreadyAnnotated, Strip, WriteDigest, SameKey, SameCopy, SameApi,
        dataVars
<1>8. CASE RemoveFinalizer \/ AddFinalizer \/ Done
  <2>1. pc # "idle"  BY <1>8 DEF RemoveFinalizer, AddFinalizer, Done
  <2>2. key \in Names /\ data[key] \in DataObject \cup {None}
    BY <2>1, WorkingTyped
  <2>3. data[key] # None => DataName(data[key].pod) = key
    BY <2>2 DEF DeliveryInv, Named
  <2>4. CASE RemoveFinalizer
    <3> DEFINE obj == IF inst.del THEN None ELSE [data[key] EXCEPT !.fin = FALSE]
    <3>1. data[key] # None /\ FinishWith(obj)
      BY <2>4 DEF RemoveFinalizer, InstCurrent
    <3>2. obj # None => obj.pod = data[key].pod  BY <2>2, <3>1 DEF DataObject
    <3> HIDE DEF obj
    <3> QED  BY <2>1, <2>3, <3>1, <3>2, FinishDelivery
  <2>5. CASE AddFinalizer
    <3> DEFINE obj == [data[key] EXCEPT !.fin = TRUE]
    <3>1. data[key] # None /\ FinishWith(obj)
      BY <2>5 DEF AddFinalizer, InstCurrent
    <3>2. obj.pod = data[key].pod  BY <2>2, <3>1 DEF DataObject
    <3> HIDE DEF obj
    <3> QED  BY <2>1, <2>3, <3>1, <3>2, FinishDelivery
  <2>6. CASE Done  BY <2>1, <2>3, <2>6, FinishDelivery DEF Done
  <2> QED  BY <1>8, <2>4, <2>5, <2>6
<1> QED  BY <1>1, <1>2, <1>3, <1>4, <1>5, <1>6, <1>7, <1>8 DEF Work

(* What the environment does to a Data: it names it after its pod, and     *)
(* leaves the listing alone.                                               *)
EnvironmentWrite(d, obj) ==
    /\ data' = [data EXCEPT ![d] = obj] /\ dataCache' = dataCache
    /\ UNCHANGED localVars
    /\ obj # None => DataName(obj.pod) = d
    /\ obj # None /\ obj.st # None =>
          data[d] # None /\ data[d].st # None /\ obj.st.of = data[d].st.of

LEMMA EnvironmentWrites ==
    ASSUME TypeOK, Named, Environment
    PROVE  \/ \E d \in Names : \E obj : EnvironmentWrite(d, obj)
           \/ UNCHANGED <<data, dataCache, localVars>>
<1>0. DataTyped  BY TypeParts
<1>1. ASSUME NEW p \in Pods, DataSetCreates(p)
      PROVE  \E d \in Names : \E obj : EnvironmentWrite(d, obj)
  <2>1. PICK t \in Templates : PutData("env", DataName(p), NewData(p, t, 1))
    BY <1>1 DEF DataSetCreates
  <2>2. DataName(p) \in Names  BY <1>1 DEF DataSetCreates, Names
  <2>3. EnvironmentWrite(DataName(p), NewData(p, t, 1))
    BY <1>1, <2>1
    DEF DataSetCreates, PutData, WriteData, dcVars, NewData, EnvironmentWrite
  <2> QED  BY <2>2, <2>3
<1>2. ASSUME NEW p \in Pods, PodChurn(p)
      PROVE  UNCHANGED <<data, dataCache, localVars>>
  BY <1>2 DEF PodChurn, dataVars, dcVars
<1>3. ASSUME NEW d \in Names, DataSetPrunes(d) \/ UserDeletes(d)
      PROVE  \E obj : EnvironmentWrite(d, obj)
  <2> DEFINE obj == IF data[d].fin THEN [data[d] EXCEPT !.del = TRUE] ELSE None
  <2>1. data[d] \in DataObject /\ DataName(data[d].pod) = d
    BY <1>0, <1>3 DEF DataSetPrunes, UserDeletes, DataTyped, Named
  <2>2. obj # None => obj.pod = data[d].pod /\ obj.st = data[d].st
    BY <2>1 DEF DataObject
  <2>3. data' = [data EXCEPT ![d] = obj] /\ dataCache' = dataCache
        /\ UNCHANGED localVars /\ data[d] # None
    BY <1>3 DEF DataSetPrunes, UserDeletes, DeleteData, PutData, WriteData, dcVars
  <2> HIDE DEF obj
  <2>4. EnvironmentWrite(d, obj)  BY <2>1, <2>2, <2>3 DEF EnvironmentWrite
  <2> QED  BY <2>4
<1>4. ASSUME NEW d \in Names, NEW t \in Templates, DataSetUpdates(d, t)
      PROVE  \E obj : EnvironmentWrite(d, obj)
  <2> DEFINE obj == [data[d] EXCEPT !.spec = t]
  <2>1. data[d] \in DataObject /\ DataName(data[d].pod) = d
    BY <1>0, <1>4 DEF DataSetUpdates, DataTyped, Named
  <2>2. obj.pod = data[d].pod /\ obj.st = data[d].st  BY <2>1 DEF DataObject
  <2>3. data' = [data EXCEPT ![d] = obj] /\ dataCache' = dataCache
        /\ UNCHANGED localVars /\ data[d] # None
    BY <1>4 DEF DataSetUpdates, PutData, WriteData, dcVars
  <2> HIDE DEF obj
  <2>4. EnvironmentWrite(d, obj)  BY <2>1, <2>2, <2>3 DEF EnvironmentWrite
  <2> QED  BY <2>4
<1>5. ASSUME NEW d \in Names, NEW ph \in ReportPhases, RuntimeReports(d, ph)
      PROVE  \E obj : EnvironmentWrite(d, obj)
  <2>1. PICK i \in Items(data[d].st.of) :
            PutData("env", d, [data[d] EXCEPT !.st.phase[i] = ph])
    BY <1>5 DEF RuntimeReports
  <2> DEFINE obj == [data[d] EXCEPT !.st.phase[i] = ph]
  <2>2. data[d] \in DataObject /\ data[d].st \in Status /\ DataName(data[d].pod) = d
    BY <1>0, <1>5 DEF RuntimeReports, DataTyped, DataObject, Named
  <2>3. obj.pod = data[d].pod /\ obj.st.of = data[d].st.of
    BY <2>2 DEF DataObject, Status
  <2>4. data' = [data EXCEPT ![d] = obj] /\ dataCache' = dataCache
        /\ UNCHANGED localVars /\ data[d] # None /\ data[d].st # None
    BY <1>5, <2>1 DEF RuntimeReports, PutData, WriteData, dcVars
  <2> HIDE DEF obj
  <2>5. EnvironmentWrite(d, obj)  BY <2>2, <2>3, <2>4 DEF EnvironmentWrite
  <2> QED  BY <2>5
<1> QED  BY <1>1, <1>2, <1>3, <1>4, <1>5 DEF Environment

LEMMA DeliveryNext ==
    TypeOK /\ FinalizerInv /\ DeliveryInv /\ [Next]_vars => DeliveryInv'
<1> SUFFICES ASSUME TypeOK, FinalizerInv, DeliveryInv, [Next]_vars
             PROVE  DeliveryInv'
  OBVIOUS
<1>0. Named /\ LocalInv  BY DEF DeliveryInv
<1>1. CASE Work  BY <1>1, WorkDelivery
<1>2. ASSUME UNCHANGED <<data, localVars>>, dataCache' = dataCache \/ dataCache' = data
      PROVE  DeliveryInv'
  <2>1. Named'  BY <1>0, <1>2 DEF Named
  <2>2. \A d \in Names : Kept(d)  BY <1>2 DEF Kept
  <2> QED  BY <1>0, <1>2, <2>1, <2>2, LocalKept DEF DeliveryInv
<1>3. CASE Deliver \/ UNCHANGED vars
  BY <1>2, <1>3
  DEF Deliver, OnDataEvents, DeliverData, OnPodEvents, OnBindingEvents, Resync,
      dataVars, dcVars, vars
<1>4. CASE Fault  BY <1>4, AbortDelivery DEF Fault
<1>5. CASE Restart
  <2>1. pc' = "idle" /\ data' = data /\ dataCache' = data
    BY <1>5 DEF Restart, Boot, Relist, Idle, storeVars
  <2>2. Named'  BY <1>0, <2>1 DEF Named
  <2> QED  BY <2>1, <2>2, IdleLocal DEF DeliveryInv
<1>6. CASE Environment
  <2>1. ASSUME NEW d \in Names, NEW obj, EnvironmentWrite(d, obj)
        PROVE  DeliveryInv'
    <3>1. Named'  BY <1>0, <2>1, NamedWrite DEF EnvironmentWrite
    <3>2. \A e \in Names : Kept(e)  BY <2>1, KeptWrite DEF EnvironmentWrite
    <3> QED
      BY <1>0, <2>1, <3>1, <3>2, LocalKept DEF EnvironmentWrite, DeliveryInv
  <2> QED  BY <1>0, <1>2, <1>6, <2>1, EnvironmentWrites
<1> QED  BY <1>1, <1>3, <1>4, <1>5, <1>6 DEF Next

-----------------------------------------------------------------------------
(* Every step is one of Delivery's, or changes nothing that Delivery sees  *)

Datas == [d \in Names |-> Outline(data[d])]

LEMMA OutlineWrite ==
    ASSUME TypeOK, NEW d \in Names, NEW obj, data' = [data EXCEPT ![d] = obj]
    PROVE  Datas' = [Datas EXCEPT ![d] = Outline(obj)]
BY TypeParts DEF Datas, DataTyped

LEMMA PromisePut ==
    ASSUME TypeOK, NEW d \in Names, NEW obj, data' = [data EXCEPT ![d] = obj],
           UNCHANGED pods
    PROVE  Promise!Put(d, Outline(obj))
BY OutlineWrite DEF Promise!Put, Datas

(* A write that Delivery does not see.                                     *)
LEMMA Unseen ==
    ASSUME TypeOK, UNCHANGED pods,
           \/ UNCHANGED data
           \/ \E d \in Names : \E obj : /\ data' = [data EXCEPT ![d] = obj]
                                        /\ Outline(obj) = Outline(data[d])
    PROVE  UNCHANGED Promise!vars
<1>1. CASE UNCHANGED data  BY <1>1 DEF Promise!vars
<1>2. ASSUME NEW d \in Names, NEW obj, data' = [data EXCEPT ![d] = obj],
             Outline(obj) = Outline(data[d])
      PROVE  UNCHANGED Promise!vars
  <2>1. Datas' = [Datas EXCEPT ![d] = Outline(obj)]  BY <1>2, OutlineWrite
  <2>2. Datas' = Datas  BY <1>2, <2>1 DEF Datas
  <2> QED  BY <2>2 DEF Datas, Promise!vars
<1> QED  BY <1>1, <1>2

LEMMA OutlineOf ==
    ASSUME NEW obj \in DataObject
    PROVE  /\ obj # None /\ Outline(obj).there
           /\ Outline(obj).pod = obj.pod /\ Outline(obj).wants = obj.spec
           /\ Outline(obj).held = obj.fin
           /\ Outline(obj).lists = IF obj.st = None THEN None ELSE obj.st.of
BY NoneAssumption DEF Outline

OutlineFields == {"there", "pod", "wants", "lists", "held"}
There(p, w, l, h) ==
    [there |-> TRUE, pod |-> p, wants |-> w, lists |-> l, held |-> h]

LEMMA SameFields ==
    ASSUME NEW f, NEW g, NEW S,
           f = [x \in S |-> f[x]], g = [x \in S |-> g[x]], \A x \in S : f[x] = g[x]
    PROVE  f = g
<1>1. [x \in S |-> f[x]] = [x \in S |-> g[x]]  OBVIOUS
<1> QED  BY <1>1, Zenon

LEMMA ThereFields ==
    ASSUME NEW p, NEW w, NEW l, NEW h
    PROVE  There(p, w, l, h) = [y \in OutlineFields |-> There(p, w, l, h)[y]]
BY DEF There, OutlineFields

LEMMA WantsEdit ==
    ASSUME NEW p, NEW w, NEW l, NEW h, NEW x
    PROVE  [There(p, w, l, h) EXCEPT !.wants = x] = There(p, x, l, h)
<1> DEFINE new == [There(p, w, l, h) EXCEPT !.wants = x]
           aim == There(p, x, l, h)
<1>1. new = [y \in OutlineFields |-> new[y]]  BY DEF There, OutlineFields
<1>2. aim = [y \in OutlineFields |-> aim[y]]  BY ThereFields
<1>3. new.there = aim.there  BY DEF There
<1>4. /\ new.pod = aim.pod /\ new.wants = aim.wants /\ new.lists = aim.lists
      /\ new.held = aim.held
  BY DEF There
<1> HIDE DEF new, aim
<1>5. \A y \in OutlineFields : new[y] = aim[y]  BY <1>3, <1>4 DEF OutlineFields
<1>6. new = aim  BY <1>1, <1>2, <1>5, SameFields
<1> QED  BY <1>6 DEF new, aim

LEMMA ListsEdit ==
    ASSUME NEW p, NEW w, NEW l, NEW h, NEW x
    PROVE  [There(p, w, l, h) EXCEPT !.lists = x] = There(p, w, x, h)
<1> DEFINE new == [There(p, w, l, h) EXCEPT !.lists = x]
           aim == There(p, w, x, h)
<1>1. new = [y \in OutlineFields |-> new[y]]  BY DEF There, OutlineFields
<1>2. aim = [y \in OutlineFields |-> aim[y]]  BY ThereFields
<1>3. new.there = aim.there  BY DEF There
<1>4. /\ new.pod = aim.pod /\ new.wants = aim.wants /\ new.lists = aim.lists
      /\ new.held = aim.held
  BY DEF There
<1> HIDE DEF new, aim
<1>5. \A y \in OutlineFields : new[y] = aim[y]  BY <1>3, <1>4 DEF OutlineFields
<1>6. new = aim  BY <1>1, <1>2, <1>5, SameFields
<1> QED  BY <1>6 DEF new, aim

LEMMA HeldEdit ==
    ASSUME NEW p, NEW w, NEW l, NEW h, NEW x
    PROVE  [There(p, w, l, h) EXCEPT !.held = x] = There(p, w, l, x)
<1> DEFINE new == [There(p, w, l, h) EXCEPT !.held = x]
           aim == There(p, w, l, x)
<1>1. new = [y \in OutlineFields |-> new[y]]  BY DEF There, OutlineFields
<1>2. aim = [y \in OutlineFields |-> aim[y]]  BY ThereFields
<1>3. new.there = aim.there  BY DEF There
<1>4. /\ new.pod = aim.pod /\ new.wants = aim.wants /\ new.lists = aim.lists
      /\ new.held = aim.held
  BY DEF There
<1> HIDE DEF new, aim
<1>5. \A y \in OutlineFields : new[y] = aim[y]  BY <1>3, <1>4 DEF OutlineFields
<1>6. new = aim  BY <1>1, <1>2, <1>5, SameFields
<1> QED  BY <1>6 DEF new, aim

(* What a change of one field of a Data is in outline.                     *)
LEMMA OutlineEdit ==
    ASSUME NEW obj \in DataObject
    PROVE  /\ \A b \in BOOLEAN :
                 Outline([obj EXCEPT !.fin = b]) = [Outline(obj) EXCEPT !.held = b]
           /\ \A st \in Status :
                 Outline([obj EXCEPT !.st = st]) = [Outline(obj) EXCEPT !.lists = st.of]
           /\ \A t \in Templates :
                 Outline([obj EXCEPT !.spec = t]) = [Outline(obj) EXCEPT !.wants = t]
<1> DEFINE lists(o) == IF o.st = None THEN None ELSE o.st.of
<1>1. ASSUME NEW o \in DataObject
      PROVE  Outline(o) = There(o.pod, o.spec, lists(o), o.fin)
  BY NoneAssumption DEF Outline, There
<1>2. ASSUME NEW b \in BOOLEAN
      PROVE  Outline([obj EXCEPT !.fin = b]) = [Outline(obj) EXCEPT !.held = b]
  <2> DEFINE new == [obj EXCEPT !.fin = b]
  <2>1. /\ new \in DataObject /\ new.pod = obj.pod /\ new.spec = obj.spec
        /\ new.st = obj.st /\ new.fin = b
    BY DEF DataObject
  <2> HIDE DEF new
  <2>2. Outline(new) = There(obj.pod, obj.spec, lists(obj), b)  BY <1>1, <2>1
  <2> HIDE DEF lists
  <2>3. Outline(obj) = There(obj.pod, obj.spec, lists(obj), obj.fin)  BY <1>1
  <2>4. [There(obj.pod, obj.spec, lists(obj), obj.fin) EXCEPT !.held = b]
            = There(obj.pod, obj.spec, lists(obj), b)
    BY HeldEdit
  <2>5. Outline(new) = [Outline(obj) EXCEPT !.held = b]
    BY <2>2, <2>3, <2>4, Zenon
  <2> QED  BY <2>5 DEF new
<1>3. ASSUME NEW st \in Status
      PROVE  Outline([obj EXCEPT !.st = st]) = [Outline(obj) EXCEPT !.lists = st.of]
  <2> DEFINE new == [obj EXCEPT !.st = st]
  <2>1. /\ new \in DataObject /\ new.pod = obj.pod /\ new.spec = obj.spec
        /\ new.st = st /\ new.fin = obj.fin /\ st # None
    BY NoneAssumption DEF DataObject
  <2> HIDE DEF new
  <2>2. Outline(new) = There(obj.pod, obj.spec, st.of, obj.fin)  BY <1>1, <2>1
  <2> HIDE DEF lists
  <2>3. Outline(obj) = There(obj.pod, obj.spec, lists(obj), obj.fin)  BY <1>1
  <2>4. [There(obj.pod, obj.spec, lists(obj), obj.fin) EXCEPT !.lists = st.of]
            = There(obj.pod, obj.spec, st.of, obj.fin)
    BY ListsEdit
  <2>5. Outline(new) = [Outline(obj) EXCEPT !.lists = st.of]
    BY <2>2, <2>3, <2>4, Zenon
  <2> QED  BY <2>5 DEF new
<1>4. ASSUME NEW t \in Templates
      PROVE  Outline([obj EXCEPT !.spec = t]) = [Outline(obj) EXCEPT !.wants = t]
  <2> DEFINE new == [obj EXCEPT !.spec = t]
  <2>1. /\ new \in DataObject /\ new.pod = obj.pod /\ new.spec = t
        /\ new.st = obj.st /\ new.fin = obj.fin
    BY DEF DataObject
  <2> HIDE DEF new
  <2>2. Outline(new) = There(obj.pod, t, lists(obj), obj.fin)  BY <1>1, <2>1
  <2> HIDE DEF lists
  <2>3. Outline(obj) = There(obj.pod, obj.spec, lists(obj), obj.fin)  BY <1>1
  <2>4. [There(obj.pod, obj.spec, lists(obj), obj.fin) EXCEPT !.wants = t]
            = There(obj.pod, t, lists(obj), obj.fin)
    BY WantsEdit
  <2>5. Outline(new) = [Outline(obj) EXCEPT !.wants = t]
    BY <2>2, <2>3, <2>4, Zenon
  <2> QED  BY <2>5 DEF new
<1> QED  BY <1>2, <1>3, <1>4

(* The worker's writes of a Data.                                          *)
LEMMA WorkWritesData ==
    ASSUME TypeOK, FinalizerInv, DeliveryInv,
           ResetStatus \/ PatchStatus \/ RemoveFinalizer \/ AddFinalizer \/ Done
    PROVE  Promise!Next \/ UNCHANGED Promise!vars
<1>1. pc # "idle" /\ pc # "getPod" /\ UNCHANGED pods
  BY DEF ResetStatus, PatchStatus, RemoveFinalizer, AddFinalizer, Done, WriteStatus,
     FinishWith, DropCopies, podVars
<1>2. key \in Names /\ DataTyped /\ data[key] \in DataObject \cup {None}
      /\ inst.spec \in Templates /\ inst \in DataObject
  BY <1>1, WorkingTyped, TypeParts
<1>3. Datas[key] = Outline(data[key])  BY <1>2 DEF Datas
<1>4. CASE ResetStatus
  <2> DEFINE obj == [data[key] EXCEPT !.st = Default(inst.spec)]
  <2>1. data[key] # None /\ data[key] = inst
    BY <1>4 DEF ResetStatus, InstCurrent, Current, FinalizerInv, DataInv
  <2>2. data' = [data EXCEPT ![key] = obj]  BY <1>4 DEF ResetStatus, WriteData
  <2>3. Default(inst.spec) \in Status /\ Default(inst.spec).of = inst.spec
    BY <1>2, DefaultType DEF Default, Listing
  <2>4. data[key] \in DataObject /\ Datas[key].wants = inst.spec
    BY <1>2, <1>3, <2>1, OutlineOf
  <2>5. Outline(obj) = [Datas[key] EXCEPT !.lists = Datas[key].wants]
    BY <1>3, <2>3, <2>4, OutlineEdit
  <2> HIDE DEF obj
  <2>6. Promise!Put(key, Outline(obj))  BY <1>1, <1>2, <2>2, PromisePut
  <2>7. Promise!List(key)
    BY <1>2, <1>3, <2>1, <2>5, <2>6, OutlineOf DEF Promise!List, Datas
  <2> QED  BY <1>2, <2>7 DEF Promise!Next
<1>5. CASE PatchStatus
  <2> DEFINE sum == MergePatch(data[key].st.sum, OldSum(inst), LatestSum(inst))
             new == [data[key].st EXCEPT !.sum = sum]
             obj == [data[key] EXCEPT !.st = new]
  <2>1. data[key] \in DataObject /\ data[key].st \in Status
    BY <1>2, <1>5 DEF PatchStatus, PatchAccepted, DataObject
  <2>2. data' = [data EXCEPT ![key] = obj]
    BY <1>5 DEF PatchStatus, PutData, WriteData
  <2>3. sum \in [Fields -> Nat]
    BY <1>2, <2>1, LatestSumType DEF MergePatch, Status
  <2>4. new \in Status /\ new.of = data[key].st.of
    <3> HIDE DEF sum
    <3> QED  BY <2>1, <2>3 DEF Status
  <2>5. new # None /\ data[key].st # None  BY <2>1, <2>4, NoneAssumption
  <2>6. Outline(obj) = Outline(data[key])
    <3> HIDE DEF new
    <3> QED  BY <2>1, <2>4, <2>5, NoneAssumption DEF Outline, DataObject
  <2> HIDE DEF obj
  <2> QED  BY <1>1, <1>2, <2>2, <2>6, Unseen
<1>6. CASE RemoveFinalizer
  <2> DEFINE obj == IF inst.del THEN None ELSE [data[key] EXCEPT !.fin = FALSE]
  <2>1. data[key] \in DataObject /\ data[key] = inst
    BY <1>2, <1>6 DEF RemoveFinalizer, InstCurrent, Current, FinalizerInv, DataInv
  <2>2. data' = [data EXCEPT ![key] = obj]
    BY <1>6 DEF RemoveFinalizer, FinishWith
  <2>3. Bare(data[key].pod)
    BY <1>6, <2>1 DEF RemoveFinalizer, FinalizerInv, Clean, pod
  <2>4. \/ Outline(obj) = Promise!Absent
        \/ Outline(obj) = [Datas[key] EXCEPT !.held = FALSE]
    <3>1. CASE inst.del  BY <3>1 DEF Outline, Promise!Absent
    <3>2. CASE ~inst.del  BY <1>3, <2>1, <3>2, OutlineEdit
    <3> QED  BY <3>1, <3>2
  <2> HIDE DEF obj
  <2>5. Promise!Put(key, Outline(obj))  BY <1>1, <1>2, <2>2, PromisePut
  <2>6. Promise!LetGo(key)
    BY <1>2, <1>3, <2>1, <2>3, <2>4, <2>5, OutlineOf
    DEF Promise!LetGo, Promise!Silent, Bare, Datas
  <2> QED  BY <1>2, <2>6 DEF Promise!Next
<1>7. CASE AddFinalizer
  <2> DEFINE obj == [data[key] EXCEPT !.fin = TRUE]
  <2>1. data[key] \in DataObject  BY <1>2, <1>7 DEF AddFinalizer, InstCurrent
  <2>2. data' = [data EXCEPT ![key] = obj]
    BY <1>7 DEF AddFinalizer, FinishWith
  <2>3. Outline(obj) = [Datas[key] EXCEPT !.held = TRUE]
    BY <1>3, <2>1, OutlineEdit
  <2> HIDE DEF obj
  <2>4. Promise!Put(key, Outline(obj))  BY <1>1, <1>2, <2>2, PromisePut
  <2>5. Promise!Hold(key)
    BY <1>2, <1>3, <2>1, <2>3, <2>4, OutlineOf DEF Promise!Hold, Datas
  <2> QED  BY <1>2, <2>5 DEF Promise!Next
<1>8. CASE Done
  <2>1. data' = [data EXCEPT ![key] = data[key]]  BY <1>8 DEF Done, FinishWith
  <2> QED  BY <1>1, <1>2, <2>1, Unseen
<1> QED  BY <1>4, <1>5, <1>6, <1>7, <1>8

(* The worker's writes of a pod: a digest is told once the status that     *)
(* lists anything lists what the digest stands for; stripping is silence.  *)
LEMMA WorkWritesPod ==
    ASSUME TypeOK, FinalizerInv, DeliveryInv, Annotate \/ Strip
    PROVE  Promise!Next
<1>1. pc # "idle" /\ UNCHANGED data
  BY DEF Annotate, Strip, WriteDigest, dataVars
<1>2. pod \in Pods /\ key \in Names /\ inst.spec \in Templates /\ pods[pod] # None
  BY <1>1, WorkingTyped DEF Annotate, Strip, WriteDigest, PodCurrent
<1>3. UNCHANGED Datas  BY <1>1 DEF Datas
<1>4. CASE Annotate
  <2>1. pods' = [pods EXCEPT ![pod] = [digest |-> tag]]
    BY <1>4 DEF Annotate, WriteDigest, PutPod
  <2>2. /\ tag = Digest[inst.spec]
        /\ data[key] # None /\ data[key].st # None => data[key].st.of = inst.spec
    BY <1>4 DEF Annotate, DeliveryInv, LocalInv, Listed
  <2>3. ASSUME NEW d \in Names, Datas[d].there, Datas[d].pod = pod
        PROVE  Datas[d].lists \in {None, inst.spec}
    <3>1. data[d] \in DataObject /\ Datas[d] = Outline(data[d])
      BY <2>3, TypeParts DEF Datas, DataTyped, Outline
    <3>2. d = key
      BY <1>1, <2>3, <3>1, OutlineOf DEF DeliveryInv, Named, LocalInv, InstNamed
    <3> QED  BY <2>2, <3>1, <3>2, OutlineOf
  <2>4. Promise!Listing(pod, inst.spec)  BY <2>3 DEF Promise!Listing, Datas
  <2>5. Promise!Tell(pod)
    BY <1>2, <1>3, <2>1, <2>2, <2>4 DEF Promise!Tell, Promise!Set, Datas
  <2> QED  BY <1>2, <2>5 DEF Promise!Next
<1>5. CASE Strip
  <2>1. pods' = [pods EXCEPT ![pod] = [digest |-> None]]
    BY <1>5 DEF Strip, WriteDigest, PutPod
  <2>2. Promise!Silence(pod)
    BY <1>2, <1>3, <2>1 DEF Promise!Silence, Promise!Set, Datas
  <2> QED  BY <1>2, <2>2 DEF Promise!Next
<1> QED  BY <1>4, <1>5

LEMMA WorkDelivers ==
    ASSUME TypeOK, FinalizerInv, DeliveryInv, Work
    PROVE  Promise!Next \/ UNCHANGED Promise!vars
<1>1. ASSUME UNCHANGED <<data, pods>>  PROVE UNCHANGED Promise!vars
  BY <1>1, Unseen
<1>2. CASE (\E d \in Names : GetData(d) \/ GetDataGone(d)) \/ GetPod \/ GetPodGone
  BY <1>1, <1>2
  DEF GetData, GetDataGone, TakeData, GetPod, TakePod, GetPodGone, SameApi, dataVars,
      podVars
<1>3. CASE \/ StatusRejected \/ CreateRoleBinding \/ AnnotateRejected
           \/ StripRejected \/ FinalizerRejected
  BY <1>1, <1>3
  DEF StatusRejected, CreateRoleBinding, AnnotateRejected, StripRejected,
      FinalizerRejected, Abort, DropCopies
<1>4. CASE RoleBindingFound \/ AlreadyAnnotated \/ StripGone
  BY <1>1, <1>4
  DEF RoleBindingFound, AlreadyAnnotated, StripGone, SameApi, dataVars, podVars
<1> QED
  BY <1>2, <1>3, <1>4, WorkWritesData, WorkWritesPod DEF Work

LEMMA EnvironmentDelivers ==
    ASSUME TypeOK, Environment
    PROVE  Promise!Next \/ UNCHANGED Promise!vars
<1>0. DataTyped  BY TypeParts
<1>d. ASSUME NEW d \in Names  PROVE Datas[d] = Outline(data[d])
  BY DEF Datas
<1>1. ASSUME NEW p \in Pods, DataSetCreates(p)  PROVE Promise!Next
  <2>1. PICK t \in Templates : PutData("env", DataName(p), NewData(p, t, 1))
    BY <1>1 DEF DataSetCreates
  <2>2. DataName(p) \in Names /\ data[DataName(p)] = None
    BY <1>1 DEF DataSetCreates, Names
  <2>3. data' = [data EXCEPT ![DataName(p)] = NewData(p, t, 1)] /\ UNCHANGED pods
    BY <1>1, <2>1 DEF DataSetCreates, PutData, WriteData, podVars
  <2>4. NewData(p, t, 1) \in DataObject  BY DEF NewData, DataObject
  <2>5. Outline(NewData(p, t, 1)) = Promise!New(p, t)
    BY <2>4, NoneAssumption DEF Outline, NewData, Promise!New
  <2>6. Promise!Put(DataName(p), Promise!New(p, t))
    BY <2>2, <2>3, <2>5, PromisePut
  <2>7. ~Datas[DataName(p)].there
    <3>1. Outline(None).there = FALSE  BY DEF Outline
    <3> QED  BY <2>2, <1>d, <3>1
  <2>8. Promise!Create(DataName(p))  BY <2>6, <2>7 DEF Promise!Create, Datas
  <2> QED  BY <2>2, <2>8 DEF Promise!Next
<1>2. ASSUME NEW p \in Pods, PodChurn(p)
      PROVE  Promise!Next \/ UNCHANGED Promise!vars
  <2>1. UNCHANGED Datas  BY <1>2 DEF PodChurn, dataVars, Datas
  <2>2. CASE CreatePod(p)
    <3>1. Promise!Come(p)
      BY <2>1, <2>2 DEF CreatePod, PutPod, Promise!Come, Promise!Set, Datas
    <3> QED  BY <3>1 DEF Promise!Next
  <2>3. CASE DeletePod(p)
    <3>1. Promise!Go(p)
      BY <2>1, <2>3 DEF DeletePod, PutPod, Promise!Go, Promise!Set, Datas
    <3> QED  BY <3>1 DEF Promise!Next
  <2>4. CASE UpdatePod(p)
    BY <2>1, <2>4 DEF UpdatePod, Promise!vars, Datas
  <2> QED  BY <1>2, <2>2, <2>3, <2>4 DEF PodChurn
<1>3. ASSUME NEW d \in Names, DataSetPrunes(d) \/ UserDeletes(d)
      PROVE  Promise!Next \/ UNCHANGED Promise!vars
  <2> DEFINE obj == IF data[d].fin THEN [data[d] EXCEPT !.del = TRUE] ELSE None
  <2>1. data[d] \in DataObject
    BY <1>0, <1>3 DEF DataSetPrunes, UserDeletes, DataTyped
  <2>2. data' = [data EXCEPT ![d] = obj] /\ UNCHANGED pods
    BY <1>3 DEF DataSetPrunes, UserDeletes, DeleteData, PutData, WriteData, podVars
  <2>3. CASE data[d].fin
    <3>1. obj \in DataObject /\ obj.pod = data[d].pod /\ obj.spec = data[d].spec
          /\ obj.st = data[d].st /\ obj.fin = data[d].fin
      BY <2>1, <2>3 DEF DataObject
    <3> HIDE DEF obj
    <3>2. Outline(obj) = Outline(data[d])
      BY <2>1, <3>1, NoneAssumption DEF Outline
    <3> QED  BY <2>2, <3>2, Unseen
  <2>4. CASE ~data[d].fin
    <3>1. Outline(obj) = Promise!Absent  BY <2>4 DEF Outline, Promise!Absent
    <3> HIDE DEF obj
    <3>2. Promise!Put(d, Outline(obj))  BY <2>2, PromisePut
    <3>3. Datas[d].there /\ ~Datas[d].held  BY <1>d, <2>1, <2>4, OutlineOf
    <3>4. Promise!LetGo(d)  BY <3>1, <3>2, <3>3 DEF Promise!LetGo, Datas
    <3> QED  BY <3>4 DEF Promise!Next
  <2> QED  BY <2>3, <2>4
<1>4. ASSUME NEW d \in Names, NEW t \in Templates, DataSetUpdates(d, t)
      PROVE  Promise!Next
  <2> DEFINE obj == [data[d] EXCEPT !.spec = t]
  <2>1. data[d] \in DataObject  BY <1>0, <1>4 DEF DataSetUpdates, DataTyped
  <2>2. data' = [data EXCEPT ![d] = obj] /\ UNCHANGED pods
    BY <1>4 DEF DataSetUpdates, PutData, WriteData, podVars
  <2>3. Outline(obj) = [Datas[d] EXCEPT !.wants = t]  BY <1>d, <2>1, OutlineEdit
  <2> HIDE DEF obj
  <2>4. Promise!Put(d, Outline(obj))  BY <2>2, PromisePut
  <2>5. Datas[d].there  BY <1>d, <2>1, OutlineOf
  <2>6. Promise!Want(d)  BY <2>3, <2>4, <2>5 DEF Promise!Want, Datas
  <2> QED  BY <2>6 DEF Promise!Next
<1>5. ASSUME NEW d \in Names, NEW ph \in ReportPhases, RuntimeReports(d, ph)
      PROVE  UNCHANGED Promise!vars
  <2>1. PICK i \in Items(data[d].st.of) :
            PutData("env", d, [data[d] EXCEPT !.st.phase[i] = ph])
    BY <1>5 DEF RuntimeReports
  <2> DEFINE new == [data[d].st EXCEPT !.phase[i] = ph]
             obj == [data[d] EXCEPT !.st = new]
  <2>2. data[d] \in DataObject /\ data[d].st \in Status
    BY <1>0, <1>5 DEF RuntimeReports, DataTyped, DataObject
  <2>3. data' = [data EXCEPT ![d] = obj] /\ UNCHANGED pods
    BY <1>5, <2>1 DEF RuntimeReports, PutData, WriteData, podVars
  <2>4. new \in Status /\ new.of = data[d].st.of
    <3>1. PICK u \in Templates : data[d].st.phase \in [Items(u) -> Phases]
      BY <2>2 DEF Status
    <3>2. [data[d].st.phase EXCEPT ![i] = ph] \in [Items(u) -> Phases]
      BY <3>1, DataControllerAssumption
    <3> QED  BY <2>2, <3>2 DEF Status
  <2>5. new # None /\ data[d].st # None  BY <2>2, <2>4, NoneAssumption
  <2>6. Outline(obj) = Outline(data[d])
    <3> HIDE DEF new
    <3>1. obj \in DataObject /\ obj.pod = data[d].pod /\ obj.spec = data[d].spec
          /\ obj.st = new /\ obj.fin = data[d].fin
      BY <2>2, <2>4 DEF DataObject
    <3> HIDE DEF obj
    <3> QED  BY <2>2, <2>4, <2>5, <3>1, NoneAssumption DEF Outline
  <2> HIDE DEF obj
  <2> QED  BY <2>3, <2>6, Unseen
<1> QED  BY <1>1, <1>2, <1>3, <1>4, <1>5 DEF Environment

LEMMA NextDelivers ==
    TypeOK /\ FinalizerInv /\ DeliveryInv /\ [Next]_vars
    => [Promise!Next]_Promise!vars
<1> SUFFICES ASSUME TypeOK, FinalizerInv, DeliveryInv, [Next]_vars
             PROVE  Promise!Next \/ UNCHANGED Promise!vars
  OBVIOUS
<1>1. ASSUME UNCHANGED <<data, pods>>  PROVE UNCHANGED Promise!vars
  BY <1>1, Unseen
<1>2. CASE Deliver
  BY <1>1, <1>2
  DEF Deliver, OnDataEvents, DeliverData, OnPodEvents, DeliverPods, OnBindingEvents,
      Resync, dataVars, podVars
<1>3. CASE Fault \/ Restart \/ UNCHANGED vars
  BY <1>1, <1>3
  DEF Fault, Abort, DropCopies, Restart, Boot, Relist, storeVars, vars, dataVars,
      podVars
<1> QED  BY <1>2, <1>3, WorkDelivers, EnvironmentDelivers DEF Next

LEMMA InitDelivers == Init => DeliveryInv /\ Promise!Init
<1> SUFFICES ASSUME Init PROVE DeliveryInv /\ Promise!Init  OBVIOUS
<1>1. DeliveryInv
  BY DEF Init, WorkerInit, ClusterInit, DeliveryInv, Named, LocalInv, InstNamed,
     Tagged, Listed
<1>2. Promise!Init
  BY DEF Init, Promise!Init, Promise!Absent, Outline
<1> QED  BY <1>1, <1>2

(* The Data controller implements Delivery: no runtime is told of a digest *)
(* while a status made for its pod lists other items, and no held Data goes*)
(* before its pod is silent, for any pods, names, templates, stale caches, *)
(* failures and restarts (syncData).                                       *)
THEOREM Implements == Spec => Delivers
<1>1. Init => TypeOK /\ FinalizerInv /\ DeliveryInv /\ Promise!Init
  BY InitTyped, FinalizerInit, InitDelivers
<1>2. TypeOK /\ FinalizerInv /\ DeliveryInv /\ [Next]_vars
      => (TypeOK /\ FinalizerInv /\ DeliveryInv)'
  BY NextTyped, FinalizerNext, DeliveryNext
<1> QED
  BY <1>1, <1>2, NextDelivers, PTL DEF Spec, Delivers, Promise!Spec
=============================================================================
