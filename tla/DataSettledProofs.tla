--------------------------- MODULE DataSettledProofs ---------------------------
(***************************************************************************)
(* A Data that the controller has finished with is delivered, and no       *)
(* progress that the runtime reported is lost, for every set of pods and   *)
(* templates and every environment but these: reconciles that run on a     *)
(* stale pod, a template that changes back before the pod was told, and a  *)
(* pod's name used again under a Data of the old pod.                      *)
(***************************************************************************)
EXTENDS DeliveryProofs

(* What a step does to a Data that is there before and after: a status     *)
(* that lists items listed the same ones before, and no phase went back.   *)
Alike(d) ==
    data'[d] # None =>
        /\ data[d] # None
        /\ data'[d].pod = data[d].pod /\ data'[d].spec = data[d].spec
        /\ data'[d].st # None =>
              /\ data[d].st # None /\ data'[d].st.of = data[d].st.of
              /\ \A i \in Items(data[d].st.of) :
                    data'[d].st.phase[i] = "waiting" => data[d].st.phase[i] = "waiting"

AlikeTo(old, new) ==
    new # None =>
        /\ old # None /\ new.pod = old.pod /\ new.spec = old.spec
        /\ new.st # None =>
              /\ old.st # None /\ new.st.of = old.st.of
              /\ \A i \in Items(old.st.of) :
                    new.st.phase[i] = "waiting" => old.st.phase[i] = "waiting"

LEMMA WriteAlike ==
    ASSUME TypeOK, NEW d \in Names, NEW e \in Names, NEW obj,
           data' = [data EXCEPT ![e] = obj], AlikeTo(data[e], obj)
    PROVE  Alike(d)
<1>1. DataTyped  BY TypeParts
<1>2. CASE d # e  BY <1>1, <1>2 DEF Alike, DataTyped
<1>3. CASE d = e
  <2>1. data'[d] = obj  BY <1>1, <1>3 DEF DataTyped
  <2> QED  BY <1>3, <2>1 DEF Alike, AlikeTo
<1> QED  BY <1>2, <1>3

LEMMA SameAlike ==
    ASSUME UNCHANGED data, NEW d \in Names  PROVE Alike(d)
BY DEF Alike

LEMMA WorkAlike ==
    ASSUME TypeOK, Work, NEW d \in Names
    PROVE  Alike(d) \/ (ResetStatus /\ d = key)
<1>0. DataTyped  BY TypeParts
<1>1. CASE \/ (\E e \in Names : GetData(e) \/ GetDataGone(e)) \/ GetPod \/ GetPodGone
           \/ StatusRejected \/ RoleBindingFound \/ CreateRoleBinding
           \/ Annotate \/ AlreadyAnnotated \/ AnnotateRejected
           \/ Strip \/ StripGone \/ StripRejected \/ FinalizerRejected
  <2>1. UNCHANGED data
    BY <1>1
    DEF GetData, GetDataGone, TakeData, GetPod, GetPodGone, StatusRejected,
        RoleBindingFound, CreateRoleBinding, Annotate, AlreadyAnnotated,
        AnnotateRejected, Strip, StripGone, StripRejected, FinalizerRejected,
        WriteDigest, SameApi, Abort, dataVars
  <2> QED  BY <2>1, SameAlike
<1>2. CASE ResetStatus
  <2>1. key \in Names  BY <1>2, WorkingTyped DEF ResetStatus
  <2>2. d # key => Alike(d)
    BY <1>0, <1>2, <2>1 DEF ResetStatus, WriteData, Alike, DataTyped
  <2> QED  BY <1>2, <2>2
<1>3. CASE PatchStatus
  <2> DEFINE sum == MergePatch(data[key].st.sum, OldSum(inst), LatestSum(inst))
             st == [data[key].st EXCEPT !.sum = sum]
             obj == [data[key] EXCEPT !.st = st]
  <2>1. /\ key \in Names /\ data[key] \in DataObject /\ data[key].st \in Status
    BY <1>3, WorkingTyped DEF PatchStatus, PatchAccepted, DataObject
  <2>2. data' = [data EXCEPT ![key] = obj]
    BY <1>3 DEF PatchStatus, PutData, WriteData
  <2>3. st.of = data[key].st.of /\ st.phase = data[key].st.phase
    <3> HIDE DEF sum
    <3> QED  BY <2>1 DEF Status
  <2>4. obj.pod = data[key].pod /\ obj.spec = data[key].spec /\ obj.st = st
    <3> HIDE DEF st
    <3> QED  BY <2>1 DEF DataObject
  <2>5. data[key] # None /\ data[key].st # None  BY <2>1, NoneAssumption
  <2> HIDE DEF obj, st
  <2>6. AlikeTo(data[key], obj)  BY <2>3, <2>4, <2>5 DEF AlikeTo
  <2> QED  BY <2>1, <2>2, <2>6, WriteAlike
<1>4. CASE RemoveFinalizer
  <2> DEFINE obj == IF inst.del THEN None ELSE [data[key] EXCEPT !.fin = FALSE]
  <2>1. key \in Names /\ data[key] \in DataObject /\ data[key] # None
    BY <1>4, WorkingTyped DEF RemoveFinalizer, InstCurrent
  <2>2. data' = [data EXCEPT ![key] = obj]
    BY <1>4 DEF RemoveFinalizer, FinishWith
  <2>3. obj # None => obj.pod = data[key].pod /\ obj.spec = data[key].spec
                      /\ obj.st = data[key].st
    BY <2>1 DEF DataObject
  <2> HIDE DEF obj
  <2>4. AlikeTo(data[key], obj)  BY <2>1, <2>3 DEF AlikeTo
  <2> QED  BY <2>1, <2>2, <2>4, WriteAlike
<1>5. CASE AddFinalizer
  <2> DEFINE obj == [data[key] EXCEPT !.fin = TRUE]
  <2>1. key \in Names /\ data[key] \in DataObject /\ data[key] # None
    BY <1>5, WorkingTyped DEF AddFinalizer, InstCurrent
  <2>2. data' = [data EXCEPT ![key] = obj]
    BY <1>5 DEF AddFinalizer, FinishWith
  <2>3. obj.pod = data[key].pod /\ obj.spec = data[key].spec /\ obj.st = data[key].st
    BY <2>1 DEF DataObject
  <2> HIDE DEF obj
  <2>4. AlikeTo(data[key], obj)  BY <2>1, <2>3 DEF AlikeTo
  <2> QED  BY <2>1, <2>2, <2>4, WriteAlike
<1>6. CASE Done
  <2>1. key \in Names  BY <1>6, WorkingTyped DEF Done
  <2>2. AlikeTo(data[key], data[key])  BY DEF AlikeTo
  <2> QED  BY <1>6, <2>1, <2>2, WriteAlike DEF Done, FinishWith
<1> QED  BY <1>1, <1>2, <1>3, <1>4, <1>5, <1>6 DEF Work

LEMMA ReportAlike ==
    ASSUME TypeOK, NEW e \in Names, NEW ph \in ReportPhases, RuntimeReports(e, ph),
           NEW d \in Names
    PROVE  Alike(d)
<1>1. PICK i \in Items(data[e].st.of) :
          PutData("env", e, [data[e] EXCEPT !.st.phase[i] = ph])
  BY DEF RuntimeReports
<1> DEFINE phase == [data[e].st.phase EXCEPT ![i] = ph]
           st == [data[e].st EXCEPT !.phase = phase]
           obj == [data[e] EXCEPT !.st = st]
<1>2. data[e] \in DataObject /\ data[e].st \in Status
  BY TypeParts DEF RuntimeReports, DataTyped, DataObject
<1>3. data' = [data EXCEPT ![e] = obj]  BY <1>1 DEF PutData, WriteData
<1>4. data[e].st.phase \in [Items(data[e].st.of) -> Phases]
  BY <1>2 DEF Status
<1>5. ph # "waiting"  BY DataControllerAssumption
<1>6. \A j \in Items(data[e].st.of) :
          phase[j] = "waiting" => data[e].st.phase[j] = "waiting"
  BY <1>4, <1>5
<1>7. st.of = data[e].st.of /\ st.phase = phase
  <2> HIDE DEF phase
  <2> QED  BY <1>2 DEF Status
<1>8. obj.pod = data[e].pod /\ obj.spec = data[e].spec /\ obj.st = st
  <2> HIDE DEF st
  <2> QED  BY <1>2 DEF DataObject
<1>9. data[e] # None /\ data[e].st # None  BY <1>2, NoneAssumption
<1> HIDE DEF obj, st, phase
<1>10. AlikeTo(data[e], obj)  BY <1>6, <1>7, <1>8, <1>9 DEF AlikeTo
<1> QED  BY <1>3, <1>10, WriteAlike

LEMMA EnvironmentAlike ==
    ASSUME TypeOK, Environment, NEW d \in Names
    PROVE  \/ Alike(d)
           \/ \E p \in Pods : DataSetCreates(p) /\ d = DataName(p)
           \/ \E t \in Templates : DataSetUpdates(d, t)
<1>0. DataTyped  BY TypeParts
<1>1. ASSUME NEW p \in Pods, DataSetCreates(p), d # DataName(p)  PROVE Alike(d)
  BY <1>0, <1>1 DEF DataSetCreates, PutData, WriteData, Alike, DataTyped
<1>2. ASSUME NEW p \in Pods, PodChurn(p)  PROVE Alike(d)
  BY <1>2, SameAlike DEF PodChurn, dataVars
<1>3. ASSUME NEW e \in Names, DataSetPrunes(e) \/ UserDeletes(e)  PROVE Alike(d)
  <2> DEFINE obj == IF data[e].fin THEN [data[e] EXCEPT !.del = TRUE] ELSE None
  <2>1. data[e] \in DataObject /\ data[e] # None
    BY <1>0, <1>3 DEF DataSetPrunes, UserDeletes, DataTyped
  <2>2. data' = [data EXCEPT ![e] = obj]
    BY <1>3 DEF DataSetPrunes, UserDeletes, DeleteData, PutData, WriteData
  <2>3. obj # None => obj.pod = data[e].pod /\ obj.spec = data[e].spec
                      /\ obj.st = data[e].st
    BY <2>1 DEF DataObject
  <2> HIDE DEF obj
  <2>4. AlikeTo(data[e], obj)  BY <2>1, <2>3 DEF AlikeTo
  <2> QED  BY <2>2, <2>4, WriteAlike
<1>4. ASSUME NEW e \in Names, NEW t \in Templates, DataSetUpdates(e, t), d # e
      PROVE  Alike(d)
  BY <1>0, <1>4 DEF DataSetUpdates, PutData, WriteData, Alike, DataTyped
<1> QED  BY <1>1, <1>2, <1>3, <1>4, ReportAlike DEF Environment

(* Only a new Data, a new template and a reset status are not alike.       *)
LEMMA StepAlike ==
    ASSUME TypeOK, [Next]_vars, NEW d \in Names
    PROVE  \/ Alike(d)
           \/ ResetStatus /\ d = key
           \/ \E p \in Pods : DataSetCreates(p) /\ d = DataName(p)
           \/ \E t \in Templates : DataSetUpdates(d, t)
<1>1. CASE Deliver \/ Fault \/ Restart \/ UNCHANGED vars
  <2>1. UNCHANGED data
    BY <1>1
    DEF Deliver, OnDataEvents, DeliverData, OnPodEvents, OnBindingEvents, Resync,
        Fault, Abort, Restart, Boot, Relist, storeVars, vars, dataVars
  <2> QED  BY <2>1, SameAlike
<1> QED  BY <1>1, WorkAlike, EnvironmentAlike DEF Next

-----------------------------------------------------------------------------
(* What a step does to the pods: the worker tells its own pod and strips   *)
(* it; any other pod that is there was there before, told of the same.  A  *)
(* name that no pod has had yet is nobody's.                               *)

Stays(p) == pods'[p] # None => pods[p] # None /\ pods'[p].digest = pods[p].digest

FreshInv ==
    /\ \A p \in fresh : pods[p] = None /\ podsCache[p] = None
    /\ \A d \in Names : data[d] # None => data[d].pod \notin fresh

LEMMA WorkPods ==
    ASSUME Work
    PROVE  UNCHANGED pods \/ Annotate \/ Strip
BY DEF Work, GetData, GetDataGone, GetPod, GetPodGone, TakePod, ResetStatus,
       PatchStatus, WriteStatus, StatusRejected, RoleBindingFound,
       CreateRoleBinding, AlreadyAnnotated, AnnotateRejected, StripGone,
       StripRejected, RemoveFinalizer, AddFinalizer, FinalizerRejected, Done,
       FinishWith, Abort, DropCopies, SameApi, podVars

LEMMA EnvironmentPods ==
    ASSUME Environment
    PROVE  UNCHANGED pods \/ \E p \in Pods : CreatePod(p) \/ DeletePod(p)
BY DEF Environment, DataSetCreates, PodChurn, UpdatePod, DataSetPrunes, UserDeletes,
       DataSetUpdates, RuntimeReports, podVars

LEMMA StepPods ==
    ASSUME [Next]_vars
    PROVE  \/ UNCHANGED pods \/ Annotate \/ Strip
           \/ \E p \in Pods : CreatePod(p) \/ DeletePod(p)
<1>1. CASE Deliver \/ Fault \/ Restart \/ UNCHANGED vars
  BY <1>1
  DEF Deliver, OnDataEvents, OnPodEvents, DeliverPods, OnBindingEvents, Resync,
      Fault, Abort, DropCopies, Restart, Boot, Relist, storeVars, vars, podVars
<1> QED  BY <1>1, WorkPods, EnvironmentPods DEF Next

LEMMA PodsStay ==
    ASSUME TypeOK, FreshInv, [Next]_vars, "reuseNames" \notin Allowed,
           NEW d \in Names, data[d] # None, Annotate \/ Strip => pod # data[d].pod
    PROVE  Stays(data[d].pod)
<1>0. PodsTyped /\ data[d].pod \in Pods
  BY TypeParts DEF DataTyped, DataObject
<1>1. CASE UNCHANGED pods  BY <1>1 DEF Stays
<1>2. CASE Annotate \/ Strip
  BY <1>0, <1>2 DEF Annotate, Strip, WriteDigest, PutPod, PodsTyped, Stays
<1>3. ASSUME NEW p \in Pods, CreatePod(p)  PROVE Stays(data[d].pod)
  <2>1. p # data[d].pod
    BY <1>3 DEF CreatePod, NameFree, Unlabelled, FreshInv
  <2> QED  BY <1>0, <1>3, <2>1 DEF CreatePod, PutPod, PodsTyped, Stays
<1>4. ASSUME NEW p \in Pods, DeletePod(p)  PROVE Stays(data[d].pod)
  BY <1>0, <1>4 DEF DeletePod, PutPod, PodsTyped, Stays
<1> QED  BY <1>1, <1>2, <1>3, <1>4, StepPods

(* The pod and the spec that the two writes of a whole status, or of a     *)
(* spec, leave.                                                            *)
LEMMA ResetWrites ==
    ASSUME TypeOK, ResetStatus
    PROVE  /\ key \in Names /\ data[key] \in DataObject /\ data[key] # None
           /\ data'[key] = [data[key] EXCEPT !.st = Default(inst.spec)]
           /\ data'[key].pod = data[key].pod /\ data'[key].spec = data[key].spec
           /\ data'[key].st = Default(inst.spec)
           /\ data'[key].st.of = inst.spec
<1>1. key \in Names /\ data[key] \in DataObject /\ data[key] # None /\ DataTyped
  BY WorkingTyped, TypeParts DEF ResetStatus, InstCurrent
<1>2. data'[key] = [data[key] EXCEPT !.st = Default(inst.spec)]
  BY <1>1 DEF ResetStatus, WriteData, DataTyped
<1>3. /\ data'[key].pod = data[key].pod /\ data'[key].spec = data[key].spec
      /\ data'[key].st = Default(inst.spec)
  BY <1>1, <1>2 DEF DataObject
<1>4. data'[key].st.of = inst.spec  BY <1>3 DEF Default, Listing
<1> QED  BY <1>1, <1>2, <1>3, <1>4

LEMMA UpdateWrites ==
    ASSUME TypeOK, NEW d \in Names, NEW t \in Templates, DataSetUpdates(d, t)
    PROVE  /\ data[d] \in DataObject /\ data[d] # None
           /\ data'[d].pod = data[d].pod /\ data'[d].spec = t
           /\ data'[d].st = data[d].st
<1>1. data[d] \in DataObject /\ data[d] # None /\ DataTyped
  BY TypeParts DEF DataSetUpdates, DataTyped
<1>2. data'[d] = [data[d] EXCEPT !.spec = t]
  BY <1>1 DEF DataSetUpdates, PutData, WriteData, DataTyped
<1>3. data'[d].pod = data[d].pod /\ data'[d].spec = t /\ data'[d].st = data[d].st
  BY <1>1, <1>2 DEF DataObject
<1> QED  BY <1>1, <1>3

LEMMA CreateWrites ==
    ASSUME TypeOK, NEW p \in Pods, DataSetCreates(p)
    PROVE  /\ DataName(p) \in Names /\ data[DataName(p)] = None
           /\ data'[DataName(p)].pod = p /\ data'[DataName(p)].st = None
<1>1. PICK t \in Templates : PutData("env", DataName(p), NewData(p, t, 1))
  BY DEF DataSetCreates
<1>2. DataName(p) \in Names /\ data[DataName(p)] = None
  BY DEF DataSetCreates, Names
<1>3. data'[DataName(p)] = NewData(p, t, 1)
  BY <1>1, <1>2, TypeParts DEF PutData, WriteData, DataTyped
<1> QED  BY <1>2, <1>3 DEF NewData

LEMMA StepFresh ==
    ASSUME [Next]_vars
    PROVE  /\ UNCHANGED podsCache \/ podsCache' = pods
           /\ fresh' \subseteq fresh
           /\ \A p \in Pods : CreatePod(p) => p \notin fresh'
<1>1. CASE Deliver \/ Fault \/ Restart \/ UNCHANGED vars
  <2>1. UNCHANGED fresh /\ (UNCHANGED podsCache \/ podsCache' = pods)
    BY <1>1
    DEF Deliver, OnDataEvents, OnPodEvents, DeliverPods, OnBindingEvents, Resync,
        Fault, Abort, DropCopies, Restart, Boot, Relist, storeVars, vars, podVars
  <2> QED  BY <2>1 DEF CreatePod
<1>2. CASE Work
  <2>1. UNCHANGED <<podsCache, fresh>>
    BY <1>2
    DEF Work, GetData, GetDataGone, GetPod, GetPodGone, TakePod, ResetStatus,
        PatchStatus, WriteStatus, StatusRejected, RoleBindingFound,
        CreateRoleBinding, Annotate, AlreadyAnnotated, AnnotateRejected, Strip,
        StripGone, StripRejected, RemoveFinalizer, AddFinalizer, FinalizerRejected,
        Done, WriteDigest, PutPod, FinishWith, Abort, DropCopies, SameApi, podVars
  <2> QED  BY <2>1 DEF CreatePod
<1>3. CASE Environment
  <2>1. UNCHANGED podsCache /\ fresh' \subseteq fresh
    BY <1>3
    DEF Environment, DataSetCreates, PodChurn, CreatePod, DeletePod, UpdatePod, PutPod,
        DataSetPrunes, UserDeletes, DataSetUpdates, RuntimeReports, podVars
  <2> QED  BY <2>1 DEF CreatePod
<1> QED  BY <1>1, <1>2, <1>3 DEF Next

LEMMA FreshNext ==
    ASSUME TypeOK, FreshInv, [Next]_vars
    PROVE  FreshInv'
<1>1. ASSUME NEW p \in fresh'
      PROVE  pods'[p] = None /\ podsCache'[p] = None
  <2>1. p \in fresh /\ p \in Pods /\ PodsTyped
    BY <1>1, StepFresh, TypeParts DEF PodsTyped
  <2>2. pods[p] = None /\ podsCache[p] = None  BY <2>1 DEF FreshInv
  <2>3. ASSUME NEW q \in Pods, CreatePod(q) \/ DeletePod(q)  PROVE pods'[p] = None
    BY <1>1, <2>1, <2>2, <2>3, StepFresh DEF CreatePod, DeletePod, PutPod, PodsTyped
  <2>4. pods'[p] = None
    <3>1. CASE Annotate \/ Strip
      BY <2>1, <2>2, <3>1
      DEF Annotate, Strip, WriteDigest, PodCurrent, PutPod, PodsTyped
    <3> QED  BY <2>2, <2>3, <3>1, StepPods
  <2>5. podsCache'[p] = None  BY <2>2, StepFresh
  <2> QED  BY <2>4, <2>5
<1>2. ASSUME NEW d \in Names, data'[d] # None
      PROVE  data'[d].pod \notin fresh'
  <2>1. data[d] # None => data[d].pod \notin fresh'
    BY StepFresh DEF FreshInv
  <2>2. CASE Alike(d)  BY <1>2, <2>1, <2>2 DEF Alike
  <2>3. CASE ResetStatus /\ d = key  BY <2>1, <2>3, ResetWrites
  <2>4. ASSUME NEW p \in Pods, DataSetCreates(p), d = DataName(p)
        PROVE  data'[d].pod \notin fresh'
    <3>1. p \notin fresh'
      BY <2>4, StepFresh DEF DataSetCreates, FreshInv
    <3> QED  BY <2>4, <3>1, CreateWrites
  <2>5. ASSUME NEW t \in Templates, DataSetUpdates(d, t)
        PROVE  data'[d].pod \notin fresh'
    BY <2>1, <2>5, UpdateWrites
  <2> QED  BY <2>2, <2>3, <2>4, <2>5, StepAlike
<1> QED  BY <1>1, <1>2 DEF FreshInv

-----------------------------------------------------------------------------
(* What is left to do.  A change of a Data is an event until it is         *)
(* delivered, which enqueues the Data; what is enqueued stays so until the *)
(* worker takes it, or finds no such Data.                                 *)

Pending(d) == d \in queue \/ "cache" \in lagData[d]

Attended(d) ==
    /\ data'[d] # data[d] => Pending(d)'
    /\ Pending(d) /\ ~Pending(d)' =>
          \/ pc = "idle" /\ key' = d
          \/ pc' = "idle" /\ data'[d] = None

LEMMA NotedAttended ==
    ASSUME DataNoted, queue \subseteq queue', NEW d \in Names
    PROVE  Attended(d)
BY DEF DataNoted, Attended, Pending

(* Whatever the worker changes is an event.                                *)
LEMMA WorkNoted ==
    ASSUME TypeOK, Work
    PROVE  DsNoted /\ DataNoted /\ PodsNoted
<1>0. DataTyped /\ PodsTyped  BY TypeParts
<1>1. DsNoted
  BY SameNoted
  DEF Work, GetData, GetDataGone, GetPod, GetPodGone, ResetStatus, PatchStatus,
      WriteStatus, StatusRejected, RoleBindingFound, CreateRoleBinding, Annotate,
      AlreadyAnnotated, AnnotateRejected, Strip, StripGone, StripRejected,
      RemoveFinalizer, AddFinalizer, FinalizerRejected, Done, WriteDigest,
      FinishWith, Abort, DropCopies, SameKey, Rest
<1>2. PodsNoted
  <2>1. ASSUME NEW p \in Pods, TakePod("data", p)  PROVE PodsNoted
    BY <1>0, <2>1 DEF TakePod, CopyLag, PodsTyped, PodsNoted
  <2>2. CASE DropCopies
    BY <1>0, <2>2 DEF DropCopies, PodsTyped, PodsNoted
  <2>3. CASE Annotate \/ Strip
    <3>1. pod \in Pods  BY <2>3, WorkingTyped DEF Annotate, Strip
    <3> QED  BY <1>0, <2>3, <3>1, PutPodNoted DEF Annotate, Strip, WriteDigest
  <2>4. CASE GetPod
    <3>1. pod \in Pods  BY <2>4, WorkingTyped DEF GetPod
    <3> QED  BY <2>1, <2>4, <3>1 DEF GetPod
  <2> QED
    BY <2>2, <2>3, <2>4, SameNoted
    DEF Work, GetData, GetDataGone, GetPodGone, ResetStatus, PatchStatus,
        WriteStatus, StatusRejected, RoleBindingFound, CreateRoleBinding,
        AlreadyAnnotated, AnnotateRejected, StripGone, StripRejected,
        RemoveFinalizer, AddFinalizer, FinalizerRejected, Done, FinishWith, Abort,
        SameApi
<1>3. DataNoted
  <2>1. ASSUME NEW d \in Names, GetData(d)  PROVE DataNoted
    BY <1>0, <2>1, TakeCopyNoted DEF GetData
  <2>2. CASE Abort  BY <1>0, <2>2 DEF Abort, DropCopies, DropData, DataTyped, DataNoted
  <2>3. CASE ResetStatus
    <3> DEFINE obj == [data[key] EXCEPT !.st = Default(inst.spec)]
    <3>1. PICK bump \in IF obj = data[key] THEN BOOLEAN ELSE {TRUE} :
              WriteData("data", key, obj, bump)
      BY <2>3 DEF ResetStatus
    <3>2. key \in Names  BY <2>3, WorkingTyped DEF ResetStatus
    <3>3. bump \in BOOLEAN /\ (obj # data[key] => bump)  BY <3>1
    <3> HIDE DEF obj
    <3> QED  BY <1>0, <3>1, <3>2, <3>3, WriteDataNoted
  <2>4. CASE PatchStatus
    <3>1. key \in Names  BY <2>4, WorkingTyped DEF PatchStatus
    <3>2. PICK obj : PutData("data", key, obj)  BY <2>4 DEF PatchStatus
    <3> QED  BY <1>0, <3>1, <3>2, PutDataNoted
  <2>5. CASE RemoveFinalizer \/ AddFinalizer \/ Done
    <3>1. key \in Names  BY <2>5, WorkingTyped DEF RemoveFinalizer, AddFinalizer, Done
    <3>2. PICK obj : FinishWith(obj)  BY <2>5 DEF RemoveFinalizer, AddFinalizer, Done
    <3> QED
      BY <1>0, <3>1, <3>2
      DEF FinishWith, DropCopies, DropData, Behind, DataHolders, DataTyped, DataNoted
  <2> QED
    BY <2>1, <2>2, <2>3, <2>4, <2>5, SameNoted
    DEF Work, GetDataGone, GetPod, GetPodGone, StatusRejected, RoleBindingFound,
        CreateRoleBinding, Annotate, AlreadyAnnotated, AnnotateRejected, Strip,
        StripGone, StripRejected, FinalizerRejected, WriteDigest, SameApi
<1> QED  BY <1>1, <1>2, <1>3

LEMMA WorkAttended ==
    ASSUME TypeOK, FinalizerInv, Work, NEW d \in Names
    PROVE  Attended(d)
<1>0. DataTyped /\ DataNoted  BY TypeParts, WorkNoted
<1>1. ASSUME NEW e \in Names, GetData(e)  PROVE Attended(d)
  BY <1>0, <1>1
  DEF GetData, TakeData, CopyLag, DataTyped, Attended, Pending
<1>2. ASSUME NEW e \in Names, GetDataGone(e)  PROVE Attended(d)
  <2>1. UNCHANGED <<data, lagData>> /\ queue' = queue \ {e} /\ pc' = "idle"
    BY <1>2 DEF GetDataGone, SameApi, dataVars, localVars
  <2>2. d = e /\ "cache" \notin lagData[d] => data[d] = None
    BY <1>2 DEF GetDataGone, FinalizerInv, DataInv
  <2> QED  BY <2>1, <2>2 DEF Attended, Pending
<1>3. CASE ~ \E e \in Names : GetData(e) \/ GetDataGone(e)
  <2>1. queue \subseteq queue'
    BY <1>3
    DEF Work, GetPod, GetPodGone, ResetStatus, PatchStatus, WriteStatus,
        StatusRejected, RoleBindingFound, CreateRoleBinding, Annotate,
        AlreadyAnnotated, AnnotateRejected, Strip, StripGone, StripRejected,
        RemoveFinalizer, AddFinalizer, FinalizerRejected, Done, WriteDigest,
        FinishWith, Abort, SameKey
  <2> QED  BY <1>0, <2>1, NotedAttended
<1> QED  BY <1>1, <1>2, <1>3

(* Steps of everyone but the worker: they do not touch what it has at hand *)
(* and, when its copy is not behind afterwards, have not changed the Data. *)
Outside == /\ UNCHANGED localVars
           /\ queue \subseteq queue' /\ bindings' = bindings
           /\ \A d \in Names :
                 /\ "data" \notin lagData'[d] =>
                       "data" \notin lagData[d] /\ data'[d] = data[d]
                 /\ Attended(d)

LEMMA EnvironmentOutside ==
    ASSUME TypeOK, Environment
    PROVE  Outside
<1>0. DataTyped  BY TypeParts
<1>1. UNCHANGED <<localVars, queue, bindings>>
  BY DEF Environment, DataSetCreates, PodChurn, DataSetPrunes, UserDeletes,
         DataSetUpdates, RuntimeReports, dcVars, bindVars
<1>2. UNCHANGED dataVars \/ \E e \in Names : \E obj : PutData("env", e, obj)
  <2>1. ASSUME NEW p \in Pods, DataSetCreates(p)
        PROVE  \E e \in Names : \E obj : PutData("env", e, obj)
    BY <2>1, CreateWrites DEF DataSetCreates
  <2>2. ASSUME NEW d \in Names, NEW ph \in ReportPhases, RuntimeReports(d, ph)
        PROVE  \E e \in Names : \E obj : PutData("env", e, obj)
    BY <2>2 DEF RuntimeReports
  <2> QED
    BY <2>1, <2>2
    DEF Environment, PodChurn, DataSetPrunes, UserDeletes, DeleteData, DataSetUpdates
<1>3. CASE UNCHANGED dataVars
  BY <1>1, <1>3, SameNoted, NotedAttended DEF Outside, dataVars
<1>4. ASSUME NEW e \in Names, NEW obj, PutData("env", e, obj)
      PROVE  Outside
  <2>1. \A d \in Names : Attended(d)
    BY <1>0, <1>1, <1>4, PutDataNoted, NotedAttended
  <2>2. \A d \in Names : "data" \notin lagData'[d] =>
                            "data" \notin lagData[d] /\ data'[d] = data[d]
    BY <1>0, <1>4 DEF PutData, WriteData, Behind, DataHolders, DataTyped
  <2> QED  BY <1>1, <2>1, <2>2 DEF Outside
<1> QED  BY <1>2, <1>3, <1>4

LEMMA DeliverOutside ==
    ASSUME TypeOK, Deliver \/ UNCHANGED vars
    PROVE  Outside
<1>0. DataTyped  BY TypeParts
<1>1. CASE OnDataEvents
  BY <1>0, <1>1
  DEF OnDataEvents, DeliverData, DataEvents, bindVars, DataTyped, Outside, Attended,
      Pending
<1>2. CASE OnPodEvents \/ OnBindingEvents \/ UNCHANGED vars
  <2>1. UNCHANGED <<dataVars, localVars, queue, bindings>>
    BY <1>2 DEF OnPodEvents, OnBindingEvents, vars, dcVars, bindVars
  <2> QED  BY <2>1, SameNoted, NotedAttended DEF Outside, dataVars
<1>3. ASSUME NEW e \in Names, Resync(e)  PROVE Outside
  <2>1. UNCHANGED <<dataVars, localVars, bindings>>
    BY <1>3 DEF Resync, bindVars
  <2>2. queue \subseteq queue'  BY <1>3 DEF Resync
  <2> QED  BY <2>1, <2>2 DEF Outside, Attended, Pending, dataVars, localVars
<1> QED  BY <1>1, <1>2, <1>3 DEF Deliver

LEMMA StepAttended ==
    ASSUME TypeOK, FinalizerInv, [Next]_vars, NEW d \in Names
    PROVE  Attended(d)
<1>0. DataTyped  BY TypeParts
<1>1. CASE Fault
  <2>1. UNCHANGED <<data, dataCache>> /\ queue \subseteq queue'
        /\ lagData' = DropData(lagData)
    BY <1>1 DEF Fault, Abort, DropCopies
  <2>2. DataNoted  BY <1>0, <2>1 DEF DropData, DataTyped, DataNoted
  <2> QED  BY <2>1, <2>2, NotedAttended
<1>2. CASE Restart
  BY <1>2 DEF Restart, Boot, Idle, Relist, storeVars, Attended, Pending
<1> QED
  BY <1>1, <1>2, WorkAttended, EnvironmentOutside, DeliverOutside DEF Next, Outside

-----------------------------------------------------------------------------
(* The copy of the annotation.  A reconcile reads a pod only when its cache*)
(* is up to date; so a status is reset, on a copy of the Data that is not  *)
(* behind, only for a digest that the pod does not carry yet.              *)

Read == pods[pod] = None \/ pods[pod].digest = annotation

ReadInv == pc = "status" /\ data[key] # None /\ "data" \notin lagData[key] => Read

(* A step that leaves the worker and its pod alone leaves Read true.       *)
LEMMA ReadStays ==
    ASSUME Read, Stays(pod), UNCHANGED <<inst, annotation>>
    PROVE  Read'
BY DEF Read, Stays, pod

LEMMA ReadNext ==
    ASSUME TypeOK, FinalizerInv, FreshInv, ReadInv, [Next]_vars,
           "podLag" \notin Allowed, "reuseNames" \notin Allowed
    PROVE  ReadInv'
<1>1. CASE Outside
  <2> SUFFICES ASSUME pc = "status", data'[key] # None, "data" \notin lagData'[key]
               PROVE  Read'
    BY <1>1 DEF Outside, localVars, ReadInv
  <2>1. key \in Names  BY WorkingTyped
  <2>2. data[key] # None /\ "data" \notin lagData[key]  BY <1>1, <2>1 DEF Outside
  <2>3. data[key] = inst  BY <2>2 DEF FinalizerInv, DataInv
  <2>4. Stays(data[key].pod)
    <3>1. ~(Annotate \/ Strip)  BY DEF Annotate, Strip
    <3> QED  BY <2>1, <2>2, <3>1, PodsStay
  <2> QED
    BY <1>1, <2>2, <2>3, <2>4, ReadStays DEF ReadInv, Outside, localVars, pod
<1>2. CASE GetPod
  <2>1. "cache" \notin lagPods[pod] /\ pod \in Pods
    BY <1>2, WorkingTyped DEF GetPod, PodReadable
  <2>2. annotation' = pods[pod].digest /\ UNCHANGED <<pods, inst>>
    BY <1>2, <2>1 DEF GetPod, TakePod, FinalizerInv, PodInv
  <2> QED  BY <2>2 DEF ReadInv, Read, pod
<1>3. CASE Work /\ ~GetPod
  <2>1. pc' # "status"
    BY <1>3
    DEF Work, GetData, GetDataGone, GetPodGone, ResetStatus, PatchStatus, WriteStatus,
        StatusRejected, RoleBindingFound, CreateRoleBinding, Annotate,
        AlreadyAnnotated, AnnotateRejected, Strip, StripGone, StripRejected,
        RemoveFinalizer, AddFinalizer, FinalizerRejected, Done, WriteDigest,
        FinishWith, Abort, DropCopies, Idle, AfterAnnotate, localVars
  <2> QED  BY <2>1 DEF ReadInv
<1>4. CASE Fault \/ Restart
  BY <1>4 DEF Fault, Restart, Abort, Boot, DropCopies, Idle, ReadInv
<1> QED
  BY <1>1, <1>2, <1>3, <1>4, EnvironmentOutside, DeliverOutside DEF Next

-----------------------------------------------------------------------------
(* A pod that has been told of its Data's spec has a status that lists     *)
(* nothing but that spec's items.                                          *)

ToldListed ==
    \A d \in Names :
        data[d] # None /\ data[d].st # None /\ pods[data[d].pod] # None /\ Told(d)
        => data[d].st.of = data[d].spec

LEMMA ToldNext ==
    ASSUME TypeOK, FinalizerInv, DeliveryInv, FreshInv, ToldListed, [Next]_vars,
           "reuseNames" \notin Allowed, "undo" \notin Allowed
    PROVE  ToldListed'
<1> SUFFICES ASSUME NEW d \in Names, data'[d] # None, data'[d].st # None,
                    pods'[data'[d].pod] # None,
                    pods'[data'[d].pod].digest = Digest[data'[d].spec]
             PROVE  data'[d].st.of = data'[d].spec
  BY DEF ToldListed, Told
<1>0. DataTyped /\ PodsTyped  BY TypeParts
<1>1. CASE ResetStatus /\ d = key
  <2>1. data[key] = inst
    BY <1>1 DEF ResetStatus, InstCurrent, Current, FinalizerInv, DataInv
  <2> QED  BY <1>1, <2>1, ResetWrites
<1>2. ASSUME NEW p \in Pods, DataSetCreates(p), d = DataName(p)
      PROVE  data'[d].st.of = data'[d].spec
  BY <1>2, CreateWrites
<1>3. ASSUME NEW t \in Templates, DataSetUpdates(d, t)
      PROVE  data'[d].st.of = data'[d].spec
  BY <1>3, UpdateWrites DEF DataSetUpdates, Undoes, podVars
<1>4. CASE Alike(d)
  <2>1. data[d] \in DataObject /\ data[d] # None /\ data[d].st # None
        /\ data'[d].pod = data[d].pod /\ data'[d].spec = data[d].spec
        /\ data'[d].st.of = data[d].st.of
    BY <1>0, <1>4 DEF Alike, DataTyped
  <2>2. data[d].pod \in Pods /\ data[d].spec \in Templates
    BY <2>1 DEF DataObject
  <2>3. CASE (Annotate \/ Strip) /\ pod = data[d].pod
    <3>1. d = key /\ pc # "idle" /\ inst.spec \in Templates
      BY <2>1, <2>3, WorkingTyped
      DEF Annotate, Strip, DeliveryInv, Named, LocalInv, InstNamed
    <3>2. CASE Strip
      <4>1. pods'[data[d].pod].digest = None
        BY <1>0, <2>2, <2>3, <3>2 DEF Strip, WriteDigest, PutPod, PodsTyped
      <4> QED  BY <2>1, <2>2, <4>1, ClusterAssumption
    <3>3. CASE Annotate
      <4>1. pods'[data[d].pod].digest = tag
        BY <1>0, <2>2, <2>3, <3>3 DEF Annotate, WriteDigest, PutPod, PodsTyped
      <4>2. tag = Digest[inst.spec] /\ data[d].st.of = inst.spec
        BY <2>1, <3>1, <3>3 DEF Annotate, DeliveryInv, LocalInv, Listed
      <4> QED  BY <2>1, <2>2, <3>1, <4>1, <4>2, ClusterAssumption
    <3> QED  BY <2>3, <3>2, <3>3
  <2>4. CASE Annotate \/ Strip => pod # data[d].pod
    <3>1. Stays(data[d].pod)  BY <2>1, <2>4, PodsStay
    <3> QED  BY <2>1, <3>1 DEF Stays, ToldListed, Told
  <2> QED  BY <2>3, <2>4
<1> QED  BY <1>1, <1>2, <1>3, <1>4, StepAlike

-----------------------------------------------------------------------------
(* How far a reconcile has come whose Data nobody has changed since: each  *)
(* step relies on what the earlier ones left true.                         *)

Copied    == data[key] = inst /\ tag = Digest[inst.spec]
ListsIt   == inst.st # None /\ inst.st.of = inst.spec
Counted   == inst.st.sum = Tally(inst.st.phase, NumItems[inst.spec])
Bound     == Account(pod) \in bindings

ProgressInv ==
    pc # "idle" /\ ~Pending(key) =>
        /\ Copied
        /\ pc # "getPod" => Read
        /\ pc = "status" /\ annotation = tag => inst.st = None \/ inst.st.of = inst.spec
        /\ pc \notin {"getPod", "status", "removeFinalizer"} => ListsIt /\ Counted
        /\ pc \notin {"getPod", "status", "roleBinding", "removeFinalizer"} => Bound
        /\ pc \in {"done", "addFinalizer", "strip"} => annotation = tag
        /\ pc = "removeFinalizer" => inst.del \/ pods[pod] = None
        /\ pc = "strip" => inst.del
        /\ pc = "done" => (inst.fin \/ inst.del) /\ ~(inst.fin /\ inst.del)
        /\ pc = "addFinalizer" => ~inst.fin

LEMMA ProgressOutside ==
    ASSUME TypeOK, ProgressInv, Outside,
           \A d \in Names : data[d] # None => Stays(data[d].pod)
    PROVE  ProgressInv'
<1> SUFFICES ASSUME pc # "idle", ~Pending(key)'
             PROVE  ProgressInv'
  BY DEF ProgressInv, Outside, localVars
<1>1. key \in Names /\ inst \in DataObject  BY WorkingTyped
<1>2. UNCHANGED <<pc, key, inst, tag, annotation, bindings>>
  BY DEF Outside, localVars
<1>3. PICK d \in Names : d = key  BY <1>1
<1>4. data'[key] = data[key] /\ ~Pending(key)
  <2>1. Attended(d) /\ ~Pending(d)'  BY <1>2, <1>3 DEF Outside, Pending
  <2>2. data'[d] = data[d] /\ ~Pending(d)  BY <1>2, <2>1 DEF Attended
  <2> QED  BY <1>3, <2>2 DEF Pending
<1>5. data[key] = inst /\ data[key] # None
  BY <1>1, <1>4, NoneAssumption DEF ProgressInv, Copied
<1>6. Stays(pod)  BY <1>1, <1>5 DEF pod
<1>7. Read => Read'  BY <1>2, <1>6, ReadStays
<1>8. pods[pod] = None => pods'[pod] = None  BY <1>6 DEF Stays
<1> QED
  BY <1>2, <1>4, <1>7, <1>8
  DEF ProgressInv, Copied, ListsIt, Counted, Bound, Account, pod

(* The steps that take the two copies.                                     *)
LEMMA ProgressReads ==
    ASSUME TypeOK, FinalizerInv, DeliveryInv, ToldListed, ProgressInv,
           "podLag" \notin Allowed,
           (\E d \in Names : GetData(d)) \/ GetPod \/ GetPodGone
    PROVE  ProgressInv'
<1>0. DataTyped /\ PodsTyped  BY TypeParts
<1>1. ASSUME NEW d \in Names, GetData(d)  PROVE ProgressInv'
  <2>1. /\ key' = d /\ pc' = "getPod" /\ inst' = dataCache[d] /\ data' = data
        /\ tag' = Digest[dataCache[d].spec]
    BY <1>1 DEF GetData, TakeData
  <2>2. ~Pending(key)' => "cache" \notin lagData[d]
    BY <1>0, <1>1 DEF GetData, TakeData, CopyLag, DataTyped, Pending
  <2>3. ~Pending(key)' => data[d] = dataCache[d]
    BY <2>2 DEF FinalizerInv, DataInv
  <2>4. ~Pending(key)' => Copied'  BY <2>1, <2>3 DEF Copied
  <2> QED  BY <2>1, <2>4 DEF ProgressInv
<1>2. CASE GetPod \/ GetPodGone
  <2>1. /\ pod \in Pods /\ key \in Names /\ inst \in DataObject
        /\ pc = "getPod" /\ "cache" \notin lagPods[pod]
    BY <1>2, WorkingTyped DEF GetPod, GetPodGone, PodReadable
  <2>2. podsCache[pod] = pods[pod]  BY <2>1 DEF FinalizerInv, PodInv
  <2>3. UNCHANGED <<data, lagData, pods, queue, key, inst, tag>>
    BY <1>2
    DEF GetPod, GetPodGone, TakePod, SameKey, SameCopy, SameApi, dataVars, podVars
  <2> SUFFICES ASSUME ~Pending(key)  PROVE ProgressInv'
    BY <2>3 DEF ProgressInv, Pending
  <2>4. Copied /\ Copied'  BY <2>1, <2>3 DEF ProgressInv, Copied
  <2>5. CASE GetPodGone
    <3>1. pods[pod] = None /\ pc' = "removeFinalizer"
      BY <2>2, <2>5 DEF GetPodGone
    <3> QED  BY <2>3, <2>4, <3>1 DEF ProgressInv, Read, pod
  <2>6. CASE GetPod
    <3>1. /\ pods[pod] # None /\ pc' = "status" /\ annotation' = pods[pod].digest
      BY <2>2, <2>6 DEF GetPod
    <3>2. Read'  BY <2>3, <3>1 DEF Read, pod
    <3>3. annotation' = tag => inst.st = None \/ inst.st.of = inst.spec
      BY <2>1, <2>4, <3>1, NoneAssumption DEF Copied, ToldListed, Told, pod
    <3> QED  BY <2>3, <2>4, <3>1, <3>2, <3>3 DEF ProgressInv
  <2> QED  BY <1>2, <2>5, <2>6
<1> QED  BY <1>1, <1>2

(* A merge patch made from the object itself is what it was made for.      *)
LEMMA PatchedFromItself ==
    ASSUME NEW old \in [Fields -> Nat], NEW new \in [Fields -> Nat]
    PROVE  MergePatch(old, old, new) = new
BY DEF MergePatch

LEMMA DefaultCounted ==
    ASSUME NEW t
    PROVE  /\ Default(t).of = t
           /\ Default(t).sum = Tally(Default(t).phase, NumItems[t])
BY DEF Default, Listing

(* The writes of the status: nothing is pending only if they changed       *)
(* nothing, so the status was already what they write.                     *)
LEMMA ProgressStatus ==
    ASSUME TypeOK, FinalizerInv, ProgressInv, ResetStatus \/ PatchStatus
    PROVE  ProgressInv'
<1>0. DataTyped /\ key \in Names /\ inst \in DataObject /\ pc = "status"
  BY TypeParts, WorkingTyped DEF ResetStatus, PatchStatus
<1>1. UNCHANGED <<pods, queue, key, tag, annotation>> /\ pc' = "roleBinding"
  BY DEF ResetStatus, PatchStatus, WriteStatus, SameKey, podVars
<1>2. inst' = data'[key]
  BY <1>0 DEF ResetStatus, PatchStatus, PutData, WriteData, WriteStatus, DataTyped
<1> SUFFICES ASSUME ~Pending(key)'  PROVE ProgressInv'
  BY DEF ProgressInv
<1>3. PICK d \in Names : d = key  BY <1>0
<1>4. data'[key] = data[key] /\ ~Pending(key)
  <2>1. Attended(d) /\ ~Pending(d)'
    BY <1>1, <1>3, WorkAttended DEF Work, Pending
  <2>2. data'[d] = data[d] /\ ~Pending(d)  BY <1>0, <1>1, <2>1 DEF Attended
  <2> QED  BY <1>3, <2>2 DEF Pending
<1>5. Copied /\ Read /\ (annotation = tag => inst.st = None \/ inst.st.of = inst.spec)
  BY <1>0, <1>4 DEF ProgressInv
<1>6. inst' = inst  BY <1>2, <1>4, <1>5 DEF Copied
<1>7. Copied' /\ Read'  BY <1>1, <1>4, <1>5, <1>6 DEF Copied, Read, pod
<1>8. ListsIt' /\ Counted'
  <2>1. CASE ResetStatus
    <3>1. inst.st = Default(inst.spec)
      BY <1>4, <1>5, <2>1, ResetWrites DEF Copied
    <3>2. Default(inst.spec) \in Status
      BY <1>0, DefaultType DEF DataObject
    <3> QED
      BY <1>6, <3>1, <3>2, DefaultCounted, NoneAssumption DEF ListsIt, Counted
  <2>2. CASE PatchStatus
    <3> DEFINE sum == MergePatch(data[key].st.sum, OldSum(inst), LatestSum(inst))
               st == [data[key].st EXCEPT !.sum = sum]
               obj == [data[key] EXCEPT !.st = st]
    <3>1. data[key] = inst /\ inst.st \in Status /\ inst.st # None /\ annotation = tag
      BY <1>0, <1>5, <2>2
      DEF Copied, PatchStatus, PatchAccepted, ResetNeeded, DataObject
    <3>2. data'[key] = obj
      BY <1>0, <2>2 DEF PatchStatus, PutData, WriteData, DataTyped
    <3>3. OldSum(inst) = inst.st.sum
          /\ LatestSum(inst) = Tally(inst.st.phase, NumItems[inst.spec])
      BY <3>1 DEF OldSum, LatestSum
    <3>4. OldSum(inst) \in [Fields -> Nat] /\ LatestSum(inst) \in [Fields -> Nat]
      BY <1>0, LatestSumType
    <3>5. sum = LatestSum(inst)
      BY <3>1, <3>3, <3>4, PatchedFromItself
    <3> HIDE DEF sum
    <3>6. st.sum = sum  BY <3>1 DEF Status
    <3> HIDE DEF st
    <3>7. obj.st = st  BY <1>0, <3>1 DEF DataObject
    <3>8. inst.st.sum = sum  BY <1>2, <1>6, <3>2, <3>6, <3>7
    <3> QED  BY <1>5, <1>6, <3>1, <3>3, <3>5, <3>8 DEF ListsIt, Counted
  <2> QED  BY <2>1, <2>2
<1> QED  BY <1>1, <1>7, <1>8 DEF ProgressInv

(* The steps between the status and the finalizer.                         *)
LEMMA ProgressMoves ==
    ASSUME TypeOK, ProgressInv,
           \/ RoleBindingFound \/ Annotate \/ AlreadyAnnotated \/ Strip \/ StripGone
    PROVE  ProgressInv'
<1>0. pc # "idle" /\ pod \in Pods /\ PodsTyped
  BY TypeParts, WorkingTyped
  DEF RoleBindingFound, Annotate, AlreadyAnnotated, Strip, StripGone
<1>1. UNCHANGED <<data, lagData, queue, key, inst, tag, bindings>>
  BY DEF RoleBindingFound, Annotate, AlreadyAnnotated, Strip, StripGone, WriteDigest,
         SameKey, SameCopy, SameApi, dataVars, bindVars
<1> SUFFICES ASSUME ~Pending(key)  PROVE ProgressInv'
  BY <1>1 DEF ProgressInv, Pending
<1>2. Copied /\ Copied'  BY <1>0, <1>1 DEF ProgressInv, Copied
<1>3. CASE RoleBindingFound
  <2>1. UNCHANGED <<pods, annotation>> /\ pc = "roleBinding" /\ pc' = "annotate"
    BY <1>3 DEF RoleBindingFound, SameCopy, SameApi, podVars
  <2>2. Read /\ ListsIt /\ Counted  BY <2>1 DEF ProgressInv
  <2>3. Read' /\ ListsIt' /\ Counted'
    BY <1>1, <2>1, <2>2 DEF Read, ListsIt, Counted, pod
  <2>4. Bound'
    BY <1>1, <1>3, TypeParts DEF RoleBindingFound, BindTyped, Bound, Account, pod
  <2> QED  BY <1>2, <2>1, <2>3, <2>4 DEF ProgressInv
<1>4. ASSUME pc = "annotate", pc' = AfterAnnotate, annotation' = tag, Read'
      PROVE  ProgressInv'
  <2>1. ListsIt /\ Counted /\ Bound  BY <1>4 DEF ProgressInv
  <2>2. ListsIt' /\ Counted' /\ Bound'
    BY <1>1, <2>1 DEF ListsIt, Counted, Bound, Account, pod
  <2>3. \/ pc' = "strip" /\ inst.del
        \/ pc' = "addFinalizer" /\ ~inst.fin
        \/ pc' = "done" /\ (inst.fin \/ inst.del) /\ ~(inst.fin /\ inst.del)
    BY <1>4 DEF AfterAnnotate
  <2> QED  BY <1>1, <1>2, <1>4, <2>2, <2>3 DEF ProgressInv
<1>5. CASE Annotate
  <2>1. pods' = [pods EXCEPT ![pod] = [digest |-> tag]] /\ annotation' = tag
        /\ pc = "annotate" /\ pc' = AfterAnnotate
    BY <1>5 DEF Annotate, WriteDigest, PutPod
  <2>2. Read'  BY <1>0, <1>1, <2>1 DEF Read, PodsTyped, pod
  <2> QED  BY <1>4, <2>1, <2>2
<1>6. CASE AlreadyAnnotated
  <2>1. UNCHANGED <<pods, annotation>> /\ pc = "annotate" /\ pc' = AfterAnnotate
        /\ annotation = tag
    BY <1>6 DEF AlreadyAnnotated, SameCopy, SameApi, podVars
  <2>2. Read  BY <2>1 DEF ProgressInv
  <2>3. Read'  BY <1>1, <2>1, <2>2 DEF Read, pod
  <2> QED  BY <1>4, <2>1, <2>3
<1>7. CASE Strip
  <2>1. pods' = [pods EXCEPT ![pod] = [digest |-> None]] /\ annotation' = None
        /\ pc = "strip" /\ pc' = "removeFinalizer"
    BY <1>7 DEF Strip, WriteDigest, PutPod
  <2>2. Read'  BY <1>0, <1>1, <2>1 DEF Read, PodsTyped, pod
  <2>3. inst'.del  BY <1>1, <2>1 DEF ProgressInv
  <2> QED  BY <1>2, <2>1, <2>2, <2>3 DEF ProgressInv
<1>8. CASE StripGone
  <2>1. UNCHANGED pods /\ pods[pod] = None /\ pc = "strip" /\ pc' = "removeFinalizer"
    BY <1>8 DEF StripGone, SameApi, podVars
  <2>2. Read' /\ inst'.del  BY <1>1, <2>1 DEF ProgressInv, Read, pod
  <2> QED  BY <1>2, <2>1, <2>2 DEF ProgressInv
<1> QED  BY <1>3, <1>5, <1>6, <1>7, <1>8

LEMMA WorkCases ==
    ASSUME Work
    PROVE  \/ pc' = "idle"
           \/ (\E d \in Names : GetData(d)) \/ GetPod \/ GetPodGone
           \/ ResetStatus \/ PatchStatus
           \/ RoleBindingFound \/ Annotate \/ AlreadyAnnotated \/ Strip \/ StripGone
BY DEF Work, GetDataGone, localVars, StatusRejected, CreateRoleBinding,
       AnnotateRejected, StripRejected, RemoveFinalizer, AddFinalizer,
       FinalizerRejected, Done, FinishWith, Abort, DropCopies, Idle

LEMMA ProgressNext ==
    ASSUME TypeOK, FinalizerInv, DeliveryInv, FreshInv, ToldListed, ProgressInv,
           [Next]_vars, "reuseNames" \notin Allowed, "podLag" \notin Allowed
    PROVE  ProgressInv'
<1>1. CASE Work
  BY <1>1, WorkCases, ProgressReads, ProgressStatus, ProgressMoves DEF ProgressInv
<1>2. CASE Fault \/ Restart
  BY <1>2 DEF Fault, Restart, Abort, Boot, DropCopies, Idle, ProgressInv
<1>3. CASE ~Work /\ (Deliver \/ Environment \/ UNCHANGED vars)
  <2>1. ~(Annotate \/ Strip)  BY <1>3 DEF Work
  <2>2. \A d \in Names : data[d] # None => Stays(data[d].pod)  BY <2>1, PodsStay
  <2> QED  BY <1>3, <2>2, EnvironmentOutside, DeliverOutside, ProgressOutside
<1> QED  BY <1>1, <1>2, <1>3 DEF Next

-----------------------------------------------------------------------------
(* The end of a reconcile: the Data it kept is either delivered or pending.*)
LEMMA FinishDelivered ==
    ASSUME TypeOK, FinalizerInv, ProgressInv, RemoveFinalizer \/ AddFinalizer \/ Done,
           NEW d \in Names, d = key, ~Pending(d)', data'[d] # None, ~data'[d].del,
           pods[data'[d].pod] # None
    PROVE  Delivered(d)'
<1>0. DataTyped /\ inst \in DataObject
  BY TypeParts, WorkingTyped DEF RemoveFinalizer, AddFinalizer, Done
<1>1. UNCHANGED <<pods, bindings>> /\ pc # "idle"
  BY DEF RemoveFinalizer, AddFinalizer, Done, FinishWith, DropCopies, bindVars
<1>2. Attended(d)  BY WorkAttended DEF Work
<1>3. data'[d] = data[d] /\ ~Pending(d)  BY <1>1, <1>2 DEF Attended
<1>4. ~Pending(key)  BY <1>3 DEF Pending
<1>5. Copied /\ data[d] = inst  BY <1>1, <1>4 DEF ProgressInv, Copied
<1>6. ~RemoveFinalizer
  BY <1>3, <1>4, <1>5 DEF RemoveFinalizer, ProgressInv, pod
<1>7. ~AddFinalizer
  <2> SUFFICES ASSUME AddFinalizer PROVE FALSE  OBVIOUS
  <2>1. data'[d] = [data[d] EXCEPT !.fin = TRUE] /\ ~inst.fin
    BY <1>0, <1>4 DEF AddFinalizer, FinishWith, ProgressInv, DataTyped
  <2> QED  BY <1>0, <1>3, <1>5, <2>1 DEF DataObject
<1>8. pc = "done"  BY <1>6, <1>7 DEF Done
<1>9. ListsIt /\ Counted /\ Bound /\ Read /\ annotation = tag /\ (inst.fin \/ inst.del)
  BY <1>4, <1>8 DEF ProgressInv
<1> QED
  BY <1>1, <1>3, <1>5, <1>9
  DEF Delivered, Told, ListsSpec, Copied, ListsIt, Counted, Bound, Read, Account, pod

LEMMA KeyEnds ==
    ASSUME [Next]_vars, pc # "idle", key' # key
    PROVE  Abort \/ Boot \/ RemoveFinalizer \/ AddFinalizer \/ Done
<1>1. CASE Work
  BY <1>1
  DEF Work, GetData, GetDataGone, GetPod, GetPodGone, ResetStatus, PatchStatus,
      WriteStatus, StatusRejected, RoleBindingFound, CreateRoleBinding, Annotate,
      AlreadyAnnotated, AnnotateRejected, Strip, StripGone, StripRejected,
      FinalizerRejected, WriteDigest, SameKey
<1>2. CASE Deliver \/ Environment \/ UNCHANGED vars
  <2>1. UNCHANGED localVars
    BY <1>2
    DEF Deliver, OnDataEvents, OnPodEvents, OnBindingEvents, Resync,
        Environment, DataSetCreates, PodChurn, DataSetPrunes, UserDeletes, DataSetUpdates,
        RuntimeReports, vars, dcVars
  <2> QED  BY <2>1 DEF localVars
<1> QED  BY <1>1, <1>2 DEF Next, Fault, Restart

LEMMA StepBindings ==
    ASSUME TypeOK, [Next]_vars
    PROVE  bindings \subseteq bindings'
<1>1. CASE Work
  BY <1>1
  DEF Work, GetData, GetDataGone, GetPod, GetPodGone, ResetStatus, PatchStatus,
      WriteStatus, StatusRejected, RoleBindingFound, CreateRoleBinding, Annotate,
      AlreadyAnnotated, AnnotateRejected, Strip, StripGone, StripRejected,
      RemoveFinalizer, AddFinalizer, FinalizerRejected, Done, WriteDigest, FinishWith,
      SameApi, bindVars
<1>2. CASE Deliver \/ Environment \/ UNCHANGED vars
  BY <1>2, EnvironmentOutside, DeliverOutside DEF Outside
<1>3. CASE Fault \/ Restart
  BY <1>3 DEF Fault, Restart, Boot, bindVars
<1> QED  BY <1>1, <1>2, <1>3 DEF Next

LEMMA SettledNext ==
    ASSUME TypeOK, FinalizerInv, DeliveryInv, FreshInv, ProgressInv,
           SettledIsDelivered, [Next]_vars, "reuseNames" \notin Allowed
    PROVE  SettledIsDelivered'
<1> SUFFICES ASSUME NEW d \in Names, Settled(d)', Wanted(d)'
             PROVE  Delivered(d)'
  BY DEF SettledIsDelivered
<1>0. key' # d /\ ~Pending(d)' /\ data'[d] # None  BY DEF Settled, Wanted, Pending
<1>1. Attended(d)  BY StepAttended
<1>2. data'[d] = data[d] /\ ~Pending(d)  BY <1>0, <1>1 DEF Attended
<1>3. CASE key # d
  <2>1. Annotate \/ Strip => pod # data[d].pod
    BY <1>0, <1>2, <1>3
    DEF Annotate, Strip, DeliveryInv, Named, LocalInv, InstNamed
  <2>2. Stays(data[d].pod)  BY <1>0, <1>2, <2>1, PodsStay
  <2>3. Settled(d) /\ Wanted(d)
    BY <1>2, <1>3, <2>2 DEF Settled, Pending, Wanted, Stays
  <2>4. Delivered(d)  BY <2>3 DEF SettledIsDelivered
  <2>5. pods'[data[d].pod].digest = pods[data[d].pod].digest
    BY <1>2, <2>2 DEF Wanted, Stays
  <2> QED
    BY <1>2, <2>4, <2>5, StepBindings DEF Delivered, Told, ListsSpec, Account
<1>4. CASE key = d
  <2>1. pc # "idle"  BY <1>4, NoneAssumption, TypeParts DEF LocalTyped
  <2>2. ~Abort /\ ~Boot
    BY <1>0, <1>2, <1>4 DEF Abort, Boot, Pending
  <2>3. RemoveFinalizer \/ AddFinalizer \/ Done
    BY <1>0, <1>4, <2>1, <2>2, KeyEnds
  <2>4. UNCHANGED pods
    BY <2>3 DEF RemoveFinalizer, AddFinalizer, Done, FinishWith, DropCopies
  <2> QED
    BY <1>0, <1>4, <2>3, <2>4, FinishDelivered DEF Wanted
<1> QED  BY <1>3, <1>4

-----------------------------------------------------------------------------
(* Deletion.  The API server marks a Data as deleted only while it has a   *)
(* finalizer, and so do the copies say.                                    *)

HeldWhileDeleted(obj) == obj # None => (obj.del => obj.fin)
DelHeld ==
    /\ \A d \in Names : HeldWhileDeleted(data[d]) /\ HeldWhileDeleted(dataCache[d])
    /\ pc # "idle" => HeldWhileDeleted(inst)

LEMMA WorkHeld ==
    ASSUME TypeOK, FinalizerInv, DelHeld, Work
    PROVE  \A d \in Names : HeldWhileDeleted(data'[d])
<1>0. DataTyped  BY TypeParts
<1>1. UNCHANGED data => \A d \in Names : HeldWhileDeleted(data'[d])  BY DEF DelHeld
<1>2. ASSUME key \in Names, NEW obj, data' = [data EXCEPT ![key] = obj],
             HeldWhileDeleted(obj)
      PROVE  \A d \in Names : HeldWhileDeleted(data'[d])
  BY <1>0, <1>2 DEF DelHeld, DataTyped
<1>3. CASE ResetStatus \/ PatchStatus
  <2>1. key \in Names /\ data[key] # None /\ data[key] \in DataObject
    BY <1>0, <1>3, WorkingTyped
    DEF ResetStatus, PatchStatus, InstCurrent, PatchAccepted, DataTyped
  <2>2. PICK st : data' = [data EXCEPT ![key] = [data[key] EXCEPT !.st = st]]
    BY <1>3 DEF ResetStatus, PatchStatus, PutData, WriteData
  <2> DEFINE obj == [data[key] EXCEPT !.st = st]
  <2>3. obj.del = data[key].del /\ obj.fin = data[key].fin  BY <2>1 DEF DataObject
  <2> HIDE DEF obj
  <2>4. HeldWhileDeleted(obj)  BY <2>1, <2>3 DEF DelHeld, HeldWhileDeleted
  <2>5. data' = [data EXCEPT ![key] = obj]  BY <2>2 DEF obj
  <2> QED  BY <1>2, <2>1, <2>4, <2>5
<1>4. CASE RemoveFinalizer \/ AddFinalizer
  <2>1. key \in Names /\ data[key] # None /\ data[key] \in DataObject /\ data[key] = inst
    BY <1>0, <1>4, WorkingTyped
    DEF RemoveFinalizer, AddFinalizer, InstCurrent, Current, FinalizerInv, DataInv,
        DataTyped
  <2>2. CASE RemoveFinalizer
    <3> DEFINE obj == IF inst.del THEN None ELSE [data[key] EXCEPT !.fin = FALSE]
    <3>1. HeldWhileDeleted(obj)  BY <2>1 DEF HeldWhileDeleted, DataObject
    <3>2. data' = [data EXCEPT ![key] = obj]
      BY <2>2 DEF RemoveFinalizer, FinishWith
    <3> HIDE DEF obj
    <3> QED  BY <1>2, <2>1, <3>1, <3>2
  <2>3. CASE AddFinalizer
    <3> DEFINE obj == [data[key] EXCEPT !.fin = TRUE]
    <3>1. HeldWhileDeleted(obj)  BY <2>1 DEF HeldWhileDeleted, DataObject
    <3>2. data' = [data EXCEPT ![key] = obj]
      BY <2>3 DEF AddFinalizer, FinishWith
    <3> HIDE DEF obj
    <3> QED  BY <1>2, <2>1, <3>1, <3>2
  <2> QED  BY <1>4, <2>2, <2>3
<1>5. CASE Done
  <2>1. key \in Names  BY <1>5, WorkingTyped DEF Done
  <2> QED  BY <1>2, <1>5, <2>1 DEF Done, FinishWith, DelHeld
<1> QED
  BY <1>1, <1>3, <1>4, <1>5
  DEF Work, GetData, GetDataGone, TakeData, GetPod, GetPodGone, StatusRejected,
      RoleBindingFound, CreateRoleBinding, Annotate, AlreadyAnnotated,
      AnnotateRejected, Strip, StripGone, StripRejected, FinalizerRejected,
      WriteDigest, SameApi, Abort, dataVars

LEMMA EnvironmentHeld ==
    ASSUME TypeOK, DelHeld, Environment
    PROVE  \A d \in Names : HeldWhileDeleted(data'[d])
<1>0. DataTyped  BY TypeParts
<1>1. ASSUME NEW e \in Names, NEW w, NEW obj, PutData(w, e, obj), HeldWhileDeleted(obj)
      PROVE  \A d \in Names : HeldWhileDeleted(data'[d])
  BY <1>0, <1>1 DEF PutData, WriteData, DelHeld, DataTyped
<1>2. ASSUME NEW p \in Pods, DataSetCreates(p)
      PROVE  \A d \in Names : HeldWhileDeleted(data'[d])
  <2>1. PICK t \in Templates : PutData("env", DataName(p), NewData(p, t, 1))
    BY <1>2 DEF DataSetCreates
  <2>2. HeldWhileDeleted(NewData(p, t, 1))  BY DEF HeldWhileDeleted, NewData
  <2> QED  BY <1>1, <1>2, <2>1, <2>2, CreateWrites
<1>3. ASSUME NEW e \in Names, DataSetPrunes(e) \/ UserDeletes(e)
      PROVE  \A d \in Names : HeldWhileDeleted(data'[d])
  <2> DEFINE obj == IF data[e].fin THEN [data[e] EXCEPT !.del = TRUE] ELSE None
  <2>1. data[e] \in DataObject
    BY <1>0, <1>3 DEF DataSetPrunes, UserDeletes, DataTyped
  <2>2. HeldWhileDeleted(obj)  BY <2>1 DEF HeldWhileDeleted, DataObject
  <2>3. PutData("env", e, obj)  BY <1>3 DEF DataSetPrunes, UserDeletes, DeleteData
  <2> HIDE DEF obj
  <2> QED  BY <1>1, <2>2, <2>3
<1>4. ASSUME NEW e \in Names, data[e] # None, NEW new, NEW w, PutData(w, e, new),
             new.del = data[e].del, new.fin = data[e].fin
      PROVE  \A d \in Names : HeldWhileDeleted(data'[d])
  BY <1>1, <1>4 DEF DelHeld, HeldWhileDeleted
<1>5. ASSUME NEW e \in Names, NEW t \in Templates, DataSetUpdates(e, t)
      PROVE  \A d \in Names : HeldWhileDeleted(data'[d])
  <2> DEFINE obj == [data[e] EXCEPT !.spec = t]
  <2>1. data[e] # None /\ data[e] \in DataObject
    BY <1>0, <1>5 DEF DataSetUpdates, DataTyped
  <2>2. obj.del = data[e].del /\ obj.fin = data[e].fin  BY <2>1 DEF DataObject
  <2>3. PutData("env", e, obj)  BY <1>5 DEF DataSetUpdates
  <2> HIDE DEF obj
  <2> QED  BY <1>4, <2>1, <2>2, <2>3
<1>6. ASSUME NEW e \in Names, NEW ph \in ReportPhases, RuntimeReports(e, ph)
      PROVE  \A d \in Names : HeldWhileDeleted(data'[d])
  <2>1. PICK i \in Items(data[e].st.of) :
            PutData("env", e, [data[e] EXCEPT !.st.phase[i] = ph])
    BY <1>6 DEF RuntimeReports
  <2> DEFINE obj == [data[e] EXCEPT !.st.phase[i] = ph]
  <2>2. data[e] # None /\ data[e] \in DataObject
    BY <1>0, <1>6 DEF RuntimeReports, DataTyped
  <2>3. obj.del = data[e].del /\ obj.fin = data[e].fin  BY <2>2 DEF DataObject
  <2> HIDE DEF obj
  <2>4. PutData("env", e, obj)  BY <2>1 DEF obj
  <2> QED  BY <1>4, <2>2, <2>3, <2>4
<1>7. ASSUME NEW p \in Pods, PodChurn(p)
      PROVE  \A d \in Names : HeldWhileDeleted(data'[d])
  BY <1>7 DEF PodChurn, dataVars, DelHeld
<1> QED  BY <1>2, <1>3, <1>5, <1>6, <1>7 DEF Environment

(* Where the copies of the Data come from.                                 *)
LEMMA CopiesOf ==
    ASSUME TypeOK, [Next]_vars
    PROVE  /\ dataCache' = dataCache \/ (dataCache' = data /\ UNCHANGED data)
           /\ \/ pc' = "idle" /\ inst' = None
              \/ UNCHANGED <<key, inst>> /\ (pc' # "idle" => pc # "idle")
              \/ \E d \in Names : key' = d /\ inst' = dataCache[d]
              \/ key \in Names /\ key' = key /\ inst' = data'[key]
<1>0. DataTyped  BY TypeParts
<1>1. CASE Work
  <2>1. dataCache' = dataCache  BY <1>1, WorkNoted DEF DataNoted
  <2>2. CASE ResetStatus \/ PatchStatus
    <3>1. key \in Names  BY <2>2, WorkingTyped DEF ResetStatus, PatchStatus
    <3>2. key' = key /\ inst' = data'[key]
      BY <1>0, <2>2, <3>1
      DEF ResetStatus, PatchStatus, WriteStatus, PutData, WriteData, SameKey, DataTyped
    <3> QED  BY <2>1, <3>1, <3>2
  <2>3. \/ ResetStatus \/ PatchStatus
        \/ pc' = "idle" /\ inst' = None
        \/ UNCHANGED <<key, inst>> /\ (pc' # "idle" => pc # "idle")
        \/ \E d \in Names : key' = d /\ inst' = dataCache[d]
    BY <1>1
    DEF Work, GetData, GetDataGone, GetPod, GetPodGone, StatusRejected,
        RoleBindingFound, CreateRoleBinding, Annotate, AlreadyAnnotated,
        AnnotateRejected, Strip, StripGone, StripRejected, RemoveFinalizer,
        AddFinalizer, FinalizerRejected, Done, WriteDigest, FinishWith, Abort,
        DropCopies, Idle, SameKey, SameCopy, localVars
  <2> QED  BY <2>1, <2>2, <2>3
<1>2. CASE Fault \/ Restart
  BY <1>2
  DEF Fault, Restart, Abort, Boot, DropCopies, Idle, Relist, storeVars
<1>3. CASE Deliver \/ UNCHANGED vars
  BY <1>3
  DEF Deliver, OnDataEvents, DeliverData, OnPodEvents, OnBindingEvents, Resync, vars,
      dcVars, dataVars, localVars
<1>4. CASE Environment
  <2>1. UNCHANGED localVars /\ dataCache' = dataCache
    BY <1>4
    DEF Environment, DataSetCreates, PodChurn, DataSetPrunes, UserDeletes, DeleteData,
        DataSetUpdates, RuntimeReports, PutData, WriteData, dcVars, dataVars
  <2> QED  BY <2>1 DEF localVars
<1> QED  BY <1>1, <1>2, <1>3, <1>4 DEF Next

LEMMA HeldCopies ==
    ASSUME TypeOK, DelHeld, [Next]_vars, \A d \in Names : HeldWhileDeleted(data'[d])
    PROVE  DelHeld'
<1>1. \A d \in Names : HeldWhileDeleted(dataCache'[d])  BY CopiesOf DEF DelHeld
<1>2. pc' # "idle" => HeldWhileDeleted(inst')  BY CopiesOf DEF DelHeld
<1> QED  BY <1>1, <1>2 DEF DelHeld, HeldWhileDeleted

LEMMA HeldNext ==
    ASSUME TypeOK, FinalizerInv, DelHeld, [Next]_vars
    PROVE  DelHeld'
<1>1. CASE Deliver \/ Fault \/ Restart \/ UNCHANGED vars
  <2>1. UNCHANGED data
    BY <1>1
    DEF Deliver, OnDataEvents, DeliverData, OnPodEvents, OnBindingEvents, Resync,
        Fault, Abort, Restart, Boot, Relist, storeVars, vars, dataVars
  <2> QED  BY <2>1, HeldCopies DEF DelHeld
<1> QED  BY <1>1, WorkHeld, EnvironmentHeld, HeldCopies DEF Next

LEMMA GoneNext ==
    ASSUME TypeOK, FinalizerInv, DelHeld, ProgressInv, SettledIsGone, [Next]_vars
    PROVE  SettledIsGone'
<1> SUFFICES ASSUME NEW d \in Names, Settled(d)', data'[d] # None
             PROVE  ~data'[d].del
  BY DEF SettledIsGone
<1>0. key' # d /\ ~Pending(d)'  BY DEF Settled, Pending
<1>1. Attended(d)  BY StepAttended
<1>2. data'[d] = data[d] /\ ~Pending(d)  BY <1>0, <1>1 DEF Attended
<1>3. CASE key # d
  BY <1>2, <1>3 DEF SettledIsGone, Settled, Pending
<1>4. CASE key = d
  <2>1. pc # "idle"  BY <1>4, NoneAssumption, TypeParts DEF LocalTyped
  <2>2. ~Abort /\ ~Boot
    BY <1>0, <1>2, <1>4 DEF Abort, Boot, Pending
  <2>3. RemoveFinalizer \/ AddFinalizer \/ Done
    BY <1>0, <1>4, <2>1, <2>2, KeyEnds
  <2>4. ~Pending(key) /\ data[key] = inst /\ HeldWhileDeleted(inst)
    BY <1>2, <1>4, <2>1 DEF ProgressInv, Copied, Pending, DelHeld
  <2>5. inst # None /\ inst.del \in BOOLEAN /\ inst.fin \in BOOLEAN
    BY <2>1, WorkingTyped, NoneAssumption DEF DataObject
  <2>6. CASE RemoveFinalizer
    <3>1. inst.del => data'[key] = None
      BY <1>4, <2>6, TypeParts DEF RemoveFinalizer, FinishWith, DataTyped
    <3> QED  BY <1>2, <1>4, <2>4, <3>1
  <2>7. CASE AddFinalizer
    <3>1. ~inst.fin  BY <2>1, <2>4, <2>7 DEF AddFinalizer, ProgressInv
    <3> QED  BY <1>2, <1>4, <2>4, <2>5, <3>1 DEF HeldWhileDeleted
  <2>8. CASE Done
    <3>1. ~(inst.fin /\ inst.del)  BY <2>1, <2>4, <2>8 DEF Done, ProgressInv
    <3> QED  BY <1>2, <1>4, <2>4, <2>5, <3>1 DEF HeldWhileDeleted
  <2> QED  BY <2>3, <2>6, <2>7, <2>8
<1> QED  BY <1>3, <1>4

-----------------------------------------------------------------------------
(* Beside the DataSet controller.  What that controller, its users and the *)
(* garbage collector do to a Data: one that stays keeps its pod and its    *)
(* status, and gets no spec that its pod has been told of before; a new    *)
(* one belongs to a pod that has been there.                               *)

Foreign(d) ==
    data'[d] # None =>
        IF data[d] # None
        THEN /\ data'[d].pod = data[d].pod /\ data'[d].st = data[d].st
             /\ \/ data'[d].spec = data[d].spec
                \/ pods[data[d].pod] = None
                \/ pods[data[d].pod].digest # Digest[data'[d].spec]
             /\ data'[d].del => data[d].del \/ data[d].fin
        ELSE /\ DataName(data'[d].pod) = d /\ data'[d].pod \notin fresh
             /\ data'[d].st = None /\ ~data'[d].del

Beside == /\ ForeignWrites /\ UNCHANGED <<podVars, dcVars>>
          /\ \A d \in Names : Foreign(d)

(* A step that comes from outside, whoever takes it.                       *)
LEMMA SettledOutside ==
    ASSUME TypeOK, SettledIsDelivered, SettledIsGone, Outside,
           \A d \in Names : data[d] # None => Stays(data[d].pod)
    PROVE  SettledIsDelivered' /\ SettledIsGone'
<1>1. UNCHANGED <<key, bindings>>  BY DEF Outside, localVars
<1>2. ASSUME NEW d \in Names, Settled(d)', data'[d] # None
      PROVE  Settled(d) /\ data'[d] = data[d] /\ Stays(data[d].pod)
  <2>1. Attended(d) /\ key' # d /\ ~Pending(d)'
    BY <1>2 DEF Outside, Settled, Pending
  <2>2. data'[d] = data[d] /\ ~Pending(d)  BY <1>1, <2>1, <1>2, NoneAssumption DEF Attended
  <2> QED  BY <1>1, <1>2, <2>1, <2>2 DEF Settled, Pending
<1>3. ASSUME NEW d \in Names, Settled(d)', Wanted(d)'  PROVE Delivered(d)'
  <2>1. Settled(d) /\ data'[d] = data[d] /\ Stays(data[d].pod)
    BY <1>2, <1>3 DEF Wanted
  <2>2. Wanted(d)  BY <1>3, <2>1 DEF Wanted, Stays
  <2>3. Delivered(d)  BY <2>1, <2>2 DEF SettledIsDelivered
  <2> QED
    BY <1>1, <1>3, <2>1, <2>3
    DEF Wanted, Stays, Delivered, Told, ListsSpec, Account
<1> QED  BY <1>2, <1>3 DEF SettledIsDelivered, SettledIsGone

LEMMA BesideOutside ==
    ASSUME TypeOK, Beside
    PROVE  Outside /\ \A d \in Names : data[d] # None => Stays(data[d].pod)
<1>1. DataNoted  BY DEF Beside, ForeignWrites, DataNoted
<1>2. \A d \in Names : Attended(d)
  BY <1>1, NotedAttended DEF Beside, dcVars
<1>3. \A d \in Names : "data" \notin lagData'[d] =>
          "data" \notin lagData[d] /\ data'[d] = data[d]
  BY DEF Beside, ForeignWrites
<1> QED
  BY <1>2, <1>3 DEF Beside, Outside, dcVars, bindVars, podVars, Stays

LEMMA BesideKeeps ==
    ASSUME TypeOK, DeliveryInv, FreshInv, ToldListed, ProgressInv, DelHeld,
           SettledIsDelivered, SettledIsGone, Beside
    PROVE  /\ DeliveryInv' /\ FreshInv' /\ ToldListed' /\ ProgressInv' /\ DelHeld'
           /\ SettledIsDelivered' /\ SettledIsGone'
<1>1. /\ UNCHANGED <<pods, podsCache, fresh, dataCache, localVars>> /\ DataTyped
      /\ \A d \in Names : Foreign(d)
  BY TypeParts DEF Beside, ForeignWrites, podVars, dcVars
<1>2. DeliveryInv'
  <2>1. Named'  BY <1>1 DEF DeliveryInv, Named, Foreign
  <2>2. \A d \in Names : Kept(d)  BY <1>1 DEF Foreign, Kept
  <2> QED  BY <1>1, <2>1, <2>2, LocalKept DEF DeliveryInv
<1>3. FreshInv'
  BY <1>1 DEF FreshInv, Foreign
<1>4. ToldListed'
  <2> SUFFICES ASSUME NEW d \in Names, data'[d] # None, data'[d].st # None,
                      pods[data'[d].pod] # None,
                      pods[data'[d].pod].digest = Digest[data'[d].spec]
               PROVE  data'[d].st.of = data'[d].spec
    BY <1>1 DEF ToldListed, Told
  <2>1. data[d] # None /\ data'[d].pod = data[d].pod /\ data'[d].st = data[d].st
        /\ data'[d].spec = data[d].spec
    BY <1>1 DEF Foreign
  <2> QED  BY <2>1 DEF ToldListed, Told
<1>5. DelHeld'
  <2>1. \A d \in Names : HeldWhileDeleted(data'[d])
    BY DEF DelHeld, HeldWhileDeleted, Beside, ForeignWrites, Foreign
  <2> QED  BY <1>1, <2>1 DEF DelHeld, HeldWhileDeleted, localVars
<1> QED  BY <1>2, <1>3, <1>4, <1>5, BesideOutside, ProgressOutside, SettledOutside

(* When the process starts, every Data there is is enqueued.               *)
LEMMA BootSettles ==
    ASSUME TypeOK, FinalizerInv, DeliveryInv, FreshInv, ToldListed, DelHeld, Boot
    PROVE  /\ DeliveryInv' /\ FreshInv' /\ ToldListed' /\ ProgressInv' /\ DelHeld'
           /\ SettledIsDelivered' /\ SettledIsGone'
<1>1. /\ pc' = "idle" /\ UNCHANGED <<data, pods, fresh>>
      /\ dataCache' = data /\ podsCache' = pods
      /\ queue' = {d \in Names : data[d] # None}
  BY DEF Boot, Idle, Relist, storeVars
<1>2. DeliveryInv'  BY <1>1, IdleLocal DEF DeliveryInv, Named
<1>3. FreshInv'  BY <1>1 DEF FreshInv
<1>4. ToldListed'  BY <1>1 DEF ToldListed, Told
<1>5. ProgressInv'  BY <1>1 DEF ProgressInv
<1>6. DelHeld'  BY <1>1 DEF DelHeld, HeldWhileDeleted
<1>7. SettledIsDelivered' /\ SettledIsGone'
  BY <1>1 DEF SettledIsDelivered, SettledIsGone, Settled, Wanted
<1> QED  BY <1>2, <1>3, <1>4, <1>5, <1>6, <1>7

(* The worker, its failures, its other events and the runtimes: whatever   *)
(* they change is an event, none of them makes a Data, writes a spec, or   *)
(* touches the DataSet.                                                    *)
LEMMA ReportNoted ==
    ASSUME TypeOK, NEW e \in Names, NEW ph \in ReportPhases, RuntimeReports(e, ph)
    PROVE  DataNoted /\ UNCHANGED <<dsVars, podVars>>
<1>1. PICK i \in Items(data[e].st.of) :
          PutData("env", e, [data[e] EXCEPT !.st.phase[i] = ph])
  BY DEF RuntimeReports
<1> QED  BY <1>1, TypeParts, PutDataNoted DEF RuntimeReports

Own == \/ Work \/ Fault \/ OnBindingEvents
       \/ \E d \in Names, ph \in ReportPhases : RuntimeReports(d, ph)
       \/ UNCHANGED vars

LEMMA OwnIsStep == Own => [Next]_vars
BY DEF Own, Next, Deliver, Environment

LEMMA OwnSteps ==
    ASSUME TypeOK, Own
    PROVE  /\ DsNoted /\ DataNoted /\ PodsNoted /\ UNCHANGED <<ds, dsCache>>
           /\ \A d \in Names : data'[d] # None =>
                 /\ data[d] # None /\ data'[d].pod = data[d].pod
                 /\ data'[d].spec = data[d].spec
<1>0. DataTyped /\ PodsTyped  BY TypeParts
<1>1. DsNoted /\ DataNoted /\ PodsNoted
  <2>1. CASE Fault
    BY <1>0, <2>1
    DEF Fault, Abort, DropCopies, DropData, dsVars, DataTyped, PodsTyped, DsNoted,
        DataNoted, PodsNoted
  <2>2. CASE OnBindingEvents \/ UNCHANGED vars
    BY <2>2, SameNoted DEF OnBindingEvents, vars
  <2>3. ASSUME NEW d \in Names, NEW ph \in ReportPhases, RuntimeReports(d, ph)
        PROVE  DsNoted /\ DataNoted /\ PodsNoted
    BY <2>3, ReportNoted, SameNoted
  <2> QED  BY <2>1, <2>2, <2>3, WorkNoted DEF Own
<1>2. UNCHANGED <<ds, dsCache>>
  <2>1. CASE Work
    BY <2>1
    DEF Work, GetData, GetDataGone, GetPod, GetPodGone, ResetStatus, PatchStatus,
        WriteStatus, StatusRejected, RoleBindingFound, CreateRoleBinding, Annotate,
        AlreadyAnnotated, AnnotateRejected, Strip, StripGone, StripRejected,
        RemoveFinalizer, AddFinalizer, FinalizerRejected, Done, WriteDigest,
        FinishWith, Abort, DropCopies, SameKey, Rest, dsVars
  <2>2. CASE Own /\ ~Work
    BY <2>2, ReportNoted
    DEF Own, Fault, Abort, DropCopies, OnBindingEvents, vars, dsVars
  <2> QED  BY <2>1, <2>2
<1>3. ASSUME NEW d \in Names, data'[d] # None
      PROVE  /\ data[d] # None /\ data'[d].pod = data[d].pod
             /\ data'[d].spec = data[d].spec
  <2>1. CASE Work
    BY <1>3, <2>1, WorkAlike, ResetWrites DEF Alike
  <2>2. CASE Fault \/ OnBindingEvents \/ UNCHANGED vars
    BY <1>3, <2>2 DEF Fault, Abort, OnBindingEvents, vars, dataVars
  <2>3. ASSUME NEW e \in Names, NEW ph \in ReportPhases, RuntimeReports(e, ph)
        PROVE  Alike(d)
    BY <2>3, ReportAlike
  <2> QED  BY <1>3, <2>1, <2>2, <2>3 DEF Own, Alike
<1> QED  BY <1>1, <1>2, <1>3

(* What a pod is told in a step is what the copy at hand says.             *)
LEMMA TellsTheCopy ==
    ASSUME TypeOK, DeliveryInv, [Next]_vars, NEW p \in Pods, pods'[p] # None,
           pods'[p].digest # None
    PROVE  \/ pods[p] # None /\ pods'[p].digest = pods[p].digest
           \/ /\ key = DataName(p) /\ inst \in DataObject
              /\ pods'[p].digest = Digest[inst.spec]
<1>0. PodsTyped  BY TypeParts
<1>1. CASE Annotate
  <2>1. pods' = [pods EXCEPT ![pod] = [digest |-> tag]] /\ pc = "annotate"
        /\ annotation # tag
    BY <1>1 DEF Annotate, WriteDigest, PutPod
  <2>2. tag = Digest[inst.spec] /\ key = DataName(pod) /\ inst \in DataObject
    BY <2>1, WorkingTyped DEF DeliveryInv, LocalInv, Listed, InstNamed
  <2> QED  BY <1>0, <2>1, <2>2 DEF PodsTyped
<1>2. CASE Strip
  BY <1>0, <1>2 DEF Strip, WriteDigest, PutPod, PodsTyped
<1>3. ASSUME NEW q \in Pods, CreatePod(q) \/ DeletePod(q)
      PROVE  pods[p] # None /\ pods'[p].digest = pods[p].digest
  BY <1>0, <1>3 DEF CreatePod, DeletePod, PutPod, PodsTyped
<1> QED  BY <1>1, <1>2, <1>3, StepPods

-----------------------------------------------------------------------------
(* The theorems *)

LEMMA SettledInit ==
    Init => FreshInv /\ ReadInv /\ ToldListed /\ ProgressInv /\ SettledIsDelivered
BY DEF Init, WorkerInit, ClusterInit, FreshInv, ReadInv, ToldListed, ProgressInv,
       SettledIsDelivered, Wanted

LEMMA FoundationNext ==
    TypeOK /\ FinalizerInv /\ DeliveryInv /\ FreshInv /\ [Next]_vars
    => (TypeOK /\ FinalizerInv /\ DeliveryInv /\ FreshInv)'
BY NextTyped, FinalizerNext, DeliveryNext, FreshNext

(* A Data that the controller has nothing left to do for is delivered: its *)
(* pod carries the digest of its spec, its status lists and counts that    *)
(* spec's items, it has its finalizer and the runtime its role.  So it is  *)
(* for any pods, colliding names, templates, conflicts, lost answers,      *)
(* stale Data, faults and restarts, when reconciles see current pods, no   *)
(* edit undoes one that did not arrive, and no pod takes the name of one   *)
(* whose Data is still there.                                              *)
THEOREM SettledDelivered ==
    ASSUME "podLag" \notin Allowed, "undo" \notin Allowed,
           "reuseNames" \notin Allowed
    PROVE  Spec => []SettledIsDelivered
<1> DEFINE Inv == /\ TypeOK /\ FinalizerInv /\ DeliveryInv /\ FreshInv
                  /\ ToldListed /\ ProgressInv /\ SettledIsDelivered
<1>1. Init => Inv
  BY InitTyped, FinalizerInit, InitDelivers, SettledInit
<1>2. Inv /\ [Next]_vars => Inv'
  BY FoundationNext, ToldNext, ProgressNext, SettledNext
<1> QED  BY <1>1, <1>2, PTL DEF Spec

(* A deleted Data is gone when the controller has nothing left to do for   *)
(* it: whatever pods, conflicts, lost answers and restarts came between,   *)
(* its finalizer has been taken off, under the conditions above.           *)
THEOREM SettledGone ==
    ASSUME "podLag" \notin Allowed, "undo" \notin Allowed,
           "reuseNames" \notin Allowed
    PROVE  Spec => []SettledIsGone
<1> DEFINE Inv == /\ TypeOK /\ FinalizerInv /\ DeliveryInv /\ FreshInv
                  /\ ToldListed /\ ProgressInv /\ DelHeld /\ SettledIsGone
<1>1. Init => DelHeld /\ SettledIsGone
  BY DEF Init, WorkerInit, ClusterInit, DelHeld, HeldWhileDeleted, SettledIsGone
<1>2. Init => Inv
  BY <1>1, InitTyped, FinalizerInit, InitDelivers, SettledInit
<1>3. Inv /\ [Next]_vars => Inv'
  BY FoundationNext, ToldNext, ProgressNext, HeldNext, GoneNext
<1> QED  BY <1>2, <1>3, PTL DEF Spec

(* What the runtime reported for the digest its pod carries is not reset:  *)
(* a status goes back to "waiting" only with a digest that is still to be  *)
(* told, when reconciles see current pods and a pod's name is not used     *)
(* again under its Data.                                                   *)
THEOREM ProgressIsKept ==
    ASSUME "podLag" \notin Allowed, "reuseNames" \notin Allowed
    PROVE  Spec => ProgressKept
<1> DEFINE Inv == TypeOK /\ FinalizerInv /\ DeliveryInv /\ FreshInv /\ ReadInv
           Step == \A d \in Names :
                      (/\ data[d] # None /\ data[d].st # None
                       /\ data'[d] # None /\ data'[d].st # None
                       /\ data'[d].st.of = data[d].st.of
                       /\ \E i \in Items(data[d].st.of) :
                             /\ data[d].st.phase[i] # "waiting"
                             /\ data'[d].st.phase[i] = "waiting")
                      => \/ pods[data[d].pod] = None
                         \/ pods[data[d].pod].digest # Digest[data[d].st.of]
<1>1. Init => Inv
  BY InitTyped, FinalizerInit, InitDelivers, SettledInit
<1>2. Inv /\ [Next]_vars => Inv'
  BY FoundationNext, ReadNext
<1>3. Inv /\ [Next]_vars => [Step]_vars
  <2> SUFFICES ASSUME Inv, [Next]_vars, NEW d \in Names,
                      data[d] # None, data[d].st # None,
                      data'[d] # None, data'[d].st # None,
                      data'[d].st.of = data[d].st.of,
                      NEW i \in Items(data[d].st.of),
                      data[d].st.phase[i] # "waiting",
                      data'[d].st.phase[i] = "waiting"
               PROVE  \/ pods[data[d].pod] = None
                      \/ pods[data[d].pod].digest # Digest[data[d].st.of]
    OBVIOUS
  <2>1. CASE Alike(d)  BY <2>1 DEF Alike
  <2>2. CASE ResetStatus /\ d = key
    <3>1. /\ pc = "status" /\ annotation # tag /\ data[d] = inst /\ Read
      BY <2>2
      DEF ResetStatus, ResetNeeded, InstCurrent, Current, FinalizerInv, DataInv,
          ReadInv
    <3>2. tag = Digest[inst.spec]
      BY <3>1 DEF DeliveryInv, LocalInv, Tagged
    <3>3. data[d].st.of = inst.spec  BY <2>2, ResetWrites
    <3> QED  BY <3>1, <3>2, <3>3 DEF Read, pod
  <2>3. ASSUME NEW p \in Pods, DataSetCreates(p), d = DataName(p)  PROVE FALSE
    BY <2>3, CreateWrites
  <2>4. ASSUME NEW t \in Templates, DataSetUpdates(d, t)  PROVE FALSE
    BY <2>4, UpdateWrites
  <2> QED  BY <2>1, <2>2, <2>3, <2>4, StepAlike
<1> QED  BY <1>1, <1>2, <1>3, PTL DEF Spec, ProgressKept
=============================================================================
