------------------------- MODULE DataControllerProofs -------------------------
(***************************************************************************)
(* Proofs about DataController, for every set of pods and templates, every *)
(* environment and every bound.                                            *)
(***************************************************************************)
EXTENDS DataController, ClusterProofs

-----------------------------------------------------------------------------
(* Types of the statuses the reconciler writes *)

LEMMA DefaultType ==
    ASSUME NEW t \in Templates
    PROVE  Default(t) \in Status
<1>1. [i \in Items(t) |-> "waiting"] \in [Items(t) -> Phases]  BY DEF Phases
<1> QED  BY <1>1, ListingType DEF Default

LEMMA LatestSumType ==
    ASSUME NEW d \in DataObject
    PROVE  LatestSum(d) \in [Fields -> Nat] /\ OldSum(d) \in [Fields -> Nat]
<1>1. d.spec \in Templates /\ d.st \in Status \cup {None}  BY DEF DataObject
<1>2. CASE d.st = None
  <2>1. IsFiniteSet(DOMAIN <<>>)  BY FS_EmptySet
  <2>2. LatestSum(d) = Tally(<<>>, NumItems[d.spec]) /\ OldSum(d) = NoSum
    BY <1>2 DEF LatestSum, OldSum
  <2> QED  BY <2>1, <2>2, <1>1, TallyType, ItemsFinite DEF NoSum
<1>3. CASE d.st # None
  <2>1. PICK t \in Templates : d.st.phase \in [Items(t) -> Phases]
    BY <1>1, <1>3 DEF Status
  <2>2. IsFiniteSet(DOMAIN d.st.phase)  BY <2>1, ItemsFinite
  <2>3. LatestSum(d) = Tally(d.st.phase, NumItems[d.spec]) /\ OldSum(d) = d.st.sum
    BY <1>3 DEF LatestSum, OldSum
  <2>4. d.st.sum \in [Fields -> Nat]  BY <1>1, <1>3 DEF Status
  <2> QED  BY <2>2, <2>3, <2>4, <1>1, TallyType, ItemsFinite
<1> QED  BY <1>2, <1>3

-----------------------------------------------------------------------------
(* The parts of TypeOK, and the operators that write a part *)

Tags == {Digest[t] : t \in Templates}

BindTyped == bindings \subseteq Accounts /\ bindingsCache \subseteq bindings
LocalTyped ==
    /\ pc \in {"idle", "getPod", "status", "roleBinding", "annotate", "strip",
               "addFinalizer", "removeFinalizer", "done"}
    /\ IF pc = "idle"
       THEN key = None /\ inst = None /\ tag = None /\ annotation = None
       ELSE /\ key \in Names /\ inst \in DataObject
            /\ tag \in Tags /\ annotation \in Tags \cup {None}
QueueTyped == queue \subseteq Names

LEMMA TypeParts ==
    TypeOK <=> /\ DsTyped /\ DataTyped /\ PodsTyped /\ BudgetTyped /\ BindTyped
               /\ LocalTyped /\ QueueTyped
BY DEF TypeOK, ClusterTypeOK, DsTyped, DataTyped, PodsTyped, BudgetTyped,
       BindTyped, LocalTyped, QueueTyped, Tags

LEMMA TypePartsNext ==
    TypeOK' <=> /\ DsTyped' /\ DataTyped' /\ PodsTyped' /\ BudgetTyped'
                /\ BindTyped' /\ LocalTyped' /\ QueueTyped'
BY DEF TypeOK, ClusterTypeOK, DsTyped, DataTyped, PodsTyped, BudgetTyped,
       BindTyped, LocalTyped, QueueTyped, Tags

(* Dropping the copies at the end of a reconcile.                          *)
LEMMA DropCopiesTyped ==
    ASSUME TypeOK, DropCopies
    PROVE  PodsTyped' /\ LocalTyped' /\ DsTyped'
<1>1. PodsTyped /\ DsTyped  BY TypeParts
<1>2. PodsTyped'  BY <1>1 DEF DropCopies, PodsTyped, PodHolders
<1>3. LocalTyped'  BY DEF DropCopies, Idle, LocalTyped
<1>4. DsTyped'  BY <1>1 DEF DropCopies, DsTyped, dsVars
<1> QED  BY <1>2, <1>3, <1>4

LEMMA WorkingTyped ==
    ASSUME TypeOK, pc # "idle"
    PROVE  /\ key \in Names /\ inst \in DataObject /\ pod \in Pods
           /\ tag \in Tags /\ annotation \in Tags \cup {None}
           /\ inst.spec \in Templates
           /\ data[key] \in DataObject \cup {None}
<1>1. key \in Names /\ inst \in DataObject /\ tag \in Tags
      /\ annotation \in Tags \cup {None}
  BY TypeParts DEF LocalTyped
<1>2. data[key] \in DataObject \cup {None}  BY <1>1, TypeParts DEF DataTyped
<1> QED  BY <1>1, <1>2 DEF DataObject, pod

LEMMA AbortTyped ==
    ASSUME TypeOK, pc # "idle", Abort
    PROVE  DsTyped' /\ DataTyped' /\ PodsTyped' /\ LocalTyped' /\ QueueTyped'
<1>1. key \in Names  BY WorkingTyped
<1>2. DataTyped'
  BY <1>1, TypeParts DEF Abort, DropCopies, DropData, DataTyped, DataHolders
<1>3. QueueTyped'  BY <1>1, TypeParts DEF Abort, QueueTyped
<1> QED  BY <1>2, <1>3, DropCopiesTyped DEF Abort

LEMMA FinishTyped ==
    ASSUME TypeOK, pc # "idle", NEW obj \in DataObject \cup {None}, FinishWith(obj)
    PROVE  TypeOK'
<1>1. key \in Names  BY WorkingTyped
<1>2. DataTyped'
  BY <1>1, TypeParts
  DEF FinishWith, DropCopies, DropData, Behind, DataTyped, DataHolders
<1>3. BudgetTyped' /\ BindTyped' /\ QueueTyped'
  BY TypeParts DEF FinishWith, BudgetTyped, BindTyped, bindVars, QueueTyped,
     Accounts, Account
<1> QED  BY <1>2, <1>3, DropCopiesTyped, TypePartsNext DEF FinishWith

-----------------------------------------------------------------------------
(* Every step keeps the types *)

LEMMA UnchangedTyped ==
    /\ DsTyped /\ UNCHANGED dsVars => DsTyped'
    /\ DataTyped /\ UNCHANGED dataVars => DataTyped'
    /\ PodsTyped /\ UNCHANGED podVars => PodsTyped'
    /\ BudgetTyped /\ UNCHANGED budget => BudgetTyped'
    /\ BindTyped /\ UNCHANGED bindVars => BindTyped'
    /\ LocalTyped /\ UNCHANGED localVars => LocalTyped'
    /\ QueueTyped /\ UNCHANGED queue => QueueTyped'
<1>1. BindTyped /\ UNCHANGED bindVars => BindTyped'
  BY DEF BindTyped, bindVars, Accounts, Account
<1>2. LocalTyped /\ UNCHANGED localVars => LocalTyped'
  BY DEF LocalTyped, localVars, Tags
<1>3. QueueTyped /\ UNCHANGED queue => QueueTyped'  BY DEF QueueTyped
<1> QED  BY <1>1, <1>2, <1>3, SameCluster

(* A step within a reconcile moves pc and at most the two copies.          *)
LEMMA StepTyped ==
    ASSUME TypeOK, pc # "idle", SameKey,
           pc' \in {"getPod", "status", "roleBinding", "annotate", "strip",
                    "addFinalizer", "removeFinalizer", "done"},
           inst' \in DataObject, annotation' \in Tags \cup {None},
           DataTyped', PodsTyped', UNCHANGED bindVars
    PROVE  TypeOK'
<1>1. DsTyped' /\ BindTyped' /\ QueueTyped' /\ BudgetTyped'
  BY TypeParts, UnchangedTyped DEF SameKey, Rest
<1>2. LocalTyped'  BY WorkingTyped DEF SameKey, LocalTyped, Tags
<1> QED  BY <1>1, <1>2, TypePartsNext

(* A step that only moves pc.                                              *)
LEMMA MoveTyped ==
    ASSUME TypeOK, pc # "idle", SameKey, SameCopy, SameApi,
           pc' \in {"getPod", "status", "roleBinding", "annotate", "strip",
                    "addFinalizer", "removeFinalizer", "done"}
    PROVE  TypeOK'
<1>1. DataTyped' /\ PodsTyped' /\ UNCHANGED bindVars
  BY TypeParts, UnchangedTyped DEF SameApi
<1>2. inst' \in DataObject /\ annotation' \in Tags \cup {None}
  BY WorkingTyped DEF SameCopy
<1> QED  BY <1>1, <1>2, StepTyped

LEMMA RejectTyped ==
    ASSUME TypeOK, pc # "idle", Abort, UNCHANGED <<bindVars, budget>>
    PROVE  TypeOK'
<1>1. BindTyped' /\ BudgetTyped'  BY TypeParts, UnchangedTyped
<1> QED  BY <1>1, AbortTyped, TypePartsNext

LEMMA GetDataTyped ==
    ASSUME TypeOK, NEW d \in Names, GetData(d) \/ GetDataGone(d)
    PROVE  TypeOK'
<1>1. CASE GetDataGone(d)
  <2>1. QueueTyped'  BY <1>1, TypeParts DEF GetDataGone, QueueTyped
  <2>2. DsTyped' /\ DataTyped' /\ PodsTyped' /\ BindTyped' /\ LocalTyped'
        /\ BudgetTyped'
    BY <1>1, TypeParts, UnchangedTyped DEF GetDataGone, SameApi, Rest
  <2> QED  BY <2>1, <2>2, TypePartsNext
<1>2. CASE GetData(d)
  <2>1. dataCache[d] \in DataObject /\ dataCache[d].spec \in Templates
    BY <1>2, TypeParts DEF GetData, DataTyped, DataObject
  <2>2. annotation = None  BY <1>2, TypeParts DEF GetData, LocalTyped
  <2>3. LocalTyped'  BY <1>2, <2>1, <2>2 DEF GetData, LocalTyped, Tags
  <2>4. QueueTyped'  BY <1>2, TypeParts DEF GetData, QueueTyped
  <2>5. DataTyped'  BY <1>2, TypeParts, TakeCopyTyped DEF GetData, DataHolders
  <2>6. DsTyped' /\ PodsTyped' /\ BindTyped' /\ BudgetTyped'
    BY <1>2, TypeParts, UnchangedTyped DEF GetData, Rest
  <2> QED  BY <2>3, <2>4, <2>5, <2>6, TypePartsNext
<1> QED  BY <1>1, <1>2

LEMMA GetPodTyped ==
    ASSUME TypeOK, GetPod \/ GetPodGone
    PROVE  TypeOK'
<1>1. CASE GetPodGone  BY <1>1, MoveTyped DEF GetPodGone
<1>2. CASE GetPod
  <2>1. pod \in Pods /\ inst \in DataObject  BY <1>2, WorkingTyped DEF GetPod
  <2>2. podsCache[pod].digest \in Tags \cup {None}
    BY <1>2, <2>1, TypeParts DEF GetPod, PodsTyped, PodObject, Tags
  <2>3. PodsTyped'  BY <1>2, <2>1, TypeParts, TakeCopyTyped DEF GetPod, PodHolders
  <2>4. DataTyped'  BY <1>2, TypeParts, UnchangedTyped DEF GetPod
  <2>5. pc # "idle" /\ pc' = "status" /\ inst' = inst /\ SameKey
        /\ annotation' = podsCache[pod].digest /\ UNCHANGED bindVars
    BY <1>2 DEF GetPod
  <2> QED  BY <2>1, <2>2, <2>3, <2>4, <2>5, StepTyped
<1> QED  BY <1>1, <1>2

LEMMA WriteStatusTyped ==
    ASSUME TypeOK, pc = "status", NEW obj \in DataObject, WriteStatus(obj),
           DataTyped'
    PROVE  TypeOK'
<1>1. PodsTyped'  BY TypeParts, UnchangedTyped DEF WriteStatus
<1>2. annotation' \in Tags \cup {None}  BY WorkingTyped DEF WriteStatus
<1> QED  BY <1>1, <1>2, StepTyped DEF WriteStatus

LEMMA ResetStatusTyped ==
    ASSUME TypeOK, ResetStatus
    PROVE  TypeOK'
<1> DEFINE obj == [data[key] EXCEPT !.st = Default(inst.spec)]
<1>1. key \in Names /\ data[key] \in DataObject /\ inst.spec \in Templates
  BY WorkingTyped DEF ResetStatus, InstCurrent
<1>2. obj \in DataObject  BY <1>1, DefaultType DEF DataObject
<1>3. PICK bump \in BOOLEAN : WriteData("data", key, obj, bump)
  BY DEF ResetStatus
<1>4. WriteStatus(obj) /\ pc = "status"  BY DEF ResetStatus
<1> HIDE DEF obj
<1>5. DataTyped'  BY <1>1, <1>2, <1>3, TypeParts, WriteDataTyped
<1> QED  BY <1>2, <1>4, <1>5, WriteStatusTyped

LEMMA PatchStatusTyped ==
    ASSUME TypeOK, PatchStatus
    PROVE  TypeOK'
<1> DEFINE sum == MergePatch(data[key].st.sum, OldSum(inst), LatestSum(inst))
           obj == [data[key] EXCEPT !.st.sum = sum]
<1>1. key \in Names /\ data[key] \in DataObject /\ inst \in DataObject
      /\ data[key].st \in Status
  BY WorkingTyped DEF PatchStatus, PatchAccepted, DataObject
<1>2. sum \in [Fields -> Nat]
  BY <1>1, LatestSumType DEF MergePatch, Status
<1>3. [data[key].st EXCEPT !.sum = sum] \in Status
  <2> HIDE DEF sum
  <2> QED  BY <1>1, <1>2 DEF Status
<1>4. obj \in DataObject
  <2> HIDE DEF sum
  <2> QED  BY <1>1, <1>3 DEF DataObject
<1>5. PutData("data", key, obj) /\ WriteStatus(obj) /\ pc = "status"
  BY DEF PatchStatus
<1> HIDE DEF obj
<1>6. DataTyped'  BY <1>1, <1>4, <1>5, TypeParts, PutDataTyped
<1> QED  BY <1>4, <1>5, <1>6, WriteStatusTyped

LEMMA RoleBindingTyped ==
    ASSUME TypeOK, RoleBindingFound \/ CreateRoleBinding
    PROVE  TypeOK'
<1>1. CASE RoleBindingFound  BY <1>1, MoveTyped DEF RoleBindingFound
<1>2. CASE CreateRoleBinding
  <2>1. pod \in Pods  BY <1>2, WorkingTyped DEF CreateRoleBinding
  <2>2. BindTyped'
    BY <1>2, <2>1, TypeParts DEF CreateRoleBinding, BindTyped, Accounts, Account
  <2>3. BudgetTyped'  BY <1>2, TypeParts, UnchangedTyped DEF CreateRoleBinding
  <2> QED  BY <1>2, <2>2, <2>3, AbortTyped, TypePartsNext DEF CreateRoleBinding
<1> QED  BY <1>1, <1>2

LEMMA WriteDigestTyped ==
    ASSUME TypeOK, pc # "idle", NEW dig \in Tags \cup {None},
           NEW next \in {"addFinalizer", "strip", "removeFinalizer", "done"},
           WriteDigest(dig, next)
    PROVE  TypeOK'
<1>1. [digest |-> dig] \in PodObject \cup {None}  BY DEF PodObject, Tags
<1>2. pod \in Pods /\ inst \in DataObject  BY WorkingTyped
<1>3. PodsTyped'
  BY <1>1, <1>2, TypeParts, PutPodTyped DEF WriteDigest, PodsTyped
<1>4. DataTyped'  BY TypeParts, UnchangedTyped DEF WriteDigest
<1> QED  BY <1>2, <1>3, <1>4, StepTyped DEF WriteDigest

LEMMA AnnotateTyped ==
    ASSUME TypeOK, \/ Annotate \/ AlreadyAnnotated
                   \/ Strip \/ StripGone
    PROVE  TypeOK'
<1>1. AfterAnnotate \in {"addFinalizer", "strip", "done"}  BY DEF AfterAnnotate
<1>2. CASE Annotate
  <2>1. tag \in Tags  BY <1>2, WorkingTyped DEF Annotate
  <2> QED  BY <1>1, <1>2, <2>1, WriteDigestTyped DEF Annotate
<1>3. CASE AlreadyAnnotated  BY <1>1, <1>3, MoveTyped DEF AlreadyAnnotated
<1>4. CASE Strip  BY <1>4, WriteDigestTyped DEF Strip
<1>5. CASE StripGone  BY <1>5, MoveTyped DEF StripGone
<1> QED  BY <1>2, <1>3, <1>4, <1>5

LEMMA FinalizerTyped ==
    ASSUME TypeOK, RemoveFinalizer \/ AddFinalizer \/ Done
    PROVE  TypeOK'
<1>1. pc # "idle"  BY DEF RemoveFinalizer, AddFinalizer, Done
<1>2. key \in Names /\ data[key] \in DataObject \cup {None}
  BY <1>1, WorkingTyped
<1>3. CASE RemoveFinalizer
  <2> DEFINE obj == IF inst.del THEN None ELSE [data[key] EXCEPT !.fin = FALSE]
  <2>1. data[key] \in DataObject  BY <1>2, <1>3 DEF RemoveFinalizer, InstCurrent
  <2>2. obj \in DataObject \cup {None}  BY <2>1 DEF DataObject
  <2>3. FinishWith(obj)  BY <1>3 DEF RemoveFinalizer
  <2> HIDE DEF obj
  <2> QED  BY <1>1, <2>2, <2>3, FinishTyped
<1>4. CASE AddFinalizer
  <2> DEFINE obj == [data[key] EXCEPT !.fin = TRUE]
  <2>1. data[key] \in DataObject  BY <1>2, <1>4 DEF AddFinalizer, InstCurrent
  <2>2. obj \in DataObject \cup {None}  BY <2>1 DEF DataObject
  <2>3. FinishWith(obj)  BY <1>4 DEF AddFinalizer
  <2> HIDE DEF obj
  <2> QED  BY <1>1, <2>2, <2>3, FinishTyped
<1>5. CASE Done  BY <1>1, <1>2, <1>5, FinishTyped DEF Done
<1> QED  BY <1>3, <1>4, <1>5

LEMMA WorkTyped ==
    ASSUME TypeOK, Work
    PROVE  TypeOK'
<1>1. ASSUME \/ StatusRejected \/ AnnotateRejected \/ StripRejected
             \/ FinalizerRejected
      PROVE  TypeOK'
  BY <1>1, RejectTyped
  DEF StatusRejected, AnnotateRejected, StripRejected, FinalizerRejected
<1> QED
  BY <1>1, GetDataTyped, GetPodTyped, ResetStatusTyped, PatchStatusTyped,
     RoleBindingTyped, AnnotateTyped, FinalizerTyped
  DEF Work

LEMMA DeliverTyped ==
    ASSUME TypeOK, Deliver
    PROVE  TypeOK'
<1>1. CASE OnDataEvents
  <2>1. DataTyped'
    BY <1>1, TypeParts DEF OnDataEvents, DeliverData, DataTyped
  <2>2. QueueTyped'
    BY <1>1, TypeParts DEF OnDataEvents, QueueTyped, DataEvents
  <2>3. DsTyped' /\ PodsTyped' /\ BindTyped' /\ LocalTyped' /\ BudgetTyped'
    BY <1>1, TypeParts, UnchangedTyped DEF OnDataEvents
  <2> QED  BY <2>1, <2>2, <2>3, TypePartsNext
<1>2. CASE OnPodEvents
  <2>1. PodsTyped'
    BY <1>2, TypeParts DEF OnPodEvents, DeliverPods, PodsTyped
  <2>2. DsTyped' /\ DataTyped' /\ BindTyped' /\ LocalTyped' /\ BudgetTyped'
        /\ QueueTyped'
    BY <1>2, TypeParts, UnchangedTyped DEF OnPodEvents, dcVars
  <2> QED  BY <2>1, <2>2, TypePartsNext
<1>3. CASE OnBindingEvents
  <2>1. BindTyped'
    BY <1>3, TypeParts DEF OnBindingEvents, BindTyped, Accounts, Account
  <2>2. DsTyped' /\ DataTyped' /\ PodsTyped' /\ LocalTyped' /\ BudgetTyped'
        /\ QueueTyped'
    BY <1>3, TypeParts, UnchangedTyped DEF OnBindingEvents
  <2> QED  BY <2>1, <2>2, TypePartsNext
<1>4. ASSUME NEW d \in Names, Resync(d)  PROVE TypeOK'
  <2>1. QueueTyped'  BY <1>4, TypeParts DEF Resync, QueueTyped
  <2>2. DsTyped' /\ DataTyped' /\ PodsTyped' /\ BindTyped' /\ LocalTyped'
        /\ BudgetTyped'
    BY <1>4, TypeParts, UnchangedTyped DEF Resync
  <2> QED  BY <2>1, <2>2, TypePartsNext
<1> QED  BY <1>1, <1>2, <1>3, <1>4 DEF Deliver

LEMMA FailureTyped ==
    ASSUME TypeOK, Fault \/ Restart
    PROVE  TypeOK'
<1>1. CASE Fault
  <2>1. BudgetTyped'  BY <1>1, TypeParts, DisruptTyped DEF Fault
  <2>2. BindTyped'  BY <1>1, TypeParts, UnchangedTyped DEF Fault
  <2>3. pc # "idle" /\ Abort  BY <1>1 DEF Fault
  <2> QED  BY <2>1, <2>2, <2>3, AbortTyped, TypePartsNext
<1>2. CASE Restart
  <2>1. BudgetTyped'  BY <1>2, TypeParts, DisruptTyped DEF Restart
  <2>2. DsTyped'
    BY <1>2, TypeParts DEF Restart, Boot, Relist, DsTyped, DsHolders, storeVars
  <2>3. DataTyped'
    BY <1>2, TypeParts DEF Restart, Boot, Relist, DataTyped, DataHolders, storeVars
  <2>4. PodsTyped'
    BY <1>2, TypeParts DEF Restart, Boot, Relist, PodsTyped, PodHolders, storeVars
  <2>5. BindTyped'
    BY <1>2, TypeParts DEF Restart, Boot, BindTyped, Accounts, Account
  <2>6. LocalTyped' /\ QueueTyped'
    BY <1>2 DEF Restart, Boot, Idle, LocalTyped, QueueTyped
  <2> QED  BY <2>1, <2>2, <2>3, <2>4, <2>5, <2>6, TypePartsNext
<1> QED  BY <1>1, <1>2

(* A write to a Data by the environment.                                   *)
LEMMA OnlyDataTyped ==
    ASSUME TypeOK, DataTyped', BudgetTyped', UNCHANGED <<dsVars, podVars, dcVars>>
    PROVE  TypeOK'
<1>1. DsTyped' /\ PodsTyped' /\ BindTyped' /\ LocalTyped' /\ QueueTyped'
  BY TypeParts, UnchangedTyped DEF dcVars
<1> QED  BY <1>1, TypePartsNext

LEMMA EnvironmentTyped ==
    ASSUME TypeOK, Environment
    PROVE  TypeOK'
<1>1. ASSUME NEW p \in Pods, DataSetCreates(p)  PROVE TypeOK'
  <2>1. PICK t \in Templates : PutData("env", DataName(p), NewData(p, t, 1))
    BY <1>1 DEF DataSetCreates
  <2>2. NewData(p, t, 1) \in DataObject  BY DEF NewData, DataObject
  <2>3. DataName(p) \in Names  BY <1>1 DEF DataSetCreates, Names
  <2>4. DataTyped'  BY <2>1, <2>2, <2>3, TypeParts, PutDataTyped
  <2>5. BudgetTyped'  BY <1>1, TypeParts, UnchangedTyped DEF DataSetCreates
  <2> QED  BY <1>1, <2>4, <2>5, OnlyDataTyped DEF DataSetCreates
<1>2. ASSUME NEW p \in Pods, PodChurn(p)  PROVE TypeOK'
  <2>1. [digest |-> None] \in PodObject \cup {None}  BY DEF PodObject
  <2>2. fresh' \subseteq Pods
    BY <1>2, TypeParts DEF PodChurn, CreatePod, DeletePod, UpdatePod, PodsTyped
  <2>3. PodsTyped'
    <3>1. CASE UpdatePod(p)
      BY <3>1, <2>2, TypeParts DEF UpdatePod, PodsTyped
    <3>2. CASE CreatePod(p) \/ DeletePod(p)
      BY <3>2, <2>1, <2>2, TypeParts, PutPodTyped DEF CreatePod, DeletePod
    <3> QED  BY <1>2, <3>1, <3>2 DEF PodChurn
  <2>4. BudgetTyped'
    BY <1>2, TypeParts, DisruptTyped DEF PodChurn, CreatePod, DeletePod, UpdatePod
  <2>5. DsTyped' /\ DataTyped' /\ BindTyped' /\ LocalTyped' /\ QueueTyped'
    BY <1>2, TypeParts, UnchangedTyped DEF PodChurn, dcVars
  <2> QED  BY <2>3, <2>4, <2>5, TypePartsNext
<1>3. ASSUME NEW d \in Names, DataSetPrunes(d) \/ UserDeletes(d)  PROVE TypeOK'
  <2>1. DataTyped'
    BY <1>3, TypeParts, DeleteDataTyped DEF DataSetPrunes, UserDeletes
  <2>2. BudgetTyped'
    BY <1>3, TypeParts, DisruptTyped, UnchangedTyped DEF DataSetPrunes, UserDeletes
  <2> QED  BY <1>3, <2>1, <2>2, OnlyDataTyped DEF DataSetPrunes, UserDeletes
<1>4. ASSUME NEW d \in Names, NEW t \in Templates, DataSetUpdates(d, t)
      PROVE  TypeOK'
  <2>1. data[d] \in DataObject  BY <1>4, TypeParts DEF DataSetUpdates, DataTyped
  <2>2. [data[d] EXCEPT !.spec = t] \in DataObject  BY <2>1 DEF DataObject
  <2>3. DataTyped'  BY <1>4, <2>2, TypeParts, PutDataTyped DEF DataSetUpdates
  <2>4. BudgetTyped'  BY <1>4, TypeParts, DisruptTyped DEF DataSetUpdates
  <2> QED  BY <1>4, <2>3, <2>4, OnlyDataTyped DEF DataSetUpdates
<1>5. ASSUME NEW d \in Names, NEW ph \in ReportPhases, RuntimeReports(d, ph)
      PROVE  TypeOK'
  <2>1. data[d] \in DataObject /\ data[d].st \in Status
    BY <1>5, TypeParts DEF RuntimeReports, DataTyped, DataObject
  <2>2. PICK i \in Items(data[d].st.of) :
            PutData("env", d, [data[d] EXCEPT !.st.phase[i] = ph])
    BY <1>5 DEF RuntimeReports
  <2>3. PICK u \in Templates : data[d].st.phase \in [Items(u) -> Phases]
    BY <2>1 DEF Status
  <2>4. ph \in Phases  BY DataControllerAssumption
  <2>5. [data[d].st.phase EXCEPT ![i] = ph] \in [Items(u) -> Phases]
    BY <2>3, <2>4
  <2>6. [data[d].st EXCEPT !.phase[i] = ph] \in Status  BY <2>1, <2>5 DEF Status
  <2>7. [data[d] EXCEPT !.st.phase[i] = ph] \in DataObject
    BY <2>1, <2>6 DEF DataObject
  <2>8. DataTyped'  BY <2>2, <2>7, TypeParts, PutDataTyped
  <2>9. BudgetTyped'  BY <1>5, TypeParts, UnchangedTyped DEF RuntimeReports
  <2> QED  BY <1>5, <2>8, <2>9, OnlyDataTyped DEF RuntimeReports
<1> QED  BY <1>1, <1>2, <1>3, <1>4, <1>5 DEF Environment

LEMMA InitTyped == Init => TypeOK
<1> SUFFICES ASSUME Init PROVE TypeOK  OBVIOUS
<1>1. DsTyped  BY DEF Init, WorkerInit, ClusterInit, DsTyped, DsHolders
<1>2. DataTyped  BY DEF Init, WorkerInit, ClusterInit, DataTyped, DataHolders
<1>3. PodsTyped  BY DEF Init, WorkerInit, ClusterInit, PodsTyped, PodObject, PodHolders
<1>4. BudgetTyped  BY ClusterAssumption DEF Init, WorkerInit, ClusterInit, BudgetTyped
<1>5. BindTyped /\ LocalTyped /\ QueueTyped
  BY DEF Init, WorkerInit, BindTyped, LocalTyped, QueueTyped
<1> QED  BY <1>1, <1>2, <1>3, <1>4, <1>5, TypeParts

LEMMA NextTyped == TypeOK /\ [Next]_vars => TypeOK'
<1> SUFFICES ASSUME TypeOK, [Next]_vars PROVE TypeOK'  OBVIOUS
<1>1. CASE Next
  BY <1>1, WorkTyped, DeliverTyped, FailureTyped, EnvironmentTyped DEF Next
<1>2. CASE UNCHANGED vars
  BY <1>2, TypeParts, UnchangedTyped, TypePartsNext DEF vars, dcVars
<1> QED  BY <1>1, <1>2

(* The objects, the caches and the worker's copies always are what their   *)
(* types say, whatever the environment does (the Data controller never     *)
(* works on a copy it does not have).                                      *)
THEOREM TypeCorrect == Spec => []TypeOK
<1> QED  BY InitTyped, NextTyped, PTL DEF Spec

-----------------------------------------------------------------------------
(* The finalizer.  The guard is inductive only with what makes it true: a  *)
(* copy that is not behind is the object itself (so the API server refuses *)
(* a write made on an old one), and a pod that the cache does not know has *)
(* not been told anything by this worker, the only one that writes digests.*)

Bare(p) == pods[p] = None \/ pods[p].digest = None

DataInv ==
    /\ \A d \in Names : "cache" \notin lagData[d] => dataCache[d] = data[d]
    /\ pc # "idle" => ("data" \notin lagData[key] => data[key] = inst)
PodInv ==
    \A p \in Pods :
        /\ "cache" \notin lagPods[p] => podsCache[p] = pods[p]
        /\ "data" \notin lagPods[p] => pods[p] # None /\ podsCache[p] # None
        /\ podsCache[p] = None => Bare(p)
Clean == pc = "removeFinalizer" => Bare(pod)

FinalizerInv == DataInv /\ PodInv /\ Clean

LEMMA FinalizerInit == Init => FinalizerInv
BY DEF Init, WorkerInit, ClusterInit, FinalizerInv, DataInv, PodInv, Clean, Bare,
       PodHolders, DataHolders

(* A write to a Data keeps DataInv when its writer's copy, if it is the    *)
(* worker's, becomes what was written.                                     *)
LEMMA WriteDataKeeps ==
    ASSUME TypeOK, DataInv, NEW d \in Names, NEW obj, NEW w \in {"env", "data"},
           NEW bump \in BOOLEAN, obj # data[d] => bump, WriteData(w, d, obj, bump),
           \/ w = "env" /\ UNCHANGED <<pc, key, inst>>
           \/ w = "data" /\ d = key /\ pc # "idle" /\ key' = key /\ inst' = obj
    PROVE  DataInv'
<1>1. DataTyped  BY TypeParts
<1>2. \A e \in Names : "cache" \notin lagData'[e] => dataCache'[e] = data'[e]
  BY <1>1 DEF WriteData, Behind, DataInv, DataHolders, DataTyped
<1>3. pc' # "idle" => ("data" \notin lagData'[key'] => data'[key'] = inst')
  <2>1. CASE w = "env"
    <3>1. pc # "idle" => key \in Names  BY WorkingTyped
    <3> QED
      BY <1>1, <2>1, <3>1 DEF WriteData, Behind, DataInv, DataHolders, DataTyped
  <2>2. CASE w = "data"
    BY <1>1, <2>2 DEF WriteData, DataTyped
  <2> QED  BY <2>1, <2>2
<1> QED  BY <1>2, <1>3 DEF DataInv

LEMMA PutDataKeeps ==
    ASSUME TypeOK, DataInv, NEW d \in Names, NEW obj, NEW w \in {"env", "data"},
           PutData(w, d, obj),
           \/ w = "env" /\ UNCHANGED <<pc, key, inst>>
           \/ w = "data" /\ d = key /\ pc # "idle" /\ key' = key /\ inst' = obj
    PROVE  DataInv'
BY WriteDataKeeps DEF PutData

(* Writing a pod: the worker may set a digest on a pod whose copy it holds;*)
(* the environment creates pods without one and deletes them.              *)
LEMMA PutPodKeeps ==
    ASSUME TypeOK, PodInv, NEW p \in Pods, NEW obj, NEW w \in {"env", "data"},
           PutPod(w, p, obj),
           \/ w = "env" /\ obj \in {None, [digest |-> None]} /\ obj # pods[p]
           \/ w = "data" /\ PodCurrent /\ p = pod /\ obj # None
    PROVE  PodInv'
<1>1. PodsTyped  BY TypeParts
<1>2. ASSUME NEW q \in Pods
      PROVE  /\ "cache" \notin lagPods'[q] => podsCache'[q] = pods'[q]
             /\ "data" \notin lagPods'[q] => pods'[q] # None /\ podsCache'[q] # None
             /\ podsCache'[q] = None => (pods'[q] = None \/ pods'[q].digest = None)
  <2>1. CASE q # p
    BY <1>1, <2>1 DEF PutPod, PodInv, Bare, PodsTyped
  <2>2. CASE q = p /\ w = "env"
    BY <1>1, <2>2 DEF PutPod, Behind, PodInv, PodsTyped, PodHolders
  <2>3. CASE q = p /\ w = "data"
    BY <1>1, <2>3 DEF PutPod, Behind, PodInv, PodsTyped, PodHolders, PodCurrent,
                      Current
  <2> QED  BY <2>1, <2>2, <2>3
<1> QED  BY <1>2 DEF PodInv, Bare

LEMMA SameData ==
    ASSUME DataInv, UNCHANGED <<data, dataCache, lagData, key, inst>>,
           pc # "idle" \/ pc' = "idle"
    PROVE  DataInv'
BY DEF DataInv

LEMMA SamePods ==
    ASSUME PodInv, UNCHANGED <<pods, podsCache, lagPods>>
    PROVE  PodInv'
BY DEF PodInv, Bare

(* The end of a reconcile forgets the copies.                              *)
LEMMA DropKeeps ==
    ASSUME TypeOK, FinalizerInv, DropCopies, pc # "idle",
           \A d \in Names : "cache" \notin lagData'[d] => dataCache'[d] = data'[d]
    PROVE  FinalizerInv'
<1>1. PodsTyped  BY TypeParts
<1>2. pc' = "idle"  BY DEF DropCopies, Idle
<1>3. DataInv'  BY <1>2 DEF DataInv
<1>4. PodInv'
  BY <1>1 DEF DropCopies, FinalizerInv, PodInv, Bare, PodsTyped
<1> QED  BY <1>2, <1>3, <1>4 DEF FinalizerInv, Clean

LEMMA AbortKeeps ==
    ASSUME TypeOK, FinalizerInv, Abort, pc # "idle"
    PROVE  FinalizerInv'
<1>1. key \in Names /\ DataTyped  BY WorkingTyped, TypeParts
<1>2. \A d \in Names : "cache" \notin lagData'[d] => dataCache'[d] = data'[d]
  BY <1>1 DEF Abort, DropCopies, DropData, FinalizerInv, DataInv, DataTyped
<1> QED  BY <1>2, DropKeeps DEF Abort

LEMMA FinishKeeps ==
    ASSUME TypeOK, FinalizerInv, NEW obj, FinishWith(obj), pc # "idle"
    PROVE  FinalizerInv'
<1>1. key \in Names /\ DataTyped  BY WorkingTyped, TypeParts
<1>2. \A d \in Names : "cache" \notin lagData'[d] => dataCache'[d] = data'[d]
  BY <1>1
  DEF FinishWith, DropCopies, DropData, Behind, DataHolders, FinalizerInv,
      DataInv, DataTyped
<1> QED  BY <1>2, DropKeeps DEF FinishWith

LEMMA FinalizerWork ==
    ASSUME TypeOK, FinalizerInv, Work
    PROVE  FinalizerInv'
<1>0. DataInv /\ PodInv /\ Clean  BY DEF FinalizerInv
<1>1. ASSUME NEW d \in Names, GetDataGone(d)  PROVE FinalizerInv'
  <2>1. DataInv'
    BY <1>0, <1>1, SameData DEF GetDataGone, SameApi, dataVars, localVars
  <2>2. PodInv'  BY <1>0, <1>1, SamePods DEF GetDataGone, SameApi, podVars
  <2>3. Clean'  BY <1>1 DEF GetDataGone, localVars, Clean
  <2> QED  BY <2>1, <2>2, <2>3 DEF FinalizerInv
<1>2. ASSUME NEW d \in Names, GetData(d)  PROVE FinalizerInv'
  <2>1. DataInv'
    BY <1>0, <1>2, TypeParts DEF GetData, TakeData, CopyLag, DataInv, DataTyped
  <2>2. PodInv'  BY <1>0, <1>2, SamePods DEF GetData, podVars
  <2>3. Clean'  BY <1>2 DEF GetData, Clean
  <2> QED  BY <2>1, <2>2, <2>3 DEF FinalizerInv
<1>3. CASE GetPodGone
  <2>1. DataInv'
    BY <1>0, <1>3, SameData DEF GetPodGone, SameApi, SameKey, SameCopy, dataVars
  <2>2. PodInv'  BY <1>0, <1>3, SamePods DEF GetPodGone, SameApi, podVars
  <2>3. pod \in Pods  BY <1>3, WorkingTyped DEF GetPodGone
  <2>4. Bare(pod)  BY <1>0, <1>3, <2>3 DEF GetPodGone, PodInv
  <2>5. Clean'
    BY <1>3, <2>4 DEF GetPodGone, SameApi, SameCopy, podVars, Clean, Bare, pod
  <2> QED  BY <2>1, <2>2, <2>5 DEF FinalizerInv
<1>4. CASE GetPod
  <2>1. DataInv'
    BY <1>0, <1>4, SameData DEF GetPod, SameKey, dataVars
  <2>2. pod \in Pods  BY <1>4, WorkingTyped DEF GetPod
  <2>3. PodInv'
    BY <1>0, <1>4, <2>2, TypeParts
    DEF GetPod, TakePod, CopyLag, PodInv, Bare, PodsTyped
  <2>4. Clean'  BY <1>4 DEF GetPod, Clean
  <2> QED  BY <2>1, <2>3, <2>4 DEF FinalizerInv
<1>5. ASSUME NEW obj, NEW bump \in BOOLEAN, obj # data[key] => bump,
             WriteData("data", key, obj, bump), WriteStatus(obj), pc = "status"
      PROVE  FinalizerInv'
  <2>1. key \in Names  BY <1>5, WorkingTyped
  <2>2. DataInv'
    BY <1>0, <1>5, <2>1, WriteDataKeeps DEF WriteStatus, SameKey
  <2>3. PodInv'  BY <1>0, <1>5, SamePods DEF WriteStatus, podVars
  <2>4. Clean'  BY <1>5 DEF WriteStatus, Clean
  <2> QED  BY <2>2, <2>3, <2>4 DEF FinalizerInv
<1>6. CASE ResetStatus
  <2> DEFINE obj == [data[key] EXCEPT !.st = Default(inst.spec)]
  <2>1. PICK bump \in IF obj = data[key] THEN BOOLEAN ELSE {TRUE} :
            WriteData("data", key, obj, bump)
    BY <1>6 DEF ResetStatus
  <2>2. WriteStatus(obj) /\ pc = "status"  BY <1>6 DEF ResetStatus
  <2> HIDE DEF obj
  <2> QED  BY <1>5, <2>1, <2>2
<1>7. CASE PatchStatus
  <2> DEFINE obj == [data[key] EXCEPT !.st.sum =
                        MergePatch(@, OldSum(inst), LatestSum(inst))]
  <2>1. PutData("data", key, obj) /\ WriteStatus(obj) /\ pc = "status"
    BY <1>7 DEF PatchStatus
  <2> HIDE DEF obj
  <2>2. WriteData("data", key, obj, obj # data[key])  BY <2>1 DEF PutData
  <2> QED  BY <1>5, <2>1, <2>2
<1>8. ASSUME \/ StatusRejected \/ CreateRoleBinding \/ AnnotateRejected
             \/ StripRejected \/ FinalizerRejected
      PROVE  FinalizerInv'
  BY <1>8, AbortKeeps
  DEF StatusRejected, CreateRoleBinding, AnnotateRejected, StripRejected,
      FinalizerRejected
<1>9. ASSUME RoleBindingFound \/ AlreadyAnnotated  PROVE FinalizerInv'
  <2>1. DataInv'
    BY <1>0, <1>9, SameData
    DEF RoleBindingFound, AlreadyAnnotated, SameApi, SameKey, SameCopy, dataVars
  <2>2. PodInv'
    BY <1>0, <1>9, SamePods DEF RoleBindingFound, AlreadyAnnotated, SameApi, podVars
  <2>3. pc' # "removeFinalizer"
    BY <1>9 DEF RoleBindingFound, AlreadyAnnotated, AfterAnnotate
  <2> QED  BY <2>1, <2>2, <2>3 DEF FinalizerInv, Clean
<1>10. ASSUME NEW dig \in Tags \cup {None}, NEW next, WriteDigest(dig, next), pc # "idle",
              next = "removeFinalizer" => dig = None
       PROVE  FinalizerInv'
  <2>1. pod \in Pods  BY <1>10, WorkingTyped
  <2>2. DataInv'  BY <1>0, <1>10, SameData DEF WriteDigest, SameKey, dataVars
  <2>3. PutPod("data", pod, [digest |-> dig]) /\ PodCurrent /\ pc' = next
        /\ inst' = inst
    BY <1>10 DEF WriteDigest
  <2>4. [digest |-> dig] \in PodObject  BY DEF PodObject, Tags
  <2>5. [digest |-> dig] # None  BY <2>4, NoneAssumption
  <2>6. PodInv'  BY <1>0, <2>1, <2>3, <2>5, PutPodKeeps
  <2>7. Clean'
    BY <1>10, <2>1, <2>3, TypeParts DEF Clean, Bare, PutPod, PodsTyped, pod
  <2> QED  BY <2>2, <2>6, <2>7 DEF FinalizerInv
<1>11. CASE Annotate
  <2>1. AfterAnnotate # "removeFinalizer"  BY DEF AfterAnnotate
  <2>2. tag \in Tags  BY <1>11, WorkingTyped DEF Annotate
  <2> QED  BY <1>11, <1>10, <2>1, <2>2 DEF Annotate
<1>12. CASE Strip  BY <1>12, <1>10 DEF Strip
<1>13. CASE StripGone
  <2>1. DataInv'
    BY <1>0, <1>13, SameData DEF StripGone, SameApi, SameKey, SameCopy, dataVars
  <2>2. PodInv'  BY <1>0, <1>13, SamePods DEF StripGone, SameApi, podVars
  <2>3. Clean'
    BY <1>13 DEF StripGone, SameApi, SameCopy, podVars, Clean, Bare, pod
  <2> QED  BY <2>1, <2>2, <2>3 DEF FinalizerInv
<1>14. ASSUME RemoveFinalizer \/ AddFinalizer \/ Done  PROVE FinalizerInv'
  BY <1>14, FinishKeeps DEF RemoveFinalizer, AddFinalizer, Done
<1> QED
  BY <1>1, <1>2, <1>3, <1>4, <1>6, <1>7, <1>8, <1>9, <1>11, <1>12, <1>13, <1>14
  DEF Work

LEMMA FinalizerDeliver ==
    ASSUME TypeOK, FinalizerInv, Deliver
    PROVE  FinalizerInv'
<1>0. DataInv /\ PodInv /\ Clean /\ DataTyped /\ PodsTyped
  BY TypeParts DEF FinalizerInv
<1>1. CASE OnDataEvents
  <2>0. pc # "idle" => key \in Names  BY WorkingTyped
  <2>1. DataInv'
    BY <1>0, <1>1, <2>0 DEF OnDataEvents, DeliverData, DataInv, DataTyped, localVars
  <2>2. PodInv'  BY <1>0, <1>1, SamePods DEF OnDataEvents, podVars
  <2>3. Clean'
    BY <1>0, <1>1 DEF OnDataEvents, localVars, podVars, Clean, Bare, pod
  <2> QED  BY <2>1, <2>2, <2>3 DEF FinalizerInv
<1>2. CASE OnPodEvents
  <2>1. DataInv'
    BY <1>0, <1>2 DEF OnPodEvents, dataVars, dcVars, localVars, DataInv
  <2>2. PodInv'
    BY <1>0, <1>2 DEF OnPodEvents, DeliverPods, PodInv, Bare, PodsTyped
  <2>3. Clean'
    BY <1>0, <1>2 DEF OnPodEvents, DeliverPods, dcVars, localVars, Clean, Bare, pod
  <2> QED  BY <2>1, <2>2, <2>3 DEF FinalizerInv
<1>3. CASE OnBindingEvents \/ \E d \in Names : Resync(d)
  <2>0. UNCHANGED <<dataVars, podVars, localVars>>
    BY <1>3 DEF OnBindingEvents, Resync
  <2>1. DataInv'  BY <1>0, <2>0 DEF dataVars, localVars, DataInv
  <2>2. PodInv'  BY <1>0, <2>0, SamePods DEF podVars
  <2>3. Clean'  BY <1>0, <2>0 DEF localVars, podVars, Clean, Bare, pod
  <2> QED  BY <2>1, <2>2, <2>3 DEF FinalizerInv
<1> QED  BY <1>1, <1>2, <1>3 DEF Deliver

LEMMA BootFinalizer == Boot => FinalizerInv'
<1> SUFFICES ASSUME Boot PROVE FinalizerInv'  OBVIOUS
<1>1. pc' = "idle" /\ data' = data /\ pods' = pods /\ dataCache' = data
      /\ podsCache' = pods /\ lagPods' = [p \in Pods |-> PodHolders \ {"cache"}]
  BY DEF Boot, Relist, Idle, storeVars
<1>2. DataInv'  BY <1>1 DEF DataInv
<1>3. PodInv'  BY <1>1 DEF PodInv, Bare, PodHolders
<1> QED  BY <1>1, <1>2, <1>3 DEF FinalizerInv, Clean

LEMMA FinalizerFailure ==
    ASSUME TypeOK, FinalizerInv, Fault \/ Restart
    PROVE  FinalizerInv'
BY AbortKeeps, BootFinalizer DEF Fault, Restart

LEMMA FinalizerEnvironment ==
    ASSUME TypeOK, FinalizerInv, Environment
    PROVE  FinalizerInv'
<1>0. DataInv /\ PodInv /\ Clean /\ DataTyped /\ PodsTyped
  BY TypeParts DEF FinalizerInv
<1>1. ASSUME NEW d \in Names, NEW obj, PutData("env", d, obj),
             UNCHANGED <<podVars, dcVars>>
      PROVE  FinalizerInv'
  <2>1. DataInv'  BY <1>0, <1>1, PutDataKeeps DEF dcVars, localVars
  <2>2. PodInv'  BY <1>0, <1>1, SamePods DEF podVars
  <2>3. Clean'  BY <1>0, <1>1 DEF podVars, dcVars, localVars, Clean, Bare, pod
  <2> QED  BY <2>1, <2>2, <2>3 DEF FinalizerInv
<1>2. ASSUME NEW p \in Pods, DataSetCreates(p)  PROVE FinalizerInv'
  <2>1. DataName(p) \in Names  BY <1>2 DEF DataSetCreates, Names
  <2> QED  BY <1>1, <1>2, <2>1 DEF DataSetCreates
<1>3. ASSUME NEW p \in Pods, PodChurn(p)  PROVE FinalizerInv'
  <2>1. DataInv'
    BY <1>0, <1>3 DEF PodChurn, dataVars, dcVars, localVars, DataInv
  <2>2. [digest |-> None] \in PodObject  BY DEF PodObject
  <2>3. [digest |-> None] # None  BY <2>2, NoneAssumption
  <2>4. CASE CreatePod(p) \/ DeletePod(p)
    <3>1. PICK obj \in {None, [digest |-> None]} :
              PutPod("env", p, obj) /\ obj # pods[p]
      BY <2>3, <2>4 DEF CreatePod, DeletePod
    <3>2. PodInv'  BY <1>0, <3>1, PutPodKeeps
    <3>3. Clean'
      BY <1>0, <1>3, <3>1
      DEF PodChurn, PutPod, dcVars, localVars, Clean, Bare, pod, PodsTyped
    <3> QED  BY <2>1, <3>2, <3>3 DEF FinalizerInv
  <2>5. CASE UpdatePod(p)
    <3>1. PodInv'
      BY <1>0, <2>5 DEF UpdatePod, PodInv, Bare, PodsTyped, PodHolders
    <3>2. Clean'
      BY <1>0, <1>3, <2>5
      DEF PodChurn, UpdatePod, dcVars, localVars, Clean, Bare, pod
    <3> QED  BY <2>1, <3>1, <3>2 DEF FinalizerInv
  <2> QED  BY <1>3, <2>4, <2>5 DEF PodChurn
<1>4. ASSUME NEW d \in Names, DataSetPrunes(d) \/ UserDeletes(d)
      PROVE  FinalizerInv'
  BY <1>1, <1>4 DEF DataSetPrunes, UserDeletes, DeleteData
<1>5. ASSUME NEW d \in Names, NEW t \in Templates, DataSetUpdates(d, t)
      PROVE  FinalizerInv'
  BY <1>1, <1>5 DEF DataSetUpdates
<1>6. ASSUME NEW d \in Names, NEW ph \in ReportPhases, RuntimeReports(d, ph)
      PROVE  FinalizerInv'
  <2>1. PICK i : PutData("env", d, [data[d] EXCEPT !.st.phase[i] = ph])
    BY <1>6 DEF RuntimeReports
  <2> QED  BY <1>1, <1>6, <2>1 DEF RuntimeReports
<1> QED  BY <1>2, <1>3, <1>4, <1>5, <1>6 DEF Environment

LEMMA FinalizerNext == TypeOK /\ FinalizerInv /\ [Next]_vars => FinalizerInv'
<1> SUFFICES ASSUME TypeOK, FinalizerInv, [Next]_vars PROVE FinalizerInv'
  OBVIOUS
<1>1. CASE Next
  BY <1>1, FinalizerWork, FinalizerDeliver, FinalizerFailure, FinalizerEnvironment
  DEF Next
<1>2. CASE UNCHANGED vars
  BY <1>2
  DEF vars, dataVars, podVars, dcVars, localVars, FinalizerInv, DataInv, PodInv,
      Clean, Bare, pod
<1> QED  BY <1>1, <1>2

(* What FinalizerGuards says of one step.                                  *)
Guarded(d) ==
    (/\ data[d] # None /\ data[d].fin
     /\ data'[d] = None \/ ~data'[d].fin)
    => \/ pods[data[d].pod] = None
       \/ pods[data[d].pod].digest = None

(* A write that keeps the finalizer, or writes another Data, is guarded.   *)
LEMMA WriteGuarded ==
    ASSUME TypeOK, NEW d \in Names, NEW e \in Names, NEW obj,
           data' = [data EXCEPT ![e] = obj],
           data[e] \in DataObject /\ data[e].fin => obj \in DataObject /\ obj.fin
    PROVE  Guarded(d)
<1>1. DataTyped  BY TypeParts
<1>2. CASE d # e  BY <1>1, <1>2, NoneAssumption DEF Guarded, DataTyped
<1>3. CASE d = e
  <2>1. data'[d] = obj  BY <1>1, <1>3 DEF DataTyped
  <2>2. data[d] # None => data[d] \in DataObject  BY <1>1 DEF DataTyped
  <2> QED  BY <1>3, <2>1, <2>2, NoneAssumption DEF Guarded
<1> QED  BY <1>2, <1>3

LEMMA UnwrittenGuarded ==
    ASSUME TypeOK, NEW d \in Names, UNCHANGED data
    PROVE  Guarded(d)
BY TypeParts, NoneAssumption DEF Guarded, DataTyped

LEMMA WorkGuarded ==
    ASSUME TypeOK, FinalizerInv, Work, NEW d \in Names
    PROVE  Guarded(d)
<1>0. DataInv /\ Clean  BY DEF FinalizerInv
<1>1. ASSUME UNCHANGED data  PROVE Guarded(d)  BY <1>1, UnwrittenGuarded
<1>2. CASE \/ \E e \in Names : GetData(e) \/ GetDataGone(e)
           \/ GetPod \/ GetPodGone
  BY <1>1, <1>2
  DEF GetData, GetDataGone, TakeData, GetPod, GetPodGone, SameApi, dataVars
<1>3. CASE ResetStatus
  <2> DEFINE obj == [data[key] EXCEPT !.st = Default(inst.spec)]
  <2>1. key \in Names  BY <1>3, WorkingTyped DEF ResetStatus
  <2>2. data' = [data EXCEPT ![key] = obj]  BY <1>3 DEF ResetStatus, WriteData
  <2>3. inst.spec \in Templates  BY <1>3, WorkingTyped DEF ResetStatus
  <2>4. data[key] \in DataObject /\ data[key].fin => obj \in DataObject /\ obj.fin
    BY <2>3, DefaultType DEF DataObject
  <2> HIDE DEF obj
  <2> QED  BY <2>1, <2>2, <2>4, WriteGuarded
<1>4. CASE PatchStatus
  <2> DEFINE sum == MergePatch(data[key].st.sum, OldSum(inst), LatestSum(inst))
             obj == [data[key] EXCEPT !.st.sum = sum]
  <2>1. key \in Names /\ inst \in DataObject
    BY <1>4, WorkingTyped DEF PatchStatus
  <2>2. data' = [data EXCEPT ![key] = obj]
    BY <1>4 DEF PatchStatus, PutData, WriteData
  <2>3. data[key] \in DataObject => data[key].st \in Status
    BY <1>4 DEF PatchStatus, PatchAccepted, DataObject
  <2>4. data[key] \in DataObject => sum \in [Fields -> Nat]
    BY <2>1, <2>3, LatestSumType DEF MergePatch, Status
  <2>5. data[key] \in DataObject => [data[key].st EXCEPT !.sum = sum] \in Status
    <3> HIDE DEF sum
    <3> QED  BY <2>3, <2>4 DEF Status
  <2>6. data[key] \in DataObject /\ data[key].fin => obj \in DataObject /\ obj.fin
    <3> HIDE DEF sum
    <3> QED  BY <2>5 DEF DataObject
  <2> HIDE DEF obj
  <2> QED  BY <2>1, <2>2, <2>6, WriteGuarded
<1>5. CASE \/ StatusRejected \/ CreateRoleBinding \/ AnnotateRejected
           \/ StripRejected \/ FinalizerRejected
  BY <1>1, <1>5
  DEF StatusRejected, CreateRoleBinding, AnnotateRejected, StripRejected,
      FinalizerRejected, Abort
<1>6. CASE RoleBindingFound \/ AlreadyAnnotated \/ StripGone
  BY <1>1, <1>6
  DEF RoleBindingFound, AlreadyAnnotated, StripGone, SameApi, dataVars
<1>7. CASE Annotate \/ Strip
  BY <1>1, <1>7 DEF Annotate, Strip, WriteDigest, dataVars
<1>8. CASE RemoveFinalizer
  <2>1. key \in Names /\ data[key] = inst
    BY <1>0, <1>8, WorkingTyped DEF RemoveFinalizer, InstCurrent, Current, DataInv
  <2>2. Bare(pod)  BY <1>0, <1>8 DEF RemoveFinalizer, Clean
  <2>3. CASE d = key  BY <2>1, <2>2, <2>3 DEF Guarded, Bare, pod
  <2>4. CASE d # key
    BY <1>8, <2>1, <2>4, TypeParts, NoneAssumption
    DEF RemoveFinalizer, FinishWith, Guarded, DataTyped
  <2> QED  BY <2>3, <2>4
<1>9. CASE AddFinalizer
  <2> DEFINE obj == [data[key] EXCEPT !.fin = TRUE]
  <2>1. key \in Names  BY <1>9, WorkingTyped DEF AddFinalizer
  <2>2. data' = [data EXCEPT ![key] = obj]  BY <1>9 DEF AddFinalizer, FinishWith
  <2>3. data[key] \in DataObject => obj \in DataObject /\ obj.fin
    BY DEF DataObject
  <2> HIDE DEF obj
  <2> QED  BY <2>1, <2>2, <2>3, WriteGuarded
<1>10. CASE Done
  <2>1. key \in Names  BY <1>10, WorkingTyped DEF Done
  <2>2. data' = [data EXCEPT ![key] = data[key]]  BY <1>10 DEF Done, FinishWith
  <2> QED  BY <2>1, <2>2, WriteGuarded
<1> QED
  BY <1>2, <1>3, <1>4, <1>5, <1>6, <1>7, <1>8, <1>9, <1>10 DEF Work

LEMMA EnvironmentGuarded ==
    ASSUME TypeOK, Environment, NEW d \in Names
    PROVE  Guarded(d)
<1>0. DataTyped  BY TypeParts
<1>1. ASSUME NEW p \in Pods, DataSetCreates(p)  PROVE Guarded(d)
  <2>1. PICK t \in Templates : data' = [data EXCEPT ![DataName(p)] = NewData(p, t, 1)]
    BY <1>1 DEF DataSetCreates, PutData, WriteData
  <2>2. DataName(p) \in Names /\ data[DataName(p)] \notin DataObject
    BY <1>1, NoneAssumption DEF DataSetCreates, Names
  <2> QED  BY <2>1, <2>2, WriteGuarded
<1>2. ASSUME NEW p \in Pods, PodChurn(p)  PROVE Guarded(d)
  BY <1>2, UnwrittenGuarded DEF PodChurn, dataVars
<1>3. ASSUME NEW e \in Names, DataSetPrunes(e) \/ UserDeletes(e)  PROVE Guarded(d)
  <2> DEFINE obj == IF data[e].fin THEN [data[e] EXCEPT !.del = TRUE] ELSE None
  <2>1. data' = [data EXCEPT ![e] = obj]
    BY <1>3 DEF DataSetPrunes, UserDeletes, DeleteData, PutData, WriteData
  <2>2. data[e] \in DataObject /\ data[e].fin => obj \in DataObject /\ obj.fin
    BY DEF DataObject
  <2> HIDE DEF obj
  <2> QED  BY <2>1, <2>2, WriteGuarded
<1>4. ASSUME NEW e \in Names, NEW t \in Templates, DataSetUpdates(e, t)
      PROVE  Guarded(d)
  <2> DEFINE obj == [data[e] EXCEPT !.spec = t]
  <2>1. data' = [data EXCEPT ![e] = obj]
    BY <1>4 DEF DataSetUpdates, PutData, WriteData
  <2>2. data[e] \in DataObject /\ data[e].fin => obj \in DataObject /\ obj.fin
    BY DEF DataObject
  <2> HIDE DEF obj
  <2> QED  BY <2>1, <2>2, WriteGuarded
<1>5. ASSUME NEW e \in Names, NEW ph \in ReportPhases, RuntimeReports(e, ph)
      PROVE  Guarded(d)
  <2>1. PICK i \in Items(data[e].st.of) :
            data' = [data EXCEPT ![e] = [data[e] EXCEPT !.st.phase[i] = ph]]
    BY <1>5 DEF RuntimeReports, PutData, WriteData
  <2>2. data[e] \in DataObject /\ data[e].st \in Status
    BY <1>0, <1>5 DEF RuntimeReports, DataTyped, DataObject
  <2>3. PICK u \in Templates : data[e].st.phase \in [Items(u) -> Phases]
    BY <2>2 DEF Status
  <2>4. [data[e].st.phase EXCEPT ![i] = ph] \in [Items(u) -> Phases]
    BY <2>3, DataControllerAssumption
  <2>5. [data[e].st EXCEPT !.phase[i] = ph] \in Status  BY <2>2, <2>4 DEF Status
  <2> DEFINE obj == [data[e] EXCEPT !.st.phase[i] = ph]
  <2>6. data[e].fin => obj \in DataObject /\ obj.fin
    BY <2>2, <2>5 DEF DataObject
  <2>7. data' = [data EXCEPT ![e] = obj]  BY <2>1
  <2> HIDE DEF obj
  <2> QED  BY <2>6, <2>7, WriteGuarded
<1> QED  BY <1>1, <1>2, <1>3, <1>4, <1>5 DEF Environment

LEMMA StepGuarded ==
    TypeOK /\ FinalizerInv /\ [Next]_vars => [\A d \in Names : Guarded(d)]_vars
<1> SUFFICES ASSUME TypeOK, FinalizerInv, Next, NEW d \in Names
             PROVE  Guarded(d)
  OBVIOUS
<1>1. CASE Work  BY <1>1, WorkGuarded
<1>2. CASE Deliver
  BY <1>2, UnwrittenGuarded
  DEF Deliver, OnDataEvents, DeliverData, OnPodEvents, OnBindingEvents, Resync,
      dataVars
<1>3. CASE Fault \/ Restart
  BY <1>3, UnwrittenGuarded DEF Fault, Abort, Restart, Boot, Relist, storeVars
<1>4. CASE Environment  BY <1>4, EnvironmentGuarded
<1> QED  BY <1>1, <1>2, <1>3, <1>4 DEF Next

(* A step of others leaves the worker its copies, behind or as they are.   *)
LEMMA OthersTyped ==
    ASSUME TypeOK, ClusterTypeOK', UNCHANGED dcVars
    PROVE  TypeOK'
<1>1. BindTyped' /\ LocalTyped' /\ QueueTyped'
  BY TypeParts, UnchangedTyped DEF dcVars
<1> QED
  BY <1>1, TypePartsNext DEF ClusterTypeOK, DsTyped, DataTyped, PodsTyped, BudgetTyped

LEMMA OthersKeep ==
    ASSUME TypeOK, FinalizerInv, ForeignWrites, UNCHANGED <<podVars, dcVars>>
    PROVE  FinalizerInv' /\ \A d \in Names : Guarded(d)
<1>0. DataInv /\ PodInv /\ Clean /\ DataTyped
  BY TypeParts DEF FinalizerInv
<1>1. pc # "idle" => key \in Names  BY WorkingTyped
<1>2. DataInv'
  BY <1>0, <1>1 DEF ForeignWrites, DataInv, dcVars, localVars
<1>3. PodInv'  BY <1>0, SamePods DEF podVars
<1>4. Clean'  BY <1>0 DEF podVars, dcVars, localVars, Clean, Bare, pod
<1>5. \A d \in Names : Guarded(d)  BY DEF ForeignWrites, Guarded
<1> QED  BY <1>2, <1>3, <1>4, <1>5 DEF FinalizerInv

(* A start of the process, whatever ended the one before.                  *)
LEMMA BootKeeps ==
    ASSUME TypeOK, ClusterTypeOK', Boot
    PROVE  TypeOK' /\ FinalizerInv' /\ \A d \in Names : Guarded(d)
<1>1. BindTyped'  BY TypeParts DEF Boot, BindTyped, Accounts, Account
<1>2. LocalTyped' /\ QueueTyped'  BY DEF Boot, Idle, LocalTyped, QueueTyped
<1>3. TypeOK'
  BY <1>1, <1>2, TypePartsNext
  DEF ClusterTypeOK, DsTyped, DataTyped, PodsTyped, BudgetTyped
<1>4. FinalizerInv'  BY BootFinalizer
<1>5. \A d \in Names : Guarded(d)
  BY UnwrittenGuarded DEF Boot, Relist, storeVars
<1> QED  BY <1>3, <1>4, <1>5

(* The finalizer leaves a Data only when its pod is gone or carries no     *)
(* digest: for any pods, names (colliding ones too), templates, stale      *)
(* caches, failures and restarts.                                          *)
THEOREM FinalizerGuarded == Spec => FinalizerGuards
<1>1. Init => TypeOK /\ FinalizerInv  BY InitTyped, FinalizerInit
<1>2. TypeOK /\ FinalizerInv /\ [Next]_vars => (TypeOK /\ FinalizerInv)'
  BY NextTyped, FinalizerNext
<1>3. TypeOK /\ FinalizerInv /\ [Next]_vars
      => [\A d \in Names :
             (/\ data[d] # None /\ data[d].fin
              /\ data'[d] = None \/ ~data'[d].fin)
             => \/ pods[data[d].pod] = None
                \/ pods[data[d].pod].digest = None]_vars
  BY StepGuarded DEF Guarded
<1> QED  BY <1>1, <1>2, <1>3, PTL DEF Spec, FinalizerGuards

=============================================================================
