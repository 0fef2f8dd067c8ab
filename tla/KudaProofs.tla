------------------------------ MODULE KudaProofs ------------------------------
(***************************************************************************)
(* Proofs about the manager process.  What is proved of each controller    *)
(* with the other one as its environment is used here, where the other one *)
(* is there: P and S are the two modules of proofs, about the same actions *)
(* as DC and SC.                                                           *)
(***************************************************************************)
EXTENDS Kuda, FiniteSetTheorems, TLAPS

P == INSTANCE DataSettledProofs
S == INSTANCE DataSetControllerProofs

-----------------------------------------------------------------------------
(* The instances have one meaning *)

LEMMA SameConstants ==
    /\ DC!Names = Names /\ P!Names = Names /\ SC!Names = Names /\ S!Names = Names
    /\ DC!Fields = Fields /\ P!Fields = Fields
BY DEF
    Names, DC!Names, P!Names, SC!Names, S!Names, DataName, DC!DataName,
    P!DataName, SC!DataName, S!DataName, Nameable, DC!Nameable, P!Nameable,
    SC!Nameable, S!Nameable,
    Fields, DC!Fields, P!Fields, Phases, DC!Phases, P!Phases

LEMMA SameObjects ==
    /\ P!Phases = Phases /\ S!Phases = Phases
    /\ P!Disruptions = Disruptions /\ S!Disruptions = Disruptions
    /\ P!Status = Status /\ S!Status = Status
    /\ P!DataObject = DataObject /\ S!DataObject = DataObject
    /\ P!PodObject = PodObject /\ S!PodObject = PodObject
    /\ P!DSObject = DSObject /\ S!DSObject = DSObject
<1>1. /\ P!Phases = Phases /\ S!Phases = Phases
      /\ P!Disruptions = Disruptions /\ S!Disruptions = Disruptions
  BY DEF
    Phases, P!Phases, S!Phases, Disruptions, P!Disruptions, S!Disruptions
<1>2. P!Fields = Fields /\ S!Fields = Fields
  BY <1>1 DEF Fields, P!Fields, S!Fields
<1>3. P!Status = Status /\ S!Status = Status
  BY <1>1, <1>2 DEF
    Status, P!Status, S!Status, Items, P!Items, S!Items
<1> QED
  BY <1>1, <1>3 DEF
    DataObject, P!DataObject, S!DataObject, PodObject, P!PodObject,
    S!PodObject, DSObject, P!DSObject, S!DSObject, DSStatus, P!DSStatus,
    S!DSStatus

LEMMA Assumed ==
    /\ Segments \in [Pods -> Seq(STRING)]
    /\ NumItems \in [Templates -> Nat]
    /\ \A s, t \in Templates : Digest[s] = Digest[t] => s = t
    /\ \A t \in Templates : Digest[t] # None
    /\ MaxDisruptions \in Nat
    /\ Allowed \subseteq P!Disruptions /\ Allowed \subseteq S!Disruptions
    /\ None \notin P!Names \cup P!DataObject \cup P!PodObject \cup P!DSObject
                   \cup P!Status
    /\ None \notin S!Names \cup S!DataObject \cup S!PodObject \cup S!DSObject
                   \cup S!Status
    /\ ReportPhases \subseteq P!Phases \ {"waiting"}
    /\ Injected \subseteq Pods /\ IsFiniteSet(Pods) /\ S!IsFiniteSet(Pods)
<1>1. S!IsFiniteSet(Pods)
  BY KudaAssumption, Zenon DEF KudaAssumption, IsFiniteSet, S!IsFiniteSet
<1> QED
  BY <1>1, SameConstants, SameObjects, ClusterAssumption, NoneAssumption,
     KudaAssumption

(* Each instance has its own copy of the counting operator.                *)
LEMMA SameCardinality ==
    \A T : /\ DC!Cardinality(T) = Cardinality(T)
           /\ P!Cardinality(T) = Cardinality(T)
           /\ SC!Cardinality(T) = Cardinality(T)
           /\ S!Cardinality(T) = Cardinality(T)
BY Zenon DEF Cardinality, DC!Cardinality, P!Cardinality, SC!Cardinality,
             S!Cardinality

(* The statuses that the controllers write.                                *)
LEMMA SameTally ==
    ASSUME NEW phase, NEW n
    PROVE  DC!Tally(phase, n) = P!Tally(phase, n)
BY SameConstants, SameCardinality, Zenon DEF DC!Tally, P!Tally

LEMMA SameStatuses ==
    /\ \A t : DC!Default(t) = P!Default(t)
    /\ \A d : DC!LatestSum(d) = P!LatestSum(d)
    /\ SC!NewStatus = S!NewStatus
<1>1. \A t : DC!Default(t) = P!Default(t)
  BY SameTally, Zenon DEF DC!Default, P!Default, DC!Listing, P!Listing, DC!Items,
                          P!Items
<1>2. \A d : DC!LatestSum(d) = P!LatestSum(d)
  BY SameTally, Zenon DEF DC!LatestSum, P!LatestSum
<1>3. {d \in DOMAIN dataList : SC!Success(dataList[d]) = NumItems[set.spec]}
      = {d \in DOMAIN dataList : S!Success(dataList[d]) = NumItems[set.spec]}
  BY DEF SC!Success, S!Success
<1>4. SC!NewStatus = S!NewStatus
  BY <1>3, SameCardinality DEF SC!NewStatus, S!NewStatus
<1> QED  BY <1>1, <1>2, <1>4

(* The steps.                                                              *)
LEMMA SameDataWork == DC!Work <=> P!Work
BY SameConstants, SameStatuses DEF
    DC!Work, P!Work, DC!GetData, P!GetData, DC!GetDataGone, P!GetDataGone,
    DC!GetPod, P!GetPod, DC!GetPodGone, P!GetPodGone, DC!ResetStatus,
    P!ResetStatus, DC!PatchStatus, P!PatchStatus, DC!StatusRejected,
    P!StatusRejected, DC!RoleBindingFound, P!RoleBindingFound,
    DC!CreateRoleBinding, P!CreateRoleBinding, DC!Annotate, P!Annotate,
    DC!AlreadyAnnotated, P!AlreadyAnnotated, DC!AnnotateRejected,
    P!AnnotateRejected, DC!Strip, P!Strip, DC!StripGone, P!StripGone,
    DC!StripRejected, P!StripRejected, DC!RemoveFinalizer, P!RemoveFinalizer,
    DC!AddFinalizer, P!AddFinalizer, DC!FinalizerRejected,
    P!FinalizerRejected, DC!Done, P!Done, DC!TakeData, P!TakeData, DC!podVars,
    P!podVars, DC!bindVars, P!bindVars, DC!Rest, P!Rest, DC!localVars,
    P!localVars, DC!SameApi, P!SameApi, DC!PodReadable, P!PodReadable, DC!pod,
    P!pod, DC!TakePod, P!TakePod, DC!dataVars, P!dataVars, DC!SameKey,
    P!SameKey, DC!SameCopy, P!SameCopy, DC!ResetNeeded, P!ResetNeeded,
    DC!InstCurrent, P!InstCurrent, DC!WriteData, P!WriteData, DC!WriteStatus,
    P!WriteStatus, DC!PatchAccepted, P!PatchAccepted, DC!MergePatch,
    P!MergePatch, DC!OldSum, P!OldSum, DC!PutData, P!PutData, DC!Abort,
    P!Abort, DC!Account, P!Account, DC!WriteDigest, P!WriteDigest,
    DC!AfterAnnotate, P!AfterAnnotate, DC!PodCurrent, P!PodCurrent,
    DC!FinishWith, P!FinishWith, DC!CopyLag, P!CopyLag, DC!dsVars, P!dsVars,
    DC!Current, P!Current, DC!Behind, P!Behind, DC!DataHolders, P!DataHolders,
    DC!NoSum, P!NoSum, DC!DropCopies, P!DropCopies, DC!DropData, P!DropData,
    DC!PutPod, P!PutPod, DC!Idle, P!Idle, DC!PodHolders, P!PodHolders

LEMMA SameDataSteps ==
    /\ DC!Fault <=> P!Fault
    /\ DC!Boot <=> P!Boot
    /\ DC!OnDataEvents <=> P!OnDataEvents
    /\ DC!OnPodEvents <=> P!OnPodEvents
    /\ DC!OnBindingEvents <=> P!OnBindingEvents
    /\ \A d : DC!Resync(d) <=> P!Resync(d)
    /\ \A d, ph : DC!RuntimeReports(d, ph) <=> P!RuntimeReports(d, ph)
    /\ DC!WorkerInit <=> P!WorkerInit
BY SameConstants DEF
    DC!Fault, P!Fault, DC!Boot, P!Boot, DC!OnDataEvents, P!OnDataEvents,
    DC!OnPodEvents, P!OnPodEvents, DC!OnBindingEvents, P!OnBindingEvents,
    DC!Resync, P!Resync, DC!Resyncs, P!Resyncs,
    DC!RuntimeReports, P!RuntimeReports, DC!WorkerInit, P!WorkerInit,
    DC!Disrupt, P!Disrupt, DC!Abort, P!Abort, DC!bindVars, P!bindVars,
    DC!Idle, P!Idle, DC!Relist, P!Relist, DC!DeliverData, P!DeliverData,
    DC!DataEvents, P!DataEvents, DC!dsVars, P!dsVars, DC!podVars, P!podVars,
    DC!localVars, P!localVars, DC!DeliverPods, P!DeliverPods, DC!dataVars,
    P!dataVars, DC!dcVars, P!dcVars, DC!pod, P!pod, DC!Items, P!Items,
    DC!PutData, P!PutData, DC!DropCopies, P!DropCopies, DC!DropData,
    P!DropData, DC!DsHolders, P!DsHolders, DC!DataHolders, P!DataHolders,
    DC!PodHolders, P!PodHolders, DC!storeVars, P!storeVars, DC!PodEvents,
    P!PodEvents, DC!WriteData, P!WriteData, DC!Behind, P!Behind

LEMMA SameDataSetWork == SC!Work <=> S!Work
BY SameConstants, SameStatuses DEF
    SC!Work, S!Work, SC!GetDataSet, S!GetDataSet, SC!GetDataSetGone,
    S!GetDataSetGone, SC!ListPods, S!ListPods, SC!ListData, S!ListData,
    SC!KeepData, S!KeepData, SC!UpdateData, S!UpdateData, SC!UpdateRejected,
    S!UpdateRejected, SC!CreateData, S!CreateData, SC!DataExists,
    S!DataExists, SC!UnnameablePod, S!UnnameablePod, SC!PruneData,
    S!PruneData, SC!UpdateStatus, S!UpdateStatus, SC!StatusRejected,
    S!StatusRejected, SC!TakeDs, S!TakeDs, SC!dataVars, S!dataVars,
    SC!podVars, S!podVars, SC!dsVars, S!dsVars, SC!localVars, S!localVars,
    SC!Existing, S!Existing, SC!Reads, S!Reads, SC!DataReadable,
    S!DataReadable, SC!TakeData, S!TakeData, SC!SameSet, S!SameSet, SC!Visit,
    S!Visit, SC!Listed, S!Listed, SC!Outdated, S!Outdated, SC!Synced,
    S!Synced, SC!DataOldCurrent, S!DataOldCurrent, SC!PutData, S!PutData,
    SC!Abort, S!Abort, SC!DataName, S!DataName, SC!NewData, S!NewData,
    SC!Panic, S!Panic, SC!Nameable, S!Nameable, SC!SyncDone, S!SyncDone,
    SC!Orphans, S!Orphans, SC!DeleteData, S!DeleteData, SC!Drop, S!Drop,
    SC!StatusStep, S!StatusStep, SC!SetCurrent, S!SetCurrent, SC!Idle, S!Idle,
    SC!DropDs, S!DropDs, SC!DsHolders, S!DsHolders, SC!DropData, S!DropData,
    SC!CopyLag, S!CopyLag, SC!DataEvents, S!DataEvents, SC!Current, S!Current,
    SC!WriteData, S!WriteData, SC!Behind, S!Behind, SC!DataHolders,
    S!DataHolders

LEMMA SameDataSetSteps ==
    /\ SC!Fault <=> S!Fault
    /\ SC!Boot <=> S!Boot
    /\ SC!OnDataEvents <=> S!OnDataEvents
    /\ SC!OnPodEvents <=> S!OnPodEvents
    /\ SC!OnDataSetEvent <=> S!OnDataSetEvent
    /\ SC!ResyncDataSet <=> S!ResyncDataSet
    /\ \A d : SC!ResyncData(d) <=> S!ResyncData(d)
    /\ \A t : SC!EditTemplate(t) <=> S!EditTemplate(t)
    /\ \A t : SC!CreateDataSet(t) <=> S!CreateDataSet(t)
    /\ SC!DeleteDataSet <=> S!DeleteDataSet
    /\ \A d : SC!UserDeletes(d) <=> S!UserDeletes(d)
    /\ \A d : SC!Collect(d) <=> S!Collect(d)
    /\ SC!Init <=> S!Init
BY SameConstants, SameStatuses DEF
    SC!Fault, S!Fault, SC!Boot, S!Boot, SC!OnDataEvents, S!OnDataEvents,
    SC!OnPodEvents, S!OnPodEvents, SC!OnDataSetEvent, S!OnDataSetEvent,
    SC!ResyncDataSet, S!ResyncDataSet, SC!ResyncData, S!ResyncData,
    SC!Resyncs, S!Resyncs, SC!Again, S!Again,
    SC!EditTemplate, S!EditTemplate, SC!CreateDataSet, S!CreateDataSet,
    SC!DeleteDataSet, S!DeleteDataSet, SC!UserDeletes, S!UserDeletes,
    SC!Collect, S!Collect, SC!Init, S!Init, SC!CallNext, S!CallNext,
    SC!Disrupt, S!Disrupt, SC!Abort, S!Abort, SC!Idle, S!Idle, SC!Relist,
    S!Relist, SC!DeliverData, S!DeliverData, SC!dsVars, S!dsVars, SC!podVars,
    S!podVars, SC!localVars, S!localVars, SC!DeliverPods, S!DeliverPods,
    SC!ComeOrGone, S!ComeOrGone, SC!Replaceable, S!Replaceable, SC!PodEvents,
    S!PodEvents, SC!dataVars, S!dataVars, SC!DeliverDs, S!DeliverDs, SC!PutDs,
    S!PutDs, SC!OnlyDs, S!OnlyDs, SC!NewDataSet, S!NewDataSet, SC!DeleteData,
    S!DeleteData, SC!setVars, S!setVars, SC!OnlyData, S!OnlyData,
    SC!ClusterInit, S!ClusterInit, SC!Nameable, S!Nameable, SC!Listed,
    S!Listed, SC!Outdated, S!Outdated, SC!SyncDone, S!SyncDone, SC!Orphans,
    S!Orphans, SC!DropDs, S!DropDs, SC!DropData, S!DropData, SC!DsHolders,
    S!DsHolders, SC!DataHolders, S!DataHolders, SC!PodHolders, S!PodHolders,
    SC!storeVars, S!storeVars, SC!DataEvents, S!DataEvents, SC!Behind,
    S!Behind, SC!PutData, S!PutData, SC!DataName, S!DataName, SC!WriteData,
    S!WriteData

LEMMA SamePodChurn ==
    ASSUME NEW p, SC!PodChurn(p)
    PROVE  S!PodChurn(p) /\ (UNCHANGED dcVars => P!PodChurn(p))
BY SameConstants DEF
    SC!PodChurn, S!PodChurn, P!PodChurn, SC!CreatePod, S!CreatePod,
    P!CreatePod, SC!DeletePod, S!DeletePod, P!DeletePod, SC!UpdatePod,
    S!UpdatePod, P!UpdatePod, SC!dsVars, S!dsVars, P!dsVars, SC!dataVars,
    S!dataVars, P!dataVars, SC!NameFree, S!NameFree, P!NameFree, SC!Disrupt,
    S!Disrupt, P!Disrupt, SC!PutPod, S!PutPod, P!PutPod, SC!PodHolders,
    S!PodHolders, P!PodHolders, SC!localVars, S!localVars, P!localVars,
    SC!Unlabelled, S!Unlabelled, P!Unlabelled, SC!Behind, S!Behind, P!Behind,
    SC!setVars, S!setVars, SC!localVars, S!localVars, dcVars, P!dcVars, P!localVars, P!bindVars

-----------------------------------------------------------------------------
(* A step of the process is one of both modules, or of one of them while   *)
(* the other controller stands still.                                      *)

LEMMA SameClusterType ==
    /\ P!ClusterTypeOK <=> S!ClusterTypeOK
    /\ P!ClusterTypeOK' <=> S!ClusterTypeOK'
BY SameConstants, SameObjects DEF
    P!ClusterTypeOK, S!ClusterTypeOK, P!DsHolders, S!DsHolders, P!DataHolders,
    S!DataHolders, P!PodHolders, S!PodHolders

(* What only the DataSet controller, or its environment, does.             *)
Aside ==
    \/ S!Work \/ S!Fault \/ S!OnDataSetEvent \/ S!ResyncDataSet
    \/ \E t \in Templates : MayUse(t) /\ S!Edits(t)
    \/ S!DeleteDataSet
    \/ \E d \in Names : S!UserDeletes(d) \/ S!Collect(d)

LEMMA Steps ==
    ASSUME [Next]_vars
    PROVE  \/ P!Next /\ S!Next /\ UNCHANGED <<ds, data>>
           \/ P!Own /\ UNCHANGED setVars
           \/ Aside /\ UNCHANGED dcVars
           \/ P!Boot /\ S!Restart
<1>1. CASE DataWork \/ DataFault \/ OnBindingEvents
  BY <1>1, SameDataWork, SameDataSteps
  DEF DataWork, DataFault, OnBindingEvents, P!Own
<1>2. ASSUME NEW d \in Names, RuntimeReports(d)
      PROVE  P!Own /\ UNCHANGED setVars
  BY <1>2, SameConstants, SameDataSteps DEF RuntimeReports, P!Own
<1>3. CASE OnDataEvents \/ OnPodEvents
  BY <1>3, SameDataSteps, SameDataSetSteps
  DEF OnDataEvents, OnPodEvents, P!Next, P!Deliver, S!Next, S!Deliver, P!OnDataEvents,
      P!OnPodEvents, P!DeliverData, P!dsVars, P!dataVars
<1>4. CASE Restart
  BY <1>4, SameDataSteps, SameDataSetSteps
  DEF Restart, Start, Alive, Disrupt, P!Disrupt, S!Disrupt, P!Restart, S!Restart,
      P!Next, S!Next
<1>5. CASE Recover
  BY <1>5, SameDataSteps, SameDataSetSteps DEF Recover, Start, Alive, S!Restart
<1>6. CASE DataSetWork \/ DataSetFault \/ OnDataSetEvent \/ ResyncDataSet
  BY <1>6, SameDataSetWork, SameDataSetSteps
  DEF DataSetWork, DataSetFault, OnDataSetEvent, ResyncDataSet, Aside
<1>7. ASSUME NEW d \in Names, Collect(d)
      PROVE  Aside /\ UNCHANGED dcVars
  BY <1>7, SameConstants, SameDataSetSteps DEF Collect, Aside
<1>8. ASSUME NEW p \in Pods, SC!PodChurn(p), UNCHANGED dcVars
      PROVE  P!Next /\ S!Next /\ UNCHANGED <<ds, data>>
  BY <1>8, SamePodChurn
  DEF P!Next, P!Environment, S!Next, S!Environment, S!PodChurn, S!dsVars, S!dataVars
<1>9. CASE Users
  BY <1>8, <1>9, SameConstants, SameDataSetSteps DEF Users, Aside, S!Edits
<1>10. CASE UNCHANGED vars
  BY <1>10
  DEF vars, dcVars, dsVars, dataVars, podVars, P!Own, P!vars, P!dcVars, P!dsVars,
      P!dataVars, P!podVars, P!localVars, P!bindVars
<1>11. ASSUME NEW d \in Names, ResyncData(d)
       PROVE  P!Next /\ S!Next /\ UNCHANGED <<ds, data>>
  BY <1>11, SameDataSteps, SameDataSetSteps, SameConstants
  DEF ResyncData, P!Next, P!Deliver, S!Next, S!Deliver, P!Resync, P!dsVars, P!dataVars
<1> QED
  BY <1>1, <1>2, <1>3, <1>4, <1>5, <1>6, <1>7, <1>9, <1>10, <1>11 DEF Next, Deliver

LEMMA AsideIsStep == Aside => S!Next
BY SameConstants DEF Aside, S!Edits, S!Next, S!Deliver, S!Environment

LEMMA AsideForeign ==
    ASSUME S!TypeOK, Aside
    PROVE  P!ForeignWrites /\ UNCHANGED podVars
<1>1. CASE S!OnDataSetEvent \/ S!ResyncDataSet
  BY <1>1
  DEF S!OnDataSetEvent, S!ResyncDataSet, S!Again, S!dataVars, S!podVars, podVars,
      P!ForeignWrites
<1>2. S!ForeignWrites /\ UNCHANGED S!podVars => P!ForeignWrites /\ UNCHANGED podVars
  BY SameConstants DEF S!ForeignWrites, P!ForeignWrites, S!podVars, podVars
<1> QED
  BY <1>1, <1>2, S!WorkForeign, S!FaultForeign, S!UsersForeign, Assumed,
     SameConstants DEF Aside, S!Edits

-----------------------------------------------------------------------------
(* The invariant: the types of both controllers, and of the Data           *)
(* controller what makes it keep the finalizer.                            *)

Inv == P!TypeOK /\ S!TypeOK /\ P!FinalizerInv

LEMMA InitInv == Init => Inv
<1> SUFFICES ASSUME Init PROVE Inv  OBVIOUS
<1>1. S!Init /\ P!WorkerInit  BY SameDataSteps, SameDataSetSteps DEF Init
<1>2. S!TypeOK  BY <1>1, S!InitTyped, Assumed
<1>3. P!TypeOK
  BY <1>1, <1>2, SameClusterType DEF S!TypeOK, P!TypeOK, P!WorkerInit
<1>4. P!FinalizerInv
  BY <1>1, SameConstants
  DEF S!Init, S!ClusterInit, P!WorkerInit, P!FinalizerInv, P!DataInv, P!PodInv,
      P!Clean, P!Bare, S!PodHolders, S!DataHolders
<1> QED  BY <1>2, <1>3, <1>4 DEF Inv

LEMMA StepInv ==
    ASSUME Inv, [Next]_vars
    PROVE  Inv' /\ \A d \in P!Names : P!Guarded(d) \/ UNCHANGED data
<1>0. P!TypeOK /\ S!TypeOK /\ P!FinalizerInv  BY DEF Inv
<1>1. ASSUME [P!Next]_(P!vars)
      PROVE  /\ P!TypeOK' /\ P!FinalizerInv'
             /\ \A d \in P!Names : P!Guarded(d) \/ UNCHANGED data
  <2>1. UNCHANGED P!vars => UNCHANGED data  BY DEF P!vars, P!dataVars
  <2>2. P!TypeOK'  BY <1>0, <1>1, P!NextTyped, Assumed
  <2>3. P!FinalizerInv'  BY <1>0, <1>1, P!FinalizerNext, Assumed
  <2>4. [\A d \in P!Names : P!Guarded(d)]_(P!vars)
    BY <1>0, <1>1, P!StepGuarded, Assumed
  <2> QED  BY <2>1, <2>2, <2>3, <2>4
<1>2. S!Next => S!TypeOK' /\ P!ClusterTypeOK'
  <2>1. S!Next => S!TypeOK'  BY <1>0, S!NextTyped, Assumed
  <2> QED  BY <2>1, SameClusterType DEF S!TypeOK
<1>3. CASE P!Next /\ S!Next  BY <1>1, <1>2, <1>3 DEF Inv
<1>4. CASE P!Own /\ UNCHANGED setVars
  <2>0. [P!Next]_(P!vars)  BY <1>4, P!OwnIsStep, Assumed
  <2>1. P!TypeOK' /\ S!ClusterTypeOK'  BY <1>1, <2>0, SameClusterType DEF P!TypeOK
  <2>2. UNCHANGED S!setVars  BY <1>4 DEF setVars, S!setVars, S!localVars
  <2>3. S!TypeOK'  BY <1>0, <2>1, <2>2, S!OthersTyped, Assumed
  <2> QED  BY <1>1, <2>0, <2>3 DEF Inv
<1>5. CASE Aside /\ UNCHANGED dcVars
  <2>1. S!TypeOK' /\ P!ClusterTypeOK'  BY <1>2, <1>5, AsideIsStep
  <2>2. P!ForeignWrites /\ UNCHANGED <<P!podVars, P!dcVars>>
    BY <1>0, <1>5, AsideForeign
    DEF podVars, P!podVars, dcVars, P!dcVars, P!localVars, P!bindVars
  <2>3. P!TypeOK'  BY <1>0, <2>1, <2>2, P!OthersTyped, Assumed
  <2>4. P!FinalizerInv' /\ \A d \in P!Names : P!Guarded(d)
    BY <1>0, <2>2, P!OthersKeep, Assumed
  <2> QED  BY <2>1, <2>3, <2>4 DEF Inv
<1>6. CASE P!Boot /\ S!Restart
  <2>1. S!TypeOK' /\ P!ClusterTypeOK'  BY <1>2, <1>6 DEF S!Next
  <2>2. P!TypeOK' /\ P!FinalizerInv' /\ \A d \in P!Names : P!Guarded(d)
    BY <1>0, <1>6, <2>1, P!BootKeeps, Assumed
  <2> QED  BY <2>1, <2>2 DEF Inv
<1> QED  BY <1>3, <1>4, <1>5, <1>6, Steps

(* With both controllers at work, the finalizer leaves a Data only when    *)
(* its pod is gone or carries no digest: whatever the DataSet controller   *)
(* updates, prunes and creates, whatever its panics take down, and for any *)
(* pods, names, templates, stale caches, failures and restarts.            *)
THEOREM FinalizerLifted == Spec => FinalizerHolds
<1>1. Spec => []Inv  BY InitInv, StepInv, PTL DEF Spec
<1>2. Inv /\ [Next]_vars
      => [\A d \in DC!Names :
             (/\ data[d] # None /\ data[d].fin
              /\ data'[d] = None \/ ~data'[d].fin)
             => \/ pods[data[d].pod] = None
                \/ pods[data[d].pod].digest = None]_(DC!vars)
  BY StepInv, SameConstants DEF P!Guarded, Inv, P!TypeOK, P!ClusterTypeOK
<1> QED  BY <1>1, <1>2, PTL DEF Spec, FinalizerHolds, DC!FinalizerGuards

-----------------------------------------------------------------------------
(* Templates.  One that a Data, a copy or a pod still has comes back only  *)
(* if none of them has another one, so that a template of which d, its     *)
(* copies or its pod speak has reached d through the caches: while the     *)
(* DataSet, or the controller's copy of it, has that template, no other    *)
(* one is on its way to d.                                                 *)

Of(obj, t) == obj # None => obj.spec = t

Speaks(d, x) ==
    \/ Spoken(data[d], x) \/ Spoken(dataCache[d], x)
    \/ key = d /\ Spoken(inst, x)
    \/ \E p \in Pods : /\ DataName(p) = d /\ pods[p] # None
                       /\ pods[p].digest = Digest[x]

Chain == \A x \in Templates : Spoken(ds, x) /\ Spoken(set, x) => Of(dsCache, x)
Ahead(d, x) ==
    Speaks(d, x) =>
        /\ Spoken(ds, x) => Of(dsCache, x) /\ Of(set, x)
        /\ Spoken(dsCache, x) => Of(set, x)
        /\ Spoken(ds, x) \/ Spoken(dsCache, x) \/ Spoken(set, x) => Of(data[d], x)
EditInv == Chain /\ \A d \in Names, x \in Templates : Ahead(d, x)

(* What a step may do to the specs.                                        *)
FromSet(d)   == set # None /\ set' = set /\ data'[d] # None /\ data'[d].spec = set.spec
DsStep       == \/ ds' = None
                \/ ds # None /\ ds'.spec = ds.spec
                \/ ~Heard(ds'.spec)
CopyStep     == dsCache' \in {dsCache, ds} /\ set' \in {set, None, dsCache}
DataStep(d)  == \/ data'[d] = None
                \/ data[d] # None /\ data'[d].spec = data[d].spec
                \/ FromSet(d)
SpeakStep(d, x) == Speaks(d, x)' => Speaks(d, x) \/ (FromSet(d) /\ set.spec = x)

LEMMA EditNext ==
    ASSUME EditInv, DsStep, CopyStep, \A d \in Names : DataStep(d),
           \A d \in Names, x \in Templates : SpeakStep(d, x)
    PROVE  EditInv'
<1>1. ASSUME NEW x \in Templates, Heard(x), Spoken(ds', x)  PROVE Spoken(ds, x)
  BY <1>1 DEF DsStep, Spoken
<1>2. ASSUME NEW x \in Templates, Spoken(set, x) \/ Spoken(dsCache, x)
      PROVE  Heard(x)
  BY <1>2 DEF Heard
<1>3. Chain'
  <2> SUFFICES ASSUME NEW x \in Templates, Spoken(ds', x), Spoken(set', x)
               PROVE  Of(dsCache', x)
    BY DEF Chain
  <2>1. Spoken(set, x) \/ Spoken(dsCache, x)  BY DEF CopyStep, Spoken
  <2>2. Spoken(ds, x)  BY <1>1, <1>2, <2>1
  <2> QED  BY <2>1, <2>2 DEF CopyStep, EditInv, Chain, Of, Spoken
<1>4. ASSUME NEW d \in Names, NEW x \in Templates, Speaks(d, x)'
      PROVE  /\ Spoken(ds', x) => Of(dsCache', x) /\ Of(set', x)
             /\ Spoken(dsCache', x) => Of(set', x)
             /\ Spoken(ds', x) \/ Spoken(dsCache', x) \/ Spoken(set', x)
                => Of(data'[d], x)
  <2>1. CASE Speaks(d, x)
    <3>1. Heard(x)  BY <2>1 DEF Speaks, Heard
    <3>2. Ahead(d, x)  BY DEF EditInv
    <3>3. Spoken(ds', x) => Spoken(ds, x)  BY <1>1, <3>1
    <3>4. Spoken(dsCache', x) => Spoken(dsCache, x) \/ Spoken(ds, x)  BY DEF CopyStep
    <3>5. Spoken(ds, x) \/ Spoken(dsCache, x) => Of(dsCache, x) /\ Of(set, x)
      BY <2>1, <3>2 DEF Ahead, Of, Spoken
    <3>6. /\ Of(dsCache, x) /\ Of(set, x) => Of(set', x)
          /\ Of(dsCache, x) /\ Spoken(ds', x) /\ Spoken(ds, x) => Of(dsCache', x)
      BY DEF CopyStep, Of, Spoken
    <3>7. Spoken(ds', x) \/ Spoken(dsCache', x) \/ Spoken(set', x) => Of(data'[d], x)
      <4> SUFFICES ASSUME Spoken(ds', x) \/ Spoken(dsCache', x) \/ Spoken(set', x)
                   PROVE  Of(data'[d], x)
        OBVIOUS
      <4>1. Spoken(ds, x) \/ Spoken(dsCache, x) \/ Spoken(set, x)
        BY <3>3, <3>4 DEF CopyStep, Spoken
      <4>2. Of(data[d], x)  BY <2>1, <3>2, <4>1 DEF Ahead
      <4>3. FromSet(d) => set.spec = x
        BY <3>3, <3>4, <3>5 DEF FromSet, Of, Spoken
      <4> QED  BY <4>2, <4>3 DEF DataStep, FromSet, Of
    <3> QED  BY <3>3, <3>4, <3>5, <3>6, <3>7 DEF CopyStep
  <2>2. CASE FromSet(d) /\ set.spec = x
    <3>1. Spoken(set, x) /\ Heard(x)  BY <1>2, <2>2 DEF FromSet, Spoken
    <3>2. Spoken(ds', x) => Spoken(ds, x) /\ Of(dsCache, x)
      BY <1>1, <3>1 DEF EditInv, Chain
    <3> QED  BY <2>2, <3>2 DEF CopyStep, FromSet, Of, Spoken
  <2> QED  BY <1>4, <2>1, <2>2 DEF SpeakStep
<1> QED  BY <1>3, <1>4 DEF EditInv, Ahead

(* ... and an edit while nobody speaks of another template.                *)
LEMMA EditBack ==
    ASSUME S!TypeOK, P!TypeOK, NEW t \in Templates, ds' # None, ds'.spec = t,
           UNCHANGED <<data, dataCache, pods, key, inst, dsCache, set>>,
           \A u \in Templates : Heard(u) => u = t
    PROVE  EditInv'
<1>1. Of(dsCache, t) /\ Of(set, t)
  <2>1. ASSUME NEW obj \in {dsCache, set}, obj # None  PROVE obj.spec = t
    <3>1. obj.spec \in Templates  BY <2>1 DEF S!TypeOK, S!ClusterTypeOK, S!DSObject
    <3> QED  BY <2>1, <3>1 DEF Heard, Spoken
  <2> QED  BY <2>1 DEF Of
<1>2. ASSUME NEW d \in Names  PROVE Of(data[d], t)
  <2>1. data[d] # None => data[d].spec \in Templates
    BY SameConstants DEF P!TypeOK, P!ClusterTypeOK, P!DataObject
  <2> QED  BY <2>1 DEF Heard, Of, Spoken
<1>3. ASSUME NEW d \in Names, NEW x \in Templates, Speaks(d, x)'  PROVE x = t
  BY <1>3 DEF Speaks, Heard, Spoken
<1>4. Chain'  BY <1>1 DEF Chain, Of, Spoken
<1> QED  BY <1>1, <1>2, <1>3, <1>4 DEF EditInv, Ahead, Of, Spoken

(* The Data controller spreads what its copies say, and writes no spec.    *)
LEMMA SpeaksTheCopies ==
    ASSUME P!TypeOK, P!DeliveryInv, [P!Next]_(P!vars),
           \A d \in Names : data'[d] # None =>
               data[d] # None /\ data'[d].spec = data[d].spec,
           NEW d \in Names, NEW x \in Templates, Speaks(d, x)'
    PROVE  Speaks(d, x)
<1>1. /\ dataCache' = dataCache \/ dataCache' = data
      /\ \/ inst' = None
         \/ UNCHANGED <<key, inst>>
         \/ \E e \in P!Names : key' = e /\ inst' = dataCache[e]
         \/ key \in P!Names /\ key' = key /\ inst' = data'[key]
  BY P!CopiesOf, Assumed
<1>2. Spoken(data'[d], x) => Spoken(data[d], x)  BY DEF Spoken
<1>3. Spoken(dataCache'[d], x) => Speaks(d, x)  BY <1>1 DEF Speaks
<1>4. key' = d /\ Spoken(inst', x) => Speaks(d, x)
  BY <1>1, <1>2 DEF Speaks, Spoken
<1>5. ASSUME NEW p \in Pods, DataName(p) = d, pods'[p] # None,
             pods'[p].digest = Digest[x]
      PROVE  Speaks(d, x)
  <2>1. pods'[p].digest # None  BY <1>5, Assumed
  <2>2. \/ pods[p] # None /\ pods'[p].digest = pods[p].digest
        \/ /\ key = P!DataName(p) /\ inst \in P!DataObject
           /\ pods'[p].digest = Digest[inst.spec]
    BY <1>5, <2>1, P!TellsTheCopy, Assumed
  <2>3. CASE pods[p] # None /\ pods'[p].digest = pods[p].digest
    BY <1>5, <2>3 DEF Speaks
  <2>4. CASE /\ key = P!DataName(p) /\ inst \in P!DataObject
             /\ pods'[p].digest = Digest[inst.spec]
    <3>1. inst # None /\ inst.spec \in Templates
      BY <2>4, Assumed DEF P!DataObject
    <3>2. inst.spec = x  BY <1>5, <2>4, <3>1, Assumed
    <3>3. key = d  BY <1>5, <2>4 DEF DataName, P!DataName
    <3> QED  BY <3>1, <3>2, <3>3 DEF Speaks, Spoken
  <2> QED  BY <2>2, <2>3, <2>4
<1> QED  BY <1>2, <1>3, <1>4, <1>5 DEF Speaks

LEMMA ControllerEdits ==
    ASSUME EditInv, P!TypeOK, P!DeliveryInv, [P!Next]_(P!vars), CopyStep, UNCHANGED ds,
           \A d \in Names : data'[d] # None =>
               data[d] # None /\ data'[d].spec = data[d].spec
    PROVE  EditInv'
<1>1. DsStep /\ \A d \in Names : DataStep(d)  BY DEF DsStep, DataStep
<1>2. \A d \in Names, x \in Templates : SpeakStep(d, x)
  BY SpeaksTheCopies DEF SpeakStep
<1> QED  BY <1>1, <1>2, EditNext

LEMMA AsideEdits ==
    ASSUME EditInv, S!TypeOK, P!TypeOK, Aside, UNCHANGED dcVars,
           "undo" \notin Allowed
    PROVE  EditInv'
<1>1. CopyStep
  <2>1. S!Next  BY AsideIsStep
  <2>2. (UNCHANGED dsCache \/ dsCache' = ds) /\ set' \in {set, None, dsCache}
    BY <2>1, S!CopiesOf, Assumed
  <2> QED  BY <2>2 DEF CopyStep
<1>2. \A d \in Names : S!Written(d)
  <2>1. S!Plain \/ \E t \in Templates : S!Edits(t)
    BY SameConstants DEF Aside, S!Plain, S!Deliver
  <2> QED  BY <2>1, S!StepWritten, SameConstants, Assumed
<1>3. \A d \in Names : DataStep(d)
  BY <1>2 DEF S!Written, DataStep, FromSet
<1>4. UNCHANGED <<pods, dataCache, key, inst>>
  BY AsideForeign DEF P!ForeignWrites, podVars, dcVars
<1>5. \A d \in Names, x \in Templates : SpeakStep(d, x)
  <2>2. ASSUME NEW d \in Names, NEW x \in Templates, Spoken(data'[d], x)
        PROVE  Spoken(data[d], x) \/ (FromSet(d) /\ set.spec = x)
    BY <1>3, <2>2 DEF DataStep, FromSet, Spoken
  <2> QED  BY <1>4, <2>2 DEF SpeakStep, Speaks
<1>6. DsStep => EditInv'  BY <1>1, <1>3, <1>5, EditNext
<1>7. CASE S!Plain
  <2>1. ds' # None => ds # None /\ ds'.spec = ds.spec
    BY <1>7, S!DsSpecStays, Assumed
  <2> QED  BY <1>6, <2>1 DEF DsStep
<1>8. ASSUME NEW t \in Templates, MayUse(t), S!Edits(t)  PROVE EditInv'
  <2>1. ds' # None /\ ds'.spec = t  BY <1>8, S!EditWrites, Assumed
  <2>2. CASE ~Heard(t)  BY <1>6, <2>1, <2>2 DEF DsStep
  <2>3. CASE \A u \in Templates : Heard(u) => u = t
    <3>1. UNCHANGED <<data, dsCache, set>>
      BY <1>8 DEF S!Edits, S!EditTemplate, S!CreateDataSet, S!PutDs, S!OnlyDs,
                  S!dataVars, S!setVars, S!localVars
    <3> QED  BY <1>4, <2>1, <2>3, <3>1, EditBack
  <2> QED  BY <1>8, <2>2, <2>3 DEF MayUse, Undoes
<1> QED  BY <1>7, <1>8, SameConstants DEF Aside, S!Plain, S!Deliver

LEMMA BootEdits ==
    ASSUME EditInv, P!Boot, S!Restart
    PROVE  EditInv'
<1>1. /\ UNCHANGED <<ds, data, pods>> /\ dataCache' = data /\ inst' = None
      /\ dsCache' = ds /\ set' = None
  BY DEF P!Boot, P!Idle, P!Relist, P!storeVars, S!Restart, S!Boot, S!Idle, S!Relist
<1>2. DsStep /\ CopyStep /\ \A d \in Names : DataStep(d)
  BY <1>1 DEF DsStep, CopyStep, DataStep
<1>3. \A d \in Names, x \in Templates : SpeakStep(d, x)
  BY <1>1 DEF SpeakStep, Speaks, Spoken
<1> QED  BY <1>2, <1>3, EditNext

LEMMA EditInit == Init => EditInv
<1> SUFFICES ASSUME Init PROVE EditInv  OBVIOUS
<1>1. S!Init /\ P!WorkerInit  BY SameDataSteps, SameDataSetSteps DEF Init
<1>2. set = None /\ inst = None /\ data = [d \in S!Names |-> None]
      /\ dataCache = data /\ \A p \in Pods : pods[p] # None => pods[p].digest = None
  BY <1>1 DEF S!Init, S!ClusterInit, P!WorkerInit
<1>3. \A d \in Names, x \in Templates : ~Speaks(d, x)
  BY <1>2, SameConstants, Assumed DEF Speaks, Spoken
<1> QED  BY <1>2, <1>3 DEF EditInv, Chain, Ahead, Spoken

-----------------------------------------------------------------------------
(* The Data controller's part of the invariant, beside the other one.      *)

DataInv == /\ P!DeliveryInv /\ P!FreshInv /\ P!ToldListed /\ P!ProgressInv
           /\ P!DelHeld /\ P!SettledIsDelivered /\ P!SettledIsGone

(* The DataSet controller lists no pod that has not been there.            *)
ListedOld == podList \cap fresh = {}

LEMMA ControllerKeeps ==
    ASSUME Inv, DataInv, [P!Next]_(P!vars), "podLag" \notin Allowed,
           "undo" \notin Allowed, "reuseNames" \notin Allowed
    PROVE  DataInv'
<1>0. P!TypeOK /\ P!FinalizerInv  BY DEF Inv
<1>1. P!DeliveryInv'  BY <1>0, P!DeliveryNext, Assumed DEF DataInv
<1>2. P!FreshInv'  BY <1>0, P!FreshNext, Assumed DEF DataInv
<1>3. P!ToldListed'  BY <1>0, P!ToldNext, Assumed DEF DataInv
<1>4. P!ProgressInv'  BY <1>0, P!ProgressNext, Assumed DEF DataInv
<1>5. P!DelHeld'  BY <1>0, P!HeldNext, Assumed DEF DataInv
<1>6. P!SettledIsDelivered'  BY <1>0, P!SettledNext, Assumed DEF DataInv
<1>7. P!SettledIsGone'  BY <1>0, P!GoneNext, Assumed DEF DataInv
<1> QED  BY <1>1, <1>2, <1>3, <1>4, <1>5, <1>6, <1>7 DEF DataInv

(* What the DataSet controller writes into a Data never undoes what the    *)
(* Data's pod has been told.                                               *)
LEMMA AsideKeeps ==
    ASSUME Inv, DataInv, EditInv, ListedOld, Aside, UNCHANGED dcVars
    PROVE  DataInv'
<1>0. P!TypeOK /\ S!TypeOK  BY DEF Inv
<1>1. P!ForeignWrites /\ UNCHANGED <<P!podVars, P!dcVars>>
  BY <1>0, AsideForeign
  DEF podVars, P!podVars, dcVars, P!dcVars, P!localVars, P!bindVars
<1>2. ASSUME NEW d \in Names  PROVE P!Foreign(d)
  <2>1. S!Written(d)
    <3>1. S!Plain \/ \E t \in Templates : S!Edits(t)
      BY SameConstants DEF Aside, S!Plain, S!Deliver
    <3> QED  BY <1>0, <3>1, S!StepWritten, SameConstants, Assumed
  <2>2. CASE data'[d] # None /\ data[d] = None
    BY <2>1, <2>2
    DEF S!Written, P!Foreign, ListedOld, S!DataName, P!DataName
  <2>3. CASE data'[d] # None /\ data[d] # None
    <3>1. /\ data'[d].pod = data[d].pod /\ data'[d].st = data[d].st
          /\ data'[d].spec = data[d].spec \/ (set # None /\ data'[d].spec = set.spec)
          /\ data'[d].del => data[d].del \/ data[d].fin
      BY <2>1, <2>3 DEF S!Written
    <3>2. data[d].pod \in Pods /\ DataName(data[d].pod) = d
      BY <1>0, <2>3, SameConstants
      DEF P!TypeOK, P!ClusterTypeOK, P!DataObject, DataInv, P!DeliveryInv, P!Named,
          DataName, P!DataName
    <3>3. ASSUME data'[d].spec # data[d].spec, pods[data[d].pod] # None
          PROVE  pods[data[d].pod].digest # Digest[data'[d].spec]
      <4>1. set # None /\ set.spec \in Templates /\ data'[d].spec = set.spec
        BY <1>0, <3>1, <3>3 DEF S!TypeOK, S!DSObject
      <4>2. Speaks(d, set.spec) => data[d].spec = set.spec
        BY <2>3, <4>1 DEF EditInv, Ahead, Spoken, Of
      <4> QED  BY <3>2, <3>3, <4>1, <4>2 DEF Speaks
    <3> QED  BY <2>3, <3>1, <3>3 DEF P!Foreign
  <2> QED  BY <2>2, <2>3 DEF P!Foreign
<1>3. P!Beside  BY <1>1, <1>2, SameConstants DEF P!Beside
<1> QED  BY <1>0, <1>3, P!BesideKeeps, Assumed DEF DataInv

LEMMA DataNext ==
    ASSUME Inv, DataInv, EditInv, ListedOld, [Next]_vars, "podLag" \notin Allowed,
           "undo" \notin Allowed, "reuseNames" \notin Allowed
    PROVE  DataInv'
<1>1. CASE P!Boot /\ S!Restart
  BY <1>1, P!BootSettles, Assumed DEF Inv, DataInv
<1>2. CASE P!Own  BY <1>2, P!OwnIsStep, ControllerKeeps, Assumed
<1> QED  BY <1>1, <1>2, AsideKeeps, ControllerKeeps, Steps

LEMMA FreshShrinks ==
    ASSUME Inv, [Next]_vars
    PROVE  fresh' \subseteq fresh
<1>1. [P!Next]_(P!vars) => fresh' \subseteq fresh  BY P!StepFresh, Assumed
<1>2. CASE P!Own  BY <1>1, <1>2, P!OwnIsStep, Assumed
<1>3. CASE Aside  BY <1>3, AsideForeign DEF Inv, podVars
<1>4. CASE P!Boot  BY <1>4 DEF P!Boot, P!Relist
<1> QED  BY <1>1, <1>2, <1>3, <1>4, Steps

LEMMA ListedNext ==
    ASSUME Inv, DataInv, ListedOld, [Next]_vars
    PROVE  ListedOld'
<1>1. \A p \in fresh : podsCache[p] = None  BY DEF DataInv, P!FreshInv
<1>2. fresh' \subseteq fresh  BY FreshShrinks
<1>3. S!Next => ListedOld'  BY <1>1, <1>2, S!ListedNext, Assumed DEF Inv, ListedOld
<1>4. CASE UNCHANGED setVars  BY <1>2, <1>4 DEF setVars, ListedOld
<1>5. CASE S!Restart  BY <1>3, <1>5 DEF S!Next
<1> QED  BY <1>3, <1>4, <1>5, AsideIsStep, Steps

LEMMA EditStep ==
    ASSUME Inv, DataInv, EditInv, [Next]_vars, "undo" \notin Allowed
    PROVE  EditInv'
<1>0. P!TypeOK /\ S!TypeOK /\ P!DeliveryInv  BY DEF Inv, DataInv
<1>1. CASE P!Next /\ S!Next /\ UNCHANGED <<ds, data>>
  <2>1. CopyStep
    <3>1. (UNCHANGED dsCache \/ dsCache' = ds) /\ set' \in {set, None, dsCache}
      BY <1>0, <1>1, S!CopiesOf, Assumed
    <3> QED  BY <3>1 DEF CopyStep
  <2> QED  BY <1>0, <1>1, <2>1, ControllerEdits
<1>2. CASE P!Own /\ UNCHANGED setVars
  <2>1. /\ UNCHANGED <<ds, dsCache>>
        /\ \A d \in Names : data'[d] # None =>
              data[d] # None /\ data'[d].spec = data[d].spec
    BY <1>0, <1>2, P!OwnSteps, SameConstants, Assumed
  <2>2. [P!Next]_(P!vars) /\ CopyStep
    BY <1>2, <2>1, P!OwnIsStep, Assumed DEF CopyStep, setVars
  <2> QED  BY <1>0, <2>1, <2>2, ControllerEdits
<1> QED  BY <1>0, <1>1, <1>2, AsideEdits, BootEdits, Steps

-----------------------------------------------------------------------------
(* The DataSet controller's part of the invariant, beside the other one.   *)

SetInv == /\ S!CachesCurrent /\ S!LabelInv /\ S!SeenInv
          /\ S!OnePod => S!UpdatedInv
          /\ S!NoEdits => S!OneSpec

LEMMA SameNoted ==
    /\ P!DsNoted => S!DsNoted
    /\ P!DataNoted => S!DataNoted
    /\ P!PodsNoted => S!PodsNoted
BY SameConstants
DEF P!DsNoted, S!DsNoted, P!DataNoted, S!DataNoted, P!PodsNoted, S!PodsNoted

(* While it stands still, the Data controller and the runtimes write.      *)
LEMMA OwnKeeps ==
    ASSUME Inv, Inv', SetInv, P!Own, UNCHANGED setVars
    PROVE  SetInv'
<1>0. P!TypeOK /\ S!TypeOK /\ S!TypeOK' /\ UNCHANGED S!setVars
  BY DEF Inv, setVars, S!setVars, S!localVars
<1>1. /\ P!DsNoted /\ P!DataNoted /\ P!PodsNoted /\ UNCHANGED <<ds, dsCache>>
      /\ \A d \in P!Names : data'[d] # None =>
            /\ data[d] # None /\ data'[d].pod = data[d].pod
            /\ data'[d].spec = data[d].spec
  BY <1>0, P!OwnSteps, Assumed
<1>2. S!DsNoted /\ S!DataNoted /\ S!PodsNoted  BY <1>1, SameNoted
<1>3. dataCache' = dataCache /\ dataList' = dataList /\ set' = set
  BY <1>1 DEF P!DataNoted, setVars
<1>4. S!CachesCurrent'  BY <1>2, S!NotedCurrent, Assumed DEF SetInv
<1>5. S!LabelInv'
  BY <1>1, <1>3, SameConstants DEF SetInv, S!LabelInv, S!Labelled
<1>6. S!SeenInv'  BY <1>0, <1>2, S!OthersSeen, Assumed DEF SetInv
<1>7. S!OnePod => S!UpdatedInv'
  BY <1>0, <1>2, S!OthersUpdated, Assumed DEF SetInv
<1>8. S!OneSpec => S!OneSpec'
  <2>1. ASSUME NEW t \in Templates, S!SpecsAre(t)  PROVE S!SpecsAre(t)'
    BY <1>1, <1>3, <2>1, SameConstants DEF S!SpecsAre, S!Of
  <2> QED  BY <2>1 DEF S!OneSpec
<1> QED
  BY <1>4, <1>5, <1>6, <1>7, <1>8 DEF SetInv, S!OnePod, S!NoEdits

LEMMA SetNext ==
    ASSUME Inv, Inv', SetInv, [Next]_vars, Injected = Pods
    PROVE  SetInv'
<1>1. ASSUME S!Next  PROVE SetInv'
  <2>0. S!TypeOK /\ S!TypeOK'  BY DEF Inv
  <2>1. S!CachesCurrent'  BY <1>1, <2>0, S!CachesNext, Assumed DEF SetInv
  <2>2. S!LabelInv'  BY <1>1, <2>0, S!LabelNext, Assumed DEF SetInv
  <2>3. S!SeenInv'  BY <1>1, <2>0, S!SeenNext, Assumed DEF SetInv
  <2>4. S!OnePod => S!UpdatedInv'
    BY <1>1, <2>0, S!UpdatedNext, Assumed DEF SetInv
  <2>5. S!NoEdits => S!OneSpec'
    BY <1>1, <2>0, S!OneSpecNext, Assumed DEF SetInv
  <2> QED
    BY <2>1, <2>2, <2>3, <2>4, <2>5 DEF SetInv, S!OnePod, S!NoEdits
<1> QED  BY <1>1, OwnKeeps, AsideIsStep, Steps DEF S!Next

RestInv == Inv /\ DataInv /\ SetInv /\ EditInv /\ ListedOld

LEMMA RestInit == Init => RestInv
<1> SUFFICES ASSUME Init PROVE RestInv  OBVIOUS
<1>1. S!Init /\ P!WorkerInit  BY SameDataSteps, SameDataSetSteps DEF Init
<1>2. /\ data = [d \in P!Names |-> None] /\ dataCache = data /\ podsCache = pods
      /\ fresh = {p \in Pods : pods[p] = None} /\ pc = "idle" /\ podList = {}
      /\ \A p \in Pods : pods[p] # None => pods[p].digest = None
  BY <1>1, SameConstants DEF S!Init, S!ClusterInit, P!WorkerInit
<1>3. DataInv
  BY <1>2
  DEF DataInv, P!DeliveryInv, P!Named, P!LocalInv, P!InstNamed, P!Tagged, P!Listed,
      P!FreshInv, P!ToldListed, P!ProgressInv, P!DelHeld, P!HeldWhileDeleted,
      P!SettledIsDelivered, P!SettledIsGone, P!Wanted
<1>4. S!SettledInv  BY <1>1, S!SettledInit, Assumed
<1>5. SetInv
  BY <1>1, <1>4, S!UpdatedInit, S!OneSpecInit, Assumed DEF SetInv, S!SettledInv
<1> QED  BY <1>2, <1>3, <1>5, InitInv, EditInit DEF RestInv, ListedOld

LEMMA RestNext ==
    ASSUME RestInv, [Next]_vars, "podLag" \notin Allowed, "undo" \notin Allowed,
           "reuseNames" \notin Allowed, Injected = Pods
    PROVE  RestInv'
<1>1. Inv'  BY StepInv DEF RestInv
<1> QED  BY <1>1, DataNext, SetNext, EditStep, ListedNext DEF RestInv

-----------------------------------------------------------------------------
(* At rest.  The two controllers' parts together.                          *)

LEMMA SameQuiet == SC!Quiet <=> S!Quiet
BY SameConstants
DEF SC!Quiet, S!Quiet, SC!DataEvents, S!DataEvents, SC!PodEvents, S!PodEvents

LEMMA SameSettled == ASSUME NEW d  PROVE DC!Settled(d) <=> P!Settled(d)
BY DEF DC!Settled, P!Settled

LEMMA SameDelivered == ASSUME NEW d  PROVE DC!Delivered(d) <=> P!Delivered(d)
<1>1. DC!Told(d) <=> P!Told(d)  BY DEF DC!Told, P!Told
<1>2. DC!ListsSpec(d) <=> P!ListsSpec(d)  BY DEF DC!ListsSpec, P!ListsSpec
<1>3. DC!Tally(data[d].st.phase, NumItems[data[d].spec])
      = P!Tally(data[d].st.phase, NumItems[data[d].spec])
  BY SameTally
<1>4. DC!Account(data[d].pod) = P!Account(data[d].pod)
  BY DEF DC!Account, P!Account
<1> QED  BY <1>1, <1>2, <1>3, <1>4 DEF DC!Delivered, P!Delivered

LEMMA AllCounted ==
    ASSUME NEW t \in Templates, NEW phase, DOMAIN phase = Items(t)
    PROVE  Cardinality({i \in DOMAIN phase : phase[i] = "success"}) = NumItems[t]
           <=> \A i \in Items(t) : phase[i] = "success"
<1> DEFINE n == NumItems[t]
           done == {i \in 1 .. n : phase[i] = "success"}
<1>1. n \in Nat /\ DOMAIN phase = 1 .. n  BY Assumed DEF Items
<1> HIDE DEF n
<1>2. IsFiniteSet(1 .. n) /\ Cardinality(1 .. n) = n  BY <1>1, FS_Interval
<1>3. done \in SUBSET (1 .. n)  OBVIOUS
<1>4. Cardinality(1 .. n) = Cardinality(done) => 1 .. n = done
  BY <1>2, <1>3, FS_Subset
<1>5. Cardinality(done) = n <=> done = 1 .. n  BY <1>2, <1>4
<1> QED  BY <1>1, <1>5 DEF n

(* Every pod has a Data of its own, which has the template as it is and is *)
(* delivered.                                                              *)
LEMMA RestingPod ==
    ASSUME RestInv, Quiet, ds # None, S!DistinctNames, S!OnePod \/ S!NoEdits,
           NEW p \in Pods, pods[p] # None
    PROVE  /\ DataName(p) \in Names /\ data[DataName(p)] \in P!DataObject
           /\ data[DataName(p)].pod = p /\ data[DataName(p)].spec = ds.spec
           /\ P!Delivered(DataName(p))
<1> DEFINE d == DataName(p)
<1>0. /\ S!TypeOK /\ P!TypeOK /\ S!Quiet /\ SetInv /\ DataInv
  BY SameQuiet DEF RestInv, Inv, Quiet
<1>8. \A e \in Names : P!Settled(e)  BY SameSettled DEF Quiet
<1>1. S!Nameable(p) /\ data[S!DataName(p)] # None
  BY <1>0, S!QuietIsAtRest, Assumed DEF SetInv
<1>2. d = S!DataName(p) /\ d \in Names
  BY <1>1, SameConstants DEF DataName, S!DataName, S!Names
<1>3. data[d] \in P!DataObject /\ data[d].pod \in Pods
  BY <1>0, <1>1, <1>2, SameConstants
  DEF P!TypeOK, P!ClusterTypeOK, P!DataObject
<1>4. data[d].pod = p
  BY <1>0, <1>1, <1>2, <1>3, SameConstants
  DEF SetInv, S!LabelInv, S!Labelled, S!DistinctNames
<1>5. S!EveryDataUpdated
  BY <1>0, S!QuietIsUpdated, S!OneSpecIsUpdated, Assumed DEF SetInv
<1>6. data[d].spec = ds.spec
  BY <1>0, <1>1, <1>2, <1>4, <1>5, SameConstants DEF S!EveryDataUpdated, S!HasPod
<1>7. P!Delivered(d)
  BY <1>0, <1>1, <1>2, <1>4, <1>8, SameConstants
  DEF DataInv, P!SettledIsGone, P!SettledIsDelivered, P!Wanted
<1> QED  BY <1>2, <1>3, <1>4, <1>6, <1>7

(* Its runtime has reported everything iff it counts as a success.         *)
LEMMA RestingSuccess ==
    ASSUME RestInv, Quiet, ds # None, S!DistinctNames, S!OnePod \/ S!NoEdits,
           NEW p \in Pods, pods[p] # None
    PROVE  Ready(p) <=> S!Success(data[DataName(p)]) = NumItems[ds.spec]
<1> DEFINE obj == data[DataName(p)]
           done == {i \in DOMAIN obj.st.phase : obj.st.phase[i] = "success"}
<1>1. obj \in P!DataObject /\ obj.pod = p /\ obj.spec = ds.spec
      /\ P!Delivered(DataName(p))
  BY RestingPod
<1>2. /\ pods[p].digest = Digest[ds.spec] /\ obj.st # None /\ obj.st.of = ds.spec
      /\ obj.st.sum = P!Tally(obj.st.phase, NumItems[ds.spec])
  BY <1>1 DEF P!Delivered, P!Told, P!ListsSpec
<1>3. obj.st \in P!Status /\ ds.spec \in Templates
  BY <1>1, <1>2 DEF P!DataObject
<1>4. DOMAIN obj.st.phase = Items(ds.spec)
  BY <1>2, <1>3 DEF P!Status, P!Items, Items
<1>5. obj.st.sum["success"] = Cardinality(done)
  <2>1. "success" \in P!Fields /\ "success" # "dataItems"
    BY DEF P!Fields, P!Phases
  <2>2. obj.st.sum["success"] = P!Cardinality(done)
    BY <1>2, <2>1 DEF P!Tally
  <2> QED  BY <2>2, SameCardinality
<1>6. S!Success(obj) = Cardinality(done)  BY <1>2, <1>5 DEF S!Success
<1>7. Cardinality(done) = NumItems[ds.spec]
      <=> \A i \in Items(ds.spec) : obj.st.phase[i] = "success"
  BY <1>3, <1>4, AllCounted
<1> QED  BY <1>2, <1>6, <1>7 DEF Ready

LEMMA RestingCount ==
    ASSUME RestInv, Quiet, ds # None, S!DistinctNames, S!OnePod \/ S!NoEdits
    PROVE  ds.status.success = Cardinality({p \in Existing(pods) : Ready(p)})
<1> DEFINE ready == {p \in Existing(pods) : Ready(p)}
           live  == {d \in S!Names : S!HasPod(d)}
           done  == {d \in live : S!Success(data[d]) = NumItems[ds.spec]}
           f     == [p \in ready |-> DataName(p)]
<1>0. S!TypeOK /\ P!TypeOK /\ S!Quiet /\ SetInv
  BY SameQuiet DEF RestInv, Inv, Quiet
<1>1. ds.status.success = Cardinality(done)
  <2>1. ds.status = S!StatusOf(live)
    BY <1>0, S!QuietIsAtRest, Assumed DEF SetInv
  <2>2. ds.status.success = S!Cardinality(done)  BY <2>1 DEF S!StatusOf
  <2> QED  BY <2>2, SameCardinality
<1>2. ready = {p \in Pods : pods[p] # None /\ Ready(p)}
  BY <1>0 DEF Existing, P!TypeOK, P!ClusterTypeOK
<1>3. IsFiniteSet(ready)
  BY <1>2, Assumed, FS_Subset
<1>4. \A p \in ready : DataName(p) \in done /\ data[DataName(p)].pod = p
  <2> SUFFICES ASSUME NEW p \in ready
               PROVE  DataName(p) \in done /\ data[DataName(p)].pod = p
    OBVIOUS
  <2>1. p \in Pods /\ pods[p] # None /\ Ready(p)  BY <1>2
  <2>2. /\ DataName(p) \in Names /\ data[DataName(p)] # None
        /\ data[DataName(p)].pod = p
        /\ S!Success(data[DataName(p)]) = NumItems[ds.spec]
    BY <2>1, RestingPod, RestingSuccess, Assumed
  <2> QED  BY <2>1, <2>2, SameConstants DEF S!HasPod
<1>5. \A d \in done : \E p \in ready : DataName(p) = d
  <2> SUFFICES ASSUME NEW d \in done  PROVE \E p \in ready : DataName(p) = d
    OBVIOUS
  <2>1. /\ d \in S!Names /\ data[d] # None /\ pods[data[d].pod] # None
        /\ S!Success(data[d]) = NumItems[ds.spec]
    BY DEF S!HasPod
  <2>2. data[d].pod \in Pods /\ DataName(data[d].pod) = d
    BY <1>0, <2>1, SameConstants
    DEF P!TypeOK, P!ClusterTypeOK, P!DataObject, SetInv, S!LabelInv, S!Labelled,
        DataName, S!DataName
  <2> QED  BY <1>2, <2>1, <2>2, RestingSuccess
<1> HIDE DEF ready, done
<1>6. f \in Bijection(ready, done)
  BY <1>4, <1>5 DEF Bijection, Injection, Surjection, IsInjective
<1>7. ExistsBijection(ready, done)  BY <1>6 DEF ExistsBijection
<1>8. Cardinality(done) = Cardinality(ready)  BY <1>3, <1>7, FS_Bijection
<1> QED  BY <1>1, <1>8 DEF ready

(* When neither controller has anything left to do or to see, every pod of *)
(* the DataSet has its own Data, made from the template as it is now, and  *)
(* has been told of it; and the DataSet counts as successes exactly the    *)
(* pods whose runtime has reported all of that template's items.  So it is *)
(* whatever deliveries, retries, conflicts, failed calls, panics, restarts *)
(* and deletions came before, for any pods whose names end in different    *)
(* ways, in the cases the aliased map leaves (one pod, or no edits), when  *)
(* reconciles see current pods, no edit undoes one that did not arrive and *)
(* a name is used again only after the Data of its last pod has gone.      *)
THEOREM QuietDelivered ==
    ASSUME "podLag" \notin Allowed, "undo" \notin Allowed,
           "reuseNames" \notin Allowed, Injected = Pods, S!DistinctNames,
           S!OnePod \/ S!NoEdits
    PROVE  Spec => []QuietIsDelivered
<1>1. Init => RestInv  BY RestInit
<1>2. RestInv /\ [Next]_vars => RestInv'  BY RestNext
<1>3. RestInv => QuietIsDelivered
  <2> SUFFICES ASSUME RestInv, Quiet, ds # None
               PROVE  /\ \A p \in Existing(pods) :
                            /\ data[DataName(p)] # None
                            /\ data[DataName(p)].spec = ds.spec
                            /\ DC!Delivered(DataName(p))
                      /\ ds.status.success = Cardinality({p \in Existing(pods) : Ready(p)})
    BY DEF QuietIsDelivered
  <2>1. ASSUME NEW p \in Existing(pods)
        PROVE  /\ data[DataName(p)] # None /\ data[DataName(p)].spec = ds.spec
               /\ DC!Delivered(DataName(p))
    <3>1. p \in Pods /\ pods[p] # None
      BY DEF Existing, RestInv, Inv, P!TypeOK, P!ClusterTypeOK
    <3>2. /\ data[DataName(p)] \in P!DataObject
          /\ data[DataName(p)].spec = ds.spec /\ P!Delivered(DataName(p))
      BY <3>1, RestingPod
    <3> QED  BY <3>2, SameDelivered, Assumed
  <2> QED  BY <2>1, RestingCount
<1> QED  BY <1>1, <1>2, <1>3, PTL DEF Spec
=============================================================================
