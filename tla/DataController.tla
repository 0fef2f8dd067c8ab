---------------------------- MODULE DataController ----------------------------
(***************************************************************************)
(* DataReconciler: for every Data it keeps the digest of the Data's spec   *)
(* in an annotation of the pod (that is how the runtime container learns   *)
(* of new data), resets or recounts the Data's status, makes sure the      *)
(* pod's service account has the runtime's role, and guards deletion with  *)
(* a finalizer.                                                            *)
(*                                                                         *)
(* One action per API call, with the local code that follows it.  A call   *)
(* that takes effect although its answer is lost is a Fault at the next    *)
(* call.  The rest of the system is the environment at the end.            *)
(***************************************************************************)
EXTENDS Cluster

CONSTANTS
    ServiceAccount,  \* ServiceAccount[p]: pod.Spec.ServiceAccountName
    ReportPhases     \* the phases the runtime reports in this run

ASSUME DataControllerAssumption == ReportPhases \subseteq Phases \ {"waiting"}

VARIABLES
    queue,           \* the workqueue's dirty set: the Data to reconcile
    pc,              \* where the one worker is
    key,             \* the Data it reconciles
    inst,            \* its copy of the Data
    tag,             \* dataTag
    annotation,      \* the digest annotation in its copy of the pod
    bindings, bindingsCache   \* service accounts that have a rolebinding

localVars == <<pc, key, inst, tag, annotation>>
bindVars  == <<bindings, bindingsCache>>
dcVars    == <<queue, localVars, bindVars>>
vars      == <<dsVars, dataVars, podVars, budget, dcVars>>

pod == inst.pod
Account(p) == ServiceAccount[p]
Accounts == {Account(p) : p \in Pods}

-----------------------------------------------------------------------------
(* The two statuses the reconciler writes *)

Default(t) == Listing(t, [i \in Items(t) |-> "waiting"])

NoSum == [f \in Fields |-> 0]
OldSum(d) == IF d.st = None THEN NoSum ELSE d.st.sum
LatestSum(d) ==
    Tally(IF d.st = None THEN <<>> ELSE d.st.phase, NumItems[d.spec])

(* A mutant of MergePatch: the base is no deep copy, the patch is empty.   *)
MergePatchAliased(stored, old, new) == stored
(* A merge patch carries the fields that differ from the copy it was made  *)
(* from, and no resourceVersion.                                           *)
MergePatch(stored, old, new) ==
    [f \in Fields |-> IF new[f] # old[f] THEN new[f] ELSE stored[f]]

-----------------------------------------------------------------------------
(* Frames, and the ends of a reconcile.  Finish forgets the key; Abort     *)
(* returns an error, which puts the key back (the backoff is a delay).     *)

Rest     == UNCHANGED <<dsVars, budget>>
SameKey  == UNCHANGED <<queue, key, tag>> /\ Rest
SameCopy == UNCHANGED <<inst, annotation>>
SameApi  == UNCHANGED <<dataVars, podVars, bindVars>>

(* A mutant of Idle: the pod's annotation is still at hand afterwards.     *)
IdleWithPod == /\ pc' = "idle" /\ key' = None /\ inst' = None
               /\ tag' = None /\ UNCHANGED annotation
Idle == /\ pc' = "idle" /\ key' = None /\ inst' = None
        /\ tag' = None /\ annotation' = None

DropData(lag) == [lag EXCEPT ![key] = @ \cup {"data"}]
DropCopies ==
    /\ Idle
    /\ lagPods' = [p \in Pods |-> lagPods[p] \cup {"data"}]
    /\ UNCHANGED <<pods, podsCache, fresh, dataCache, dsVars>>

Abort ==
    /\ DropCopies
    /\ queue' = queue \cup {key}
    /\ lagData' = DropData(lagData) /\ UNCHANGED data

(* The last call of a reconcile: write, then forget both copies.           *)
FinishWith(obj) ==
    /\ DropCopies
    /\ data' = [data EXCEPT ![key] = obj]
    /\ lagData' = DropData([lagData EXCEPT ![key] =
                      Behind(@, obj # data[key], DataHolders, "data")])
    /\ UNCHANGED <<queue, bindVars, budget>>

InstCurrent == data[key] # None /\ Current("data", lagData[key])
PodCurrent  == pods[pod] # None /\ Current("data", lagPods[pod])

-----------------------------------------------------------------------------
(* Reconcile *)

GetDataGone(d) ==
    /\ pc = "idle" /\ d \in queue
    /\ dataCache[d] = None
    /\ queue' = queue \ {d}
    /\ UNCHANGED localVars /\ SameApi /\ Rest

GetData(d) ==
    /\ pc = "idle" /\ d \in queue
    /\ dataCache[d] # None
    /\ queue' = queue \ {d}
    /\ pc' = "getPod" /\ key' = d /\ inst' = dataCache[d]
    /\ tag' = Digest[dataCache[d].spec]
    /\ TakeData("data", d)
    /\ UNCHANGED <<annotation, podVars, bindVars>> /\ Rest

(* Without "podLag" the pod informer has caught up when the pod is read.   *)
PodReadable == "podLag" \in Allowed \/ "cache" \notin lagPods[pod]

(* A mutant of GetPodGone: without its pod, a Data is left as it is.       *)
GetPodGoneIgnored ==
    /\ pc = "getPod" /\ PodReadable
    /\ podsCache[pod] = None
    /\ pc' = "done"
    /\ SameKey /\ SameCopy /\ SameApi
GetPodGone ==
    /\ pc = "getPod" /\ PodReadable
    /\ podsCache[pod] = None
    /\ pc' = "removeFinalizer"
    /\ SameKey /\ SameCopy /\ SameApi

GetPod ==
    /\ pc = "getPod" /\ PodReadable
    /\ podsCache[pod] # None
    /\ pc' = "status"
    /\ annotation' = podsCache[pod].digest
    /\ TakePod("data", pod)
    /\ UNCHANGED <<inst, dataVars, bindVars>> /\ SameKey

-----------------------------------------------------------------------------
(* updateDataStatus.  The comparison that should skip an unchanged status  *)
(* compares a pointer with a struct and never skips.  A default status     *)
(* written over itself changes only startTime, and within one second       *)
(* nothing.                                                                *)

WriteStatus(obj) == inst' = obj /\ pc' = "roleBinding" /\ SameKey
                    /\ UNCHANGED <<annotation, podVars, bindVars>>

(* A mutant of ResetNeeded: the annotation is not compared with the tag.   *)
ResetAlways == TRUE
ResetNeeded == annotation # tag

ResetStatus ==
    /\ pc = "status" /\ ResetNeeded
    /\ InstCurrent
    /\ LET obj == [data[key] EXCEPT !.st = Default(inst.spec)]
       IN  /\ \E bump \in IF obj = data[key] THEN BOOLEAN ELSE {TRUE} :
                 WriteData("data", key, obj, bump)
           /\ WriteStatus(obj)

(* The schema requires all fields of a status: a patch of the counters     *)
(* alone cannot create one.                                                *)
PatchAccepted == data[key] # None /\ data[key].st # None

PatchStatus ==
    /\ pc = "status" /\ ~ResetNeeded
    /\ PatchAccepted
    /\ LET obj == [data[key] EXCEPT !.st.sum =
                      MergePatch(@, OldSum(inst), LatestSum(inst))]
       IN  PutData("data", key, obj) /\ WriteStatus(obj)

(* A mutant of StatusRejected: a conflict on the status is ignored.        *)
StatusConflictIgnored ==
    /\ pc = "status"
    /\ IF ResetNeeded THEN ~InstCurrent ELSE ~PatchAccepted
    /\ pc' = "roleBinding"
    /\ SameKey /\ SameCopy /\ SameApi
StatusRejected ==
    /\ pc = "status"
    /\ IF ResetNeeded THEN ~InstCurrent ELSE ~PatchAccepted
    /\ Abort /\ UNCHANGED <<bindVars, budget>>

-----------------------------------------------------------------------------
(* updateRoleBinding: the NotFound of the Get is returned even when the    *)
(* Create succeeds, so the reconcile that creates the binding fails.       *)

RoleBindingFound ==
    /\ pc = "roleBinding"
    /\ Account(pod) \in bindingsCache
    /\ pc' = "annotate"
    /\ SameKey /\ SameCopy /\ SameApi

CreateRoleBinding ==
    /\ pc = "roleBinding"
    /\ Account(pod) \notin bindingsCache
    /\ bindings' = bindings \cup {Account(pod)}
    /\ Abort /\ UNCHANGED <<bindingsCache, budget>>

-----------------------------------------------------------------------------
(* updatePodAnnotations, then the finalizer *)

(* A mutant of AfterAnnotate: a deleted Data is let go with its pod told.  *)
AfterAnnotateUnstripped == CASE inst.del /\ inst.fin   -> "removeFinalizer"
                             [] ~inst.del /\ ~inst.fin -> "addFinalizer"
                             [] OTHER                  -> "done"
AfterAnnotate == CASE inst.del /\ inst.fin   -> "strip"
                   [] ~inst.del /\ ~inst.fin -> "addFinalizer"
                   [] OTHER                  -> "done"

WriteDigest(dig, next) ==
    /\ PodCurrent
    /\ PutPod("data", pod, [digest |-> dig]) /\ UNCHANGED fresh
    /\ annotation' = dig /\ pc' = next
    /\ UNCHANGED <<inst, dataVars, bindVars>> /\ SameKey

Annotate ==
    /\ pc = "annotate" /\ annotation # tag
    /\ WriteDigest(tag, AfterAnnotate)

AlreadyAnnotated ==
    /\ pc = "annotate" /\ annotation = tag
    /\ pc' = AfterAnnotate
    /\ SameKey /\ SameCopy /\ SameApi

AnnotateRejected ==
    /\ pc = "annotate" /\ annotation # tag
    /\ ~PodCurrent
    /\ Abort /\ UNCHANGED <<bindVars, budget>>

(* The Data is being deleted: take the annotation off the pod first.       *)
Strip == pc = "strip" /\ WriteDigest(None, "removeFinalizer")

StripGone ==
    /\ pc = "strip" /\ pods[pod] = None
    /\ pc' = "removeFinalizer"
    /\ SameKey /\ SameCopy /\ SameApi

StripRejected ==
    /\ pc = "strip"
    /\ pods[pod] # None /\ ~PodCurrent
    /\ Abort /\ UNCHANGED <<bindVars, budget>>

(* Both removals of the finalizer: after Strip, and when the pod is gone.  *)
RemoveFinalizer ==
    /\ pc = "removeFinalizer"
    /\ InstCurrent
    /\ FinishWith(IF inst.del THEN None ELSE [data[key] EXCEPT !.fin = FALSE])

AddFinalizer ==
    /\ pc = "addFinalizer"
    /\ InstCurrent
    /\ FinishWith([data[key] EXCEPT !.fin = TRUE])

FinalizerRejected ==
    /\ pc \in {"removeFinalizer", "addFinalizer"}
    /\ ~InstCurrent
    /\ Abort /\ UNCHANGED <<bindVars, budget>>

Done == pc = "done" /\ FinishWith(data[key])

-----------------------------------------------------------------------------
(* Failures: any call may fail, and the manager may restart, which lists   *)
(* everything afresh and enqueues every Data.                              *)

Fault ==
    /\ pc \notin {"idle", "done"}
    /\ Disrupt("fault")
    /\ Abort /\ UNCHANGED bindVars

Boot ==
    /\ Idle /\ Relist
    /\ bindingsCache' = bindings
    /\ queue' = {d \in Names : data[d] # None}
    /\ UNCHANGED bindings
Restart == Disrupt("restart") /\ Boot

Work == \/ \E d \in Names : GetData(d) \/ GetDataGone(d)
        \/ GetPod \/ GetPodGone
        \/ ResetStatus \/ PatchStatus \/ StatusRejected
        \/ RoleBindingFound \/ CreateRoleBinding
        \/ Annotate \/ AlreadyAnnotated \/ AnnotateRejected
        \/ Strip \/ StripGone \/ StripRejected
        \/ RemoveFinalizer \/ AddFinalizer \/ FinalizerRejected \/ Done

-----------------------------------------------------------------------------
(* Watches: the controller is For(Data) and watches nothing else.          *)

OnDataEvents ==
    /\ DeliverData
    /\ queue' = queue \cup DataEvents
    /\ UNCHANGED <<dsVars, podVars, budget, localVars, bindVars>>
OnPodEvents ==
    /\ DeliverPods
    /\ UNCHANGED <<dsVars, dataVars, budget, dcVars>>
OnBindingEvents ==
    /\ bindingsCache # bindings
    /\ bindingsCache' = bindings
    /\ UNCHANGED <<dsVars, dataVars, podVars, budget, queue, localVars, bindings>>
(* A mutant of Resync: For(Data) has a predicate on the resourceVersion.   *)
ResyncFiltered(d) == Resyncs(dataCache[d]) /\ UNCHANGED vars
(* For(Data) has no predicate: a resync of the Data informer is work.      *)
Resync(d) ==
    /\ Resyncs(dataCache[d])
    /\ queue' = queue \cup {d}
    /\ UNCHANGED <<dsVars, dataVars, podVars, budget, localVars, bindVars>>
Deliver == \/ OnDataEvents \/ OnPodEvents \/ OnBindingEvents
           \/ \E d \in Names : Resync(d)

(* The environment: the DataSet controller, users, the garbage collector,  *)
(* and the runtime container of the pod, which is told of a digest by the  *)
(* annotation and reports the phases of that digest's items.               *)

DataSetCreates(p) ==
    /\ Nameable(p) /\ podsCache[p] # None
    /\ data[DataName(p)] = None
    /\ \E t \in Templates : PutData("env", DataName(p), NewData(p, t, 1))
    /\ UNCHANGED <<dsVars, podVars, budget, dcVars>>
Undoes(d, t) ==
    LET p == pods[data[d].pod] IN p # None /\ p.digest = Digest[t]
DataSetUpdates(d, t) ==
    /\ data[d] # None /\ data[d].spec # t
    /\ Undoes(d, t) => "undo" \in Allowed
    /\ Disrupt("edit")
    /\ PutData("env", d, [data[d] EXCEPT !.spec = t])
    /\ UNCHANGED <<dsVars, podVars, dcVars>>
DataSetPrunes(d) ==
    /\ data[d] # None /\ ~data[d].del
    /\ podsCache[data[d].pod] = None
    /\ DeleteData("env", d)
    /\ UNCHANGED <<dsVars, podVars, budget, dcVars>>
UserDeletes(d) ==
    /\ data[d] # None /\ ~data[d].del
    /\ Disrupt("userDelete")
    /\ DeleteData("env", d)
    /\ UNCHANGED <<dsVars, podVars, dcVars>>
RuntimeReports(d, ph) ==
    /\ data[d] # None /\ data[d].st # None
    /\ pods[data[d].pod] # None
    /\ pods[data[d].pod].digest = Digest[data[d].st.of]
    /\ \E i \in Items(data[d].st.of) :
          /\ data[d].st.phase[i] \notin {"success", ph}
          /\ PutData("env", d, [data[d] EXCEPT !.st.phase[i] = ph])
    /\ UNCHANGED <<dsVars, podVars, budget, dcVars>>
PodChurn(p) ==
    /\ CreatePod(p) \/ DeletePod(p) \/ UpdatePod(p)
    /\ UNCHANGED <<dsVars, dataVars, dcVars>>

Environment ==
    \/ \E p \in Pods : DataSetCreates(p) \/ PodChurn(p)
    \/ \E d \in Names : DataSetPrunes(d) \/ UserDeletes(d)
    \/ \E d \in Names, t \in Templates : DataSetUpdates(d, t)
    \/ \E d \in Names, ph \in ReportPhases : RuntimeReports(d, ph)

WorkerInit ==
    /\ queue = {} /\ bindings = {} /\ bindingsCache = {}
    /\ pc = "idle" /\ key = None /\ inst = None /\ tag = None /\ annotation = None

Init ==
    /\ ds = None
    /\ data = [d \in Names |-> None]
    /\ pods \in [Pods -> {None, [digest |-> None]}]
    /\ ClusterInit
    /\ WorkerInit

Next == Work \/ Deliver \/ Fault \/ Restart \/ Environment

Spec == Init /\ [][Next]_vars

(* The worker runs, and takes the keys in turn (the workqueue is a FIFO);  *)
(* the watches deliver, the informers resync, the DataSet controller       *)
(* prunes and creates, the runtime reports.  Disruptions are never owed.   *)
Fairness ==
    /\ WF_vars(Work) /\ WF_vars(OnDataEvents) /\ WF_vars(OnPodEvents)
    /\ WF_vars(OnBindingEvents)
    /\ \A d \in Names : WF_vars(Resync(d)) /\ SF_vars(GetData(d) \/ GetDataGone(d))
    /\ \A p \in Pods : WF_vars(DataSetCreates(p))
    /\ \A d \in Names : WF_vars(DataSetPrunes(d))
    /\ \A d \in Names : WF_vars(\E ph \in ReportPhases : RuntimeReports(d, ph))

FairSpec == Spec /\ Fairness

-----------------------------------------------------------------------------
(* Properties *)

(* The worker holds a copy exactly while it works on a key.                *)
TypeOK ==
    /\ ClusterTypeOK
    /\ queue \subseteq Names
    /\ pc \in {"idle", "getPod", "status", "roleBinding", "annotate", "strip",
               "addFinalizer", "removeFinalizer", "done"}
    /\ bindings \subseteq Accounts /\ bindingsCache \subseteq bindings
    /\ IF pc = "idle"
       THEN key = None /\ inst = None /\ tag = None /\ annotation = None
       ELSE /\ key \in Names /\ inst \in DataObject
            /\ tag \in {Digest[t] : t \in Templates}
            /\ annotation \in {Digest[t] : t \in Templates} \cup {None}

(* Nothing but a resync will make the controller look at d again.          *)
Settled(d) == d \notin queue /\ key # d /\ "cache" \notin lagData[d]
Wanted(d)  == data[d] # None /\ ~data[d].del /\ pods[data[d].pod] # None

Told(d)      == pods[data[d].pod].digest = Digest[data[d].spec]
ListsSpec(d) == data[d].st # None /\ data[d].st.of = data[d].spec
Delivered(d) ==
    /\ Told(d) /\ ListsSpec(d)
    /\ data[d].st.sum = Tally(data[d].st.phase, NumItems[data[d].spec])
    /\ data[d].fin
    /\ Account(data[d].pod) \in bindings

(* When the controller has nothing left to do for a Data, its pod carries  *)
(* the digest of its current spec, its status lists the items of that      *)
(* spec, the counters agree with the phases, it has its finalizer and the  *)
(* runtime its role (syncData has done all its steps on the last spec).    *)
SettledIsDelivered == \A d \in Names : Settled(d) /\ Wanted(d) => Delivered(d)

(* ... and a Data that was deleted is gone: syncData takes the finalizer   *)
(* off before it has nothing left to do.                                   *)
SettledIsGone == \A d \in Names : Settled(d) /\ data[d] # None => ~data[d].del

(* The finalizer only ever leaves a Data whose pod carries no digest any   *)
(* more, or is gone: a new Data of the same spec starts from a clean pod   *)
(* (syncData takes the annotation off first).                              *)
FinalizerGuards ==
    [][\A d \in Names :
          (/\ data[d] # None /\ data[d].fin
           /\ data'[d] = None \/ ~data'[d].fin)
          => \/ pods[data[d].pod] = None
             \/ pods[data[d].pod].digest = None]_vars

(* The controller keeps the promise of Delivery: what its worker, its      *)
(* stale copies and its retries do looks to a runtime like one listing,    *)
(* then one telling, and like silence before a Data goes.                  *)
Outline(obj) ==
    IF obj = None
    THEN [there |-> FALSE, pod |-> None, wants |-> None, lists |-> None,
          held |-> FALSE]
    ELSE [there |-> TRUE, pod |-> obj.pod, wants |-> obj.spec,
          lists |-> IF obj.st = None THEN None ELSE obj.st.of, held |-> obj.fin]
Promise == INSTANCE Delivery WITH datas <- [d \in Names |-> Outline(data[d])]
Delivers == Promise!Spec

(* What the runtime reported for the digest that its pod carries is never  *)
(* reset to "waiting" (updateDataStatus resets for a new digest only).     *)
ProgressKept ==
    [][\A d \in Names :
          (/\ data[d] # None /\ data[d].st # None
           /\ data'[d] # None /\ data'[d].st # None
           /\ data'[d].st.of = data[d].st.of
           /\ \E i \in Items(data[d].st.of) :
                 /\ data[d].st.phase[i] # "waiting"
                 /\ data'[d].st.phase[i] = "waiting")
          => \/ pods[data[d].pod] = None
             \/ pods[data[d].pod].digest # Digest[data[d].st.of]]_vars

(* Once the disruptions end, every Data is delivered for good and every    *)
(* deletion has been carried out: retries and events are enough.           *)
Converges ==
    <>[](\A d \in Names : data[d] # None => Wanted(d) /\ Delivered(d))

(* Where a reconcile was misled by a pod cache behind or by a new pod of   *)
(* the same name, no event makes up for it, since the controller does not  *)
(* watch pods: the next resync does (For(Data) has no predicate), unless   *)
(* the runtimes keep reporting while a Data is being deleted.              *)
ResyncCorrects ==
    \/ []<><<\E d \in Names, ph \in ReportPhases : RuntimeReports(d, ph)>>_vars
    \/ Converges
=============================================================================
