----------------------------- MODULE PodInjector -----------------------------
(***************************************************************************)
(* The admission webhook.  The API server sends it every CREATE and UPDATE *)
(* of a pod; a pod without the dataset annotation that some DataSet of the *)
(* namespace selects gets the runtime container, the volumes, an affinity  *)
(* and the annotation.  The API server then validates the result, and      *)
(* goes on with the pod as it came when the webhook answers with an error, *)
(* too late or not at all (failurePolicy: Ignore).                         *)
(*                                                                         *)
(* The process serves requests before its cache is started, and nothing    *)
(* asks for the DataSets before the first List: that creates the informer. *)
(***************************************************************************)
EXTENDS Integers, Sequences, FiniteSets

CONSTANTS
    Pods, DataSets,
    Labels,          \* Labels[p]: the labels of pod p, a function
    Selector,        \* Selector[s]: spec.workloadSelector of DataSet s
    OwnVolumes,      \* OwnVolumes[p]: the volumes of p's own template
    EnableAffinity,  \* config.EnableAffinity
    Readable,        \* whether the process can read its configuration
    Outages,         \* whether the webhook may be out of reach, or die
    LateDataSets,    \* whether DataSets may be created after the start
    MaxWrites,       \* bound on the requests made
    None

VolumeNames ==
    {"share-data", "host-data", "pod-data"}
    \cup UNION {{OwnVolumes[p][i] : i \in DOMAIN OwnVolumes[p]} : p \in Pods}

ASSUME PodInjectorAssumption ==
    /\ OwnVolumes \in [Pods -> Seq(VolumeNames)]
    /\ EnableAffinity \in BOOLEAN /\ Readable \in BOOLEAN
    /\ Outages \in BOOLEAN /\ LateDataSets \in BOOLEAN
    /\ MaxWrites \in Nat

VARIABLES
    pods,      \* the stored pods
    datasets,  \* the DataSets that exist
    server,    \* the process: "down", "serving" requests with its cache not
               \* yet started, "started"
    informer,  \* its DataSet informer: "none", "asked" for, "synced"
    cached,    \* the DataSets in that informer's store
    elders,    \* those that exist since before the process started
    request,   \* request[p]: the request for p under way
    writes     \* requests made

processVars == <<server, informer, cached, elders>>
vars == <<pods, datasets, processVars, request, writes>>

Shared == {"share-data", "host-data"}     \* mounted into every container
Injected == <<"share-data", "host-data", "pod-data">>
Runtime == "kuda-runtime"

ContainerNames == {"app", Runtime}
PodObject ==
    [dataset : DataSets \cup {None}, digest : {0, 1},
     containers : Seq([name : ContainerNames, mounts : SUBSET (Shared \cup {"pod-data"})]),
     volumes : Seq(VolumeNames), affinity : Seq({Selector[s] : s \in DataSets})]
Requests == [op : {"CREATE", "UPDATE"}, sent : PodObject, pod : PodObject,
             state : {"sent", "answered", "ignored"}]
(* None stands apart from every object.                                    *)
ASSUME NoneAssumption == None \notin DataSets \cup PodObject \cup Requests

(* A pod: its annotations, its containers with the volumes they mount, the *)
(* names of its volumes, and the selectors of its preferred affinity.  It  *)
(* arrives without the annotation: that a template of a workload has it    *)
(* already, or that an update takes it off, is not modelled.               *)
Template(p) ==
    [dataset |-> None, digest |-> 0,
     containers |-> << [name |-> "app", mounts |-> {}] >>,
     volumes |-> OwnVolumes[p], affinity |-> <<>>]
Spec0(pod) == <<pod.containers, pod.volumes, pod.affinity>>

-----------------------------------------------------------------------------
(* mutatePod *)

(* A mutant of ContainsAll: the labels are to be within the selector.      *)
ContainsAllSwapped(mapA, mapB) ==
    \A k \in DOMAIN mapA : k \in DOMAIN mapB /\ mapA[k] = mapB[k]
ContainsAll(mapA, mapB) ==
    \A k \in DOMAIN mapB : k \in DOMAIN mapA /\ mapA[k] = mapB[k]

PatchSidecar(pod) ==
    [pod EXCEPT !.containers =
        Append(@, [name |-> Runtime, mounts |-> {"pod-data"}])]
MountShared(containers) ==
    [i \in DOMAIN containers |-> [containers[i] EXCEPT !.mounts = @ \cup Shared]]
PatchVolumes(pod) ==
    [pod EXCEPT !.volumes = @ \o Injected, !.containers = MountShared(@)]
PatchAffinity(pod, s) ==
    IF EnableAffinity THEN [pod EXCEPT !.affinity = Append(@, Selector[s])] ELSE pod
(* A mutant of PatchAnnotations: the selector is written for the name.     *)
AnnotateSelector(pod, s) == [pod EXCEPT !.dataset = Selector[s]]
PatchAnnotations(pod, s) == [pod EXCEPT !.dataset = s]

(* A mutant of MutatePod: the volumes are mounted before the sidecar.      *)
MutateVolumesFirst(pod, s) ==
    PatchAnnotations(PatchAffinity(PatchSidecar(PatchVolumes(pod)), s), s)
MutatePod(pod, s) ==
    PatchAnnotations(PatchAffinity(PatchVolumes(PatchSidecar(pod)), s), s)

NeedsInjection(pod) == pod.dataset = None

(* The List from the cache is in no fixed order: the first match is any.   *)
Selecting(p) == {s \in cached : ContainsAll(Labels[p], Selector[s])}

-----------------------------------------------------------------------------
(* The life of a request *)

Submit(p, op, pod) ==
    /\ request[p] = None /\ writes < MaxWrites
    /\ request' = [request EXCEPT ![p] =
                      [op |-> op, sent |-> pod, pod |-> pod, state |-> "sent"]]
    /\ writes' = writes + 1
    /\ UNCHANGED <<pods, datasets, processVars>>

SubmitCreate(p) == pods[p] = None /\ Submit(p, "CREATE", Template(p))
(* For instance the Data controller's update of the digest annotation.     *)
SubmitUpdate(p) == pods[p] # None /\
                   Submit(p, "UPDATE", [pods[p] EXCEPT !.digest = 1 - @])

Pending(p) == request[p] # None /\ request[p].state = "sent"
Settle(p, state, pod) ==
    /\ request' = [request EXCEPT ![p].pod = pod, ![p].state = state]
    /\ UNCHANGED <<pods, datasets, server, cached, elders, writes>>
Answer(p, pod) == Settle(p, "answered", pod) /\ UNCHANGED informer
Ignore(p) == Settle(p, "ignored", request[p].pod)

(* Handle, for a pod that has the annotation already: no DataSet is needed.*)
PassInjected(p) ==
    /\ server # "down" /\ Pending(p) /\ ~NeedsInjection(request[p].pod)
    /\ Answer(p, request[p].pod)

(* findDataSetForPod: the first List creates the informer; it fails until  *)
(* the manager has started the cache, and blocks until it has synced.      *)
ToFind(p) == Pending(p) /\ NeedsInjection(request[p].pod)
ListTooEarly(p) ==
    /\ server = "serving" /\ ToFind(p)
    /\ Ignore(p) /\ informer' = "asked"
AskInformer(p) ==
    /\ server = "started" /\ informer = "none" /\ ToFind(p)
    /\ informer' = "asked"
    /\ UNCHANGED <<pods, datasets, server, cached, elders, request, writes>>
(* A mutant of Listable: the List answers from the store as it is.         *)
ListableUnsynced == server = "started" /\ informer # "none"
Listable == server = "started" /\ informer = "synced"

Handle(p) ==
    /\ Listable /\ ToFind(p)
    /\ LET pod == request[p].pod
       IN  IF Selecting(p) # {}
           THEN \E s \in Selecting(p) : Answer(p, MutatePod(pod, s))
           ELSE Answer(p, pod)

(* The API server gives up: nobody listens, the List blocks for too long,  *)
(* or the network is cut.                                                  *)
Unanswerable(p) ==
    \/ server = "down" \/ Outages
    \/ server = "started" /\ informer # "synced" /\ ToFind(p)
NoAnswer(p) ==
    /\ Pending(p) /\ Unanswerable(p)
    /\ Ignore(p) /\ UNCHANGED informer

Distinct(seq) == \A i, j \in DOMAIN seq : seq[i] = seq[j] => i = j
(* Container and volume names are unique; the spec of a stored pod does    *)
(* not change.                                                             *)
Valid(p, op, pod) ==
    IF op = "UPDATE" THEN Spec0(pod) = Spec0(pods[p])
    ELSE /\ Distinct([i \in DOMAIN pod.containers |-> pod.containers[i].name])
         /\ Distinct(pod.volumes)

Answered(p) == request[p] # None /\ request[p].state # "sent"
Admit(p) ==
    /\ Answered(p) /\ Valid(p, request[p].op, request[p].pod)
    /\ pods' = [pods EXCEPT ![p] = request[p].pod]
    /\ request' = [request EXCEPT ![p] = None]
    /\ UNCHANGED <<datasets, processVars, writes>>
Reject(p) ==
    /\ Answered(p) /\ ~Valid(p, request[p].op, request[p].pod)
    /\ request' = [request EXCEPT ![p] = None]
    /\ UNCHANGED <<pods, datasets, processVars, writes>>

DeletePod(p) ==
    /\ pods[p] # None /\ request[p] = None
    /\ pods' = [pods EXCEPT ![p] = None]
    /\ UNCHANGED <<datasets, processVars, request, writes>>
CreateDataSet(s) ==
    /\ LateDataSets /\ s \notin datasets
    /\ datasets' = datasets \cup {s}
    /\ UNCHANGED <<pods, processVars, request, writes>>
DeleteDataSet(s) ==
    /\ s \in datasets
    /\ datasets' = datasets \ {s} /\ elders' = elders \ {s}
    /\ UNCHANGED <<pods, server, informer, cached, request, writes>>

-----------------------------------------------------------------------------
(* The process *)

Outside == UNCHANGED <<pods, datasets, request, writes>>

(* main: without its configuration the process exits and serves nothing.   *)
LoadConfig == Readable
StartServer ==
    /\ server = "down" /\ LoadConfig
    /\ server' = "serving" /\ elders' = datasets
    /\ UNCHANGED <<informer, cached>> /\ Outside
StartCache ==
    /\ server = "serving" /\ server' = "started"
    /\ UNCHANGED <<informer, cached, elders>> /\ Outside
SyncInformer ==
    /\ server = "started" /\ informer = "asked"
    /\ informer' = "synced" /\ cached' = datasets
    /\ UNCHANGED <<server, elders>> /\ Outside
Watch ==
    /\ informer = "synced" /\ cached # datasets
    /\ cached' = datasets
    /\ UNCHANGED <<server, informer, elders>> /\ Outside
Die ==
    /\ Outages /\ server # "down"
    /\ server' = "down" /\ informer' = "none" /\ cached' = {} /\ elders' = {}
    /\ Outside

Process == StartServer \/ StartCache \/ SyncInformer \/ Watch \/ Die

Init ==
    /\ pods = [p \in Pods |-> None] /\ request = [p \in Pods |-> None]
    /\ datasets \in IF LateDataSets THEN SUBSET DataSets ELSE {DataSets}
    /\ server = "down" /\ informer = "none" /\ cached = {} /\ elders = {}
    /\ writes = 0

Next ==
    \/ \E p \in Pods : \/ SubmitCreate(p) \/ SubmitUpdate(p)
                       \/ PassInjected(p) \/ ListTooEarly(p) \/ AskInformer(p)
                       \/ Handle(p) \/ NoAnswer(p) \/ Admit(p) \/ Reject(p)
                       \/ DeletePod(p)
    \/ \E s \in DataSets : CreateDataSet(s) \/ DeleteDataSet(s)
    \/ Process

Spec == Init /\ [][Next]_vars

-----------------------------------------------------------------------------
(* Properties *)

(* The stored pods and the requests are well-formed; a pod is created only *)
(* while it does not exist, and updated only while it does.                *)
TypeOK ==
    /\ datasets \subseteq DataSets /\ cached \subseteq DataSets
    /\ server \in {"down", "serving", "started"}
    /\ informer \in {"none", "asked", "synced"} /\ elders \subseteq datasets
    /\ writes \in 0 .. MaxWrites
    /\ pods \in [Pods -> PodObject \cup {None}]
    /\ request \in [Pods -> Requests \cup {None}]
    /\ \A p \in Pods : request[p] # None =>
          (request[p].op = "UPDATE" <=> pods[p] # None)

Runtimes(pod) == {i \in DOMAIN pod.containers : pod.containers[i].name = Runtime}

(* A stored pod is injected as a whole or not at all: the annotation, from *)
(* which everything else in kuda concludes that the pod has a runtime,     *)
(* comes with one runtime container, and with the shared volumes in every  *)
(* container, whatever was created, updated, retried or left unanswered.   *)
(* This is of pods that arrive without the annotation and keep it: one     *)
(* that brings the annotation itself is skipped and stays bare, and an     *)
(* update that takes it off is injected a second time, and refused, or,    *)
(* when no DataSet selects the pod any more, leaves the runtime in it.     *)
InjectedWhole ==
    \A p \in Pods : pods[p] # None =>
        LET pod == pods[p]
        IN  IF pod.dataset = None THEN Spec0(pod) = Spec0(Template(p))
            ELSE /\ Cardinality(Runtimes(pod)) = 1
                 /\ \A i \in DOMAIN pod.containers :
                        Shared \subseteq pod.containers[i].mounts
                 /\ \A i \in DOMAIN pod.containers :
                        pod.containers[i].mounts \subseteq
                            {pod.volumes[j] : j \in DOMAIN pod.volumes}

(* The annotation names a DataSet that selects the pod.                    *)
InjectedBySelector ==
    \A p \in Pods : pods[p] # None /\ pods[p].dataset # None =>
        \A k \in DOMAIN Selector[pods[p].dataset] :
            /\ k \in DOMAIN Labels[p]
            /\ Labels[p][k] = Selector[pods[p].dataset][k]

(* The webhook answers that a pod is not to be injected only when no       *)
(* DataSet selects it of those that were there before the process started: *)
(* no answer comes from a cache that is not started or not synced, across  *)
(* restarts (main, and the List of findDataSetForPod).                     *)
EldersServed ==
    [][\A p \in Pods :
          (/\ Pending(p) /\ NeedsInjection(request[p].pod)
           /\ request'[p] # None /\ request'[p].state = "answered"
           /\ NeedsInjection(request'[p].pod))
          => \A s \in elders : ~ContainsAll(Labels[p], Selector[s])]_vars

=============================================================================
