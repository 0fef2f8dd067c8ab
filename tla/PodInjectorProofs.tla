-------------------------- MODULE PodInjectorProofs --------------------------
(***************************************************************************)
(* Proofs about PodInjector, for every set of pods and DataSets, every     *)
(* labelling, every configuration and every bound.                         *)
(***************************************************************************)
EXTENDS PodInjector, FiniteSetTheorems, SequenceTheorems, TLAPS

-----------------------------------------------------------------------------
(* The patches *)

Mounts == SUBSET (Shared \cup {"pod-data"})
Container == [name : ContainerNames, mounts : Mounts]

LEMMA FunctionIsSeq ==
    ASSUME NEW S, NEW n \in Nat, NEW f \in [1 .. n -> S]
    PROVE  f \in Seq(S)
OBVIOUS

(* Mounting the shared volumes leaves a container a container.             *)
LEMMA MountOne ==
    ASSUME NEW c \in Container
    PROVE  [c EXCEPT !.mounts = @ \cup Shared] \in Container
BY DEF Container, Mounts

LEMMA TemplateType ==
    ASSUME NEW p \in Pods
    PROVE  Template(p) \in PodObject
<1>1. OwnVolumes[p] \in Seq(VolumeNames)  BY PodInjectorAssumption
<1>2. << [name |-> "app", mounts |-> {}] >> \in Seq(Container)
  BY DEF Container, Mounts, ContainerNames
<1> QED  BY <1>1, <1>2 DEF Template, PodObject, Container, Mounts

(* A patched pod is again a pod (patchSidecar, patchVolumes, patchAffinity,*)
(* patchAnnotations), and the annotation names the DataSet it was mutated  *)
(* for.                                                                    *)
LEMMA PatchSidecarType ==
    ASSUME NEW pod \in PodObject
    PROVE  PatchSidecar(pod) \in PodObject
<1>1. pod.containers \in Seq(Container)  BY DEF PodObject, Container, Mounts
<1>2. [name |-> Runtime, mounts |-> {"pod-data"}] \in Container
  BY DEF Container, Mounts, ContainerNames
<1>3. Append(pod.containers, [name |-> Runtime, mounts |-> {"pod-data"}])
        \in Seq(Container)
  BY <1>1, <1>2
<1> QED  BY <1>3 DEF PatchSidecar, PodObject, Container, Mounts

LEMMA MountSharedType ==
    ASSUME NEW cs \in Seq(Container)
    PROVE  MountShared(cs) \in Seq(Container)
<1>1. Len(cs) \in Nat /\ cs \in [1 .. Len(cs) -> Container]
  OBVIOUS
<1>2. \A i \in 1 .. Len(cs) : [cs[i] EXCEPT !.mounts = @ \cup Shared] \in Container
  BY <1>1, MountOne
<1>3. MountShared(cs) \in [1 .. Len(cs) -> Container]
  BY <1>1, <1>2 DEF MountShared
<1> QED  BY <1>1, <1>3, FunctionIsSeq

LEMMA PatchVolumesType ==
    ASSUME NEW pod \in PodObject
    PROVE  PatchVolumes(pod) \in PodObject
<1>1. pod.containers \in Seq(Container) /\ pod.volumes \in Seq(VolumeNames)
  BY DEF PodObject, Container, Mounts
<1>2. MountShared(pod.containers) \in Seq(Container)
  BY <1>1, MountSharedType
<1>3. pod.volumes \o Injected \in Seq(VolumeNames)
  <2>1. Injected \in Seq({"share-data", "host-data", "pod-data"})  BY DEF Injected
  <2>2. Injected \in Seq(VolumeNames)  BY <2>1 DEF VolumeNames, Injected
  <2> QED  BY <1>1, <2>2
<1> QED  BY <1>2, <1>3 DEF PatchVolumes, PodObject, Container, Mounts

LEMMA PatchAffinityType ==
    ASSUME NEW pod \in PodObject, NEW s \in DataSets
    PROVE  PatchAffinity(pod, s) \in PodObject
<1>1. Append(pod.affinity, Selector[s]) \in Seq({Selector[t] : t \in DataSets})
  BY DEF PodObject
<1> QED  BY <1>1 DEF PatchAffinity, PodObject

LEMMA MutatePodType ==
    ASSUME NEW pod \in PodObject, NEW s \in DataSets
    PROVE  /\ MutatePod(pod, s) \in PodObject
           /\ MutatePod(pod, s).dataset = s
<1>1. PatchAffinity(PatchVolumes(PatchSidecar(pod)), s) \in PodObject
  BY PatchSidecarType, PatchVolumesType, PatchAffinityType
<1> QED  BY <1>1 DEF MutatePod, PatchAnnotations, PodObject

-----------------------------------------------------------------------------
(* Steps *)

Typed ==
    /\ pods \in [Pods -> PodObject \cup {None}]
    /\ request \in [Pods -> Requests \cup {None}]
    /\ datasets \subseteq DataSets /\ cached \subseteq DataSets
    /\ server \in {"down", "serving", "started"}
    /\ informer \in {"none", "asked", "synced"} /\ elders \subseteq datasets
    /\ writes \in 0 .. MaxWrites

(* What a step does to requests and stored pods, whatever action it is:    *)
(* this is all that the three theorems need to know of the actions.        *)
Submitted(p) == \E op \in {"CREATE", "UPDATE"}, pod \in PodObject :
    /\ request[p] = None
    /\ op = "CREATE" <=> pods[p] = None
    /\ IF pods[p] = None THEN pod = Template(p)
       ELSE pod = [pods[p] EXCEPT !.digest = 1 - @]
    /\ request' = [request EXCEPT ![p] =
                      [op |-> op, sent |-> pod, pod |-> pod, state |-> "sent"]]
    /\ pods' = pods
AnsweredWith(p, pod) ==
    /\ request[p] \in Requests /\ pod \in PodObject
    /\ \E state \in {"answered", "ignored"} :
          request' = [request EXCEPT ![p].pod = pod, ![p].state = state]
    /\ pods' = pods
Mutated(p) == \E s \in DataSets :
    /\ request[p] \in Requests /\ request[p].pod.dataset = None
    /\ ContainsAll(Labels[p], Selector[s])
    /\ AnsweredWith(p, MutatePod(request[p].pod, s))
Passed(p) == request[p] \in Requests /\ AnsweredWith(p, request[p].pod)
Stored(p) ==
    /\ request[p] \in Requests
    /\ pods' = [pods EXCEPT ![p] = request[p].pod]
    /\ request' = [request EXCEPT ![p] = None]
Dropped(p) ==
    /\ request[p] \in Requests
    /\ pods' = pods /\ request' = [request EXCEPT ![p] = None]
Gone(p) ==
    /\ request[p] = None
    /\ pods' = [pods EXCEPT ![p] = None] /\ request' = request
Still == pods' = pods /\ request' = request

Effect == \/ Still
          \/ \E p \in Pods : \/ Submitted(p) \/ Mutated(p) \/ Passed(p)
                             \/ Stored(p) \/ Dropped(p) \/ Gone(p)

LEMMA NextEffect ==
    ASSUME Typed, [Next]_vars
    PROVE  Effect
<1> USE DEF Typed
<1>1. ASSUME NEW p \in Pods, SubmitCreate(p) PROVE Submitted(p)
  BY <1>1, TemplateType DEF SubmitCreate, Submit, Submitted
<1>2. ASSUME NEW p \in Pods, SubmitUpdate(p) PROVE Submitted(p)
  <2>1. pods[p] \in PodObject  BY <1>2 DEF SubmitUpdate
  <2>2. pods[p].digest \in {0, 1} /\ 1 - pods[p].digest \in {0, 1}
    BY <2>1 DEF PodObject
  <2>3. [pods[p] EXCEPT !.digest = 1 - @] \in PodObject
    BY <2>1, <2>2 DEF PodObject
  <2> QED  BY <1>2, <2>3 DEF SubmitUpdate, Submit, Submitted
<1>3. ASSUME NEW p \in Pods, Handle(p) PROVE Mutated(p) \/ Passed(p)
  <2>1. request[p] \in Requests /\ NeedsInjection(request[p].pod)
    BY <1>3 DEF Handle, ToFind, Pending
  <2>2. request[p].pod \in PodObject  BY <2>1 DEF Requests
  <2>3. CASE Selecting(p) # {}
    <3>1. PICK s \in Selecting(p) : Answer(p, MutatePod(request[p].pod, s))
      BY <1>3, <2>3 DEF Handle
    <3>2. s \in DataSets /\ ContainsAll(Labels[p], Selector[s])
      BY <3>1 DEF Selecting
    <3>3. MutatePod(request[p].pod, s) \in PodObject  BY <2>2, <3>2, MutatePodType
    <3>4. AnsweredWith(p, MutatePod(request[p].pod, s))
      BY <2>1, <3>1, <3>3 DEF Answer, Settle, AnsweredWith
    <3> QED  BY <2>1, <2>3, <3>2, <3>4 DEF Mutated, NeedsInjection
  <2>4. CASE Selecting(p) = {}
    BY <1>3, <2>1, <2>2, <2>4 DEF Handle, Answer, Settle, Passed, AnsweredWith
  <2> QED  BY <2>3, <2>4
<1>4. ASSUME NEW p \in Pods, PassInjected(p) \/ ListTooEarly(p) \/ NoAnswer(p)
      PROVE  Passed(p)
  <2>1. request[p] \in Requests /\ request[p].pod \in PodObject
    BY <1>4 DEF PassInjected, ListTooEarly, NoAnswer, ToFind, Pending, Requests
  <2> QED
    BY <1>4, <2>1
    DEF PassInjected, ListTooEarly, NoAnswer, Answer, Ignore, Settle, Passed,
        AnsweredWith
<1>5. ASSUME NEW p \in Pods, Admit(p) PROVE Stored(p)
  BY <1>5 DEF Admit, Answered, Stored
<1>6. ASSUME NEW p \in Pods, Reject(p) PROVE Dropped(p)
  BY <1>6 DEF Reject, Answered, Dropped
<1>7. ASSUME NEW p \in Pods, DeletePod(p) PROVE Gone(p)
  BY <1>7 DEF DeletePod, Gone
<1>8. ASSUME NEW s \in DataSets, CreateDataSet(s) \/ DeleteDataSet(s) PROVE Still
  BY <1>8 DEF CreateDataSet, DeleteDataSet, Still
<1>9. ASSUME Process \/ (\E p \in Pods : AskInformer(p)) \/ UNCHANGED vars
      PROVE  Still
  BY <1>9
  DEF Process, StartServer, StartCache, SyncInformer, Watch, Die, Outside,
      AskInformer, vars, Still
<1> QED
  BY <1>1, <1>2, <1>3, <1>4, <1>5, <1>6, <1>7, <1>8, <1>9 DEF Next, Effect

-----------------------------------------------------------------------------
(* Types *)

OpMatches == \A p \in Pods : request[p] # None =>
                 (request[p].op = "UPDATE" <=> pods[p] # None)
TypeInv == Typed /\ OpMatches

LEMMA TypeInvIsTypeOK == TypeInv => TypeOK
BY DEF TypeInv, Typed, OpMatches, TypeOK

LEMMA InitTyped == Init => TypeInv
BY PodInjectorAssumption DEF Init, TypeInv, Typed, OpMatches

LEMMA ScalarsTyped ==
    ASSUME Typed, [Next]_vars
    PROVE  /\ datasets' \subseteq DataSets /\ cached' \subseteq DataSets
           /\ server' \in {"down", "serving", "started"}
           /\ informer' \in {"none", "asked", "synced"}
           /\ elders' \subseteq datasets' /\ writes' \in 0 .. MaxWrites
<1> USE PodInjectorAssumption DEF Typed
<1>1. ASSUME NEW p \in Pods, SubmitCreate(p) \/ SubmitUpdate(p)
      PROVE  /\ UNCHANGED <<datasets, server, informer, cached, elders>>
             /\ writes' \in 0 .. MaxWrites
  BY <1>1 DEF SubmitCreate, SubmitUpdate, Submit, processVars
<1>2. ASSUME NEW p \in Pods,
             \/ PassInjected(p) \/ ListTooEarly(p) \/ AskInformer(p)
             \/ Handle(p) \/ NoAnswer(p) \/ Admit(p) \/ Reject(p) \/ DeletePod(p)
      PROVE  /\ UNCHANGED <<datasets, server, cached, elders, writes>>
             /\ informer' \in {"none", "asked", "synced"}
  BY <1>2
  DEF PassInjected, ListTooEarly, AskInformer, Handle, NoAnswer, Ignore, Answer,
      Settle, Admit, Reject, DeletePod, processVars
<1>3. ASSUME NEW s \in DataSets, CreateDataSet(s) \/ DeleteDataSet(s)
      PROVE  /\ datasets' \subseteq DataSets /\ elders' \subseteq datasets'
             /\ UNCHANGED <<server, informer, cached, writes>>
  BY <1>3 DEF CreateDataSet, DeleteDataSet, processVars
<1>4. ASSUME Process \/ UNCHANGED vars
      PROVE  /\ datasets' = datasets /\ cached' \subseteq DataSets
             /\ server' \in {"down", "serving", "started"}
             /\ informer' \in {"none", "asked", "synced"}
             /\ elders' \subseteq datasets' /\ writes' = writes
  BY <1>4
  DEF Process, StartServer, StartCache, SyncInformer, Watch, Die, Outside,
      vars, processVars
<1> QED  BY <1>1, <1>2, <1>3, <1>4 DEF Next

LEMMA EffectTyped ==
    ASSUME TypeInv, Effect
    PROVE  /\ pods' \in [Pods -> PodObject \cup {None}]
           /\ request' \in [Pods -> Requests \cup {None}]
           /\ OpMatches'
<1> USE NoneAssumption DEF TypeInv, Typed
<1>1. CASE Still
  BY <1>1 DEF Still, OpMatches
<1>2. ASSUME NEW p \in Pods, Submitted(p)
      PROVE  request' \in [Pods -> Requests \cup {None}] /\ pods' = pods /\ OpMatches'
  <2>1. PICK op \in {"CREATE", "UPDATE"}, pod \in PodObject :
            /\ op = "CREATE" <=> pods[p] = None
            /\ request' = [request EXCEPT ![p] =
                   [op |-> op, sent |-> pod, pod |-> pod, state |-> "sent"]]
            /\ pods' = pods
    BY <1>2 DEF Submitted
  <2>2. [op |-> op, sent |-> pod, pod |-> pod, state |-> "sent"] \in Requests
    BY DEF Requests
  <2>3. request' \in [Pods -> Requests \cup {None}]  BY <2>1, <2>2
  <2> QED  BY <2>1, <2>2, <2>3 DEF OpMatches
<1>3. ASSUME NEW p \in Pods, NEW pod, AnsweredWith(p, pod)
      PROVE  request' \in [Pods -> Requests \cup {None}] /\ pods' = pods /\ OpMatches'
  <2>1. request[p] \in Requests /\ pod \in PodObject /\ pods' = pods
    BY <1>3 DEF AnsweredWith
  <2>0. PICK state \in {"answered", "ignored"} :
            request' = [request EXCEPT ![p].pod = pod, ![p].state = state]
    BY <1>3 DEF AnsweredWith
  <2> DEFINE new == [request[p] EXCEPT !.pod = pod, !.state = state]
  <2>2. new \in Requests /\ new.op = request[p].op  BY <2>1 DEF Requests
  <2>3. request' = [request EXCEPT ![p] = new]  BY <2>0, <2>1 DEF Requests
  <2> HIDE DEF new
  <2>4. request' \in [Pods -> Requests \cup {None}]  BY <2>2, <2>3
  <2>5. request[p] # None  BY <2>1
  <2> QED  BY <2>1, <2>2, <2>3, <2>4, <2>5 DEF OpMatches
<1>4. ASSUME NEW p \in Pods, Stored(p)
      PROVE  /\ pods' \in [Pods -> PodObject \cup {None}]
             /\ request' \in [Pods -> Requests \cup {None}] /\ OpMatches'
  <2>1. request[p].pod \in PodObject  BY <1>4 DEF Stored, Requests
  <2> QED  BY <1>4, <2>1 DEF Stored, OpMatches
<1>5. ASSUME NEW p \in Pods, Dropped(p) \/ Gone(p)
      PROVE  /\ pods' \in [Pods -> PodObject \cup {None}]
             /\ request' \in [Pods -> Requests \cup {None}] /\ OpMatches'
  BY <1>5 DEF Dropped, Gone, OpMatches
<1> QED
  BY <1>1, <1>2, <1>3, <1>4, <1>5 DEF Effect, Mutated, Passed

LEMMA TypeStep == TypeInv /\ [Next]_vars => TypeInv'
<1> SUFFICES ASSUME TypeInv, [Next]_vars PROVE TypeInv'
  OBVIOUS
<1>1. Typed  BY DEF TypeInv
<1>2. Effect  BY <1>1, NextEffect
<1> QED  BY <1>1, <1>2, EffectTyped, ScalarsTyped DEF TypeInv, Typed

(* The pods and requests that the webhook handles and leaves are           *)
(* well-formed, and a pod that is being created does not exist (Handle and *)
(* the patches).                                                           *)
THEOREM TypeCorrect == Spec => []TypeOK
<1>1. Spec => []TypeInv
  BY InitTyped, TypeStep, PTL DEF Spec
<1> QED  BY <1>1, TypeInvIsTypeOK, PTL

-----------------------------------------------------------------------------
(* Injection *)

(* What a stored pod and a pod in a request have in common: it is as it    *)
(* came from the template, or it was injected for a DataSet that selects it.*)
Mounted(pod) == \A i \in DOMAIN pod.containers :
    /\ Shared \subseteq pod.containers[i].mounts
    /\ pod.containers[i].mounts \subseteq {pod.volumes[j] : j \in DOMAIN pod.volumes}
Whole(p, pod) ==
    IF pod.dataset = None THEN Spec0(pod) = Spec0(Template(p))
    ELSE Cardinality(Runtimes(pod)) = 1 /\ Mounted(pod)
Selected(p, pod) ==
    pod.dataset # None => ContainsAll(Labels[p], Selector[pod.dataset])
Good(p, pod) == Whole(p, pod) /\ Selected(p, pod)

GoodInv == \A p \in Pods :
    /\ pods[p] # None => Good(p, pods[p])
    /\ request[p] # None => Good(p, request[p].pod)

(* Nothing but the annotation, the containers and the volumes matters.     *)
LEMMA GoodSame ==
    ASSUME NEW p, NEW a, NEW b, Good(p, a),
           a.dataset = b.dataset, a.containers = b.containers,
           a.volumes = b.volumes, a.affinity = b.affinity
    PROVE  Good(p, b)
BY DEF Good, Whole, Selected, Mounted, Runtimes, Spec0

LEMMA GoodTemplate ==
    ASSUME NEW p
    PROVE  Good(p, Template(p))
BY DEF Good, Whole, Selected, Template

Elements(seq) == {seq[j] : j \in DOMAIN seq}

LEMMA AppendThree ==
    ASSUME NEW S, NEW a \in Seq(S), NEW b \in Seq(S), Len(b) = 3
    PROVE  {b[1], b[2], b[3]} \subseteq Elements(a \o b)
<1> DEFINE new == a \o b
           n == Len(a)
<1>1. n \in Nat /\ new \in Seq(S) /\ Len(new) = n + 3
  <2>1. n \in Nat  BY LenProperties
  <2>2. a \o b \in Seq(S) /\ Len(a \o b) = Len(a) + Len(b)
    BY ConcatProperties, Zenon
  <2> QED  BY <2>1, <2>2
<1>2. new[n + 1] = b[1] /\ new[n + 2] = b[2] /\ new[n + 3] = b[3]
  <2>1. \A i \in 1 .. Len(a) + Len(b) :
            (a \o b)[i] = IF i <= Len(a) THEN a[i] ELSE b[i - Len(a)]
    BY ConcatProperties, Zenon
  <2>2. \A i \in 1 .. n + 3 : new[i] = IF i <= n THEN a[i] ELSE b[i - n]
    BY <2>1
  <2> HIDE DEF new, n
  <2>3. /\ (n + 1) - n = 1 /\ (n + 2) - n = 2 /\ (n + 3) - n = 3
        /\ {n + 1, n + 2, n + 3} \subseteq 1 .. n + 3
        /\ ~(n + 1 <= n) /\ ~(n + 2 <= n) /\ ~(n + 3 <= n)
    BY <1>1
  <2> QED  BY <2>2, <2>3
<1>3. DOMAIN new = 1 .. n + 3
  BY <1>1
<1> HIDE DEF new
<1>4. {n + 1, n + 2, n + 3} \subseteq DOMAIN new
  BY <1>1, <1>3
<1>5. {b[1], b[2], b[3]} \subseteq Elements(new)
  BY <1>2, <1>4 DEF Elements
<1> QED  BY <1>5 DEF new

(* The patches in mutatePod's order: the sidecar is there when the shared  *)
(* volumes are mounted.                                                    *)
LEMMA MutatedFields ==
    ASSUME NEW p \in Pods, NEW pod \in PodObject, NEW s \in DataSets,
           Spec0(pod) = Spec0(Template(p))
    PROVE  LET new == MutatePod(pod, s)
           IN  /\ DOMAIN new.containers = 1 .. 2
               /\ new.containers[1] = [name |-> "app", mounts |-> Shared]
               /\ new.containers[2] =
                      [name |-> Runtime, mounts |-> {"pod-data"} \cup Shared]
               /\ new.volumes = OwnVolumes[p] \o Injected
<1> DEFINE app == [name |-> "app", mounts |-> {}]
           kuda == [name |-> Runtime, mounts |-> {"pod-data"}]
           old == pod.containers
           both == Append(old, kuda)
<1>1. old = << app >> /\ pod.volumes = OwnVolumes[p]
  BY DEF Spec0, Template
<1>2. app \in Container /\ kuda \in Container
  BY DEF Container, Mounts, ContainerNames
<1> HIDE DEF app, kuda
<1>3. old \in Seq(Container) /\ Len(old) = 1 /\ old[1] = app
  BY <1>1, <1>2
<1> HIDE DEF old
<1>4. both \in Seq(Container) /\ Len(both) = 2 /\ both[1] = app /\ both[2] = kuda
  <2>1. /\ both \in Seq(Container) /\ Len(both) = Len(old) + 1
        /\ \A i \in 1 .. Len(old) : both[i] = old[i]
        /\ both[Len(old) + 1] = kuda
    BY <1>2, <1>3, AppendProperties
  <2> HIDE DEF both
  <2> QED  BY <1>3, <2>1
<1>5. DOMAIN both = 1 .. 2
  BY <1>4
<1> HIDE DEF both
<1>6. /\ PatchSidecar(pod).containers = both
      /\ PatchSidecar(pod).volumes = OwnVolumes[p]
      /\ PatchSidecar(pod) \in PodObject
  BY <1>1, PatchSidecarType DEF PatchSidecar, PodObject, both, kuda, old
<1> DEFINE mid == PatchVolumes(PatchSidecar(pod))
<1>7. /\ mid.containers = MountShared(both)
      /\ mid.volumes = OwnVolumes[p] \o Injected
      /\ mid \in PodObject
  BY <1>6, PatchVolumesType DEF PatchVolumes, PodObject
<1> HIDE DEF mid
<1>8. /\ MutatePod(pod, s).containers = mid.containers
      /\ MutatePod(pod, s).volumes = mid.volumes
  BY <1>7 DEF MutatePod, mid, PatchAffinity, PatchAnnotations, PodObject
<1>9. /\ DOMAIN MountShared(both) = 1 .. 2
      /\ MountShared(both)[1] = [app EXCEPT !.mounts = @ \cup Shared]
      /\ MountShared(both)[2] = [kuda EXCEPT !.mounts = @ \cup Shared]
  <2>1. \A i \in 1 .. 2 :
            MountShared(both)[i] = [both[i] EXCEPT !.mounts = @ \cup Shared]
    BY <1>5 DEF MountShared
  <2>2. DOMAIN MountShared(both) = 1 .. 2  BY <1>5 DEF MountShared
  <2>3. 1 \in 1 .. 2 /\ 2 \in 1 .. 2  OBVIOUS
  <2> QED  BY <1>4, <2>1, <2>2, <2>3
<1>10. /\ [app EXCEPT !.mounts = @ \cup Shared] = [name |-> "app", mounts |-> Shared]
       /\ [kuda EXCEPT !.mounts = @ \cup Shared] =
              [name |-> Runtime, mounts |-> {"pod-data"} \cup Shared]
  BY DEF app, kuda
<1> QED  BY <1>7, <1>8, <1>9, <1>10

LEMMA GoodMutated ==
    ASSUME NEW p \in Pods, NEW pod \in PodObject, NEW s \in DataSets,
           Good(p, pod), pod.dataset = None,
           ContainsAll(Labels[p], Selector[s])
    PROVE  Good(p, MutatePod(pod, s))
<1> DEFINE new == MutatePod(pod, s)
<1>1. new.dataset = s /\ s # None
  BY MutatePodType, NoneAssumption
<1>2. /\ DOMAIN new.containers = 1 .. 2
      /\ new.containers[1] = [name |-> "app", mounts |-> Shared]
      /\ new.containers[2] = [name |-> Runtime, mounts |-> {"pod-data"} \cup Shared]
      /\ new.volumes = OwnVolumes[p] \o Injected
  BY MutatedFields DEF Good, Whole
<1> HIDE DEF new
<1>3. Runtimes(new) = {2}
  BY <1>2 DEF Runtimes, Runtime
<1>4. Cardinality(Runtimes(new)) = 1
  BY <1>3, FS_Singleton
<1>5. Shared \cup {"pod-data"} \subseteq {new.volumes[j] : j \in DOMAIN new.volumes}
  <2>1. OwnVolumes[p] \in Seq(VolumeNames)
    BY PodInjectorAssumption
  <2>2. {"share-data", "host-data", "pod-data"} \subseteq VolumeNames
    BY DEF VolumeNames
  <2>3. {"share-data", "host-data", "pod-data"}
          \subseteq {new.volumes[j] : j \in DOMAIN new.volumes}
    <3>1. /\ Injected \in Seq(VolumeNames) /\ Len(Injected) = 3
          /\ Injected[1] = "share-data" /\ Injected[2] = "host-data"
          /\ Injected[3] = "pod-data"
      BY <2>2 DEF Injected
    <3>2. {Injected[1], Injected[2], Injected[3]}
              \subseteq Elements(OwnVolumes[p] \o Injected)
      BY <2>1, <3>1, AppendThree
    <3>3. {Injected[1], Injected[2], Injected[3]} \subseteq Elements(new.volumes)
      BY <1>2, <3>2
    <3> QED  BY <3>1, <3>3 DEF Elements
  <2> QED  BY <2>3 DEF Shared
<1>6. Mounted(new)
  BY <1>2, <1>5 DEF Mounted
<1> QED  BY <1>1, <1>4, <1>6 DEF Good, Whole, Selected, new

LEMMA GoodStep == TypeInv /\ GoodInv /\ [Next]_vars => GoodInv'
<1> SUFFICES ASSUME TypeInv, GoodInv, [Next]_vars PROVE GoodInv'
  OBVIOUS
<1>t. Typed /\ Effect  BY NextEffect DEF TypeInv
<1> USE <1>t DEF Typed
<1>1. CASE Still
  BY <1>1 DEF Still, GoodInv
<1>2. ASSUME NEW p \in Pods, Submitted(p) PROVE GoodInv'
  <2>1. PICK op \in {"CREATE", "UPDATE"}, pod \in PodObject :
            /\ IF pods[p] = None THEN pod = Template(p)
               ELSE pod = [pods[p] EXCEPT !.digest = 1 - @]
            /\ request' = [request EXCEPT ![p] =
                   [op |-> op, sent |-> pod, pod |-> pod, state |-> "sent"]]
            /\ pods' = pods
    BY <1>2 DEF Submitted
  <2>2. Good(p, pod)
    <3>1. CASE pods[p] = None
      BY <2>1, <3>1, GoodTemplate
    <3>2. CASE pods[p] # None
      <4>1. pods[p] \in PodObject /\ Good(p, pods[p])  BY <3>2 DEF GoodInv
      <4>2. /\ pod.dataset = pods[p].dataset /\ pod.containers = pods[p].containers
            /\ pod.volumes = pods[p].volumes /\ pod.affinity = pods[p].affinity
        BY <2>1, <3>2, <4>1 DEF PodObject
      <4> QED  BY <4>1, <4>2, GoodSame
    <3> QED  BY <3>1, <3>2
  <2> QED  BY <2>1, <2>2 DEF GoodInv
<1>3. ASSUME NEW p \in Pods, NEW pod, AnsweredWith(p, pod), Good(p, pod)
      PROVE  GoodInv'
  <2>1. request[p] \in Requests /\ pods' = pods  BY <1>3 DEF AnsweredWith
  <2>2. request'[p].pod = pod /\ \A q \in Pods \ {p} : request'[q] = request[q]
    BY <1>3, <2>1 DEF AnsweredWith, Requests
  <2> QED  BY <1>3, <2>1, <2>2 DEF GoodInv
<1>4. ASSUME NEW p \in Pods, request[p] \in Requests PROVE Good(p, request[p].pod)
  BY <1>4, NoneAssumption DEF GoodInv
<1>5. ASSUME NEW p \in Pods, Mutated(p) PROVE GoodInv'
  <2>1. PICK s \in DataSets :
            /\ request[p] \in Requests /\ request[p].pod.dataset = None
            /\ ContainsAll(Labels[p], Selector[s])
            /\ AnsweredWith(p, MutatePod(request[p].pod, s))
    BY <1>5 DEF Mutated
  <2>2. request[p].pod \in PodObject  BY <2>1 DEF Requests
  <2>3. Good(p, MutatePod(request[p].pod, s))  BY <1>4, <2>1, <2>2, GoodMutated
  <2> QED  BY <1>3, <2>1, <2>3
<1>6. ASSUME NEW p \in Pods, Passed(p) PROVE GoodInv'
  BY <1>3, <1>4, <1>6 DEF Passed
<1>7. ASSUME NEW p \in Pods, Stored(p) PROVE GoodInv'
  BY <1>4, <1>7 DEF Stored, GoodInv
<1>8. ASSUME NEW p \in Pods, Dropped(p) \/ Gone(p) PROVE GoodInv'
  BY <1>8 DEF Dropped, Gone, GoodInv
<1> QED  BY <1>1, <1>2, <1>5, <1>6, <1>7, <1>8 DEF Effect

LEMMA GoodAlways == Spec => [](TypeInv /\ GoodInv)
<1>1. Init => GoodInv
  BY DEF Init, GoodInv
<1> QED  BY <1>1, InitTyped, TypeStep, GoodStep, PTL DEF Spec

(* The webhook never stores half an injection: a pod with the annotation   *)
(* has one runtime container and the shared volumes in every container, a  *)
(* pod without is as its owner wrote it (Handle, mutatePod).               *)
THEOREM InjectionIsWhole == Spec => []InjectedWhole
<1>1. TypeInv /\ GoodInv => InjectedWhole
  BY DEF GoodInv, Good, Whole, Mounted, InjectedWhole
<1> QED  BY <1>1, GoodAlways, PTL

(* The annotation of a stored pod names a DataSet whose selector the pod's *)
(* labels satisfy (findDataSetForPod, ContainsAll).                        *)
THEOREM InjectionIsSelected == Spec => []InjectedBySelector
<1>1. TypeInv /\ GoodInv => InjectedBySelector
  BY DEF GoodInv, Good, Selected, ContainsAll, InjectedBySelector
<1> QED  BY <1>1, GoodAlways, PTL

-----------------------------------------------------------------------------
(* The process.  What makes an answer reliable is that a synced store      *)
(* holds every DataSet that was there before the process started, and that *)
(* nothing of the store outlives the process.                              *)

EldersCached ==
    /\ informer = "synced" => elders \subseteq cached
    /\ server = "down" => informer = "none"

LEMMA EldersStep == TypeInv /\ EldersCached /\ [Next]_vars => EldersCached'
<1> SUFFICES ASSUME Typed, EldersCached, [Next]_vars PROVE EldersCached'
  BY DEF TypeInv
<1> USE DEF EldersCached, Typed
<1>1. ASSUME NEW p \in Pods, SubmitCreate(p) \/ SubmitUpdate(p)
      PROVE  EldersCached'
  BY <1>1 DEF SubmitCreate, SubmitUpdate, Submit, processVars
<1>2. ASSUME NEW p \in Pods,
             \/ PassInjected(p) \/ ListTooEarly(p) \/ AskInformer(p)
             \/ Handle(p) \/ NoAnswer(p) \/ Admit(p) \/ Reject(p) \/ DeletePod(p)
      PROVE  EldersCached'
  BY <1>2
  DEF PassInjected, ListTooEarly, AskInformer, Handle, NoAnswer, Ignore, Answer,
      Settle, Admit, Reject, DeletePod, processVars
<1>3. ASSUME NEW s \in DataSets, CreateDataSet(s) \/ DeleteDataSet(s)
      PROVE  EldersCached'
  BY <1>3 DEF CreateDataSet, DeleteDataSet, processVars
<1>4. ASSUME Process \/ UNCHANGED vars
      PROVE  EldersCached'
  BY <1>4
  DEF Process, StartServer, StartCache, SyncInformer, Watch, Die, Outside,
      vars, processVars
<1> QED  BY <1>1, <1>2, <1>3, <1>4 DEF Next

Unserved(p) ==
    /\ Pending(p) /\ NeedsInjection(request[p].pod)
    /\ request'[p] # None /\ request'[p].state = "answered"
    /\ NeedsInjection(request'[p].pod)

(* Nothing but Handle answers such a request.                              *)
LEMMA OnlyHandleAnswers ==
    ASSUME Typed, [Next]_vars, NEW p \in Pods, Unserved(p)
    PROVE  Handle(p)
<1> USE DEF Typed, Unserved, Pending
<1>1. request[p] \in Requests /\ request'[p] # request[p]
  OBVIOUS
<1>2. ASSUME NEW q \in Pods,
             SubmitCreate(q) \/ SubmitUpdate(q) \/ Admit(q) \/ Reject(q)
      PROVE  FALSE
  BY <1>1, <1>2 DEF SubmitCreate, SubmitUpdate, Submit, Admit, Reject, Answered
<1>3. ASSUME NEW q \in Pods, ListTooEarly(q) \/ NoAnswer(q)
      PROVE  FALSE
  BY <1>1, <1>3 DEF ListTooEarly, NoAnswer, Ignore, Settle, Requests
<1>4. ASSUME NEW q \in Pods, PassInjected(q) PROVE FALSE
  BY <1>1, <1>4 DEF PassInjected, Answer, Settle
<1>5. ASSUME NEW q \in Pods, Handle(q) PROVE q = p
  BY <1>1, <1>5 DEF Handle, Answer, Settle
<1>6. ASSUME Process \/ (\E q \in Pods : AskInformer(q) \/ DeletePod(q)) \/ UNCHANGED vars
             \/ (\E s \in DataSets : CreateDataSet(s) \/ DeleteDataSet(s))
      PROVE  FALSE
  BY <1>1, <1>6
  DEF Process, StartServer, StartCache, SyncInformer, Watch, Die, Outside, vars,
      AskInformer, DeletePod, CreateDataSet, DeleteDataSet
<1> QED  BY <1>2, <1>3, <1>4, <1>5, <1>6 DEF Next

LEMMA EldersServedStep ==
    ASSUME TypeInv, EldersCached, [Next]_vars, NEW p \in Pods, Unserved(p)
    PROVE  \A s \in elders : ~ContainsAll(Labels[p], Selector[s])
<1>1. Typed /\ Handle(p)
  BY OnlyHandleAnswers DEF TypeInv
<1>2. request[p] \in Requests /\ request[p].pod \in PodObject
  BY <1>1 DEF Typed, Unserved, Pending, Requests
<1>3. ASSUME NEW s \in Selecting(p), Answer(p, MutatePod(request[p].pod, s))
      PROVE  FALSE
  <2>1. s \in DataSets  BY <1>1 DEF Selecting, Typed
  <2>2. request'[p].pod = MutatePod(request[p].pod, s)
    BY <1>1, <1>2, <1>3 DEF Answer, Settle, Typed, Requests
  <2>3. request'[p].pod.dataset # None
    BY <1>2, <2>1, <2>2, MutatePodType, NoneAssumption
  <2> QED  BY <2>3 DEF Unserved, NeedsInjection
<1>4. Selecting(p) = {}  BY <1>1, <1>3 DEF Handle
<1>5. elders \subseteq cached  BY <1>1 DEF Handle, Listable, EldersCached
<1> QED  BY <1>4, <1>5 DEF Selecting

(* The webhook turns a pod away uninjected only when none of the DataSets  *)
(* that it found at its start selects the pod: the requests it serves      *)
(* before its cache is there end in errors, not in such an answer (main,   *)
(* findDataSetForPod).                                                     *)
THEOREM EldersAreServed == Spec => EldersServed
<1>1. Init => EldersCached
  BY DEF Init, EldersCached
<1>2. Spec => [](TypeInv /\ EldersCached)
  BY <1>1, InitTyped, TypeStep, EldersStep, PTL DEF Spec
<1> DEFINE Served == \A p \in Pods :
        Unserved(p) => \A s \in elders : ~ContainsAll(Labels[p], Selector[s])
<1>3. TypeInv /\ EldersCached /\ [Next]_vars => [Served]_vars
  BY EldersServedStep
<1>4. Spec => [][Served]_vars
  BY <1>2, <1>3, PTL DEF Spec
<1> QED  BY <1>4 DEF Unserved, EldersServed
=============================================================================
