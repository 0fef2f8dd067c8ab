------------------------------- MODULE Delivery -------------------------------
(***************************************************************************)
(* What the Data controller promises the runtimes, without its worker, its *)
(* caches and its queue.  A runtime sees the digest on its pod and the     *)
(* items its Data's status lists:                                          *)
(*   - a pod is told of a template only when no status made for the pod    *)
(*     lists the items of another one, so that what the runtime reports    *)
(*     lands on the right items;                                           *)
(*   - a status starts to list items only as those of the spec of that     *)
(*     moment;                                                             *)
(*   - a Data that is held goes only after its pod has been silenced.      *)
(* Data and pods come and go, and specs change, at any time.               *)
(***************************************************************************)
CONSTANTS Names, Pods, Templates, Digest, None

VARIABLES
    datas,   \* per name: is it there, its pod, the template it wants and the
             \* one its status lists, and whether it is held
    pods     \* per pod: None, or the digest it has been told

vars == <<datas, pods>>

Absent == [there |-> FALSE, pod |-> None, wants |-> None, lists |-> None,
           held |-> FALSE]
New(p, t) == [there |-> TRUE, pod |-> p, wants |-> t, lists |-> None,
              held |-> FALSE]

Put(d, obj) == datas' = [datas EXCEPT ![d] = obj] /\ UNCHANGED pods
Set(p, obj) == pods' = [pods EXCEPT ![p] = obj] /\ UNCHANGED datas

Silent(p) == pods[p] = None \/ pods[p].digest = None
Listing(p, t) ==
    \A d \in Names : datas[d].there /\ datas[d].pod = p =>
        datas[d].lists \in {None, t}

Create(d) == /\ ~datas[d].there
             /\ \E p \in Pods, t \in Templates : Put(d, New(p, t))
Want(d)   == /\ datas[d].there
             /\ \E t \in Templates : Put(d, [datas[d] EXCEPT !.wants = t])
List(d)   == /\ datas[d].there
             /\ Put(d, [datas[d] EXCEPT !.lists = datas[d].wants])
Hold(d)   == /\ datas[d].there
             /\ Put(d, [datas[d] EXCEPT !.held = TRUE])
LetGo(d)  == /\ datas[d].there
             /\ datas[d].held => Silent(datas[d].pod)
             /\ Put(d, Absent) \/ Put(d, [datas[d] EXCEPT !.held = FALSE])

Come(p)    == pods[p] = None /\ Set(p, [digest |-> None])
Go(p)      == pods[p] # None /\ Set(p, None)
Silence(p) == pods[p] # None /\ Set(p, [digest |-> None])
Tell(p)    == /\ pods[p] # None
              /\ \E t \in Templates :
                    Listing(p, t) /\ Set(p, [digest |-> Digest[t]])

Init == /\ datas = [d \in Names |-> Absent]
        /\ pods \in [Pods -> {None, [digest |-> None]}]

Next == \/ \E d \in Names : Create(d) \/ Want(d) \/ List(d) \/ Hold(d) \/ LetGo(d)
        \/ \E p \in Pods : Come(p) \/ Go(p) \/ Silence(p) \/ Tell(p)

Spec == Init /\ [][Next]_vars
=============================================================================
