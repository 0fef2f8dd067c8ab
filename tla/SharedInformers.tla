--------------------------- MODULE SharedInformers ---------------------------
(***************************************************************************)
(* The generated client library: an informer factory shared by goroutines  *)
(* that each ask it for a lister, start it, wait for its caches and then   *)
(* read.  Factory methods hold the factory's lock for their whole body,    *)
(* except that WaitForCacheSync only takes its list of informers under it. *)
(* An informer lists and then watches what its namespace and list options  *)
(* select.  A lister returns pointers into the informer's store; whoever   *)
(* wants to change such an object has to copy it first.                    *)
(***************************************************************************)
EXTENDS DeepCopy, Integers, FiniteSets

CONSTANTS
    Clients,     \* goroutines that share the factory
    Wants,       \* Wants[c]: the kind whose lister client c uses
    Readers,     \* the clients that read and change objects in this run
    Objects,     \* names of the objects of every kind
    Selected,    \* those in the factory's namespace and list options
    MaxWrites,   \* bound on the changes of the API server's objects
    None

ASSUME SharedInformersAssumption ==
    /\ Wants \in [Clients -> Kinds] /\ Readers \subseteq Clients
    /\ Selected \subseteq Objects
    /\ MaxWrites \in Nat
    /\ "store" \notin Clients

VARIABLES
    stored,      \* stored[k]: the objects of kind k at the API server
    informers,   \* the informers made so far: [kind, runs, listed, seen]
    informer,    \* f.informers: the index of a kind's informer, 0 if none
    started,     \* f.startedInformers
    stopped,     \* the stop channel is closed
    at,          \* at[c]: where client c is
    lister,      \* lister[c]: the informer whose indexer its lister reads
    waiting,     \* waiting[c]: the informers it has still to wait for
    synced,      \* synced[c]: the kinds reported as synced to it
    held,        \* held[c]: the object it holds: its kind, and whether copied
    spoiled,     \* the owners of memory that someone else wrote to
    writes

factoryVars == <<informers, informer, started>>
clientVars  == <<at, lister, waiting, synced>>
memoryVars  == <<held, spoiled>>
vars == <<stored, stopped, writes, factoryVars, clientVars, memoryVars>>

Informers == DOMAIN informers
HasSynced(i) == informers[i].listed
Move(c, from, to) == at[c] = from /\ at' = [at EXCEPT ![c] = to]

-----------------------------------------------------------------------------
(* The factory *)

NewInformer(k) == [kind |-> k, runs |-> 0, listed |-> FALSE, seen |-> {}]

(* A mutant of InformerFor: no look whether the kind has an informer.      *)
InformerForNew(k) ==
    /\ informers' = Append(informers, NewInformer(k))
    /\ informer' = [informer EXCEPT ![k] = Len(informers) + 1]
InformerFor(k) ==
    IF informer[k] # 0 THEN UNCHANGED <<informers, informer>>
    ELSE /\ informers' = Append(informers, NewInformer(k))
         /\ informer' = [informer EXCEPT ![k] = Len(informers) + 1]

(* f.Data().V1alpha1().Datas().Lister() and DataSets().Lister().           *)
GetLister(c) ==
    /\ Move(c, "idle", "lister")
    /\ InformerFor(Wants[c])
    /\ lister' = [lister EXCEPT ![c] = informer'[Wants[c]]]
    /\ UNCHANGED <<stored, stopped, writes, started, waiting, synced, memoryVars>>

Requested == {k \in Kinds : informer[k] # 0}

Start(c) ==
    /\ Move(c, "lister", "started")
    /\ informers' = [i \in Informers |->
           IF \E k \in Requested \ started : informer[k] = i
           THEN [informers[i] EXCEPT !.runs = @ + 1] ELSE informers[i]]
    /\ started' = started \cup Requested
    /\ UNCHANGED <<stored, stopped, writes, informer, lister, waiting, synced,
                   memoryVars>>

WaitForCacheSync(c) ==
    /\ Move(c, "started", "waiting")
    /\ waiting' = [waiting EXCEPT ![c] = {informer[k] : k \in Requested \cap started}]
    /\ UNCHANGED <<stored, stopped, writes, factoryVars, lister, synced, memoryVars>>

(* A mutant of CacheSynced: the answer for one kind is taken for all.      *)
CacheSyncedAny(c, i) ==
    /\ at[c] = "waiting" /\ i \in waiting[c] /\ HasSynced(i)
    /\ waiting' = [waiting EXCEPT ![c] = {}]
    /\ synced' = [synced EXCEPT ![c] = Kinds]
    /\ UNCHANGED <<stored, stopped, writes, factoryVars, at, lister, memoryVars>>
CacheSynced(c, i) ==
    /\ at[c] = "waiting" /\ i \in waiting[c] /\ HasSynced(i)
    /\ waiting' = [waiting EXCEPT ![c] = @ \ {i}]
    /\ synced' = [synced EXCEPT ![c] = @ \cup {informers[i].kind}]
    /\ UNCHANGED <<stored, stopped, writes, factoryVars, at, lister, memoryVars>>
StopSeen(c, i) ==
    /\ at[c] = "waiting" /\ i \in waiting[c] /\ stopped
    /\ waiting' = [waiting EXCEPT ![c] = @ \ {i}]
    /\ UNCHANGED <<stored, stopped, writes, factoryVars, at, lister, synced, memoryVars>>
Waited(c) ==
    /\ waiting[c] = {}
    /\ Move(c, "waiting", IF Wants[c] \in synced[c] THEN "ready" ELSE "gaveUp")
    /\ UNCHANGED <<stored, stopped, writes, factoryVars, lister, waiting, synced,
                   memoryVars>>

-----------------------------------------------------------------------------
(* Informer.Run: ListFunc, then the events of WatchFunc *)

Running(i) == informers[i].runs > 0 /\ ~stopped
ListFunc(k) == stored[k] \cap Selected
(* A mutant of WatchFunc: the list options are applied to the list only.   *)
WatchFuncUntweaked(k) == stored[k]
WatchFunc(k) == stored[k] \cap Selected

See(i, objs) ==
    /\ informers' = [informers EXCEPT ![i].listed = TRUE, ![i].seen = objs]
    /\ UNCHANGED <<stored, stopped, writes, informer, started, clientVars, memoryVars>>
List(i) == Running(i) /\ ~HasSynced(i) /\ See(i, ListFunc(informers[i].kind))
(* A mutant of Watch: deletions are not taken out of the store.            *)
WatchAdditions(i) ==
    /\ Running(i) /\ HasSynced(i)
    /\ \E o \in WatchFunc(informers[i].kind) \ informers[i].seen :
          See(i, informers[i].seen \cup {o})
Watch(i) ==
    LET seen == informers[i].seen
        now  == WatchFunc(informers[i].kind)
    IN  /\ Running(i) /\ HasSynced(i)
        /\ \/ \E o \in now \ seen : See(i, seen \cup {o})
           \/ \E o \in seen \ now : See(i, seen \ {o})

-----------------------------------------------------------------------------
(* The clients' objects.  "store" owns the memory of the informers'        *)
(* indexers and of the fake clientset's tracker.                           *)

KeepRest == UNCHANGED <<stored, stopped, writes, factoryVars, clientVars>>
Hold(c, object) == held' = [held EXCEPT ![c] = object]

(* The memory behind the object that c holds: the store's, or what a deep  *)
(* copy by c makes of it.                                                  *)
Memory(c) ==
    LET shared == OwnedBy(held[c].kind, "store")
    IN  IF held[c].copied THEN DeepCopyObject(held[c].kind, shared, c) ELSE shared

(* Get and List of a lister return pointers into the store.                *)
ReadLister(c) ==
    /\ at[c] = "ready" /\ held[c] = None
    /\ informers[lister[c]].seen # {}
    /\ Hold(c, [kind |-> Wants[c], copied |-> FALSE])
    /\ UNCHANGED spoiled /\ KeepRest
CopyHeld(c) ==
    /\ held[c] # None /\ ~held[c].copied
    /\ Hold(c, [held[c] EXCEPT !.copied = TRUE])
    /\ UNCHANGED spoiled /\ KeepRest
(* Get of the cached client, Get and List of the fake clientset: copies.   *)
(* A client is taken to set up its lister before it works on objects.      *)
ReadCopy(c, k) ==
    /\ at[c] = "ready" /\ held[c] = None
    /\ stored[Wants[c]] # {}
    /\ Hold(c, [kind |-> k, copied |-> TRUE])
    /\ UNCHANGED spoiled /\ KeepRest
(* The owner of a copy changes it and has the server's answers decoded     *)
(* into it, which writes through all its references.                       *)
WriteHeld(c) ==
    /\ held[c] # None /\ held[c].copied
    /\ spoiled' = spoiled \cup ({Memory(c)[p] : p \in DOMAIN Memory(c)} \ {c})
    /\ UNCHANGED held /\ KeepRest
Release(c) ==
    /\ held[c] # None /\ Hold(c, None)
    /\ UNCHANGED spoiled /\ KeepRest

-----------------------------------------------------------------------------
(* The environment: objects come and go, and the stop channel is closed.   *)

ServerWrites(k, o) ==
    /\ writes < MaxWrites /\ writes' = writes + 1
    /\ stored' = [stored EXCEPT ![k] = IF o \in @ THEN @ \ {o} ELSE @ \cup {o}]
    /\ UNCHANGED <<stopped, factoryVars, clientVars, memoryVars>>
Stop ==
    /\ ~stopped /\ stopped' = TRUE
    /\ UNCHANGED <<stored, writes, factoryVars, clientVars, memoryVars>>

Init ==
    /\ stored = [k \in Kinds |-> Objects]
    /\ informers = <<>> /\ informer = [k \in Kinds |-> 0] /\ started = {}
    /\ stopped = FALSE /\ writes = 0
    /\ at = [c \in Clients |-> "idle"] /\ lister = [c \in Clients |-> 0]
    /\ waiting = [c \in Clients |-> {}] /\ synced = [c \in Clients |-> {}]
    /\ held = [c \in Clients |-> None] /\ spoiled = {}

Setup(c) == \/ GetLister(c) \/ Start(c) \/ WaitForCacheSync(c) \/ Waited(c)
            \/ \E i \in Informers : CacheSynced(c, i) \/ StopSeen(c, i)
Use(c) == \/ ReadLister(c) \/ CopyHeld(c) \/ WriteHeld(c) \/ Release(c)
          \/ \E k \in {Wants[c], ListKind[Wants[c]]} : ReadCopy(c, k)

Next == \/ \E c \in Clients : Setup(c)
        \/ \E c \in Readers : Use(c)
        \/ \E i \in Informers : List(i) \/ Watch(i)
        \/ \E k \in Kinds, o \in Objects : ServerWrites(k, o)
        \/ Stop

Spec == Init /\ [][Next]_vars

(* A client that has begun goes on, and running informers list and watch.  *)
MaxInformers == Cardinality(Clients)
Fairness ==
    /\ \A c \in Clients : WF_vars(at[c] # "idle" /\ Setup(c))
    /\ \A i \in 1 .. MaxInformers :
          WF_vars(i \in Informers /\ (List(i) \/ Watch(i)))

FairSpec == Spec /\ Fairness

-----------------------------------------------------------------------------
(* Properties *)

TypeOK ==
    /\ stored \in [Kinds -> SUBSET Objects]
    /\ \A i \in Informers :
          /\ informers[i].kind \in Kinds
          /\ informers[i].runs \in {0, 1}
          /\ informers[i].seen \subseteq Selected
    /\ informer \in [Kinds -> 0 .. Len(informers)]
    /\ started \subseteq Requested
    /\ at \in [Clients -> {"idle", "lister", "started", "waiting", "ready", "gaveUp"}]
    /\ \A c \in Clients : /\ at[c] # "idle" => lister[c] \in Informers
                          /\ waiting[c] \subseteq Informers
                          /\ held[c] # None => held[c].kind \in {Wants[c], ListKind[Wants[c]]}

(* However many goroutines ask for a kind, they share one informer: a      *)
(* second one would watch the same objects again, or never be started      *)
(* (InformerFor looks the kind up before it makes one).                    *)
OneInformer ==
    \A i, j \in Informers : informers[i].kind = informers[j].kind => i = j

(* A lister that its client was told is synced reads an informer that has  *)
(* done its first list, whoever created and started that informer          *)
(* (WaitForCacheSync answers for the informers of its snapshot).           *)
ReadyIsSynced == \A c \in Clients : at[c] = "ready" => HasSynced(lister[c])

(* What the informers' stores hold is only ever changed by the informers:  *)
(* nobody who works on a deep copy writes to memory of somebody else.      *)
StoreIntact == spoiled = {}

(* A client that follows lister, start, wait gets there, however the       *)
(* others' calls interleave, and from then on its lister follows the       *)
(* server: after every change it comes to agree with it again, unless the  *)
(* stop channel is closed.                                                 *)
ListersServe ==
    \A c \in Clients :
        at[c] \in {"lister", "started", "waiting", "ready"} ~>
            \/ stopped
            \/ at[c] = "ready" /\ informers[lister[c]].seen = ListFunc(Wants[c])
=============================================================================
