------------------------- MODULE SharedInformersProofs -------------------------
(***************************************************************************)
(* Proofs about SharedInformers, for any number of goroutines and objects. *)
(***************************************************************************)
EXTENDS SharedInformers, SequenceTheorems, TLAPS

-----------------------------------------------------------------------------
(* Deep copies *)

(* The deep copy of every type has memory of its own for each reference    *)
(* the type has (the DeepCopyInto functions follow every pointer, slice    *)
(* and map).                                                               *)
LEMMA SpecIsCopied == DataTemplateSpecType = DataTemplateSpecCopies
                      /\ DataTemplateSpecType = DataSpecCopies
<1>1. LifecycleType = LifecycleCopies
  BY DEF LifecycleType, LifecycleCopies, LifecycleHandlerType, LifecycleHandlerCopies
<1>2. DataSourcesType = DataSourcesCopies
  BY DEF DataSourcesType, DataSourcesCopies, HdfsDataSourceCopies,
         AlluxioDataSourceCopies
<1> QED
  BY <1>1, <1>2 DEF DataTemplateSpecType, DataTemplateSpecCopies, DataSpecCopies,
     DataItemCopies

LEMMA DataIsCopied == DataType = DataCopies
BY SpecIsCopied DEF DataType, DataCopies, DataStatusCopies, DataItemsStatusCopies,
   DataItemStatusCopies, ObjectMetaCopies

LEMMA DataSetIsCopied == DataSetType \subseteq DataSetCopies
BY SpecIsCopied DEF DataSetType, DataSetCopies, DataSetSpecCopies, ObjectMetaCopies

LEMMA EverythingIsCopied ==
    ASSUME NEW kind \in DOMAIN TypePaths
    PROVE  TypePaths[kind] \subseteq CopiedPaths[kind]
<1>1. Struct("metadata", ListMetaType) = Struct("metadata", ListMetaCopies)
  BY DEF ListMetaCopies
<1>2. Ref("items", DataType) = Ref("items", DataCopies)  BY DataIsCopied
<1>3. Ref("items", DataSetType) \subseteq Ref("items", DataSetCopies)
  BY DataSetIsCopied DEF Ref
<1> QED
  BY <1>1, <1>2, <1>3, DataIsCopied, DataSetIsCopied
  DEF TypePaths, CopiedPaths, DataListCopies, DataSetListCopies

(* All the memory behind a copy belongs to the one who made it.            *)
LEMMA CopyIsOwn ==
    ASSUME NEW kind \in DOMAIN TypePaths, NEW caller,
           NEW p \in DOMAIN DeepCopyObject(kind, OwnedBy(kind, "store"), caller)
    PROVE  DeepCopyObject(kind, OwnedBy(kind, "store"), caller)[p] = caller
BY EverythingIsCopied DEF DeepCopyObject, OwnedBy

-----------------------------------------------------------------------------
(* The inductive invariant.  The factory has one informer per kind, which  *)
(* runs only if its kind was started; a client's lister reads the informer *)
(* of its kind; what a client has been told is synced has synced; objects  *)
(* are of the kinds the client works on, and nobody's memory is spoiled.   *)

InformerRecord == [kind : Kinds, runs : {0, 1}, listed : BOOLEAN,
                   seen : SUBSET Selected]

FactoryInv ==
    /\ stored \in [Kinds -> SUBSET Objects]
    /\ informers \in Seq(InformerRecord)
    /\ informer \in [Kinds -> 0 .. Len(informers)]
    /\ started \subseteq Requested
    /\ \A i \in Informers :
          /\ informer[informers[i].kind] = i
          /\ informers[i].kind \notin started => informers[i].runs = 0
    /\ \A k \in Requested : informers[informer[k]].kind = k

Ready(k) == k \in Requested /\ HasSynced(informer[k])

ClientInv ==
    /\ at \in [Clients -> {"idle", "lister", "started", "waiting", "ready", "gaveUp"}]
    /\ lister \in [Clients -> 0 .. Len(informers)]
    /\ waiting \in [Clients -> SUBSET Informers]
    /\ synced \in [Clients -> SUBSET Kinds]
    /\ \A c \in Clients :
          /\ at[c] # "idle" => lister[c] = informer[Wants[c]] /\ Wants[c] \in Requested
          /\ \A k \in synced[c] : Ready(k)
          /\ at[c] = "ready" => Wants[c] \in synced[c]

HeldKinds(c) == {Wants[c], ListKind[Wants[c]]}
MemoryInv ==
    /\ DOMAIN held = Clients
    /\ \A c \in Clients : held[c] # None => held[c].kind \in HeldKinds(c)
    /\ spoiled = {}

IInv == FactoryInv /\ ClientInv /\ MemoryInv

LEMMA InformersDomain ==
    ASSUME FactoryInv
    PROVE  /\ Informers = 1 .. Len(informers) /\ Len(informers) \in Nat
           /\ \A i \in Informers : informers[i] \in InformerRecord
           /\ \A k \in Kinds : informer[k] # 0 => informer[k] \in Informers
BY DEF FactoryInv, Informers

LEMMA InvImpliesProperties ==
    IInv => TypeOK /\ OneInformer /\ ReadyIsSynced /\ StoreIntact
<1> SUFFICES ASSUME IInv
             PROVE  TypeOK /\ OneInformer /\ ReadyIsSynced /\ StoreIntact
  OBVIOUS
<1>1. \A i \in Informers : informers[i] \in InformerRecord
  BY InformersDomain DEF IInv
<1>2. \A c \in Clients : at[c] # "idle" => lister[c] \in Informers
  BY InformersDomain DEF IInv, ClientInv, Requested
<1>3. TypeOK
  BY <1>1, <1>2 DEF IInv, FactoryInv, ClientInv, MemoryInv, HeldKinds, TypeOK,
     InformerRecord
<1>4. ReadyIsSynced
  BY DEF IInv, ClientInv, Ready, ReadyIsSynced
<1>5. StoreIntact  BY DEF IInv, MemoryInv, StoreIntact
<1>6. OneInformer  BY DEF IInv, FactoryInv, OneInformer
<1> QED  BY <1>3, <1>4, <1>5, <1>6

LEMMA InitInv == Init => IInv
<1> SUFFICES ASSUME Init  PROVE IInv
  OBVIOUS
<1>1. FactoryInv
  BY SharedInformersAssumption, EmptySeq
  DEF Init, FactoryInv, Informers, Requested
<1>2. ClientInv  BY <1>1 DEF Init, ClientInv, Informers
<1>3. MemoryInv  BY DEF Init, MemoryInv
<1> QED  BY <1>1, <1>2, <1>3 DEF IInv

-----------------------------------------------------------------------------
(* Every step keeps it *)

LEMMA SameFactory ==
    ASSUME FactoryInv, UNCHANGED <<stored, factoryVars>>
    PROVE  FactoryInv'
BY DEF FactoryInv, factoryVars, Informers, Requested

LEMMA SameClients ==
    ASSUME ClientInv, UNCHANGED <<factoryVars, clientVars>>
    PROVE  ClientInv'
BY DEF ClientInv, factoryVars, clientVars, Informers, Requested, Ready, HasSynced

LEMMA SameMemory ==
    ASSUME MemoryInv, UNCHANGED memoryVars
    PROVE  MemoryInv'
BY DEF MemoryInv, memoryVars, HeldKinds

(* An informer that has run or listed once more is still the one of its    *)
(* kind.                                                                   *)
LEMMA InformersUpdated ==
    ASSUME FactoryInv,
           informers' \in Seq(InformerRecord), Len(informers') = Len(informers),
           \A i \in Informers : informers'[i].kind = informers[i].kind,
           UNCHANGED <<stored, informer>>,
           started \subseteq started', started' \subseteq Requested,
           \A i \in Informers : informers[i].kind \notin started' => informers'[i].runs = 0
    PROVE  FactoryInv'
<1>1. Informers' = Informers /\ Requested' = Requested
  BY DEF FactoryInv, Informers, Requested
<1>2. \A k \in Requested : informer[k] \in Informers
  BY InformersDomain DEF Requested
<1>3. informer' \in [Kinds -> 0 .. Len(informers')]  BY DEF FactoryInv
<1>4. \A i \in Informers' :
          /\ informer'[informers'[i].kind] = i
          /\ informers'[i].kind \notin started' => informers'[i].runs = 0
  BY <1>1 DEF FactoryInv
<1>5. \A k \in Requested' : informers'[informer'[k]].kind = k
  BY <1>1, <1>2 DEF FactoryInv
<1> QED  BY <1>1, <1>3, <1>4, <1>5 DEF FactoryInv

LEMMA NewInformerType ==
    ASSUME NEW k \in Kinds
    PROVE  NewInformer(k) \in InformerRecord
BY DEF NewInformer, InformerRecord

(* GetLister makes an informer only for a kind that has none.              *)
LEMMA GetListerInv ==
    ASSUME IInv, NEW c \in Clients, GetLister(c)
    PROVE  IInv'
<1>0. FactoryInv /\ ClientInv /\ MemoryInv  BY DEF IInv
<1>1. Wants[c] \in Kinds  BY SharedInformersAssumption
<1>2. UNCHANGED <<stored, started, waiting, synced, memoryVars>> /\ at[c] = "idle"
      /\ at' = [at EXCEPT ![c] = "lister"] /\ InformerFor(Wants[c])
      /\ lister' = [lister EXCEPT ![c] = informer'[Wants[c]]]
  BY DEF GetLister, Move
<1>3. MemoryInv'  BY <1>0, <1>2, SameMemory
<1>4. CASE informer[Wants[c]] # 0
  <2>1. UNCHANGED factoryVars  BY <1>2, <1>4 DEF InformerFor, factoryVars
  <2>2. FactoryInv'  BY <1>0, <1>2, <2>1, SameFactory
  <2>3. Wants[c] \in Requested  BY <1>1, <1>4 DEF Requested
  <2>4. informer[Wants[c]] \in 0 .. Len(informers)  BY <1>0, <1>1 DEF FactoryInv
  <2>5. ClientInv'
    BY <1>0, <1>2, <2>1, <2>3, <2>4
    DEF ClientInv, factoryVars, Informers, Requested, Ready, HasSynced
  <2> QED  BY <1>3, <2>2, <2>5 DEF IInv
<1>5. CASE informer[Wants[c]] = 0
  <2> DEFINE k == Wants[c]
             n == Len(informers) + 1
  <2>1. informers' = Append(informers, NewInformer(k))
        /\ informer' = [informer EXCEPT ![k] = n]
    BY <1>2, <1>5 DEF InformerFor
  <2>2. informers \in Seq(InformerRecord) /\ Len(informers) \in Nat
    BY <1>0 DEF FactoryInv
  <2>3. NewInformer(k) \in InformerRecord  BY <1>1, NewInformerType
  <2>4. informers' \in Seq(InformerRecord) /\ Len(informers') = n
        /\ informers'[n] = NewInformer(k)
        /\ \A i \in Informers : informers'[i] = informers[i]
    BY <2>1, <2>2, <2>3, AppendProperties DEF Informers
  <2>5. Informers' = Informers \cup {n} /\ n \notin Informers
    BY <2>2, <2>4 DEF Informers
  <2>6. informer' \in [Kinds -> 0 .. Len(informers')]
    <3>1. informer \in [Kinds -> 0 .. Len(informers)]  BY <1>0 DEF FactoryInv
    <3>2. 0 .. Len(informers) \subseteq 0 .. n /\ n \in 0 .. n  BY <2>2
    <3> HIDE DEF n
    <3> QED  BY <2>1, <2>4, <3>1, <3>2
  <2>7. Requested' = Requested \cup {k} /\ k \notin Requested
    BY <1>0, <1>1, <1>5, <2>1, <2>2 DEF FactoryInv, Requested
  <2>8. \A i \in Informers : informers[i].kind # k
    BY <1>0, <1>5, <2>2 DEF FactoryInv, Informers
  <2>9. \A j \in Requested : informer[j] \in Informers /\ informer'[j] = informer[j]
    BY <1>0, <2>1, <2>7, InformersDomain DEF Requested, FactoryInv
  <2>10. FactoryInv'
    <3>1. \A i \in Informers' :
              /\ informer'[informers'[i].kind] = i
              /\ informers'[i].kind \notin started' => informers'[i].runs = 0
      <4>1. ASSUME NEW i \in Informers
            PROVE  /\ informer'[informers'[i].kind] = i
                   /\ informers'[i].kind \notin started' => informers'[i].runs = 0
        <5>1. informers[i].kind \in Kinds
          BY <1>0, InformersDomain DEF InformerRecord
        <5> QED  BY <1>0, <1>2, <2>1, <2>4, <2>8, <5>1 DEF FactoryInv
      <4>2. informer'[informers'[n].kind] = n /\ informers'[n].runs = 0
        BY <1>0, <1>1, <2>1, <2>4 DEF NewInformer, FactoryInv
      <4> QED  BY <2>5, <4>1, <4>2
    <3>2. \A j \in Requested' : informers'[informer'[j]].kind = j
      <4>1. informers'[informer'[k]].kind = k
        BY <1>0, <1>1, <2>1, <2>4 DEF NewInformer, FactoryInv
      <4>2. \A j \in Requested : informers'[informer'[j]].kind = j
        BY <1>0, <2>4, <2>9 DEF FactoryInv
      <4> QED  BY <2>7, <4>1, <4>2
    <3>3. started' \subseteq Requested'  BY <1>0, <1>2, <2>7 DEF FactoryInv
    <3>4. stored' \in [Kinds -> SUBSET Objects]  BY <1>0, <1>2 DEF FactoryInv
    <3> QED  BY <2>4, <2>6, <3>1, <3>2, <3>3, <3>4 DEF FactoryInv
  <2>11. \A j \in Kinds : Ready(j) => Ready(j)'
    BY <2>4, <2>7, <2>9 DEF Ready, HasSynced
  <2>12. ClientInv'
    <3>1. lister' \in [Clients -> 0 .. Len(informers')]
      BY <1>0, <1>1, <1>2, <2>2, <2>4, <2>6 DEF ClientInv
    <3>2. waiting' \in [Clients -> SUBSET Informers']
      BY <1>0, <1>2, <2>5 DEF ClientInv
    <3>3. ASSUME NEW e \in Clients, at'[e] # "idle"
          PROVE  lister'[e] = informer'[Wants[e]] /\ Wants[e] \in Requested'
      <4>1. CASE e = c  BY <1>0, <1>2, <2>7, <4>1 DEF ClientInv
      <4>2. CASE e # c
        BY <1>0, <1>2, <2>7, <2>9, <3>3, <4>2 DEF ClientInv
      <4> QED  BY <4>1, <4>2
    <3>4. \A e \in Clients : /\ \A j \in synced'[e] : Ready(j)'
                             /\ at'[e] = "ready" => Wants[e] \in synced'[e]
      BY <1>0, <1>2, <2>11 DEF ClientInv
    <3> QED  BY <1>0, <1>2, <3>1, <3>2, <3>3, <3>4 DEF ClientInv
  <2> QED  BY <1>3, <2>10, <2>12 DEF IInv
<1> QED  BY <1>4, <1>5

(* Start runs the informers that were requested and not started yet, each  *)
(* of them for the first time.                                             *)
LEMMA StartInv ==
    ASSUME IInv, NEW c \in Clients, Start(c)
    PROVE  IInv'
<1>0. FactoryInv /\ ClientInv /\ MemoryInv  BY DEF IInv
<1> DEFINE Ran(i) == \E k \in Requested \ started : informer[k] = i
<1>1. informers' = [i \in Informers |->
                       IF Ran(i) THEN [informers[i] EXCEPT !.runs = @ + 1]
                       ELSE informers[i]]
      /\ started' = started \cup Requested
      /\ UNCHANGED <<stored, informer, lister, waiting, synced, memoryVars>>
      /\ at[c] = "lister" /\ at' = [at EXCEPT ![c] = "started"]
  BY DEF Start, Move
<1>2. Informers = 1 .. Len(informers) /\ Len(informers) \in Nat
      /\ \A i \in Informers : informers[i] \in InformerRecord
  BY <1>0, InformersDomain
<1>3. ASSUME NEW i \in Informers
      PROVE  /\ informers'[i] \in InformerRecord
             /\ informers'[i].kind = informers[i].kind
             /\ informers'[i].listed = informers[i].listed
             /\ informers[i].kind \notin started' => informers'[i].runs = 0
  <2>1. informers[i].kind \in Requested
    <3>1. informers[i].kind \in Kinds  BY <1>2 DEF InformerRecord
    <3>2. informer[informers[i].kind] = i  BY <1>0 DEF FactoryInv
    <3> QED  BY <1>2, <3>1, <3>2 DEF Requested
  <2>2. CASE Ran(i)
    <3>1. PICK k \in Requested \ started : informer[k] = i  BY <2>2
    <3>2. informers[i].kind = k  BY <1>0, <3>1 DEF FactoryInv
    <3>3. informers[i].runs = 0  BY <1>0, <3>1, <3>2 DEF FactoryInv
    <3>4. informers'[i] = [informers[i] EXCEPT !.runs = 1]
      BY <1>1, <1>2, <2>2, <3>3 DEF InformerRecord
    <3> QED  BY <1>1, <1>2, <2>1, <3>4 DEF InformerRecord
  <2>3. CASE ~Ran(i)
    <3>1. informers'[i] = informers[i]  BY <1>1, <2>3
    <3> QED  BY <1>1, <1>2, <2>1, <3>1
  <2> QED  BY <2>2, <2>3
<1>4. informers' \in Seq(InformerRecord) /\ Len(informers') = Len(informers)
  <2>1. informers' \in [1 .. Len(informers) -> InformerRecord]
    BY <1>1, <1>2, <1>3
  <2> QED  BY <1>2, <2>1, SeqDef
<1>5. started \subseteq started' /\ started' \subseteq Requested
  BY <1>0, <1>1 DEF FactoryInv
<1>6. FactoryInv'  BY <1>0, <1>1, <1>3, <1>4, <1>5, InformersUpdated
<1>7. Informers' = Informers  BY <1>2, <1>4 DEF Informers
<1>8. \A k \in Kinds : Ready(k) => Ready(k)'
  BY <1>0, <1>1, <1>3, InformersDomain DEF Ready, HasSynced, Requested
<1>9. ClientInv'
  BY <1>0, <1>1, <1>4, <1>7, <1>8 DEF ClientInv, Requested
<1> QED  BY <1>0, <1>1, <1>6, <1>9, SameMemory DEF IInv

(* A client waits for informers of the factory, and is told of a kind when *)
(* the one informer of that kind has listed.                               *)
LEMMA WaitInv ==
    ASSUME IInv, NEW c \in Clients,
           \/ WaitForCacheSync(c) \/ Waited(c)
           \/ \E i \in Informers : CacheSynced(c, i) \/ StopSeen(c, i)
    PROVE  IInv'
<1>0. FactoryInv /\ ClientInv /\ MemoryInv  BY DEF IInv
<1>1. UNCHANGED <<stored, factoryVars, memoryVars, lister>>
  BY DEF WaitForCacheSync, Waited, CacheSynced, StopSeen
<1>2. FactoryInv' /\ MemoryInv'  BY <1>0, <1>1, SameFactory, SameMemory
<1>3. UNCHANGED <<informers, informer, Informers, Requested>>
      /\ \A k \in Kinds : Ready(k)' <=> Ready(k)
  BY <1>1 DEF factoryVars, Informers, Requested, Ready, HasSynced
<1>4. CASE WaitForCacheSync(c)
  <2>1. {informer[k] : k \in Requested \cap started} \subseteq Informers
    BY <1>0, InformersDomain DEF Requested
  <2> QED
    BY <1>0, <1>1, <1>2, <1>3, <1>4, <2>1
    DEF WaitForCacheSync, Move, ClientInv, IInv
<1>5. CASE Waited(c)
  BY <1>0, <1>1, <1>2, <1>3, <1>5 DEF Waited, Move, ClientInv, IInv
<1>6. ASSUME NEW i \in Informers, CacheSynced(c, i)  PROVE IInv'
  <2>1. informers[i].kind \in Kinds
    BY <1>0, InformersDomain DEF InformerRecord
  <2>2. Ready(informers[i].kind)
    <3>1. informer[informers[i].kind] = i /\ i # 0
      BY <1>0, InformersDomain DEF FactoryInv
    <3> QED  BY <2>1, <3>1, <1>6 DEF CacheSynced, Ready, Requested
  <2>3. synced' = [synced EXCEPT ![c] = @ \cup {informers[i].kind}]
        /\ waiting' = [waiting EXCEPT ![c] = @ \ {i}] /\ at' = at
    BY <1>6 DEF CacheSynced
  <2> QED  BY <1>0, <1>1, <1>2, <1>3, <2>1, <2>2, <2>3 DEF ClientInv, IInv
<1>7. ASSUME NEW i \in Informers, StopSeen(c, i)  PROVE IInv'
  BY <1>0, <1>1, <1>2, <1>3, <1>7 DEF StopSeen, ClientInv, IInv
<1> QED  BY <1>4, <1>5, <1>6, <1>7

(* What an informer lists or is told of is selected, and it never goes     *)
(* back to not having listed.                                              *)
LEMMA SeeInv ==
    ASSUME IInv, NEW i \in Informers, NEW objs \in SUBSET Selected, See(i, objs)
    PROVE  IInv'
<1>0. FactoryInv /\ ClientInv /\ MemoryInv  BY DEF IInv
<1>1. informers' = [informers EXCEPT ![i].listed = TRUE, ![i].seen = objs]
      /\ UNCHANGED <<stored, informer, started, clientVars, memoryVars>>
  BY DEF See
<1>2. Informers = 1 .. Len(informers) /\ Len(informers) \in Nat
      /\ informers \in [Informers -> InformerRecord]
  BY <1>0, InformersDomain, ElementOfSeq DEF FactoryInv
<1>3. informers' = [informers EXCEPT ![i] =
                       [informers[i] EXCEPT !.listed = TRUE, !.seen = objs]]
  BY <1>1, <1>2
<1>4. [informers[i] EXCEPT !.listed = TRUE, !.seen = objs] \in InformerRecord
  BY <1>2 DEF InformerRecord
<1>5. informers' \in [Informers -> InformerRecord]  BY <1>2, <1>3, <1>4
<1>6. informers' \in Seq(InformerRecord) /\ Len(informers') = Len(informers)
  BY <1>2, <1>5, SeqDef
<1>7. \A j \in Informers : /\ informers'[j].kind = informers[j].kind
                           /\ informers'[j].runs = informers[j].runs
                           /\ informers[j].listed => informers'[j].listed
  BY <1>2, <1>3 DEF InformerRecord
<1>8. \A j \in Informers : informers[j].kind \notin started' => informers'[j].runs = 0
  BY <1>0, <1>1, <1>7 DEF FactoryInv
<1>9. FactoryInv'
  BY <1>0, <1>1, <1>6, <1>7, <1>8, InformersUpdated DEF FactoryInv
<1>10. Informers' = Informers  BY <1>2, <1>6 DEF Informers
<1>11. \A k \in Kinds : Ready(k) => Ready(k)'
  BY <1>0, <1>1, <1>7, InformersDomain DEF Ready, HasSynced, Requested
<1>12. ClientInv'
  BY <1>0, <1>1, <1>6, <1>10, <1>11 DEF ClientInv, clientVars, Requested
<1> QED  BY <1>0, <1>1, <1>9, <1>12, SameMemory DEF IInv

LEMMA ReflectorInv ==
    ASSUME IInv, NEW i \in Informers, List(i) \/ Watch(i)
    PROVE  IInv'
<1>1. informers[i] \in InformerRecord  BY InformersDomain DEF IInv
<1>2. informers[i].seen \subseteq Selected  BY <1>1 DEF InformerRecord
<1>3. PICK objs \in SUBSET Selected : See(i, objs)
  BY <1>2 DEF List, Watch, ListFunc, WatchFunc
<1> QED  BY <1>3, SeeInv

(* A client writes only to copies, and a copy is all its own.              *)
LEMMA UseInv ==
    ASSUME IInv, NEW c \in Readers, Use(c)
    PROVE  IInv'
<1>0. FactoryInv /\ ClientInv /\ MemoryInv  BY DEF IInv
<1>1. c \in Clients /\ Wants[c] \in Kinds  BY SharedInformersAssumption
<1>2. KeepRest
  BY DEF Use, ReadLister, CopyHeld, ReadCopy, WriteHeld, Release
<1>3. FactoryInv' /\ ClientInv'
  BY <1>0, <1>2, SameFactory, SameClients DEF KeepRest
<1>4. ASSUME ReadLister(c)  PROVE MemoryInv'
  BY <1>0, <1>1, <1>4 DEF ReadLister, Hold, MemoryInv, HeldKinds
<1>5. ASSUME CopyHeld(c)  PROVE MemoryInv'
  <2>1. held' = [held EXCEPT ![c] = [held[c] EXCEPT !.copied = TRUE]]
        /\ spoiled' = spoiled /\ held[c].kind \in HeldKinds(c)
    BY <1>0, <1>1, <1>5 DEF CopyHeld, Hold, MemoryInv
  <2>2. [held[c] EXCEPT !.copied = TRUE].kind = held[c].kind
    OBVIOUS
  <2> QED  BY <1>0, <1>1, <2>1, <2>2 DEF MemoryInv, HeldKinds
<1>6. ASSUME NEW k \in HeldKinds(c), ReadCopy(c, k)  PROVE MemoryInv'
  BY <1>0, <1>1, <1>6 DEF ReadCopy, Hold, MemoryInv, HeldKinds
<1>7. ASSUME WriteHeld(c)  PROVE MemoryInv'
  <2>1. held[c] # None /\ held[c].copied /\ held' = held
        /\ spoiled' = spoiled \cup ({Memory(c)[p] : p \in DOMAIN Memory(c)} \ {c})
    BY <1>7 DEF WriteHeld
  <2>2. held[c].kind \in DOMAIN TypePaths
    BY <1>0, <1>1, <2>1 DEF MemoryInv, HeldKinds, TypePaths, Kinds, ListKind
  <2>3. Memory(c) = DeepCopyObject(held[c].kind, OwnedBy(held[c].kind, "store"), c)
    BY <2>1 DEF Memory
  <2>4. {Memory(c)[p] : p \in DOMAIN Memory(c)} \subseteq {c}
    BY <2>2, <2>3, CopyIsOwn
  <2> QED  BY <1>0, <2>1, <2>4 DEF MemoryInv, HeldKinds
<1>8. ASSUME Release(c)  PROVE MemoryInv'
  BY <1>0, <1>1, <1>8 DEF Release, Hold, MemoryInv, HeldKinds
<1>9. MemoryInv'  BY <1>4, <1>5, <1>6, <1>7, <1>8 DEF Use, HeldKinds
<1> QED  BY <1>3, <1>9 DEF IInv

LEMMA ServerInv ==
    ASSUME IInv, Stop \/ \E k \in Kinds, o \in Objects : ServerWrites(k, o)
    PROVE  IInv'
<1>0. FactoryInv /\ ClientInv /\ MemoryInv  BY DEF IInv
<1>1. UNCHANGED <<factoryVars, clientVars, memoryVars>>
  BY DEF Stop, ServerWrites
<1>2. stored' \in [Kinds -> SUBSET Objects]
  BY <1>0 DEF FactoryInv, Stop, ServerWrites
<1>3. FactoryInv'
  BY <1>0, <1>1, <1>2 DEF FactoryInv, factoryVars, Informers, Requested
<1> QED  BY <1>0, <1>1, <1>3, SameClients, SameMemory DEF IInv

LEMMA NextInv == IInv /\ [Next]_vars => IInv'
<1> SUFFICES ASSUME IInv, [Next]_vars  PROVE IInv'
  OBVIOUS
<1>1. ASSUME NEW c \in Clients, Setup(c)  PROVE IInv'
  BY <1>1, GetListerInv, StartInv, WaitInv DEF Setup
<1>2. CASE UNCHANGED vars
  BY <1>2, SameFactory, SameClients, SameMemory DEF vars, IInv
<1> QED
  BY <1>1, <1>2, UseInv, ReflectorInv, ServerInv DEF Next

LEMMA Invariance == Spec => []IInv
BY InitInv, NextInv, PTL DEF Spec

-----------------------------------------------------------------------------
(* The theorems *)

(* For any clients, kinds, objects and bounds: no informer is run twice    *)
(* (Start under the factory's lock), every store holds selected objects    *)
(* only (ListFunc and WatchFunc), and every client past its first call has *)
(* the lister of an informer the factory made.                             *)
THEOREM TypeCorrect == Spec => []TypeOK
BY Invariance, InvImpliesProperties, PTL

(* However many clients ask, and in whatever order their calls come, no    *)
(* two informers are of one kind (InformerFor).                            *)
THEOREM KindsHaveOneInformer == Spec => []OneInformer
BY Invariance, InvImpliesProperties, PTL

(* A client that has waited for the caches and was told that its kind is   *)
(* synced reads from an informer that has listed, however the calls of any *)
(* number of clients interleave (WaitForCacheSync).                        *)
THEOREM ReadyClientsAreSynced == Spec => []ReadyIsSynced
BY Invariance, InvImpliesProperties, PTL

(* Nobody who changes a deep copy changes memory of the informers' stores  *)
(* or of another client (the generated DeepCopy functions).                *)
THEOREM StoresStayIntact == Spec => []StoreIntact
BY Invariance, InvImpliesProperties, PTL
=============================================================================
