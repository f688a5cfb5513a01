------------------------- MODULE PolicyInformer_proofs -------------------------
(***************************************************************************)
(* Proofs about PolicyInformer for any policies and namespaces, any number *)
(* of changes and either program: its lister implements PolicyView.        *)
(***************************************************************************)
EXTENDS PolicyInformer, SequenceTheorems, WellFoundedInduction, TLAPS

(* One informer is made, once; it is the one that the lister reads, that   *)
(* the plugin waits for, and that the one reflector fills.                 *)
WiringInv ==
  /\ made = IF informers = Nil THEN {} ELSE {informers}
  /\ lister \in {Nil, informers} /\ awaited \in {Nil, informers}
  /\ startedInformers => informers # Nil
  /\ \A g \in Reflectors :
       /\ reads[g] # Nil => reads[g] = informers /\ startedInformers
       /\ at[g] # "list" => rev[g] >= 0
       /\ reads[g] = Nil =>
            /\ rev[g] = -1 /\ at[g] = "list" /\ initial[g] = {}
            /\ \A k \in Keys : deltas[g][k] = <<>>
  /\ \A i \in Informers :
       (\A g \in Reflectors : reads[g] # i) => \A k \in Keys : indexer[i][k] = -1
  /\ phase \in {"connecting", "exited"} => informers = Nil

(* What the queue holds of a key is no older than the indexer, no newer    *)
(* than the reflector, and in order; nothing is older than the process but *)
(* the indexer's keys of which the first list still has to be handled.     *)
Ascends(q, low, high) ==
  /\ \A j \in DOMAIN q : low <= q[j] /\ q[j] <= high
  /\ \A j, l \in DOMAIN q : j <= l => q[j] <= q[l]

QueueInOrder(g, k) ==
  LET i == indexer[reads[g]][k]
  IN  /\ i <= rev[g]
      /\ Ascends(deltas[g][k], i, rev[g]) /\ Ascends(deltas[g][k], began, rev[g])
      /\ rev[g] >= 0 => rev[g] >= began
      /\ rev[g] >= 0 /\ InScope(k) /\ k \notin initial[g] => i >= began

OrderInv ==
  \A g \in Reflectors, k \in Keys : reads[g] # Nil => QueueInOrder(g, k)

(* The lister shows nothing from before the process. *)
Filled == lister # Nil /\ \A k \in Keys : InScope(k) => indexer[lister][k] >= began

(* How far the calls to the factory have come, and what that has done. *)
PlanInv ==
  /\ phase = "starting" =>
       \/ calls = <<"Lister", "Informer", "Start", "WaitForCacheSync">>
       \/ calls = <<"Informer", "Lister", "Start", "WaitForCacheSync">>
       \/ calls = <<"Informer", "Start", "WaitForCacheSync">> /\ lister # Nil
       \/ calls = <<"Lister", "Start", "WaitForCacheSync">> /\ awaited # Nil
       \/ calls = <<"Start", "WaitForCacheSync">> /\ lister # Nil /\ awaited # Nil
       \/ /\ calls = <<"WaitForCacheSync">>
          /\ lister # Nil /\ awaited # Nil /\ startedInformers
       \/ calls = <<>> /\ Filled
  /\ phase = "up" => Filled

IInv == TypeOK /\ WiringInv /\ OrderInv /\ PlanInv

(* TypeOK by what its conjuncts are about. *)
ServerOK ==
  /\ history \in Seq([key : Keys, op : {"put", "delete"}])
  /\ floor \in 0..Last /\ began \in 0..floor
  /\ served \in BOOLEAN

ProcessOK ==
  /\ program \in Programs
  /\ phase \in {"connecting", "starting", "up", "exited"}
  /\ calls \in Seq(Calls)
  /\ lister \in made \cup {Nil} /\ awaited \in made \cup {Nil} /\ informers \in made \cup {Nil}
  /\ made \subseteq Informers
  /\ startedInformers \in BOOLEAN

ReadsOK ==
  /\ reads \in [Reflectors -> made \cup {Nil}]
  /\ \A g, h \in Reflectors : reads[g] = reads[h] /\ reads[g] # Nil => g = h

CacheOK ==
  /\ indexer \in [Informers -> [Keys -> -1..Last]]
  /\ at \in [Reflectors -> {"list", "watch", "stream"}]
  /\ rev \in [Reflectors -> -1..Last]
  /\ deltas \in [Reflectors -> [Keys -> Seq(0..Last)]]
  /\ initial \in [Reflectors -> SUBSET Keys]

-------------------------------------------------------------------------------
(* TypeOK is its parts, before and after a step. *)
LEMMA TypeParts ==
  /\ TypeOK <=> ServerOK /\ ProcessOK /\ ReadsOK /\ CacheOK
  /\ TypeOK' <=> ServerOK' /\ ProcessOK' /\ ReadsOK' /\ CacheOK'
<1>1. TypeOK <=> ServerOK /\ ProcessOK /\ ReadsOK /\ CacheOK
  BY DEF TypeOK, ServerOK, ProcessOK, ReadsOK, CacheOK
<1>2. TypeOK' <=> ServerOK' /\ ProcessOK' /\ ReadsOK' /\ CacheOK'
  BY DEF TypeOK, ServerOK, ProcessOK, ReadsOK, CacheOK
<1> QED  BY <1>1, <1>2

(* The parts that a step leaves alone. *)
LEMMA TypeFrame ==
  ASSUME TypeOK, UNCHANGED serverVars
  PROVE  /\ Last' = Last /\ Last \in Nat
         /\ began' \in 0..floor => ServerOK'
         /\ UNCHANGED <<programVars, factoryVars>> => ProcessOK'
         /\ UNCHANGED <<reads, made>> => ReadsOK'
         /\ UNCHANGED <<indexer, at, rev, deltas, initial>> => CacheOK'
<1>1. Last' = Last /\ Last \in Nat
  BY DEF TypeOK, Last, serverVars
<1>2. ASSUME began' \in 0..floor PROVE ServerOK'
  BY <1>1, <1>2 DEF TypeOK, ServerOK, serverVars
<1>3. ASSUME UNCHANGED <<programVars, factoryVars>> PROVE ProcessOK'
  BY <1>3 DEF TypeOK, ProcessOK, programVars, factoryVars
<1>4. ASSUME UNCHANGED <<reads, made>> PROVE ReadsOK'
  BY <1>4 DEF TypeOK, ReadsOK
<1>5. ASSUME UNCHANGED <<indexer, at, rev, deltas, initial>> PROVE CacheOK'
  BY <1>1, <1>5 DEF TypeOK, CacheOK
<1> QED  BY <1>1, <1>2, <1>3, <1>4, <1>5

-------------------------------------------------------------------------------
(* The lists of calls are lists of calls. *)
LEMMA CallsTyped ==
  ASSUME NEW p \in Programs
  PROVE  ConnectsOf(p) \in Seq(Calls) /\ CallsOf(p) \in Seq(Calls)
<1>1. NewForConfig \in Seq(Calls)
  BY DEF NewForConfig, Calls
<1>2. <<"ClientConfig">> \in Seq(Calls) /\ <<"KubernetesClient">> \in Seq(Calls)
      /\ <<"DecodeInto", "BuildConfigFromFlags">> \in Seq(Calls)
      /\ <<"LoadPolicyConfig", "SupportEviction">> \in Seq(Calls)
  BY DEF Calls
<1>3. CreateClient \in Seq(Calls)
  BY <1>1, <1>2 DEF CreateClient
<1>4. PluginConnects \in Seq(Calls)
  BY <1>1, <1>2 DEF PluginConnects
<1>5. RunConnects \in Seq(Calls)
  BY <1>2, <1>3 DEF RunConnects
<1>6. PluginCalls \in Seq(Calls) /\ DeschedulerCalls \in Seq(Calls)
  BY DEF PluginCalls, DeschedulerCalls, Calls
<1> QED  BY <1>4, <1>5, <1>6 DEF ConnectsOf, CallsOf

(* A queue that ascends still does after one at its end, *)
LEMMA AscendsAppend ==
  ASSUME NEW q \in Seq(Int), NEW low \in Int, NEW high \in Int, NEW r \in Int,
         Ascends(q, low, high), low <= r, high <= r
  PROVE  Ascends(Append(q, r), low, r)
<1>1. /\ DOMAIN Append(q, r) = 1..(Len(q) + 1) /\ DOMAIN q = 1..Len(q) /\ Len(q) \in Nat
      /\ \A j \in 1..Len(q) : Append(q, r)[j] = q[j] /\ q[j] \in Int
      /\ Append(q, r)[Len(q) + 1] = r
  OBVIOUS
<1>2. ASSUME NEW j \in DOMAIN Append(q, r)
      PROVE  low <= Append(q, r)[j] /\ Append(q, r)[j] <= r /\ Append(q, r)[j] \in Int
  BY <1>1 DEF Ascends
<1>3. ASSUME NEW j \in DOMAIN Append(q, r), NEW l \in DOMAIN Append(q, r), j <= l
      PROVE  Append(q, r)[j] <= Append(q, r)[l]
  <2>1. CASE l = Len(q) + 1
    BY <1>1, <1>2, <2>1
  <2>2. CASE l # Len(q) + 1
    <3>1. l \in DOMAIN q /\ j \in DOMAIN q
      BY <1>1, <1>3, <2>2
    <3> QED  BY <1>1, <1>3, <3>1 DEF Ascends
  <2> QED  BY <2>1, <2>2
<1> QED  BY <1>2, <1>3 DEF Ascends

(* ... after the first has gone, which bounds what is left, *)
LEMMA AscendsTail ==
  ASSUME NEW q \in Seq(Int), NEW low \in Int, NEW high \in Int,
         q # <<>>, Ascends(q, low, high)
  PROVE  /\ Ascends(Tail(q), Head(q), high) /\ Ascends(Tail(q), low, high)
         /\ low <= Head(q) /\ Head(q) <= high
<1>1. /\ DOMAIN Tail(q) = 1..(Len(q) - 1) /\ DOMAIN q = 1..Len(q) /\ Len(q) \in Nat \ {0}
      /\ \A j \in 1..(Len(q) - 1) : Tail(q)[j] = q[j + 1]
      /\ Head(q) = q[1]
  OBVIOUS
<1>2. \A j \in DOMAIN Tail(q) : Tail(q)[j] = q[j + 1] /\ j + 1 \in DOMAIN q /\ 1 <= j + 1
  BY <1>1
<1>3. 1 \in DOMAIN q
  BY <1>1
<1>4. \A j \in DOMAIN Tail(q) :
        low <= Tail(q)[j] /\ Tail(q)[j] <= high /\ Head(q) <= Tail(q)[j]
  BY <1>1, <1>2, <1>3 DEF Ascends
<1>5. ASSUME NEW j \in DOMAIN Tail(q), NEW l \in DOMAIN Tail(q), j <= l
      PROVE  Tail(q)[j] <= Tail(q)[l]
  <2>1. j + 1 <= l + 1
    BY <1>1, <1>5
  <2> QED  BY <1>2, <2>1 DEF Ascends
<1> QED  BY <1>1, <1>3, <1>4, <1>5 DEF Ascends

(* ... and within wider bounds. *)
LEMMA AscendsWithin ==
  ASSUME NEW q \in Seq(Int), NEW low \in Int, NEW high \in Int,
         NEW lower \in Int, NEW higher \in Int,
         Ascends(q, low, high), lower <= low, high <= higher
  PROVE  Ascends(q, lower, higher)
<1>1. \A j \in DOMAIN q : q[j] \in Int
  OBVIOUS
<1> QED  BY <1>1 DEF Ascends

(* A process that has not connected has no factory and has read nothing. *)
LEMMA InitIInv == Init => IInv
<1> SUFFICES ASSUME Init PROVE IInv
  OBVIOUS
<1>1. TypeOK
  <2>0. history \in Seq([key : Keys, op : {"put", "delete"}])
    <3>1. history \in StoreBefore
      BY DEF Init
    <3>2. CASE history = <<>>
      BY <3>2
    <3>3. CASE \E k \in Keys : history = <<[key |-> k, op |-> "put"]>>
      BY <3>3
    <3> QED  BY <3>1, <3>2, <3>3 DEF StoreBefore
  <2>1. Last \in Nat /\ floor = Last /\ began = Last
    BY <2>0 DEF Init, Last
  <2>2. calls \in Seq(Calls)
    BY CallsTyped DEF Init
  <2>3. [k \in Keys |-> <<>>] \in [Keys -> Seq(0..Last)]
    OBVIOUS
  <2>4. [k \in Keys |-> -1] \in [Keys -> -1..Last]
    BY <2>1
  <2>5. /\ deltas \in [Reflectors -> [Keys -> Seq(0..Last)]]
        /\ indexer \in [Informers -> [Keys -> -1..Last]]
        /\ rev \in [Reflectors -> -1..Last]
    BY <2>1, <2>3, <2>4 DEF Init
  <2>6. /\ history \in Seq([key : Keys, op : {"put", "delete"}])
        /\ floor \in 0..Last /\ began \in 0..floor
    BY <2>0, <2>1
  <2>7. /\ reads \in [Reflectors -> made \cup {Nil}]
        /\ \A g, h \in Reflectors : reads[g] = reads[h] /\ reads[g] # Nil => g = h
        /\ at \in [Reflectors -> {"list", "watch", "stream"}]
        /\ initial \in [Reflectors -> SUBSET Keys]
    BY DEF Init
  <2>8. /\ served \in BOOLEAN /\ program \in Programs
        /\ phase \in {"connecting", "starting", "up", "exited"}
        /\ lister \in made \cup {Nil} /\ awaited \in made \cup {Nil} /\ informers \in made \cup {Nil}
        /\ made \subseteq Informers
        /\ startedInformers \in BOOLEAN
    BY DEF Init
  <2> QED  BY <2>2, <2>5, <2>6, <2>7, <2>8 DEF TypeOK
<1>2. WiringInv
  BY DEF Init, WiringInv
<1>3. OrderInv
  BY DEF Init, OrderInv
<1>4. PlanInv
  BY DEF Init, PlanInv
<1> QED  BY <1>1, <1>2, <1>3, <1>4 DEF IInv

(* A factory without informers is typed, wired and in order. *)
LEMMA NoFactoryIInv ==
  ASSUME IInv, NoFactory, UNCHANGED <<serverVars, program>>,
         began' \in 0..floor, calls' \in Seq(Calls),
         \/ phase' = "connecting"
         \/ phase' = "starting" /\ calls' = CallsOf(program)
  PROVE  IInv'
<1>1. TypeOK'
  <2>1. TypeOK
    BY DEF IInv
  <2>2. Last' = Last /\ Last \in Nat
    BY <2>1 DEF Last, TypeOK, serverVars
  <2>3. [k \in Keys |-> <<>>] \in [Keys -> Seq(0..Last)]
    OBVIOUS
  <2>4. [k \in Keys |-> -1] \in [Keys -> -1..Last]
    BY <2>2
  <2>5. /\ deltas' \in [Reflectors -> [Keys -> Seq(0..Last)]]
        /\ indexer' \in [Informers -> [Keys -> -1..Last]]
        /\ rev' \in [Reflectors -> -1..Last]
    BY <2>2, <2>3, <2>4 DEF NoFactory
  <2>6. history' \in Seq([key : Keys, op : {"put", "delete"}])
    BY <2>1 DEF TypeOK, serverVars
  <2> QED  BY <2>1, <2>2, <2>5, <2>6 DEF NoFactory, TypeOK, serverVars
<1>2. WiringInv'
  BY DEF NoFactory, WiringInv
<1>3. OrderInv'
  BY DEF NoFactory, OrderInv
<1>4. PlanInv'
  BY DEF PlanInv, CallsOf, PluginCalls, DeschedulerCalls
<1> QED  BY <1>1, <1>2, <1>3, <1>4 DEF IInv

(* Changes of the server alone. *)
LEMMA ServerIInv ==
  ASSUME IInv, UNCHANGED <<programVars, factoryVars, informerVars>>, Last' >= Last,
         history' \in Seq([key : Keys, op : {"put", "delete"}]),
         floor' \in floor..Last', served' \in BOOLEAN
  PROVE  IInv'
<1>1. TypeOK /\ Last \in Nat /\ Last' \in Nat
  BY DEF IInv, TypeOK, Last
<1>2. TypeOK'
  <2>1. -1..Last \subseteq -1..Last' /\ 0..Last \subseteq 0..Last'
    BY <1>1
  <2>2. deltas' \in [Reflectors -> [Keys -> Seq(0..Last')]]
    BY <1>1, <2>1 DEF TypeOK, informerVars
  <2>3. indexer' \in [Informers -> [Keys -> -1..Last']]
    BY <1>1, <2>1 DEF TypeOK, informerVars
  <2>4. rev' \in [Reflectors -> -1..Last']
    BY <1>1, <2>1 DEF TypeOK, informerVars
  <2> QED  BY <1>1, <2>2, <2>3, <2>4 DEF TypeOK, programVars, factoryVars, informerVars
<1>3. WiringInv'
  BY DEF IInv, WiringInv, programVars, factoryVars, informerVars
<1>4. OrderInv'
  BY DEF IInv, OrderInv, QueueInOrder, Ascends, InScope, programVars, factoryVars, informerVars
<1>5. PlanInv'
  BY DEF IInv, PlanInv, Filled, InScope, programVars, factoryVars, informerVars
<1> QED  BY <1>2, <1>3, <1>4, <1>5 DEF IInv

-------------------------------------------------------------------------------
(* The program's steps. *)

(* Connecting, or failing to, leaves store, factory and informers alone. *)
LEMMA ConnectIInv ==
  ASSUME IInv, Connect \/ ConnectFails
  PROVE  IInv'
<1>1. /\ phase = "connecting" /\ phase' \in {"connecting", "exited"} /\ calls' \in Seq(Calls)
      /\ UNCHANGED <<serverVars, program, lister, awaited, began, factoryVars, informerVars>>
  <2>1. calls \in Seq(Calls)
    BY DEF IInv, TypeOK
  <2>2. CASE Connect
    BY <2>1, <2>2 DEF Connect
  <2>3. CASE ConnectFails
    BY <2>1, <2>3 DEF ConnectFails
  <2> QED  BY <2>2, <2>3
<1>2. TypeOK'
  <2>1. began' \in 0..floor
    BY <1>1 DEF IInv, TypeOK
  <2>2. ProcessOK'
    BY <1>1 DEF IInv, TypeOK, ProcessOK, factoryVars
  <2> QED  BY <1>1, <2>1, <2>2, TypeParts, TypeFrame DEF IInv, factoryVars, informerVars
<1>3. WiringInv'
  BY <1>1 DEF IInv, WiringInv, factoryVars, informerVars
<1>4. OrderInv'
  BY <1>1 DEF IInv, OrderInv, QueueInOrder, Ascends, InScope, informerVars
<1>5. PlanInv'
  BY <1>1 DEF PlanInv
<1> QED  BY <1>2, <1>3, <1>4, <1>5 DEF IInv

(* The informer of the type is the one that was made, or a first one.      *)
LEMMA InformerForIs ==
  ASSUME IInv, NEW i \in Informers, InformerFor(i)
  PROVE  /\ i # Nil /\ informers' = i /\ made' = {i}
         /\ informers # Nil => i = informers /\ made' = made
         /\ lister \in {Nil, i} /\ awaited \in {Nil, i}
<1>1. i # Nil
  BY InformerAssumption
<1>2. CASE informers = Nil
  BY <1>1, <1>2 DEF IInv, WiringInv, InformerFor
<1>3. CASE informers # Nil
  BY <1>1, <1>3 DEF IInv, WiringInv, InformerFor
<1> QED  BY <1>2, <1>3

(* Asking the factory makes the informer, or finds it. *)
LEMMA CallIInv ==
  ASSUME IInv, CallInformer \/ CallLister
  PROVE  IInv'
<1>1. PICK i \in Informers :
        /\ InformerFor(i)
        /\ lister' \in {lister, i} /\ awaited' \in {awaited, i}
        /\ CallInformer => awaited' = i
        /\ CallLister => lister' = i
  <2>1. CASE CallInformer
    BY <2>1 DEF CallInformer, CallLister, NextCallIs
  <2>2. CASE CallLister
    BY <2>2 DEF CallInformer, CallLister, NextCallIs
  <2> QED  BY <2>1, <2>2
<1>2. /\ phase = "starting" /\ phase' = phase /\ calls' = Tail(calls) /\ calls # <<>>
      /\ CallInformer => Head(calls) = "Informer"
      /\ CallLister => Head(calls) = "Lister"
      /\ UNCHANGED <<serverVars, program, began, startedInformers, informerVars>>
  BY DEF CallInformer, CallLister, NextCallIs
<1>3. /\ i # Nil /\ informers' = i /\ made' = {i}
      /\ informers # Nil => i = informers /\ made' = made
      /\ lister \in {Nil, i} /\ awaited \in {Nil, i}
  BY <1>1, InformerForIs
<1>4. lister' \in {Nil, i} /\ awaited' \in {Nil, i}
      /\ (lister # Nil => lister' # Nil) /\ (awaited # Nil => awaited' # Nil)
  BY <1>1, <1>3
<1>5. TypeOK'
  <2>1. calls' \in Seq(Calls)
    BY <1>2 DEF IInv, TypeOK
  <2>2. reads' \in [Reflectors -> made' \cup {Nil}]
    <3>1. \A g \in Reflectors : reads[g] # Nil => reads[g] = i
      BY <1>3 DEF IInv, WiringInv
    <3> QED  BY <1>2, <1>3, <3>1 DEF IInv, TypeOK, informerVars
  <2>3. ReadsOK'
    BY <1>2, <2>2 DEF IInv, TypeOK, ReadsOK, informerVars
  <2>4. ProcessOK'
    BY <1>2, <1>3, <1>4, <2>1 DEF IInv, TypeOK, ProcessOK
  <2>5. began' \in 0..floor
    BY <1>2 DEF IInv, TypeOK
  <2> QED  BY <1>2, <2>3, <2>4, <2>5, TypeParts, TypeFrame DEF IInv, informerVars
<1>6. WiringInv'
  BY <1>2, <1>3, <1>4 DEF IInv, WiringInv, informerVars
<1>7. OrderInv'
  BY <1>2 DEF IInv, OrderInv, QueueInOrder, Ascends, InScope, informerVars
<1>8. PlanInv'
  <2>1. CASE calls = <<"Lister", "Informer", "Start", "WaitForCacheSync">>
    BY <1>1, <1>2, <1>3, <2>1 DEF PlanInv, CallInformer, CallLister
  <2>2. CASE calls = <<"Informer", "Lister", "Start", "WaitForCacheSync">>
    BY <1>1, <1>2, <1>3, <2>2 DEF PlanInv
  <2>3. CASE calls = <<"Informer", "Start", "WaitForCacheSync">> /\ lister # Nil
    BY <1>1, <1>2, <1>3, <1>4, <2>3 DEF PlanInv
  <2>4. CASE calls = <<"Lister", "Start", "WaitForCacheSync">> /\ awaited # Nil
    BY <1>1, <1>2, <1>3, <1>4, <2>4 DEF PlanInv
  <2>5. Head(calls) \in {"Lister", "Informer"}
    BY <1>2
  <2>6. ~ (calls = <<"Start", "WaitForCacheSync">>) /\ ~ (calls = <<"WaitForCacheSync">>)
    BY <2>5
  <2> QED  BY <1>2, <2>1, <2>2, <2>3, <2>4, <2>6 DEF IInv, PlanInv
<1> QED  BY <1>5, <1>6, <1>7, <1>8 DEF IInv

(* Start gives the informer to a reflector, or does nothing.               *)
LEMMA StartIInv ==
  ASSUME IInv, NEW g \in Reflectors, Start(g), phase \in {"starting", "up"},
         calls' \in Seq(Calls),
         UNCHANGED <<serverVars, program, phase, lister, awaited, began, informers, made,
                     indexer, at, rev, deltas, initial>>
  PROVE  TypeOK' /\ WiringInv' /\ OrderInv' /\ (informers # Nil => startedInformers')
<1>1. CASE MustStart
  <2>1. /\ reads[g] = Nil /\ reads' = [reads EXCEPT ![g] = informers]
        /\ startedInformers' = TRUE /\ informers # Nil /\ ~ startedInformers
    BY <1>1 DEF Start, MustStart
  <2>2. \A h \in Reflectors : reads[h] = Nil
    BY <2>1 DEF IInv, WiringInv
  <2>3. informers \in made
    BY <2>1 DEF IInv, WiringInv
  <2>4. reads' \in [Reflectors -> made \cup {Nil}]
    BY <2>1, <2>3 DEF IInv, TypeOK
  <2>5. \A h \in Reflectors : reads'[h] = IF h = g THEN informers ELSE Nil
    BY <2>1, <2>2 DEF IInv, TypeOK
  <2>6. TypeOK'
    <3>1. ReadsOK'
      BY <2>4, <2>5 DEF ReadsOK
    <3>2. ProcessOK'
      <4>1. ProcessOK
        BY TypeParts DEF IInv
      <4> QED  BY <2>1, <4>1 DEF ProcessOK
    <3>3. began' \in 0..floor
      BY DEF IInv, TypeOK
    <3> QED  BY <3>1, <3>2, <3>3, TypeParts, TypeFrame DEF IInv
  <2>7. WiringInv'
    <3>1. \A h \in Reflectors :
            /\ rev[h] = -1 /\ at[h] = "list" /\ initial[h] = {}
            /\ \A k \in Keys : deltas[h][k] = <<>>
      BY <2>2 DEF IInv, WiringInv
    <3>2. \A i \in Informers, k \in Keys : indexer[i][k] = -1
      BY <2>2, InformerAssumption DEF IInv, WiringInv
    <3> QED  BY <2>1, <2>5, <3>1, <3>2 DEF IInv, WiringInv
  <2>8. OrderInv'
    <3>1. \A k \in Keys : /\ indexer[informers][k] = -1 /\ rev[g] = -1 /\ deltas[g][k] = <<>>
      BY <2>2, <2>1, <2>3, InformerAssumption DEF IInv, WiringInv, TypeOK
    <3> QED  BY <2>5, <3>1 DEF OrderInv, QueueInOrder, Ascends
  <2> QED  BY <2>1, <2>6, <2>7, <2>8
<1>2. CASE ~ MustStart
  <2>1. UNCHANGED <<reads, startedInformers>>
    BY <1>2 DEF Start
  <2>2. TypeOK' /\ WiringInv'
    <3>1. began' \in 0..floor /\ ProcessOK'
      <4>1. ProcessOK /\ began \in 0..floor
        BY TypeParts DEF IInv, TypeOK
      <4> QED  BY <2>1, <4>1 DEF ProcessOK
    <3>2. TypeOK'
      BY <2>1, <3>1, TypeParts, TypeFrame DEF IInv
    <3> QED  BY <2>1, <3>2 DEF IInv, WiringInv
  <2>3. OrderInv'
    BY <2>1 DEF IInv, OrderInv, QueueInOrder, Ascends, InScope
  <2> QED  BY <1>2, <2>1, <2>2, <2>3 DEF MustStart
<1> QED  BY <1>1, <1>2

(* The call of Start in the plan is made when the plan has informers. *)
LEMMA CallStartIInv ==
  ASSUME IInv, CallStart
  PROVE  IInv'
<1>1. PICK g \in Reflectors : Start(g)
  BY DEF CallStart
<1>2. /\ phase = "starting" /\ calls' = Tail(calls) /\ calls # <<>> /\ Head(calls) = "Start"
      /\ UNCHANGED <<serverVars, program, phase, lister, awaited, began, informers, made,
                     indexer, at, rev, deltas, initial>>
  BY DEF CallStart, NextCallIs
<1>3. calls' \in Seq(Calls)
  BY <1>2 DEF IInv, TypeOK
<1>4. TypeOK' /\ WiringInv' /\ OrderInv' /\ (informers # Nil => startedInformers')
  BY <1>1, <1>2, <1>3, StartIInv
<1>5. calls = <<"Start", "WaitForCacheSync">> /\ lister # Nil /\ awaited # Nil
  <2>1. /\ calls # <<"Lister", "Informer", "Start", "WaitForCacheSync">>
        /\ calls # <<"Informer", "Lister", "Start", "WaitForCacheSync">>
        /\ calls # <<"Informer", "Start", "WaitForCacheSync">>
        /\ calls # <<"Lister", "Start", "WaitForCacheSync">>
        /\ calls # <<"WaitForCacheSync">>
    BY <1>2
  <2> QED  BY <1>2, <2>1 DEF IInv, PlanInv
<1>6. informers # Nil
  BY <1>5 DEF IInv, WiringInv
<1>7. PlanInv'
  BY <1>2, <1>4, <1>5, <1>6 DEF PlanInv
<1> QED  BY <1>4, <1>7 DEF IInv

(* A call of Start later on passes over what has been started. *)
LEMMA StartAgainIInv ==
  ASSUME IInv, StartAgain
  PROVE  IInv'
<1>1. PICK g \in Reflectors : Start(g)
  BY DEF StartAgain
<1>2. /\ phase = "up"
      /\ UNCHANGED <<serverVars, programVars, informers, made, indexer, at, rev, deltas, initial>>
  BY DEF StartAgain
<1>3. calls' \in Seq(Calls)
  BY <1>2 DEF IInv, TypeOK, programVars
<1>4. TypeOK' /\ WiringInv' /\ OrderInv'
  BY <1>1, <1>2, <1>3, StartIInv DEF programVars
<1>5. PlanInv'
  BY <1>2 DEF IInv, PlanInv, Filled, InScope, programVars
<1> QED  BY <1>4, <1>5 DEF IInv

(* An informer that has synced shows nothing from before the process.      *)
LEMMA SyncedIsFilled ==
  ASSUME IInv, informers # Nil, HasSynced(informers)
  PROVE  \A k \in Keys : InScope(k) => indexer[informers][k] >= began
<1>1. PICK g \in Reflectors : reads[g] = informers /\ rev[g] >= 0 /\ initial[g] = {}
  BY DEF HasSynced
<1> QED  BY <1>1 DEF IInv, OrderInv, QueueInOrder

(* The wait ends with a cache that is filled. *)
LEMMA WaitIInv ==
  ASSUME IInv, WaitForCacheSync
  PROVE  IInv'
<1>1. /\ phase = "starting" /\ calls' = Tail(calls) /\ calls # <<>>
      /\ Head(calls) = "WaitForCacheSync"
      /\ UNCHANGED <<serverVars, program, phase, lister, awaited, began, factoryVars, informerVars>>
  BY DEF WaitForCacheSync, NextCallIs
<1>2. calls = <<"WaitForCacheSync">> /\ lister # Nil /\ awaited # Nil /\ startedInformers
  <2>1. /\ calls # <<"Lister", "Informer", "Start", "WaitForCacheSync">>
        /\ calls # <<"Informer", "Lister", "Start", "WaitForCacheSync">>
        /\ calls # <<"Informer", "Start", "WaitForCacheSync">>
        /\ calls # <<"Lister", "Start", "WaitForCacheSync">>
        /\ calls # <<"Start", "WaitForCacheSync">>
    BY <1>1
  <2> QED  BY <1>1, <2>1 DEF IInv, PlanInv
<1>3. lister = informers /\ awaited = informers /\ informers # Nil
  BY <1>2 DEF IInv, WiringInv
<1>4. HasSynced(informers)
  BY <1>2, <1>3 DEF WaitForCacheSync, FactorySynced
<1>5. Filled
  BY <1>3, <1>4, SyncedIsFilled DEF Filled
<1>6. TypeOK'
  <2>1. began' \in 0..floor /\ ProcessOK'
    <3>1. ProcessOK /\ began \in 0..floor
      BY TypeParts DEF IInv, TypeOK
    <3> QED  BY <1>1, <3>1 DEF ProcessOK, factoryVars
  <2> QED  BY <1>1, <2>1, TypeParts, TypeFrame DEF IInv, factoryVars, informerVars
<1>7. WiringInv'
  BY <1>1 DEF IInv, WiringInv, factoryVars, informerVars
<1>8. OrderInv'
  BY <1>1 DEF IInv, OrderInv, QueueInOrder, Ascends, InScope, informerVars
<1>9. PlanInv'
  <2>1. calls' = <<>>
    BY <1>1, <1>2
  <2>2. Filled'
    BY <1>1, <1>5 DEF Filled, InScope, informerVars
  <2> QED  BY <1>1, <2>1, <2>2 DEF PlanInv
<1> QED  BY <1>6, <1>7, <1>8, <1>9 DEF IInv

(* The program comes up with a cache that is filled. *)
LEMMA UpIInv ==
  ASSUME IInv, Up
  PROVE  IInv' /\ Filled'
<1>1. /\ phase = "starting" /\ calls = <<>> /\ phase' = "up"
      /\ UNCHANGED <<serverVars, program, calls, lister, awaited, began, factoryVars, informerVars>>
  BY DEF Up
<1>2. Filled
  BY <1>1 DEF IInv, PlanInv
<1>3. Filled' /\ PlanInv'
  BY <1>1, <1>2 DEF PlanInv, Filled, InScope, informerVars
<1>4. TypeOK'
  <2>1. began' \in 0..floor /\ ProcessOK'
    <3>1. ProcessOK /\ began \in 0..floor
      BY TypeParts DEF IInv, TypeOK
    <3> QED  BY <1>1, <3>1 DEF ProcessOK, factoryVars
  <2> QED  BY <1>1, <2>1, TypeParts, TypeFrame DEF IInv, factoryVars, informerVars
<1>5. WiringInv'
  BY <1>1 DEF IInv, WiringInv, factoryVars, informerVars
<1>6. OrderInv'
  BY <1>1 DEF IInv, OrderInv, QueueInOrder, Ascends, InScope, informerVars
<1> QED  BY <1>3, <1>4, <1>5, <1>6 DEF IInv

-------------------------------------------------------------------------------
(* The reflector's steps. *)

(* What a step of the reflector g leaves alone, and what it has to keep.   *)
Moves(g) ==
  /\ reads[g] # Nil
  /\ UNCHANGED <<serverVars, programVars, factoryVars, reads>>
  /\ \A h \in Reflectors \ {g} :
       /\ rev'[h] = rev[h] /\ at'[h] = at[h]
       /\ deltas'[h] = deltas[h] /\ initial'[h] = initial[h]
  /\ \A i \in Informers \ {reads[g]} : indexer'[i] = indexer[i]
  /\ CacheOK'
  /\ at'[g] # "list" => rev'[g] >= 0

(* A move of a reflector that leaves its queue in order and takes nothing  *)
(* back keeps the invariant.                                               *)
LEMMA MovesIInv ==
  ASSUME IInv, NEW g \in Reflectors, Moves(g),
         \A k \in Keys : QueueInOrder(g, k)',
         \A k \in Keys : indexer'[reads[g]][k] >= indexer[reads[g]][k]
  PROVE  /\ IInv'
         /\ \A k \in Keys : Seen(k)' >= Seen(k)
<1>1. UNCHANGED <<serverVars, programVars, factoryVars, reads>> /\ reads[g] # Nil /\ CacheOK'
  BY DEF Moves
<1>2. reads[g] = informers /\ informers # Nil
  BY <1>1 DEF IInv, WiringInv
<1>3. \A h \in Reflectors : h # g => reads[h] = Nil
  BY <1>1, <1>2 DEF IInv, WiringInv, TypeOK
<1>4. TypeOK'
  <2>1. began' \in 0..floor
    BY <1>1 DEF IInv, TypeOK, programVars
  <2> QED  BY <1>1, <2>1, TypeParts, TypeFrame DEF IInv, factoryVars
<1>5. WiringInv'
  <2>1. /\ made' = IF informers' = Nil THEN {} ELSE {informers'}
        /\ lister' \in {Nil, informers'} /\ awaited' \in {Nil, informers'}
        /\ startedInformers' => informers' # Nil
        /\ phase' \in {"connecting", "exited"} => informers' = Nil
    BY <1>1 DEF IInv, WiringInv, programVars, factoryVars
  <2>2. ASSUME NEW h \in Reflectors
        PROVE  /\ reads'[h] # Nil => reads'[h] = informers' /\ startedInformers'
               /\ at'[h] # "list" => rev'[h] >= 0
               /\ reads'[h] = Nil =>
                    /\ rev'[h] = -1 /\ at'[h] = "list" /\ initial'[h] = {}
                    /\ \A k \in Keys : deltas'[h][k] = <<>>
    <3>1. CASE h = g
      BY <1>1, <3>1 DEF IInv, WiringInv, Moves, factoryVars
    <3>2. CASE h # g
      BY <1>1, <3>2 DEF IInv, WiringInv, Moves, factoryVars
    <3> QED  BY <3>1, <3>2
  <2>3. ASSUME NEW i \in Informers, \A h \in Reflectors : reads'[h] # i
        PROVE  \A k \in Keys : indexer'[i][k] = -1
    BY <1>1, <2>3 DEF IInv, WiringInv, Moves
  <2> QED  BY <2>1, <2>2, <2>3 DEF WiringInv
<1>6. OrderInv'
  BY <1>1, <1>3 DEF OrderInv
<1>7. ASSUME lister # Nil
      PROVE  lister' = lister /\ lister = reads[g]
  BY <1>1, <1>2, <1>7 DEF IInv, WiringInv, programVars
<1>8. \A k \in Keys : Seen(k)' >= Seen(k)
  <2>1. CASE lister = Nil
    BY <1>1, <2>1 DEF Seen, programVars
  <2>2. CASE lister # Nil
    BY <1>7, <2>2 DEF Seen
  <2> QED  BY <2>1, <2>2
<1>9. PlanInv'
  <2>1. ASSUME Filled PROVE Filled'
    <3>1. lister # Nil /\ began' = began
      BY <1>1, <2>1 DEF Filled, programVars
    <3>2. ASSUME NEW k \in Keys, InScope(k) PROVE indexer'[lister'][k] >= began'
      <4>1. indexer[lister][k] >= began
        BY <2>1, <3>2 DEF Filled
      <4>2. indexer'[lister'][k] >= indexer[lister][k]
        BY <1>7, <3>1
      <4>3. indexer[lister][k] \in Int /\ indexer'[lister'][k] \in Int /\ began \in Int
        <5>1. lister \in Informers /\ lister' \in Informers
          BY <1>7, <3>1, <1>4 DEF IInv, TypeOK
        <5> QED  BY <5>1, <1>4 DEF IInv, TypeOK
      <4> QED  BY <3>1, <4>1, <4>2, <4>3
    <3> QED  BY <1>7, <3>1, <3>2 DEF Filled, InScope
  <2> QED  BY <1>1, <2>1 DEF IInv, PlanInv, programVars, factoryVars
<1> QED  BY <1>4, <1>5, <1>6, <1>8, <1>9 DEF IInv

(* What is known of a reflector that reads an informer.                    *)
LEMMA Reading ==
  ASSUME IInv, NEW g \in Reflectors, reads[g] # Nil
  PROVE  /\ reads[g] \in Informers
         /\ indexer[reads[g]] \in [Keys -> -1..Last]
         /\ deltas[g] \in [Keys -> Seq(0..Last)]
         /\ rev[g] \in -1..Last /\ at[g] \in {"list", "watch", "stream"}
         /\ initial[g] \subseteq Keys
         /\ at[g] # "list" => rev[g] >= 0
         /\ \A k \in Keys : QueueInOrder(g, k)
<1>1. reads[g] \in Informers
  BY DEF IInv, TypeOK
<1> QED  BY <1>1 DEF IInv, TypeOK, WiringInv, OrderInv

(* Opening and losing a stream change neither queue nor cache. *)
LEMMA WatchIInv ==
  ASSUME IInv, NEW g \in Reflectors, WatchPolicies(g) \/ (reads[g] # Nil /\ StreamEnds(g))
  PROVE  IInv' /\ \A k \in Keys : Seen(k)' >= Seen(k)
<1>1. /\ reads[g] # Nil /\ at[g] \in {"watch", "stream"}
      /\ \E a \in {"list", "watch", "stream"} : at' = [at EXCEPT ![g] = a]
      /\ UNCHANGED <<serverVars, programVars, factoryVars, indexer, reads, rev, deltas, initial>>
  <2>1. CASE WatchPolicies(g)
    BY <2>1 DEF WatchPolicies
  <2>2. CASE reads[g] # Nil /\ StreamEnds(g)
    BY <2>2 DEF StreamEnds
  <2> QED  BY <2>1, <2>2
<1>2. PICK a \in {"list", "watch", "stream"} : at' = [at EXCEPT ![g] = a]
  BY <1>1
<1>3. CacheOK'
  <2>1. CacheOK /\ Last' = Last
    BY <1>1, TypeParts, TypeFrame DEF IInv
  <2> QED  BY <1>1, <1>2, <2>1 DEF CacheOK
<1>4. Moves(g)
  <2>1. rev'[g] >= 0
    BY <1>1, Reading
  <2>2. at \in [Reflectors -> {"list", "watch", "stream"}]
    BY DEF IInv, TypeOK
  <2> QED  BY <1>1, <1>2, <1>3, <2>1, <2>2 DEF Moves
<1>5. \A k \in Keys : QueueInOrder(g, k)'
  BY <1>1, Reading DEF QueueInOrder, Ascends, InScope, programVars
<1>6. \A k \in Keys : indexer'[reads[g]][k] >= indexer[reads[g]][k]
  BY <1>1, Reading
<1> QED  BY <1>4, <1>5, <1>6, MovesIInv

(* An event of the stream goes to the end of the queue, or says nothing. *)
LEMMA ReceiveIInv ==
  ASSUME IInv, NEW g \in Reflectors, reads[g] # Nil, Receive(g)
  PROVE  IInv' /\ \A k \in Keys : Seen(k)' >= Seen(k)
<1> DEFINE r == rev[g] + 1
           key == history[r].key
<1>1. /\ at[g] = "stream" /\ rev[g] < Last /\ rev' = [rev EXCEPT ![g] = r]
      /\ deltas' = IF InScope(key) THEN [deltas EXCEPT ![g][key] = Append(@, r)] ELSE deltas
      /\ UNCHANGED <<serverVars, programVars, factoryVars, indexer, reads, at, initial>>
  BY DEF Receive
<1>2. /\ Last \in Nat /\ Last' = Last
      /\ deltas[g] \in [Keys -> Seq(0..Last)]
      /\ indexer[reads[g]] \in [Keys -> -1..Last]
  BY <1>1, Reading, TypeFrame DEF IInv
<1>3. rev[g] \in 0..Last /\ r \in 1..Last
  <2>1. rev[g] >= 0 /\ rev[g] \in -1..Last
    BY <1>1, Reading
  <2> QED  BY <1>1, <1>2, <2>1
<1>4. key \in Keys
  <2>1. history \in Seq([key : Keys, op : {"put", "delete"}]) /\ r \in 1..Len(history)
    BY <1>3 DEF IInv, TypeOK, Last
  <2>2. history[r] \in [key : Keys, op : {"put", "delete"}]
    BY <2>1, ElementOfSeq
  <2> QED  BY <2>2
<1>5. rev \in [Reflectors -> -1..Last] /\ deltas \in [Reflectors -> [Keys -> Seq(0..Last)]]
  BY DEF IInv, TypeOK
<1>6. ASSUME NEW k \in Keys
      PROVE  deltas'[g][k] = IF InScope(key) /\ k = key THEN Append(deltas[g][k], r)
                             ELSE deltas[g][k]
  BY <1>1, <1>4, <1>5
<1>7. CacheOK'
  <2>1. CacheOK
    BY TypeParts DEF IInv
  <2>2. rev' \in [Reflectors -> -1..Last]
    BY <1>1, <1>2, <1>3, <1>5
  <2>3. deltas' \in [Reflectors -> [Keys -> Seq(0..Last)]]
    <3>1. r \in 0..Last /\ Append(deltas[g][key], r) \in Seq(0..Last)
      BY <1>2, <1>3, <1>4
    <3> QED  BY <1>1, <1>5, <3>1
  <2> QED  BY <1>1, <1>2, <2>1, <2>2, <2>3 DEF CacheOK
<1>8. Moves(g)
  <2>1. rev'[g] >= 0
    BY <1>1, <1>3, <1>5
  <2> QED  BY <1>1, <1>4, <1>5, <1>7, <2>1 DEF Moves
<1>9. ASSUME NEW k \in Keys PROVE QueueInOrder(g, k)'
  <2> DEFINE q == deltas[g][k]
             i == indexer[reads[g]][k]
  <2>1. /\ rev'[g] = r /\ reads'[g] = reads[g] /\ indexer' = indexer /\ began' = began
        /\ initial' = initial
    BY <1>1, <1>5 DEF programVars
  <2>2. q \in Seq(Int) /\ i \in Int /\ began \in Int /\ r \in Int /\ rev[g] \in Int
    BY <1>2, <1>3 DEF IInv, TypeOK
  <2>3. /\ i <= rev[g] /\ Ascends(q, i, rev[g]) /\ Ascends(q, began, rev[g])
        /\ rev[g] >= began
        /\ InScope(k) /\ k \notin initial[g] => i >= began
    BY <1>3, Reading DEF QueueInOrder
  <2>4. i <= r /\ began <= r /\ rev[g] <= r
    BY <2>2, <2>3
  <2>5. Ascends(q, i, r) /\ Ascends(q, began, r)
    BY <2>2, <2>3, <2>4, AscendsWithin
  <2>6. Ascends(Append(q, r), i, r) /\ Ascends(Append(q, r), began, r)
    BY <2>2, <2>3, <2>4, AscendsAppend
  <2>7. Ascends(deltas'[g][k], i, r) /\ Ascends(deltas'[g][k], began, r)
    BY <1>6, <2>5, <2>6
  <2> QED  BY <2>1, <2>3, <2>4, <2>7 DEF QueueInOrder, Ascends, InScope
<1>10. \A k \in Keys : indexer'[reads[g]][k] >= indexer[reads[g]][k]
  BY <1>1, <1>2
<1> QED  BY <1>8, <1>9, <1>10, MovesIInv

(* A delta taken from the queue moves its key forward. *)
LEMMA HandleIInv ==
  ASSUME IInv, NEW g \in Reflectors, reads[g] # Nil, NEW key \in Keys, HandleDelta(g, key)
  PROVE  IInv' /\ \A k \in Keys : Seen(k)' >= Seen(k)
<1> DEFINE n == reads[g]
           d == deltas[g][key]
<1>1. /\ d # <<>>
      /\ indexer' = [indexer EXCEPT ![n][key] = Head(d)]
      /\ deltas' = [deltas EXCEPT ![g][key] = Tail(d)]
      /\ initial' = [initial EXCEPT ![g] = initial[g] \ {key}]
      /\ UNCHANGED <<serverVars, programVars, factoryVars, reads, at, rev>>
  BY DEF HandleDelta, Queued
<1>2. /\ Last \in Nat /\ Last' = Last /\ rev[g] \in -1..Last /\ n \in Informers
      /\ d \in Seq(0..Last)
      /\ indexer[n] \in [Keys -> -1..Last]
      /\ \A k \in Keys : QueueInOrder(g, k)
  BY <1>1, Reading, TypeFrame DEF IInv
<1>3. CacheOK
  BY TypeParts DEF IInv
<1>4. Head(d) \in 0..Last /\ Tail(d) \in Seq(0..Last) /\ d \in Seq(Int)
  <2>1. d \in Seq(0..Last) /\ d # <<>> /\ 0..Last \subseteq Int
    BY <1>1, <1>2
  <2>2. Head(d) \in 0..Last /\ Tail(d) \in Seq(0..Last)
    BY <2>1, HeadTailProperties
  <2>3. d \in Seq(Int)
    BY <2>1, SeqMonotonic
  <2> QED  BY <2>2, <2>3
<1>5. CacheOK'
  <2>1. indexer' \in [Informers -> [Keys -> -1..Last]]
    BY <1>1, <1>2, <1>3, <1>4 DEF CacheOK
  <2>2. deltas' \in [Reflectors -> [Keys -> Seq(0..Last)]]
    BY <1>1, <1>3, <1>4 DEF CacheOK
  <2> QED  BY <1>1, <1>2, <1>3, <2>1, <2>2 DEF CacheOK
<1>6. Moves(g)
  <2>1. at'[g] # "list" => rev'[g] >= 0
    BY <1>1, Reading
  <2> QED  BY <1>1, <1>3, <1>5, <2>1 DEF Moves, CacheOK
<1>7. ASSUME NEW k \in Keys
      PROVE  /\ indexer'[n][k] = IF k = key THEN Head(d) ELSE indexer[n][k]
             /\ deltas'[g][k] = IF k = key THEN Tail(d) ELSE deltas[g][k]
             /\ k # key => (k \in initial'[g] <=> k \in initial[g])
  BY <1>1, <1>2, <1>3 DEF CacheOK
<1>8. began \in Int /\ rev[g] \in Int /\ indexer[n][key] \in Int
  BY <1>2 DEF IInv, TypeOK
<1>9. /\ Ascends(Tail(d), Head(d), rev[g]) /\ Ascends(Tail(d), began, rev[g])
      /\ indexer[n][key] <= Head(d) /\ began <= Head(d) /\ Head(d) <= rev[g]
      /\ rev[g] >= 0 => rev[g] >= began
  <2>1. /\ Ascends(d, indexer[n][key], rev[g]) /\ Ascends(d, began, rev[g])
        /\ rev[g] >= 0 => rev[g] >= began
    BY <1>2 DEF QueueInOrder
  <2> QED  BY <1>1, <1>4, <1>8, <2>1, AscendsTail
<1>10. ASSUME NEW k \in Keys PROVE QueueInOrder(g, k)'
  <2>1. began' = began /\ rev' = rev /\ reads' = reads
    BY <1>1 DEF programVars
  <2>2. CASE k = key
    BY <1>7, <1>9, <2>1, <2>2 DEF QueueInOrder, Ascends, InScope
  <2>3. CASE k # key
    <3>1. QueueInOrder(g, k)
      BY <1>2
    <3> QED  BY <1>7, <2>1, <2>3, <3>1 DEF QueueInOrder, Ascends, InScope
  <2> QED  BY <2>2, <2>3
<1>11. \A k \in Keys : indexer'[n][k] >= indexer[n][k]
  BY <1>2, <1>4, <1>7, <1>8, <1>9
<1> QED  BY <1>6, <1>10, <1>11, MovesIInv

(* What a list at revision r tells the queue of, and what the keys that it *)
(* has nothing to tell of are known as of after it.                        *)
Told(g, r) ==
  {k \in ListedAt(r) \cup {l \in Keys : Known(reads[g], l) \/ Queued(g, l)} : Newest(g, k) # r}

AsOf(g, r, k) ==
  IF k \in Told(g, r) \/ ~ InScope(k) \/ Newest(g, k) >= r THEN indexer[reads[g]][k] ELSE r

(* A list tells of the keys that it has, and of those in the cache that it *)
(* has no more.                                                            *)
LEMMA ListsIn ==
  ASSUME NEW g \in Reflectors, ListPolicies(g)
  PROVE  /\ reads[g] # Nil
         /\ UNCHANGED <<serverVars, programVars, factoryVars, reads>>
         /\ at' = [at EXCEPT ![g] = "watch"]
         /\ \E r \in ListableFrom(g) :
              /\ rev' = [rev EXCEPT ![g] = r]
              /\ deltas' = [deltas EXCEPT ![g] =
                   [k \in Keys |-> IF k \in Told(g, r) THEN Append(deltas[g][k], r)
                                   ELSE deltas[g][k]]]
              /\ indexer' = [indexer EXCEPT ![reads[g]] = [k \in Keys |-> AsOf(g, r, k)]]
              /\ initial' = [initial EXCEPT ![g] = IF rev[g] = -1 THEN Told(g, r) ELSE initial[g]]
  BY DEF ListPolicies, Told, AsOf

(* A list, even from an older revision of the server, takes nothing back. *)
LEMMA ListIInv ==
  ASSUME IInv, NEW g \in Reflectors, ListPolicies(g)
  PROVE  IInv' /\ \A k \in Keys : Seen(k)' >= Seen(k)
<1> DEFINE n == reads[g]
<1>1. /\ n # Nil
      /\ UNCHANGED <<serverVars, programVars, factoryVars, reads>>
      /\ at' = [at EXCEPT ![g] = "watch"]
  BY ListsIn
<1>2. PICK r \in ListableFrom(g) :
        /\ rev' = [rev EXCEPT ![g] = r]
        /\ deltas' = [deltas EXCEPT ![g] =
             [k \in Keys |-> IF k \in Told(g, r) THEN Append(deltas[g][k], r) ELSE deltas[g][k]]]
        /\ indexer' = [indexer EXCEPT ![n] = [k \in Keys |-> AsOf(g, r, k)]]
        /\ initial' = [initial EXCEPT ![g] = IF rev[g] = -1 THEN Told(g, r) ELSE initial[g]]
  BY ListsIn
<1>3. /\ n \in Informers /\ rev[g] \in -1..Last /\ Last \in Nat /\ Last' = Last
      /\ indexer[n] \in [Keys -> -1..Last] /\ deltas[g] \in [Keys -> Seq(0..Last)]
      /\ \A k \in Keys : QueueInOrder(g, k)
  BY <1>1, Reading, TypeFrame DEF IInv
<1>4. r \in 0..Last /\ r >= rev[g] /\ began <= r /\ began \in Nat
  BY <1>2, <1>3 DEF ListableFrom, IInv, TypeOK
<1>5. CacheOK
  BY TypeParts DEF IInv
<1>6. ASSUME NEW k \in Keys
      PROVE  /\ deltas'[g][k] = IF k \in Told(g, r) THEN Append(deltas[g][k], r) ELSE deltas[g][k]
             /\ indexer'[n][k] = AsOf(g, r, k)
  BY <1>2, <1>3, <1>5 DEF CacheOK
<1>7. rev'[g] = r /\ initial'[g] = IF rev[g] = -1 THEN Told(g, r) ELSE initial[g]
  BY <1>2, <1>5 DEF CacheOK
<1>8. ASSUME NEW k \in Keys
      PROVE  /\ deltas[g][k] \in Seq(Int) /\ indexer[n][k] \in -1..Last
             /\ indexer[n][k] <= rev[g]
             /\ Ascends(deltas[g][k], indexer[n][k], rev[g]) /\ Ascends(deltas[g][k], began, rev[g])
  <2>1. deltas[g][k] \in Seq(0..Last) /\ 0..Last \subseteq Int
    BY <1>3
  <2>2. deltas[g][k] \in Seq(Int)
    BY <2>1, SeqMonotonic
  <2> QED  BY <1>3, <2>2 DEF QueueInOrder
(* A key it has nothing to tell of has an empty queue, or one that ends at r. *)
<1>9. ASSUME NEW k \in Keys, k \notin Told(g, r), Newest(g, k) # r
      PROVE  deltas[g][k] = <<>> /\ Newest(g, k) = indexer[n][k]
  BY <1>9 DEF Told, Newest, Queued
<1>10. ASSUME NEW k \in Keys
       PROVE  /\ AsOf(g, r, k) \in -1..Last
              /\ indexer[n][k] <= AsOf(g, r, k) /\ AsOf(g, r, k) <= r
              /\ AsOf(g, r, k) # indexer[n][k] =>
                   AsOf(g, r, k) = r /\ k \notin Told(g, r) /\ deltas[g][k] = <<>>
  <2>1. CASE AsOf(g, r, k) = indexer[n][k]
    BY <1>3, <1>4, <1>8, <2>1
  <2>2. CASE AsOf(g, r, k) # indexer[n][k]
    <3>1. AsOf(g, r, k) = r /\ k \notin Told(g, r) /\ ~ (Newest(g, k) >= r)
      BY <2>2 DEF AsOf
    <3>2. Newest(g, k) # r
      BY <1>4, <3>1
    <3> QED  BY <1>3, <1>4, <1>8, <1>9, <3>1, <3>2
  <2> QED  BY <2>1, <2>2
<1>11. CacheOK'
  <2>1. rev' \in [Reflectors -> -1..Last]
    BY <1>2, <1>3, <1>4, <1>5 DEF CacheOK
  <2>2. deltas' \in [Reflectors -> [Keys -> Seq(0..Last)]]
    <3>1. \A k \in Keys : Append(deltas[g][k], r) \in Seq(0..Last)
      BY <1>3, <1>4
    <3> QED  BY <1>2, <1>3, <1>5, <3>1 DEF CacheOK
  <2>3. indexer' \in [Informers -> [Keys -> -1..Last]]
    <3>1. [k \in Keys |-> AsOf(g, r, k)] \in [Keys -> -1..Last]
      BY <1>10
    <3> QED  BY <1>2, <1>3, <1>5, <3>1 DEF CacheOK
  <2>4. initial' \in [Reflectors -> SUBSET Keys]
    <3>1. Told(g, r) \subseteq Keys
      BY DEF Told, ListedAt
    <3> QED  BY <1>2, <1>5, <3>1 DEF CacheOK
  <2> QED  BY <1>1, <1>3, <1>5, <2>1, <2>2, <2>3, <2>4 DEF CacheOK
<1>12. Moves(g)
  BY <1>1, <1>2, <1>3, <1>4, <1>5, <1>7, <1>11 DEF Moves, CacheOK
<1>13. ASSUME NEW k \in Keys PROVE QueueInOrder(g, k)'
  <2> DEFINE q == deltas[g][k]
             i == indexer[n][k]
  <2>1. /\ began' = began /\ reads'[g] = n /\ rev'[g] = r
        /\ indexer'[n][k] = AsOf(g, r, k)
    BY <1>1, <1>6, <1>7 DEF programVars
  <2>2. Ascends(deltas'[g][k], AsOf(g, r, k), r) /\ Ascends(deltas'[g][k], began, r)
    <3>1. CASE k \in Told(g, r)
      <4>1. AsOf(g, r, k) = i /\ i <= r /\ i \in Int
        BY <1>3, <1>4, <1>8, <3>1 DEF AsOf
      <4>2. Ascends(Append(q, r), i, r) /\ Ascends(Append(q, r), began, r)
        BY <1>3, <1>4, <1>8, <4>1, AscendsAppend
      <4> QED  BY <1>6, <3>1, <4>1, <4>2
    <3>2. CASE k \notin Told(g, r) /\ AsOf(g, r, k) = i
      <4>1. Ascends(q, i, r) /\ Ascends(q, began, r)
        BY <1>3, <1>4, <1>8, AscendsWithin
      <4> QED  BY <1>6, <3>2, <4>1
    <3>3. CASE AsOf(g, r, k) # i
      <4>1. deltas'[g][k] = <<>>
        BY <1>6, <1>10, <3>3
      <4> QED  BY <4>1 DEF Ascends
    <3> QED  BY <3>1, <3>2, <3>3, <1>10
  <2>3. ASSUME InScope(k), k \notin initial'[g] PROVE AsOf(g, r, k) >= began
    <3>1. CASE rev[g] = -1
      <4>1. k \notin Told(g, r)
        BY <1>7, <2>3, <3>1
      <4>2. i = -1
        BY <1>3, <1>8, <3>1
      <4>3. q = <<>>
        <5>1. \A j \in DOMAIN q : q[j] <= -1 /\ q[j] \in 0..Last
          BY <1>3, <1>8, <3>1 DEF Ascends
        <5>2. q # <<>> => 1 \in DOMAIN q
          BY <1>8
        <5> QED  BY <5>1, <5>2
      <4>4. Newest(g, k) = -1
        BY <4>2, <4>3 DEF Newest, Queued
      <4>5. AsOf(g, r, k) = r
        BY <1>4, <2>3, <4>1, <4>4 DEF AsOf
      <4> QED  BY <1>4, <4>5
    <3>2. CASE rev[g] # -1
      <4>1. i >= began
        BY <1>3, <1>7, <2>3, <3>2 DEF QueueInOrder
      <4> QED  BY <1>3, <1>4, <1>8, <1>10, <4>1
    <3> QED  BY <3>1, <3>2
  <2>4. AsOf(g, r, k) <= r
    BY <1>10
  <2> QED  BY <1>4, <2>1, <2>2, <2>3, <2>4 DEF QueueInOrder, Ascends, InScope
<1>14. \A k \in Keys : indexer'[n][k] >= indexer[n][k]
  BY <1>3, <1>6, <1>8, <1>10
<1> QED  BY <1>12, <1>13, <1>14, MovesIInv

-------------------------------------------------------------------------------
(* The changes of the store, and the steps of the specification. *)

(* Changes of the store leave the process alone. *)
LEMMA StoreIInv ==
  ASSUME IInv, Write \/ Compact \/ InstallCRD
  PROVE  /\ IInv' /\ UNCHANGED <<programVars, factoryVars, informerVars>>
         /\ Last' \in Nat /\ Last' >= Last
         /\ floor' \in floor..Last'
<1>1. /\ history \in Seq([key : Keys, op : {"put", "delete"}]) /\ floor \in 0..Last
      /\ Last \in Nat /\ served \in BOOLEAN
  BY DEF IInv, TypeOK, Last
<1>2. CASE Write
  <2>1. PICK k \in Keys, op \in {"put", "delete"} : Change(k, op)
    BY <1>2 DEF Write, Create, Update, Patch, Delete
  <2>2. /\ history' = Append(history, [key |-> k, op |-> op])
        /\ UNCHANGED <<floor, served, programVars, factoryVars, informerVars>>
    BY <2>1 DEF Change
  <2>3. /\ history' \in Seq([key : Keys, op : {"put", "delete"}])
        /\ Last' = Last + 1
    BY <1>1, <2>2 DEF Last
  <2> QED  BY <1>1, <2>2, <2>3, ServerIInv
<1>3. CASE Compact \/ InstallCRD
  <2>1. /\ history' = history /\ served' \in BOOLEAN /\ floor' \in floor..Last
        /\ UNCHANGED <<programVars, factoryVars, informerVars>>
    <3>1. CASE Compact
      BY <1>1, <3>1 DEF Compact
    <3>2. CASE InstallCRD
      BY <1>1, <3>2 DEF InstallCRD
    <3> QED  BY <1>3, <3>1, <3>2
  <2>2. Last' = Last
    BY <2>1 DEF Last
  <2> QED  BY <1>1, <2>1, <2>2, ServerIInv
<1> QED  BY <1>2, <1>3

(* A new factory has no informer and owes all its calls. *)
LEMMA FactoryMadeIInv ==
  ASSUME IInv, NewSharedInformerFactory
  PROVE  IInv'
<1>1. began' \in 0..floor
  BY DEF IInv, TypeOK, NewSharedInformerFactory
<1>2. calls' \in Seq(Calls)
  BY CallsTyped DEF IInv, TypeOK, NewSharedInformerFactory
<1> QED  BY <1>1, <1>2, NoFactoryIInv DEF NewSharedInformerFactory

(* So does the factory of a new process, which begins at the oldest        *)
(* revision that the server still has.                                     *)
LEMMA RestartIInv ==
  ASSUME IInv, Restart
  PROVE  IInv'
<1>1. began' \in 0..floor
  BY DEF IInv, TypeOK, Last, Restart
<1>2. calls' \in Seq(Calls)
  BY CallsTyped DEF IInv, TypeOK, Restart
<1> QED  BY <1>1, <1>2, NoFactoryIInv DEF Restart

(* All steps of the program's start keep the invariant. *)
LEMMA LaunchIInv ==
  ASSUME IInv, Launch
  PROVE  IInv'
<1>1. CASE Connect \/ ConnectFails
  BY <1>1, ConnectIInv
<1>2. CASE NewSharedInformerFactory
  BY <1>2, FactoryMadeIInv
<1>3. CASE CallInformer \/ CallLister
  BY <1>3, CallIInv
<1>4. CASE CallStart
  BY <1>4, CallStartIInv
<1>5. CASE WaitForCacheSync
  BY <1>5, WaitIInv
<1>6. CASE Up
  BY <1>6, UpIInv
<1> QED  BY <1>1, <1>2, <1>3, <1>4, <1>5, <1>6 DEF Launch

(* All steps of a reflector keep it, and no key is seen as it was before. *)
LEMMA ReflectIInv ==
  ASSUME IInv, NEW g \in Reflectors, Reflect(g)
  PROVE  /\ IInv' /\ \A k \in Keys : Seen(k)' >= Seen(k)
         /\ UNCHANGED <<serverVars, programVars>>
<1>1. CASE ListPolicies(g)
  BY <1>1, ListIInv DEF ListPolicies
<1>2. CASE WatchPolicies(g)
  BY <1>2, WatchIInv DEF WatchPolicies
<1>3. CASE Receive(g)
  <2>1. reads[g] # Nil
    BY <1>3 DEF Receive, IInv, WiringInv
  <2> QED  BY <1>3, <2>1, ReceiveIInv DEF Receive
<1>4. CASE StreamEnds(g)
  <2>1. reads[g] # Nil
    BY <1>4 DEF StreamEnds, IInv, WiringInv
  <2> QED  BY <1>4, <2>1, WatchIInv DEF StreamEnds
<1>5. ASSUME NEW k \in Keys, HandleDelta(g, k)
      PROVE  /\ IInv' /\ \A l \in Keys : Seen(l)' >= Seen(l)
             /\ UNCHANGED <<serverVars, programVars>>
  <2>1. reads[g] # Nil
    BY <1>5 DEF HandleDelta, Queued, IInv, WiringInv
  <2> QED  BY <1>5, <2>1, HandleIInv DEF HandleDelta
<1> QED  BY <1>1, <1>2, <1>3, <1>4, <1>5 DEF Reflect

(* All steps keep the invariant: one case per action. *)
LEMMA NextIInv == IInv /\ [Next]_vars => IInv'
<1> SUFFICES ASSUME IInv, [Next]_vars PROVE IInv'
  OBVIOUS
<1>1. CASE Write \/ Compact \/ InstallCRD
  BY <1>1, StoreIInv
<1>2. CASE Launch
  BY <1>2, LaunchIInv
<1>3. CASE StartAgain
  BY <1>3, StartAgainIInv
<1>4. CASE Restart
  BY <1>4, RestartIInv
<1>5. CASE \E g \in Reflectors : Reflect(g)
  BY <1>5, ReflectIInv
<1>6. CASE UNCHANGED vars
  BY <1>6 DEF vars, serverVars, programVars, factoryVars, informerVars, IInv, TypeOK, Last,
     WiringInv, OrderInv, QueueInOrder, Ascends, InScope, PlanInv, Filled
<1> QED  BY <1>1, <1>2, <1>3, <1>4, <1>5, <1>6 DEF Next

(* The inductive invariant holds in every reachable state. *)
LEMMA Invariance == Spec => []IInv
BY InitIInv, NextIInv, PTL DEF Spec

(* Type correctness: what the store, the factory and the reflectors hold   *)
(* is well-formed, one informer is made by the calls to the factory, no    *)
(* two reflectors fill it.                                                 *)
THEOREM SpecTypeOK == Spec => []TypeOK
<1>1. IInv => TypeOK
  BY DEF IInv
<1> QED  BY <1>1, Invariance, PTL

(* A program that is up finds every policy that was there in all revisions *)
(* its first list could be of and in all later ones, whatever its          *)
(* namespace, when the factory is for all, as it is in both programs: New  *)
(* and Run name no namespace.                                              *)
THEOREM SpecStandingPoliciesAreFound ==
  ASSUME FactoryNamespace = NamespaceAll
  PROVE  Spec => []StandingPoliciesAreFound
<1>1. IInv => StandingPoliciesAreFound
  <2> SUFFICES ASSUME IInv, phase = "up", NEW k \in Keys,
                      \A r \in began..Last : Object(k, r) # Nil
               PROVE  Get(k[1], k[2]) # Nil /\ k \in List(NamespaceAll)
    BY DEF StandingPoliciesAreFound
  <2>1. Filled
    BY DEF IInv, PlanInv
  <2>2. lister \in Informers /\ lister # Nil
    BY <2>1 DEF Filled, IInv, TypeOK
  <2>3. Seen(k) = indexer[lister][k] /\ Seen(k) \in -1..Last /\ Last \in Nat /\ began \in Nat
    BY <2>2 DEF Seen, IInv, TypeOK, Last
  <2>4. Seen(k) >= began
    BY <2>1, <2>3 DEF Filled, InScope
  <2>5. Object(k, Seen(k)) # Nil
    BY <2>3, <2>4
  <2>6. k = <<k[1], k[2]>>
    BY DEF Keys
  <2> QED  BY <2>5, <2>6 DEF Get, List
<1> QED  BY <1>1, Invariance, PTL

-------------------------------------------------------------------------------
(* Nothing is missed. *)

(* Every set of naturals has a least one. *)
LEMMA LeastOf ==
  ASSUME NEW T, T \subseteq Nat, T # {}
  PROVE  \E n \in T : \A m \in T : n <= m
<1>1. PICK n \in T : \A m \in T : <<m, n>> \notin OpToRel(<, Nat)
  BY NatLessThanWellFounded, WFMin
<1>2. ASSUME NEW m \in T PROVE n <= m
  <2>1. m < n => <<m, n>> \in OpToRel(<, Nat)
    BY DEF OpToRel
  <2>2. ~ (m < n)
    BY <1>1, <2>1
  <2> QED  BY <2>2
<1> QED  BY <1>2

(* The last change and the object of a key, in any history h. *)
IsLast(h, k, r, i) ==
  /\ i \in 0..r
  /\ i = 0 \/ h[i].key = k
  /\ \A j \in (i + 1)..r : h[j].key # k

LastIn(h, k, r) == CHOOSE i : IsLast(h, k, r, i)

ObjectIn(h, k, r) ==
  IF r < 0 \/ LastIn(h, k, r) = 0 \/ h[LastIn(h, k, r)].op = "delete"
  THEN Nil ELSE LastIn(h, k, r)

(* There is a last change up to a revision, or revision 0. *)
LEMMA LastExists ==
  ASSUME NEW h, NEW k, NEW r \in Nat
  PROVE  LastIn(h, k, r) \in 0..r
<1> DEFINE T == {n \in 0..r : n = r \/ h[r - n].key = k}
<1>1. PICK n \in T : \A m \in T : n <= m
  <2>1. T \subseteq Nat /\ r \in T
    OBVIOUS
  <2> QED  BY <2>1, LeastOf
<1>2. r - n \in 0..r /\ (r - n = 0 \/ h[r - n].key = k)
  OBVIOUS
<1>3. ASSUME NEW j \in (r - n + 1)..r PROVE h[j].key # k
  <2>1. r - j \in 0..r /\ r - j < n /\ r - (r - j) = j
    BY <1>2
  <2>2. r - j \notin T
    BY <1>1, <2>1
  <2> QED  BY <2>1, <2>2
<1>4. IsLast(h, k, r, r - n)
  BY <1>2, <1>3 DEF IsLast
<1>5. IsLast(h, k, r, LastIn(h, k, r))
  BY <1>4 DEF LastIn
<1> QED  BY <1>5 DEF IsLast

(* A change of another key leaves an object as it was. *)
LEMMA OthersStay ==
  ASSUME NEW h, NEW k, NEW r \in Nat \ {0}, h[r].key # k
  PROVE  ObjectIn(h, k, r) = ObjectIn(h, k, r - 1)
<1>1. \A i : IsLast(h, k, r, i) <=> IsLast(h, k, r - 1, i)
  BY DEF IsLast
<1>2. LastIn(h, k, r) = LastIn(h, k, r - 1)
  BY <1>1 DEF LastIn
<1> QED  BY <1>2 DEF ObjectIn

(* Another change leaves the objects of earlier revisions as they were. *)
LEMMA PastStays ==
  ASSUME NEW D, NEW h \in Seq(D), NEW c, NEW k, NEW r \in -1..Len(h)
  PROVE  ObjectIn(Append(h, c), k, r) = ObjectIn(h, k, r)
<1>1. CASE r = -1
  BY <1>1 DEF ObjectIn
<1>2. CASE r \in 0..Len(h)
  <2>1. \A j \in 1..r : Append(h, c)[j] = h[j]
    BY <1>2
  <2>2. \A i : IsLast(Append(h, c), k, r, i) <=> IsLast(h, k, r, i)
    BY <1>2, <2>1 DEF IsLast
  <2>3. LastIn(Append(h, c), k, r) = LastIn(h, k, r)
    BY <2>2 DEF LastIn
  <2>4. LastIn(h, k, r) \in 0..r
    BY <1>2, LastExists
  <2> QED  BY <1>2, <2>1, <2>3, <2>4 DEF ObjectIn
<1> QED  BY <1>1, <1>2

(* NothingMissed in terms of these, before and after a step. *)
Missed(h, n, r, k) == ObjectIn(h, k, n) # ObjectIn(h, k, r)

LEMMA ObjectIs ==
  /\ \A k, r : Object(k, r) = ObjectIn(history, k, r)
  /\ NothingMissed <=>
       \A g \in Reflectors : reads[g] # Nil /\ rev[g] >= 0 =>
         \A k \in Keys : InScope(k) => ~ Missed(history, Newest(g, k), rev[g], k)
  /\ NothingMissed' <=>
       \A g \in Reflectors : reads'[g] # Nil /\ rev'[g] >= 0 =>
         \A k \in Keys : InScope(k) => ~ Missed(history', Newest(g, k)', rev'[g], k)
<1>1. \A k, r : Object(k, r) = ObjectIn(history, k, r)
  BY DEF Object, LastChange, ObjectIn, LastIn, IsLast
<1>2. NothingMissed <=>
       \A g \in Reflectors : reads[g] # Nil /\ rev[g] >= 0 =>
         \A k \in Keys : InScope(k) => ~ Missed(history, Newest(g, k), rev[g], k)
  BY <1>1 DEF NothingMissed, Missed, InScope
<1>3. \A g \in Reflectors, k \in Keys :
        /\ Object(k, Newest(g, k))' = ObjectIn(history', k, Newest(g, k)')
        /\ Object(k, rev[g])' = ObjectIn(history', k, rev'[g])
  BY DEF Object, LastChange, ObjectIn, LastIn, IsLast
<1>4. NothingMissed' <=>
       \A g \in Reflectors : reads'[g] # Nil /\ rev'[g] >= 0 =>
         \A k \in Keys : InScope(k) => ~ Missed(history', Newest(g, k)', rev'[g], k)
  BY <1>3 DEF NothingMissed, Missed, InScope
<1> QED  BY <1>1, <1>2, <1>4

(* What the queue and the indexer hold is a revision. *)
LEMMA NewestIs ==
  ASSUME IInv, NEW g \in Reflectors, reads[g] # Nil, NEW k \in Keys
  PROVE  Newest(g, k) \in -1..Last
<1>1. /\ indexer[reads[g]][k] \in -1..Last /\ deltas[g][k] \in Seq(0..Last)
      /\ Last \in Nat
  BY Reading DEF IInv, TypeOK, Last
<1>2. Queued(g, k) => deltas[g][k][Len(deltas[g][k])] \in 0..Last
  BY <1>1 DEF Queued
<1> QED  BY <1>1, <1>2 DEF Newest

(* Where store, queues and indexers stay, and who begins to read has not   *)
(* listed yet, nothing comes to be missed.                                 *)
LEMMA StaysTold ==
  ASSUME NothingMissed, UNCHANGED <<history, indexer, deltas, rev>>,
         \A g \in Reflectors : reads'[g] \in {reads[g], Nil} \/ rev[g] = -1
  PROVE  NothingMissed'
<1> SUFFICES ASSUME NEW g \in Reflectors, reads'[g] # Nil, rev'[g] >= 0,
                    NEW k \in Keys, InScope(k)
             PROVE  ~ Missed(history', Newest(g, k)', rev'[g], k)
  BY ObjectIs
<1>1. reads'[g] = reads[g]
  OBVIOUS
<1>2. Newest(g, k)' = Newest(g, k)
  BY <1>1 DEF Newest, Queued
<1> QED  BY <1>1, <1>2, ObjectIs

(* Writing adds to the store what no reflector has come to yet. *)
LEMMA WriteTold ==
  ASSUME IInv, NothingMissed, Write
  PROVE  NothingMissed'
<1>1. PICK l \in Keys, op \in {"put", "delete"} : Change(l, op)
  BY DEF Write, Create, Update, Patch, Delete
<1> DEFINE c == [key |-> l, op |-> op]
<1>2. history' = Append(history, c) /\ UNCHANGED <<indexer, reads, rev, deltas>>
  BY <1>1 DEF Change, informerVars
<1> SUFFICES ASSUME NEW g \in Reflectors, reads'[g] # Nil, rev'[g] >= 0,
                    NEW k \in Keys, InScope(k)
             PROVE  ~ Missed(history', Newest(g, k)', rev'[g], k)
  BY ObjectIs
<1>3. ~ Missed(history, Newest(g, k), rev[g], k)
  BY <1>2, ObjectIs
<1>4. Newest(g, k)' = Newest(g, k) /\ rev'[g] = rev[g]
  BY <1>2 DEF Newest, Queued
<1>5. Newest(g, k) \in -1..Len(history) /\ rev[g] \in -1..Len(history)
  BY <1>2, NewestIs, Reading DEF Last
<1>6. history \in Seq([key : Keys, op : {"put", "delete"}])
  BY DEF IInv, TypeOK
<1> HIDE DEF c
<1>7. \A r \in -1..Len(history) : ObjectIn(history', k, r) = ObjectIn(history, k, r)
  BY <1>2, <1>6, PastStays
<1> QED  BY <1>3, <1>4, <1>5, <1>7 DEF Missed

(* In a step of reflector g nothing comes to be missed but by g. *)
LEMMA MovesTold ==
  ASSUME IInv, NothingMissed, NEW g \in Reflectors, reads[g] # Nil,
         UNCHANGED <<history, reads>>,
         rev'[g] >= 0 =>
           \A k \in Keys : InScope(k) => ~ Missed(history, Newest(g, k)', rev'[g], k)
  PROVE  NothingMissed'
<1>1. \A h \in Reflectors : h # g => reads[h] = Nil
  BY DEF IInv, WiringInv, TypeOK
<1> QED  BY <1>1, ObjectIs

(* The list tells of what is gone as well as of what is there. *)
LEMMA ListTold ==
  ASSUME IInv, NothingMissed, NEW g \in Reflectors, ListPolicies(g)
  PROVE  NothingMissed'
<1> DEFINE n == reads[g]
<1>1. n # Nil /\ UNCHANGED <<serverVars, programVars, factoryVars, reads>>
  BY ListsIn
<1>2. PICK r \in ListableFrom(g) :
        /\ rev' = [rev EXCEPT ![g] = r]
        /\ deltas' = [deltas EXCEPT ![g] =
             [k \in Keys |-> IF k \in Told(g, r) THEN Append(deltas[g][k], r) ELSE deltas[g][k]]]
        /\ indexer' = [indexer EXCEPT ![n] = [k \in Keys |-> AsOf(g, r, k)]]
  BY ListsIn
<1>3. /\ n \in Informers /\ indexer[n] \in [Keys -> -1..Last]
      /\ deltas[g] \in [Keys -> Seq(0..Last)]
      /\ rev \in [Reflectors -> -1..Last] /\ deltas \in [Reflectors -> [Keys -> Seq(0..Last)]]
      /\ indexer \in [Informers -> [Keys -> -1..Last]]
      /\ Last \in Nat /\ r \in 0..Last
  <2>1. n \in Informers /\ indexer[n] \in [Keys -> -1..Last] /\ deltas[g] \in [Keys -> Seq(0..Last)]
    BY <1>1, Reading
  <2>2. r \in 0..Last
    <3>1. floor \in 0..Last /\ r \in floor..Last
      BY DEF IInv, TypeOK, ListableFrom
    <3> QED  BY <3>1
  <2> QED  BY <2>1, <2>2 DEF IInv, TypeOK, Last
<1>4. rev'[g] = r /\ n' = n
  BY <1>1, <1>2, <1>3
<1>5. ASSUME NEW k \in Keys, InScope(k)
      PROVE  ~ Missed(history, Newest(g, k)', r, k)
  <2>1. /\ deltas'[g][k] = IF k \in Told(g, r) THEN Append(deltas[g][k], r) ELSE deltas[g][k]
        /\ indexer'[n][k] = AsOf(g, r, k)
    BY <1>2, <1>3
  <2>2. CASE k \in Told(g, r)
    <3>1. deltas'[g][k] # <<>> /\ deltas'[g][k][Len(deltas'[g][k])] = r
      BY <1>3, <2>1, <2>2
    <3>2. Newest(g, k)' = r
      BY <3>1 DEF Newest, Queued
    <3> QED  BY <3>2 DEF Missed
  <2>3. CASE k \notin Told(g, r) /\ Newest(g, k) = r
    <3>1. AsOf(g, r, k) = indexer[n][k]
      BY <1>3, <2>3 DEF AsOf
    <3>2. Newest(g, k)' = r
      BY <1>4, <2>1, <2>3, <3>1 DEF Newest, Queued
    <3> QED  BY <3>2 DEF Missed
  <2>4. CASE k \notin Told(g, r) /\ Newest(g, k) # r
    <3>1. ~ Known(n, k) /\ ~ Queued(g, k) /\ k \notin ListedAt(r)
      BY <2>4 DEF Told
    <3>2. ObjectIn(history, k, r) = Nil /\ ObjectIn(history, k, indexer[n][k]) = Nil
      BY <1>5, <3>1, ObjectIs DEF ListedAt, Known
    <3>3. Newest(g, k)' = AsOf(g, r, k)
      BY <1>4, <2>1, <2>4, <3>1 DEF Newest, Queued
    <3>4. AsOf(g, r, k) \in {r, indexer[n][k]}
      BY DEF AsOf
    <3> QED  BY <3>2, <3>3, <3>4 DEF Missed
  <2> QED  BY <2>2, <2>3, <2>4
<1> QED  BY <1>1, <1>4, <1>5, MovesTold DEF serverVars

(* An event goes to the queue of its key and says nothing of the others. *)
LEMMA ReceiveTold ==
  ASSUME IInv, NothingMissed, NEW g \in Reflectors, reads[g] # Nil, Receive(g)
  PROVE  NothingMissed'
<1> DEFINE r == rev[g] + 1
           key == history[r].key
<1>1. /\ at[g] = "stream" /\ rev[g] < Last /\ rev' = [rev EXCEPT ![g] = r]
      /\ deltas' = IF InScope(key) THEN [deltas EXCEPT ![g][key] = Append(@, r)] ELSE deltas
      /\ UNCHANGED <<history, indexer, reads>>
  BY DEF Receive, serverVars
<1>2. /\ rev \in [Reflectors -> -1..Last] /\ deltas \in [Reflectors -> [Keys -> Seq(0..Last)]]
      /\ Last \in Nat /\ rev[g] >= 0
  BY <1>1, Reading DEF IInv, TypeOK, Last
<1>3. rev'[g] = r /\ r \in Nat \ {0} /\ r \in 1..Last
  BY <1>1, <1>2
<1>4. ASSUME NEW k \in Keys, InScope(k)
      PROVE  ~ Missed(history, Newest(g, k)', r, k)
  <2>1. CASE k = key
    <3>1. deltas'[g][k] = Append(deltas[g][k], r) /\ deltas[g][k] \in Seq(0..Last)
      BY <1>1, <1>2, <1>4, <2>1
    <3>2. deltas'[g][k] # <<>> /\ deltas'[g][k][Len(deltas'[g][k])] = r
      BY <1>3, <3>1
    <3>3. Newest(g, k)' = r
      BY <3>2 DEF Newest, Queued
    <3> QED  BY <3>3 DEF Missed
  <2>2. CASE k # key
    <3>1. deltas'[g][k] = deltas[g][k]
      BY <1>1, <1>2, <2>2
    <3>2. Newest(g, k)' = Newest(g, k)
      <4>1. UNCHANGED <<indexer, reads>>
        BY <1>1
      <4> QED  BY <3>1, <4>1 DEF Newest, Queued
    <3>3. ~ Missed(history, Newest(g, k), rev[g], k)
      BY <1>2, <1>4, ObjectIs
    <3>4. ObjectIn(history, k, r) = ObjectIn(history, k, r - 1) /\ r - 1 = rev[g]
      BY <1>2, <1>3, <2>2, OthersStay
    <3> QED  BY <3>2, <3>3, <3>4 DEF Missed
  <2> QED  BY <2>1, <2>2
<1> QED  BY <1>1, <1>3, <1>4, MovesTold

(* The last of a queue is the last of its tail, if there is one. *)
LEMMA LastOfTail ==
  ASSUME NEW S, NEW q \in Seq(S), q # <<>>
  PROVE  /\ Tail(q) = <<>> => Head(q) = q[Len(q)]
         /\ Tail(q) # <<>> => Tail(q)[Len(Tail(q))] = q[Len(q)]
<1>1. /\ Len(Tail(q)) = Len(q) - 1 /\ Len(q) \in Nat \ {0} /\ Head(q) = q[1]
      /\ \A j \in 1..(Len(q) - 1) : Tail(q)[j] = q[j + 1]
  OBVIOUS
<1>2. Tail(q) = <<>> => Len(q) = 1
  <2>1. Tail(q) = <<>> => Len(Tail(q)) = 0
    BY EmptySeq
  <2> QED  BY <1>1, <2>1
<1>3. Tail(q) # <<>> => Len(q) # 1
  <2>1. Tail(q) \in Seq(S)
    OBVIOUS
  <2> QED  BY <1>1, <2>1, EmptySeq
<1> QED  BY <1>1, <1>2, <1>3

(* The last delta of a key that is handled is then what the indexer has. *)
LEMMA HandleTold ==
  ASSUME IInv, NothingMissed, NEW g \in Reflectors, reads[g] # Nil,
         NEW key \in Keys, HandleDelta(g, key)
  PROVE  NothingMissed'
<1> DEFINE n == reads[g]
           d == deltas[g][key]
<1>1. /\ d # <<>>
      /\ indexer' = [indexer EXCEPT ![n][key] = Head(d)]
      /\ deltas' = [deltas EXCEPT ![g][key] = Tail(d)]
      /\ UNCHANGED <<history, reads, rev>>
  BY DEF HandleDelta, Queued, serverVars
<1>2. /\ n \in Informers /\ d \in Seq(0..Last)
      /\ deltas \in [Reflectors -> [Keys -> Seq(0..Last)]]
      /\ indexer \in [Informers -> [Keys -> -1..Last]]
  BY Reading DEF IInv, TypeOK
<1>3. ASSUME NEW k \in Keys PROVE Newest(g, k)' = Newest(g, k)
  <2>1. /\ indexer'[n][k] = IF k = key THEN Head(d) ELSE indexer[n][k]
        /\ deltas'[g][k] = IF k = key THEN Tail(d) ELSE deltas[g][k]
        /\ n' = n
    BY <1>1, <1>2
  <2>2. CASE k # key
    BY <2>1, <2>2 DEF Newest, Queued
  <2>3. CASE k = key
    <3>1. /\ Tail(d) = <<>> => Head(d) = d[Len(d)]
          /\ Tail(d) # <<>> => Tail(d)[Len(Tail(d))] = d[Len(d)]
      BY <1>1, <1>2, LastOfTail
    <3> QED  BY <1>1, <2>1, <2>3, <3>1 DEF Newest, Queued
  <2> QED  BY <2>2, <2>3
<1>4. rev'[g] >= 0 =>
        \A k \in Keys : InScope(k) => ~ Missed(history, Newest(g, k)', rev'[g], k)
  <2>1. rev'[g] = rev[g]
    BY <1>1
  <2> QED  BY <1>3, <2>1, ObjectIs
<1> QED  BY <1>1, <1>4, MovesTold

(* One case per action: what is missed does not begin with any of them. *)
LEMMA NextTold ==
  ASSUME IInv, NothingMissed, [Next]_vars
  PROVE  NothingMissed'
<1>1. CASE Write
  BY <1>1, WriteTold
<1>2. CASE Compact \/ InstallCRD \/ UNCHANGED vars
  <2>1. UNCHANGED <<history, indexer, deltas, rev, reads>>
    BY <1>2 DEF Compact, InstallCRD, vars, serverVars, informerVars
  <2> QED  BY <2>1, StaysTold
<1>3. CASE NewSharedInformerFactory \/ Restart
  <2>1. \A g \in Reflectors : reads'[g] = Nil
    BY <1>3 DEF NewSharedInformerFactory, Restart, NoFactory
  <2> QED  BY <2>1 DEF NothingMissed
<1>4. CASE CallStart \/ StartAgain
  <2>1. PICK g \in Reflectors : Start(g)
    BY <1>4 DEF CallStart, StartAgain
  <2>2. UNCHANGED <<history, indexer, deltas, rev>>
    BY <1>4 DEF CallStart, StartAgain, serverVars
  <2>3. reads' = reads \/ (reads[g] = Nil /\ reads' = [reads EXCEPT ![g] = informers])
    BY <2>1 DEF Start
  <2>4. reads[g] = Nil => rev[g] = -1
    BY DEF IInv, WiringInv
  <2>5. \A h \in Reflectors : reads'[h] = reads[h] \/ rev[h] = -1
    BY <2>3, <2>4 DEF IInv, TypeOK
  <2> QED  BY <2>2, <2>5, StaysTold
<1>5. CASE Connect \/ ConnectFails \/ CallInformer \/ CallLister \/ WaitForCacheSync \/ Up
  <2>1. UNCHANGED <<history, indexer, deltas, rev, reads>>
    BY <1>5 DEF Connect, ConnectFails, CallInformer, CallLister, WaitForCacheSync, Up,
       serverVars, informerVars
  <2> QED  BY <2>1, StaysTold
<1>6. ASSUME NEW g \in Reflectors, Reflect(g)
      PROVE  NothingMissed'
  <2>1. reads[g] # Nil
    BY <1>6 DEF Reflect, ListPolicies, WatchPolicies, Receive, StreamEnds, HandleDelta, Queued,
       IInv, WiringInv
  <2>2. CASE ListPolicies(g)
    BY <2>2, ListTold
  <2>3. CASE WatchPolicies(g) \/ StreamEnds(g)
    <3>1. UNCHANGED <<history, indexer, deltas, rev, reads>>
      BY <2>3 DEF WatchPolicies, StreamEnds, serverVars
    <3> QED  BY <3>1, StaysTold
  <2>4. CASE Receive(g)
    BY <2>1, <2>4, ReceiveTold
  <2>5. CASE \E k \in Keys : HandleDelta(g, k)
    BY <2>1, <2>5, HandleTold
  <2> QED  BY <1>6, <2>2, <2>3, <2>4, <2>5 DEF Reflect
<1> QED  BY <1>1, <1>2, <1>3, <1>4, <1>5, <1>6 DEF Next, Launch

(* What a reflector has come to is in its queue or in the indexer, of all  *)
(* policies that the informer's ListWatch asks for, whatever has happened  *)
(* to streams, revisions and lists.                                        *)
THEOREM SpecNothingMissed == Spec => []NothingMissed
<1>1. Init => NothingMissed
  BY DEF Init, NothingMissed
<1>2. IInv /\ NothingMissed /\ [Next]_vars => NothingMissed'
  BY NextTold
<1> QED  BY <1>1, <1>2, Invariance, PTL DEF Spec

-------------------------------------------------------------------------------
(* Refinement. *)

Shown == [k \in ViewedKeys |-> Seen(k)]

(* What is shown does not change when lister and indexer do not.           *)
LEMMA SameView ==
  ASSUME UNCHANGED <<lister, indexer>>
  PROVE  Shown' = Shown
BY DEF Shown, ViewedKeys, InScope, Seen

(* Steps that show nothing older than before and are not about the server  *)
(* or whether the program serves are steps of the view.                    *)
LEMMA Advances ==
  ASSUME IInv, IInv', \A k \in Keys : Seen(k)' >= Seen(k),
         UNCHANGED <<history, floor, began>>, (phase' = "up") = (phase = "up")
  PROVE  Abstract!Advance
<1>1. Last' = Last
  BY DEF Last
<1>2. ASSUME NEW k \in Keys PROVE Seen(k)' \in -1..Last'
  <2>1. lister' \in Informers \cup {Nil} /\ indexer' \in [Informers -> [Keys -> -1..Last']]
        /\ Last' \in Nat
    BY DEF IInv, TypeOK, Last
  <2> QED  BY <2>1 DEF Seen
<1>3. ViewedKeys \subseteq Keys /\ ViewedKeys' = ViewedKeys
  BY DEF ViewedKeys, InScope
<1>4. Shown' \in [ViewedKeys -> -1..Last]
  BY <1>1, <1>2, <1>3 DEF Shown
<1>5. \A k \in ViewedKeys : Shown'[k] >= Shown[k]
  BY <1>3 DEF Shown
<1> QED  BY <1>1, <1>4, <1>5 DEF Abstract!Advance, Shown

(* The start of the program is a start of the view, or no step of it. *)
LEMMA LaunchView ==
  ASSUME IInv, IInv', Launch
  PROVE  Abstract!ViewNext \/ UNCHANGED Abstract!viewVars
<1>1. CASE Connect \/ CallInformer \/ CallStart \/ WaitForCacheSync \/ ConnectFails
  <2>1. /\ UNCHANGED <<history, floor, began, lister, indexer>>
        /\ (phase' = "up") = (phase = "up")
    BY <1>1 DEF Connect, CallInformer, CallStart, WaitForCacheSync, ConnectFails, NextCallIs,
       serverVars, informerVars
  <2> QED  BY <2>1, SameView DEF Abstract!viewVars, Shown, Last
<1>2. CASE NewSharedInformerFactory
  <2>1. /\ UNCHANGED <<history, floor, began>> /\ phase' # "up" /\ phase # "up"
        /\ lister' = Nil /\ phase = "connecting"
    BY <1>2 DEF NewSharedInformerFactory, NoFactory, serverVars
  <2>2. lister = Nil
    BY <2>1 DEF IInv, WiringInv
  <2>3. Shown' = Shown
    BY <2>1, <2>2 DEF Shown, Seen, ViewedKeys, InScope
  <2> QED  BY <2>1, <2>3 DEF Abstract!viewVars, Shown, Last
<1>3. CASE CallLister
  <2>1. PICK i \in Informers : InformerFor(i) /\ lister' = i
    BY <1>3 DEF CallLister
  <2>2. UNCHANGED <<history, floor, began, phase, indexer>>
    BY <1>3 DEF CallLister, serverVars, informerVars
  <2>3. lister \in {Nil, i} /\ i # Nil
    BY <2>1, InformerForIs
  <2>4. \A k \in Keys : Seen(k)' >= Seen(k)
    <3>1. \A k \in Keys : indexer[i][k] \in Int /\ indexer[i][k] >= -1
      BY DEF IInv, TypeOK
    <3> QED  BY <2>1, <2>2, <2>3, <3>1 DEF Seen
  <2>5. Abstract!Advance
    BY <2>2, <2>4, Advances
  <2> QED  BY <2>5 DEF Abstract!ViewNext
<1>4. CASE Up
  <2>1. /\ UNCHANGED <<history, floor, began, lister, indexer>> /\ phase' = "up"
    BY <1>4 DEF Up, serverVars, informerVars
  <2>2. Filled
    BY <1>4 DEF Up, IInv, PlanInv
  <2>3. \A k \in ViewedKeys : Shown[k] >= began
    BY <2>2 DEF Filled, Shown, ViewedKeys, Seen
  <2>4. Abstract!Serve
    BY <2>1, <2>3, SameView DEF Abstract!Serve, Shown, Last
  <2> QED  BY <2>4 DEF Abstract!ViewNext
<1> QED  BY <1>1, <1>2, <1>3, <1>4 DEF Launch

(* Every step is a step of the view, or no step of it. *)
LEMMA NextView ==
  ASSUME IInv, IInv', [Next]_vars
  PROVE  Abstract!ViewNext \/ UNCHANGED Abstract!viewVars
<1>1. CASE Write \/ Compact \/ InstallCRD
  <2>1. /\ UNCHANGED <<programVars, factoryVars, informerVars>>
        /\ Last' \in Nat /\ Last \in Nat /\ Last' >= Last
        /\ floor \in Nat /\ floor' \in floor..Last'
    BY <1>1, StoreIInv DEF IInv, TypeOK, Last
  <2>2. Shown' = Shown
    BY <2>1, SameView DEF programVars, informerVars
  <2>3. Abstract!Change
    BY <2>1, <2>2 DEF Abstract!Change, Shown, programVars
  <2> QED  BY <2>3 DEF Abstract!ViewNext
<1>2. CASE Launch
  BY <1>2, LaunchView
<1>3. CASE StartAgain
  <2>1. UNCHANGED <<history, floor, began, lister, indexer, phase>>
    BY <1>3 DEF StartAgain, serverVars, programVars
  <2> QED  BY <2>1, SameView DEF Abstract!viewVars, Shown, Last
<1>4. CASE Restart
  <2>1. /\ UNCHANGED <<history, floor>> /\ began' = floor /\ lister' = Nil
        /\ phase' = "connecting"
    BY <1>4 DEF Restart, NoFactory, serverVars
  <2>2. Shown' = Abstract!Blind
    BY <2>1 DEF Shown, Seen, Abstract!Blind, ViewedKeys, InScope
  <2>3. Abstract!StartOver
    BY <2>1, <2>2 DEF Abstract!StartOver, Shown, Last
  <2> QED  BY <2>3 DEF Abstract!ViewNext
<1>5. CASE \E g \in Reflectors : Reflect(g)
  <2>1. PICK g \in Reflectors : Reflect(g)
    BY <1>5
  <2>2. /\ \A k \in Keys : Seen(k)' >= Seen(k)
        /\ UNCHANGED <<history, floor, began, phase>>
    BY <2>1, ReflectIInv DEF serverVars, programVars
  <2>3. Abstract!Advance
    BY <2>2, Advances
  <2> QED  BY <2>3 DEF Abstract!ViewNext
<1>6. CASE UNCHANGED vars
  <2>1. UNCHANGED <<history, floor, began, lister, indexer, phase>>
    BY <1>6 DEF vars, serverVars, programVars, informerVars
  <2> QED  BY <2>1, SameView DEF Abstract!viewVars, Shown, Last
<1> QED  BY <1>1, <1>2, <1>3, <1>4, <1>5, <1>6 DEF Next

(* The lister of either program shows the store as PolicyView allows: no   *)
(* key goes back to an earlier revision, and nothing is decided before all *)
(* keys are known as of a revision of the process's own time, whatever     *)
(* lists, watches and deltas do in the meantime.                           *)
THEOREM SpecImplementsView == Spec => ImplementsView
<1>1. Init => Abstract!ViewInit
  <2> SUFFICES ASSUME Init PROVE Abstract!ViewInit
    OBVIOUS
  <2>1. Last \in Nat
    BY InitIInv DEF IInv, TypeOK, Last
  <2> QED  BY <2>1 DEF Init, Abstract!ViewInit, Abstract!Blind, Seen
<1>2. IInv /\ IInv' /\ [Next]_vars => [Abstract!ViewNext]_(Abstract!viewVars)
  BY NextView
<1> QED  BY <1>1, <1>2, Invariance, PTL DEF Spec, ImplementsView, Abstract!ViewSpec

===============================================================================
