---------------------------- MODULE PolicyInformer ----------------------------
(***************************************************************************)
(* How the policies get from the API server into the lister that the       *)
(* scheduler plugin and the descheduler read: typed client, shared         *)
(* informer factory, ListWatch, informer and lister, and the calls by      *)
(* which each of the two programs brings them up.                          *)
(*                                                                         *)
(* The store is its history of changes, one for each resourceVersion; an   *)
(* object is known by the revision that wrote it.  The API server and the  *)
(* machinery of client-go (Reflector, DeltaFIFO, SharedIndexInformer) are  *)
(* not under src/ and are marked external in the map.  Resync periods are  *)
(* zero in both programs and left out, as are label selectors, which both  *)
(* leave open.                                                             *)
(***************************************************************************)
EXTENDS Integers, Sequences

CONSTANTS
  Namespaces, Names, \* of policies
  NamespaceAll,      \* the empty namespace
  FactoryNamespace,  \* the factory's namespace option
  Nil,               \* no informer, no object
  Informers,         \* the SharedIndexInformers that a run may make
  Reflectors,        \* the goroutines in informer.Run
  MaxRevision        \* bound: resourceVersions per behaviour

Keys == Namespaces \X Names

ASSUME NamespaceAssumption ==
  /\ NamespaceAll \notin Namespaces
  /\ FactoryNamespace \in Namespaces \cup {NamespaceAll}

ASSUME InformerAssumption == Nil \notin Informers /\ Informers # {} /\ Reflectors # {}

ASSUME RevisionAssumption == MaxRevision \in Nat

VARIABLES
  \* the API server
  history,  \* the changes: history[r] made revision r
  floor,    \* the first revision that has not been compacted
  served,   \* the CustomResourceDefinition is installed
  \* the program
  program,  \* which of the two it is
  phase,    \* where its process is
  calls,    \* the calls still to come in that phase
  lister,   \* the informer whose indexer its lister reads
  awaited,  \* the informer the plugin keeps to wait for
  began,    \* history: floor when the process began
  \* its factory: sharedInformerFactory, for the one type it is asked for
  informers,        \* the informer of the type, or Nil
  startedInformers, \* whether that one was started
  made,             \* all informers made in this process
  \* the informers
  indexer,  \* informer -> key -> the revision it is known as of; -1: nothing
  reads,    \* reflector -> the informer it fills, or Nil
  at,       \* reflector -> its next request
  rev,      \* reflector -> lastSyncResourceVersion; -1: has not listed yet
  deltas,   \* reflector -> key -> revisions queued for the indexer
  initial   \* reflector -> keys of the first list still in the queue

serverVars == <<history, floor, served>>
programVars == <<program, phase, calls, lister, awaited, began>>
factoryVars == <<informers, startedInformers, made>>
informerVars == <<indexer, reads, at, rev, deltas, initial>>
vars == <<serverVars, programVars, factoryVars, informerVars>>

(* The scheduler, with the plugin registered, and the descheduler. *)
Programs == {"scheduler", "descheduler"}

-------------------------------------------------------------------------------
(* The store. *)

Last == Len(history)

(* The last change of a key up to revision r; 0 if there is none. *)
LastChange(k, r) ==
  CHOOSE i \in 0..r :
    /\ i = 0 \/ history[i].key = k
    /\ \A j \in (i + 1)..r : history[j].key # k

(* The object of a key at revision r; nothing is known at -1. *)
Object(k, r) ==
  LET i == LastChange(k, r)
  IN  IF r < 0 \/ i = 0 \/ history[i].op = "delete" THEN Nil ELSE i

Exists(k) == Object(k, Last) # Nil

Change(k, op) ==
  /\ Last < MaxRevision
  /\ history' = Append(history, [key |-> k, op |-> op])
  /\ UNCHANGED <<floor, served, programVars, factoryVars, informerVars>>

(* The requests of the typed client that change the store.  A refused one  *)
(* changes nothing.  UpdateStatus is always refused: the manifest of the   *)
(* CustomResourceDefinition has no status subresource.                     *)
Create(k) == ~ Exists(k) /\ Change(k, "put")

(* From an object that is still the current one; a stale one is a conflict. *)
Update(k) == Exists(k) /\ Change(k, "put")

Patch(k) == Exists(k) /\ Change(k, "put")

(* One object; a collection is deleted object by object. *)
Delete(k) == Exists(k) /\ Change(k, "delete")

(* Old revisions, and with them old watches, are given up. *)
Compact ==
  /\ floor' \in (floor + 1)..Last
  /\ UNCHANGED <<history, served, programVars, factoryVars, informerVars>>

InstallCRD ==
  /\ ~ served
  /\ served' = TRUE
  /\ UNCHANGED <<history, floor, programVars, factoryVars, informerVars>>

-------------------------------------------------------------------------------
(* The typed client and the informer's ListWatch. *)

(* Slip: some namespace, where the factory's option should be looked at. *)
InOneNamespace(k) == k[1] = CHOOSE n \in Namespaces : TRUE

(* The informer asks for the factory's namespace, or for all. *)
InScope(k) == FactoryNamespace \in {NamespaceAll, k[1]}

(* List, at a revision that the API server's cache still has and that is   *)
(* not older than what the reflector has seen: the keys found.             *)
ListedAt(r) == {k \in Keys : InScope(k) /\ Object(k, r) # Nil}

ListableFrom(r) == {s \in floor..Last : s >= rev[r]}

(* Watch from the reflector's revision; one that is too old has expired. *)
Watchable(r) == rev[r] >= floor

-------------------------------------------------------------------------------
(* The factory. *)

(* Slip: the map is not looked up. *)
InformerAnew(i) ==
  i \notin made /\ informers' = i /\ made' = made \cup {i}

(* InformerFor, under the factory's lock: i is the informer of the type. *)
InformerFor(i) ==
  IF informers # Nil
  THEN i = informers /\ UNCHANGED <<informers, made>>
  ELSE i \notin made /\ informers' = i /\ made' = made \cup {i}

(* Slip: whoever calls Start starts it. *)
StartRegardless == informers # Nil

MustStart == informers # Nil /\ ~ startedInformers

(* Start runs the informer of every type that is not started yet in a      *)
(* goroutine of its own, here g.                                           *)
Start(g) ==
  IF MustStart
  THEN /\ reads[g] = Nil
       /\ reads' = [reads EXCEPT ![g] = informers]
       /\ startedInformers' = TRUE
  ELSE UNCHANGED <<reads, startedInformers>>

(* The first list is in the indexer. *)
HasSynced(i) ==
  \E g \in Reflectors : reads[g] = i /\ rev[g] >= 0 /\ initial[g] = {}

(* The factory waits for the informers it has started, if any. *)
FactorySynced == startedInformers => HasSynced(informers)

-------------------------------------------------------------------------------
(* The lister. *)

Seen(k) == IF lister = Nil THEN -1 ELSE indexer[lister][k]

(* Lister.TopologySchedulingPolicies(ns).Get(name): the object or NotFound. *)
Get(ns, name) == Object(<<ns, name>>, Seen(<<ns, name>>))

(* ... and its List, for NamespaceAll the whole indexer. *)
List(ns) == {k \in Keys : ns \in {NamespaceAll, k[1]} /\ Get(k[1], k[2]) # Nil}

-------------------------------------------------------------------------------
(* The program's start. *)

(* What may fail, in this order, before there is a factory. *)
NewForConfig == <<"RESTClientFor", "NewDiscoveryClientForConfig">>
CreateClient == <<"ClientConfig">> \o NewForConfig

PluginConnects == <<"DecodeInto", "BuildConfigFromFlags">> \o NewForConfig
RunConnects ==
  <<"KubernetesClient">> \o CreateClient \o <<"LoadPolicyConfig", "SupportEviction">>

ConnectsOf(p) == IF p = "scheduler" THEN PluginConnects ELSE RunConnects

(* Slip: informers requested after Start are neither started nor waited for. *)
StartsTooEarly == <<"Start", "WaitForCacheSync", "Informer", "Lister">>

(* The factory is made, and these are the calls to it. *)
PluginCalls == <<"Lister", "Informer", "Start", "WaitForCacheSync">>
DeschedulerCalls == <<"Informer", "Lister", "Start", "WaitForCacheSync">>

CallsOf(p) == IF p = "scheduler" THEN PluginCalls ELSE DeschedulerCalls

NoFactory ==
  /\ lister' = Nil /\ awaited' = Nil
  /\ informers' = Nil /\ startedInformers' = FALSE /\ made' = {}
  /\ indexer' = [i \in Informers |-> [k \in Keys |-> -1]]
  /\ reads' = [g \in Reflectors |-> Nil]
  /\ at' = [g \in Reflectors |-> "list"]
  /\ rev' = [g \in Reflectors |-> -1]
  /\ deltas' = [g \in Reflectors |-> [k \in Keys |-> <<>>]]
  /\ initial' = [g \in Reflectors |-> {}]

(* The store that the first process finds: empty, or one policy in it.     *)
StoreBefore == {<<>>} \cup {<<[key |-> k, op |-> "put"]>> : k \in Keys}

Init ==
  /\ history \in StoreBefore /\ floor = Last /\ served \in BOOLEAN
  /\ program \in Programs /\ phase = "connecting" /\ began = floor
  /\ calls = ConnectsOf(program) /\ lister = Nil /\ awaited = Nil
  /\ informers = Nil /\ startedInformers = FALSE /\ made = {}
  /\ indexer = [i \in Informers |-> [k \in Keys |-> -1]]
  /\ reads = [g \in Reflectors |-> Nil]
  /\ at = [g \in Reflectors |-> "list"]
  /\ rev = [g \in Reflectors |-> -1]
  /\ deltas = [g \in Reflectors |-> [k \in Keys |-> <<>>]]
  /\ initial = [g \in Reflectors |-> {}]

Connect ==
  /\ phase = "connecting"
  /\ calls # <<>>
  /\ calls' = Tail(calls)
  /\ UNCHANGED <<serverVars, program, phase, lister, awaited, began, factoryVars, informerVars>>

(* New returns the error and the scheduler with it; the descheduler's Run  *)
(* returns it, if there is one, and the command logs it and ends.          *)
ConnectFails ==
  /\ phase = "connecting"
  /\ calls # <<>>
  /\ phase' = "exited"
  /\ calls' = <<>>
  /\ UNCHANGED <<serverVars, program, lister, awaited, began, factoryVars, informerVars>>

(* A factory for all namespaces, with no informer and nothing started. *)
NewSharedInformerFactory ==
  /\ phase = "connecting"
  /\ calls = <<>>
  /\ phase' = "starting"
  /\ calls' = CallsOf(program)
  /\ NoFactory
  /\ UNCHANGED <<serverVars, program, began>>

NextCallIs(call) == phase = "starting" /\ calls # <<>> /\ Head(calls) = call

CallInformer ==
  /\ NextCallIs("Informer")
  /\ calls' = Tail(calls)
  /\ \E i \in Informers : InformerFor(i) /\ awaited' = i
  /\ UNCHANGED <<serverVars, program, phase, lister, began, startedInformers, informerVars>>

CallLister ==
  /\ NextCallIs("Lister")
  /\ calls' = Tail(calls)
  /\ \E i \in Informers : InformerFor(i) /\ lister' = i
  /\ UNCHANGED <<serverVars, program, phase, awaited, began, startedInformers, informerVars>>

CallStart ==
  /\ NextCallIs("Start")
  /\ calls' = Tail(calls)
  /\ \E g \in Reflectors : Start(g)
  /\ UNCHANGED <<serverVars, program, phase, lister, awaited, began, informers, made,
                 indexer, at, rev, deltas, initial>>

(* The plugin polls its informer, with a nil stop channel that never ends  *)
(* the wait; the descheduler asks the factory and ignores the answer.      *)
WaitForCacheSync ==
  /\ NextCallIs("WaitForCacheSync")
  /\ IF program = "scheduler" THEN HasSynced(awaited) ELSE FactorySynced
  /\ calls' = Tail(calls)
  /\ UNCHANGED <<serverVars, program, phase, lister, awaited, began, factoryVars,
                 informerVars>>

(* New returns the plugin; the descheduler begins its passes. *)
Up ==
  /\ phase = "starting"
  /\ calls = <<>>
  /\ phase' = "up"
  /\ UNCHANGED <<serverVars, program, calls, lister, awaited, began, factoryVars,
                 informerVars>>

(* "This allows Start() to be called multiple times safely." *)
StartAgain ==
  /\ phase = "up"
  /\ \E g \in Reflectors : Start(g)
  /\ UNCHANGED <<serverVars, programVars, informers, made, indexer, at, rev, deltas,
                 initial>>

(* The process ends, at any time, and the kubelet starts it again. *)
Restart ==
  /\ phase' = "connecting"
  /\ calls' = ConnectsOf(program)
  /\ began' = floor
  /\ NoFactory
  /\ UNCHANGED <<serverVars, program>>

-------------------------------------------------------------------------------
(* A reflector, its queue and the indexer. *)

Known(i, k) == Object(k, indexer[i][k]) # Nil

Queued(g, k) == deltas[g][k] # <<>>

(* What the queue, or else the indexer, holds last of a key. *)
Newest(g, k) ==
  IF Queued(g, k) THEN deltas[g][k][Len(deltas[g][k])] ELSE indexer[reads[g]][k]

(* ListFunc.  Every key that is listed, and every one that the indexer or  *)
(* the queue still has, goes to the queue, unless it is there as of that   *)
(* revision; of the others there is nothing to tell.                       *)
ListPolicies(g) ==
  /\ reads[g] # Nil /\ at[g] = "list"
  /\ served
  /\ \E r \in ListableFrom(g) :
       LET told == {k \in ListedAt(r) \cup {l \in Keys : Known(reads[g], l) \/ Queued(g, l)} :
                      Newest(g, k) # r}
       IN  /\ rev' = [rev EXCEPT ![g] = r]
           /\ deltas' = [deltas EXCEPT ![g] =
                [k \in Keys |-> IF k \in told THEN Append(@[k], r) ELSE @[k]]]
           /\ indexer' = [indexer EXCEPT ![reads[g]] =
                [k \in Keys |-> IF k \in told \/ ~ InScope(k) \/ Newest(g, k) >= r THEN @[k] ELSE r]]
           /\ initial' = [initial EXCEPT ![g] = IF rev[g] = -1 THEN told ELSE @]
  /\ at' = [at EXCEPT ![g] = "watch"]
  /\ UNCHANGED <<serverVars, programVars, factoryVars, reads>>

(* WatchFunc, from where the reflector is. *)
WatchPolicies(g) ==
  /\ reads[g] # Nil /\ at[g] = "watch"
  /\ served
  /\ at' = [at EXCEPT ![g] = IF Watchable(g) THEN "stream" ELSE "list"]
  /\ UNCHANGED <<serverVars, programVars, factoryVars, indexer, reads, rev, deltas, initial>>

(* The stream has every change after that, in order. *)
Receive(g) ==
  /\ at[g] = "stream"
  /\ rev[g] < Last
  /\ LET r == rev[g] + 1
         k == history[r].key
     IN  /\ rev' = [rev EXCEPT ![g] = r]
         /\ deltas' = IF InScope(k) THEN [deltas EXCEPT ![g][k] = Append(@, r)] ELSE deltas
  /\ UNCHANGED <<serverVars, programVars, factoryVars, indexer, reads, at, initial>>

(* It times out or breaks: another watch, or another list. *)
StreamEnds(g) ==
  /\ at[g] = "stream"
  /\ at' \in {[at EXCEPT ![g] = "watch"], [at EXCEPT ![g] = "list"]}
  /\ UNCHANGED <<serverVars, programVars, factoryVars, indexer, reads, rev, deltas, initial>>

(* The queue keeps the order of the deltas of a key, not that of the keys. *)
HandleDelta(g, k) ==
  /\ Queued(g, k)
  /\ indexer' = [indexer EXCEPT ![reads[g]][k] = Head(deltas[g][k])]
  /\ deltas' = [deltas EXCEPT ![g][k] = Tail(@)]
  /\ initial' = [initial EXCEPT ![g] = @ \ {k}]
  /\ UNCHANGED <<serverVars, programVars, factoryVars, reads, at, rev>>

-------------------------------------------------------------------------------
Write == \E k \in Keys : Create(k) \/ Update(k) \/ Patch(k) \/ Delete(k)

Launch ==
  \/ Connect \/ ConnectFails \/ NewSharedInformerFactory \/ CallInformer \/ CallLister
  \/ CallStart \/ WaitForCacheSync \/ Up

Reflect(g) ==
  \/ ListPolicies(g) \/ WatchPolicies(g) \/ Receive(g) \/ StreamEnds(g)
  \/ \E k \in Keys : HandleDelta(g, k)

Next ==
  \/ Write \/ Compact \/ InstallCRD
  \/ Launch \/ StartAgain \/ Restart
  \/ \E g \in Reflectors : Reflect(g)

Spec == Init /\ [][Next]_vars

-------------------------------------------------------------------------------
(* Properties. *)

Calls ==
  {"RESTClientFor", "NewDiscoveryClientForConfig", "ClientConfig", "DecodeInto",
   "BuildConfigFromFlags", "KubernetesClient", "LoadPolicyConfig", "SupportEviction",
   "Lister", "Informer", "Start", "WaitForCacheSync"}

TypeOK ==
  /\ history \in Seq([key : Keys, op : {"put", "delete"}])
  /\ floor \in 0..Last /\ began \in 0..floor
  /\ served \in BOOLEAN
  /\ program \in Programs
  /\ phase \in {"connecting", "starting", "up", "exited"}
  /\ calls \in Seq(Calls)
  /\ lister \in made \cup {Nil} /\ awaited \in made \cup {Nil} /\ informers \in made \cup {Nil}
  /\ made \subseteq Informers
  /\ startedInformers \in BOOLEAN
  /\ indexer \in [Informers -> [Keys -> -1..Last]]
  /\ reads \in [Reflectors -> made \cup {Nil}]
  /\ \A g, h \in Reflectors : reads[g] = reads[h] /\ reads[g] # Nil => g = h
  /\ at \in [Reflectors -> {"list", "watch", "stream"}]
  /\ rev \in [Reflectors -> -1..Last]
  /\ deltas \in [Reflectors -> [Keys -> Seq(0..Last)]]
  /\ initial \in [Reflectors -> SUBSET Keys]

(* ImplementsView: whichever program calls the factory in its order, with  *)
(* streams that break, revisions that expire, lists that are stale, Start  *)
(* called again and restarts, what its lister shows is what PolicyView     *)
(* allows: no key ever goes back, and no decision before it is filled.     *)
ViewedKeys == {k \in Keys : InScope(k)}

Abstract == INSTANCE PolicyView
  WITH ViewKeys <- ViewedKeys,
       revision <- Last,
       oldest   <- floor,
       view     <- [k \in ViewedKeys |-> Seen(k)],
       serving  <- phase = "up"

ImplementsView == Abstract!ViewSpec

(* StandingPoliciesAreFound: once New has returned, or the passes have     *)
(* begun, PreFilter's Get and the strategy's List for all namespaces find  *)
(* every policy, of any namespace, that was there in all revisions that    *)
(* the API server could still list when the process began, and in all      *)
(* later ones.  The first list may be of any of these revisions: a policy  *)
(* created after the last compaction, even if before the process began,    *)
(* may not be found yet.                                                   *)
StandingPoliciesAreFound ==
  phase = "up" =>
    \A k \in Keys :
      (\A r \in began..Last : Object(k, r) # Nil) =>
        Get(k[1], k[2]) # Nil /\ k \in List(NamespaceAll)

(* NothingMissed: whatever streams broke, revisions expired and lists were *)
(* taken instead, stale ones too, the queue and the indexer together say   *)
(* of every policy of the factory's namespace, or of all, what the store   *)
(* said at the revision that the reflector has come to: changes and        *)
(* deletions that no stream has told are not lost (the informer's          *)
(* ListWatch).                                                             *)
NothingMissed ==
  \A g \in Reflectors :
    reads[g] # Nil /\ rev[g] >= 0 =>
      \A k \in Keys :
        FactoryNamespace \in {NamespaceAll, k[1]} =>
          Object(k, Newest(g, k)) = Object(k, rev[g])

-------------------------------------------------------------------------------
(* Liveness. *)

(* The program and its goroutines go on, requests are answered when they   *)
(* are sent again and again, a stream does not always break before it has  *)
(* delivered anything, and the kubelet starts a process that ended.        *)
Fairness ==
  /\ WF_vars(Connect \/ NewSharedInformerFactory)
  /\ WF_vars(CallInformer \/ CallLister \/ CallStart \/ Up)
  /\ SF_vars(WaitForCacheSync)
  /\ WF_vars(phase = "exited" /\ Restart)
  /\ \A g \in Reflectors :
       /\ SF_vars(ListPolicies(g)) /\ SF_vars(WatchPolicies(g)) /\ SF_vars(Receive(g))
       /\ WF_vars(\E k \in Keys : HandleDelta(g, k))

FairSpec == Spec /\ Fairness

Crash == (phase # "exited" /\ Restart) \/ ConnectFails

(* ComesUp: once the CustomResourceDefinition is installed, however late,  *)
(* a process that is left alone and can connect gets up, although neither  *)
(* Start(nil) nor WaitForCacheSync(nil, ...) would ever give up without    *)
(* it.                                                                     *)
ComesUp == <>served /\ <>[][~ Crash]_vars => <>[](phase = "up")

(* CatchesUp: when nobody writes any more, the lister of a process that is *)
(* left alone comes to show the store as it is.                            *)
CatchesUp ==
  <>served /\ <>[][~ Crash /\ ~ Write]_vars =>
    <>[](\A k \in Keys : Get(k[1], k[2]) = Object(k, Last))

===============================================================================
