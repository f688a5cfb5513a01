# Verification of super-scheduling

TLA+ models, TLC runs and TLAPS proofs for this repository: a kube-scheduler
plugin that spreads pods over topology values as a `TopologySchedulingPolicy`
asks (`pkg/topologyscheduling`), a descheduler that evicts the pods that are
too many (`pkg/descheduler`), a plugin that filters virtual nodes by
scheduling in the clusters behind them (`pkg/multicluster`), and the generated
client, informer and lister through which both programs see the policies
(`pkg/generated`).

Contents: [inventory](#1-the-system), [modules and code](#2-modules-and-the-code-they-model),
[runs](#3-runs), [fairness](#4-fairness), [findings](#5-where-code-and-documentation-disagree),
[proofs](#6-proofs), [what is left out](#7-not-modelled), [plan](#8-plan).

## 1. The system

### Scheduler plugin `TopologyScheduling` (pkg/topologyscheduling, pkg/util/utils.go)

*State.* One informer cache of policies, shared by all calls; the framework's
snapshot, which every scheduling cycle replaces; per cycle a `preFilterState`
in the `CycleState`: topology key, replicas per value, selector, strategy and
`TpPairToMatchNum`, a counter for each (key, value) pair.

*Operations.* `PreFilter` reads the policy the pod's label names and counts
the matching pods of the snapshot. `Filter` reads the policy again and accepts
a node whose value is short of its replicas, or any labelled node once every
value has them. `Score` prefers full values (Fill) or empty ones (Balance).
`Reserve` adds the pod to its cycle's counter, `Unreserve` takes it off.
`AddPod`, `RemovePod` and `Clone` serve the preemption dry run and nominated pods.

*Interaction.* Cycles run one after the other; the binding cycle of each pod
that got a host runs beside the following scheduling cycles with a
`CycleState` of its own. Nodes, pods and policies change between any two calls.

*Hard.* The policy is read twice in a cycle. The counters come from a snapshot
that assumed, failing, terminating and deleted pods move away from. Counters
are found by a map lookup and dereferenced without a test. `Unreserve` looks
its node up in whatever snapshot is current. Dry runs on all nodes work at once on
clones of one state. Scores go through float to int and
must lie in 0..100. The process may die between `Reserve` and the bind.

*Correct when.* A host is chosen only in a value short of its replicas unless
all have theirs; the cluster as the scheduler sees it never takes a pod that
the policy forbids, whatever interleaves; nothing is dereferenced that does not
exist; `Unreserve` undoes `Reserve`; a clone's changes stay in the clone and count right;
Fill finishes what it started; waiting pods get bound.

### Descheduler (pkg/descheduler)

*State.* The policy cache, and per pass: ready nodes, policies, the evictor's
count per node, and for the policy at hand the list of its pods by pair.

*Operations.* `RunDeschedulerStrategies` loops over passes until the stop
channel is closed, which fewer than two ready nodes do.
`RemovePodsViolatingTopologySchedulingPolicy` lists and counts the pods of each
policy, skips it when `checkTopoReached`, and otherwise evicts from each value
that has too many, in the order of `ByCostom.Less`.

*Interaction.* It evicts by name through the API server. The controllers of
the pods create them again and the scheduler plugin places them while it still
works on its list; others delete pods, relabel nodes and edit policies.

*Hard.* A stale list; results of `EvictPod` that nobody looks at; a limit per
node; an index that may run past the list; a `Less` that is not an order; a
process that ends in the middle and begins again; a scheduler that answers every
eviction.

*Correct when.* It never takes a value below its replicas by its own doing; it
skips a policy only when there is nothing to do; a surplus is evicted in the
end; scheduler and descheduler settle; idle pods go before running ones; it panics
never, or only where stated.

### Multi-cluster plugin (pkg/multicluster)

*State.* For each member cluster an inner scheduler `Algorithm` with informers,
a cache and one snapshot of its own.

*Operations.* `New` builds an inner scheduler for each configured cluster and
starts it in a goroutine; `Filter` on a virtual node converts a copy of the pod
(`ConvertAnnotations`) and runs the inner `Algorithm.Filter` for the node's cluster. The copy's
node selector, affinity and tolerations are those of the annotation, or none; all else, topology
spread constraints among it, is kept.

*Interaction.* The framework filters all nodes in parallel and hands each call the
same `CycleState`; inner caches follow the clusters' API servers; a virtual
kubelet runs a bound pod in the cluster some time later.

*Hard.* Each inner scheduler writes its PreFilter data into the shared `CycleState`, over those of
the profile's own plugins and of parallel calls; two virtual nodes of one cluster share its
`Algorithm` and snapshot. `New` returns before the inner informers have synced. Nothing is
assumed in the inner caches. A cluster may never answer.

*Correct when.* `New` leaves out no configured cluster; a virtual node passes exactly when a
node of its own cluster fits (which the code gives only to pods without such data, or to the first call
that comes to its cluster, section 3); a cluster that does not answer does not keep pods from the others.

### Policy informers (pkg/generated, and their use in the other parts)

*State.* The factory: the informer of the type, whether it is started, its
namespace. The informer's indexer, filled by a reflector with a
`resourceVersion` and a queue of deltas.

*Operations.* The typed client's requests; `InformerFor`, `Start`,
`WaitForCacheSync` of the factory; `Informer`, `Lister`; `List` and `Get` of the lister. The
scheduler plugin (`New`, topology_scheduling.go:129) and the descheduler
(`Run`, descheduler.go:69, and `RunDeschedulerStrategies`) bring them up by calls of their own.

*Interaction.* The cache changes behind the reader's back, key by key.

*Hard.* Lists from a stale API server cache, compacted revisions, streams that break,
two requests to the factory for one informer, `Start` called again, a stop
channel that is nil, a CustomResourceDefinition that is not there yet.

*Correct when.* What is read never goes back to an older state; no decision is
made before the cache is filled, and then no policy is missing that was there all along;
the program comes up once it can and catches up with the store.

### The rest

The policy API (types, deep copies), `Parallelizer.Until` and `ErrorChannel`
(no caller), the component configuration types and the commands' flags.

`PROJECT.json` lists every part with its status, and under `hazards` each place
where the code is hard to test, with the properties aimed at it.

## 2. Modules and the code they model

| module | models |
| --- | --- |
| `TopologyPolicy` | pure functions: `CovertPolicy`, `checkPolicyRequirementReached`, `checkTopoValueReached`, `score` |
| `TopologyScheduling` | the plugin inside the framework: scheduling cycle, binding cycles, caches, restart |
| `Preemption` | the same scheduler when pods of high priority preempt: `Clone`, `AddPod`, `RemovePod` |
| `PlacementQuota` | abstract: what the plugin promises under one policy, without snapshots or counters |
| `TopologySchedulingQuota` | the refinement mapping from `TopologyScheduling`, and from `Preemption`, to `PlacementQuota` |
| `Descheduler` | the descheduler's loop and strategy against a changing cluster |
| `ByCostom`, `EvictionOrder` | the order of evictions, and `sort.Sort` run with it, comparison by comparison |
| `SuperScheduling` | both programs over one cluster: `Descheduler` composed with `PlacementQuota` |
| `PolicyInformer` | store, factory, informer and lister, and both programs' start-up |
| `PolicyView` | abstract: what the lister promises, without factory, reflector or queue |
| `MultiCluster` | `New` and the parallel `Filter` calls of the multi-cluster plugin |
| `MC...` | constants for TLC |
| `..._proofs` | the theorems, section 6 |

`TopologyScheduling` and `Descheduler` each have the rest of the cluster as an
environment that may do anything the other program could. `SuperScheduling` makes them
partners: its scheduler is `PlacementQuota`, which run `quota` checks and
`SpecImplementsQuota` proves to be implemented by `TopologyScheduling`. The policy caches
of both are variables that change between any two reads; `PolicyInformer` shows where these
come from and that they keep to `PolicyView`.

The definitions with a comment that begins "Slip:" are plausible mistakes in the
code next to which they stand; no specification uses them. The runs' properties are tried
against them, so that each property is known to fail when the code is wrong.

### TopologyScheduling

One action for each extension point, named after it. Error returns are actions
of their own: `PreFilterFails`, `FilterFails`, `SelectFails`; a nil dereference
is `ReservePanics` or `UnreservePanics`, after which only `Restart` and the
outside world go on.

| code | model |
| --- | --- |
| `preFilterState` in the `CycleState` | `state` in the scheduling cycle, `bindState[p]` in the binding cycle of p |
| `TpPairToMatchNum` | a function whose DOMAIN is the set of pairs with a counter |
| policy lister | `policies[q]`, `Nil` when not found |
| snapshot (`SharedLister`) | `snapNodes`, `snapPlace`, `snapTerm` |
| scheduler cache | `nodes`, `podNode`, `terminating` |
| `PreFilter`, `calculatePreFilterStateCache` | `PreFilter`, one step: its workers read the snapshot and add atomically to counters made before they start |
| `Filter`, parallel over nodes | `Filter(n)`, a step for each node, which reads `policies` anew |
| `Score`, `NormalizeScore`, host selection | `SelectHost(n)`, `SelectFails` |
| `Reserve`, `Unreserve`, `updateWithPod` | the same names |

The pod's own node selector is a constant set of nodes (`NodeSelector`), which
is exact for affinity by node name and for labels that stay; what the other
Filter plugins of the profile accept is another (`OtherFilters`), so that a
profile that enforces the selector and the project's own profile, which
disables those filters, are both instances. A label selector is the set
of pods it matches. `reservedFrom` is a history variable.

Two details the model keeps because properties hang on them: a node without the
label reads as the empty string when pods are counted and as missing elsewhere,
and `CovertPolicy` lets the last entry of a repeated name win. `score` is the
integer form of the float computation and gives the same result while the
desired number is below 50, and for 101; above that `count/desired*100` may
lose one more by rounding.

### Preemption

`Preemption` extends `TopologyScheduling`. A cycle that found no node starts a dry run on
every candidate (`StartPreemption`), which run in parallel: `RemoveLower(n)` clones the
cycle's state and takes the lower pods off it, `Reprieve(n, q)` puts one back to see
whether the preemptor still fits. `Choose`, `DeleteVictim` and `Nominate` end it.
`FilterBeside` is Filter on a node with nominated pods, which are added to a clone
first; `AddPodPanics` is the same where the counter of a nominated pod's value is missing.
`Clone` returns the state; a clone whose map points to the cycle's own
counters, which the code must not make, would be the constant `Shared`, and then
`StateOf` and `Leaves` read and write the cycle's counters. The profile enforces the
pod's own selector (`SelectorAssumption`), as without it every cycle is open to the panic of
finding `nil_counter`.

### Descheduler

`pc` is where the process is: `waiting` for the next pass, `policies` between two
policies, `pairs` in the range over the counters, `evicting` in the inner loop,
`stopped`, `panicked`. `StartPass` is `ReadyNodes`, the new evictor and the list
of policies; `ListPods` lists, counts and calls `checkTopoReached`; `VisitPair`
computes the difference of one pair; `EvictPod` and `EvictPodFails` are one call
of the evictor, `IndexOutOfRange` the index past the end. `astray` is a history
variable: the pods whose place others changed since they were listed.
A pod is its name, and one created again under its name is the same element,
because the eviction asks by name. The loop takes the pods in any order;
`EvictionOrder` says which orders the sort leaves. There `CompareGap` is a comparison of the
library's first pass over at most twelve elements, `MoveLeft` and `TakeNext` its insertion sort.

### SuperScheduling

The variables and actions of `Descheduler`, and `surplus`, the abstract
scheduler's knowledge that every quota was met. `Look` is PreFilter and
`Schedule(p, n)` a placement that `PlacementQuota` allows. `Appear`, by which
`Descheduler` lets anything be placed anywhere, stays in the next-state relation as a foreign
step. Nodes that are not ready are tainted and get nothing.

### PolicyInformer

| code | model |
| --- | --- |
| API server | `history`, one change for each revision; `floor`, the first revision that is not compacted; `served`, the CRD is installed |
| the typed client | `Create`, `Update`, `Patch`, `Delete` |
| `New`, `Run`, `createClient`, `NewForConfig` | `calls`, what the process must still get through, `Connect` and `ConnectFails` |
| `sharedInformerFactory` | `informers`, `startedInformers`, `made`; `InformerFor(i)`, `Start(g)`, `FactorySynced` |
| `Informer`, `Lister`, `Start`, `WaitForCacheSync` as the program calls them | `CallInformer`, `CallLister`, `CallStart`, `WaitForCacheSync`, in the program's order (`PluginCalls`, `DeschedulerCalls`) |
| `ListFunc`, `WatchFunc` of the informer | `ListPolicies(g)`, `WatchPolicies(g)`, `InScope` |
| `Get` and `List` of the lister | `Get(ns, name)`, `List(ns)` |
| Reflector, DeltaFIFO, indexer (client-go) | `at`, `rev`, `deltas`, `initial`, `indexer`, `Receive`, `StreamEnds`, `HandleDelta` |

An object is the revision that wrote it. `ListPolicies` may answer from any
revision that the API server still has and that is no older than what the
reflector saw. The queue keeps the order of the deltas of a key and not the order of the keys.

### MultiCluster

`New` is a loop in steps: a cluster is taken from `todo`, built through `step`,
and is in `schedulers` when `Run` has been called in its goroutine. `SeeNodes(c)` and
`SeePod(c, p)` are the inner informers. The framework's call for a node is first
`OtherFilters`, the profile's own filters, which read what its own PreFilter left in the `CycleState`
(`OwnData`, unless overwritten by then), then this plugin's `Filter`: `TakeSnapshot` brings the snapshot of the
cluster's `Algorithm` up to its cache, `InnerPreFilter` writes `preFilter`, `InnerFilter` reads snapshot and data.
Other calls' steps come in between. `snapshot[c]` is one for all virtual nodes of cluster c, `preFilter` one for all calls.

The data are the zones that the pod must keep out of (`TakenZones`). They have three sources, of which only the first
needs an annotation: the anti-affinity that the annotation gives the copy, or the other pod (`Avoids`); the topology
spread constraints that the copy keeps (`Spread`, with a skew of one, `FullZones`); and the anti-affinity of the cluster's own pods,
which an inner PreFilter records for every pod (`Repelling`). `OwnData` is a constant of the pod, as are the nodes that
the rest of the profile accepts without such data (`Candidates`): what else runs here does not change them. Snapshot and data
change in one step each; a torn read of either is left out, and a fatal one is a `Restart`.
`Land` and `Leave` are the virtual kubelet and the pod's owner, `FlipReachable` a cluster that answers or not.

The evictor, the API server, the kubelet, client-go, the framework and the
inner schedulers are not in the repository. They are written from how the code uses
them and are marked external in the map.

## 3. Runs

| run | instance | shows |
| --- | --- | --- |
| `churn` | 3 pods, 2 nodes; n2 moves, loses its label, goes; policy edited, deleted | `TypeOK`, `IInv`, `HostJustified`, `SnapshotCoversCache`, `ReservePanicsOffSelectorOnly` |
| `quota` | 4 pods, 3 nodes at rest, 2 policies over the same pods | `NoPanic`, `UnreserveRestores`, `FillFinishesStarted`, `OnlyBalanceRefused`, `ImplementsQuota` |
| `fill_live` | 2 pods, 3 nodes, churn that comes to rest | `PodsGetBound` |
| `preemption` | 3 pods of 3 priorities, 2 nodes, one moving, policy edited | `PreemptTypeOK`, `CycleStateUntouched`, `DryRunExact`, `VictimsMakeRoom`, `NoLostCounter` |
| `evict` | both programs, 3 pods, 2 nodes, one moving, a policy with negative replicas that comes and goes; every list of 4 pods, every phase for each | `TypeOK`, `NoUndershoot`, `PanicsOnNegativeOnly`, `QuotasStayMet`, `SortTypeOK`, `IdleGoFirst` |
| `settle` | both programs, 3 pods, 2 nodes, one surplus pod, one eviction per node and pass | `SurplusIsEvicted`, `Settles` |
| `policy_cache` | a policy in each of 2 namespaces, 2 revisions, 2 informers, 2 reflectors, both programs | `TypeOK`, `StandingPoliciesAreFound`, `NothingMissed`, `ImplementsView`, `ComesUp`, `CatchesUp` |
| `multicluster` | 2 clusters with 3 inner nodes, 3 virtual nodes (two of one cluster) and a real one, 2 pods | `TypeOK`, `VerdictExact`, `FindsItsCluster` |
| `nil_counter`, `key_change`, `balance_live`, `empty_value` | small | violated, section 5 |

**churn.** A node that changes zone or goes away between any two calls, three
versions of the policy (one absent, one with another strategy and a selector
that leaves a pod out), a pod that no policy governs, and one with a node
selector that nobody else enforces. Every cycle's counters are those of
its snapshot, every host inside the pod's selector is justified by the pods that
the snapshot held, and the one way `Reserve` can fail is a host outside the selector.

**quota.** With the nodes and the policy at rest and a profile that enforces node
selectors, the placements in the scheduler's cache are behaviours of
`PlacementQuota`: a value takes a governed pod only while short, a surplus pod
only after every quota was seen met, one at a time, with another policy placing
pods in the same values and with bindings that fail, pods that are deleted
and restarts with some binds landed and some not. A value with too many pods, after
the surplus, is feasible while the surplus is open: `OnlyBalanceRefused` says that its score
stays within 0..100 as well.

**fill_live.** Once churn ends, every waiting pod is bound or deleted. The
policy asks for one pod in zb and none in za, so the second pod depends on the surplus opening.
Every named value has a node: a value that no feasible node carries keeps every
surplus pod waiting, by design of `checkPolicyRequirementReached`.

**preemption.** The cycle's counters are untouched by its dry runs, a dry run's
counters are the pods that would remain, and its victims are enough for the preemptor
to fit. The equation of `DryRunExact` has a term that should not be there: `RemovePod`
takes off a victim that terminates already, which `countPodsMatchSelector` bypassed.
p2 may use n2 only, so while n2 is in za there is no counter for zb, nor one for za while it
is in zb: `NoLostCounter` says that this is the one way in which a counter can be missed, by
`AddPod` for a nominated pod and by no dry run.

**evict.** `NoUndershoot` bounds what the strategy itself takes away: of the pods that it listed in a value, its
evictions leave the desired number (or all, if there were fewer). A pod that others deleted, or whose
node they changed, counts as left (`astray`), so this is no bound on what remains in the cluster: of two pods
where one is desired, others delete one, the pass evicts the other by its old list, and none remains.

What `NoUndershoot` says of listed pods, `QuotasStayMet` says of the cluster: the plugin places pods while the
descheduler works on its old list, a pod evicted and created again under its name may be elsewhere when it is
evicted by that name, and still no eviction takes a value that has its replicas below them. What excuses an
eviction is `astray`, what others than the two programs did: a pod that they delete and that comes back under its name
in a value that is just met can be evicted there, and neither property says that it is not.

The same run has the calls of `sort.Sort` as behaviours of their own, with the cluster at rest. `Less` says that each
of two idle pods comes before the other, for which `sort.Sort` promises nothing. On up to twelve elements the
library compares elements six apart, once, and then sorts by insertion, and the result is still right. Longer
lists take another algorithm and are not covered.

**settle.** After the others rest, a surplus does not last beside a populated
value that is short, although each process runs a single pass and may evict one
pod of each node. (A value short with no pods at all is the finding `empty_value`.) And
evictions come to an end: za is to have no pods, zb two, and the third pod goes to whatever
value the scheduler chooses, so a descheduler that takes surplus pods out of a policy that is met
would go on for ever.

**policy_cache.** Both programs, from connecting on, while policies come and go, revisions
expire and the process restarts at any time. The first process finds an empty store or one with a policy.
`StandingPoliciesAreFound` has both callers: PreFilter's `Get` by namespace and the strategy's `List` of all. The policies
that it speaks of are those that stand since the last compaction before the process began (`began`), not since it
connected: a first list may come from any revision that an API server still has in its cache, so the first decisions may miss
a younger policy, and `CatchesUp` only says that it is found later. `NothingMissed` says what makes
the cache right after any number of broken streams and new lists: for each policy the newest word in queue and
indexer is the store's at the reflector's revision, deletions included that no stream has told.

**multicluster.** Zone z1 is in both clusters and that of the real node, so that PreFilter data of one mean something
in the others. p2 has data of all three kinds and may go to any virtual node, two of which share cluster a's `Algorithm`. p1 has
no annotation and no data, but the profile's own PreFilter keeps it from the real node, which
an inner PreFilter's data make it forget. `VerdictExact` says when a call's answer is that of its cluster: if no
cluster has data about the pod, or if the call is the first to come to its cluster. It does not say that the
others' answers are right, and they need not be (below). `FindsItsCluster` speaks of pods without data, and has no
assumption about cluster b when the room is in a, although p2's cycles ask b and the two pods take turns.

### Bounds

Passes and cycles reset their variables, and histories
are erased when they have served; the only counter that grows is the store's revision,
bounded by `MaxRevision`. Everything else is bounded by the sets of constants.

- Two nodes and two values tell a short value from a full one; three pods give one
  in its cycle, one in its binding cycle and one bound; the fourth of `quota` goes
  past the three replicas of `Fill12`, so that the surplus opens and closes
  again. The replicas 1 and 2 make 0, part and all of a value's replicas different.
- `settle` has the smallest policy with a pod too many in one value, a value short, and a surplus pod.
- Two revisions let a policy be created and changed or deleted, and let a list be older than
  a watch; `SpecImplementsView` has no bound. Two informers and two reflectors are what a second
  request to the factory or a second `Start` could wrongly make.
- One place per inner node (`Capacity` 1) makes each pod matter to the other's verdict.
- `evict` sorts lists of 4 pods and compares elements two apart in its first pass (`Gap`), where the library
  compares them six apart: with six, four pods would have no first pass. `SpecIdleGoFirst` has every length up to 12 and every gap.

No symmetry is declared: nodes and pods differ by their labels and selectors.

Some failures lie outside the runs' instances or premises and are easily seen:

- `UnreserveRestores` needs nodes at rest. `quota.cfg` without
  `ImplementsQuota`, without the constants of the refinement, on
  `MCTopologyScheduling` with `NodeVersions <- MovingN2` violates it: a later
  cycle replaced the snapshot, `Unreserve` (topology_scheduling.go:416) reads the
  node's new label and lowers another counter, or dereferences a missing one.
- `FillFinishesStarted` fails with `Entry(za, 101)` in the policy: one pod of 101
  scores `1/101*100`, cut to 0 like an empty value.
- `VictimsMakeRoom` without its conjunct about `snapTerm` fails: of a bound and
  a terminating pod in a value with one replica, the bound one is reprieved because the
  counter is one too low, and only the terminating one is a victim.
- `VerdictExact` without its condition (`Neutral(pod) \/ FirstAsked(n)`) fails: va and vb are filtered at once for p2,
  both inner schedulers are given the same `CycleState` (multicluster/scheduler/scheduler.go:96), and a's data, which are
  empty, replace those of b. vb passes, and b has no node for p2. With va and va2 alone, a snapshot taken
  between the other call's PreFilter and Filter does the same. `FindsItsCluster` is about pods without data for this reason.
- `Settles` without the premise `AllReady` fails: the descheduler counts pods on ready nodes only, the
  scheduler all of the snapshot, and with a pod on a node that is not ready they
  disagree about which value is short. Two policies over the same pods need not settle either.

## 4. Fairness

`TopologyScheduling!FairSpec`: the framework's loop goes on (weak fairness of
the steps within a cycle and of forgetting a pod), the queue returns to every
pod that keeps waiting and a bind that is tried again and again succeeds
at last (strong fairness of `StartCycle(p)` and `Bind(p)`, which other steps
disable in between), and a process that panicked is started again. Nothing is
assumed of pods being deleted, and churn and restarts of a healthy process only have to end.

`Descheduler!Fairness`, also of `FairSuperSpec`: the process goes on and is started again when it ended,
as a Deployment's pods always are (a pass that sees fewer than two ready nodes
ends the process even when an interval is set); lists asked for again and
again are answered, and no disruption budget refuses the same pod for ever
(strong fairness of `StartPass`, `ListPods(q)`, `EvictPod(p)`). Of the scheduler's steps in
`SuperScheduling` nothing is asked: `Settles` holds however slow it is.

`PolicyInformer!Fairness`: a program's own calls go on and return (weak), its wait ends when the condition
keeps coming back (strong: `WaitForCacheSync` polls), a process that exited is started again
(weak), lists and watches that are sent again and again are
answered and a stream does not always break before it has delivered (strong, per reflector), the
queue is worked off (weak). The API server may stay without the CustomResourceDefinition and
processes may crash: that the one is installed at last and the other ends are premises.

`MultiCluster!Fairness`: `New`'s loop, the goroutines it starts, the cycle's calls and the restart of
a process that exited go on (weak), the queue comes back to every pod that waits (strong, `StartCycle(p)`).
A cluster that is not reachable delivers nothing; nothing is asked of clusters or virtual kubelets.

The liveness properties promise something only when the disturbance ends, each with the premise
that names what has to end.

## 5. Where code and documentation disagree

Each run checks one property, finds it violated, and `PROJECT.json` quotes the line.

- `nil_counter` (topology_scheduling.go:84). PreFilter makes counters for the
  nodes of the pod's selector only. For a node outside it whose value the policy names, Filter finds no counter
  and takes the value for one that is not reached (`checkTopoValueReached`, lines 469-471), so the node passes; the
  project's profile disables the filters that would stop it, and Reserve dereferences the nil counter. `AddPod` (line 320) has the same
  dereference, and for a nominated pod it is reached even under a profile that enforces the
  selector; run `preemption` contains it and `NoLostCounter` says when.
- `key_change` (topology_scheduling.go:285). The topology key is edited between
  PreFilter and Filter; the new key finds no counter of the old one and a node in a full
  value passes.
- `balance_live` (topology_scheduling.go:489). `1 - count/desired*100`, cut to an integer, is
  negative as soon as a value has a fiftieth of its replicas: with up to 50 of them at its first pod. In the run
  it is -49 for one of two pods; the framework refuses the score, and with two
  feasible nodes the pod waits for ever.
- `empty_value` (strategies/topologyscheduling.go:125). All pods in one value, none
  in the other: `checkTopoReached` says reached.

## 6. Proofs

All theorems hold for every set of pods, nodes, keys, values, policies, clusters and revisions that
satisfies the named assumptions of the modules: pods and nodes are finite, `Nil`
is none of the values, and the constant functions have their types.

**`TopologyScheduling_proofs`.** `IInv` is the inductive invariant: types; what the
phase of a cycle and the status of a pod say about the other variables
(`ControlOK`); nodes and policies are versions that the constants allow; from
PreFilter to Reserve the counters are those of the snapshot
(`CountersFromSnapshot`); what the cache holds, the snapshot holds
(`SnapshotCoversCache`). None of the last three follows without the others:
that a host has a counter needs the counters' domain, the domain needs that the
snapshot rests during a cycle, and that no placement is gained behind a
cycle's back needs that only the cycle's own Reserve adds one. One lemma for each
action shows that it preserves `IInv`. From it:

- `SpecIInv`, `SpecTypeOK`, `SpecSnapshotCoversCache`,
  `SpecReservePanicsOffSelectorOnly`, with no premise on the constants;
- `SpecHostJustified`, if no node carries the key with an empty value
  and edits leave a policy's topology key alone (`key_change` shows why).
  `FeasibleJustified` says of each feasible node what `HostJustified` says of the host;
- `SpecFillFinishesStarted`, if no policy wants more than a hundred pods in a value (`HundredReplicas`). Of two
  feasible nodes one in an empty value scores 0 and one in a value that is started and not full at least 1, since
  `100 * count \div desired` is not 0 up to there; section 3 has the 101. `FillScores` is the arithmetic;
- `SpecOnlyBalanceRefused`, with no premise: a value that has its replicas scores 0 by a test of its own
  (topology_scheduling.go:375), and one with room a fraction of 100.

**`TopologySchedulingQuota_proofs`.** Nodes and the watched policy have a single version
and the profile enforces selectors. `RestInv` adds that the snapshot's
nodes are the nodes and that each feasible node was accepted by the one spec.

- `SpecImplementsQuota`: the initial states map to initial states, and each step to
  a step of `PlacementQuota` or a stutter. The surplus is open when the
  snapshot had every quota met; a pod that leaves the cache later does not close it.
  A placement is sound because the cache holds no more than the snapshot counted.
- `PreemptSpecImplementsQuota`: the same for `Preemption`, for any priorities. No run has this
  instance, as `quota` is without preemption and `preemption` moves a node; a module that extends `MCPreemption` and
  `TopologySchedulingQuota`, with `FixedNodes`, all pods under `pa` and a policy of one pod in each zone, lets TLC
  check `ImplementsQuota` under `PreemptSpec` (15070 states). Lemma `PreemptStepIs` shows that each step
  is one of `TopologyScheduling`, or leaves the feasible nodes alone, or fails the cycle: to pass beside nominated pods a
  node passes without them too, dry runs write to clones only (`PInv`), a victim leaves as any deleted pod does.
- `SpecReserveUnreserve`, `SpecNoPanic`: no extension point panics, and `Unreserve` leaves what
  `Reserve` found. `BindingExact` in `ReserveInv` relates `bindState` to `reservedFrom`.

**`Preemption_proofs`.** The profile enforces the pod's selector. `PInv` is `IInv`, which
every step of the larger next-state relation preserves as well, with `DryInv` and `AddPanicInv`. `DryInv`
says of each dry run that its state is the cycle's state without the removed pods
(`Without(n, R)`), which `RemovePod` and `AddPod` keep by lemma `CounterMoves`: the counter moves by
one exactly when the pod is in the selector, since all pods in question are on the one node.

- `SpecPInv`, `SpecPreemptTypeOK`, `SpecCycleStateUntouched`, `SpecDryRunExact`, `SpecNoLostCounter`;
- `SpecVictimsMakeRoom`, under the premises of `SpecHostJustified`. The policy read by the dry run's
  Filter may be newer than the one counted by; `KeyFits` carries that its key is the same.

**`Descheduler_proofs`.** `TypeInv` adds to the types what `pc` says of the strategy's
variables, and that no pod is counted in two pairs.

- `SpecTypeOK`;
- `SpecPanicsOnNegativeOnly`: the loop cannot come to the end of its list with a desired number of
  zero or more, as it then wants no more pods than were counted (`PanicInv`);
- `SpecNoUndershoot`, a bound on the strategy's evictions against its own list (section 3), from `StayInv`: in a pair not visited yet, every counted pod that is not astray is
  where it was; in the pair being visited all but the visited ones; in a pair that is done all but as many as were too many.
  The pairs are disjoint, so that evictions from one do not touch another;
- `SpecSortTypeOK`, `SpecIdleGoFirst`: on every list of up to twelve pods the sort leaves first what must go first. Inductive is
  `InsertedInOrder`: up to `front`, each pod is less than all later ones, the moving one aside, which is less than those it
  has passed. That idle pods are less than each other does no harm to this, as on different names `Less` is
  total and transitive (`LessOrders`).

**`SuperScheduling_proofs`.** The composition.

- `SuperImplementsDescheduler`: the plugin's placements are among the things that `Descheduler` lets its cluster do, so
  all that is proved of `Descheduler` holds beside the plugin;
- `SuperSpecQuotasStayMet`, if the empty value is none of the values. From `SpecNoUndershoot`: the desired number of
  the counted pods are still where they were, and the scheduler's `Tally` counts them too. A pod that is evicted sits in the pair
  being visited (`StayInv`), so that no other value loses one.

**`PolicyInformer_proofs`.** `IInv` is `TypeOK`, `WiringInv` (which informer the factory, the
lister, the plugin and the reflectors have at each of the calls still to come), `OrderInv` (the indexer, the queue
and the reflector's revision are in order, key by key) and `PlanInv` (what is up was synced).

- `SpecTypeOK`;
- `SpecStandingPoliciesAreFound`, for a factory for all namespaces, as both programs make it, and for policies that
  stand in all revisions the first list can be of;
- `SpecImplementsView`: each step is one of `PolicyView` or a stutter. That no key goes back needs
  `OrderInv`, because a list may be older than the store but not older than the reflector;
- `SpecNothingMissed`, inductive together with `IInv`. A list that is taken instead of a stream puts into the queue every
  policy that it has and a deletion for every one it has not (`ListTold`). That a key has a last change up to a revision
  is the least-number principle (`LeastOf`, `LastExists`), for histories of any length.

**`MultiCluster_proofs`.** `TypeInv` adds what `New`'s loop has done and left to do (`NewInv`)
and the state of a cycle (`CycleInv`).

- `SpecTypeOK`, whose part `phase = "up" => schedulers = Configured` is about errors in the middle of `New`;
- `SpecVerdictExact`: `DataInv` says of each call that is about to filter that the shared data are empty if no cluster
  has any about the pod, and, as long as no other call has come to its cluster, are those of its cluster's
  present snapshot. Any other step that writes snapshot or data belongs to a call that is then no longer at its
  beginning (`TakeSnapshotData`, `InnerPreFilterData`). `AnswersItself` shows that a verdict is the step `InnerFilter` of the call.

**`TopologyPolicy_proofs`** has the lemmas about `CovertPolicy` that the others use.

Only model-checked: liveness under fairness (`PodsGetBound`, `SurplusIsEvicted`, `Settles`, `ComesUp`, `CatchesUp`,
`FindsItsCluster`), which is out of the prover's reach. Every safety property of the runs that pass is a theorem.

## 7. Not modelled

- Upstream strategies of a pass, dry run, options and metrics of the descheduler:
  not this repository's logic. The pass models the strategy this repository adds.
- `UpdatePlacement` and `Status` of the policy: nothing in the repository reads or writes them.
  `UpdateStatus` of the client is always refused, as the manifest of the
  CustomResourceDefinition has no status subresource.
- Deep copies, v1beta1 conversions, defaults and registration of the configuration types; flag parsing;
  the failure of decoding the multi-cluster plugin's own arguments, which ends `New` before its loop.
- The fake clientset, `Parallelizer.Until`, `ErrorChannel` and `IsVirtualPod`: no caller.
- Torn reads of an inner `Algorithm`'s snapshot, which parallel calls of one cluster update without a lock of their own, and
  what the scheduler's later extension points read of the `CycleState` after the inner schedulers wrote to it.
- Rate limits. The multi-cluster plugin sets QPS and burst on a `rest.Config` that it then does
  not use (multicluster/scheduler/scheduler.go:125).
- The pods informer that the inner scheduler starts a second time (multicluster/scheduler/generic.go:74):
  client-go refuses it.
- Resync periods and label selectors of the informers: both programs leave them out.
- The text of a selector. `FormatLabelSelector` writes an empty one as `<none>`, which
  does not parse; `ListFails` covers a list that fails.

## 8. Plan

Done, in this order: `TopologyPolicy`, `TopologyScheduling`, `PlacementQuota`,
`TopologySchedulingQuota`, `Preemption`, `Descheduler`, `EvictionOrder`, `PolicyInformer`, `PolicyView`,
`MultiCluster`, `SuperScheduling`, and the proofs of each.

What could follow:

1. `SuperScheduling` with two policies over overlapping pods, to describe which pairs of policies settle.
2. A proof that `TopologyScheduling` with moving nodes implements a weaker `PlacementQuota`, in which a
   relabelled node carries its pods along.
3. The library's sort for more than twelve pods.
4. `SuperScheduling` without the premise that no label is empty, which needs to say what a node in the value "" counts for.
