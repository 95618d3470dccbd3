# A TLA+ model of the OpenStack load balancer operator

The operator gives every Kubernetes Service of type LoadBalancer whose class
matches an `OpenStackLoadBalancer` object (an *LB* below) a Neutron port with
the Service's address and, if the LB asks for it, a floating IP. It protects
both with finalizers, so that the OpenStack resources go before the objects do.
The code is small; what makes it hard is that it works from a lagging cache,
keeps its bookkeeping in annotations written one call after the resource was
made, and writes back copies it read earlier. This project models the
controller call by call, checks it with TLC and proves, with TLAPS, every safety
property that TLC finds to hold: no resource is left behind in silence, what the
operator deletes may be deleted, finalizers outlive what they protect, and the
operator implements an abstract specification of how resources are kept.

## The system

| part | code | state | operations |
|---|---|---|---|
| reconcile loop | `internal/controller/openstackloadbalancer_controller.go` | LB finalizer, status (network, Ready, conditions) | add finalizer, list Services, `processService` for each, write status |
| LB deletion | same, `handleDeletion` | LB finalizer | clean up every Service of the class or with resource annotations, then drop the finalizer |
| resource cleanup | `resource_cleanup.go`, `utils.go` | Service annotations and finalizer, Neutron resources | list, delete floating IPs, delete ports, clear annotations, drop or force the finalizer |
| service handler | `service_handler.go` | Service finalizer, credential annotations | add finalizer and credentials; finalize a terminating Service |
| watches | `SetupWithManager`, `findOpenStackLBsForService` | informer cache, work queue | turn events into requests `<lb>` and `service-handler-<service>` |
| retrying updates | `utils.go` | Kubernetes objects | get from the cache, write with its resourceVersion, retry on conflict |
| OpenStack client | `pkg/openstack` | ports, floating IPs, tags | create then tag, get, find by port, delete if tagged |
| API types | `api/v1alpha1` | | |
| start-up, transport, generated code, charts | `cmd`, `client.go`, ... | none that matters here | not modelled, see below |

The parts share one worker (controller-runtime's default of one concurrent
reconcile) and one queue. They interact through the API server and Neutron only:
a write by one reconcile reaches the next one when the informer delivers it.
Users, the IP provider (MetalLB), other controllers and users of OpenStack act
at any time in between.

Hard behaviours: a cache behind the API server; a crash, an error or a lost
reply between any two calls; objects deleted and recreated under the same name
in the middle of a reconcile; writes of stale copies; retries that rely on what
the failed attempt did; requests that must not be forgotten. `PROJECT.json`
lists each hazard at its line with the properties that would catch it.

What makes each part correct: provisioning must never create a resource for a
Service it cannot clean up after, and must get there in the end; cleanup must
take everything of its Service and nothing of another one, and must let the
Service go; LB deletion must wait for the cleanups and must end; the updates
must not undo the work of others.

## Modules

Each module EXTENDS the one before it, except `ResourceCustody`, which stands
alone and is instantiated by `CustodyRefinement`, and the proofs, which extend
`OperatorInvariants` (and `ResourceCustody`).

| module | models | notes |
|---|---|---|
| `OperatorState` | Kubernetes objects, cache, queue, Neutron, worker | constants with their assumptions, `TypeOK`, `Init` |
| `RetryUpdates` | the retry helpers, and the API server's rules | resourceVersion, UID and finalizer rules |
| `OpenStackClient` | `pkg/openstack`, and Neutron's rules | projects, fixed IPs, tags |
| `Provisioning` | `Reconcile`, `processService` and its ensure functions | |
| `ResourceCleanup` | cleanup and finalization of one Service | shared by the next two |
| `Deletion` | `handleDeletion` | |
| `ServiceHandler` | `reconcileService` and its credentials | |
| `WatchQueue` | predicate, map function, cache, requeue, resync, restart | |
| `LBOperator` | the environment, `Next`, fairness, the properties | |
| `OperatorInvariants` | the inductive invariants | `LeakInv`, `AnnotationInv`, `AnswerInv`, `OwnershipInv`, `UserFipInv` |
| `ResourceCustody` | abstract: what the operator promises about resources | guard, acquire, dispose, release, give up |
| `CustodyRefinement` | the mapping from the operator to the custody | `ImplementsCustody` |
| `MCOperator` | instances for TLC | |
| `TypeProofs`, `LeakProofs`, `StaleProofs`, `AnswerProofs`, `OwnershipProofs` | the theorems about the operator | each extends the one before |
| `CustodyProofs`, `ResourceCustodyProofs` | the refinement, and the custody's own theorem | |

How to read the state:

- `svc`, `lb` are the objects in the API server, `csvc`, `clb` the informer
  cache. An object is in `fresh` when its cached resourceVersion is the current
  one; a write with the cached version succeeds exactly then. A write that
  changes nothing keeps the version, as the API server does.
- `w` is the worker: its program counter and the local variables of the
  functions on its stack. `w.snap` holds the Services as `r.List` or `r.Get`
  returned them, `w.mem` the LB object that `Reconcile` mutates.
- One action is what happens between two calls to the API server or Neutron.
  Two consecutive reads are one action where nothing depends on the gap:
  `GetFloatingIP` with `GetFloatingIPDetails`, `GetAllFloatingIPs` with
  `GetAllPorts`, and reads from the cache. The three calls of `deleteResource`
  (the get, the list of tags, the delete) are one action as well: the tags of a
  resource are written once, before anything can list it for deletion, and a
  resource that goes in between counts as deleted either way.
- The cache moves to the newest version of an object and may skip the ones in
  between; after a restart it starts from a current listing.
- The exponential backoff of an update is: succeed when the cache is fresh, wait
  for the cache otherwise, or give up (fault `api`).
- Names, addresses and descriptions are abstract. `Mentions` says whose resources
  the substring search of a cleanup finds; `Matches` is the class; `SubnetOf`
  the result of the CIDR search; `ProjectOf` the project of an LB's secret.
- The status of an LB is its detected network, `Ready`, and the conditions Ready
  and NetworkDetected, each by its reason. Messages and the conditions
  PortCreated and FloatingIPCreated, which report on whichever Service came
  last, are left out.
- `abandoned` is a history variable: what the operator knowingly gave up on.
  A resource gets there when the finalizer is dropped after a cleanup that
  failed (a deletion error, a failed list, no client), an LB when its deletion
  went ahead without a client. The code logs exactly these cases ("manual
  cleanup may be needed").

Faults, each at most once per fault budget: `api` (an update fails for good),
`client` (Keystone or the secret), `neutron` (a call fails without effect),
`lostReply` (a call to Neutron or a write to the API server takes effect and
returns an error), `tag`, `tagRead`, `crash`, `external` (a user deletes a
resource in OpenStack), `edit` (a Service changes its type), `readdress` (a
Service gets another address), `editLB` (an LB's floating IP settings change),
`otherFin` (another controller's finalizer), `userFip` (a user's own floating IP
on the port). `resync` switches on the informers' periodic resync.

### The abstract custody

`ResourceCustody` knows Services that are guarded or not, the resources each
holds and those given up. A resource is acquired only for a guarded Service and
under an ID no one holds; it may be disposed of at any time (users delete
resources too); a guard is released when nothing is held, or given up together
with what is held. `Accounted` says what this is good for: a held resource
belongs to one Service, which is guarded unless the resource was given up.

`CustodyRefinement` maps the operator to it: guarded are the Services that exist
in the API server and carry the finalizer, held are the live ports and floating
IPs made for a Service, given up is `abandoned`. Everything else (cache, copies,
annotations, queue, LBs) is invisible, so `ImplementsCustody` says that no amount
of staleness there shows in the custody.

## Runs

All runs use `MCOperator`, with one LB and one project unless the table says
otherwise; the bounds are `MaxFaults`
(faults), `MaxUID` (incarnations of a name) and the sizes of the ID sets.
IDs no longer referred to are reused, which stands for fresh ones.

| run | instance | result |
|---|---|---|
| `Faults` | 1 Service, 2 ports, 2 floating IPs, 2 addresses, one fault of any of 13 kinds, resync, empty start | `TypeOK`, `NoSilentLeak`, `AnnotatedIsProtected`, `UserFipsKept`, `ImplementsCustody` hold |
| `Recreate` | 1 Service, 2 incarnations of everything, a client fault, warm start | `LeakInv`, `DeletesJustified`, `ImplementsCustody` hold |
| `TwoServices` | 2 Services, floating IPs, one crash, warm start | `NoSilentLeak`, `PortsAnsweredFor`, `DeletesJustified` hold |
| `Release` | 1 Service, one address outside every subnet, floating IP without a network, one fault, crashes and lost replies included | `TerminatingServiceReleased` holds |
| `Progress` | 1 Service with floating IP, one client or Neutron fault, resync | `ServiceProvisioned`, `StatusConverges`, `LBDeletionCompletes` hold |
| `LostAnnotation` | as `Progress`, one failed update | `ServiceProvisioned` fails |
| `StuckLBDeletion` | one failed update | `LBDeletionCompletes` fails |
| `NestedNames` | 2 Services, one name inside the other, no fault | `DeletesJustified` fails |
| `ForcedRemoval` | another controller's finalizer | `OthersFinalizersKept` fails |
| `LostUpdate` | a user changes the Service's type | `UserChangesKept` fails |
| `ClearedPortID` | a port deleted in OpenStack and replaced | `OnlyOldPortIDsCleared` fails |
| `TwoProjects` | 2 LBs of different classes and projects, 1 Service of the first, no fault, warm start | `NoSilentLeak` fails |

What the less obvious properties say. `UserFipsKept`: the operator adopts a
user's floating IP that it finds on its port, records it and publishes it, and
yet never deletes it, except where the tags could not be read (a step with a
fault). `StatusConverges`: although every pass overwrites the whole status with
one computed from a copy that may be stale, the status of an LB that is left
alone settles at ready with a network when it has a Service to serve, and at
NoMatchingService when it has none. There it looks at the Ready condition and not
at `status.ready`, which the code never resets. `DeletesJustified`: the
Service, or an LB *of its class*, is on its way out in the API server.
`OnlyOldPortIDsCleared` is about the worker's own write of a Service that still
exists, not about what users do to it meanwhile. `TerminatingServiceReleased`: the one thing
that blocks a terminating Service for ever is a resource that is neither tagged
(so that it is not deleted) nor named by an annotation (so that nothing is
forced); `Stranded` says so, and a lost reply of a creation leads there.

Why the bounds are enough to be interesting: two port IDs let an old and a new
port of one Service coexist; two incarnations are what a stale copy can confuse;
two Services are what a search can confuse; one fault puts a failure at every
call. The proofs below have no bound. The warm start of the larger runs is a state that
`Init` leads to (all objects exist with finalizer and credentials, the
operator just restarted); it skips the set-up that `Faults` covers.
`CHECK_DEADLOCK FALSE` everywhere: with the users' bounds used up and all
requests served the operator rightly comes to rest.

Symmetry is over resource IDs (and over Services and addresses in `Faults` and
`TwoServices`, where class, subnet and names treat all alike); the liveness
runs use none.

Fairness. `Work`, the steps of a reconcile that has begun, is weakly fair: a
worker goroutine runs. `Sync` is weakly fair for each object: informers deliver.
`Dequeue` is strongly fair for each request: the queue is FIFO, so a request is
served although others interrupt the idle worker. `ResyncSpec` adds weak
fairness of the resync, ten hours by default in controller-runtime; `Progress`
needs it, because a reconcile that finds no client returns without an error
(controller line 92) and, when the status does not change either, nothing else
brings the request back. No fairness is assumed of users or faults.

### Disagreements found

The seven violation runs each show what the code does against what it, or the
README, says; `PROJECT.json` quotes the lines.

1. `LostAnnotation`: a port whose annotation was not written is never adopted;
   every retry fails on the fixed IP in use.
2. `StuckLBDeletion`: an annotation that names a resource already gone is
   cleared by no later pass, and the LB's deletion does not end.
3. `NestedNames`: deleting Service `web` deletes the port of `web-internal`.
4. `ForcedRemoval`: the forced patch drops other controllers' finalizers. Since
   annotations are looked for on the copy read before they were cleared, every
   terminating Service with annotations is forced, so this is the normal path.
5. `LostUpdate`: a stale copy is written under the current resourceVersion.
6. `ClearedPortID`: the ID verified and the ID cleared may differ. A pass
   replaces a port that a user deleted and records the new one; the next pass
   lists the Service from a cache that still shows the old ID, finds that port
   gone, and clears the annotation, which by now names the new port.
7. `TwoProjects`: deleting an LB also cleans up annotated Services of other
   classes, with the credentials of its own project. A terminating one is found
   to have nothing left, loses its finalizer, and its port stays. No fault is
   needed, and the theorems below assume a single project for this reason.
   In one project the same search takes the port of a healthy Service of another
   class, which its own LB is serving: with `ProjectOf <- OneProject` and
   `DeletesJustified` in place of `NoSilentLeak` this run fails as well, which is
   why `DeletesAreJustified` below also assumes a single class.

## Proofs

`TypeProofs` proves, for all values of the constants that satisfy the
assumptions of `OperatorState`,

    TypeCorrect == Spec => [](TypeOK /\ ControlInv)

`ControlInv` says that a step finds what it uses: the request, the Service, the
address that made it eligible, the floating IP to publish. `TypeOK` alone is
not inductive: annotating `w.cur` keeps `svc` well typed only if `w.cur` is a
Service.

`LeakProofs` proves

    LeakInvariant == Spec => []LeakInv
    LeakFreedom   == ASSUME SingleProject PROVE Spec => []NoSilentLeak

A live resource the operator made belongs to a Service that exists and has the
finalizer, unless the operator knew when it dropped the finalizer that the
cleanup had failed. `SingleProject` (all credentials belong to one
project) is necessary: run `TwoProjects` shows what happens with two. Only the
two parts of `LeakInv` that need it carry it as a hypothesis (`RemainderInv`,
`LeakFree`); the rest holds in any number of projects, and the theorems
below that assume nothing rest on it. The inductive invariant explains why
staleness does no harm:

- `CacheInv`: a Service the cache shows healthy (finalizer, not terminating) has
  its finalizer in the API server; one it shows terminating has not been
  recreated *and* given a finalizer. Only the worker moves finalizers, and only
  on what the cache shows. `FreshInv` ties the cache to the object.
- `LoopInv`, `CleanupInv`, `HandlerInv`: the same for the copies in the worker's
  memory, as long as it provisions, cleans up or handles a Service. So a port is
  only created under a finalizer that is really there, and the unconditional
  patch of `forceFinalizerRemoval` never strips a healthy recreated Service.
- `ResourceInv`, `ClientInv`: with one project, the client sees every resource.
- `RemainderInv`: in a cleanup without failure all that is left of the
  Service's resources is still on the lists, which are empty when the
  finalizer goes.

The proof of the step goes by phases (environment, queue, provisioning, cleanup,
deletion, service handler). Most steps are *tame*: they create nothing and take
no finalizer away, so that only the worker's copies have to be re-established;
the creations and the removals of finalizers are treated on their own.

`CustodyProofs` proves that the operator implements the abstract custody,

    OperatorKeepsCustody == ASSUME SingleProject PROVE Spec => ImplementsCustody

and `ResourceCustodyProofs` what the custody promises, `Spec => []Accounted`. The
initial state maps to one without guards and resources. A step is looked at
through the mapping (`GuardsKept`, `HeldKept`, `RemovedHeld`): most are no step
of the custody; adding the finalizer is a `Guard`; a creation is an `Acquire`,
since `LoopInv` says that the finalizer seen in a copy is still there; a deletion
is a `Dispose`; dropping the finalizer is a `Release` when the cleanup did not
fail, since `RemainderInv` then leaves nothing, and a `GiveUp` otherwise.

`StaleProofs` proves, without any assumption on projects or names,

    AnnotationInvariant == Spec => []AnnotationInv
    AnnotatedProtected  == Spec => []AnnotatedIsProtected

`AnnotatedIsProtected` is not inductive by itself: the retried write of
`updateResourceWithRetry` puts an old copy, annotations included, under the
current resourceVersion, so one has to know what an old copy can contain.
`StaleInv` says it with `Lags`: a copy, in the cache or in the worker's memory, is
of the same incarnation as the object or of an earlier one, and if it is of the
same one and shows a deletion, the deletion stands and a finalizer it has lost
has not come back. Each step is seen through what it makes of a Service
(`Successor`: the object ages, is covered if it was, gets the finalizer only
under a current cache, and its annotations are old ones or what the worker has
in hand) and what it copies (`Copied`). These two lemmas carry the next two
modules as well.

`AnswerProofs` proves

    AnswerInvariant     == ASSUME SingleProject PROVE Spec => []AnswerInv
    PortsAreAnsweredFor == ASSUME SingleProject PROVE Spec => []PortsAnsweredFor

The finalizer of an LB goes at the end of a deletion that worked through a list
of Services read at its start. That no port of the class is missed needs: the
LB's own copies lag no worse than a Service's (`LBCacheInv`, `MemInv`), so that no
port is created for an LB without its finalizer; the loop keeps to its class
(`ClassInv`); a Service with the finalizer was in the cache when the deletion
read it (`SeenInv`: only the worker adds the finalizer, and there is one worker);
and as long as no cleanup asked for another pass, a live port of the class is
abandoned, or its Service is still to be handled (`DeletionInv`).

`OwnershipProofs` proves

    UserFipsAreKept     == Spec => UserFipsKept
    OwnershipInvariant  == ASSUME DistinctTexts PROVE Spec => []OwnershipInv
    DeletesAreGrounded  == ASSUME SingleProject, DistinctTexts
                           PROVE  Spec => DeletesGrounded
    DeletesAreJustified == ASSUME SingleProject, DistinctTexts, SingleClass
                           PROVE  Spec => DeletesJustified

The first rests on `UserFipInv`: a user's floating IP never gets the operator's
tag, not even when it comes between the creation of a floating IP and the
call that tags it. For the others, `OwnershipInv` follows an ID from
where a resource is created to where it is deleted: annotations, and stale copies
of them, name a Service's own resources or a user's floating IP (`RecordInv`); a
floating IP hangs on a port of its own Service (`AttachInv`), so that the one
`GetFloatingIPByPortID` finds may be recorded; what the worker has in hand and
what a cleanup has listed is the Service's (`HandInv`, `ListsInv`). That what is
deleted *may* be deleted at that moment then follows from the copies: the LB or
the Service was read as terminating (`MemInv`, `FinalizeInv`), `Lags` and
`CleanupInv` say what is left of that in the API server, and what a recreated
Service finds of its predecessor's was abandoned (`NoSilentLeak`).
`DistinctTexts` (a resource's text matches the search of its own Service only) is
necessary: run `NestedNames` has two names, one inside the other, and
`DeletesJustified` fails. `SingleClass` (every Service is of the class of every LB)
is necessary too (item 7 above); what is left without it is
`DeletesGrounded`, where the LB being deleted may be of any class. The assumptions
hold in the instances of the passing runs.

Only model-checked: the liveness properties (`TerminatingServiceReleased`,
`ServiceProvisioned`, `StatusConverges`, `LBDeletionCompletes`), since fairness and
`ENABLED` are outside the prover's reach. The properties of the violation runs
are not theorems, since they do not hold.

## Not modelled

- `cmd/main.go` (flags, leader election; one active manager is assumed), the
  HTTP transport and CA handling, generated code, mocks, charts and tests.
- Functions without a caller: `CleanupResourcesForServiceWithForce`,
  `HandleServiceFinalization`, `getManagedResources`, `isResourceForService`.
- Events, the messages of conditions, and the conditions PortCreated and
  FloatingIPCreated (with them the liveness runs no longer fit their time).
- Changes to the class or the credentials of an LB, to a Service's class, or by
  users to the operator's annotations and finalizers.
- A create request still in flight when the operator dies: a call is atomic, and
  a crash comes before or after it.

Seen while modelling and not the subject of a run: the conditions PortCreated and
FloatingIPCreated are set only when a resource is created, so that a status
written from a stale copy loses them for good; `Ready` is set after a pass that
only added a finalizer, and `status.ready` is never reset, although its type
(`api/v1alpha1/openstackloadbalancer_types.go:68`) says that it tells whether the
resources exist: with the last Service gone it stands next to the condition
NoMatchingService; the subnet found for
the first Service is used for all; a port is not moved when its Service's address
changes, and a floating IP is not attached again when its port was replaced; an
adopted floating IP of a user is refused by every cleanup and blocks the LB's
deletion; addresses are never taken off `externalIPs`; a Service changed to
another type keeps its port until it is deleted; a Service named `port` or
`service` matches every operator description; a Service whose name contains
`service-handler-` is never finalized (`HandlerNames`, empty in the runs).

## Plan

Done: the state and the components above, in the order of the table, since
everything else rests on provisioning and cleanup; their composition; the fault
model with lost replies, edits and changes of address; the status; the abstract
custody and the refinement; theorems for type correctness, leak freedom, the
refinement, and every other safety property of the passing runs.

Next:

1. Safety facts that the liveness arguments rest on and that can be proved: a
   terminating Service with the finalizer is in the cache or has an event to
   come, so that a request for it is not lost.
2. What still holds where the assumptions fail: leak freedom for the Services of
   a class whose LBs share a project, and ownership for Services whose texts no
   other one's search matches.
