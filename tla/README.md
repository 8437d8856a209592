# A TLA+ model of the Alibaba Cloud Cluster API provider

This directory is a verification project for the provider in `src/`: modules that
model it, TLC configurations that check them on small instances, and proofs that
TLAPS checks for every instance. `PROJECT.json` is the index: which definition
models which lines, which run checks which property, which mutant of the code each
property catches, and which hazards of the code the properties are for.

## 1. The system

The provider is one manager process (`cmd/main.go`, leader election) with five
reconcilers and two webhooks. It is driven by Kubernetes objects and drives ECS
and OSS through the SDK.

| component | state | operations | hard behaviours | what makes it correct |
|---|---|---|---|---|
| **AlibabaCloudMachine controller** (`internal/controller/alibabacloudmachine_controller.go`) | finalizer, `spec.regionID`, `spec.providerID`, `status.{instanceID, ready, initialization.provisioned, failureReason, metadataHardened, ignitionOSS}`, Ready condition | `Reconcile` = `reconcileNormal` (`findOrCreateInstance`, `createInstance`, `maybeOffloadUserData`, `maybeHardenMetadata`) or `reconcileDelete` (`deleteInstance`, tag sweep, `cleanupOffloadedIgnition`), then the deferred patch | decides from a cached copy; writes only at the end, in three requests that fail separately; a crash or lost answer after `RunInstances`; old and new leader overlapping; ECS state changes that no watch reports | one instance per machine; handles lead to the machine's own instance; the finalizer outlives the instance; deletion and provisioning end |
| **ECS client** (`pkg/client/capi.go`) | the instances, their state, tags and ClientTokens (in ECS) | `DescribeInstanceByID`, `FindInstanceByTag`, `CreateECSInstance`, `DeleteECSInstance`, `ModifyInstanceMetadata`, `InstanceTypeCapacity` | answers that are lost, deletes that only stop, tokens ECS forgets | idempotent create; a delete that can be repeated |
| **Throttling retry** (`pkg/client/retry.go`) | attempt and delay of one call | `retryThrottled`, `isThrottlingError` | the last attempt, jitter at the capped delay, rate limits that come as HTTP 400 | bounded attempts and waiting; only throttles repeated; other errors returned at once |
| **Ignition object store** (`pkg/client/oss.go`) | one object per machine | put, presign, delete | best-effort deletion | user data is uploaded before the instance that fetches it |
| **AlibabaCloudMachine webhook** (`internal/webhook/v1beta1`) | none | defaulting, validation, `validateMachineImmutable` | admits or refuses a whole request, also one that only removes a finalizer; users edit while the controller holds an older copy | what it admits it admits again; the spec goes on defining the instance; it refuses no request of the controller for ever |
| **Cluster controller** (`alibabacloudcluster_controller.go`, `capi_core.go`) | `status.{ready, initialization, failureDomains, controlPlaneEndpoint}`, finalizer, three conditions | `reconcileNormal`, `reconcileDelete`, CCM and CAPI-core preflights | decides from a cached copy; Ready is set and never taken back; requests of the patch fail separately; a pause consumes an event | Ready implies an endpoint; failure domains mirror the spec; deletion ends; what machines rely on holds |
| **CSR approver** (`csr_controller.go`) | none (CSR conditions) | `shouldApprove` for bootstrap and serving CSRs, the optimistic update of the approval | reads machines, nodes and the CSR from three caches of different age; no event brings back a CSR it left | nothing approved that no machine or Node backs; nobody else's decision overridden; every Node of a machine joins and serves |
| **Machine-template controller** (`alibabacloudmachinetemplate_controller.go`) | capacity cache by instance type, `status.capacity` | `Reconcile`, `resolveCapacity` | concurrent look-ups outside the lock, a shared map whose entries are completed per template, merge patches from stale copies | the map keeps what ECS said; the status becomes the capacity of the type and the template's disk |
| **Control-plane controller** | `status` | four constants and a copy of `spec.version` | none of note | mirrors an external control plane |
| **Cluster webhook, cluster and template types** | none | defaulting, validation | immutability across updates | region immutable, zones unique |
| credentials and endpoints, metrics, version, utilities, manager wiring, generated code | - | - | - | configuration without protocol state |

Interactions: users and CAPI core create and delete `AlibabaCloudMachine` objects and
set their owner; the machine controller is queued by events of the object itself and
of its owning `Machine` (not of the `Cluster` or the `AlibabaCloudCluster`), reads
`AlibabaCloudCluster.status`, and calls ECS and OSS; the webhook stands between every
spec write and the API server; the cluster controller is queued by its own object and by
an unpaused `Cluster`; CAPI core sets `Machine.status.nodeRef` once a Node with
the machine's `providerID` exists, which re-queues the machine for IMDS hardening; the
CSR approver reads the `providerID` and `instanceID` the machine controller wrote, and
approves what kubelets ask; the template controller calls ECS through the same retry.

## 2. Modules

`EXTENDS` goes from bottom to top.

| module | models | lines of the code |
|---|---|---|
| `AlibabaCloudMachine` | the API object, the webhook's immutability rules, the merge of the patch helper, finalizers and garbage collection | `api/v1beta1`, `alibabacloudmachine_webhook.go`, helpers of the controller |
| `ECSClient` | instances and the calls on them; what ECS does on its own | `pkg/client/capi.go` |
| `MachineController` | the reconciler as a process with an informer cache and a queue, one action per request; crashes, users, CAPI core, the cluster's status | `alibabacloudmachine_controller.go`, `oss.go` |
| `MachineProperties` | the properties of machines | - |
| `InfraCluster` | abstract: what the machine controller may rely on of its cluster (not ready; ready without, or with, the machine's failure domain) | `status` of `alibabacloudcluster_types.go` |
| `ClusterController` | the cluster's reconciler, its webhook, its informer and patch; its properties; the refinement of `InfraCluster` | `alibabacloudcluster_controller.go`, `alibabacloudcluster_webhook.go`, `util.go` |
| `InfraMachine` | abstract: what the CSR approver may rely on of a machine (two handles that appear in any order and are never taken back; an object that is removed for good) | `spec.providerID`, `status.instanceID` |
| `CSRApprover` | the approver with its three caches and its queue; kubelets, signer, cloud-controller-manager, cleaner and other approvers; its properties | `csr_controller.go` |
| `RetryThrottled` | one ECS call as requests and sleeps; its properties | `retry.go` |
| `MachineTemplateController` | the template's reconciler with concurrent workers and their shared map, on top of `RetryThrottled`; its properties | `alibabacloudmachinetemplate_controller.go`, `InstanceTypeCapacity` of `capi.go` |
| `MachineAdmission` | the machine webhooks between users' edits and the machine controller's patches; its properties | `alibabacloudmachine_webhook.go`, `webhook.go`, the spec types |
| `MCMachine`, `MCCluster`, `MCCSR`, `MCTemplate`, `MCAdmission` | constants for TLC | - |
| `MachineControllerProofs` | type correctness, who writes objects | - |
| `MachineIdentityProofs` | write-once identity, whose instance a handle names, one instance | - |
| `MachineSafetyProofs` | hardening, one live instance, what the finalizer holds, Ready at rest | - |
| `MachineInfraProofs` | the refinement of `InfraMachine` | - |
| `ClusterControllerProofs` | the cluster's contract, the refinement of `InfraCluster` | - |
| `CSRApproverProofs` | what backs every approval | - |
| `MachineTemplateProofs` | the retry's budget and pacing, the shared map, type correctness | - |
| `MachineAdmissionProofs` | what a stored and a launched spec satisfy | - |

The two controllers run in one process but share only `AlibabaCloudCluster.status`. They
are composed through `InfraCluster`: its actions are the steps `ClusterChanges` of
`MachineController` takes, so the machine controller is checked against *every* cluster
that obeys it, and `ClusterController` is shown to obey it (`ImplementsInfraCluster`,
checked and proved).

Machine controller and CSR approver share only the machines' handles, and are composed in
the same way through `InfraMachine`: its steps are `MachineChanges` of `CSRApprover`, and
`MachineController` is shown to take no other (`ImplementsInfraMachine`, checked in
`tokens`, where two instances and four faults make handles appear in every order, and
proved). The approver's liveness asks nothing of the machine controller: it starts from
handles that are stored.

### How state and actions correspond to the code

A *worker* is one controller process. `cache[w]` is its informer cache, `queued[w]` its
work queue. A reconcile holds `base[w]` (the object as read: what
`patch.NewHelper` remembers), `cur[w]` (the object in memory), and a program counter
`pc[w]` naming the **next request**: between two requests nothing outside the process
can be observed, so everything between them is one step. `Begin(w, m)` is the part of
`Reconcile` up to its first request and has one action per early return; `Advance(w)`
has one action per ECS or OSS request, each with its success, its refusals, its failure
and, for `RunInstances`, the case in which it took effect and the answer was lost.

Every `return` of the code goes to `Finish`, which runs the deferred patch as the code
does: conditions, then metadata and spec in one request, then status, each sent only if
something differs, each able to fail by itself. A request sends the *difference* of
`cur` and `base`, merged into whatever the API server holds by then
(`PatchedConditions`, `PatchedSpec`, `PatchedStatus`); the webhook admits a spec request
as a whole or refuses it (`ValidateUpdate`).

`Deliver` brings an object's new version to a cache and its key to the queue. `Crash`
loses a worker's memory and lists everything anew. `Fault`s (failed calls, crashes,
disruptions, forgotten tokens) are counted and bounded by `MaxFaults`, pauses and edits of
failure domains by `MaxPauses`.

`ClusterController` is built the same way for one object and one worker. Its reconcile
sends nothing before the deferred patch, so `Begin` computes the whole outcome and
`Advance` is the patch. The spec is editable here: `EditSpec` writes any spec
that `validateClusterSpec` admits, between any two steps.

`CSRApprover` gives every kubelet one request at a time, under a new name each time. A
machine, its kubelet and its Node have one name. Each of the three informer caches is a
past state of all objects of its kind (`seenMachines`, `seenNodes`, and `seen`, the stage
of the request: a request itself is immutable). `Leave` and `Decide` are `Reconcile` up to
its only write; `UpdateApproval` is that write, which the API server refuses if the request
changed since it was read. A request that was left comes back only with an event of its
own, as the code watches only CSRs. The providerID is region, separator and instance, in
both forms the code knows, and `providerInstanceID` cuts it where the code does.

`MachineTemplateController` has `--concurrency` workers, one map `known` they share under a
lock, and the look-up, outside the lock, as the requests and sleeps of `RetryThrottled`.
`Kept` is the map's entry after a capacity was made from it: the code's `DeepCopy`. The
status patch sends the keys in which the new capacity differs from the copy that was read.

`MachineAdmission` takes a reconcile as its read, its spec request and its status request
and keeps the whole spec the webhooks look at. Admission is the pair of webhooks on every
create and update (`AdmitsCreate`, `AdmitsUpdate`), and both users' and the controller's
writes go through it. A user applies any of the submitted specs; fields it leaves empty stay
as they are, which is how the controller's values survive an edit.

### Abstractions

- A region is present or absent: the cluster's region is immutable and is the only
  value the controller writes. A `providerID` is represented by the instance it names;
  that it cannot be built without a region shows in `Created`.
- `Pending` stands for Pending and Starting. The conditions are one Boolean, "Ready is
  True", which is what decides whether the conditions request is sent.
- Owner, cluster and cluster status are read directly, not through a cache; the object
  itself, whose staleness matters, is read through one.
- ECS is strongly consistent: a tagged instance is found as soon as it exists. (With a
  delayed index the ClientToken alone prevents the second launch; `OneInstance` does not
  use the tag.)
- In `MachineController` a throttled call that `retryThrottled` repeats is one step, and
  the webhook's immutability rules are the two for the handles; `RetryThrottled` and
  `MachineAdmission` have the rest. The informers' periodic
  resync (ten hours) is not an event of the model, so "never" in a liveness
  counterexample means "not before the resync".
- `guarded` on an instance is a history variable: whether finalizer and region were in
  the API server when the instance was launched. Addresses, disks, user tags, log output,
  events and metrics are left out; a status request that would only carry the instance
  state or addresses is not sent in the model.
- Of the cluster, `status.vpcID` (mirrored once, read by nobody), the region (immutable)
  and the two preflight conditions (informational: they never end a reconcile) are left out.
- A kubelet's certificate does not expire in `CSRApprover`; it keeps asking for one it has
  not got. X.509 parsing is a subject that names a node or does not. Unusual requests
  (another signer, a rotation, another node's name, no name) come from foreign kubelets and
  are counted as faults, so that a bounded number of them interferes.
- Memory is counted in MiB and disks in GiB in `MachineTemplateController`; rate limits are
  one `Throttling` code and one HTTP status, refusals one other error.
- In `MachineAdmission` there is one machine, the webhooks are always called (their
  `failurePolicy` is `Fail`), and ECS gives the machine one instance: that it does is what
  `MachineController` shows.

## 3. What the runs check

Bounds name the smallest instance in which the interesting case happens. One machine
and one instance are enough for a single life; a second instance is only reachable if
idempotency fails, so two instances are what a violation needs; two workers are one
overlap; a property about names needs two machines.

| run | instance | checks |
|---|---|---|
| `lifecycle` | 1 worker, 1 machine, 1 instance, five kinds of spec (no region, no image, tokens at boot, user data too large, offloaded user data with hardening), 1 fault, 1 pause | `TypeOK`; `GuardedNotStranded`: a finalizer that was stored before the launch goes only after the instance; `HardenAfterJoin`: IMDS tokens are required only after the instance's own node joined |
| `overlap` | 2 workers with their own caches, 1 machine, 2 instances, symmetry | `AtMostOneInstance`, `HandlesAgree` |
| `names` | 1 worker, 2 machines, 2 instances | `OwnHandles`, `DeletesOwnInstance`: adoption and sweep by tag stay with the machine |
| `tokens` | 1 worker, 1 machine, 2 instances, 4 faults, ECS forgets tokens, symmetry | `IdentityIsStable`: identity is write-once though a second instance appears; `OneLiveInstance`: that instance never lives beside the first; `ReadyAtRestBinds`: a machine whose two handles disagree is not left Ready; `ImplementsInfraMachine`. Two handles that disagree take three faults (a lost answer, the forgotten token, a lost patch); the fourth lets a stale copy turn such a machine Ready |
| `progress` | 1 worker, 1 machine, 1 instance, hardening wanted, 1 fault, fairness | `DeletionCompletes`, `ProvisioningEnds`, `ProviderIDHeals`, `HardeningHappens` |
| `cluster` | 1 cluster, 2 zones, lists of up to 2, every admitted spec, 1 edit or pause, 1 fault, fairness | `ReadyIsReachable`: Ready only with an endpoint; `DomainsUnambiguous`: a zone has one vSwitch; `DomainsPublished`, `ReadyReached`, `ClusterDeletionCompletes`: what must happen does, after stale patches, pauses and lost requests; `ImplementsInfraCluster`; `ClusterTypeOK` |
| `csr` | 1 machine with a providerID of the older form, 1 foreign Node, 1 address, 1 fault, fairness | `BootstrapHasMachine`, `BootstrapIsAwaited`: a bootstrap request is approved only once a machine stored both handles and, with current caches, while one awaits its Node; `ServingMatchesNode`: a serving certificate names only what the asking Node had; `NodesJoin`, `NodesServe`: although a request that came too early is never looked at again; `DecidedIsLeft`: work on a decided request ends; `CSRTypeOK` |
| `capacity` | 2 workers, 2 templates, 2 types with equal cores, 2 retries, delays 2 to 3, 1 edit, 1 fault, fairness | `KnownIsStatic`: nothing of a template leaks into the shared map; `CapacityFollows`: the published capacity settles on the spec's; `RetryBudget`, `BackoffGrows`, `RetriedIfThrottled`; `TemplateTypeOK` |
| `admission` | 18 submitted specs (7 admitted, 11 refused, each for a reason of its own), 3 edits, 3 faults, fairness | `StoredIsReadmissible`, `LaunchedIsValid`, `SpecDefinesInstance`; `ProviderIDPersists`, `FinalizerGoes`: no request of the controller is refused for ever |

Two zones and lists of two are the smallest in which a zone can be listed twice, and in
which an edit can take a worker's zone away and leave another. The ports of `MCCluster`
lie inside the webhook's range and on both sides of it. In `csr` the foreign Node is what
makes a serving request without a machine, and a Node that is not the awaited one, happen;
the older providerID form is the one in which comparing the raw strings would go wrong.
Two templates of different types on two workers are the smallest overlap on the shared map;
a base delay of 2 and a cap of 3 give a jitter, a doubling and a capped sleep within two
retries. Three edits and three faults let a user's edit, a lost request and a restart fall
between the controller's read and each of its two requests.

Deadlock is not an error in any run: an object that is gone, or Ready with nothing
queued, rests.

**Fairness** (`FairSpec`). A reconcile under way goes on (WF of `Advance`): the worker
goroutine runs and the SDK's calls time out. A queued machine is picked up (SF of
`Begin`): the queue is first-in first-out, and strong fairness is needed because the
worker is busy with other machines in between. Informers deliver (WF of `Deliver`). ECS
finishes what it started: boots, stops and releases (WF of `ECSProgress`). The cluster
controller's `FairSpec` is the same for its one object, where weak fairness of `Begin` is
enough. In `csr` queued requests
are taken in turn (SF), kubelets ask again for what they have not got, as their certificate
managers do, the signer, the cloud-controller-manager, the node lifecycle and the cleaner of
undecided requests run (WF): the code itself relies on the kubelet asking again. In
`capacity` a template is picked up (SF, two workers) and a look-up goes on (WF); ECS
throttles a call beyond its retries only as often as faults are allowed. In `admission` the
worker runs and the informer delivers (WF). Nothing is
assumed of users, CAPI core, nodes, operators or unpausing, and a `Fault` never has to happen.

### Where the code and its comments disagree

Three runs check a property that a comment or document states and TLC refutes. Each finding in
`PROJECT.json` quotes the line.

| run | property | what happens |
|---|---|---|
| `shortcut` | `ShortcutIsSound` | the delete path's "no instance was ever created" is concluded from a copy that predates the deferred patch |
| `stuck` | `DeletionCompletes` | with no `spec.regionID`, a lost spec request and a kept status request, `reconcileDelete` fails for ever with "cannot determine region" |
| `failure` | `FailureIsTerminal` | the status patch that reports a terminal failure re-queues the machine, which retries its create |

Conditions under which the other runs state their properties, because the code does not keep
them without:

- the finalizer is only in memory when the first `RunInstances` happens, so a machine that is
  deleted before the deferred patch leaves an instance: `GuardedNotStranded` speaks of
  launches whose finalizer was stored;
- `GuardedNotStranded` is also one controller's promise. With two overlapping ones and one fault,
  the second sweeps and finds nothing, the first launches under the stored finalizer, and the
  second's patch then removes it: leader election (`OneWorker` in the proofs) is what prevents it;
- a machine with handles that disagree can be turned Ready by a reconcile of an older copy. It does
  not stay so, as the patch's own event brings the machine back; but an unpaused Cluster queues
  nothing, so `ReadyAtRestBinds` is about a controller that rests and a cluster that was never paused;
- create tags with `Machine.Name` and the sweep looks for `AlibabaCloudMachine.Name`: the runs
  that sweep have equal names, and `DeletesOnlyOwn` assumes `SameNames`;
- `reconcileFailureDomains` ignores an empty list, so the zones of a list that was emptied stay
  published: `DomainsPublished` asks for a non-empty list;
- the comment on the CSR approver (`csr_controller.go:49-50`) ties every approval to a machine,
  while serving requests are approved for every Node, deliberately (`csr_controller.go:158-167`):
  `BootstrapHasMachine` is about bootstrap requests;
- a machine that was stored without a system disk before its webhook was enabled is defaulted by
  its next update, which then changes an immutable field and is refused: the model starts with the
  webhooks in place;
- a user who sets `zoneID` while the controller launches from an older copy, in which the zone was
  empty, ends with a spec whose zone is not the instance's: `SpecDefinesInstance` is about the
  fields that are immutable from the start, not the write-once ones.

`progress` has a region on the spec, and `HardeningHappens` asks
for a `ModifyInstanceMetadata` that does not fail: the code calls hardening best effort,
and nothing repeats a failed call before the resync.

## 4. What is proved

All theorems hold for any sets of machines, instances, workers, specs, names, kubelets,
addresses, templates and types, any delays and retries, and any
number of faults, pauses and edits. The assumptions on constants are the named `ASSUME`s of the
modules (`None` is neither a machine nor an instance; names are functions on machines;
specs are well formed; names of different things differ; the base delay is at most the cap;
bounds are naturals).

| theorem | states | further assumption |
|---|---|---|
| `TypeCorrect` | `[]TypeOK` | - |
| `IdentityStable` | `IdentityIsStable` | - |
| `HandlesAreOwn` | `[]OwnHandles` | `DistinctNames` |
| `DeletesOnlyOwn` | `[]DeletesOwnInstance` | `DistinctNames`, `SameNames` |
| `OneInstance` | `[]AtMostOneInstance` | `~TokensExpire` |
| `HandlesNeverDisagree` | `[]HandlesAgree` | `DistinctNames`, `~TokensExpire` |
| `HardensAfterJoin` | `[]HardenAfterJoin` | `DistinctNames`, `~TokensExpire` |
| `OneLive` | `[]OneLiveInstance` | `OneWorker` |
| `NotStranded` | `[]GuardedNotStranded` | `OneWorker`, `SameNames` |
| `RestBinds` | `[]ReadyAtRestBinds` | `OneWorker` |
| `ClusterTypeCorrect` | `[]ClusterTypeOK` | - |
| `ReadyNeedsEndpoint` | `[]ReadyIsReachable` | - |
| `ClusterImplements` | `ImplementsInfraCluster` | - |
| `DomainsAlwaysUnambiguous` | `[]DomainsUnambiguous` | - |
| `MachineImplements` | `ImplementsInfraMachine` | - |
| `CSRTypeCorrect` | `[]CSRTypeOK` | - |
| `BootstrapApprovalsBacked` | `[]BootstrapHasMachine` | - |
| `ServingApprovalsMatch` | `[]ServingMatchesNode` | - |
| `BootstrapApprovalsAwaited` | `BootstrapIsAwaited` | - |
| `RetryBudgetKept` | `[]RetryBudget` | - |
| `BackoffNeverShrinks` | `BackoffGrows` | - |
| `OnlyThrottlesRetried` | `RetriedIfThrottled` | - |
| `KnownStaysStatic` | `[]KnownIsStatic` | - |
| `TemplateTypeCorrect` | `[]TemplateTypeOK` | - |
| `StoredReadmissible` | `[]StoredIsReadmissible` | - |
| `LaunchesAreValid` | `[]LaunchedIsValid` | - |
| `InstanceStaysDefined` | `[]SpecDefinesInstance` | - |

The assumptions are where the code really needs them: without `SameNames` or
`DistinctNames` a sweep finds another machine's instance (the tag is filtered by name
over a whole region), and with forgotten tokens a second launch is possible. `OneWorker` is
leader election: there is at most one controller process, with its one worker for machines. The
three theorems that assume it are about one reconcile that reads, asks ECS and acts on the
answer; between the two a second process could launch or release.

- *Typing.* `TypeOK` alone is not inductive: a patch writes `obj[key[w]]`, so a worker in
  the middle of a reconcile must be known to hold a machine. `Typed` adds `HasKey`.
- *Identity.* `ObjectWriters` shows that only the three patch requests and a user's delete
  write an object; of these only the spec request touches `providerID` and
  `regionID`, and it passed `ValidateUpdate` against the object it replaces.
- *Handles.* `OwnHandles` speaks of the API server, but a wrong handle in a cache or in
  memory would be written later. `OwnInv` claims the same of `obj`, `cache`, `base` and
  `cur`. Its preservation rests on three lemmas: instances keep their owners
  (`OwnersKept`), a merge takes each handle from one of the two objects merged
  (`HandledPatches`), and what `FindInstanceByTag` returns or `RunInstances` launches
  belongs to the worker's machine (in `AdvanceOwned`, where `DistinctNames` is used).
- *Deletes.* `TargetOwned` adds that a worker between reconciles has no target; the target
  comes from a recorded handle (`OwnInv`) or from the sweep (`SameNames`).
- *One instance.* Inductive together with `TokensKept`: a launch needs a token ECS does not
  remember, hence a machine without an instance. Tags and names play no part.
- *Handles agree* follows: both handles name instances of the machine, and there is one.
- *Every step, seen from ECS.* `InstanceSteps` reduces a step of the whole system to three kinds: a
  launch, a hardening, or one that changes no owner or history and revives nothing (`Quiet`). The
  next three proofs rest on it.
- *Hardening.* The gate is the `nodeRef` read when the reconcile starts; the call, some requests
  later, goes to the instance the object records. `JoinInv` says that a `nodeRef` means that *some*
  instance of the machine joined (`NodeOfInstance`) and that a worker on its way to harden passed
  the gate (`GateOpen`). That the recorded instance is the one that joined is `OwnInv` and
  `AtMostOneInstance`, hence `DistinctNames` and `~TokensExpire`.
- *One live instance.* Here tokens may be forgotten and the tag must do. `LiveInv` adds that
  between the search that found nothing and the launch the machine has no live instance; only
  another worker's launch could end that.
- *What the finalizer holds.* The removal is decided from a copy and a sweep and sent by a later
  patch. `GuardInv` says that while an instance launched under the stored finalizer lives, finalizer and region
  are stored and every copy that shows the deletion shows the region (`Held`: otherwise the delete
  path takes its nothing-was-provisioned shortcut); that a create has the finalizer in memory
  and meets no worse copy meanwhile (`CreatesHeld`); and that a worker which gives the
  finalizer up, in memory or just before, belongs to a machine without such an instance
  (`ReleasesNothing`). The last is lost with a second worker.
- *Ready at rest.* The property speaks of a worker that rests, so `RestInv` says who attends to a
  machine that is Ready and cannot bind while one does not: a copy to be delivered, the queue, a
  requeue, or a patch under way that withdraws Ready (`AllAttended`). It needs that a reconcile that
  read such a copy withdraws or comes back (`Withdraws`), and that a copy delivered
  during a reconcile also queued the machine (`Fresh`). `Fresh` compares copies by value, which one
  worker's reconcile justifies.

- *The cluster's contract.* `ReadyIsReachable` is not inductive: a request sends Ready and
  the endpoint only where they differ from the copy that was read, so a stale copy with
  an endpoint sends Ready alone. `ReachInv` says that an endpoint in an older copy
  (`cache`, `base`) implies one in the API server, that what a reconcile changes is an
  endpoint that appears, and that Ready is never dropped in memory. The last also gives
  the refinement: `RequestKeeps` shows that no request takes Ready back.
- *Zones.* `AdmittedInv` claims the webhook's guarantee of spec and status of all four
  copies; a patch takes each list from one of them.
- *Machines as the approver sees them.* A request sends a handle only where memory differs from
  the copy that was read. `HeldInv` says that a reconcile never clears in `cur` a handle
  that `base` has, so no difference can take one back; a removed object is written by nobody.
- *Approvals.* The decision is taken from caches and sent in a later step, so `ApprovalInv`
  claims the justification of what the approver is *about* to approve as well as of what it
  has (`Justified`), and needs that a cached machine's handles were stored and a cached Node's
  addresses were advertised (`SeenWasStored`, `SeenWasAdvertised`), which hold because handles
  and the history of addresses only grow. `Genuine` says that whoever is not the bootstrap identity
  asks in its own name, which the API server establishes.
- *Retry.* `RetryBudget` is not inductive: a total of sleeps must be bounded by the attempts
  made so far. `Paced` says `total <= attempt * throttleMaxDelay`, that the delay lies
  between base and cap, and that the last sleep is not longer than the next delay. `RetryInv` also needs
  that a call is open only in a worker that looks a type up.
- *Templates.* `TemplateTypeOK` is inductive together with `KnownIsStatic`: the capacity a worker
  makes from the map is a list of positive quantities because the map's entry is ECS's answer
  (`DescribedListed`, `ResolvedListed`), and merging it into another status keeps
  that (`MergedListed`).
- *Admission.* A defaulted disk is complete and defaulting again changes nothing
  (`DiskCompleted`, `DefaultedOnce`). `AdmissionInv` claims validity of stored object, cached copy and
  launched spec, and that the three agree on what defines the instance: the launch is made
  from the cached copy, the patch is merged into the stored one.

Every invariant, action property and refinement of the passing runs is proved. Only
model-checked are the liveness properties (`DeletionCompletes`, `ProvisioningEnds`,
`ProviderIDHeals`, `HardeningHappens`, `DomainsPublished`, `ReadyReached`,
`ClusterDeletionCompletes`, `NodesJoin`, `NodesServe`, `DecidedIsLeft`, `CapacityFollows`,
`ProviderIDPersists`, `FinalizerGoes`): fairness and ENABLED are outside the proof system's reach,
and so is induction over data, which no theorem here needs.

## 5. What is not modelled, and what could follow

Not modelled:

- the control-plane controller: it writes four constants and `spec.version` to its own status,
  and calls nothing; its deferred patch is the cluster controller's;
- the preflights (`capi_core.go`, the check of the cloud-controller-manager): informational
  conditions that end no reconcile. They run when the cluster becomes Ready, usually before any
  Node exists, and Nodes are not watched, so that stuck Nodes are reported only by a later event or the
  resync, which the models do not have;
- the best-effort tagging of disks and network interfaces, presigned URLs and their expiry;
- SDK client construction, private-cloud endpoints, the legacy machine-api client, metrics,
  version, flag parsing, the cluster template type, generated code and test doubles. These have
  no protocol state of their own.

What could follow, in order:

1. The informers' resync as an event, and with it the bound it puts on what is only repeated then:
   a failed hardening, a machine skipped during a pause, a preflight.
2. Certificate rotation in `CSRApprover`.
3. A version on objects, with which a delivered copy is told apart from an older equal one: it would
   carry `RestBinds` to overlapping workers, if it holds of them.

## 6. Running it

    tlc -workers 2 -config MC_lifecycle.cfg MCMachine
    tlc -workers 2 -config MC_cluster.cfg MCCluster
    tlc -workers 2 -config MC_csr.cfg MCCSR
    tlc -workers 2 -config MC_capacity.cfg MCTemplate
    tlc -workers 2 -config MC_admission.cfg MCAdmission
    for m in *Proofs.tla; do tlapm $m; done

Mutants are written next to the definitions they stand in for (`RunInstances_NoToken`
beside `RunInstances`): replacing the definition's body by the mutant must break the
property `PROJECT.json` pairs it with.
