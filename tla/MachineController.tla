-------------------------- MODULE MachineController --------------------------
(***************************************************************************)
(* AlibabaCloudMachineReconciler.  A worker is one controller process: it  *)
(* takes a machine from its queue, reads it from its informer cache, calls *)
(* ECS and OSS one request at a time, and writes what it changed in memory *)
(* back with the deferred patch.  Leader election leaves one worker; two   *)
(* model an old and a new leader that overlap, each with its own cache.    *)
(***************************************************************************)
EXTENDS ECSClient

CONSTANTS
  Workers,       \* controller processes
  InfraName,     \* AlibabaCloudMachine.Name
  Specs,         \* what users may ask for, see SpecType
  Ripe,          \* owner, bootstrap data and cluster are ready from the start
  TokensExpire,  \* ECS may forget a ClientToken while a machine lives
  MaxFaults,     \* bound on failed calls, crashes and cloud disruptions
  MaxPauses      \* bound on pausing and on taking a failure domain away

(* regionID: the user set spec.regionID; image: an imageID resolves;       *)
(* payload: size of the user data against the ECS limit; httpTokens and     *)
(* hardenAfterBoot: metadataOptions.httpTokens, and that                   *)
(* httpTokensAfterBoot = required is set.                                  *)
SpecType == [regionID: BOOLEAN, image: BOOLEAN,
             payload: {"inline", "offload", "tooLarge"},
             httpTokens: {"", "optional", "required"},
             hardenAfterBoot: BOOLEAN]

ASSUME NameAssumption ==
  /\ DOMAIN OwnerName = Machines
  /\ DOMAIN InfraName = Machines
ASSUME SpecsAssumption == Specs \subseteq SpecType
ASSUME BoundAssumption ==
  MaxFaults \in Nat /\ MaxPauses \in Nat /\ {Ripe, TokensExpire} \subseteq BOOLEAN

VARIABLES
  spec,      \* what the user asked for, fixed
  obj,       \* the objects in the API server
  machine,   \* the owning CAPI Machine, as far as it is read
  infra,     \* AlibabaCloudCluster status: Ready, and the failure domains resolve
  oss,       \* the machines whose Ignition object is in the OSS bucket
  cache,     \* each worker's informer cache of obj
  queued,    \* each worker's work queue
  pc,        \* where each worker is, "idle" between reconciles
  key,       \* the machine it reconciles
  base,      \* the object as it was read: the patch helper's "before"
  cur,       \* the object in memory
  target,    \* the instance it is about to delete
  harden,    \* the IMDS hardening gate, evaluated on what was read
  requeue,   \* the reconcile ends in an error or RequeueAfter
  faults, pauses

apiVars    == <<obj, oss>>
envVars    == <<spec, machine, infra, pauses>>
localVars  == <<pc, key, base, cur, target, harden, requeue>>
workerVars == <<cache, queued, localVars>>
vars       == <<ecs, apiVars, envVars, workerVars, faults>>

(* link: whether the owner and its cluster resolve and nothing is paused.  *)
Links == {"unowned", "linked", "paused", "clusterPaused", "ownerGone"}

MachineType == [link: Links, dataSecret: BOOLEAN, nodeRef: BOOLEAN]

Steps == {"idle", "describe", "harden", "offload", "find", "run",
          "delDescribe", "sweep", "deleteECS", "cleanup",
          "patchConditions", "patchSpec", "patchStatus", "return"}

TypeOK ==
  /\ ecs \in [Instances -> Instance]
  /\ spec \in [Machines -> Specs]
  /\ obj \in [Machines -> Object]
  /\ machine \in [Machines -> MachineType]
  /\ infra \in {"notReady", "noDomain", "ready"}
  /\ oss \in SUBSET Machines
  /\ cache \in [Workers -> [Machines -> Object]]
  /\ queued \in [Workers -> [Machines -> BOOLEAN]]
  /\ pc \in [Workers -> Steps]
  /\ key \in [Workers -> Machines \cup {None}]
  /\ base \in [Workers -> Object]
  /\ cur \in [Workers -> Object]
  /\ target \in [Workers -> Handle]
  /\ harden \in [Workers -> BOOLEAN]
  /\ requeue \in [Workers -> BOOLEAN]
  /\ faults \in 0..MaxFaults
  /\ pauses \in 0..MaxPauses

Init ==
  /\ ECSInit
  /\ spec \in [Machines -> Specs]
  /\ obj = [m \in Machines |-> NewObject(spec[m].regionID)]
  /\ machine = [m \in Machines |-> [link |-> IF Ripe THEN "linked" ELSE "unowned",
                                    dataSecret |-> Ripe, nodeRef |-> FALSE]]
  /\ infra = IF Ripe THEN "ready" ELSE "notReady"
  /\ oss = {}
  /\ cache = [w \in Workers |-> obj]
  /\ queued = [w \in Workers |-> [m \in Machines |-> TRUE]]
  /\ pc = [w \in Workers |-> "idle"]
  /\ key = [w \in Workers |-> None]
  /\ base = [w \in Workers |-> NoObject]
  /\ cur = [w \in Workers |-> NoObject]
  /\ target = [w \in Workers |-> None]
  /\ harden = [w \in Workers |-> FALSE]
  /\ requeue = [w \in Workers |-> FALSE]
  /\ faults = 0
  /\ pauses = 0

-----------------------------------------------------------------------------
(* Moves of a worker. *)

Fault == faults < MaxFaults /\ faults' = faults + 1

\* The requests the deferred patch still has to send.
AfterSpec(b, c) == IF PatchedStatus(b, b, c) = b THEN "return" ELSE "patchStatus"

AfterConditions(b, c) ==
  IF PatchedSpec(b, b, c) = b THEN AfterSpec(b, c) ELSE "patchSpec"

FirstPatch(b, c) ==
  IF c.cond = b.cond THEN AfterConditions(b, c) ELSE "patchConditions"

\* Mutant: hardening does not wait for the node.
HardeningDue_BeforeJoin(w, m) ==
  spec[m].hardenAfterBoot /\ ~cache[w][m].hardened

\* The gate of maybeHardenMetadata: wanted, not done yet, and the node joined.
HardeningDue(w, m) ==
  spec[m].hardenAfterBoot /\ ~cache[w][m].hardened /\ machine[m].nodeRef

\* Reconcile takes m from the queue, reads it and continues at p with c.
Start(w, m, p, c, again) ==
  /\ pc[w] = "idle" /\ queued[w][m] /\ cache[w][m].exists
  /\ pc' = [pc EXCEPT ![w] = p]
  /\ key' = [key EXCEPT ![w] = m]
  /\ base' = [base EXCEPT ![w] = cache[w][m]]
  /\ cur' = [cur EXCEPT ![w] = c]
  /\ harden' = [harden EXCEPT ![w] = HardeningDue(w, m)]
  /\ requeue' = [requeue EXCEPT ![w] = again]
  /\ queued' = [queued EXCEPT ![w][m] = FALSE]
  /\ UNCHANGED <<ecs, apiVars, envVars, cache, target>>

\* It returns without a request.
StartAndReturn(w, m, c, again) ==
  Start(w, m, FirstPatch(cache[w][m], c), c, again)

\* It goes on from one request to the next ...
Goto(w, p, c) ==
  /\ pc' = [pc EXCEPT ![w] = p]
  /\ cur' = [cur EXCEPT ![w] = c]
  /\ UNCHANGED <<obj, envVars, cache, queued, key, base, harden>>

\* ... or returns, which runs the deferred patch: its first request that has
\* something to send.
Finish(w, c, again) ==
  /\ Goto(w, FirstPatch(base[w], c), c)
  /\ requeue' = [requeue EXCEPT ![w] = again]
  /\ UNCHANGED target

FinishWithError(w) == Finish(w, [cur[w] EXCEPT !.cond = FALSE], TRUE)

Stay == UNCHANGED <<requeue, target>>

\* The reconcile is over: the worker keeps nothing of it.
Done(w) ==
  /\ pc' = [pc EXCEPT ![w] = "idle"]
  /\ key' = [key EXCEPT ![w] = None]
  /\ base' = [base EXCEPT ![w] = NoObject]
  /\ cur' = [cur EXCEPT ![w] = NoObject]
  /\ target' = [target EXCEPT ![w] = None]
  /\ harden' = [harden EXCEPT ![w] = FALSE]
  /\ requeue' = [requeue EXCEPT ![w] = FALSE]

-----------------------------------------------------------------------------
(* Reconcile and reconcileNormal. *)

\* The object is gone, has no owner yet, or is paused.  (An owner that cannot
\* be read is an error that changes nothing and is tried again.)
SkipReconcile(w, m) ==
  /\ pc[w] = "idle" /\ queued[w][m]
  /\ \/ ~cache[w][m].exists
     \/ /\ ~cache[w][m].deleting
        /\ machine[m].link \in {"unowned", "paused", "clusterPaused"}
  /\ queued' = [queued EXCEPT ![w][m] = FALSE]
  /\ UNCHANGED <<ecs, apiVars, envVars, cache, localVars, faults>>

Normal(w, m) == ~cache[w][m].deleting /\ machine[m].link = "linked"

\* AddFinalizer, in memory.
Adopted(w, m) == [cache[w][m] EXCEPT !.finalizer = TRUE]

Prepared(m) == infra = "ready" /\ machine[m].dataSecret

\* The cluster is not ready, there is no bootstrap data, or the failure
\* domain does not resolve.
WaitForPrerequisites(w, m) ==
  /\ Normal(w, m)
  /\ ~Prepared(m)
  /\ StartAndReturn(w, m, [Adopted(w, m) EXCEPT !.cond = FALSE], TRUE)
  /\ UNCHANGED faults

\* The SDK client cannot be built or the user data cannot be read.
PrerequisiteFails(w, m) ==
  /\ Normal(w, m)
  /\ Prepared(m)
  /\ StartAndReturn(w, m, [Adopted(w, m) EXCEPT !.cond = FALSE], TRUE)
  /\ Fault

\* The two fields that name the instance name different ones.
Mismatch(o) == /\ o.instanceID # None /\ o.providerID # None
               /\ o.instanceID # o.providerID

ProviderIDMismatch(w, m) ==
  /\ Normal(w, m)
  /\ Prepared(m)
  /\ Mismatch(cache[w][m])
  /\ StartAndReturn(w, m, setFailed(Adopted(w, m)), FALSE)
  /\ UNCHANGED faults

\* Mutant: the two fields are not compared.
BeginDescribe_Unchecked(w, m) ==
  /\ Normal(w, m)
  /\ Prepared(m)
  /\ cache[w][m].instanceID # None
  /\ Start(w, m, "describe", Adopted(w, m), FALSE)
  /\ UNCHANGED faults

BeginDescribe(w, m) ==
  /\ Normal(w, m)
  /\ Prepared(m)
  /\ cache[w][m].instanceID # None
  /\ ~Mismatch(cache[w][m])
  /\ Start(w, m, "describe", Adopted(w, m), FALSE)
  /\ UNCHANGED faults

\* createInstance up to its first request.  The resolved region goes onto the
\* spec in memory only.
BeginCreate(w, m) ==
  LET c == [Adopted(w, m) EXCEPT !.regionID = TRUE]
  IN /\ Normal(w, m)
     /\ Prepared(m)
     /\ cache[w][m].instanceID = None
     /\ UNCHANGED faults
     /\ \/ /\ ~spec[m].image
           /\ StartAndReturn(w, m, setFailed(Adopted(w, m)), FALSE)
        \/ /\ spec[m].image /\ spec[m].payload = "tooLarge"
           /\ StartAndReturn(w, m, setFailed(c), FALSE)
        \/ /\ spec[m].image /\ spec[m].payload = "offload"
           /\ Start(w, m, "offload", c, FALSE)
        \/ /\ spec[m].image /\ spec[m].payload = "inline"
           /\ Start(w, m, "find", c, FALSE)

-----------------------------------------------------------------------------
(* findOrCreateInstance for a machine that has an InstanceID. *)

\* Mutant: a lost spec.providerID stays lost.
Healed_Not(o) == o

\* The instance as described, spec.providerID healed from the InstanceID.
Healed(o) == [o EXCEPT !.providerID = IF @ = None THEN o.instanceID ELSE @]

\* Mutant: the reconcile ends without a requeue.
WaitForRunning_NoRequeue(w, i, c) ==
  ecs[i].state \in {"Pending", "Stopping"} /\ Finish(w, c, FALSE)

\* Neither Running nor terminal: look again in a while.
WaitForRunning(w, i, c) ==
  ecs[i].state \in {"Pending", "Stopping"} /\ Finish(w, c, TRUE)

Describe(w) ==
  LET i == cur[w].instanceID
      c == Healed(cur[w])
  IN /\ pc[w] = "describe"
     /\ UNCHANGED <<ecs, oss>>
     /\ \/ Fault /\ FinishWithError(w)
        \/ /\ UNCHANGED faults
           /\ \/ /\ ~Described(i)
                 /\ Finish(w, setFailed(cur[w]), FALSE)
              \/ /\ ecs[i].state \in {"Stopped", "Deleted"}
                 /\ Finish(w, setFailed(c), FALSE)
              \/ WaitForRunning(w, i, c)
              \/ /\ ecs[i].state = "Running" /\ ~harden[w]
                 /\ Finish(w, SetProvisioned(c), FALSE)
              \/ /\ ecs[i].state = "Running" /\ harden[w]
                 /\ Goto(w, "harden", c)
                 /\ Stay

\* maybeHardenMetadata, past its gate: best effort, no error is returned.
HardenMetadata(w) ==
  LET i == cur[w].instanceID
  IN /\ pc[w] = "harden"
     /\ UNCHANGED oss
     /\ \/ /\ UNCHANGED faults
           /\ ModifyInstanceMetadata(i)
           /\ Finish(w, SetProvisioned([cur[w] EXCEPT !.hardened = TRUE]), FALSE)
        \/ /\ Fault
           /\ UNCHANGED ecs
           /\ Finish(w, SetProvisioned(cur[w]), FALSE)

-----------------------------------------------------------------------------
(* createInstance: maybeOffloadUserData, then CreateECSInstance. *)

OffloadUserData(w) ==
  /\ pc[w] = "offload"
  /\ UNCHANGED ecs
  /\ \/ /\ UNCHANGED faults
        /\ oss' = oss \cup {key[w]}
        /\ Goto(w, "find", [cur[w] EXCEPT !.ignitionOSS = TRUE])
        /\ Stay
     \/ /\ Fault
        /\ UNCHANGED oss
        /\ FinishWithError(w)

\* Mutant: the providerID is built from the empty spec.regionID and names no
\* instance.
Created_EmptyRegion(w, i) ==
  Finish(w, [cur[w] EXCEPT !.providerID = "alicloud://.", !.instanceID = i], TRUE)

\* The tail of createInstance.
Created(w, i) ==
  Finish(w, [cur[w] EXCEPT !.providerID = i, !.instanceID = i], TRUE)

\* The idempotency guard: adopt an instance that carries the machine's tag.
AdoptInstance(w) ==
  LET found == FindInstanceByTag(OwnerName[key[w]])
  IN /\ pc[w] = "find"
     /\ UNCHANGED <<ecs, oss>>
     /\ \/ Fault /\ FinishWithError(w)
        \/ /\ UNCHANGED faults
           /\ \E i \in found : Created(w, i)
        \/ /\ UNCHANGED faults
           /\ found = {}
           /\ Goto(w, "run", cur[w])
           /\ Stay

\* resolveMetadataOptions: unless the spec opts out, IMDS requires a token.
TokensAtBoot(m) == spec[m].httpTokens # "optional"

Guarded(m) == obj[m].exists /\ obj[m].finalizer /\ obj[m].regionID

\* RunInstances succeeds; is refused for good (no stock, spot rejected); fails
\* without effect; or launches the instance but its answer is lost.
LaunchInstance(w) ==
  LET m == key[w]
  IN /\ pc[w] = "run"
     /\ UNCHANGED oss
     /\ \/ \E i \in Instances : /\ RunInstances(m, Guarded(m), TokensAtBoot(m), i)
                                /\ Created(w, i)
                                /\ UNCHANGED faults
        \/ Fault /\ UNCHANGED ecs /\ Finish(w, setFailed(cur[w]), FALSE)
        \/ Fault /\ UNCHANGED ecs /\ FinishWithError(w)
        \/ \E i \in Instances : /\ RunInstances(m, Guarded(m), TokensAtBoot(m), i)
                                /\ Fault
                                /\ FinishWithError(w)

-----------------------------------------------------------------------------
(* reconcileDelete. *)

\* Neither a handle nor a region: nothing was provisioned.
ReleaseUnprovisioned(w, m) ==
  LET o == cache[w][m]
  IN /\ o.deleting
     /\ RecordedInstance(o) = None /\ ~regionFromMachine(o)
     /\ StartAndReturn(w, m, [o EXCEPT !.finalizer = FALSE], FALSE)
     /\ UNCHANGED faults

\* A handle without a region: an error, and the finalizer stays.
RegionUnknown(w, m) ==
  LET o == cache[w][m]
  IN /\ o.deleting
     /\ RecordedInstance(o) # None /\ ~regionFromMachine(o)
     /\ StartAndReturn(w, m, o, TRUE)
     /\ UNCHANGED faults

\* Status.InstanceID is healed from the providerID first; building the client
\* may then fail.
BeginDelete(w, m) ==
  LET o == cache[w][m]
      i == RecordedInstance(o)
      c == [o EXCEPT !.instanceID = i]
  IN /\ o.deleting
     /\ regionFromMachine(o)
     /\ \/ Fault /\ StartAndReturn(w, m, c, TRUE)
        \/ /\ UNCHANGED faults
           /\ i # None
           /\ Start(w, m, "delDescribe", c, FALSE)
        \/ /\ UNCHANGED faults
           /\ i = None
           /\ Start(w, m, "sweep", c, FALSE)

\* Mutant: Stopped is taken for a state on the way out.
Terminating_Stopped == {"Stopping", "Deleted", "Stopped"}

\* The states in which an instance is left to terminate by itself.
Terminating == {"Stopping", "Deleted"}

\* Describe the recorded instance: Stopping and Deleted are waited for, every
\* other state is deleted, Stopped included.
DescribeForDelete(w) ==
  LET i == cur[w].instanceID
      c == [cur[w] EXCEPT !.cond = FALSE]
  IN /\ pc[w] = "delDescribe"
     /\ UNCHANGED <<ecs, oss>>
     /\ \/ Fault /\ Finish(w, cur[w], TRUE)
        \/ /\ UNCHANGED faults
           /\ \/ /\ ~Described(i)
                 /\ Goto(w, "sweep", cur[w])
                 /\ Stay
              \/ /\ Described(i) /\ ecs[i].state \in Terminating
                 /\ Finish(w, c, TRUE)
              \/ /\ Described(i) /\ ecs[i].state \notin Terminating
                 /\ Goto(w, "deleteECS", c)
                 /\ target' = [target EXCEPT ![w] = i]
                 /\ UNCHANGED requeue

\* Mutant: no sweep.
Unrecorded_NoSweep(m) == {}

\* The instances a sweep by the machine's own name may find.
Unrecorded(m) == FindInstanceByTag(InfraName[m])

\* The recorded instance is gone; look for a tagged one that was not recorded.
SweepByTag(w) ==
  LET found == Unrecorded(key[w])
  IN /\ pc[w] = "sweep"
     /\ UNCHANGED <<ecs, oss>>
     /\ \/ Fault /\ Finish(w, cur[w], TRUE)
        \/ /\ UNCHANGED faults
           /\ \E i \in found : /\ Goto(w, "deleteECS", cur[w])
                               /\ target' = [target EXCEPT ![w] = i]
           /\ UNCHANGED requeue
        \/ /\ UNCHANGED faults
           /\ found = {} /\ cur[w].ignitionOSS
           /\ Goto(w, "cleanup", cur[w])
           /\ Stay
        \/ /\ UNCHANGED faults
           /\ found = {} /\ ~cur[w].ignitionOSS
           /\ Finish(w, [cur[w] EXCEPT !.finalizer = FALSE], FALSE)

\* deleteInstance and the deletion of a swept orphan.  Whether the call
\* succeeds or not, the machine is looked at again.
DeleteInstance(w) ==
  /\ pc[w] = "deleteECS"
  /\ UNCHANGED oss
  /\ Finish(w, cur[w], TRUE)
  /\ \/ DeleteECSInstance(target[w]) /\ UNCHANGED faults
     \/ Fault /\ UNCHANGED ecs
     \/ Fault /\ StopOnly(target[w])

\* cleanupOffloadedIgnition, best effort, then the finalizer goes.
CleanupIgnition(w) ==
  /\ pc[w] = "cleanup"
  /\ UNCHANGED ecs
  /\ Finish(w, [cur[w] EXCEPT !.finalizer = FALSE], FALSE)
  /\ \/ oss' = oss \ {key[w]} /\ UNCHANGED faults
     \/ Fault /\ UNCHANGED oss

-----------------------------------------------------------------------------
(* The deferred patch: three requests, each sent only when there is a      *)
(* difference, all attempted; an error of any of them fails the reconcile. *)

Answered(w, p) ==
  /\ pc' = [pc EXCEPT ![w] = p]
  /\ UNCHANGED <<ecs, oss, envVars, cache, queued, key, base, cur, target, harden>>

\* The API server holds new, or refuses the request or fails it.
Patch(w, accepted, new, p) ==
  /\ Answered(w, p)
  /\ \/ /\ accepted
        /\ obj' = [obj EXCEPT ![key[w]] = new]
        /\ UNCHANGED <<requeue, faults>>
     \/ /\ ~accepted
        /\ requeue' = [requeue EXCEPT ![w] = TRUE]
        /\ UNCHANGED <<obj, faults>>
     \/ /\ Fault
        /\ requeue' = [requeue EXCEPT ![w] = TRUE]
        /\ UNCHANGED obj

PatchConditions(w) ==
  LET o == obj[key[w]]
  IN /\ pc[w] = "patchConditions"
     /\ Patch(w, o.exists, PatchedConditions(o, base[w], cur[w]),
              AfterConditions(base[w], cur[w]))

\* One request for metadata and spec: the webhook admits all of it or nothing.
PatchSpec(w) ==
  LET o == obj[key[w]]
      new == PatchedSpec(o, base[w], cur[w])
  IN /\ pc[w] = "patchSpec"
     /\ Patch(w, o.exists /\ ValidateUpdate(o, new), new,
              AfterSpec(base[w], cur[w]))

\* That the object is missing is no error once its finalizer was removed.
PatchStatus(w) ==
  LET o == obj[key[w]]
      collected == ~o.exists /\ cur[w].deleting /\ ~cur[w].finalizer
  IN /\ pc[w] = "patchStatus"
     /\ \/ /\ ~collected
           /\ Patch(w, o.exists, PatchedStatus(o, base[w], cur[w]), "return")
        \/ /\ collected
           /\ Answered(w, "return")
           /\ UNCHANGED <<obj, requeue, faults>>

\* controller-runtime takes the result and the worker keeps nothing.
Return(w) ==
  /\ pc[w] = "return"
  /\ queued' = [queued EXCEPT ![w][key[w]] = @ \/ requeue[w]]
  /\ Done(w)
  /\ UNCHANGED <<ecs, apiVars, envVars, cache, faults>>

-----------------------------------------------------------------------------
(* The informers and the process. *)

Enqueue(m) == queued' = [w \in Workers |-> [queued[w] EXCEPT ![m] = TRUE]]

\* A change of the object reaches a worker's cache and, unless the object is
\* paused (ResourceNotPaused), its queue.
Deliver(w, m) ==
  /\ cache[w][m] # obj[m]
  /\ cache' = [cache EXCEPT ![w][m] = obj[m]]
  /\ queued' = [queued EXCEPT ![w][m] = @ \/ machine[m].link # "paused"]
  /\ UNCHANGED <<ecs, apiVars, envVars, localVars, faults>>

\* The process dies and restarts: it lists every object anew.
Crash(w) ==
  /\ Fault
  /\ Done(w)
  /\ cache' = [cache EXCEPT ![w] = obj]
  /\ queued' = [queued EXCEPT ![w] = [m \in Machines |-> TRUE]]
  /\ UNCHANGED <<ecs, apiVars, envVars>>

-----------------------------------------------------------------------------
(* The surroundings: users, CAPI core, the cluster controller, ECS. *)

\* Mutant: the owning Machine is not watched.
Event_NotWatched(m, r) ==
  /\ machine' = [machine EXCEPT ![m] = r]
  /\ UNCHANGED <<ecs, apiVars, spec, infra, workerVars, faults>>

\* An object changes that the controller watches, so the machine is queued.
Event(m, r) ==
  /\ machine' = [machine EXCEPT ![m] = r]
  /\ Enqueue(m)
  /\ UNCHANGED <<ecs, apiVars, spec, infra, cache, localVars, faults>>

SetOwner(m) ==
  /\ machine[m].link = "unowned"
  /\ Event(m, [machine[m] EXCEPT !.link = "linked"])
  /\ UNCHANGED pauses

SetDataSecret(m) ==
  /\ ~machine[m].dataSecret
  /\ Event(m, [machine[m] EXCEPT !.dataSecret = TRUE])
  /\ UNCHANGED pauses

\* CAPI core binds the Node whose providerID equals the machine's.
BindNode(m) ==
  /\ obj[m].exists /\ obj[m].provisioned /\ ~machine[m].nodeRef
  /\ obj[m].providerID # None
  /\ ecs[obj[m].providerID].joined
  /\ Event(m, [machine[m] EXCEPT !.nodeRef = TRUE])
  /\ UNCHANGED pauses

Unpause(m) ==
  /\ machine[m].link = "paused"
  /\ Event(m, [machine[m] EXCEPT !.link = "linked"])
  /\ UNCHANGED pauses

\* Nothing the controller watches changes: nothing is queued.
Silent(m, r) ==
  /\ machine' = [machine EXCEPT ![m] = r]
  /\ UNCHANGED <<ecs, apiVars, spec, infra, workerVars, faults>>

Pause(m) ==
  /\ machine[m].link = "linked" /\ pauses < MaxPauses
  /\ \E l \in {"paused", "clusterPaused"} :
        Silent(m, [machine[m] EXCEPT !.link = l])
  /\ pauses' = pauses + 1

UnpauseCluster(m) ==
  /\ machine[m].link = "clusterPaused"
  /\ Silent(m, [machine[m] EXCEPT !.link = "linked"])
  /\ UNCHANGED pauses

\* The owning Machine is gone while its infrastructure is still being deleted.
OwnerDeleted(m) ==
  /\ obj[m].deleting /\ machine[m].link # "ownerGone"
  /\ Silent(m, [machine[m] EXCEPT !.link = "ownerGone"])
  /\ UNCHANGED pauses

Infra == INSTANCE InfraCluster

\* The status of the AlibabaCloudCluster changes, as ClusterController lets it.
ClusterChanges ==
  /\ \/ (Infra!BecomesReady \/ Infra!DomainAppears) /\ UNCHANGED pauses
     \/ Infra!DomainGoes /\ pauses < MaxPauses /\ pauses' = pauses + 1
  /\ UNCHANGED <<ecs, apiVars, spec, machine, workerVars, faults>>

UserDeletes(m) ==
  /\ obj[m].exists /\ ~obj[m].deleting
  /\ obj' = [obj EXCEPT ![m] = MarkDeleted(@)]
  /\ UNCHANGED <<ecs, oss, envVars, workerVars, faults>>

\* What ECS does on its own.
ECSProgress(i) ==
  /\ Booted(i) \/ Halted(i) \/ Released(i)
  /\ UNCHANGED <<apiVars, envVars, workerVars, faults>>

NodeJoins(i) == Joined(i) /\ UNCHANGED <<apiVars, envVars, workerVars, faults>>

OperatorRestarts(i) ==
  Restarted(i) /\ UNCHANGED <<apiVars, envVars, workerVars, faults>>

CloudFault(i) ==
  /\ \/ Disrupted(i)
     \/ TokensExpire /\ TokenForgotten(i) /\ \E j \in Instances : ecs[j].owner = None
  /\ Fault
  /\ UNCHANGED <<apiVars, envVars, workerVars>>

-----------------------------------------------------------------------------

\* A reconcile of m is picked up.
Begin(w, m) ==
  \/ SkipReconcile(w, m) \/ WaitForPrerequisites(w, m)
  \/ PrerequisiteFails(w, m) \/ ProviderIDMismatch(w, m)
  \/ BeginDescribe(w, m) \/ BeginCreate(w, m)
  \/ ReleaseUnprovisioned(w, m) \/ RegionUnknown(w, m) \/ BeginDelete(w, m)

\* The reconcile under way advances by one request.
Advance(w) ==
  \/ Describe(w) \/ HardenMetadata(w)
  \/ OffloadUserData(w) \/ AdoptInstance(w) \/ LaunchInstance(w)
  \/ DescribeForDelete(w) \/ SweepByTag(w) \/ DeleteInstance(w)
  \/ CleanupIgnition(w)
  \/ PatchConditions(w) \/ PatchSpec(w) \/ PatchStatus(w) \/ Return(w)

Environment ==
  \/ \E m \in Machines :
        \/ SetOwner(m) \/ SetDataSecret(m) \/ BindNode(m)
        \/ Pause(m) \/ Unpause(m) \/ UnpauseCluster(m)
        \/ OwnerDeleted(m) \/ UserDeletes(m)
  \/ \E i \in Instances :
        ECSProgress(i) \/ NodeJoins(i) \/ OperatorRestarts(i) \/ CloudFault(i)
  \/ ClusterChanges

Next ==
  \/ \E w \in Workers : \E m \in Machines : Begin(w, m) \/ Deliver(w, m)
  \/ \E w \in Workers : Advance(w) \/ Crash(w)
  \/ Environment

Spec == Init /\ [][Next]_vars

(* The controller runs and its queue is first-in first-out, so no machine  *)
(* waits for ever; the informers deliver; ECS finishes what it started.    *)
(* Users, CAPI core and operators owe nothing.                             *)
Fairness ==
  /\ \A w \in Workers : WF_vars(Advance(w))
  /\ \A w \in Workers, m \in Machines :
        SF_vars(Begin(w, m)) /\ WF_vars(Deliver(w, m))
  /\ \A i \in Instances : WF_vars(ECSProgress(i))

FairSpec == Spec /\ Fairness
=============================================================================
