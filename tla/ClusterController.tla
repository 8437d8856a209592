-------------------------- MODULE ClusterController --------------------------
(***************************************************************************)
(* AlibabaCloudClusterReconciler and the webhook of its object, for one    *)
(* AlibabaCloudCluster: a reconcile reads the object from the informer     *)
(* cache, mirrors spec into status in memory and writes the difference     *)
(* back with the deferred patch; nothing is written before it.  Left out,  *)
(* as nobody acts on them: status.vpcID and the conditions of the two      *)
(* preflights (cloud-controller-manager, Cluster API core).                *)
(***************************************************************************)
EXTENDS Naturals, Sequences

CONSTANTS
  Zones, VSwitches, Hosts,   \* names; Blank is the empty one
  Blank,
  Ports,                     \* the ports users may write
  WorkerZone,                \* Machine.Spec.FailureDomain of a worker
  MaxDomains,                \* bound on the length of spec.failureDomains
  MaxEdits,                  \* bound on edits of the spec and pauses
  MaxFaults                  \* bound on failed calls and crashes

ASSUME ClusterNames ==
  Blank \notin Zones \cup VSwitches \cup Hosts /\ WorkerZone \in Zones
ASSUME ClusterBounds ==
  Ports \subseteq Nat /\ {MaxDomains, MaxEdits, MaxFaults} \subseteq Nat

VARIABLES
  cluster,        \* the object in the API server
  clusterPaused,  \* the owning Cluster has spec.paused
  cache, queued,  \* the controller's informer cache and work queue
  pc,             \* the next request of the deferred patch, "idle" between reconciles
  base, cur,      \* the object as it was read, and in memory
  requeue,        \* the reconcile ends in an error or RequeueAfter
  edits, faults

workerVars == <<cache, queued, pc, base, cur, requeue>>
vars       == <<cluster, clusterPaused, workerVars, edits, faults>>

FailureDomain == [zoneID: Zones \cup {Blank}, vSwitchID: VSwitches \cup {Blank}]

FailureDomains == UNION {[1..n -> FailureDomain] : n \in 0..MaxDomains}

Endpoint == [host: Hosts \cup {Blank}, port: Ports \cup {0}]

NoEndpoint == [host |-> Blank, port |-> 0]

SpecType == [failureDomains: FailureDomains, endpoint: Endpoint]

(* owned: the Cluster is set as owner; paused: the pause annotation; cond:  *)
(* the Ready condition is True; ready: Status.Ready and, set with it,      *)
(* Status.Initialization.Provisioned.                                      *)
ClusterObject ==
  [exists: BOOLEAN, deleting: BOOLEAN, finalizer: BOOLEAN, owned: BOOLEAN,
   paused: BOOLEAN, spec: SpecType, failureDomains: FailureDomains,
   endpoint: Endpoint, cond: BOOLEAN, ready: BOOLEAN]

NewCluster(s) ==
  [exists |-> TRUE, deleting |-> FALSE, finalizer |-> FALSE, owned |-> FALSE,
   paused |-> FALSE, spec |-> s, failureDomains |-> <<>>,
   endpoint |-> NoEndpoint, cond |-> FALSE, ready |-> FALSE]

\* The local copy between reconciles.
NoCluster == NewCluster([failureDomains |-> <<>>, endpoint |-> NoEndpoint])

ClusterTypeOK ==
  /\ {cluster, cache, base, cur} \subseteq ClusterObject
  /\ {clusterPaused, queued, requeue} \subseteq BOOLEAN
  /\ pc \in {"idle", "patchConditions", "patchFinalizer", "patchStatus", "return"}
  /\ edits \in 0..MaxEdits
  /\ faults \in 0..MaxFaults

-----------------------------------------------------------------------------
(* The webhook. *)

ValidEndpoint(e) ==
  e.host # Blank \/ e.port # 0 => e.host # Blank /\ e.port \in 1..65535

\* Mutant: a zone may be listed twice.
validateClusterSpec_Duplicates(s) ==
  /\ ValidEndpoint(s.endpoint)
  /\ \A i \in DOMAIN s.failureDomains :
        s.failureDomains[i].zoneID # Blank /\ s.failureDomains[i].vSwitchID # Blank

validateClusterSpec(s) ==
  /\ ValidEndpoint(s.endpoint)
  /\ \A i \in DOMAIN s.failureDomains :
        s.failureDomains[i].zoneID # Blank /\ s.failureDomains[i].vSwitchID # Blank
  /\ \A i, j \in DOMAIN s.failureDomains :
        s.failureDomains[i].zoneID = s.failureDomains[j].zoneID => i = j

Init ==
  /\ \E s \in SpecType : validateClusterSpec(s) /\ cluster = NewCluster(s)
  /\ clusterPaused = FALSE
  /\ cache = cluster /\ base = NoCluster /\ cur = NoCluster
  /\ queued = TRUE
  /\ pc = "idle"
  /\ requeue = FALSE
  /\ edits = 0 /\ faults = 0

-----------------------------------------------------------------------------
(* The edits of a reconcile, in memory. *)

\* Mutant: the vSwitchID attribute is left out.
Published_NoAttributes(o) ==
  [i \in DOMAIN o.spec.failureDomains |-> [zoneID |-> o.spec.failureDomains[i].zoneID]]

\* Mutant: the zones are published once, as reconcileVPC does with the VPC.
Published_Once(o) ==
  IF o.failureDomains # <<>> THEN o.failureDomains ELSE o.spec.failureDomains

\* reconcileFailureDomains: an empty list publishes nothing.
Published(o) ==
  IF o.spec.failureDomains = <<>> THEN o.failureDomains ELSE o.spec.failureDomains

\* reconcileControlPlaneEndpoint.
Mirrored(o) == IF o.spec.endpoint.host = Blank THEN o.endpoint ELSE o.spec.endpoint

\* Mutant: the gate looks at nothing.
HasEndpoint_Always(o) == TRUE

\* The gate of reconcileNormal before Ready.
HasEndpoint(o) == o.endpoint.host # Blank

\* Mutant: an error also takes Status.Ready back.
NotReady_Withdrawn(o) == [o EXCEPT !.cond = FALSE, !.ready = FALSE]

\* An error or a wait: the condition changes, Status.Ready stays.
NotReady(o) == [o EXCEPT !.cond = FALSE]

WithFinalizer(o) == [o EXCEPT !.finalizer = TRUE]

Reconciled(o) ==
  [WithFinalizer(o) EXCEPT !.failureDomains = Published(o), !.endpoint = Mirrored(o)]

-----------------------------------------------------------------------------
(* The deferred patch. *)

Fault == faults < MaxFaults /\ faults' = faults + 1

\* What a request for the fields fs makes of the stored object: those that
\* were changed in memory are replaced.
Patched(o, fs) ==
  [f \in DOMAIN o |-> IF f \in fs /\ cur[f] # base[f] THEN cur[f] ELSE o[f]]

Statuses == {"failureDomains", "endpoint", "ready"}

Differ(b, c, fs) == \E f \in fs : b[f] # c[f]

AfterFinalizer(b, c) == IF Differ(b, c, Statuses) THEN "patchStatus" ELSE "return"

AfterConditions(b, c) ==
  IF Differ(b, c, {"finalizer"}) THEN "patchFinalizer" ELSE AfterFinalizer(b, c)

FirstPatch(b, c) ==
  IF Differ(b, c, {"cond"}) THEN "patchConditions" ELSE AfterConditions(b, c)

\* The API server drops an object that is being deleted with its last finalizer.
Collect(o) == [o EXCEPT !.exists = @ /\ ~(o.deleting /\ ~o.finalizer)]

\* Mutant: an error of the patch is not returned.
PatchFails_Ignored == UNCHANGED <<cluster, requeue>>

\* The request fails, or its object is gone: the reconcile returns the error.
PatchFails == requeue' = TRUE /\ UNCHANGED cluster

PatchRequest(p, fs, q) ==
  /\ pc = p
  /\ pc' = q
  /\ UNCHANGED <<clusterPaused, cache, queued, base, cur, edits>>
  /\ \/ /\ cluster.exists
        /\ cluster' = Collect(Patched(cluster, fs))
        /\ UNCHANGED <<requeue, faults>>
     \/ ~cluster.exists /\ PatchFails /\ UNCHANGED faults
     \/ Fault /\ PatchFails

PatchConditions == PatchRequest("patchConditions", {"cond"}, AfterConditions(base, cur))

PatchFinalizer == PatchRequest("patchFinalizer", {"finalizer"}, AfterFinalizer(base, cur))

PatchStatus == PatchRequest("patchStatus", Statuses, "return")

Return ==
  /\ pc = "return"
  /\ pc' = "idle"
  /\ queued' = (queued \/ requeue)
  /\ requeue' = FALSE
  /\ base' = NoCluster /\ cur' = NoCluster
  /\ UNCHANGED <<cluster, clusterPaused, cache, edits, faults>>

-----------------------------------------------------------------------------
(* Reconcile. *)

Pick(c, again) ==
  /\ pc = "idle" /\ queued
  /\ pc' = FirstPatch(cache, c)
  /\ base' = cache
  /\ cur' = c
  /\ requeue' = again
  /\ queued' = FALSE
  /\ UNCHANGED <<cluster, clusterPaused, cache, edits>>

Skipped == ~cache.exists \/ ~cache.owned \/ cache.paused \/ clusterPaused

\* The object is gone, has no owner yet, or it or its Cluster is paused.
Skip ==
  /\ pc = "idle" /\ queued
  /\ Skipped
  /\ queued' = FALSE
  /\ UNCHANGED <<cluster, clusterPaused, cache, pc, base, cur, requeue, edits, faults>>

\* The object or its owner cannot be read: the error puts it back in the queue.
ReadFails ==
  /\ pc = "idle" /\ queued
  /\ Fault
  /\ UNCHANGED <<cluster, clusterPaused, workerVars, edits>>

\* reconcileNormal: the SDK client cannot be built.
ClientFails ==
  /\ ~Skipped /\ ~cache.deleting
  /\ Pick(NotReady(WithFinalizer(cache)), TRUE)
  /\ Fault

\* ... no endpoint is known: look again in a while.
EndpointMissing ==
  /\ ~Skipped /\ ~cache.deleting
  /\ ~HasEndpoint(Reconciled(cache))
  /\ Pick(NotReady(Reconciled(cache)), TRUE)
  /\ UNCHANGED faults

\* ... all is there.
ClusterReady ==
  /\ ~Skipped /\ ~cache.deleting
  /\ HasEndpoint(Reconciled(cache))
  /\ Pick([Reconciled(cache) EXCEPT !.cond = TRUE, !.ready = TRUE], FALSE)
  /\ UNCHANGED faults

\* reconcileDelete: the load balancer and the VPC are not the provider's, so
\* only the finalizer goes.
ReconcileDelete ==
  /\ ~Skipped /\ cache.deleting
  /\ Pick([cache EXCEPT !.finalizer = FALSE], FALSE)
  /\ UNCHANGED faults

-----------------------------------------------------------------------------
(* The informer, the process, and who else writes. *)

\* A change of the object reaches the cache and, unless it is paused, the queue.
Deliver ==
  /\ cache # cluster
  /\ cache' = cluster
  /\ queued' = (queued \/ ~cluster.paused)
  /\ UNCHANGED <<cluster, clusterPaused, pc, base, cur, requeue, edits, faults>>

Crash ==
  /\ Fault
  /\ cache' = cluster /\ queued' = TRUE
  /\ pc' = "idle" /\ requeue' = FALSE
  /\ base' = NoCluster /\ cur' = NoCluster
  /\ UNCHANGED <<cluster, clusterPaused, edits>>

Write(o) ==
  /\ cluster.exists
  /\ cluster' = o
  /\ UNCHANGED <<clusterPaused, workerVars, faults>>

Edit == edits < MaxEdits /\ edits' = edits + 1

\* CAPI core sets the owner.
SetOwner ==
  ~cluster.owned /\ Write([cluster EXCEPT !.owned = TRUE]) /\ UNCHANGED edits

\* A user writes a spec that the webhook admits.
EditSpec ==
  /\ Edit
  /\ \E s \in SpecType : /\ validateClusterSpec(s) /\ s # cluster.spec
                         /\ Write([cluster EXCEPT !.spec = s])

PauseObject == Edit /\ ~cluster.paused /\ Write([cluster EXCEPT !.paused = TRUE])

UnpauseObject ==
  cluster.paused /\ Write([cluster EXCEPT !.paused = FALSE]) /\ UNCHANGED edits

DeleteCluster ==
  /\ ~cluster.deleting
  /\ Write(Collect([cluster EXCEPT !.deleting = TRUE]))
  /\ UNCHANGED edits

PauseCluster ==
  /\ Edit /\ ~clusterPaused
  /\ clusterPaused' = TRUE
  /\ UNCHANGED <<cluster, workerVars, faults>>

\* Mutant: the Cluster is not watched.
UnpauseCluster_NotWatched ==
  /\ clusterPaused
  /\ clusterPaused' = FALSE
  /\ UNCHANGED <<cluster, workerVars, edits, faults>>

\* ClusterUnpaused and enqueueAlibabaCloudClusterForCluster.
UnpauseCluster ==
  /\ clusterPaused
  /\ clusterPaused' = FALSE
  /\ queued' = TRUE
  /\ UNCHANGED <<cluster, cache, pc, base, cur, requeue, edits, faults>>

-----------------------------------------------------------------------------

Begin == Skip \/ ReadFails \/ ClientFails \/ EndpointMissing \/ ClusterReady \/ ReconcileDelete

Advance == PatchConditions \/ PatchFinalizer \/ PatchStatus \/ Return

Users == \/ SetOwner \/ EditSpec \/ DeleteCluster
         \/ PauseObject \/ UnpauseObject \/ PauseCluster \/ UnpauseCluster

Next == Begin \/ Advance \/ Deliver \/ Crash \/ Users

Spec == Init /\ [][Next]_vars

(* The worker takes what is queued and goes on, the informer delivers.      *)
(* Nothing is owed by users.                                               *)
FairSpec == Spec /\ WF_vars(Begin) /\ WF_vars(Advance) /\ WF_vars(Deliver)

-----------------------------------------------------------------------------
(* What it promises. *)

(* The infrastructure-cluster contract: status.controlPlaneEndpoint is set  *)
(* whenever status.ready is, also after the spec's endpoint was taken away  *)
(* and whatever stale copy the status was patched from.                     *)
ReadyIsReachable == cluster.ready => cluster.endpoint.host # Blank

(* The published failure domains give every zone one vSwitch, so that       *)
(* resolveFailureDomain's first match is the only one.                      *)
DomainsUnambiguous ==
  \A i, j \in DOMAIN cluster.failureDomains :
     cluster.failureDomains[i].zoneID = cluster.failureDomains[j].zoneID => i = j

Active == cluster.owned /\ ~cluster.paused /\ ~clusterPaused

Wanted == Active /\ ~cluster.deleting

(* A non-empty spec.failureDomains is published, although the status may    *)
(* first be overwritten from a copy that predates an edit.                  *)
DomainsPublished ==
  (Wanted /\ cluster.spec.failureDomains # <<>>) ~>
     \/ cluster.failureDomains = cluster.spec.failureDomains
     \/ cluster.spec.failureDomains = <<>> \/ ~Wanted

(* A cluster with an endpoint becomes Ready, or is paused or deleted, also  *)
(* one whose Cluster was paused when its reconcile came.                    *)
ReadyReached ==
  (Wanted /\ cluster.spec.endpoint.host # Blank) ~>
     (cluster.ready \/ cluster.spec.endpoint.host = Blank \/ ~Wanted)

(* A deleted cluster goes away unless it is paused: the removal of the      *)
(* finalizer is repeated when its request failed.                           *)
ClusterDeletionCompletes ==
  (Active /\ cluster.deleting) ~> (~cluster.exists \/ ~Active)

\* What the machine controller makes of the status.
InfraStatus ==
  IF ~cluster.ready THEN "notReady"
  ELSE IF \E i \in DOMAIN cluster.failureDomains :
             cluster.failureDomains[i].zoneID = WorkerZone
       THEN "ready" ELSE "noDomain"

Infra == INSTANCE InfraCluster WITH infra <- InfraStatus

(* The cluster controller implements what MachineController assumes of it:  *)
(* Ready is never taken back, and a failure domain comes and goes.          *)
ImplementsInfraCluster == Infra!Spec
=============================================================================
