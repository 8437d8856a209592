----------------------- MODULE ClusterControllerProofs -----------------------
(***************************************************************************)
(* The cluster controller keeps the infrastructure-cluster contract and    *)
(* implements what the machine controller assumes of it.                   *)
(***************************************************************************)
EXTENDS ClusterController, TLAPS

-----------------------------------------------------------------------------
(* Types. *)

(* The empty list and the empty endpoint are well typed.                   *)
LEMMA EmptyTyped == <<>> \in FailureDomains /\ NoEndpoint \in Endpoint
<1>1. <<>> \in [1..0 -> FailureDomain]
  OBVIOUS
<1>2. 0 \in 0..MaxDomains
  BY ClusterBounds
<1> QED
  BY <1>1, <1>2 DEF FailureDomains, NoEndpoint, Endpoint

(* A new object is well typed.                                             *)
LEMMA NewTyped ==
  ASSUME NEW s \in SpecType
  PROVE  NewCluster(s) \in ClusterObject
  BY EmptyTyped DEF NewCluster, ClusterObject

(* So is the copy a worker holds between reconciles.                       *)
LEMMA NoneTyped == NoCluster \in ClusterObject
  BY EmptyTyped, NewTyped DEF NoCluster, SpecType

(* The edits of a reconcile and of the API server keep the type.           *)
LEMMA EditsTyped ==
  ASSUME NEW o \in ClusterObject
  PROVE  /\ NotReady(o) \in ClusterObject
         /\ WithFinalizer(o) \in ClusterObject
         /\ Reconciled(o) \in ClusterObject
         /\ Collect(o) \in ClusterObject
         /\ [o EXCEPT !.finalizer = FALSE] \in ClusterObject
         /\ [o EXCEPT !.cond = TRUE, !.ready = TRUE] \in ClusterObject
         /\ [o EXCEPT !.deleting = TRUE] \in ClusterObject
         /\ [o EXCEPT !.owned = TRUE] \in ClusterObject
         /\ [o EXCEPT !.paused = TRUE] \in ClusterObject
         /\ [o EXCEPT !.paused = FALSE] \in ClusterObject
         /\ \A s \in SpecType : [o EXCEPT !.spec = s] \in ClusterObject
<1>1. /\ o.spec.failureDomains \in FailureDomains /\ o.spec.endpoint \in Endpoint
      /\ o.failureDomains \in FailureDomains /\ o.endpoint \in Endpoint
  BY DEF ClusterObject, SpecType
<1>2. Published(o) \in FailureDomains /\ Mirrored(o) \in Endpoint
  BY <1>1 DEF Published, Mirrored
<1>3. Reconciled(o) \in ClusterObject
  BY <1>2 DEF Reconciled, WithFinalizer, ClusterObject
<1> QED
  BY <1>3 DEF NotReady, WithFinalizer, Collect, ClusterObject

(* A request replaces each of its fields by the value in memory, when that *)
(* was changed, and no other.                                              *)
LEMMA PatchedFields ==
  ASSUME NEW o \in ClusterObject, NEW fs,
         base \in ClusterObject, cur \in ClusterObject
  PROVE  /\ Patched(o, fs) \in ClusterObject
         /\ Patched(o, fs).ready \in {o.ready, cur.ready}
         /\ Patched(o, fs).endpoint \in {o.endpoint, cur.endpoint}
         /\ Patched(o, fs).ready # o.ready =>
              "ready" \in fs /\ cur.ready # base.ready
         /\ Patched(o, fs).endpoint # o.endpoint => cur.endpoint # base.endpoint
         /\ "endpoint" \in fs /\ cur.endpoint # base.endpoint =>
              Patched(o, fs).endpoint = cur.endpoint
  BY DEF Patched, ClusterObject

(* Well-typed states lead to well-typed states.                            *)
LEMMA TypeStep ==
  ASSUME ClusterTypeOK, [Next]_vars
  PROVE  ClusterTypeOK'
<1> USE DEF ClusterTypeOK
<1>1. ASSUME NEW c \in ClusterObject, NEW again \in BOOLEAN, Pick(c, again),
             UNCHANGED faults \/ Fault
      PROVE  ClusterTypeOK'
  <2>1. FirstPatch(cache, c) \in {"patchConditions", "patchFinalizer", "patchStatus", "return"}
    BY DEF FirstPatch, AfterConditions, AfterFinalizer
  <2>2. faults' \in 0..MaxFaults
    BY <1>1, ClusterBounds DEF Fault
  <2> QED
    BY <1>1, <2>1, <2>2 DEF Pick
<1>2. CASE Begin
  <2>1. CASE Skip
    BY <2>1 DEF Skip
  <2>3. CASE ReadFails
    BY <2>3, ClusterBounds DEF ReadFails, Fault, workerVars
  <2>2. CASE ClientFails \/ EndpointMissing \/ ClusterReady \/ ReconcileDelete
    BY <1>1, <2>2, EditsTyped DEF ClientFails, EndpointMissing, ClusterReady,
                                  ReconcileDelete
  <2> QED
    BY <1>2, <2>1, <2>2, <2>3 DEF Begin
<1>3. ASSUME NEW p, NEW fs, NEW q, PatchRequest(p, fs, q),
             q \in {"patchFinalizer", "patchStatus", "return"}
      PROVE  ClusterTypeOK'
  <2>1. Collect(Patched(cluster, fs)) \in ClusterObject
    BY PatchedFields, EditsTyped
  <2>2. cluster' \in ClusterObject /\ requeue' \in BOOLEAN
    BY <1>3, <2>1 DEF PatchRequest, PatchFails
  <2>3. faults' \in 0..MaxFaults
    BY <1>3, ClusterBounds DEF PatchRequest, Fault
  <2> QED
    BY <1>3, <2>2, <2>3 DEF PatchRequest
<1>4. CASE Advance
  <2>1. AfterConditions(base, cur) \in {"patchFinalizer", "patchStatus", "return"}
        /\ AfterFinalizer(base, cur) \in {"patchStatus", "return"}
    BY DEF AfterConditions, AfterFinalizer
  <2>2. CASE Return
    BY <2>2, NoneTyped DEF Return
  <2>3. CASE PatchConditions
    BY <1>3, <2>1, <2>3 DEF PatchConditions
  <2>4. CASE PatchFinalizer
    BY <1>3, <2>1, <2>4 DEF PatchFinalizer
  <2>5. CASE PatchStatus
    BY <1>3, <2>5 DEF PatchStatus
  <2> QED
    BY <1>4, <2>2, <2>3, <2>4, <2>5 DEF Advance
<1>5. CASE Deliver
  BY <1>5 DEF Deliver
<1>6. CASE Crash
  <2>1. {cluster', cache', base', cur'} \subseteq ClusterObject
    BY <1>6, NoneTyped DEF Crash
  <2>2. faults' \in 0..MaxFaults
    BY <1>6, ClusterBounds DEF Crash, Fault
  <2> QED
    BY <1>6, <2>1, <2>2 DEF Crash
<1>7. ASSUME NEW o \in ClusterObject, Write(o), edits' \in 0..MaxEdits
      PROVE  ClusterTypeOK'
  BY <1>7 DEF Write, workerVars
<1>8. CASE Users
  <2>1. edits' \in 0..MaxEdits
    BY <1>8, ClusterBounds DEF Users, SetOwner, EditSpec, DeleteCluster, PauseObject,
       UnpauseObject, PauseCluster, UnpauseCluster, Edit
  <2>2. CASE SetOwner
    BY <1>7, <2>1, <2>2, EditsTyped DEF SetOwner
  <2>3. CASE EditSpec
    BY <1>7, <2>1, <2>3, EditsTyped DEF EditSpec
  <2>4. CASE DeleteCluster
    BY <1>7, <2>1, <2>4, EditsTyped DEF DeleteCluster
  <2>5. CASE PauseObject \/ UnpauseObject
    BY <1>7, <2>1, <2>5, EditsTyped DEF PauseObject, UnpauseObject
  <2>6. CASE PauseCluster
    BY <2>1, <2>6 DEF PauseCluster, workerVars
  <2>7. CASE UnpauseCluster
    BY <2>1, <2>7 DEF UnpauseCluster
  <2> QED
    BY <1>8, <2>2, <2>3, <2>4, <2>5, <2>6, <2>7 DEF Users
<1>9. CASE UNCHANGED vars
  BY <1>9 DEF vars, workerVars
<1> QED
  BY <1>2, <1>4, <1>5, <1>6, <1>8, <1>9 DEF Next

(* Every reachable state is well typed: each copy of the object a reconcile *)
(* holds has the fields and values of the API, for any names and bounds.    *)
THEOREM ClusterTypeCorrect == Spec => []ClusterTypeOK
<1>1. Init => ClusterTypeOK
  <2> SUFFICES ASSUME Init PROVE ClusterTypeOK
    OBVIOUS
  <2>1. {cluster, cache, base, cur} \subseteq ClusterObject
    BY NewTyped, NoneTyped DEF Init
  <2>2. 0 \in 0..MaxEdits /\ 0 \in 0..MaxFaults
    BY ClusterBounds
  <2> QED
    BY <2>1, <2>2 DEF Init, ClusterTypeOK
<1>2. ClusterTypeOK /\ [Next]_vars => ClusterTypeOK'
  BY TypeStep
<1> QED
  BY <1>1, <1>2, PTL DEF Spec

-----------------------------------------------------------------------------
(* The inductive invariant.  A copy is patched from long after it was read, *)
(* so it speaks of all four copies and of how an older one relates to a     *)
(* newer one: endpoints and Ready only ever appear.                         *)

Reachable(o) == o.ready => HasEndpoint(o)

EndpointsAppear ==
  /\ HasEndpoint(cache) => HasEndpoint(cluster)
  /\ HasEndpoint(base) => HasEndpoint(cluster)
  /\ cur.endpoint # base.endpoint => HasEndpoint(cur)
  /\ base.ready => cur.ready

ReachInv ==
  /\ Reachable(cluster) /\ Reachable(cache) /\ Reachable(base) /\ Reachable(cur)
  /\ EndpointsAppear

(* A worker between two reconciles holds nothing that could be patched.     *)
LEMMA NoneHeld == ~HasEndpoint(NoCluster) /\ ~NoCluster.ready
  BY DEF NoCluster, NewCluster, NoEndpoint, HasEndpoint

(* What reconcileNormal does in memory never loses an endpoint or Ready.    *)
LEMMA EditsKeep ==
  ASSUME NEW o \in ClusterObject, Reachable(o)
  PROVE  /\ Reconciled(o).endpoint # o.endpoint => HasEndpoint(Reconciled(o))
         /\ HasEndpoint(o) => HasEndpoint(Reconciled(o))
         /\ Reconciled(o).ready = o.ready
  BY DEF Reconciled, WithFinalizer, Mirrored, HasEndpoint, ClusterObject

(* A request of the deferred patch keeps the contract, and Ready.           *)
LEMMA RequestKeeps ==
  ASSUME ClusterTypeOK, ReachInv,
         NEW p, NEW fs, NEW q, PatchRequest(p, fs, q), "ready" \in fs => "endpoint" \in fs
  PROVE  ReachInv' /\ (cluster.ready => cluster'.ready)
<1> DEFINE new == Patched(cluster, fs)
<1>0. cluster \in ClusterObject /\ base \in ClusterObject /\ cur \in ClusterObject
  BY DEF ClusterTypeOK
<1>1. cluster'.ready \in {cluster.ready, new.ready} /\ cluster' \in {cluster, Collect(new)}
      /\ Collect(new).ready = new.ready /\ Collect(new).endpoint = new.endpoint
  BY <1>0, PatchedFields DEF PatchRequest, PatchFails, Collect, ClusterObject
<1>2. /\ new.ready \in {cluster.ready, cur.ready}
      /\ new.endpoint \in {cluster.endpoint, cur.endpoint}
      /\ new.ready # cluster.ready => "ready" \in fs /\ cur.ready # base.ready
      /\ new.endpoint # cluster.endpoint => cur.endpoint # base.endpoint
      /\ "endpoint" \in fs /\ cur.endpoint # base.endpoint => new.endpoint = cur.endpoint
  BY <1>0, PatchedFields
<1>3. HasEndpoint(cluster) => HasEndpoint(new)
  BY <1>2 DEF ReachInv, EndpointsAppear, HasEndpoint
<1>4. cluster.ready => new.ready
  BY <1>0, <1>2 DEF ReachInv, EndpointsAppear, ClusterObject
<1>5. Reachable(new)
  <2>1. CASE new.ready = cluster.ready
    BY <1>3, <2>1 DEF ReachInv, Reachable
  <2>2. CASE new.ready # cluster.ready
    <3>1. HasEndpoint(cur)  \/ ~new.ready
      BY <1>2, <2>2 DEF ReachInv, Reachable
    <3>2. cur.endpoint = base.endpoint => HasEndpoint(new) \/ ~new.ready
      BY <1>3, <3>1 DEF ReachInv, EndpointsAppear, HasEndpoint
    <3> QED
      BY <1>2, <2>2, <3>1, <3>2 DEF Reachable, HasEndpoint
  <2> QED
    BY <2>1, <2>2
<1>6. /\ Reachable(cluster') /\ (HasEndpoint(cluster) => HasEndpoint(cluster'))
      /\ (cluster.ready => cluster'.ready)
  BY <1>1, <1>3, <1>4, <1>5 DEF ReachInv, Reachable, HasEndpoint
<1>7. UNCHANGED <<cache, base, cur>>
  BY DEF PatchRequest
<1> QED
  BY <1>6, <1>7 DEF ReachInv, EndpointsAppear, Reachable, HasEndpoint

(* Every step keeps the contract, and Ready.                                *)
LEMMA ReachStep ==
  ASSUME ClusterTypeOK, ReachInv, [Next]_vars
  PROVE  ReachInv' /\ (cluster.ready => cluster'.ready)
<1>0. {cluster, cache, base, cur} \subseteq ClusterObject
  BY DEF ClusterTypeOK
<1>1. ASSUME NEW c, NEW again, Pick(c, again), Reachable(c),
             c.endpoint # cache.endpoint => HasEndpoint(c), cache.ready => c.ready
      PROVE  ReachInv' /\ cluster' = cluster
  BY <1>1 DEF Pick, ReachInv, EndpointsAppear, Reachable, HasEndpoint
<1>2. CASE Begin
  <2> USE <1>0 DEF ReachInv
  <2>0. Reconciled(cache) \in ClusterObject
    BY EditsTyped
  <2>1. CASE Skip
    BY <2>1 DEF Skip, EndpointsAppear, Reachable, HasEndpoint
  <2>6. CASE ReadFails
    BY <2>6 DEF ReadFails, workerVars, EndpointsAppear, Reachable, HasEndpoint
  <2>2. CASE ClientFails
    <3> DEFINE c == NotReady(WithFinalizer(cache))
    <3>1. c.ready = cache.ready /\ c.endpoint = cache.endpoint
      BY DEF NotReady, WithFinalizer, ClusterObject
    <3> QED
      BY <1>1, <2>2, <3>1 DEF ClientFails, Reachable, HasEndpoint
  <2>3. CASE EndpointMissing
    <3> DEFINE c == NotReady(Reconciled(cache))
    <3>1. c.ready = Reconciled(cache).ready /\ c.endpoint = Reconciled(cache).endpoint
      BY <2>0 DEF NotReady, ClusterObject
    <3>2. /\ Reachable(c) /\ c.ready = cache.ready
          /\ c.endpoint # cache.endpoint => HasEndpoint(c)
      BY <3>1, EditsKeep DEF Reachable, HasEndpoint
    <3> QED
      BY <1>1, <2>3, <3>2 DEF EndpointMissing
  <2>4. CASE ClusterReady
    <3> DEFINE c == [Reconciled(cache) EXCEPT !.cond = TRUE, !.ready = TRUE]
    <3>1. c.ready /\ c.endpoint = Reconciled(cache).endpoint
      BY <2>0 DEF ClusterObject
    <3>2. Reachable(c) /\ HasEndpoint(c)
      BY <2>4, <3>1 DEF ClusterReady, Reachable, HasEndpoint
    <3> QED
      BY <1>1, <2>4, <3>1, <3>2 DEF ClusterReady
  <2>5. CASE ReconcileDelete
    <3> DEFINE c == [cache EXCEPT !.finalizer = FALSE]
    <3>1. c.ready = cache.ready /\ c.endpoint = cache.endpoint
      BY DEF ClusterObject
    <3> QED
      BY <1>1, <2>5, <3>1 DEF ReconcileDelete, Reachable, HasEndpoint
  <2> QED
    BY <1>2, <2>1, <2>2, <2>3, <2>4, <2>5, <2>6 DEF Begin
<1>3. CASE Advance
  <2>1. CASE PatchConditions
    BY <2>1, RequestKeeps DEF PatchConditions
  <2>2. CASE PatchFinalizer
    BY <2>2, RequestKeeps DEF PatchFinalizer
  <2>3. CASE PatchStatus
    BY <2>3, RequestKeeps DEF PatchStatus, Statuses
  <2>4. CASE Return
    BY <2>4, NoneHeld DEF Return, ReachInv, EndpointsAppear, Reachable, HasEndpoint
  <2> QED
    BY <1>3, <2>1, <2>2, <2>3, <2>4 DEF Advance
<1>4. CASE Deliver
  BY <1>4 DEF Deliver, ReachInv, EndpointsAppear, Reachable, HasEndpoint
<1>5. CASE Crash
  BY <1>5, NoneHeld DEF Crash, ReachInv, EndpointsAppear, Reachable, HasEndpoint
<1>6. CASE Users
  <2>1. cluster'.ready = cluster.ready /\ cluster'.endpoint = cluster.endpoint
    BY <1>0, <1>6 DEF Users, SetOwner, EditSpec, DeleteCluster, PauseObject, UnpauseObject,
       PauseCluster, UnpauseCluster, Write, Collect, ClusterObject
  <2>2. UNCHANGED <<cache, base, cur>>
    BY <1>6 DEF Users, SetOwner, EditSpec, DeleteCluster, PauseObject, UnpauseObject,
       PauseCluster, UnpauseCluster, Write, workerVars
  <2> QED
    BY <2>1, <2>2 DEF ReachInv, EndpointsAppear, Reachable, HasEndpoint
<1>7. CASE UNCHANGED vars
  BY <1>7 DEF vars, workerVars, ReachInv, EndpointsAppear, Reachable, HasEndpoint
<1> QED
  BY <1>2, <1>3, <1>4, <1>5, <1>6, <1>7 DEF Next

(* It holds at the start, and so always.                                    *)
LEMMA ReachAlways == Spec => []ReachInv
<1>1. Init => ReachInv
  BY NoneHeld DEF Init, ReachInv, EndpointsAppear, Reachable, NewCluster
<1>2. ClusterTypeOK /\ ReachInv /\ [Next]_vars => ReachInv'
  BY ReachStep
<1> QED
  BY <1>1, <1>2, ClusterTypeCorrect, PTL DEF Spec

(* status.controlPlaneEndpoint is set whenever status.ready is: no stale    *)
(* copy, crash or lost request of the deferred patch separates the two,     *)
(* and no edit of the spec does.                                            *)
THEOREM ReadyNeedsEndpoint == Spec => []ReadyIsReachable
<1>1. ReachInv => ReadyIsReachable
  BY DEF ReachInv, Reachable, HasEndpoint, ReadyIsReachable
<1> QED
  BY <1>1, ReachAlways, PTL

(* The machine controller may rely on Status.Ready: it is never taken back, *)
(* whatever copy the status is patched from.  What a worker then sees of    *)
(* the failure domains only appears and goes.                               *)
THEOREM ClusterImplements == Spec => ImplementsInfraCluster
<1>1. Init => Infra!Init
  BY DEF Init, NewCluster, Infra!Init, InfraStatus
<1>2. ClusterTypeOK /\ ReachInv /\ [Next]_vars => [Infra!Next]_InfraStatus
  <2> SUFFICES ASSUME ClusterTypeOK, ReachInv, [Next]_vars
               PROVE  [Infra!Next]_InfraStatus
    OBVIOUS
  <2>1. cluster.ready => cluster'.ready
    BY ReachStep
  <2>2. InfraStatus \in {"notReady", "noDomain", "ready"}
        /\ InfraStatus' \in {"notReady", "noDomain", "ready"}
    BY DEF InfraStatus
  <2>3. InfraStatus # "notReady" => InfraStatus' # "notReady"
    BY <2>1 DEF InfraStatus
  <2> QED
    BY <2>2, <2>3 DEF Infra!Next, Infra!BecomesReady, Infra!DomainAppears, Infra!DomainGoes
<1> QED
  BY <1>1, <1>2, ClusterTypeCorrect, ReachAlways, PTL DEF Spec, ImplementsInfraCluster, Infra!Spec

-----------------------------------------------------------------------------
(* The webhook's guarantee carries over to every copy of the object.        *)

OneVSwitch(l) == \A i, j \in DOMAIN l : l[i].zoneID = l[j].zoneID => i = j

Admitted(o) == OneVSwitch(o.spec.failureDomains) /\ OneVSwitch(o.failureDomains)

AdmittedInv == Admitted(cluster) /\ Admitted(cache) /\ Admitted(base) /\ Admitted(cur)

(* What the webhook admits, and what a new object publishes.                *)
LEMMA NewAdmitted ==
  /\ \A s \in SpecType : validateClusterSpec(s) =>
       OneVSwitch(s.failureDomains) /\ Admitted(NewCluster(s))
  /\ Admitted(NoCluster)
  BY DEF validateClusterSpec, OneVSwitch, Admitted, NewCluster, NoCluster

(* What is published in memory is what was admitted.                        *)
LEMMA EditsAdmitted ==
  ASSUME NEW o \in ClusterObject, Admitted(o)
  PROVE  /\ Admitted(Reconciled(o))
         /\ Admitted(NotReady(Reconciled(o)))
         /\ Admitted([Reconciled(o) EXCEPT !.cond = TRUE, !.ready = TRUE])
         /\ Admitted(NotReady(WithFinalizer(o)))
         /\ Admitted([o EXCEPT !.finalizer = FALSE])
<1>1. Published(o) \in {o.failureDomains, o.spec.failureDomains}
  BY DEF Published
<1>2. Reconciled(o).spec = o.spec /\ Reconciled(o).failureDomains = Published(o)
  BY DEF Reconciled, WithFinalizer, ClusterObject
<1>3. Reconciled(o) \in ClusterObject
  BY EditsTyped
<1>4. Admitted(Reconciled(o))
  BY <1>1, <1>2 DEF Admitted
<1>5. /\ Admitted(NotReady(Reconciled(o)))
      /\ Admitted([Reconciled(o) EXCEPT !.cond = TRUE, !.ready = TRUE])
  BY <1>3, <1>4 DEF Admitted, NotReady, ClusterObject
<1>6. /\ Admitted(NotReady(WithFinalizer(o)))
      /\ Admitted([o EXCEPT !.finalizer = FALSE])
  BY DEF Admitted, NotReady, WithFinalizer, ClusterObject
<1> QED
  BY <1>4, <1>5, <1>6

(* Every step keeps it.                                                     *)
LEMMA AdmittedStep ==
  ASSUME ClusterTypeOK, AdmittedInv, [Next]_vars
  PROVE  AdmittedInv'
<1>0. {cluster, cache, base, cur} \subseteq ClusterObject
  BY DEF ClusterTypeOK
<1> USE DEF AdmittedInv
<1>1. CASE Begin
  <2>1. CASE Skip
    BY <2>1 DEF Skip
  <2>6. CASE ReadFails
    BY <2>6 DEF ReadFails, workerVars
  <2>2. CASE ClientFails
    BY <1>0, <2>2, EditsAdmitted DEF ClientFails, Pick
  <2>3. CASE EndpointMissing
    BY <1>0, <2>3, EditsAdmitted DEF EndpointMissing, Pick
  <2>4. CASE ClusterReady
    BY <1>0, <2>4, EditsAdmitted DEF ClusterReady, Pick
  <2>5. CASE ReconcileDelete
    BY <1>0, <2>5, EditsAdmitted DEF ReconcileDelete, Pick
  <2> QED
    BY <1>1, <2>1, <2>2, <2>3, <2>4, <2>5, <2>6 DEF Begin
<1>2. ASSUME NEW p, NEW fs, NEW q, PatchRequest(p, fs, q)
      PROVE  AdmittedInv'
  <2> DEFINE new == Patched(cluster, fs)
  <2>1. new.spec \in {cluster.spec, cur.spec}
        /\ new.failureDomains \in {cluster.failureDomains, cur.failureDomains}
    BY <1>0 DEF Patched, ClusterObject
  <2>2. new \in ClusterObject
    BY <1>0, PatchedFields
  <2>3. Collect(new).spec = new.spec /\ Collect(new).failureDomains = new.failureDomains
    BY <2>2 DEF Collect, ClusterObject
  <2>4. Admitted(Collect(new))
    BY <2>1, <2>3 DEF Admitted
  <2>5. cluster' \in {cluster, Collect(new)} /\ UNCHANGED <<cache, base, cur>>
    BY <1>2 DEF PatchRequest, PatchFails
  <2> QED
    BY <2>4, <2>5
<1>3. CASE Advance
  <2>1. CASE Return
    BY <2>1, NewAdmitted DEF Return
  <2> QED
    BY <1>2, <1>3, <2>1 DEF Advance, PatchConditions, PatchFinalizer, PatchStatus
<1>4. CASE Deliver
  BY <1>4 DEF Deliver
<1>5. CASE Crash
  BY <1>5, NewAdmitted DEF Crash
<1>6. CASE Users
  <2>1. CASE EditSpec
    BY <1>0, <2>1, NewAdmitted DEF EditSpec, Write, workerVars, Admitted, ClusterObject
  <2>2. CASE SetOwner \/ DeleteCluster \/ PauseObject \/ UnpauseObject
    BY <1>0, <2>2 DEF SetOwner, DeleteCluster, PauseObject, UnpauseObject, Write,
       workerVars, Collect, Admitted, ClusterObject
  <2>3. CASE PauseCluster \/ UnpauseCluster
    BY <2>3 DEF PauseCluster, UnpauseCluster, workerVars
  <2> QED
    BY <1>6, <2>1, <2>2, <2>3 DEF Users
<1>7. CASE UNCHANGED vars
  BY <1>7 DEF vars, workerVars
<1> QED
  BY <1>1, <1>3, <1>4, <1>5, <1>6, <1>7 DEF Next

(* The published failure domains give every zone one vSwitch: what the      *)
(* webhook admits is what every later patch, stale or not, publishes.       *)
THEOREM DomainsAlwaysUnambiguous == Spec => []DomainsUnambiguous
<1>1. Init => AdmittedInv
  BY NewAdmitted DEF Init, AdmittedInv
<1>2. ClusterTypeOK /\ AdmittedInv /\ [Next]_vars => AdmittedInv'
  BY AdmittedStep
<1>3. AdmittedInv => DomainsUnambiguous
  BY DEF AdmittedInv, Admitted, OneVSwitch, DomainsUnambiguous
<1> QED
  BY <1>1, <1>2, <1>3, ClusterTypeCorrect, PTL DEF Spec
=============================================================================
