--------------------------- MODULE MachineAdmission ---------------------------
(***************************************************************************)
(* The admission of AlibabaCloudMachines: the defaulting and validating    *)
(* webhooks between the API server and whoever writes a machine's spec,    *)
(* the user and the machine controller.                                    *)
(*                                                                         *)
(* MachineController knows the one handle a webhook refuses to change and  *)
(* the calls of a reconcile one by one; here a reconcile is its read, its  *)
(* spec request and its status request, and the object is the spec that    *)
(* the webhooks look at.  There is one machine and one instance, which is  *)
(* recorded or not.                                                        *)
(***************************************************************************)
EXTENDS Integers, Sequences

CONSTANTS
  UserSpecs,       \* what users submit
  FailureDomain,   \* machine.Spec.FailureDomain: a zone, or ""
  DomainVSwitch,   \* the vSwitch the cluster publishes for it
  Region,          \* the cluster's
  None,            \* a nil pointer, and no object yet
  Gone,            \* no object any more
  MaxEdits,        \* bound on edits by users
  MaxFaults        \* bound on failed requests and crashes

Disk == [category: {"", "cloud_essd", "cloud_efficiency"}, size: Nat,
         performanceLevel: BOOLEAN, kmsKeyID: BOOLEAN, encrypted: BOOLEAN]

(* instanceType is empty, an ECS type, or something else; regionID, zoneID *)
(* and vSwitchID may be empty; providerID: it is set.                      *)
MachineSpec ==
  [instanceType: {"", "large", "ecs.large", "ecs.huge"}, imageID: STRING, systemDisk: Disk \cup {None},
   dataDisks: Seq(Disk), spotStrategy: {"", "SpotAsPriceGo", "SpotWithPriceLimit"},
   spotPriceLimit: Int \cup {None}, tags: Seq(STRING),
   regionID: STRING, zoneID: STRING, vSwitchID: STRING, providerID: BOOLEAN]

\* instanceID: status.instanceID is set.
Object == [spec: MachineSpec, finalizer: BOOLEAN, deleting: BOOLEAN, instanceID: BOOLEAN]

ASSUME AdmissionAssumption ==
  /\ UserSpecs \subseteq {s \in MachineSpec : ~s.providerID}
  /\ FailureDomain \in STRING /\ DomainVSwitch \in STRING /\ Region \in STRING
  /\ None # Gone /\ None \notin Disk
  /\ \A o \in {None, Gone} : o \notin Object /\ o \notin MachineSpec
  /\ MaxEdits \in Nat /\ MaxFaults \in Nat

VARIABLES
  stored,     \* the object, or None before it is created, or Gone
  launched,   \* the spec the instance was launched with, or None
  cached,     \* the controller's copy, like stored
  queued, pc,
  base, cur,  \* the object as it was read, and in memory
  edits, faults

localVars == <<pc, base, cur>>
vars      == <<stored, launched, cached, queued, localVars, edits, faults>>

Exists(o) == o \notin {None, Gone}

-----------------------------------------------------------------------------
(* The webhooks. *)

defaultSystemDisk ==
  [category |-> "cloud_essd", size |-> 40,
   performanceLevel |-> FALSE, kmsKeyID |-> FALSE, encrypted |-> FALSE]

minDiskSizeGiB == 20

\* Mutant: only a missing disk is completed.
Default_NilOnly(s) ==
  [s EXCEPT !.systemDisk = IF @ = None THEN defaultSystemDisk ELSE @]

DefaultDisk(d) ==
  IF d = None THEN defaultSystemDisk
  ELSE [d EXCEPT !.category = IF @ = "" THEN defaultSystemDisk.category ELSE @,
                 !.size = IF @ = 0 THEN defaultSystemDisk.size ELSE @]

Default(s) == [s EXCEPT !.systemDisk = DefaultDisk(@)]

validateDiskExtras(d) ==
  /\ d.kmsKeyID => d.encrypted
  /\ d.performanceLevel => d.category = "cloud_essd"

\* A price limit, positive, exactly with the strategy that has one.
validateSpot(s) ==
  IF s.spotStrategy = "SpotWithPriceLimit"
  THEN s.spotPriceLimit # None /\ s.spotPriceLimit > 0
  ELSE s.spotPriceLimit = None

validateTags(tags) ==
  \A i \in DOMAIN tags : tags[i] # "" /\ \A j \in DOMAIN tags : tags[i] = tags[j] => i = j

validateMachineSpec(s) ==
  /\ s.instanceType \in {"ecs.large", "ecs.huge"}
  /\ s.systemDisk # None => /\ s.systemDisk.size # 0 => s.systemDisk.size >= minDiskSizeGiB
                            /\ validateDiskExtras(s.systemDisk)
  /\ \A i \in DOMAIN s.dataDisks :
        s.dataDisks[i].size >= minDiskSizeGiB /\ validateDiskExtras(s.dataDisks[i])
  /\ validateSpot(s)
  /\ validateTags(s.tags)

\* The fields that define the provisioned ECS instance.
Definition(s) ==
  <<s.instanceType, s.imageID, s.systemDisk, s.dataDisks, s.spotStrategy, s.spotPriceLimit>>

\* Mutant: a field the controller fills in is as immutable as the others.
immutableOnceSet_Strict(old, new) == old = new

immutableOnceSet(old, new) == old # "" => old = new

\* Mutant: the instance type is forgotten.
validateMachineImmutable_Type(old, new) ==
  /\ Tail(Definition(old)) = Tail(Definition(new))
  /\ immutableOnceSet(old.regionID, new.regionID)
  /\ immutableOnceSet(old.zoneID, new.zoneID)
  /\ immutableOnceSet(old.vSwitchID, new.vSwitchID)
  /\ old.providerID => new.providerID

validateMachineImmutable(old, new) ==
  /\ Definition(old) = Definition(new)
  /\ immutableOnceSet(old.regionID, new.regionID)
  /\ immutableOnceSet(old.zoneID, new.zoneID)
  /\ immutableOnceSet(old.vSwitchID, new.vSwitchID)
  /\ old.providerID => new.providerID

\* Mutant: the defaulting webhook is registered for updates only.
Mutated_UpdateOnly(s, creating) == IF creating THEN s ELSE Default(s)

\* The mutating webhook runs on create and on update.
Mutated(s, creating) == Default(s)

AdmitsCreate(s) == validateMachineSpec(Mutated(s, TRUE))

\* Also for a request that changes metadata only, such as a finalizer.
AdmitsUpdate(old, s) ==
  validateMachineSpec(Mutated(s, FALSE)) /\ validateMachineImmutable(old, Mutated(s, FALSE))

-----------------------------------------------------------------------------
(* Users. *)

\* Another spec is applied: fields it leaves empty stay as they are.
Applied(s, old) ==
  [s EXCEPT !.regionID  = IF @ = "" THEN old.regionID ELSE @,
            !.zoneID    = IF @ = "" THEN old.zoneID ELSE @,
            !.vSwitchID = IF @ = "" THEN old.vSwitchID ELSE @,
            !.providerID = old.providerID]

UserCreates ==
  /\ stored = None
  /\ \E s \in UserSpecs :
        /\ AdmitsCreate(s)
        /\ stored' = [spec |-> Mutated(s, TRUE), finalizer |-> FALSE,
                      deleting |-> FALSE, instanceID |-> FALSE]
  /\ UNCHANGED <<launched, cached, queued, localVars, edits, faults>>

UserEdits ==
  /\ Exists(stored) /\ edits < MaxEdits /\ edits' = edits + 1
  /\ \E s \in UserSpecs :
        LET new == Applied(s, stored.spec)
        IN  /\ AdmitsUpdate(stored.spec, new)
            /\ stored' = [stored EXCEPT !.spec = Mutated(new, FALSE)]
  /\ UNCHANGED <<launched, cached, queued, localVars, faults>>

\* ValidateDelete always allows it.
UserDeletes ==
  /\ Exists(stored) /\ ~stored.deleting
  /\ stored' = IF stored.finalizer THEN [stored EXCEPT !.deleting = TRUE] ELSE Gone
  /\ UNCHANGED <<launched, cached, queued, localVars, edits, faults>>

-----------------------------------------------------------------------------
(* The machine controller. *)

Fault == faults < MaxFaults /\ faults' = faults + 1

resolveFailureDomain(s) ==
  IF FailureDomain = "" THEN s
  ELSE [s EXCEPT !.zoneID = IF @ = "" THEN FailureDomain ELSE @,
                 !.vSwitchID = IF @ = "" THEN DomainVSwitch ELSE @]

\* The spec as createInstance passes it to ECS.
LaunchedWith(s) ==
  [s EXCEPT !.systemDisk = IF @ = None
                           THEN [defaultSystemDisk EXCEPT !.category = "cloud_efficiency"]
                           ELSE @]

\* The deferred patch's requests that still have something to send.
AfterSpec(b, c) == IF c.instanceID = b.instanceID THEN "idle" ELSE "patchStatus"

FirstPatch(b, c) ==
  IF c.spec = b.spec /\ c.finalizer = b.finalizer THEN AfterSpec(b, c) ELSE "patchSpec"

Reconciled(c) ==
  /\ pc' = FirstPatch(cached, c)
  /\ base' = IF pc' = "idle" THEN None ELSE cached
  /\ cur' = IF pc' = "idle" THEN None ELSE c

\* The instance is launched, or found by tag or token, or healed from.
ReconcileNormal ==
  LET placed == resolveFailureDomain(cached.spec)
      s == IF cached.instanceID THEN placed
           ELSE [placed EXCEPT !.regionID = IF @ = "" THEN Region ELSE @]
  IN /\ Exists(cached) /\ ~cached.deleting
     /\ launched' = IF launched = None THEN LaunchedWith(s) ELSE launched
     /\ Reconciled([cached EXCEPT !.spec = [s EXCEPT !.providerID = TRUE],
                                  !.finalizer = TRUE, !.instanceID = TRUE])

\* The instance is released, then the finalizer.
ReconcileDelete ==
  /\ Exists(cached) /\ cached.deleting
  /\ Reconciled([cached EXCEPT !.finalizer = FALSE])
  /\ UNCHANGED launched

Reconcile ==
  /\ pc = "idle" /\ queued
  /\ queued' = FALSE
  /\ \/ ReconcileNormal
     \/ ReconcileDelete
     \/ ~Exists(cached) /\ UNCHANGED <<launched, localVars>>
  /\ UNCHANGED <<stored, cached, edits, faults>>

Answered(p) ==
  /\ pc' = p
  /\ base' = IF p = "idle" THEN None ELSE base
  /\ cur' = IF p = "idle" THEN None ELSE cur

Merge(o, b, c) == IF c = b THEN o ELSE c

\* Mutant: the deferred patch's error is lost.
Requeued_Lost == UNCHANGED queued

\* The deferred patch's error is the reconcile's, and brings the machine back.
Requeued == queued' = TRUE

\* The merge patch of metadata and spec in one request.
PatchSpec ==
  LET s == [stored.spec EXCEPT
              !.regionID   = Merge(@, base.spec.regionID, cur.spec.regionID),
              !.zoneID     = Merge(@, base.spec.zoneID, cur.spec.zoneID),
              !.vSwitchID  = Merge(@, base.spec.vSwitchID, cur.spec.vSwitchID),
              !.providerID = Merge(@, base.spec.providerID, cur.spec.providerID)]
      f == Merge(stored.finalizer, base.finalizer, cur.finalizer)
      admitted == Exists(stored) /\ AdmitsUpdate(stored.spec, s)
  IN /\ pc = "patchSpec"
     /\ Answered(AfterSpec(base, cur))
     /\ \/ /\ admitted
           /\ stored' = IF stored.deleting /\ ~f THEN Gone
                        ELSE [stored EXCEPT !.spec = Mutated(s, FALSE), !.finalizer = f]
           /\ UNCHANGED <<queued, faults>>
        \/ ~admitted /\ Requeued /\ UNCHANGED <<stored, faults>>
        \/ Fault /\ Requeued /\ UNCHANGED stored
     /\ UNCHANGED <<launched, cached, edits>>

\* The status subresource is not looked at by the webhooks.
PatchStatus ==
  /\ pc = "patchStatus"
  /\ Answered("idle")
  /\ \/ /\ Exists(stored)
        /\ stored' = [stored EXCEPT !.instanceID = TRUE]
        /\ UNCHANGED <<queued, faults>>
     \/ ~Exists(stored) /\ Requeued /\ UNCHANGED <<stored, faults>>
     \/ Fault /\ Requeued /\ UNCHANGED stored
  /\ UNCHANGED <<launched, cached, edits>>

Deliver ==
  /\ cached # stored
  /\ cached' = stored /\ queued' = TRUE
  /\ UNCHANGED <<stored, launched, localVars, edits, faults>>

Crash ==
  /\ Fault
  /\ Answered("idle")
  /\ cached' = stored /\ queued' = TRUE
  /\ UNCHANGED <<stored, launched, edits>>

-----------------------------------------------------------------------------

Init ==
  /\ stored = None /\ launched = None /\ cached = None
  /\ queued = FALSE /\ pc = "idle" /\ base = None /\ cur = None
  /\ edits = 0 /\ faults = 0

Next ==
  \/ UserCreates \/ UserEdits \/ UserDeletes
  \/ Reconcile \/ PatchSpec \/ PatchStatus
  \/ Deliver \/ Crash

Spec == Init /\ [][Next]_vars

(* The worker runs and the informer delivers; users owe nothing. *)
FairSpec ==
  Spec /\ WF_vars(Reconcile) /\ WF_vars(PatchSpec) /\ WF_vars(PatchStatus) /\ WF_vars(Deliver)

-----------------------------------------------------------------------------

(* A stored object can be written back as it is: no request of a controller  *)
(* that changes other fields, or only a finalizer, is refused for what the   *)
(* webhooks themselves let in or filled in.                                  *)
StoredIsReadmissible == Exists(stored) => AdmitsUpdate(stored.spec, stored.spec)

(* What defines the instance is complete and valid when it is launched: the  *)
(* controller copies the disk as it is and relies on the webhooks for it.    *)
LaunchedIsValid ==
  launched # None =>
     /\ validateMachineSpec(launched)
     /\ launched.systemDisk.category # "" /\ launched.systemDisk.size # 0

(* The stored spec goes on describing the instance that was launched from a  *)
(* copy of it, however stale that copy was and whatever users applied since. *)
SpecDefinesInstance ==
  launched # None /\ Exists(stored) => Definition(stored.spec) = Definition(launched)

(* The controller's one-time writes get through, also when a user sets the   *)
(* zone or the vSwitch while the controller resolves it: a launched machine  *)
(* gets its providerID, without which its node never joins.                  *)
ProviderIDPersists ==
  launched # None ~> ~Exists(stored) \/ stored.deleting \/ stored.spec.providerID

(* "Deletion is always allowed": the webhooks never keep the finalizer of a  *)
(* deleted machine in place.                                                 *)
FinalizerGoes == Exists(stored) /\ stored.deleting ~> stored = Gone
=============================================================================
