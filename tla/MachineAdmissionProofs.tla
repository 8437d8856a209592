----------------------- MODULE MachineAdmissionProofs -----------------------
(***************************************************************************)
(* Proofs about the admission of machines, for any submitted specs, any    *)
(* failure domain and any number of edits and faults.                      *)
(***************************************************************************)
EXTENDS MachineAdmission, TLAPS

\* A disk the defaulting webhook leaves as it is.
Complete(d) == d \in Disk /\ d # None /\ d.category # "" /\ d.size # 0

\* A spec that went through both webhooks.
Admitted(s) == s \in MachineSpec /\ Complete(s.systemDisk) /\ validateMachineSpec(s)

Copy(o) == Exists(o) => o \in Object /\ Admitted(o.spec)

Same(s, t) == Definition(s) = Definition(t)

\* What the controller is about to patch with are objects.
InMemory == pc = "patchSpec" => base \in Object /\ cur \in Object

(* The object and the controller's copy of it, at whatever age, went through *)
(* the webhooks and agree with each other and with the instance on the       *)
(* fields that define it.                                                    *)
AdmissionInv ==
  /\ Copy(stored) /\ Copy(cached) /\ InMemory
  /\ launched # None => Admitted(launched)
  /\ stored = None => cached = None /\ launched = None
  /\ Exists(stored) /\ Exists(cached) => Same(stored.spec, cached.spec)
  /\ launched # None /\ Exists(stored) => Same(stored.spec, launched)
  /\ launched # None /\ Exists(cached) => Same(cached.spec, launched)

-----------------------------------------------------------------------------
(* The webhooks. *)

(* The defaulting webhook completes the system disk ...                     *)
LEMMA DiskCompleted ==
  ASSUME NEW d \in Disk \cup {None}
  PROVE  Complete(DefaultDisk(d))
<1>0. None \notin Disk
  BY AdmissionAssumption
<1>1. defaultSystemDisk \in Disk
  BY DEF defaultSystemDisk, Disk
<1>2. defaultSystemDisk.category = "cloud_essd" /\ defaultSystemDisk.size = 40
  BY DEF defaultSystemDisk
<1>3. CASE d = None
  <2>1. DefaultDisk(d) = defaultSystemDisk
    BY <1>3 DEF DefaultDisk
  <2> QED
    BY <2>1, <1>0, <1>1, <1>2 DEF Complete
<1>4. CASE d # None
  <2>1. d \in Disk
    BY <1>4
  <2> DEFINE c == IF d.category = "" THEN defaultSystemDisk.category ELSE d.category
             n == IF d.size = 0 THEN defaultSystemDisk.size ELSE d.size
  <2>2. DefaultDisk(d) = [d EXCEPT !.category = c, !.size = n]
    BY <1>4, <2>1 DEF DefaultDisk, Disk
  <2>3. c \in {"cloud_essd", "cloud_efficiency"} /\ n \in Nat /\ n # 0
    <3>1. d.category \in {"", "cloud_essd", "cloud_efficiency"} /\ d.size \in Nat
      BY <2>1 DEF Disk
    <3>2. c \in {"cloud_essd", "cloud_efficiency"}
      BY <3>1, <1>2
    <3> HIDE DEF c
    <3>3. d.size = 0 => n = 40
      BY <1>2
    <3>4. d.size # 0 => n = d.size
      OBVIOUS
    <3> HIDE DEF n
    <3>5. n \in Nat /\ n # 0
      <4>1. CASE d.size = 0
        BY <3>3, <4>1
      <4>2. CASE d.size # 0
        BY <3>1, <3>4, <4>2
      <4> QED
        BY <4>1, <4>2
    <3> QED
      BY <3>2, <3>5
  <2> HIDE DEF c, n
  <2>4. /\ DefaultDisk(d) \in Disk
        /\ DefaultDisk(d).category = c /\ DefaultDisk(d).size = n
    BY <2>1, <2>2, <2>3 DEF Disk
  <2> QED
    BY <2>3, <2>4, <1>0 DEF Complete
<1> QED
  BY <1>3, <1>4

(* ... of every spec ...                                                    *)
LEMMA SpecCompleted ==
  ASSUME NEW s \in MachineSpec
  PROVE  Default(s) \in MachineSpec /\ Complete(Default(s).systemDisk)
<1>1. s.systemDisk \in Disk \cup {None}
  BY DEF MachineSpec
<1>2. Complete(DefaultDisk(s.systemDisk))
  BY <1>1, DiskCompleted
<1>3. DefaultDisk(s.systemDisk) \in Disk \cup {None}
  BY <1>2 DEF Complete
<1>4. Default(s) = [s EXCEPT !.systemDisk = DefaultDisk(s.systemDisk)]
  BY DEF Default
<1>5. Default(s) \in MachineSpec /\ Default(s).systemDisk = DefaultDisk(s.systemDisk)
  BY <1>3, <1>4 DEF MachineSpec
<1> QED
  BY <1>2, <1>5

(* ... and changes none that is complete.                                   *)
LEMMA DefaultedOnce ==
  ASSUME NEW s \in MachineSpec, Complete(s.systemDisk)
  PROVE  Default(s) = s
<1>1. DefaultDisk(s.systemDisk) = s.systemDisk
  BY DEF Complete, DefaultDisk, Disk
<1>2. Default(s) = [s EXCEPT !.systemDisk = s.systemDisk]
  BY <1>1 DEF Default
<1> QED
  BY <1>2 DEF MachineSpec

LEMMA CreateAdmitted ==
  ASSUME NEW s \in MachineSpec, AdmitsCreate(s)
  PROVE  Admitted(Mutated(s, TRUE))
  BY SpecCompleted DEF AdmitsCreate, Mutated, Admitted

(* An update that is admitted keeps what defines the instance.              *)
LEMMA UpdateAdmitted ==
  ASSUME NEW old, NEW s \in MachineSpec, AdmitsUpdate(old, s)
  PROVE  Admitted(Mutated(s, FALSE)) /\ Same(old, Mutated(s, FALSE))
  BY SpecCompleted DEF AdmitsUpdate, Mutated, Admitted, validateMachineImmutable, Same

LEMMA Readmitted ==
  ASSUME NEW s, Admitted(s)
  PROVE  AdmitsUpdate(s, s)
<1>1. Mutated(s, FALSE) = s
  BY DefaultedOnce DEF Mutated, Admitted
<1>2. validateMachineImmutable(s, s)
  BY DEF validateMachineImmutable, immutableOnceSet
<1> QED
  BY <1>1, <1>2 DEF AdmitsUpdate, Admitted

-----------------------------------------------------------------------------
(* Writers of the spec. *)

(* What the controller fills in, and the handle it records, are no part of   *)
(* what the validating webhook checks or of what defines the instance.       *)
LEMMA PlacementIsFree ==
  ASSUME NEW s, NEW t, Admitted(s), t \in MachineSpec,
         t.instanceType = s.instanceType, t.imageID = s.imageID,
         t.systemDisk = s.systemDisk, t.dataDisks = s.dataDisks,
         t.spotStrategy = s.spotStrategy, t.spotPriceLimit = s.spotPriceLimit,
         t.tags = s.tags
  PROVE  Admitted(t) /\ Same(s, t)
<1>1. Same(s, t)
  BY DEF Same, Definition
<1>2. validateMachineSpec(t)
  <2>1. validateSpot(t)
    BY DEF Admitted, validateMachineSpec, validateSpot
  <2> QED
    BY <2>1 DEF Admitted, validateMachineSpec
<1> QED
  BY <1>1, <1>2 DEF Admitted

LEMMA Placed ==
  ASSUME NEW s, Admitted(s)
  PROVE  LET placed == resolveFailureDomain(s)
             filled == [placed EXCEPT !.regionID = IF @ = "" THEN Region ELSE @]
         IN  /\ Admitted(placed) /\ Same(s, placed)
             /\ Admitted(filled) /\ Same(s, filled)
<1> DEFINE placed == resolveFailureDomain(s)
           filled == [placed EXCEPT !.regionID = IF @ = "" THEN Region ELSE @]
<1>1. s \in MachineSpec
  BY DEF Admitted
<1>2. placed \in MachineSpec
  BY <1>1, AdmissionAssumption DEF resolveFailureDomain, MachineSpec
<1>3. /\ placed.instanceType = s.instanceType /\ placed.imageID = s.imageID
      /\ placed.systemDisk = s.systemDisk /\ placed.dataDisks = s.dataDisks
      /\ placed.spotStrategy = s.spotStrategy /\ placed.spotPriceLimit = s.spotPriceLimit
      /\ placed.tags = s.tags
  BY <1>1 DEF resolveFailureDomain, MachineSpec
<1>4. Admitted(placed) /\ Same(s, placed)
  BY <1>2, <1>3, PlacementIsFree
<1> HIDE DEF placed
<1>5. filled \in MachineSpec
  BY <1>2, AdmissionAssumption DEF MachineSpec
<1>6. /\ filled.instanceType = placed.instanceType /\ filled.imageID = placed.imageID
      /\ filled.systemDisk = placed.systemDisk /\ filled.dataDisks = placed.dataDisks
      /\ filled.spotStrategy = placed.spotStrategy
      /\ filled.spotPriceLimit = placed.spotPriceLimit
      /\ filled.tags = placed.tags
  BY <1>2 DEF MachineSpec
<1>7. Admitted(filled) /\ Same(placed, filled)
  BY <1>4, <1>5, <1>6, PlacementIsFree
<1>8. Same(s, filled)
  BY <1>4, <1>7 DEF Same
<1> QED
  BY <1>4, <1>7, <1>8 DEF placed

LEMMA LaunchedAsPlaced ==
  ASSUME NEW s, Admitted(s)
  PROVE  LaunchedWith(s) = s
<1>1. s.systemDisk # None /\ s \in MachineSpec
  BY DEF Admitted, Complete
<1>2. LaunchedWith(s) = [s EXCEPT !.systemDisk = s.systemDisk]
  BY <1>1 DEF LaunchedWith
<1> QED
  BY <1>1, <1>2 DEF MachineSpec

-----------------------------------------------------------------------------
(* Steps. *)

LEMMA ObjectFields ==
  ASSUME NEW o \in Object
  PROVE  /\ o.spec \in MachineSpec /\ o.finalizer \in BOOLEAN
         /\ \A s \in MachineSpec : /\ [o EXCEPT !.spec = s] \in Object
                                  /\ [o EXCEPT !.spec = s].spec = s
         /\ \A f \in BOOLEAN : /\ [o EXCEPT !.deleting = f] \in Object
                              /\ [o EXCEPT !.deleting = f].spec = o.spec
                              /\ [o EXCEPT !.instanceID = f] \in Object
                              /\ [o EXCEPT !.instanceID = f].spec = o.spec
                              /\ [o EXCEPT !.finalizer = f] \in Object
  BY DEF Object

LEMMA ObjectWritten ==
  ASSUME NEW o \in Object, NEW s \in MachineSpec, NEW f \in BOOLEAN
  PROVE  /\ [o EXCEPT !.spec = s, !.finalizer = f] \in Object
         /\ [o EXCEPT !.spec = s, !.finalizer = f].spec = s
  BY DEF Object

LEMMA ObjectsExist ==
  ASSUME NEW o \in Object
  PROVE  Exists(o) /\ o # None /\ o # Gone
  BY AdmissionAssumption DEF Exists

(* A write that replaces the object by one that agrees with it.             *)
LEMMA StoredReplaced ==
  ASSUME AdmissionInv, Exists(stored), NEW o \in Object, Admitted(o.spec),
         Same(stored.spec, o.spec), stored' = o,
         UNCHANGED <<launched, cached>>, InMemory'
  PROVE  AdmissionInv'
<1>1. Exists(o) /\ o # None
  BY ObjectsExist
<1>2. Copy(stored)' /\ Copy(cached)'
  BY DEF AdmissionInv, Copy, Exists, Admitted
<1>3. launched' # None => Admitted(launched')
  BY DEF AdmissionInv
<1>4. stored' # None
  BY <1>1
<1>5. Exists(cached') => Same(stored'.spec, cached'.spec)
  BY DEF AdmissionInv, Same
<1>6. launched' # None => Same(stored'.spec, launched')
  BY DEF AdmissionInv, Same
<1>7. launched' # None /\ Exists(cached') => Same(cached'.spec, launched')
  BY DEF AdmissionInv, Same
<1> QED
  BY <1>2, <1>3, <1>4, <1>5, <1>6, <1>7 DEF AdmissionInv, Same, Exists, Admitted, Copy

(* A write to the object that the controller does not depend on.            *)
LEMMA ObjectGone ==
  ASSUME AdmissionInv, stored' = Gone, UNCHANGED <<launched, cached>>, InMemory'
  PROVE  AdmissionInv'
<1>1. ~Exists(stored') /\ stored' # None
  BY AdmissionAssumption DEF Exists
<1> QED
  BY <1>1 DEF AdmissionInv, Copy, Exists, Same, Admitted

LEMMA OnlyMemory ==
  ASSUME AdmissionInv, UNCHANGED <<stored, launched, cached>>, InMemory'
  PROVE  AdmissionInv'
  BY DEF AdmissionInv, Copy, Exists, Same, Admitted

LEMMA CreateStep ==
  ASSUME AdmissionInv, UserCreates
  PROVE  AdmissionInv'
<1>1. PICK s \in UserSpecs :
        /\ AdmitsCreate(s)
        /\ stored' = [spec |-> Mutated(s, TRUE), finalizer |-> FALSE,
                      deleting |-> FALSE, instanceID |-> FALSE]
  BY DEF UserCreates
<1>2. s \in MachineSpec
  BY AdmissionAssumption
<1>3. Admitted(Mutated(s, TRUE))
  BY <1>1, <1>2, CreateAdmitted
<1>4. stored' \in Object /\ stored'.spec = Mutated(s, TRUE)
  BY <1>1, <1>3 DEF Object, Admitted
<1>5. Exists(stored') /\ stored' # None
  BY <1>4, ObjectsExist
<1>6. stored = None /\ cached' = None /\ launched' = None /\ InMemory'
  BY DEF UserCreates, AdmissionInv, InMemory, localVars
<1>7. ~Exists(cached')
  BY <1>6 DEF Exists
<1>8. Copy(stored)' /\ Copy(cached)'
  BY <1>3, <1>4, <1>7 DEF Copy, Exists, Admitted
<1> QED
  BY <1>5, <1>6, <1>7, <1>8 DEF AdmissionInv, Exists

LEMMA EditStep ==
  ASSUME AdmissionInv, UserEdits
  PROVE  AdmissionInv'
<1>1. PICK s \in UserSpecs :
        /\ AdmitsUpdate(stored.spec, Applied(s, stored.spec))
        /\ stored' = [stored EXCEPT !.spec = Mutated(Applied(s, stored.spec), FALSE)]
  BY DEF UserEdits
<1>2. s \in MachineSpec
  BY AdmissionAssumption
<1>3. Exists(stored) /\ stored \in Object /\ stored.spec \in MachineSpec
  BY ObjectFields DEF UserEdits, AdmissionInv, Copy
<1>4. Applied(s, stored.spec) \in MachineSpec
  BY <1>2, <1>3 DEF Applied, MachineSpec
<1> DEFINE t == Mutated(Applied(s, stored.spec), FALSE)
<1>5. Admitted(t) /\ Same(stored.spec, t)
  BY <1>1, <1>4, UpdateAdmitted
<1> HIDE DEF t
<1>6. stored' \in Object /\ stored'.spec = t
  BY <1>1, <1>3, <1>5, ObjectFields DEF Admitted, t
<1>7. UNCHANGED <<launched, cached>> /\ InMemory'
  BY DEF UserEdits, AdmissionInv, InMemory, localVars
<1> QED
  BY <1>3, <1>5, <1>6, <1>7, StoredReplaced

LEMMA DeleteStep ==
  ASSUME AdmissionInv, UserDeletes
  PROVE  AdmissionInv'
<1>1. UNCHANGED <<launched, cached>> /\ InMemory'
  BY DEF UserDeletes, AdmissionInv, InMemory, localVars
<1>2. CASE stored.finalizer
  <2>1. Exists(stored) /\ stored \in Object /\ Admitted(stored.spec)
    BY DEF UserDeletes, AdmissionInv, Copy
  <2>2. stored' = [stored EXCEPT !.deleting = TRUE]
    BY <1>2 DEF UserDeletes
  <2>3. stored' \in Object /\ stored'.spec = stored.spec
    BY <2>1, <2>2, ObjectFields
  <2>4. Same(stored.spec, stored'.spec) /\ Admitted(stored'.spec)
    BY <2>1, <2>3 DEF Same
  <2> QED
    BY <1>1, <2>1, <2>3, <2>4, StoredReplaced
<1>3. CASE ~stored.finalizer
  BY <1>1, <1>3, ObjectGone DEF UserDeletes
<1> QED
  BY <1>2, <1>3

(* The reconcile changes nothing but what it holds, and launches.           *)
LEMMA ReconcileStep ==
  ASSUME AdmissionInv, Reconcile
  PROVE  AdmissionInv'
<1>1. UNCHANGED <<stored, cached>>
  BY DEF Reconcile
<1>2. CASE ReconcileNormal
  <2> DEFINE placed == resolveFailureDomain(cached.spec)
             filled == [placed EXCEPT !.regionID = IF @ = "" THEN Region ELSE @]
             s == IF cached.instanceID THEN placed ELSE filled
             c == [cached EXCEPT !.spec = [s EXCEPT !.providerID = TRUE],
                                 !.finalizer = TRUE, !.instanceID = TRUE]
  <2>1. /\ Exists(cached) /\ Reconciled(c)
        /\ launched' = IF launched = None THEN LaunchedWith(s) ELSE launched
    BY <1>2 DEF ReconcileNormal
  <2>2. cached \in Object /\ Admitted(cached.spec)
    BY <2>1 DEF AdmissionInv, Copy
  <2>3. Admitted(s) /\ Same(cached.spec, s)
    BY <2>2, Placed
  <2> HIDE DEF s
  <2>4. s \in MachineSpec /\ LaunchedWith(s) = s
    BY <2>3, LaunchedAsPlaced DEF Admitted
  <2>5. [s EXCEPT !.providerID = TRUE] \in MachineSpec
    BY <2>4 DEF MachineSpec
  <2>6. c \in Object
    BY <2>2, <2>5 DEF Object
  <2> HIDE DEF c
  <2>7. InMemory'
    BY <2>1, <2>2, <2>6 DEF Reconciled, InMemory
  <2>8. CASE launched # None
    BY <1>1, <2>1, <2>7, <2>8, OnlyMemory
  <2>9. CASE launched = None
    <3>1. launched' = s
      BY <2>1, <2>4, <2>9
    <3>2. stored # None /\ (Exists(stored) => Same(stored.spec, s))
      BY <2>1, <2>3 DEF AdmissionInv, Exists, Same
    <3> QED
      BY <1>1, <2>1, <2>3, <2>7, <3>1, <3>2 DEF AdmissionInv, Copy, Exists, Same, Admitted
  <2> QED
    BY <2>8, <2>9
<1>3. CASE ReconcileDelete
  <2> DEFINE c == [cached EXCEPT !.finalizer = FALSE]
  <2>1. Exists(cached) /\ Reconciled(c) /\ UNCHANGED launched
    BY <1>3 DEF ReconcileDelete
  <2>2. cached \in Object /\ c \in Object
    BY <2>1, ObjectFields DEF AdmissionInv, Copy
  <2> HIDE DEF c
  <2>3. InMemory'
    BY <2>1, <2>2 DEF Reconciled, InMemory
  <2> QED
    BY <1>1, <2>1, <2>3, OnlyMemory
<1>4. CASE UNCHANGED <<launched, localVars>>
  <2>1. InMemory'
    BY <1>4 DEF InMemory, AdmissionInv, localVars
  <2> QED
    BY <1>1, <1>4, <2>1, OnlyMemory
<1> QED
  BY <1>2, <1>3, <1>4 DEF Reconcile

LEMMA SpecStep ==
  ASSUME AdmissionInv, PatchSpec
  PROVE  AdmissionInv'
<1> DEFINE s == [stored.spec EXCEPT
                   !.regionID   = Merge(@, base.spec.regionID, cur.spec.regionID),
                   !.zoneID     = Merge(@, base.spec.zoneID, cur.spec.zoneID),
                   !.vSwitchID  = Merge(@, base.spec.vSwitchID, cur.spec.vSwitchID),
                   !.providerID = Merge(@, base.spec.providerID, cur.spec.providerID)]
           f == Merge(stored.finalizer, base.finalizer, cur.finalizer)
<1>1. /\ pc = "patchSpec" /\ Answered(AfterSpec(base, cur))
      /\ UNCHANGED <<launched, cached>>
      /\ \/ /\ Exists(stored) /\ AdmitsUpdate(stored.spec, s)
            /\ stored' = IF stored.deleting /\ ~f THEN Gone
                         ELSE [stored EXCEPT !.spec = Mutated(s, FALSE), !.finalizer = f]
         \/ UNCHANGED stored
  BY DEF PatchSpec
<1>2. InMemory'
  BY <1>1 DEF Answered, AfterSpec, InMemory
<1>3. CASE UNCHANGED stored
  BY <1>1, <1>2, <1>3, OnlyMemory
<1>4. CASE stored' = Gone
  BY <1>1, <1>2, <1>4, ObjectGone
<1>5. CASE /\ Exists(stored) /\ AdmitsUpdate(stored.spec, s)
           /\ stored' = [stored EXCEPT !.spec = Mutated(s, FALSE), !.finalizer = f]
  <2>1. cur \in Object /\ base \in Object /\ stored \in Object
    BY <1>1, <1>5 DEF AdmissionInv, InMemory, Copy
  <2>2. cur.spec \in MachineSpec /\ stored.spec \in MachineSpec
    BY <2>1, ObjectFields
  <2>3. s \in MachineSpec
    BY <2>2 DEF MachineSpec, Merge
  <2>4. f \in BOOLEAN
    BY <2>1 DEF Object, Merge
  <2> HIDE DEF s, f
  <2>5. Admitted(Mutated(s, FALSE)) /\ Same(stored.spec, Mutated(s, FALSE))
    BY <1>5, <2>3, UpdateAdmitted
  <2>6. stored' \in Object /\ stored'.spec = Mutated(s, FALSE)
    <3>1. Mutated(s, FALSE) \in MachineSpec
      BY <2>5 DEF Admitted
    <3> QED
      BY <1>5, <2>1, <2>4, <3>1, ObjectWritten
  <2> QED
    BY <1>1, <1>2, <1>5, <2>5, <2>6, StoredReplaced
<1> QED
  BY <1>1, <1>3, <1>4, <1>5

LEMMA StatusStep ==
  ASSUME AdmissionInv, PatchStatus
  PROVE  AdmissionInv'
<1>1. UNCHANGED <<launched, cached>> /\ InMemory'
  BY DEF PatchStatus, Answered, InMemory
<1>2. CASE UNCHANGED stored
  BY <1>1, <1>2, OnlyMemory
<1>3. CASE Exists(stored) /\ stored' = [stored EXCEPT !.instanceID = TRUE]
  <2>1. stored \in Object /\ Admitted(stored.spec)
    BY <1>3 DEF AdmissionInv, Copy
  <2>2. stored' \in Object /\ stored'.spec = stored.spec
    BY <1>3, <2>1, ObjectFields
  <2>3. Same(stored.spec, stored'.spec) /\ Admitted(stored'.spec)
    BY <2>1, <2>2 DEF Same
  <2> QED
    BY <1>1, <1>3, <2>2, <2>3, StoredReplaced
<1> QED
  BY <1>2, <1>3 DEF PatchStatus

(* The copy is replaced by the object, by the informer or by a restart.      *)
LEMMA Synced ==
  ASSUME AdmissionInv, cached' = stored, UNCHANGED <<stored, launched>>, InMemory'
  PROVE  AdmissionInv'
  BY DEF AdmissionInv, Copy, Exists, Same, Admitted

LEMMA AdmissionInvariant == Spec => []AdmissionInv
<1>1. Init => AdmissionInv
  BY DEF Init, AdmissionInv, Copy, Exists, InMemory
<1>2. AdmissionInv /\ [Next]_vars => AdmissionInv'
  <2> SUFFICES ASSUME AdmissionInv, [Next]_vars
               PROVE  AdmissionInv'
    OBVIOUS
  <2>1. CASE UserCreates \/ UserEdits \/ UserDeletes
    BY <2>1, CreateStep, EditStep, DeleteStep
  <2>2. CASE Reconcile \/ PatchSpec \/ PatchStatus
    BY <2>2, ReconcileStep, SpecStep, StatusStep
  <2>3. CASE Deliver
    <3>1. InMemory'
      BY <2>3 DEF Deliver, localVars, InMemory, AdmissionInv
    <3> QED
      BY <2>3, <3>1, Synced DEF Deliver
  <2>4. CASE Crash
    <3>1. InMemory'
      BY <2>4 DEF Crash, Answered, InMemory
    <3> QED
      BY <2>4, <3>1, Synced DEF Crash
  <2>5. CASE UNCHANGED vars
    <3>1. UNCHANGED <<stored, launched, cached>> /\ InMemory'
      BY <2>5 DEF vars, localVars, InMemory, AdmissionInv
    <3> QED
      BY <3>1, OnlyMemory
  <2> QED
    BY <2>1, <2>2, <2>3, <2>4, <2>5 DEF Next
<1> QED
  BY <1>1, <1>2, PTL DEF Spec

-----------------------------------------------------------------------------

(* What the webhooks let in or filled in, they let through again: a request  *)
(* that changes other fields, or only a finalizer, is not refused for it.    *)
THEOREM StoredReadmissible == Spec => []StoredIsReadmissible
<1>1. AdmissionInv => StoredIsReadmissible
  BY Readmitted DEF AdmissionInv, Copy, StoredIsReadmissible
<1> QED
  BY <1>1, AdmissionInvariant, PTL

(* An instance is launched from a complete and valid spec, although the      *)
(* controller looks at nothing of it.                                        *)
THEOREM LaunchesAreValid == Spec => []LaunchedIsValid
<1>1. AdmissionInv => LaunchedIsValid
  BY DEF AdmissionInv, Admitted, Complete, LaunchedIsValid
<1> QED
  BY <1>1, AdmissionInvariant, PTL

(* The stored spec describes the launched instance for ever.                 *)
THEOREM InstanceStaysDefined == Spec => []SpecDefinesInstance
<1>1. AdmissionInv => SpecDefinesInstance
  BY DEF AdmissionInv, Same, SpecDefinesInstance
<1> QED
  BY <1>1, AdmissionInvariant, PTL
=============================================================================
