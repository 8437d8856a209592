-------------------------- MODULE MachineInfraProofs --------------------------
(***************************************************************************)
(* The machine controller implements InfraMachine, what the CSR approver   *)
(* relies on: proofs that no stored handle is taken back.                  *)
(***************************************************************************)
EXTENDS MachineControllerProofs

\* c has an instance if b has one.
Keeps(b, c) == b.instanceID # None => c.instanceID # None

\* A merge patch takes a handle back only when the copy in memory lost what
\* was read: this is what has to be invariant.
Held == \A w \in Workers : Keeps(base[w], cur[w])

HeldInv == Typed /\ Held

(* No edit the controller makes in memory drops status.instanceID ...      *)
LEMMA EditsKeep ==
  ASSUME NEW o \in Object
  PROVE  /\ Keeps(o, o)
         /\ Keeps(o, setFailed(o))
         /\ Keeps(o, SetProvisioned(o))
         /\ Keeps(o, Healed(o))
         /\ Keeps(o, setFailed(Healed(o)))
         /\ Keeps(o, SetProvisioned(Healed(o)))
         /\ Keeps(o, [o EXCEPT !.cond = FALSE])
         /\ Keeps(o, [o EXCEPT !.finalizer = FALSE])
         /\ Keeps(o, [o EXCEPT !.ignitionOSS = TRUE])
         /\ Keeps(o, SetProvisioned([o EXCEPT !.hardened = TRUE]))
         /\ Keeps(o, [o EXCEPT !.instanceID = RecordedInstance(o)])
  BY DEF Object, Keeps, setFailed, SetProvisioned, Healed, RecordedInstance

(* ... nor does adding the finalizer and the region at the start.          *)
LEMMA AdoptedKeeps ==
  ASSUME Typed, NEW w \in Workers, NEW m \in Machines
  PROVE  LET o == cache[w][m]
             a == Adopted(w, m)
             r == [a EXCEPT !.regionID = TRUE]
         IN  \A c \in {a, r, setFailed(a), setFailed(r), [a EXCEPT !.cond = FALSE]} :
                Keeps(o, c)
<1>1. cache[w][m] \in Object
  BY DEF Typed, TypeOK
<1> QED
  BY <1>1 DEF Object, Keeps, setFailed, Adopted

(* A reconcile starts with what it read ...                                *)
LEMMA StartHeld ==
  ASSUME Typed, Held, NEW w \in Workers, NEW m \in Machines, NEW p, NEW c, NEW again,
         Start(w, m, p, c, again), Keeps(cache[w][m], c)
  PROVE  Held'
  BY DEF Typed, TypeOK, Held, Keeps, Start

(* ... and goes on with what it has.                                       *)
LEMMA GotoHeld ==
  ASSUME Typed, Held, NEW w \in Workers, NEW p, NEW c, Goto(w, p, c), Keeps(cur[w], c)
  PROVE  Held'
  BY DEF Typed, TypeOK, Held, Keeps, Goto

(* Picking up a machine.                                                   *)
LEMMA BeginHeld ==
  ASSUME Typed, Held, NEW w \in Workers, NEW m \in Machines, Begin(w, m)
  PROVE  Held'
<1> DEFINE o == cache[w][m]
           a == Adopted(w, m)
           r == [a EXCEPT !.regionID = TRUE]
<1>1. o \in Object
  BY DEF Typed, TypeOK
<1>2. ASSUME NEW p, NEW c, NEW again, Start(w, m, p, c, again),
             \/ c \in {o, [o EXCEPT !.finalizer = FALSE]}
             \/ c = [o EXCEPT !.instanceID = RecordedInstance(o)]
             \/ c \in {a, r, setFailed(a), setFailed(r), [a EXCEPT !.cond = FALSE]}
      PROVE  Held'
  <2>1. Keeps(o, c)
    BY <1>1, <1>2, EditsKeep, AdoptedKeeps
  <2> QED
    BY <1>2, <2>1, StartHeld
<1> HIDE DEF o, a, r
<1>3. CASE SkipReconcile(w, m)
  BY <1>3 DEF SkipReconcile, localVars, Held, Keeps
<1>4. CASE \/ WaitForPrerequisites(w, m) \/ PrerequisiteFails(w, m)
           \/ ProviderIDMismatch(w, m) \/ BeginDescribe(w, m)
  BY <1>2, <1>4 DEF WaitForPrerequisites, PrerequisiteFails, ProviderIDMismatch,
                    BeginDescribe, StartAndReturn, a
<1>5. CASE BeginCreate(w, m)
  BY <1>2, <1>5 DEF BeginCreate, StartAndReturn, a, r
<1>6. CASE ReleaseUnprovisioned(w, m) \/ RegionUnknown(w, m) \/ BeginDelete(w, m)
  BY <1>2, <1>6 DEF ReleaseUnprovisioned, RegionUnknown, BeginDelete,
                    StartAndReturn, o
<1> QED
  BY <1>3, <1>4, <1>5, <1>6 DEF Begin

(* One request of a reconcile.                                             *)
LEMMA AdvanceHeld ==
  ASSUME Typed, Held, NEW w \in Workers, Advance(w)
  PROVE  Held'
<1>1. cur[w] \in Object
  BY DEF Typed, TypeOK
<1>2. ASSUME NEW p, NEW c, Goto(w, p, c),
             \/ c \in {cur[w], setFailed(cur[w]), SetProvisioned(cur[w])}
             \/ c \in {Healed(cur[w]), setFailed(Healed(cur[w])),
                       SetProvisioned(Healed(cur[w]))}
             \/ c = [cur[w] EXCEPT !.cond = FALSE]
             \/ c = [cur[w] EXCEPT !.finalizer = FALSE]
             \/ c = [cur[w] EXCEPT !.ignitionOSS = TRUE]
             \/ c = SetProvisioned([cur[w] EXCEPT !.hardened = TRUE])
      PROVE  Held'
  <2>1. Keeps(cur[w], c)
    BY <1>1, <1>2, EditsKeep
  <2> QED
    BY <1>2, <2>1, GotoHeld
<1>3. ASSUME NEW i \in Instances, Created(w, i)
      PROVE  Held'
  <2>1. Keeps(cur[w], [cur[w] EXCEPT !.providerID = i, !.instanceID = i])
    BY <1>1, NoneAssumption DEF Object, Keeps
  <2> QED
    BY <1>3, <2>1, GotoHeld DEF Created, Finish
<1>4. CASE Describe(w)
  BY <1>2, <1>4 DEF Describe, WaitForRunning, FinishWithError, Finish
<1>5. CASE HardenMetadata(w) \/ OffloadUserData(w)
  BY <1>2, <1>5 DEF HardenMetadata, OffloadUserData, FinishWithError, Finish
<1>6. CASE AdoptInstance(w) \/ LaunchInstance(w)
  BY <1>2, <1>3, <1>6 DEF AdoptInstance, LaunchInstance, FindInstanceByTag,
                          FinishWithError, Finish
<1>7. CASE \/ DescribeForDelete(w) \/ SweepByTag(w) \/ DeleteInstance(w)
           \/ CleanupIgnition(w)
  BY <1>2, <1>7 DEF DescribeForDelete, SweepByTag, DeleteInstance, CleanupIgnition,
                    Finish
<1>8. CASE PatchConditions(w) \/ PatchSpec(w) \/ PatchStatus(w)
  BY <1>8 DEF PatchConditions, PatchSpec, PatchStatus, Patch, Answered, Held, Keeps
<1>9. CASE Return(w)
  BY <1>9 DEF Return, Done, Typed, TypeOK, Held, Keeps
<1> QED
  BY <1>4, <1>5, <1>6, <1>7, <1>8, <1>9 DEF Advance

(* HeldInv is inductive.                                                   *)
LEMMA HeldAlways == Spec => []HeldInv
<1>1. Init => HeldInv
  BY InitTyped DEF HeldInv, Held, Keeps, Init
<1>2. HeldInv /\ [Next]_vars => HeldInv'
  <2> SUFFICES ASSUME Typed, Held, [Next]_vars
               PROVE  Typed' /\ Held'
    BY DEF HeldInv
  <2>1. Typed'
    BY TypedStep
  <2>2. CASE UNCHANGED vars
    BY <2>1, <2>2 DEF vars, workerVars, localVars, Held, Keeps
  <2>3. ASSUME NEW w \in Workers, NEW m \in Machines, Deliver(w, m)
        PROVE  Held'
    BY <2>3 DEF Deliver, localVars, Held, Keeps
  <2>4. ASSUME NEW w \in Workers, Crash(w)
        PROVE  Held'
    BY <2>4 DEF Crash, Done, Typed, TypeOK, Held, Keeps
  <2>5. CASE Environment
    BY <2>1, <2>5 DEF Environment, SetOwner, SetDataSecret, BindNode, Pause, Unpause,
                UnpauseCluster, OwnerDeleted, UserDeletes, ECSProgress, NodeJoins,
                OperatorRestarts, CloudFault, ClusterChanges, Event, Silent,
                workerVars, localVars, Held, Keeps
  <2> QED
    BY <2>1, <2>2, <2>3, <2>4, <2>5, BeginHeld, AdvanceHeld DEF Next
<1> QED
  BY <1>1, <1>2, PTL DEF Spec

-----------------------------------------------------------------------------

\* What is stored of o.
Mapped(o) ==
  [exists |-> o.exists, providerID |-> o.providerID # None,
   instanceID |-> o.instanceID # None]

\* An object that exists becomes one that has all its handles.
Onward(o, n) ==
  /\ o.exists
  /\ o.providerID # None => n.providerID # None
  /\ Keeps(o, n)

(* A request moves the stored handles as InfraMachine's Record does.       *)
LEMMA OnwardRecords ==
  ASSUME Typed, NEW m \in Machines, NEW n \in Object, Onward(obj[m], n),
         obj' = [obj EXCEPT ![m] = n]
  PROVE  InfraM!Record(m)
<1>1. Stored' = [Stored EXCEPT ![m] = Mapped(n)]
  BY DEF Stored, Mapped, Typed, TypeOK
<1>2. Mapped(n) \in InfraM!Handles
  BY DEF Mapped, InfraM!Handles, Object
<1>3. Stored[m] = Mapped(obj[m])
  BY DEF Stored, Mapped
<1>4. /\ Stored[m].exists
      /\ Stored[m].providerID => Mapped(n).providerID
      /\ Stored[m].instanceID => Mapped(n).instanceID
  <2>1. \A o : /\ Mapped(o).exists = o.exists
                /\ Mapped(o).providerID = (o.providerID # None)
                /\ Mapped(o).instanceID = (o.instanceID # None)
    BY DEF Mapped
  <2>2. /\ Mapped(obj[m]).exists
        /\ Mapped(obj[m]).providerID => Mapped(n).providerID
        /\ Mapped(obj[m]).instanceID => Mapped(n).instanceID
    BY <2>1, Zenon DEF Onward, Keeps
  <2> QED
    BY <1>3, <2>2, Zenon
<1> QED
  BY <1>1, <1>2, <1>4 DEF InfraM!Record

(* The three requests of the deferred patch and a delete go onward.        *)
LEMMA PatchesOnward ==
  ASSUME NEW o \in Object, NEW b \in Object, NEW c \in Object, Keeps(b, c), o.exists
  PROVE  /\ Onward(o, PatchedConditions(o, b, c))
         /\ Onward(o, PatchedStatus(o, b, c))
         /\ ValidateUpdate(o, PatchedSpec(o, b, c)) => Onward(o, PatchedSpec(o, b, c))
         /\ Onward(o, MarkDeleted(o))
<1>1. Onward(o, PatchedConditions(o, b, c))
  BY DEF Object, PatchedConditions, Onward, Keeps
<1>2. Onward(o, PatchedStatus(o, b, c))
  <2>1. PatchedStatus(o, b, c).providerID = o.providerID
    BY DEF Object, PatchedStatus
  <2>2. PatchedStatus(o, b, c).instanceID = Merge(o.instanceID, b.instanceID, c.instanceID)
    BY DEF Object, PatchedStatus
  <2> QED
    BY <2>1, <2>2 DEF Onward, Keeps, Merge
<1>3. PatchedSpec(o, b, c).instanceID = o.instanceID
  BY DEF Object, PatchedSpec, Collect
<1>4. Onward(o, MarkDeleted(o))
  BY DEF Object, MarkDeleted, Collect, Onward, Keeps
<1> QED
  BY <1>1, <1>2, <1>3, <1>4 DEF ValidateUpdate, Onward, Keeps

(* The machine controller implements InfraMachine: no stored handle is     *)
(* taken back, whatever stale copy the deferred patch is made from, and a  *)
(* removed object stays removed.                                           *)
THEOREM MachineImplements == Spec => ImplementsInfraMachine
<1>1. Init => InfraM!Init
  <2> SUFFICES ASSUME Init
               PROVE  Stored = [m \in Machines |-> InfraM!Unrecorded]
    BY DEF InfraM!Init
  <2>1. ASSUME NEW m \in Machines
        PROVE  obj[m].exists = TRUE /\ obj[m].providerID = None /\ obj[m].instanceID = None
    BY DEF Init, NewObject
  <2>2. ASSUME NEW m \in Machines
        PROVE  Mapped(obj[m]) = InfraM!Unrecorded
    <3>1. (obj[m].providerID # None) = FALSE /\ (obj[m].instanceID # None) = FALSE
      BY <2>1
    <3> QED
      BY <2>1, <3>1, Zenon DEF Mapped, InfraM!Unrecorded
  <2> QED
    BY <2>2 DEF Stored, Mapped
<1>2. HeldInv /\ [Next]_vars => [InfraM!Next]_Stored
  <2> SUFFICES ASSUME Typed, Held, [Next]_vars
               PROVE  [InfraM!Next]_Stored
    BY DEF HeldInv
  <2>1. CASE UNCHANGED obj
    BY <2>1 DEF Stored
  <2>2. ASSUME NEW w \in Workers, PatchConditions(w) \/ PatchSpec(w) \/ PatchStatus(w)
        PROVE  [InfraM!Next]_Stored
    <3> DEFINE o == obj[key[w]]
    <3>1. /\ key[w] \in Machines /\ o \in Object
          /\ base[w] \in Object /\ cur[w] \in Object /\ Keeps(base[w], cur[w])
      BY <2>2 DEF Typed, TypeOK, HasKey, Held, PatchConditions, PatchSpec, PatchStatus
    <3>2. \/ UNCHANGED obj
          \/ /\ o.exists
             /\ \/ obj' = [obj EXCEPT ![key[w]] = PatchedConditions(o, base[w], cur[w])]
                \/ obj' = [obj EXCEPT ![key[w]] = PatchedStatus(o, base[w], cur[w])]
                \/ /\ ValidateUpdate(o, PatchedSpec(o, base[w], cur[w]))
                   /\ obj' = [obj EXCEPT ![key[w]] = PatchedSpec(o, base[w], cur[w])]
      BY <2>2 DEF PatchConditions, PatchSpec, PatchStatus, Patch
    <3>3. UNCHANGED obj \/ \E n \in Object : Onward(o, n) /\ obj' = [obj EXCEPT ![key[w]] = n]
      BY <3>1, <3>2, PatchesOnward, ObjectPatches
    <3> QED
      BY <2>1, <3>1, <3>3, OnwardRecords DEF InfraM!Next
  <2>3. ASSUME NEW m \in Machines, UserDeletes(m)
        PROVE  [InfraM!Next]_Stored
    <3>1. obj[m] \in Object /\ obj[m].exists
      BY <2>3 DEF Typed, TypeOK, UserDeletes
    <3>2. MarkDeleted(obj[m]) \in Object /\ Onward(obj[m], MarkDeleted(obj[m]))
      BY <3>1, PatchesOnward, ObjectEdits DEF Keeps
    <3>3. obj' = [obj EXCEPT ![m] = MarkDeleted(obj[m])]
      BY <2>3 DEF UserDeletes
    <3> QED
      BY <3>2, <3>3, OnwardRecords DEF InfraM!Next
  <2>4. CASE UNCHANGED vars
    BY <2>1, <2>4 DEF vars, apiVars
  <2> QED
    BY <2>1, <2>2, <2>3, <2>4, ObjectWriters
<1> QED
  BY <1>1, <1>2, HeldAlways, PTL DEF Spec, ImplementsInfraMachine, InfraM!Spec
=============================================================================
