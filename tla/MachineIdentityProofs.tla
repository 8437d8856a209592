------------------------ MODULE MachineIdentityProofs ------------------------
(***************************************************************************)
(* Which instance belongs to which machine: proofs that the handles the    *)
(* controller keeps - in the API server, in its caches, in memory - never  *)
(* lead to somebody else's instance, and that there is one instance.       *)
(***************************************************************************)
EXTENDS MachineControllerProofs

-----------------------------------------------------------------------------
(* spec.providerID and spec.regionID are write-once. *)

(* Once the API server holds a providerID or a region it keeps it: of all  *)
(* requests only the spec patch can touch them, and the webhook's          *)
(* validateMachineImmutable refuses it whole when it would.                *)
THEOREM IdentityStable == Spec => IdentityIsStable
<1> DEFINE Stable ==
      \A m \in Machines :
        /\ obj[m].providerID # None => obj'[m].providerID = obj[m].providerID
        /\ obj[m].regionID => obj'[m].regionID
<1>1. Spec => []Typed
  BY TypedAlways
<1>2. Typed /\ [Next]_vars => [Stable]_vars
  <2> SUFFICES ASSUME Typed, Next
               PROVE  Stable
    OBVIOUS
  <2>1. CASE UNCHANGED obj
    BY <2>1
  <2>2. ASSUME NEW w \in Workers, PatchConditions(w) \/ PatchSpec(w) \/ PatchStatus(w)
        PROVE  Stable
    <3> DEFINE o == obj[key[w]]
    <3>1. key[w] \in Machines /\ o \in Object
      BY <2>2 DEF Typed, TypeOK, HasKey, PatchConditions, PatchSpec, PatchStatus
    <3>2. \/ UNCHANGED obj
          \/ obj' = [obj EXCEPT ![key[w]] = PatchedConditions(o, base[w], cur[w])]
          \/ obj' = [obj EXCEPT ![key[w]] = PatchedStatus(o, base[w], cur[w])]
          \/ /\ ValidateUpdate(o, PatchedSpec(o, base[w], cur[w]))
             /\ obj' = [obj EXCEPT ![key[w]] = PatchedSpec(o, base[w], cur[w])]
      BY <2>2 DEF PatchConditions, PatchSpec, PatchStatus, Patch
    <3>3. /\ PatchedConditions(o, base[w], cur[w]).providerID = o.providerID
          /\ PatchedConditions(o, base[w], cur[w]).regionID = o.regionID
          /\ PatchedStatus(o, base[w], cur[w]).providerID = o.providerID
          /\ PatchedStatus(o, base[w], cur[w]).regionID = o.regionID
      BY <3>1 DEF PatchedConditions, PatchedStatus, Object
    <3> HIDE DEF o
    <3> QED
      BY <3>1, <3>2, <3>3 DEF ValidateUpdate, Typed, TypeOK, o
  <2>3. ASSUME NEW m \in Machines, UserDeletes(m)
        PROVE  Stable
    <3>1. /\ MarkDeleted(obj[m]).providerID = obj[m].providerID
          /\ MarkDeleted(obj[m]).regionID = obj[m].regionID
      BY DEF MarkDeleted, Collect, Typed, TypeOK, Object
    <3> QED
      BY <2>3, <3>1 DEF UserDeletes, Typed, TypeOK
  <2> QED
    BY <2>1, <2>2, <2>3, ObjectWriters
<1> QED
  BY <1>1, <1>2, PTL DEF Spec, IdentityIsStable

-----------------------------------------------------------------------------
(* Whose instance a handle names.  The inductive invariant follows the     *)
(* handles everywhere they are kept: a wrong one in a cache or in memory   *)
(* would be written later.                                                 *)

\* The tag value tells machines apart.
DistinctNames ==
  \A m, n \in Machines : OwnerName[m] = OwnerName[n] => m = n

\* The delete sweep looks for the tag the create path sets.
SameNames == \A m \in Machines : InfraName[m] = OwnerName[m]

\* The handles of object o, where the instances are e, name m's instances.
Handled(e, o, m) ==
  /\ o.providerID # None => e[o.providerID].owner = m
  /\ o.instanceID # None => e[o.instanceID].owner = m

\* Instances keep their owners.
Kept(e, f) == \A i \in Instances : e[i].owner # None => f[i].owner = e[i].owner

StoredHandled ==
  /\ \A m \in Machines : Handled(ecs, obj[m], m)
  /\ \A w \in Workers, m \in Machines : Handled(ecs, cache[w][m], m)

MemoryHandled ==
  \A w \in Workers :
     pc[w] # "idle" => /\ Handled(ecs, base[w], key[w])
                       /\ Handled(ecs, cur[w], key[w])

OwnInv == StoredHandled /\ MemoryHandled

(* Handles stay right while instances keep their owners.                   *)
LEMMA HandledKept ==
  ASSUME NEW e, NEW f, NEW o \in Object, NEW m \in Machines,
         Handled(e, o, m), Kept(e, f)
  PROVE  Handled(f, o, m)
  BY NoneAssumption DEF Handled, Kept, Object, Handle

(* The edits of reconcileNormal and reconcileDelete lead to no new         *)
(* instance; Healed and the delete path copy one handle to the other.      *)
LEMMA HandledEdits ==
  ASSUME NEW e, NEW o \in Object, NEW m \in Machines, Handled(e, o, m)
  PROVE  /\ Handled(e, setFailed(o), m)
         /\ Handled(e, SetProvisioned(o), m)
         /\ Handled(e, Healed(o), m)
         /\ Handled(e, MarkDeleted(o), m)
         /\ Handled(e, [o EXCEPT !.finalizer = TRUE], m)
         /\ Handled(e, [o EXCEPT !.finalizer = FALSE], m)
         /\ Handled(e, [o EXCEPT !.regionID = TRUE], m)
         /\ Handled(e, [o EXCEPT !.cond = FALSE], m)
         /\ Handled(e, [o EXCEPT !.hardened = TRUE], m)
         /\ Handled(e, [o EXCEPT !.ignitionOSS = TRUE], m)
         /\ Handled(e, [o EXCEPT !.instanceID = RecordedInstance(o)], m)
  BY DEF Handled, Object, setFailed, SetProvisioned, Healed, MarkDeleted,
         Collect, RecordedInstance

(* Recording an instance of m keeps m's handles right.                     *)
LEMMA HandledCreated ==
  ASSUME NEW e, NEW o \in Object, NEW m, NEW i \in Instances, e[i].owner = m
  PROVE  Handled(e, [o EXCEPT !.providerID = i, !.instanceID = i], m)
  BY DEF Handled, Object

(* A merge takes every handle from one of the two objects it merges.       *)
LEMMA HandledPatches ==
  ASSUME NEW e, NEW m, NEW o \in Object, NEW b \in Object, NEW c \in Object,
         Handled(e, o, m), Handled(e, c, m)
  PROVE  /\ Handled(e, PatchedConditions(o, b, c), m)
         /\ Handled(e, PatchedSpec(o, b, c), m)
         /\ Handled(e, PatchedStatus(o, b, c), m)
<1>1. Handled(e, PatchedConditions(o, b, c), m)
  BY DEF Handled, Object, PatchedConditions
<1>2. Handled(e, PatchedStatus(o, b, c), m)
  BY DEF Handled, Object, PatchedStatus, Merge
<1>3. Handled(e, PatchedSpec(o, b, c), m)
  BY DEF Handled, Object, PatchedSpec, Collect, Merge
<1> QED
  BY <1>1, <1>2, <1>3

(* No call and no event of ECS takes an instance from its machine.         *)
LEMMA OwnersKept ==
  ASSUME ECSType, NEW i, NEW m, NEW g, NEW t,
         \/ UNCHANGED ecs \/ DeleteECSInstance(i) \/ RunInstances(m, g, t, i)
         \/ StopOnly(i) \/ ModifyInstanceMetadata(i)
         \/ Booted(i) \/ Halted(i) \/ Released(i) \/ Joined(i)
         \/ Restarted(i) \/ Disrupted(i) \/ TokenForgotten(i)
  PROVE  Kept(ecs, ecs')
<1> USE DEF ECSType, Instance, Kept
<1>1. CASE UNCHANGED ecs \/ RunInstances(m, g, t, i)
  BY <1>1 DEF RunInstances
<1>2. CASE UNCHANGED ecs \/ \E s \in States : SetState(i, s)
  BY <1>2 DEF SetState
<1>3. CASE DeleteECSInstance(i) \/ StopOnly(i) \/ Booted(i) \/ Halted(i)
           \/ Released(i) \/ Restarted(i) \/ Disrupted(i)
  BY <1>2, <1>3 DEF DeleteECSInstance, StopOnly, Booted, Halted, Released,
                    Restarted, Disrupted, States
<1>4. CASE ModifyInstanceMetadata(i) \/ Joined(i) \/ TokenForgotten(i)
  BY <1>4 DEF ModifyInstanceMetadata, Joined, TokenForgotten
<1> QED
  BY <1>1, <1>3, <1>4

(* A reconcile that starts, with the handles of the copy it read.          *)
LEMMA StartOwned ==
  ASSUME Typed, OwnInv, NEW w \in Workers, NEW m \in Machines, NEW p,
         NEW c \in Object, NEW again, Start(w, m, p, c, again), Handled(ecs, c, m)
  PROVE  OwnInv'
<1>1. StoredHandled'
  BY DEF OwnInv, StoredHandled, Start, apiVars
<1>2. MemoryHandled'
  BY DEF OwnInv, StoredHandled, MemoryHandled, Start, Typed, TypeOK
<1> QED
  BY <1>1, <1>2 DEF OwnInv

(* Steps that write neither an object nor a cache, and at most the memory  *)
(* of one worker in the middle of a reconcile.                             *)
LEMMA GotoOwned ==
  ASSUME Typed, OwnInv, NEW w \in Workers, NEW p, NEW c \in Object,
         pc[w] # "idle", Goto(w, p, c), Kept(ecs, ecs'),
         Handled(ecs, c, key[w]) \/ Handled(ecs', c, key[w])
  PROVE  OwnInv'
<1>1. key[w] \in Machines /\ Handled(ecs', c, key[w])
  BY HandledKept DEF Typed, HasKey
<1>2. StoredHandled'
  BY HandledKept DEF OwnInv, StoredHandled, Goto, Typed, TypeOK
<1>3. ASSUME NEW v \in Workers, pc'[v] # "idle"
      PROVE  Handled(ecs', base'[v], key'[v]) /\ Handled(ecs', cur'[v], key'[v])
  <2>1. pc[v] # "idle" /\ key[v] \in Machines /\ base[v] \in Object /\ cur[v] \in Object
    BY <1>3 DEF Goto, Typed, TypeOK, HasKey
  <2>2. Handled(ecs', base[v], key[v]) /\ Handled(ecs', cur[v], key[v])
    BY <2>1, HandledKept DEF OwnInv, MemoryHandled
  <2>3. key'[v] = key[v] /\ base'[v] = base[v] /\ cur'[v] = IF v = w THEN c ELSE cur[v]
    BY DEF Goto, Typed, TypeOK
  <2> QED
    BY <1>1, <2>2, <2>3
<1>4. MemoryHandled'
  BY <1>3 DEF MemoryHandled
<1> QED
  BY <1>2, <1>4 DEF OwnInv

(* Picking up a machine keeps the handles right.                           *)
LEMMA BeginOwned ==
  ASSUME Typed, OwnInv, NEW w \in Workers, NEW m \in Machines, Begin(w, m)
  PROVE  OwnInv'
<1> DEFINE o == cache[w][m]
           a == Adopted(w, m)
<1>1. o \in Object /\ Handled(ecs, o, m)
  BY DEF Typed, TypeOK, OwnInv, StoredHandled
<1> HIDE DEF o
<1>2. a \in Object /\ Handled(ecs, a, m)
  BY <1>1, ObjectFlags, HandledEdits DEF Adopted, o
<1> HIDE DEF a
<1> DEFINE r == [a EXCEPT !.regionID = TRUE]
<1>3. r \in Object /\ Handled(ecs, r, m)
  BY <1>2, ObjectFlags, HandledEdits
<1> HIDE DEF r
<1>4. CASE SkipReconcile(w, m)
  BY <1>4 DEF SkipReconcile, OwnInv, StoredHandled, MemoryHandled, apiVars, localVars
<1>5. ASSUME NEW p, NEW c, NEW again, Start(w, m, p, c, again),
             \/ c \in {o, a, r, setFailed(a), setFailed(r)}
             \/ c = [a EXCEPT !.cond = FALSE]
             \/ c = [o EXCEPT !.finalizer = FALSE]
             \/ c = [o EXCEPT !.instanceID = RecordedInstance(o)]
      PROVE  OwnInv'
  <2>1. c \in Object /\ Handled(ecs, c, m)
    <3>1. CASE c \in {o, a, r}
      BY <1>1, <1>2, <1>3, <3>1
    <3>2. CASE c \in {setFailed(a), setFailed(r)}
      <4>1. setFailed(a) \in Object /\ setFailed(r) \in Object
        BY <1>2, <1>3, ObjectEdits
      <4>2. Handled(ecs, setFailed(a), m) /\ Handled(ecs, setFailed(r), m)
        BY <1>2, <1>3, HandledEdits
      <4> QED
        BY <3>2, <4>1, <4>2
    <3>3. CASE c = [a EXCEPT !.cond = FALSE]
      BY <1>2, <3>3, ObjectFlags, HandledEdits
    <3>4. CASE c = [o EXCEPT !.finalizer = FALSE]
      BY <1>1, <3>4, ObjectFlags, HandledEdits
    <3>5. CASE c = [o EXCEPT !.instanceID = RecordedInstance(o)]
      <4>1. RecordedInstance(o) \in Handle
        BY <1>1, ObjectEdits
      <4> QED
        BY <1>1, <3>5, <4>1, ObjectHandles, HandledEdits
    <3> QED
      BY <1>5, <3>1, <3>2, <3>3, <3>4, <3>5
  <2> QED
    BY <1>5, <2>1, StartOwned
<1>6. CASE \/ WaitForPrerequisites(w, m) \/ PrerequisiteFails(w, m)
           \/ ProviderIDMismatch(w, m) \/ BeginDescribe(w, m)
  BY <1>5, <1>6 DEF WaitForPrerequisites, PrerequisiteFails, ProviderIDMismatch,
                    BeginDescribe, StartAndReturn, a
<1>7. CASE BeginCreate(w, m)
  BY <1>5, <1>7 DEF BeginCreate, StartAndReturn, a, r
<1>8. CASE ReleaseUnprovisioned(w, m) \/ RegionUnknown(w, m) \/ BeginDelete(w, m)
  BY <1>5, <1>8 DEF ReleaseUnprovisioned, RegionUnknown, BeginDelete,
                    StartAndReturn, o
<1> QED
  BY <1>4, <1>6, <1>7, <1>8 DEF Begin

(* Adopting a tagged instance, launching one, describing, deleting and     *)
(* patching keep the handles right, when names tell machines apart.        *)
LEMMA AdvanceOwned ==
  ASSUME DistinctNames, Typed, OwnInv, NEW w \in Workers, Advance(w)
  PROVE  OwnInv'
<1> DEFINE m == key[w]
           c == cur[w]
           h == Healed(c)
<1>1. /\ c \in Object /\ base[w] \in Object /\ ECSType
      /\ pc[w] # "idle" => m \in Machines /\ obj[m] \in Object
      /\ pc[w] # "idle" => Handled(ecs, c, m)
  BY DEF Typed, TypeOK, HasKey, ECSType, OwnInv, MemoryHandled
<1> HIDE DEF m, c
<1>2. /\ h \in Object
      /\ pc[w] # "idle" => Handled(ecs, h, m)
  BY <1>1, ObjectEdits, HandledEdits
<1> HIDE DEF h
<1>3. ASSUME NEW p, NEW d, Goto(w, p, d), Kept(ecs, ecs'), pc[w] # "idle",
             \/ d \in {c, h, setFailed(c), setFailed(h), SetProvisioned(c),
                       SetProvisioned(h)}
             \/ d = [c EXCEPT !.cond = FALSE]
             \/ d = [c EXCEPT !.finalizer = FALSE]
             \/ d = [c EXCEPT !.ignitionOSS = TRUE]
             \/ d = SetProvisioned([c EXCEPT !.hardened = TRUE])
      PROVE  OwnInv'
  <2>1. m \in Machines /\ Handled(ecs, c, m) /\ Handled(ecs, h, m)
    BY <1>1, <1>2, <1>3
  <2>2. d \in Object /\ Handled(ecs, d, m)
    <3>1. CASE d \in {c, h}
      BY <1>1, <1>2, <2>1, <3>1
    <3>2. CASE d \in {setFailed(c), setFailed(h), SetProvisioned(c), SetProvisioned(h)}
      <4>1. /\ setFailed(c) \in Object /\ setFailed(h) \in Object
            /\ SetProvisioned(c) \in Object /\ SetProvisioned(h) \in Object
        BY <1>1, <1>2, ObjectEdits
      <4>2. /\ Handled(ecs, setFailed(c), m) /\ Handled(ecs, setFailed(h), m)
            /\ Handled(ecs, SetProvisioned(c), m) /\ Handled(ecs, SetProvisioned(h), m)
        BY <1>1, <1>2, <2>1, HandledEdits
      <4> QED
        BY <3>2, <4>1, <4>2
    <3>3. CASE d = [c EXCEPT !.cond = FALSE]
      BY <1>1, <2>1, <3>3, ObjectFlags, HandledEdits
    <3>4. CASE d = [c EXCEPT !.finalizer = FALSE]
      BY <1>1, <2>1, <3>4, ObjectFlags, HandledEdits
    <3>5. CASE d = [c EXCEPT !.ignitionOSS = TRUE]
      BY <1>1, <2>1, <3>5, ObjectFlags, HandledEdits
    <3>6. CASE d = SetProvisioned([c EXCEPT !.hardened = TRUE])
      <4> DEFINE x == [c EXCEPT !.hardened = TRUE]
      <4>1. x \in Object /\ Handled(ecs, x, m)
        BY <1>1, <2>1, ObjectFlags, HandledEdits
      <4> HIDE DEF x
      <4>2. SetProvisioned(x) \in Object
        BY <4>1, ObjectEdits
      <4>3. Handled(ecs, SetProvisioned(x), m)
        BY <2>1, <4>1, HandledEdits
      <4> QED
        BY <3>6, <4>2, <4>3 DEF x
    <3> QED
      BY <1>3, <3>1, <3>2, <3>3, <3>4, <3>5, <3>6
  <2> QED
    BY <1>3, <2>2, GotoOwned DEF m
<1>4. UNCHANGED ecs => Kept(ecs, ecs')
  BY DEF Kept
<1>5. ASSUME NEW i \in Instances, Created(w, i), pc[w] # "idle", Kept(ecs, ecs'),
             ecs'[i].owner = m
      PROVE  OwnInv'
  <2> DEFINE d == [c EXCEPT !.providerID = i, !.instanceID = i]
  <2>1. d \in Object
    BY <1>1, ObjectHandles DEF Handle
  <2>2. Handled(ecs', d, m)
    BY <1>1, <1>5, HandledCreated
  <2>3. Goto(w, FirstPatch(base[w], d), d)
    BY <1>5 DEF Created, Finish, c
  <2> HIDE DEF d
  <2> QED
    BY <1>5, <2>1, <2>2, <2>3, GotoOwned DEF m
<1>6. CASE Describe(w)
  BY <1>3, <1>4, <1>6 DEF Describe, WaitForRunning, Finish, FinishWithError, c, h
<1>7. CASE HardenMetadata(w)
  <2>1. ModifyInstanceMetadata(c.instanceID) \/ UNCHANGED ecs
    BY <1>7 DEF HardenMetadata, c
  <2>2. Kept(ecs, ecs')
    BY <1>1, <2>1, OwnersKept
  <2> QED
    BY <1>3, <1>7, <2>2 DEF HardenMetadata, Finish, c
<1>8. CASE OffloadUserData(w)
  BY <1>3, <1>4, <1>8 DEF OffloadUserData, Finish, FinishWithError, c
<1>9. CASE AdoptInstance(w)
  <2>1. pc[w] # "idle" /\ UNCHANGED ecs
    BY <1>9 DEF AdoptInstance
  <2>2. ASSUME NEW i \in FindInstanceByTag(OwnerName[m])
        PROVE  i \in Instances /\ ecs[i].owner = m
    BY <1>1, <2>1, <2>2 DEF FindInstanceByTag, DistinctNames, ECSType, Instance
  <2> QED
    BY <1>3, <1>4, <1>5, <1>9, <2>1, <2>2 DEF AdoptInstance, Finish,
       FinishWithError, c, m
<1>10. CASE LaunchInstance(w)
  <2>1. pc[w] # "idle"
    BY <1>10 DEF LaunchInstance
  <2>2. ASSUME NEW i \in Instances, RunInstances(m, Guarded(m), TokensAtBoot(m), i)
        PROVE  Kept(ecs, ecs') /\ ecs'[i].owner = m
    <3>1. Kept(ecs, ecs')
      BY <1>1, <2>2, OwnersKept
    <3>2. ecs'[i].owner = m
      BY <1>1, <2>2 DEF RunInstances, Remembered, Launched, ECSType
    <3> QED
      BY <3>1, <3>2
  <2> QED
    BY <1>3, <1>4, <1>5, <1>10, <2>1, <2>2 DEF LaunchInstance, Finish,
       FinishWithError, c, m
<1>11. CASE DescribeForDelete(w) \/ SweepByTag(w) \/ CleanupIgnition(w)
  BY <1>3, <1>4, <1>11 DEF DescribeForDelete, SweepByTag, CleanupIgnition, Finish, c
<1>12. CASE DeleteInstance(w)
  <2>1. DeleteECSInstance(target[w]) \/ UNCHANGED ecs \/ StopOnly(target[w])
    BY <1>12 DEF DeleteInstance
  <2>2. Kept(ecs, ecs')
    BY <1>1, <2>1, OwnersKept
  <2> QED
    BY <1>3, <1>12, <2>2 DEF DeleteInstance, Finish, c
<1>13. CASE PatchConditions(w) \/ PatchSpec(w) \/ PatchStatus(w)
  <2>1. /\ pc[w] # "idle"
        /\ UNCHANGED <<ecs, cache, key, base, cur>>
        /\ \A v \in Workers : pc'[v] # "idle" => pc[v] # "idle"
    BY <1>13 DEF PatchConditions, PatchSpec, PatchStatus, Patch, Answered, Typed,
                 TypeOK
  <2>2. \/ UNCHANGED obj
        \/ obj' = [obj EXCEPT ![m] = PatchedConditions(obj[m], base[w], c)]
        \/ obj' = [obj EXCEPT ![m] = PatchedSpec(obj[m], base[w], c)]
        \/ obj' = [obj EXCEPT ![m] = PatchedStatus(obj[m], base[w], c)]
    BY <1>13 DEF PatchConditions, PatchSpec, PatchStatus, Patch, m, c
  <2>3. \A n \in Machines : Handled(ecs, obj'[n], n)
    <3>1. m \in Machines /\ \A n \in Machines : Handled(ecs, obj[n], n)
      BY <1>1, <2>1 DEF OwnInv, StoredHandled
    <3>2. /\ Handled(ecs, PatchedConditions(obj[m], base[w], c), m)
          /\ Handled(ecs, PatchedSpec(obj[m], base[w], c), m)
          /\ Handled(ecs, PatchedStatus(obj[m], base[w], c), m)
      BY <1>1, <2>1, <3>1, HandledPatches
    <3> QED
      BY <2>2, <3>1, <3>2 DEF Typed, TypeOK
  <2> QED
    BY <2>1, <2>3 DEF OwnInv, StoredHandled, MemoryHandled
<1>14. CASE Return(w)
  BY <1>14 DEF Return, Done, OwnInv, StoredHandled, MemoryHandled, apiVars, Typed,
               TypeOK
<1> QED
  BY <1>6, <1>7, <1>8, <1>9, <1>10, <1>11, <1>12, <1>13, <1>14 DEF Advance

(* What happens around the controller to the instances and to its memory:  *)
(* instances keep their owners, and a worker is left alone or loses all.   *)
LEMMA SurroundingsKeep ==
  ASSUME Typed, Environment
  PROVE  /\ Kept(ecs, ecs')
         /\ UNCHANGED <<cache, pc, key, base, cur, target>>
<1> USE DEF workerVars, localVars
<1>1. ECSType /\ (UNCHANGED ecs => Kept(ecs, ecs'))
  BY DEF Typed, TypeOK, ECSType, Kept
<1>2. ASSUME NEW m \in Machines,
             \/ SetOwner(m) \/ SetDataSecret(m) \/ BindNode(m)
             \/ Pause(m) \/ Unpause(m) \/ UnpauseCluster(m)
             \/ OwnerDeleted(m) \/ UserDeletes(m)
      PROVE  UNCHANGED <<ecs, cache, pc, key, base, cur, target>>
  BY <1>2 DEF SetOwner, SetDataSecret, BindNode, Pause, Unpause, UnpauseCluster,
              OwnerDeleted, UserDeletes, Event, Silent
<1>3. ASSUME NEW i \in Instances,
             ECSProgress(i) \/ NodeJoins(i) \/ OperatorRestarts(i) \/ CloudFault(i)
      PROVE  Kept(ecs, ecs') /\ UNCHANGED <<cache, pc, key, base, cur, target>>
  <2>1. \/ Booted(i) \/ Halted(i) \/ Released(i) \/ Joined(i) \/ Restarted(i)
        \/ Disrupted(i) \/ TokenForgotten(i)
    BY <1>3 DEF ECSProgress, NodeJoins, OperatorRestarts, CloudFault
  <2>2. UNCHANGED <<cache, pc, key, base, cur, target>>
    BY <1>3 DEF ECSProgress, NodeJoins, OperatorRestarts, CloudFault
  <2> QED
    BY <1>1, <2>1, <2>2, OwnersKept
<1>4. CASE ClusterChanges
  BY <1>1, <1>4 DEF ClusterChanges
<1> QED
  BY <1>1, <1>2, <1>3, <1>4 DEF Environment

(* A delivery, a restart and the surroundings keep the handles right.      *)
LEMMA SurroundingsOwned ==
  ASSUME Typed, OwnInv,
         \/ \E w \in Workers, m \in Machines : Deliver(w, m)
         \/ \E w \in Workers : Crash(w)
         \/ Environment
  PROVE  OwnInv'
<1>1. ASSUME NEW w \in Workers, NEW m \in Machines, Deliver(w, m)
      PROVE  OwnInv'
  <2>1. UNCHANGED <<ecs, obj, pc, key, base, cur>>
    BY <1>1 DEF Deliver, apiVars, localVars
  <2>2. \A v \in Workers, n \in Machines : cache'[v][n] \in {cache[v][n], obj[n]}
    BY <1>1 DEF Deliver, Typed, TypeOK
  <2> QED
    BY <2>1, <2>2 DEF OwnInv, StoredHandled, MemoryHandled
<1>2. ASSUME NEW w \in Workers, Crash(w)
      PROVE  OwnInv'
  <2>1. StoredHandled'
    BY <1>2 DEF Crash, apiVars, OwnInv, StoredHandled, Typed, TypeOK
  <2>2. MemoryHandled'
    BY <1>2 DEF Crash, Done, OwnInv, MemoryHandled, Typed, TypeOK
  <2> QED
    BY <2>1, <2>2 DEF OwnInv
<1>3. CASE Environment
  <2>1. /\ Kept(ecs, ecs')
        /\ UNCHANGED <<cache, pc, key, base, cur>>
    BY <1>3, SurroundingsKeep
  <2>2. \A m \in Machines : Handled(ecs, obj'[m], m) /\ obj'[m] \in Object
    <3>1. \A m \in Machines : Handled(ecs, obj[m], m) /\ obj[m] \in Object
      BY DEF OwnInv, StoredHandled, Typed, TypeOK
    <3>2. CASE UNCHANGED obj
      BY <3>1, <3>2
    <3>3. ASSUME NEW n \in Machines, UserDeletes(n)
          PROVE  \A m \in Machines : Handled(ecs, obj'[m], m) /\ obj'[m] \in Object
      <4>1. Handled(ecs, MarkDeleted(obj[n]), n) /\ MarkDeleted(obj[n]) \in Object
        BY <3>1, HandledEdits, ObjectEdits
      <4>2. obj' = [obj EXCEPT ![n] = MarkDeleted(obj[n])]
        BY <3>3 DEF UserDeletes
      <4> QED
        BY <3>1, <4>1, <4>2 DEF Typed, TypeOK
    <3>4. UNCHANGED obj \/ \E n \in Machines : UserDeletes(n)
      BY <1>3 DEF Environment, SetOwner, SetDataSecret, BindNode, Pause, Unpause,
         UnpauseCluster, OwnerDeleted, ECSProgress, NodeJoins, OperatorRestarts,
         CloudFault, ClusterChanges, Event, Silent, apiVars
    <3> QED
      BY <3>2, <3>3, <3>4
  <2>3. StoredHandled'
    BY <2>1, <2>2, HandledKept DEF OwnInv, StoredHandled, Typed, TypeOK
  <2>4. MemoryHandled'
    <3>1. ASSUME NEW v \in Workers, pc[v] # "idle"
          PROVE  Handled(ecs', base[v], key[v]) /\ Handled(ecs', cur[v], key[v])
      <4>1. key[v] \in Machines /\ base[v] \in Object /\ cur[v] \in Object
        BY <3>1 DEF Typed, TypeOK, HasKey
      <4> QED
        BY <2>1, <3>1, <4>1, HandledKept DEF OwnInv, MemoryHandled
    <3> QED
      BY <2>1, <3>1 DEF MemoryHandled
  <2> QED
    BY <2>3, <2>4 DEF OwnInv
<1> QED
  BY <1>1, <1>2, <1>3

(* The handles are always right, wherever they are kept.                   *)
LEMMA OwnAlways ==
  ASSUME DistinctNames
  PROVE  Spec => [](Typed /\ OwnInv)
<1>1. Init => Typed /\ OwnInv
  <2> SUFFICES ASSUME Init
               PROVE  Typed /\ OwnInv
    OBVIOUS
  <2>1. \A m \in Machines : Handled(ecs, obj[m], m)
    BY DEF Init, Handled, NewObject
  <2> QED
    BY <2>1, InitTyped DEF Init, OwnInv, StoredHandled, MemoryHandled
<1>2. Typed /\ OwnInv /\ [Next]_vars => Typed' /\ OwnInv'
  <2> SUFFICES ASSUME Typed, OwnInv, [Next]_vars
               PROVE  OwnInv'
    BY TypedStep
  <2>1. CASE UNCHANGED vars
    BY <2>1 DEF vars, apiVars, envVars, workerVars, localVars, OwnInv,
                StoredHandled, MemoryHandled
  <2>2. CASE Next
    BY <2>2, BeginOwned, AdvanceOwned, SurroundingsOwned DEF Next
  <2> QED
    BY <2>1, <2>2
<1> QED
  BY <1>1, <1>2, PTL DEF Spec

(* Every handle an object records names an instance launched for it, for   *)
(* any number of machines, workers, faults and expired tokens, as long as  *)
(* the names the create path tags with tell machines apart.                *)
THEOREM HandlesAreOwn ==
  ASSUME DistinctNames
  PROVE  Spec => []OwnHandles
<1>1. Typed /\ OwnInv => OwnHandles
  <2> SUFFICES ASSUME Typed, OwnInv, NEW m \in Machines
               PROVE  {obj[m].providerID, obj[m].instanceID} \ {None} \subseteq Owned(m)
    BY DEF OwnHandles
  <2>1. obj[m].providerID \in Handle /\ obj[m].instanceID \in Handle
    BY DEF Typed, TypeOK, Object
  <2> QED
    BY <2>1 DEF OwnInv, StoredHandled, Handled, Owned, Handle
<1> QED
  BY <1>1, OwnAlways, PTL

-----------------------------------------------------------------------------
(* What a delete deletes. *)

\* The instance a worker is about to delete is one of the machine it deletes,
\* and a worker between reconciles is about to delete nothing.
TargetOwned ==
  \A w \in Workers :
     target[w] # None => pc[w] # "idle" /\ ecs[target[w]].owner = key[w]

(* A worker takes its target from the instance id it recorded, or from the *)
(* sweep by tag, and drops it when the reconcile is over.                  *)
LEMMA TargetAdvance ==
  ASSUME DistinctNames, SameNames, Typed, OwnInv, TargetOwned,
         NEW w \in Workers, Advance(w)
  PROVE  TargetOwned'
<1>1. pc[w] # "idle"
  BY DEF Advance, Describe, HardenMetadata, OffloadUserData, AdoptInstance,
         LaunchInstance, DescribeForDelete, SweepByTag, DeleteInstance,
         CleanupIgnition, PatchConditions, PatchSpec, PatchStatus, Return
<1>2. key[w] \in Machines /\ ECSType /\ Handled(ecs, cur[w], key[w])
  BY <1>1 DEF Typed, TypeOK, HasKey, ECSType, OwnInv, MemoryHandled
<1>3. Kept(ecs, ecs')
  <2>1. \/ UNCHANGED ecs
        \/ \E i, m, g, t : \/ DeleteECSInstance(i) \/ RunInstances(m, g, t, i)
                            \/ StopOnly(i) \/ ModifyInstanceMetadata(i)
    BY DEF Advance, Describe, HardenMetadata, OffloadUserData, AdoptInstance,
           LaunchInstance, DescribeForDelete, SweepByTag, DeleteInstance,
           CleanupIgnition, PatchConditions, PatchSpec, PatchStatus, Patch,
           Answered, Return
  <2> QED
    BY <1>2, <2>1, OwnersKept
<1>4. ASSUME NEW p, p # "idle", pc' = [pc EXCEPT ![w] = p], UNCHANGED key,
             \/ UNCHANGED target
             \/ \E i \in Handle : /\ i # None => ecs[i].owner = key[w]
                                  /\ target' = [target EXCEPT ![w] = i]
      PROVE  TargetOwned'
  <2> SUFFICES ASSUME NEW v \in Workers, target'[v] # None
               PROVE  pc'[v] # "idle" /\ ecs'[target'[v]].owner = key'[v]
    BY DEF TargetOwned
  <2>1. /\ target'[v] \in Instances
        /\ ecs[target'[v]].owner = key[v] /\ key[v] \in Machines
        /\ v # w => pc[v] # "idle"
    BY <1>2, <1>4 DEF TargetOwned, Typed, TypeOK, HasKey, Handle
  <2>2. pc'[v] # "idle"
    BY <1>4, <2>1 DEF Typed, TypeOK
  <2> QED
    BY <1>3, <1>4, <2>1, <2>2, NoneAssumption DEF Kept
<1>5. \A b, c : FirstPatch(b, c) # "idle" /\ AfterSpec(b, c) # "idle"
                /\ AfterConditions(b, c) # "idle"
  BY DEF FirstPatch, AfterSpec, AfterConditions
<1>6. CASE \E p, c : p # "idle" /\ Goto(w, p, c) /\ UNCHANGED target
  BY <1>4, <1>6 DEF Goto
<1>7. ASSUME NEW c, NEW again, Finish(w, c, again)
      PROVE  TargetOwned'
  BY <1>5, <1>6, <1>7 DEF Finish
<1>8. CASE Describe(w)
  BY <1>6, <1>7, <1>8 DEF Describe, WaitForRunning, FinishWithError, Stay
<1>9. CASE HardenMetadata(w) \/ DeleteInstance(w) \/ CleanupIgnition(w)
  BY <1>7, <1>9 DEF HardenMetadata, DeleteInstance, CleanupIgnition
<1>10. CASE OffloadUserData(w)
  BY <1>6, <1>7, <1>10 DEF OffloadUserData, FinishWithError, Stay
<1>11. CASE AdoptInstance(w)
  BY <1>6, <1>7, <1>11 DEF AdoptInstance, Created, FinishWithError, Stay
<1>12. CASE LaunchInstance(w)
  BY <1>7, <1>12 DEF LaunchInstance, Created, FinishWithError
<1>13. CASE DescribeForDelete(w)
  <2>1. cur[w].instanceID \in Handle
    BY DEF Typed, TypeOK, Object
  <2> QED
    BY <1>2, <1>4, <1>5, <1>13, <2>1 DEF DescribeForDelete, Finish, Goto, Stay,
       Handled
<1>14. CASE SweepByTag(w)
  <2>1. ASSUME NEW i \in Unrecorded(key[w])
        PROVE  i \in Handle /\ ecs[i].owner = key[w]
    BY <1>2, <2>1 DEF Unrecorded, FindInstanceByTag, DistinctNames, SameNames,
                      ECSType, Instance, Handle
  <2> QED
    BY <1>4, <1>5, <1>14, <2>1 DEF SweepByTag, Finish, Goto, Stay
<1>15. CASE PatchConditions(w) \/ PatchSpec(w) \/ PatchStatus(w)
  BY <1>4, <1>5, <1>15 DEF PatchConditions, PatchSpec, PatchStatus, Patch, Answered
<1>16. CASE Return(w)
  BY <1>16 DEF Return, Done, TargetOwned, Typed, TypeOK
<1> QED
  BY <1>8, <1>9, <1>10, <1>11, <1>12, <1>13, <1>14, <1>15, <1>16 DEF Advance

(* A worker never gets ready to delete an instance of another machine than *)
(* the one it deletes, for any number of machines, workers and faults and  *)
(* also after ECS forgot a ClientToken, provided that names tell machines  *)
(* apart and reconcileDelete sweeps for the tag that createInstance set.   *)
THEOREM DeletesOnlyOwn ==
  ASSUME DistinctNames, SameNames
  PROVE  Spec => []DeletesOwnInstance
<1>1. Init => TargetOwned
  BY DEF Init, TargetOwned
<1>2. Typed /\ OwnInv /\ TargetOwned /\ [Next]_vars => TargetOwned'
  <2> SUFFICES ASSUME Typed, OwnInv, TargetOwned, [Next]_vars
               PROVE  TargetOwned'
    OBVIOUS
  <2>1. CASE UNCHANGED vars
    BY <2>1 DEF vars, workerVars, localVars, TargetOwned
  <2>2. ASSUME NEW w \in Workers, NEW m \in Machines, Begin(w, m) \/ Deliver(w, m)
        PROVE  TargetOwned'
    <3>1. CASE SkipReconcile(w, m) \/ Deliver(w, m)
      BY <3>1 DEF SkipReconcile, Deliver, localVars, TargetOwned
    <3>2. ASSUME NEW p, NEW c, NEW again, Start(w, m, p, c, again)
          PROVE  TargetOwned'
      BY <3>2 DEF Start, TargetOwned, Typed, TypeOK
    <3> QED
      BY <2>2, <3>1, <3>2 DEF Begin, WaitForPrerequisites, PrerequisiteFails,
         ProviderIDMismatch, BeginDescribe, BeginCreate, ReleaseUnprovisioned,
         RegionUnknown, BeginDelete, StartAndReturn
  <2>3. ASSUME NEW w \in Workers, Crash(w)
        PROVE  TargetOwned'
    BY <2>3 DEF Crash, Done, TargetOwned, Typed, TypeOK
  <2>4. CASE Environment
    <3>1. Kept(ecs, ecs') /\ UNCHANGED <<pc, key, target>>
      BY <2>4, SurroundingsKeep
    <3>2. \A w \in Workers : /\ target[w] \in Handle
                             /\ pc[w] # "idle" => key[w] \in Machines
      BY DEF Typed, TypeOK, HasKey
    <3> QED
      BY <3>1, <3>2, NoneAssumption DEF TargetOwned, Kept, Handle
  <2> QED
    BY <2>1, <2>2, <2>3, <2>4, TargetAdvance DEF Next
<1>3. Typed /\ TargetOwned => DeletesOwnInstance
  BY DEF Typed, TypeOK, TargetOwned, DeletesOwnInstance, Owned, Handle
<1> QED
  BY <1>1, <1>2, <1>3, OwnAlways, PTL DEF Spec

-----------------------------------------------------------------------------
(* One instance. *)

\* ECS remembers the token of every instance it launched.
TokensKept == \A i \in Instances : ecs[i].owner # None => ecs[i].token

UniqueInv == TokensKept /\ AtMostOneInstance

\* Neither the owner nor the token of an instance changes.
SameLaunch(e, f) ==
  \A i \in Instances : f[i].owner = e[i].owner /\ f[i].token = e[i].token

(* Only RunInstances launches; no other call or event changes an owner or  *)
(* a token while ECS forgets none.                                         *)
LEMMA Launches ==
  ASSUME ~TokensExpire, Typed, [Next]_vars
  PROVE  \/ SameLaunch(ecs, ecs')
         \/ \E m \in Machines, i \in Instances :
               RunInstances(m, Guarded(m), TokensAtBoot(m), i)
<1>1. ECSType /\ (UNCHANGED ecs => SameLaunch(ecs, ecs'))
  BY DEF Typed, TypeOK, ECSType, SameLaunch
<1>2. ASSUME NEW i,
             \/ UNCHANGED ecs \/ DeleteECSInstance(i) \/ StopOnly(i)
             \/ ModifyInstanceMetadata(i) \/ Booted(i) \/ Halted(i) \/ Released(i)
             \/ Joined(i) \/ Restarted(i) \/ Disrupted(i)
      PROVE  SameLaunch(ecs, ecs')
  BY <1>1, <1>2 DEF SameLaunch, ECSType, Instance, DeleteECSInstance, StopOnly,
     ModifyInstanceMetadata, Booted, Halted, Released, Joined, Restarted, Disrupted,
     SetState
<1>3. ASSUME NEW w \in Workers, NEW m \in Machines, Begin(w, m) \/ Deliver(w, m)
      PROVE  UNCHANGED ecs
  BY <1>3 DEF Begin, SkipReconcile, WaitForPrerequisites, PrerequisiteFails,
              ProviderIDMismatch, BeginDescribe, BeginCreate, ReleaseUnprovisioned,
              RegionUnknown, BeginDelete, StartAndReturn, Start, Deliver
<1>4. ASSUME NEW w \in Workers, Advance(w) \/ Crash(w)
      PROVE  \/ SameLaunch(ecs, ecs')
             \/ \E m \in Machines, i \in Instances :
                   RunInstances(m, Guarded(m), TokensAtBoot(m), i)
  <2>1. CASE HardenMetadata(w) \/ DeleteInstance(w)
    BY <1>2, <2>1 DEF HardenMetadata, DeleteInstance
  <2>2. CASE LaunchInstance(w)
    <3>1. key[w] \in Machines
      BY <2>2 DEF LaunchInstance, Typed, HasKey
    <3> QED
      BY <1>1, <2>2, <3>1 DEF LaunchInstance
  <2>3. CASE \/ Describe(w) \/ OffloadUserData(w) \/ AdoptInstance(w)
             \/ DescribeForDelete(w) \/ SweepByTag(w) \/ CleanupIgnition(w)
             \/ PatchConditions(w) \/ PatchSpec(w) \/ PatchStatus(w) \/ Return(w)
             \/ Crash(w)
    BY <1>1, <2>3 DEF Describe, OffloadUserData, AdoptInstance, DescribeForDelete,
       SweepByTag, CleanupIgnition, PatchConditions, PatchSpec, PatchStatus, Patch,
       Answered, Return, Crash
  <2> QED
    BY <1>4, <2>1, <2>2, <2>3 DEF Advance
<1>5. ASSUME NEW i \in Instances,
             ECSProgress(i) \/ NodeJoins(i) \/ OperatorRestarts(i) \/ CloudFault(i)
      PROVE  SameLaunch(ecs, ecs')
  BY <1>2, <1>5 DEF ECSProgress, NodeJoins, OperatorRestarts, CloudFault
<1>6. CASE Environment
  <2>1. UNCHANGED ecs \/ \E i \in Instances :
           ECSProgress(i) \/ NodeJoins(i) \/ OperatorRestarts(i) \/ CloudFault(i)
    BY <1>6 DEF Environment, SetOwner, SetDataSecret, BindNode, Pause, Unpause,
       UnpauseCluster, OwnerDeleted, UserDeletes, ClusterChanges, Event, Silent
  <2> QED
    BY <1>1, <1>5, <2>1
<1> QED
  BY <1>1, <1>3, <1>4, <1>6 DEF Next, vars

(* One instance per machine is inductive together with the tokens: a       *)
(* launch needs a token ECS does not remember, so a machine without one.   *)
LEMMA UniqueStep ==
  ASSUME ~TokensExpire, Typed, UniqueInv, [Next]_vars
  PROVE  UniqueInv'
<1>1. CASE SameLaunch(ecs, ecs')
  BY <1>1 DEF SameLaunch, UniqueInv, TokensKept, AtMostOneInstance
<1>2. ASSUME NEW m \in Machines, NEW i \in Instances,
             RunInstances(m, Guarded(m), TokensAtBoot(m), i)
      PROVE  UniqueInv'
  <2>1. CASE UNCHANGED ecs
    BY <2>1 DEF UniqueInv, TokensKept, AtMostOneInstance
  <2>2. CASE /\ Remembered(m) = {} /\ ecs[i].owner = None
             /\ ecs' = [ecs EXCEPT ![i] = Launched(m, Guarded(m), TokensAtBoot(m))]
    <3>1. \A j \in Instances : ecs[j].owner # m
      BY <2>2, NoneAssumption DEF UniqueInv, TokensKept, Remembered
    <3>2. /\ ecs'[i].owner = m /\ ecs'[i].token
          /\ \A j \in Instances \ {i} : ecs'[j] = ecs[j]
      BY <2>2 DEF Launched, Typed, TypeOK
    <3> QED
      BY <3>1, <3>2, NoneAssumption DEF UniqueInv, TokensKept, AtMostOneInstance
  <2> QED
    BY <1>2, <2>1, <2>2 DEF RunInstances
<1> QED
  BY <1>1, <1>2, Launches

(* There is always one instance, as long as tokens are remembered.         *)
LEMMA UniqueAlways ==
  ASSUME ~TokensExpire
  PROVE  Spec => [](Typed /\ UniqueInv)
<1>1. Init => Typed /\ UniqueInv
  BY InitTyped DEF Init, ECSInit, UniqueInv, TokensKept, AtMostOneInstance
<1>2. Typed /\ UniqueInv /\ [Next]_vars => Typed' /\ UniqueInv'
  BY TypedStep, UniqueStep
<1> QED
  BY <1>1, <1>2, PTL DEF Spec

(* However many workers overlap, crash, read stale copies or lose answers, *)
(* at most one instance is ever launched for a machine while ECS remembers *)
(* its ClientToken - whatever the machines are called.                     *)
THEOREM OneInstance ==
  ASSUME ~TokensExpire
  PROVE  Spec => []AtMostOneInstance
<1>1. Typed /\ UniqueInv => AtMostOneInstance
  BY DEF UniqueInv
<1> QED
  BY <1>1, UniqueAlways, PTL

(* spec.providerID and status.instanceID never name different instances,   *)
(* so findOrCreateInstance's mismatch check is never what fails a machine. *)
THEOREM HandlesNeverDisagree ==
  ASSUME DistinctNames, ~TokensExpire
  PROVE  Spec => []HandlesAgree
<1>1. Typed /\ OwnInv /\ UniqueInv => HandlesAgree
  <2> SUFFICES ASSUME Typed, OwnInv, UniqueInv, NEW m \in Machines
               PROVE  ~Mismatch(obj[m])
    BY DEF HandlesAgree
  <2>1. obj[m].providerID \in Handle /\ obj[m].instanceID \in Handle
    BY DEF Typed, TypeOK, Object
  <2>2. Handled(ecs, obj[m], m) /\ m # None
    BY NoneAssumption DEF OwnInv, StoredHandled
  <2> QED
    BY <2>1, <2>2 DEF Handled, Handle, Mismatch, UniqueInv, AtMostOneInstance
<1> QED
  BY <1>1, OwnAlways, UniqueAlways, PTL
=============================================================================
