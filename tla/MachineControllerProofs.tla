----------------------- MODULE MachineControllerProofs -----------------------
(***************************************************************************)
(* Theorems about the machine controller for any number of machines,       *)
(* workers and instances and any number of faults.                         *)
(***************************************************************************)
EXTENDS MachineProperties, TLAPS

-----------------------------------------------------------------------------
(* Objects: what the operators of AlibabaCloudMachine return. *)

(* Every object the controller builds in memory is an object.              *)
LEMMA ObjectEdits ==
  ASSUME NEW o \in Object
  PROVE  /\ setFailed(o) \in Object
         /\ SetProvisioned(o) \in Object
         /\ Healed(o) \in Object
         /\ RecordedInstance(o) \in Handle
         /\ MarkDeleted(o) \in Object
  BY DEF Object, setFailed, SetProvisioned, Healed, RecordedInstance,
         MarkDeleted, Collect, Handle

(* ... also when it sets one of its flags ...                              *)
LEMMA ObjectFlags ==
  ASSUME NEW o \in Object
  PROVE  /\ [o EXCEPT !.finalizer = TRUE] \in Object
         /\ [o EXCEPT !.finalizer = FALSE] \in Object
         /\ [o EXCEPT !.regionID = TRUE] \in Object
         /\ [o EXCEPT !.cond = FALSE] \in Object
         /\ [o EXCEPT !.hardened = TRUE] \in Object
         /\ [o EXCEPT !.ignitionOSS = TRUE] \in Object
  BY DEF Object

(* ... or one of its handles.                                              *)
LEMMA ObjectHandles ==
  ASSUME NEW o \in Object, NEW i \in Handle
  PROVE  /\ [o EXCEPT !.instanceID = i] \in Object
         /\ [o EXCEPT !.providerID = i, !.instanceID = i] \in Object
  BY DEF Object

(* Dropping the object with its last finalizer changes nothing else.       *)
LEMMA CollectType ==
  ASSUME NEW o \in Object
  PROVE  Collect(o) \in Object
  BY DEF Object, Collect

(* The API server's merges of a patch into an object are objects.          *)
LEMMA ObjectPatches ==
  ASSUME NEW o \in Object, NEW b \in Object, NEW c \in Object
  PROVE  /\ PatchedConditions(o, b, c) \in Object
         /\ PatchedSpec(o, b, c) \in Object
         /\ PatchedStatus(o, b, c) \in Object
<1> DEFINE M(f) == Merge(o[f], b[f], c[f])
<1>1. \A f \in {"finalizer", "regionID", "cond", "ready", "provisioned",
                 "failed", "hardened", "ignitionOSS"} : M(f) \in BOOLEAN
  BY DEF Object, Merge
<1>2. M("providerID") \in Handle /\ M("instanceID") \in Handle
  BY DEF Object, Merge
<1>3. PatchedConditions(o, b, c) \in Object
  BY <1>1 DEF Object, PatchedConditions
<1>4. PatchedStatus(o, b, c) \in Object
  BY <1>1, <1>2 DEF Object, PatchedStatus
<1>5. PatchedSpec(o, b, c) \in Object
  <2> DEFINE p == [o EXCEPT !.finalizer  = Merge(@, b.finalizer, c.finalizer),
                            !.regionID   = Merge(@, b.regionID, c.regionID),
                            !.providerID = Merge(@, b.providerID, c.providerID)]
  <2>1. p \in Object
    BY <1>1, <1>2 DEF Object
  <2>2. PatchedSpec(o, b, c) = Collect(p)
    BY DEF PatchedSpec
  <2> HIDE DEF p
  <2> QED
    BY <2>1, <2>2, CollectType
<1> QED
  BY <1>3, <1>4, <1>5

(* A new object and the empty local copy are objects.                      *)
LEMMA NewObjects ==
  /\ \A r \in BOOLEAN : NewObject(r) \in Object
  /\ NoObject \in Object
  BY DEF Object, NewObject, NoObject, Handle

(* The deferred patch starts at one of its requests, or is over at once.   *)
LEMMA PatchSteps ==
  ASSUME NEW b, NEW c
  PROVE  /\ FirstPatch(b, c) \in Steps
         /\ AfterConditions(b, c) \in Steps
         /\ AfterSpec(b, c) \in Steps
  BY DEF FirstPatch, AfterConditions, AfterSpec, Steps
-----------------------------------------------------------------------------
(* Type correctness.  TypeOK alone is not inductive: a worker that is not  *)
(* idle must be known to hold a machine.                                   *)

HasKey == \A w \in Workers : pc[w] # "idle" => key[w] \in Machines

Typed == TypeOK /\ HasKey

ECSType == ecs \in [Instances -> Instance]

(* Every call and every event of ECS leaves instances ...                  *)
LEMMA ECSTyped ==
  ASSUME ECSType, NEW i,
         \/ UNCHANGED ecs \/ DeleteECSInstance(i)
         \/ StopOnly(i) \/ ModifyInstanceMetadata(i)
         \/ Booted(i) \/ Halted(i) \/ Released(i) \/ Joined(i)
         \/ Restarted(i) \/ Disrupted(i) \/ TokenForgotten(i)
  PROVE  ECSType'
<1> USE DEF ECSType, Instance, States
<1>1. CASE UNCHANGED ecs
  BY <1>1
<1>2. CASE \E s \in States : SetState(i, s)
  BY <1>2 DEF SetState
<1>3. CASE DeleteECSInstance(i)
  <2>1. SetState(i, "Deleted") \/ UNCHANGED ecs
    BY <1>3 DEF DeleteECSInstance
  <2> QED
    BY <1>1, <1>2, <2>1
<1>4. CASE StopOnly(i) \/ Booted(i) \/ Halted(i) \/ Released(i) \/ Restarted(i)
           \/ Disrupted(i)
  <2>1. \/ SetState(i, "Running") \/ SetState(i, "Stopping")
        \/ SetState(i, "Stopped") \/ SetState(i, "Pending")
        \/ SetState(i, "Deleted") \/ SetState(i, "absent")
    BY <1>4 DEF StopOnly, Booted, Halted, Released, Restarted, Disrupted
  <2> QED
    BY <2>1, <1>2
<1>5. CASE ModifyInstanceMetadata(i)
  BY <1>5 DEF ModifyInstanceMetadata
<1>6. CASE Joined(i)
  BY <1>6 DEF Joined
<1>7. CASE TokenForgotten(i)
  BY <1>7 DEF TokenForgotten
<1> QED
  BY <1>1, <1>3, <1>4, <1>5, <1>6, <1>7

(* ... and so does a launch.                                               *)
LEMMA RunTyped ==
  ASSUME ECSType, NEW i, NEW m \in Machines, NEW g \in BOOLEAN, NEW t \in BOOLEAN,
         RunInstances(m, g, t, i)
  PROVE  ECSType'
<1>1. Launched(m, g, t) \in Instance
  BY DEF Launched, Instance, States
<1> QED
  BY <1>1 DEF RunInstances, ECSType

(* A fault is counted within its bound.                                    *)
LEMMA FaultTyped ==
  ASSUME faults \in 0..MaxFaults, Fault \/ UNCHANGED faults
  PROVE  faults' \in 0..MaxFaults
  BY BoundAssumption DEF Fault

(* A reconcile that starts with an object in hand.                         *)
LEMMA StartTyped ==
  ASSUME Typed, NEW w \in Workers, NEW m \in Machines, NEW p \in Steps,
         NEW c \in Object, NEW again \in BOOLEAN, Start(w, m, p, c, again),
         Fault \/ UNCHANGED faults
  PROVE  Typed'
<1> USE DEF Typed, TypeOK, Start
<1>1. faults' \in 0..MaxFaults
  BY FaultTyped
<1>2. HasKey'
  BY DEF HasKey
<1>3. HardeningDue(w, m) \in BOOLEAN
  BY DEF HardeningDue
<1>4. /\ pc' \in [Workers -> Steps]
      /\ key' \in [Workers -> Machines \cup {None}]
      /\ base' \in [Workers -> Object]
      /\ cur' \in [Workers -> Object]
  OBVIOUS
<1>5. /\ harden' \in [Workers -> BOOLEAN]
      /\ requeue' \in [Workers -> BOOLEAN]
      /\ queued' \in [Workers -> [Machines -> BOOLEAN]]
  BY <1>3
<1> QED
  BY <1>1, <1>2, <1>4, <1>5 DEF apiVars, envVars

(* A reconcile that goes on.                                               *)
LEMMA GotoTyped ==
  ASSUME Typed, NEW w \in Workers, NEW p \in Steps, NEW c \in Object,
         pc[w] # "idle", Goto(w, p, c), ECSType', oss' \in SUBSET Machines,
         requeue' \in [Workers -> BOOLEAN], target' \in [Workers -> Handle],
         Fault \/ UNCHANGED faults
  PROVE  Typed'
<1> USE DEF Typed, TypeOK, Goto
<1>1. faults' \in 0..MaxFaults
  BY FaultTyped
<1>2. HasKey'
  BY DEF HasKey
<1>3. pc' \in [Workers -> Steps] /\ cur' \in [Workers -> Object]
  OBVIOUS
<1> QED
  BY <1>1, <1>2, <1>3 DEF envVars, ECSType

(* A reconcile that returns to its deferred patch.                         *)
LEMMA FinishTyped ==
  ASSUME Typed, NEW w \in Workers, NEW c \in Object, NEW again \in BOOLEAN,
         pc[w] # "idle", Finish(w, c, again), ECSType', oss' \in SUBSET Machines,
         Fault \/ UNCHANGED faults
  PROVE  Typed'
<1>1. /\ requeue' \in [Workers -> BOOLEAN]
      /\ target' \in [Workers -> Handle]
  BY DEF Typed, TypeOK, Finish
<1> QED
  BY <1>1, GotoTyped, PatchSteps DEF Finish

(* Picking up a machine keeps the types: one step per action of Begin.     *)
LEMMA BeginTyped ==
  ASSUME Typed, NEW w \in Workers, NEW m \in Machines, Begin(w, m)
  PROVE  Typed'
<1>1. cache[w][m] \in Object
  BY DEF Typed, TypeOK
<1>2. /\ Adopted(w, m) \in Object
      /\ [Adopted(w, m) EXCEPT !.cond = FALSE] \in Object
      /\ setFailed(Adopted(w, m)) \in Object
  <2>1. Adopted(w, m) \in Object
    BY <1>1, ObjectFlags DEF Adopted
  <2> QED
    BY <2>1, ObjectFlags, ObjectEdits
<1>3. ASSUME NEW c \in Object, NEW again \in BOOLEAN, StartAndReturn(w, m, c, again),
             Fault \/ UNCHANGED faults
      PROVE  Typed'
  BY <1>3, StartTyped, PatchSteps DEF StartAndReturn
<1>4. CASE SkipReconcile(w, m)
  BY <1>4 DEF SkipReconcile, Typed, TypeOK, HasKey, apiVars, envVars, localVars
<1>5. CASE WaitForPrerequisites(w, m) \/ PrerequisiteFails(w, m)
  BY <1>2, <1>3, <1>5 DEF WaitForPrerequisites, PrerequisiteFails
<1>6. CASE ProviderIDMismatch(w, m)
  BY <1>2, <1>3, <1>6 DEF ProviderIDMismatch
<1>7. CASE BeginDescribe(w, m)
  BY <1>2, <1>7, StartTyped DEF BeginDescribe, Steps
<1>8. CASE BeginCreate(w, m)
  <2> DEFINE c == [Adopted(w, m) EXCEPT !.regionID = TRUE]
  <2>1. c \in Object
    BY <1>2, ObjectFlags
  <2>2. \/ StartAndReturn(w, m, setFailed(Adopted(w, m)), FALSE)
        \/ StartAndReturn(w, m, setFailed(c), FALSE)
        \/ Start(w, m, "offload", c, FALSE)
        \/ Start(w, m, "find", c, FALSE)
    BY <1>8 DEF BeginCreate
  <2> HIDE DEF c
  <2>3. UNCHANGED faults
    BY <1>8 DEF BeginCreate
  <2>4. setFailed(c) \in Object
    BY <2>1, ObjectEdits
  <2> QED
    BY <1>2, <1>3, <2>1, <2>2, <2>3, <2>4, StartTyped DEF Steps
<1>9. CASE ReleaseUnprovisioned(w, m)
  <2>1. [cache[w][m] EXCEPT !.finalizer = FALSE] \in Object
    BY <1>1, ObjectFlags
  <2> QED
    BY <2>1, <1>3, <1>9 DEF ReleaseUnprovisioned
<1>10. CASE RegionUnknown(w, m)
  BY <1>1, <1>3, <1>10 DEF RegionUnknown
<1>11. CASE BeginDelete(w, m)
  <2> DEFINE o == cache[w][m]
             c == [o EXCEPT !.instanceID = RecordedInstance(o)]
  <2>1. c \in Object
    BY <1>1, ObjectEdits, ObjectHandles
  <2>2. \/ Fault /\ StartAndReturn(w, m, c, TRUE)
        \/ UNCHANGED faults /\ Start(w, m, "delDescribe", c, FALSE)
        \/ UNCHANGED faults /\ Start(w, m, "sweep", c, FALSE)
    BY <1>11 DEF BeginDelete
  <2> HIDE DEF c
  <2> QED
    BY <1>3, <2>1, <2>2, StartTyped DEF Steps
<1> QED
  BY <1>4, <1>5, <1>6, <1>7, <1>8, <1>9, <1>10, <1>11 DEF Begin

(* Every request of a reconcile keeps the types: one step per action of    *)
(* Advance.                                                                *)
LEMMA AdvanceTyped ==
  ASSUME Typed, NEW w \in Workers, Advance(w)
  PROVE  Typed'
<1>1. /\ cur[w] \in Object /\ base[w] \in Object
      /\ cur[w].instanceID \in Handle /\ target[w] \in Handle
      /\ pc[w] # "idle" => key[w] \in Machines /\ obj[key[w]] \in Object
      /\ ECSType /\ oss \in SUBSET Machines
  BY DEF Typed, TypeOK, HasKey, ECSType, Object
<1>2. UNCHANGED ecs => ECSType'
  BY <1>1 DEF ECSType
<1>3. ASSUME NEW c \in Object, NEW again \in BOOLEAN, Finish(w, c, again),
             pc[w] # "idle", ECSType', oss' \in SUBSET Machines,
             Fault \/ UNCHANGED faults
      PROVE  Typed'
  BY <1>3, FinishTyped
<1>4. ASSUME NEW p \in Steps, NEW c \in Object, Goto(w, p, c),
             pc[w] # "idle", ECSType', oss' \in SUBSET Machines,
             UNCHANGED requeue,
             \/ UNCHANGED target
             \/ \E i \in Handle : target' = [target EXCEPT ![w] = i],
             Fault \/ UNCHANGED faults
      PROVE  Typed'
  <2>1. /\ requeue' \in [Workers -> BOOLEAN]
        /\ target' \in [Workers -> Handle]
    BY <1>4 DEF Typed, TypeOK
  <2> QED
    BY <1>4, <2>1, GotoTyped
<1>5. /\ [cur[w] EXCEPT !.cond = FALSE] \in Object
      /\ [cur[w] EXCEPT !.finalizer = FALSE] \in Object
      /\ [cur[w] EXCEPT !.ignitionOSS = TRUE] \in Object
      /\ [cur[w] EXCEPT !.hardened = TRUE] \in Object
      /\ setFailed(cur[w]) \in Object
      /\ SetProvisioned(cur[w]) \in Object
      /\ Healed(cur[w]) \in Object
  BY <1>1, ObjectFlags, ObjectEdits
<1>6. ASSUME FinishWithError(w), pc[w] # "idle", ECSType', oss' \in SUBSET Machines,
             Fault \/ UNCHANGED faults
      PROVE  Typed'
  BY <1>3, <1>5, <1>6 DEF FinishWithError
<1>7. ASSUME NEW i \in Instances, Created(w, i), pc[w] # "idle", ECSType',
             oss' \in SUBSET Machines, Fault \/ UNCHANGED faults
      PROVE  Typed'
  <2>1. [cur[w] EXCEPT !.providerID = i, !.instanceID = i] \in Object
    BY <1>1, ObjectHandles DEF Handle
  <2> QED
    BY <1>3, <1>7, <2>1 DEF Created
<1>8. CASE Describe(w)
  <2> DEFINE c == Healed(cur[w])
  <2>1. /\ pc[w] = "describe" /\ UNCHANGED <<ecs, oss>>
        /\ Fault \/ UNCHANGED faults
        /\ \/ FinishWithError(w)
           \/ Finish(w, setFailed(cur[w]), FALSE)
           \/ Finish(w, setFailed(c), FALSE)
           \/ Finish(w, c, TRUE)
           \/ Finish(w, SetProvisioned(c), FALSE)
           \/ Goto(w, "harden", c) /\ Stay
    BY <1>8 DEF Describe, WaitForRunning
  <2>2. c \in Object
    BY <1>5
  <2> HIDE DEF c
  <2>3. setFailed(c) \in Object /\ SetProvisioned(c) \in Object
    BY <2>2, ObjectEdits
  <2> QED
    BY <1>1, <1>2, <1>3, <1>4, <1>5, <1>6, <2>1, <2>2, <2>3 DEF Stay, Steps
<1>9. CASE HardenMetadata(w)
  <2> DEFINE c == [cur[w] EXCEPT !.hardened = TRUE]
  <2>1. SetProvisioned(c) \in Object
    BY <1>5, ObjectEdits
  <2>2. /\ pc[w] = "harden" /\ UNCHANGED oss
        /\ Fault \/ UNCHANGED faults
        /\ ModifyInstanceMetadata(cur[w].instanceID) \/ UNCHANGED ecs
        /\ \/ Finish(w, SetProvisioned(c), FALSE)
           \/ Finish(w, SetProvisioned(cur[w]), FALSE)
    BY <1>9 DEF HardenMetadata
  <2>3. ECSType'
    BY <1>1, <2>2, ECSTyped
  <2> HIDE DEF c
  <2> QED
    BY <1>1, <1>3, <1>5, <2>1, <2>2, <2>3
<1>10. CASE OffloadUserData(w)
  <2>1. oss' \in SUBSET Machines
    BY <1>1, <1>10 DEF OffloadUserData
  <2> QED
    BY <1>1, <1>2, <1>4, <1>5, <1>6, <1>10, <2>1 DEF OffloadUserData, Stay, Steps
<1>11. CASE AdoptInstance(w)
  <2>1. /\ pc[w] = "find" /\ UNCHANGED <<ecs, oss>>
        /\ Fault \/ UNCHANGED faults
        /\ \/ FinishWithError(w)
           \/ \E i \in Instances : Created(w, i)
           \/ Goto(w, "run", cur[w]) /\ Stay
    BY <1>11 DEF AdoptInstance, FindInstanceByTag
  <2> QED
    BY <1>1, <1>2, <1>4, <1>6, <1>7, <2>1 DEF Stay, Steps
<1>12. CASE LaunchInstance(w)
  <2> DEFINE m == key[w]
  <2>1. /\ pc[w] = "run" /\ UNCHANGED oss
        /\ Fault \/ UNCHANGED faults
        /\ \/ UNCHANGED ecs
           \/ \E i \in Instances : RunInstances(m, Guarded(m), TokensAtBoot(m), i)
        /\ \/ \E i \in Instances : Created(w, i)
           \/ Finish(w, setFailed(cur[w]), FALSE)
           \/ FinishWithError(w)
    BY <1>12 DEF LaunchInstance
  <2>2. m \in Machines /\ Guarded(m) \in BOOLEAN /\ TokensAtBoot(m) \in BOOLEAN
    BY <1>1, <2>1 DEF Guarded, TokensAtBoot, Object
  <2>3. ECSType'
    BY <1>1, <1>2, <2>1, <2>2, RunTyped
  <2> QED
    BY <1>1, <1>3, <1>5, <1>6, <1>7, <2>1, <2>3
<1>13. CASE DescribeForDelete(w)
  <2> DEFINE c == [cur[w] EXCEPT !.cond = FALSE]
  <2>1. /\ pc[w] = "delDescribe" /\ UNCHANGED <<ecs, oss>>
        /\ Fault \/ UNCHANGED faults
        /\ \/ Finish(w, cur[w], TRUE)
           \/ Goto(w, "sweep", cur[w]) /\ Stay
           \/ Finish(w, c, TRUE)
           \/ /\ Goto(w, "deleteECS", c) /\ UNCHANGED requeue
              /\ target' = [target EXCEPT ![w] = cur[w].instanceID]
    BY <1>13 DEF DescribeForDelete
  <2>2. c \in Object
    BY <1>5
  <2> HIDE DEF c
  <2> QED
    BY <1>1, <1>2, <1>3, <1>4, <2>1, <2>2 DEF Stay, Steps
<1>14. CASE SweepByTag(w)
  <2>1. /\ pc[w] = "sweep" /\ UNCHANGED <<ecs, oss>>
        /\ Fault \/ UNCHANGED faults
        /\ \/ Finish(w, cur[w], TRUE)
           \/ /\ Goto(w, "deleteECS", cur[w]) /\ UNCHANGED requeue
              /\ \E i \in Handle : target' = [target EXCEPT ![w] = i]
           \/ Goto(w, "cleanup", cur[w]) /\ Stay
           \/ Finish(w, [cur[w] EXCEPT !.finalizer = FALSE], FALSE)
    BY <1>14 DEF SweepByTag, Unrecorded, FindInstanceByTag, Handle
  <2> QED
    BY <1>1, <1>2, <1>3, <1>4, <1>5, <2>1 DEF Stay, Steps
<1>15. CASE DeleteInstance(w)
  <2>1. /\ pc[w] = "deleteECS" /\ UNCHANGED oss
        /\ Fault \/ UNCHANGED faults
        /\ \/ DeleteECSInstance(target[w]) \/ UNCHANGED ecs \/ StopOnly(target[w])
        /\ Finish(w, cur[w], TRUE)
    BY <1>15 DEF DeleteInstance
  <2>2. ECSType'
    BY <1>1, <2>1, ECSTyped
  <2> QED
    BY <1>1, <1>3, <2>1, <2>2
<1>16. CASE CleanupIgnition(w)
  BY <1>1, <1>2, <1>3, <1>5, <1>16 DEF CleanupIgnition
<1>17. ASSUME NEW new \in Object, NEW p \in Steps, NEW accepted,
              Patch(w, accepted, new, p), pc[w] # "idle"
       PROVE  Typed'
  <2>1. /\ obj' \in [Machines -> Object] /\ requeue' \in [Workers -> BOOLEAN]
        /\ pc' \in [Workers -> Steps] /\ faults' \in 0..MaxFaults
    BY <1>1, <1>17, FaultTyped DEF Typed, TypeOK, Patch, Answered
  <2>2. HasKey'
    BY <1>17 DEF Typed, TypeOK, HasKey, Patch, Answered
  <2> QED
    BY <1>17, <2>1, <2>2 DEF Typed, TypeOK, Patch, Answered, envVars
<1>18. CASE PatchConditions(w) \/ PatchSpec(w)
  BY <1>1, <1>17, <1>18, ObjectPatches, PatchSteps DEF PatchConditions, PatchSpec
<1>19. CASE PatchStatus(w)
  <2>1. pc[w] # "idle" /\ "return" \in Steps
    BY <1>19 DEF PatchStatus, Steps
  <2>2. CASE Answered(w, "return") /\ UNCHANGED <<obj, requeue, faults>>
    <3>1. HasKey' /\ pc' \in [Workers -> Steps]
      BY <2>1, <2>2 DEF Typed, TypeOK, HasKey, Answered
    <3> QED
      BY <2>2, <3>1 DEF Typed, TypeOK, Answered, envVars
  <2> QED
    BY <1>1, <1>17, <1>19, <2>1, <2>2, ObjectPatches DEF PatchStatus
<1>20. CASE Return(w)
  <2>1. queued' \in [Workers -> [Machines -> BOOLEAN]]
    BY <1>1, <1>20 DEF Return, Typed, TypeOK
  <2>2. HasKey' /\ "idle" \in Steps
    BY <1>20 DEF Return, Done, Typed, TypeOK, HasKey, Steps
  <2>3. None \in Handle /\ NoObject \in Object
    BY NewObjects DEF Handle
  <2> QED
    BY <1>20, <2>1, <2>2, <2>3 DEF Return, Done, Typed, TypeOK, apiVars, envVars
<1> QED
  BY <1>8, <1>9, <1>10, <1>11, <1>12, <1>13, <1>14, <1>15, <1>16, <1>18, <1>19,
     <1>20 DEF Advance

(* The informers, a restart of the process and everything around the       *)
(* controller keep the types.                                              *)
LEMMA SurroundingsTyped ==
  ASSUME Typed,
         \/ \E w \in Workers, m \in Machines : Deliver(w, m)
         \/ \E w \in Workers : Crash(w)
         \/ Environment
  PROVE  Typed'
<1> USE DEF apiVars, envVars, localVars, workerVars
<1>1. ASSUME NEW w \in Workers, NEW m \in Machines, Deliver(w, m)
      PROVE  Typed'
  <2>1. /\ cache' \in [Workers -> [Machines -> Object]]
        /\ queued' \in [Workers -> [Machines -> BOOLEAN]]
    BY <1>1 DEF Deliver, Typed, TypeOK
  <2> QED
    BY <1>1, <2>1 DEF Deliver, Typed, TypeOK, HasKey
<1>2. ASSUME NEW w \in Workers, Crash(w)
      PROVE  Typed'
  <2>1. /\ cache' \in [Workers -> [Machines -> Object]]
        /\ queued' \in [Workers -> [Machines -> BOOLEAN]]
        /\ faults' \in 0..MaxFaults
    BY <1>2, FaultTyped DEF Crash, Typed, TypeOK
  <2>2. HasKey' /\ "idle" \in Steps
    BY <1>2 DEF Crash, Done, Typed, TypeOK, HasKey, Steps
  <2>3. None \in Handle /\ NoObject \in Object
    BY NewObjects DEF Handle
  <2> QED
    BY <1>2, <2>1, <2>2, <2>3 DEF Crash, Done, Typed, TypeOK
<1>3. ASSUME NEW m \in Machines, NEW r \in MachineType, Event(m, r) \/ Silent(m, r),
             pauses' \in 0..MaxPauses
      PROVE  Typed'
  <2>1. machine' \in [Machines -> MachineType]
    BY <1>3 DEF Event, Silent, Typed, TypeOK
  <2>2. queued' \in [Workers -> [Machines -> BOOLEAN]]
    <3>1. \A v \in Workers : [queued[v] EXCEPT ![m] = TRUE] \in [Machines -> BOOLEAN]
      BY DEF Typed, TypeOK
    <3>2. CASE Event(m, r)
      BY <3>1, <3>2 DEF Event, Enqueue
    <3>3. CASE Silent(m, r)
      BY <3>3 DEF Silent, Typed, TypeOK
    <3> QED
      BY <1>3, <3>2, <3>3
  <2> QED
    BY <1>3, <2>1, <2>2 DEF Event, Silent, Typed, TypeOK, HasKey
<1>4. /\ UNCHANGED pauses => pauses' \in 0..MaxPauses
      /\ pauses < MaxPauses /\ pauses' = pauses + 1 => pauses' \in 0..MaxPauses
  BY BoundAssumption DEF Typed, TypeOK
<1>5. ASSUME NEW m \in Machines, NEW l \in Links
      PROVE  /\ [machine[m] EXCEPT !.link = l] \in MachineType
             /\ [machine[m] EXCEPT !.dataSecret = TRUE] \in MachineType
             /\ [machine[m] EXCEPT !.nodeRef = TRUE] \in MachineType
  BY <1>5 DEF Typed, TypeOK, MachineType
<1>6. ASSUME NEW m \in Machines, SetOwner(m) \/ Unpause(m) \/ UnpauseCluster(m)
      PROVE  Typed'
  BY <1>3, <1>4, <1>5, <1>6 DEF SetOwner, Unpause, UnpauseCluster, Links
<1>7. ASSUME NEW m \in Machines, SetDataSecret(m) \/ BindNode(m)
      PROVE  Typed'
  <2>1. "linked" \in Links
    BY DEF Links
  <2> QED
    BY <1>3, <1>4, <1>5, <1>7, <2>1 DEF SetDataSecret, BindNode
<1>8. ASSUME NEW m \in Machines, Pause(m) \/ OwnerDeleted(m)
      PROVE  Typed'
  BY <1>3, <1>4, <1>5, <1>8 DEF Pause, OwnerDeleted, Links
<1>9. ASSUME NEW m \in Machines, UserDeletes(m)
      PROVE  Typed'
  <2>1. obj' \in [Machines -> Object]
    BY <1>9, ObjectEdits DEF UserDeletes, Typed, TypeOK
  <2> QED
    BY <1>9, <2>1 DEF UserDeletes, Typed, TypeOK, HasKey
<1>10. ASSUME NEW i \in Instances,
              ECSProgress(i) \/ NodeJoins(i) \/ OperatorRestarts(i) \/ CloudFault(i)
       PROVE  Typed'
  <2>1. /\ UNCHANGED <<apiVars, envVars, workerVars>>
        /\ Fault \/ UNCHANGED faults
        /\ \/ Booted(i) \/ Halted(i) \/ Released(i) \/ Joined(i) \/ Restarted(i)
           \/ Disrupted(i) \/ TokenForgotten(i)
    BY <1>10 DEF ECSProgress, NodeJoins, OperatorRestarts, CloudFault
  <2>2. ECSType
    BY DEF Typed, TypeOK, ECSType
  <2>3. ECSType' /\ faults' \in 0..MaxFaults
    BY <2>1, <2>2, ECSTyped, FaultTyped DEF Typed, TypeOK
  <2> QED
    BY <2>1, <2>3 DEF Typed, TypeOK, HasKey, ECSType
<1>11. CASE ClusterChanges
  <2>1. pauses' \in 0..MaxPauses
    BY <1>4, <1>11 DEF ClusterChanges
  <2> QED
    BY <1>11, <2>1 DEF ClusterChanges, Infra!BecomesReady,
       Infra!DomainAppears, Infra!DomainGoes, Typed, TypeOK, HasKey
<1> QED
  BY <1>1, <1>2, <1>6, <1>7, <1>8, <1>9, <1>10, <1>11 DEF Environment

(* The initial states are typed.                                           *)
LEMMA InitTyped ==
  ASSUME Init
  PROVE  Typed
<1>1. ecs \in [Instances -> Instance]
  BY DEF Init, ECSInit, Instance, States
<1>2. obj \in [Machines -> Object]
  <2>1. \A m \in Machines : spec[m].regionID \in BOOLEAN
    <3>1. \A m \in Machines : spec[m] \in SpecType
      BY SpecsAssumption DEF Init
    <3> QED
      BY <3>1 DEF SpecType
  <2> QED
    BY <2>1, NewObjects DEF Init
<1>3. machine \in [Machines -> MachineType]
  BY BoundAssumption DEF Init, MachineType, Links
<1>4. faults \in 0..MaxFaults /\ pauses \in 0..MaxPauses
  BY BoundAssumption DEF Init
<1>5. /\ base \in [Workers -> Object] /\ cur \in [Workers -> Object]
      /\ target \in [Workers -> Handle]
  BY NewObjects DEF Init, Handle
<1>6. pc \in [Workers -> Steps] /\ HasKey
  BY DEF Init, Steps, HasKey
<1> QED
  BY <1>1, <1>2, <1>3, <1>4, <1>5, <1>6 DEF Init, Typed, TypeOK

(* Typed is inductive.                                                     *)
LEMMA TypedStep ==
  ASSUME Typed, [Next]_vars
  PROVE  Typed'
<1>1. CASE UNCHANGED vars
  BY <1>1 DEF vars, apiVars, envVars, workerVars, localVars, Typed, TypeOK, HasKey
<1>2. CASE Next
  BY <1>2, BeginTyped, AdvanceTyped, SurroundingsTyped DEF Next
<1> QED
  BY <1>1, <1>2

(* A worker in the middle of a reconcile always holds a machine.           *)
LEMMA TypedAlways == Spec => []Typed
<1>1. Init => Typed
  BY InitTyped
<1>2. Typed /\ [Next]_vars => Typed'
  BY TypedStep
<1> QED
  BY <1>1, <1>2, PTL DEF Spec

(* Every reachable state of the controller is well typed: in particular    *)
(* every handle an object, a cache or a worker holds is nil or an instance *)
(* (providerIDFor never builds one from an empty region), and the deferred *)
(* patch always acts on a machine.                                         *)
THEOREM TypeCorrect == Spec => []TypeOK
<1>1. Typed => TypeOK
  BY DEF Typed
<1> QED
  BY <1>1, TypedAlways, PTL

(* Only the three requests of the deferred patch and a user's delete write *)
(* an object.                                                              *)
LEMMA ObjectWriters ==
  ASSUME Next
  PROVE  \/ UNCHANGED obj
         \/ \E w \in Workers : PatchConditions(w) \/ PatchSpec(w) \/ PatchStatus(w)
         \/ \E m \in Machines : UserDeletes(m)
<1> USE DEF apiVars
<1>1. ASSUME NEW w \in Workers, NEW m \in Machines, Begin(w, m) \/ Deliver(w, m)
      PROVE  UNCHANGED obj
  BY <1>1 DEF Begin, SkipReconcile, WaitForPrerequisites, PrerequisiteFails,
              ProviderIDMismatch, BeginDescribe, BeginCreate, ReleaseUnprovisioned,
              RegionUnknown, BeginDelete, StartAndReturn, Start, Deliver
<1>2. ASSUME NEW w \in Workers, Advance(w) \/ Crash(w)
      PROVE  UNCHANGED obj \/ PatchConditions(w) \/ PatchSpec(w) \/ PatchStatus(w)
  BY <1>2 DEF Advance, Describe, HardenMetadata, OffloadUserData, AdoptInstance,
              LaunchInstance, DescribeForDelete, SweepByTag, DeleteInstance,
              CleanupIgnition, Return, Crash, FinishWithError, WaitForRunning,
              Created, Finish, Goto
<1>3. CASE Environment
  BY <1>3 DEF Environment, SetOwner, SetDataSecret, BindNode, Pause, Unpause,
              UnpauseCluster, OwnerDeleted, ECSProgress, NodeJoins,
              OperatorRestarts, CloudFault, ClusterChanges, Event, Silent
<1> QED
  BY <1>1, <1>2, <1>3 DEF Next
=============================================================================
