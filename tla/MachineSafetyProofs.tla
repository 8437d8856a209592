------------------------- MODULE MachineSafetyProofs -------------------------
(***************************************************************************)
(* What happens to the instances while the controller works: hardening     *)
(* waits for the node, a finalizer holds what was launched under it, two   *)
(* instances of a machine are never alive at once, and a machine that      *)
(* cannot bind is not left Ready.                                          *)
(***************************************************************************)
EXTENDS MachineIdentityProofs

\* Leader election leaves one controller process.
OneWorker == \A v, w \in Workers : v = w

-----------------------------------------------------------------------------
(* What a step does to the instances: it launches one, hardens one, or     *)
(* does neither and revives none.                                          *)

Quiet ==
  \A i \in Instances :
     /\ ecs'[i].owner = ecs[i].owner
     /\ ecs'[i].guarded = ecs[i].guarded
     /\ ecs'[i].tokensRequired = ecs[i].tokensRequired
     /\ ecs[i].joined => ecs'[i].joined
     /\ Live(i)' => Live(i)

Launch(w, i) ==
  /\ LaunchInstance(w)
  /\ ecs[i].owner = None
  /\ ecs' = [ecs EXCEPT ![i] = Launched(key[w], Guarded(key[w]), TokensAtBoot(key[w]))]

Harden(w) == HardenMetadata(w) /\ ModifyInstanceMetadata(cur[w].instanceID)

(* Calls that only change an instance's state, and ECS on its own, are     *)
(* quiet: no state change leads from absent or Deleted to a live state.    *)
LEMMA ECSQuiet ==
  ASSUME ECSType, NEW i,
         \/ UNCHANGED ecs \/ DeleteECSInstance(i) \/ StopOnly(i)
         \/ Booted(i) \/ Halted(i) \/ Released(i) \/ Joined(i)
         \/ Restarted(i) \/ Disrupted(i) \/ TokenForgotten(i)
  PROVE  Quiet
<1> USE DEF ECSType, Instance, Quiet, Live
<1>1. CASE UNCHANGED ecs
  BY <1>1
<1>2. ASSUME NEW s \in States, SetState(i, s),
             s \in {"absent", "Deleted"} \/ ecs[i].state \notin {"absent", "Deleted"}
      PROVE  Quiet
  BY <1>2 DEF SetState
<1>3. CASE Joined(i) \/ TokenForgotten(i)
  BY <1>3 DEF Joined, TokenForgotten
<1>4. CASE DeleteECSInstance(i)
  BY <1>1, <1>2, <1>4 DEF DeleteECSInstance, States
<1>5. CASE Booted(i) \/ Halted(i) \/ Released(i) \/ Restarted(i)
  BY <1>2, <1>5 DEF Booted, Halted, Released, Restarted, States
<1>6. CASE StopOnly(i) \/ Disrupted(i)
  BY <1>2, <1>6 DEF StopOnly, Disrupted, States
<1> QED
  BY <1>1, <1>3, <1>4, <1>5, <1>6

(* Every step of the system, seen from ECS.                                *)
LEMMA InstanceSteps ==
  ASSUME Typed, [Next]_vars
  PROVE  \/ Quiet
         \/ \E w \in Workers, i \in Instances : Launch(w, i)
         \/ \E w \in Workers : Harden(w)
<1>1. ECSType
  BY DEF Typed, TypeOK, ECSType
<1>2. UNCHANGED ecs => Quiet
  BY DEF Quiet, Live
<1>3. ASSUME NEW w \in Workers, NEW m \in Machines, Begin(w, m) \/ Deliver(w, m)
      PROVE  UNCHANGED ecs
  BY <1>3 DEF Begin, SkipReconcile, WaitForPrerequisites, PrerequisiteFails,
              ProviderIDMismatch, BeginDescribe, BeginCreate, ReleaseUnprovisioned,
              RegionUnknown, BeginDelete, StartAndReturn, Start, Deliver
<1>4. ASSUME NEW w \in Workers, Advance(w) \/ Crash(w)
      PROVE  Quiet \/ Harden(w) \/ \E i \in Instances : Launch(w, i)
  <2>1. CASE HardenMetadata(w)
    BY <1>2, <2>1 DEF HardenMetadata, Harden
  <2>2. CASE DeleteInstance(w)
    BY <1>1, <2>2, ECSQuiet DEF DeleteInstance
  <2>3. CASE LaunchInstance(w)
    BY <1>2, <2>3 DEF LaunchInstance, RunInstances, Launch
  <2>4. CASE \/ Describe(w) \/ OffloadUserData(w) \/ AdoptInstance(w)
             \/ DescribeForDelete(w) \/ SweepByTag(w) \/ CleanupIgnition(w)
             \/ PatchConditions(w) \/ PatchSpec(w) \/ PatchStatus(w) \/ Return(w)
             \/ Crash(w)
    BY <1>2, <2>4 DEF Describe, OffloadUserData, AdoptInstance, DescribeForDelete,
       SweepByTag, CleanupIgnition, PatchConditions, PatchSpec, PatchStatus, Patch,
       Answered, Return, Crash
  <2> QED
    BY <1>4, <2>1, <2>2, <2>3, <2>4 DEF Advance
<1>5. CASE Environment
  <2>1. UNCHANGED ecs \/ \E i \in Instances :
           ECSProgress(i) \/ NodeJoins(i) \/ OperatorRestarts(i) \/ CloudFault(i)
    BY <1>5 DEF Environment, SetOwner, SetDataSecret, BindNode, Pause, Unpause,
       UnpauseCluster, OwnerDeleted, UserDeletes, ClusterChanges, Event, Silent
  <2>2. ASSUME NEW i \in Instances,
               ECSProgress(i) \/ NodeJoins(i) \/ OperatorRestarts(i) \/ CloudFault(i)
        PROVE  Quiet
    BY <1>1, <2>2, ECSQuiet DEF ECSProgress, NodeJoins, OperatorRestarts, CloudFault
  <2> QED
    BY <1>2, <2>1, <2>2
<1> QED
  BY <1>2, <1>3, <1>4, <1>5 DEF Next, vars

-----------------------------------------------------------------------------
(* Hardening waits for the node.  The gate is opened by the nodeRef of the *)
(* owning Machine, read when the reconcile starts; what is modified is the *)
(* instance the object records.                                            *)

\* A machine has a nodeRef only if an instance of it joined.
NodeOfInstance ==
  \A m \in Machines :
     machine[m].nodeRef => \E i \in Instances : ecs[i].owner = m /\ ecs[i].joined

\* An open gate stays justified, and hardening is only reached through it.
GateOpen ==
  \A w \in Workers : /\ harden[w] => key[w] \in Machines /\ machine[key[w]].nodeRef
                     /\ pc[w] = "harden" => harden[w]

\* IMDS is touched of launched instances only.
OnlyLaunched == \A i \in Instances : ecs[i].owner = None => ~ecs[i].tokensRequired

JoinInv == NodeOfInstance /\ GateOpen /\ OnlyLaunched /\ HardenAfterJoin

(* A nodeRef is set by CAPI core alone and never taken back.               *)
LEMMA NodeRefSteps ==
  ASSUME Typed, [Next]_vars, NEW m \in Machines
  PROVE  /\ machine[m].nodeRef => machine'[m].nodeRef
         /\ machine'[m].nodeRef => machine[m].nodeRef \/ BindNode(m)
         /\ spec' = spec
<1> USE DEF apiVars, envVars
<1>1. machine \in [Machines -> MachineType]
  BY DEF Typed, TypeOK
<1>2. CASE machine' = machine /\ spec' = spec
  BY <1>2
<1>3. ASSUME NEW n \in Machines, NEW r,
             machine' = [machine EXCEPT ![n] = r], r.nodeRef = machine[n].nodeRef
      PROVE  machine'[m].nodeRef = machine[m].nodeRef
  BY <1>1, <1>3
<1>4. ASSUME NEW n \in Machines,
             \/ SetOwner(n) \/ SetDataSecret(n) \/ Pause(n) \/ Unpause(n)
             \/ UnpauseCluster(n) \/ OwnerDeleted(n)
      PROVE  machine'[m].nodeRef = machine[m].nodeRef /\ spec' = spec
  <2>1. \A l : /\ [machine[n] EXCEPT !.link = l].nodeRef = machine[n].nodeRef
               /\ [machine[n] EXCEPT !.dataSecret = TRUE].nodeRef = machine[n].nodeRef
    BY <1>1 DEF MachineType
  <2>2. /\ spec' = spec
        /\ \/ \E l : machine' = [machine EXCEPT ![n] = [machine[n] EXCEPT !.link = l]]
           \/ machine' = [machine EXCEPT ![n] = [machine[n] EXCEPT !.dataSecret = TRUE]]
    BY <1>4 DEF SetOwner, SetDataSecret, Pause, Unpause, UnpauseCluster,
                OwnerDeleted, Event, Silent
  <2> QED
    BY <1>3, <2>1, <2>2
<1>5. ASSUME NEW n \in Machines, BindNode(n)
      PROVE  /\ machine[m].nodeRef => machine'[m].nodeRef
             /\ machine'[m].nodeRef => machine[m].nodeRef \/ BindNode(m)
             /\ spec' = spec
  <2>1. /\ machine' = [machine EXCEPT ![n] = [machine[n] EXCEPT !.nodeRef = TRUE]]
        /\ spec' = spec
    BY <1>5 DEF BindNode, Event
  <2>2. [machine[n] EXCEPT !.nodeRef = TRUE].nodeRef = TRUE
    BY <1>1 DEF MachineType
  <2>3. CASE n = m
    BY <1>1, <1>5, <2>1, <2>2, <2>3
  <2>4. CASE n # m
    BY <1>1, <2>1, <2>4
  <2> QED
    BY <2>3, <2>4
<1>6. ASSUME NEW w \in Workers, NEW n \in Machines, Begin(w, n) \/ Deliver(w, n)
      PROVE  machine' = machine /\ spec' = spec
  BY <1>6 DEF Begin, SkipReconcile, WaitForPrerequisites, PrerequisiteFails,
              ProviderIDMismatch, BeginDescribe, BeginCreate, ReleaseUnprovisioned,
              RegionUnknown, BeginDelete, StartAndReturn, Start, Deliver
<1>7. ASSUME NEW w \in Workers, Advance(w) \/ Crash(w)
      PROVE  machine' = machine /\ spec' = spec
  BY <1>7 DEF Advance, Describe, HardenMetadata, OffloadUserData, AdoptInstance,
              LaunchInstance, DescribeForDelete, SweepByTag, DeleteInstance,
              CleanupIgnition, PatchConditions, PatchSpec, PatchStatus, Patch,
              Answered, Return, Crash, FinishWithError, WaitForRunning, Created,
              Finish, Goto
<1>8. CASE Environment
  <2>1. \/ machine' = machine /\ spec' = spec
        \/ \E n \in Machines :
             \/ SetOwner(n) \/ SetDataSecret(n) \/ Pause(n) \/ Unpause(n)
             \/ UnpauseCluster(n) \/ OwnerDeleted(n) \/ BindNode(n)
    BY <1>8 DEF Environment, UserDeletes, ECSProgress, NodeJoins, OperatorRestarts,
                CloudFault, ClusterChanges
  <2> QED
    BY <1>2, <1>4, <1>5, <2>1
<1> QED
  BY <1>2, <1>6, <1>7, <1>8 DEF Next, vars

(* The gate is evaluated when a reconcile starts, kept while it runs and   *)
(* shut when it ends.                                                      *)
LEMMA GateSteps ==
  ASSUME Typed, [Next]_vars, NEW w \in Workers
  PROVE  \/ /\ harden'[w] = harden[w] /\ key'[w] = key[w]
            /\ pc'[w] = "harden" => pc[w] = "harden" \/ harden[w]
         \/ \E m \in Machines : /\ harden'[w] = HardeningDue(w, m) /\ key'[w] = m
                                /\ pc'[w] # "harden"
         \/ ~harden'[w] /\ pc'[w] # "harden"
<1> DEFINE Same == /\ harden'[w] = harden[w] /\ key'[w] = key[w]
                   /\ pc'[w] = "harden" => pc[w] = "harden" \/ harden[w]
           Opened == \E m \in Machines : /\ harden'[w] = HardeningDue(w, m)
                                         /\ key'[w] = m /\ pc'[w] # "harden"
           Shut == ~harden'[w] /\ pc'[w] # "harden"
<1> USE DEF localVars, workerVars
<1>1. UNCHANGED <<pc, key, harden>> => Same
  OBVIOUS
<1>2. \A b, c : /\ FirstPatch(b, c) # "harden" /\ AfterSpec(b, c) # "harden"
                /\ AfterConditions(b, c) # "harden"
  BY DEF FirstPatch, AfterSpec, AfterConditions
<1>3. ASSUME NEW v \in Workers, NEW m \in Machines, NEW p, NEW c, NEW again,
             Start(v, m, p, c, again), p # "harden"
      PROVE  Same \/ Opened
  BY <1>3 DEF Start, Typed, TypeOK
<1>4. ASSUME NEW v \in Workers, NEW m \in Machines, Begin(v, m)
      PROVE  Same \/ Opened
  <2>1. \/ SkipReconcile(v, m)
        \/ \E p, c, again : p # "harden" /\ Start(v, m, p, c, again)
    BY <1>2, <1>4 DEF Begin, WaitForPrerequisites, PrerequisiteFails,
       ProviderIDMismatch, BeginDescribe, BeginCreate, ReleaseUnprovisioned,
       RegionUnknown, BeginDelete, StartAndReturn
  <2> QED
    BY <1>1, <1>3, <2>1 DEF SkipReconcile
<1>5. ASSUME NEW v \in Workers, Done(v)
      PROVE  Same \/ Shut
  BY <1>5 DEF Done, Typed, TypeOK
<1>6. ASSUME NEW v \in Workers, NEW p, pc' = [pc EXCEPT ![v] = p],
             UNCHANGED <<key, harden>>, p = "harden" => harden[v]
      PROVE  Same
  BY <1>6 DEF Typed, TypeOK
<1>7. ASSUME NEW v \in Workers, Advance(v)
      PROVE  Same \/ Shut
  <2>1. CASE Describe(v)
    <3>1. \E p, c : Goto(v, p, c) /\ (p = "harden" => harden[v])
      BY <1>2, <2>1 DEF Describe, WaitForRunning, FinishWithError, Finish
    <3> QED
      BY <1>6, <3>1 DEF Goto
  <2>2. CASE \/ HardenMetadata(v) \/ OffloadUserData(v) \/ AdoptInstance(v)
             \/ LaunchInstance(v) \/ DescribeForDelete(v) \/ SweepByTag(v)
             \/ DeleteInstance(v) \/ CleanupIgnition(v)
    <3>1. ASSUME NEW c, NEW again, Finish(v, c, again)
          PROVE  Same
      BY <1>2, <1>6, <3>1 DEF Finish, Goto
    <3>2. ASSUME NEW p, NEW c, Goto(v, p, c), p # "harden"
          PROVE  Same
      BY <1>6, <3>2 DEF Goto
    <3>3. CASE HardenMetadata(v) \/ DeleteInstance(v) \/ CleanupIgnition(v)
      BY <3>1, <3>3 DEF HardenMetadata, DeleteInstance, CleanupIgnition
    <3>4. CASE OffloadUserData(v) \/ DescribeForDelete(v) \/ SweepByTag(v)
      BY <3>1, <3>2, <3>4 DEF OffloadUserData, DescribeForDelete, SweepByTag,
         FinishWithError
    <3>5. CASE AdoptInstance(v) \/ LaunchInstance(v)
      BY <3>1, <3>2, <3>5 DEF AdoptInstance, LaunchInstance, Created, FinishWithError
    <3> QED
      BY <2>2, <3>3, <3>4, <3>5
  <2>3. CASE PatchConditions(v) \/ PatchSpec(v) \/ PatchStatus(v)
    BY <1>2, <1>6, <2>3 DEF PatchConditions, PatchSpec, PatchStatus, Patch, Answered
  <2>4. CASE Return(v)
    BY <1>5, <2>4 DEF Return
  <2> QED
    BY <1>7, <2>1, <2>2, <2>3, <2>4 DEF Advance
<1>8. CASE Environment
  <2>1. UNCHANGED <<pc, key, harden>>
    BY <1>8 DEF Environment, SetOwner, SetDataSecret, BindNode, Pause, Unpause,
       UnpauseCluster, OwnerDeleted, UserDeletes, ECSProgress, NodeJoins,
       OperatorRestarts, CloudFault, ClusterChanges, Event, Silent
  <2> QED
    BY <1>1, <2>1
<1>9. ASSUME NEW v \in Workers, NEW m \in Machines, Deliver(v, m)
      PROVE  Same
  BY <1>1, <1>9 DEF Deliver
<1>10. ASSUME NEW v \in Workers, Crash(v)
       PROVE  Same \/ Shut
  BY <1>5, <1>10 DEF Crash
<1>11. CASE UNCHANGED vars
  BY <1>1, <1>11 DEF vars
<1> QED
  BY <1>4, <1>7, <1>8, <1>9, <1>10, <1>11 DEF Next

(* JoinInv is inductive when every handle names an instance of its machine *)
(* and there is one of them: the instance that is hardened then is the one *)
(* that joined.                                                            *)
LEMMA JoinStep ==
  ASSUME Typed, OwnInv, AtMostOneInstance, JoinInv, [Next]_vars
  PROVE  JoinInv'
<1> DEFINE Lasting ==
      \A i \in Instances : ecs[i].owner # None => /\ ecs'[i].owner = ecs[i].owner
                                                  /\ ecs[i].joined => ecs'[i].joined
<1>1. \A m \in Machines : /\ machine[m].nodeRef => machine'[m].nodeRef
                          /\ machine'[m].nodeRef => machine[m].nodeRef \/ BindNode(m)
  BY NodeRefSteps
<1>2. \A m \in Machines : spec'[m] = spec[m]
  BY NodeRefSteps
<1>3. Lasting
  <2>1. CASE Quiet
    BY <2>1 DEF Quiet
  <2>2. ASSUME NEW w \in Workers, NEW i \in Instances, Launch(w, i)
        PROVE  Lasting
    BY <2>2 DEF Launch, Typed, TypeOK
  <2>3. ASSUME NEW w \in Workers, Harden(w)
        PROVE  Lasting
    BY <2>3 DEF Harden, ModifyInstanceMetadata, Typed, TypeOK, Instance
  <2> QED
    BY <2>1, <2>2, <2>3, InstanceSteps
<1>4. NodeOfInstance'
  <2> SUFFICES ASSUME NEW m \in Machines, machine'[m].nodeRef
               PROVE  \E i \in Instances : ecs'[i].owner = m /\ ecs'[i].joined
    BY DEF NodeOfInstance
  <2>1. \E i \in Instances : ecs[i].owner = m /\ ecs[i].joined
    <3>1. CASE BindNode(m)
      <4>1. obj[m].providerID \in Instances /\ ecs[obj[m].providerID].joined
        BY <3>1 DEF BindNode, Typed, TypeOK, Object, Handle
      <4>2. ecs[obj[m].providerID].owner = m
        BY <3>1 DEF BindNode, OwnInv, StoredHandled, Handled
      <4> QED
        BY <4>1, <4>2
    <3>2. CASE machine[m].nodeRef
      BY <3>2 DEF JoinInv, NodeOfInstance
    <3> QED
      BY <1>1, <3>1, <3>2
  <2> QED
    BY <1>3, <2>1, NoneAssumption
<1>5. GateOpen'
  <2> SUFFICES ASSUME NEW w \in Workers
               PROVE  /\ harden'[w] => /\ key'[w] \in Machines
                                       /\ machine'[key'[w]].nodeRef
                      /\ pc'[w] = "harden" => harden'[w]
    BY DEF GateOpen
  <2>1. CASE /\ harden'[w] = harden[w] /\ key'[w] = key[w]
             /\ pc'[w] = "harden" => pc[w] = "harden" \/ harden[w]
    BY <1>1, <2>1 DEF JoinInv, GateOpen
  <2>2. CASE \E m \in Machines : /\ harden'[w] = HardeningDue(w, m) /\ key'[w] = m
                                 /\ pc'[w] # "harden"
    BY <1>1, <2>2 DEF HardeningDue
  <2>3. CASE ~harden'[w] /\ pc'[w] # "harden"
    BY <2>3
  <2> QED
    BY <2>1, <2>2, <2>3, GateSteps
<1>6. OnlyLaunched' /\ HardenAfterJoin'
  <2> SUFFICES ASSUME NEW i \in Instances, ecs'[i].tokensRequired
               PROVE  /\ ecs'[i].owner \in Machines
                      /\ TokensAtBoot(ecs'[i].owner) \/ ecs'[i].joined
    BY <1>2, NoneAssumption DEF OnlyLaunched, HardenAfterJoin, TokensAtBoot
  <2>1. CASE ecs[i].tokensRequired
    <3>1. ecs[i].owner \in Machines
      BY <2>1 DEF JoinInv, OnlyLaunched, Typed, TypeOK, Instance
    <3>2. TokensAtBoot(ecs[i].owner) \/ ecs[i].joined
      BY <2>1 DEF JoinInv, HardenAfterJoin
    <3>3. ecs'[i].owner = ecs[i].owner /\ (ecs[i].joined => ecs'[i].joined)
      BY <1>3, <3>1, NoneAssumption
    <3> QED
      BY <3>1, <3>2, <3>3
  <2>2. CASE ~ecs[i].tokensRequired /\ Quiet
    BY <2>2 DEF Quiet
  <2>3. ASSUME ~ecs[i].tokensRequired, NEW w \in Workers, NEW j \in Instances,
               Launch(w, j)
        PROVE  ecs'[i].owner \in Machines /\ TokensAtBoot(ecs'[i].owner)
    <3>1. key[w] \in Machines
      BY <2>3 DEF Launch, LaunchInstance, Typed, HasKey
    <3>2. i = j
      BY <2>3 DEF Launch, Typed, TypeOK
    <3>3. ecs'[i].owner = key[w] /\ ecs'[i].tokensRequired = TokensAtBoot(key[w])
      BY <2>3, <3>2 DEF Launch, Launched, Typed, TypeOK
    <3> QED
      BY <3>1, <3>3
  <2>4. ASSUME ~ecs[i].tokensRequired, NEW w \in Workers, Harden(w)
        PROVE  ecs'[i].owner \in Machines /\ ecs'[i].joined
    <3>1. pc[w] = "harden" /\ key[w] \in Machines
      BY <2>4 DEF Harden, HardenMetadata, Typed, HasKey
    <3>2. i = cur[w].instanceID
      BY <2>4 DEF Harden, ModifyInstanceMetadata, Typed, TypeOK
    <3>3. ecs[i].owner = key[w]
      BY <3>1, <3>2, NoneAssumption DEF OwnInv, MemoryHandled, Handled
    <3>4. PICK j \in Instances : ecs[j].owner = key[w] /\ ecs[j].joined
      BY <3>1 DEF JoinInv, GateOpen, NodeOfInstance
    <3>5. i = j
      BY <3>1, <3>3, <3>4, NoneAssumption DEF AtMostOneInstance
    <3> QED
      BY <1>3, <3>1, <3>3, <3>4, <3>5, NoneAssumption
  <2> QED
    BY <2>1, <2>2, <2>3, <2>4, InstanceSteps
<1> QED
  BY <1>4, <1>5, <1>6 DEF JoinInv

(* maybeHardenMetadata requires IMDS tokens of an instance that booted     *)
(* without them only once that very instance's node joined - for any       *)
(* number of machines, overlapping workers, crashes and stale copies,      *)
(* provided names tell machines apart and ECS remembers ClientTokens.      *)
THEOREM HardensAfterJoin ==
  ASSUME DistinctNames, ~TokensExpire
  PROVE  Spec => []HardenAfterJoin
<1>1. Init => JoinInv
  BY DEF Init, ECSInit, JoinInv, NodeOfInstance, GateOpen, OnlyLaunched,
         HardenAfterJoin
<1>2. /\ Typed /\ OwnInv /\ UniqueInv /\ JoinInv /\ [Next]_vars => JoinInv'
      /\ JoinInv => HardenAfterJoin
  BY JoinStep DEF UniqueInv, JoinInv
<1> QED
  BY <1>1, <1>2, OwnAlways, UniqueAlways, PTL DEF Spec

-----------------------------------------------------------------------------
(* One live instance.  Without ClientTokens only the lookup by tag keeps a *)
(* controller from launching twice: between the lookup and the launch      *)
(* nothing of the machine's comes to life, when nobody else launches.      *)

\* Between lookup and launch the machine has no live instance.
NoneBeforeLaunch ==
  \A w \in Workers, i \in Instances :
     pc[w] = "run" /\ Live(i) => ecs[i].owner # key[w]

\* Only launched instances live.
LiveIsOwned == \A i \in Instances : Live(i) => ecs[i].owner # None

LiveInv == NoneBeforeLaunch /\ LiveIsOwned /\ OneLiveInstance

\* The lookup by tag found nothing of the machine.
LookedUp(w) ==
  AdoptInstance(w) /\ UNCHANGED ecs /\ FindInstanceByTag(OwnerName[key[w]]) = {}

(* A worker comes to the launch from the lookup, and leaves with it.       *)
LEMMA RunSteps ==
  ASSUME Typed, [Next]_vars, NEW w \in Workers, pc'[w] = "run"
  PROVE  /\ key'[w] = key[w]
         /\ (pc[w] = "run" /\ ~LaunchInstance(w)) \/ LookedUp(w)
<1> DEFINE G == /\ key'[w] = key[w]
                /\ (pc[w] = "run" /\ ~LaunchInstance(w)) \/ LookedUp(w)
<1> USE DEF localVars, workerVars
<1>1. \A b, c : /\ FirstPatch(b, c) # "run" /\ AfterSpec(b, c) # "run"
                /\ AfterConditions(b, c) # "run"
  BY DEF FirstPatch, AfterSpec, AfterConditions
<1>2. ASSUME NEW v \in Workers, NEW c, NEW again, Finish(v, c, again)
      PROVE  v # w /\ UNCHANGED key /\ pc'[w] = pc[w]
  BY <1>1, <1>2 DEF Finish, Goto, Typed, TypeOK
<1>3. ASSUME LaunchInstance(w)
      PROVE  FALSE
  BY <1>2, <1>3 DEF LaunchInstance, Created, FinishWithError
<1>4. CASE UNCHANGED <<pc, key>>
  BY <1>3, <1>4
<1>5. ASSUME NEW v \in Workers, v # w, pc'[w] = pc[w], key'[w] = key[w]
      PROVE  G
  BY <1>3, <1>5
<1>6. ASSUME NEW v \in Workers, NEW m \in Machines, Begin(v, m)
      PROVE  G
  <2>1. ASSUME NEW p, NEW c, NEW again, Start(v, m, p, c, again), p # "run"
        PROVE  G
    BY <1>5, <2>1 DEF Start, Typed, TypeOK
  <2> QED
    BY <1>1, <1>4, <1>6, <2>1 DEF Begin, SkipReconcile, WaitForPrerequisites,
       PrerequisiteFails, ProviderIDMismatch, BeginDescribe, BeginCreate,
       ReleaseUnprovisioned, RegionUnknown, BeginDelete, StartAndReturn
<1>7. ASSUME NEW v \in Workers, Done(v)
      PROVE  G
  BY <1>5, <1>7 DEF Done, Typed, TypeOK
<1>8. ASSUME NEW v \in Workers, Advance(v)
      PROVE  G
  <2>1. ASSUME NEW p, NEW c, Goto(v, p, c), p # "run"
        PROVE  G
    BY <1>5, <2>1 DEF Goto, Typed, TypeOK
  <2>2. ASSUME NEW c, NEW again, Finish(v, c, again)
        PROVE  G
    BY <1>1, <2>1, <2>2 DEF Finish
  <2>3. CASE Describe(v) \/ HardenMetadata(v)
    BY <2>1, <2>2, <2>3 DEF Describe, HardenMetadata, WaitForRunning, FinishWithError
  <2>4. CASE OffloadUserData(v) \/ LaunchInstance(v)
    BY <2>1, <2>2, <2>4 DEF OffloadUserData, LaunchInstance, Created, FinishWithError
  <2>5. CASE AdoptInstance(v)
    <3>1. CASE v = w /\ LookedUp(w) /\ Goto(w, "run", cur[w])
      BY <3>1 DEF Goto
    <3>2. CASE v # w
      <4>1. \E p, c : Goto(v, p, c)
        BY <2>5 DEF AdoptInstance, Created, FinishWithError, Finish
      <4> QED
        BY <1>5, <3>2, <4>1 DEF Goto, Typed, TypeOK
    <3>3. CASE v = w
      BY <2>2, <2>5, <3>1, <3>3 DEF AdoptInstance, Created, FinishWithError, LookedUp
    <3> QED
      BY <3>2, <3>3
  <2>6. CASE DescribeForDelete(v) \/ SweepByTag(v) \/ DeleteInstance(v)
             \/ CleanupIgnition(v)
    BY <2>1, <2>2, <2>6 DEF DescribeForDelete, SweepByTag, DeleteInstance,
                            CleanupIgnition
  <2>7. CASE PatchConditions(v) \/ PatchSpec(v) \/ PatchStatus(v)
    <3>1. \E p : p # "run" /\ pc' = [pc EXCEPT ![v] = p] /\ UNCHANGED key
      BY <1>1, <2>7 DEF PatchConditions, PatchSpec, PatchStatus, Patch, Answered
    <3> QED
      BY <1>5, <3>1 DEF Typed, TypeOK
  <2>8. CASE Return(v)
    BY <1>7, <2>8 DEF Return
  <2> QED
    BY <1>8, <2>3, <2>4, <2>5, <2>6, <2>7, <2>8 DEF Advance
<1>9. CASE Environment
  BY <1>4, <1>9, SurroundingsKeep
<1>10. ASSUME NEW v \in Workers, NEW m \in Machines, Deliver(v, m)
       PROVE  G
  BY <1>4, <1>10 DEF Deliver
<1>11. ASSUME NEW v \in Workers, Crash(v)
       PROVE  G
  BY <1>7, <1>11 DEF Crash
<1>12. CASE UNCHANGED vars
  BY <1>4, <1>12 DEF vars
<1> QED
  BY <1>6, <1>8, <1>9, <1>10, <1>11, <1>12 DEF Next

(* LiveInv is inductive for one worker.                                    *)
LEMMA LiveStep ==
  ASSUME OneWorker, Typed, LiveInv, [Next]_vars
  PROVE  LiveInv'
<1>1. ASSUME \A i \in Instances : ecs'[i].owner = ecs[i].owner /\ (Live(i)' => Live(i))
      PROVE  LiveInv'
  <2>1. LiveIsOwned' /\ OneLiveInstance'
    BY <1>1 DEF LiveInv, LiveIsOwned, OneLiveInstance
  <2>2. NoneBeforeLaunch'
    <3> SUFFICES ASSUME NEW w \in Workers, NEW i \in Instances,
                        pc'[w] = "run", Live(i)'
                 PROVE  ecs'[i].owner # key'[w]
      BY DEF NoneBeforeLaunch
    <3>1. Live(i) /\ ecs'[i].owner = ecs[i].owner /\ key'[w] = key[w]
      BY <1>1, RunSteps
    <3>2. CASE pc[w] = "run"
      BY <3>1, <3>2 DEF LiveInv, NoneBeforeLaunch
    <3>3. CASE LookedUp(w)
      BY <3>1, <3>3 DEF LookedUp, FindInstanceByTag, LiveInv, LiveIsOwned
    <3> QED
      BY <3>2, <3>3, RunSteps
  <2> QED
    BY <2>1, <2>2 DEF LiveInv
<1>2. CASE Quiet
  BY <1>1, <1>2 DEF Quiet
<1>3. ASSUME NEW w \in Workers, Harden(w)
      PROVE  LiveInv'
  <2>1. \A i \in Instances : ecs'[i].owner = ecs[i].owner /\ ecs'[i].state = ecs[i].state
    BY <1>3 DEF Harden, ModifyInstanceMetadata, Typed, TypeOK, Instance
  <2> QED
    BY <1>1, <2>1 DEF Live
<1>4. ASSUME NEW w \in Workers, NEW i \in Instances, Launch(w, i)
      PROVE  LiveInv'
  <2>1. /\ pc[w] = "run" /\ key[w] \in Machines
        /\ ecs'[i].owner = key[w]
        /\ \A j \in Instances \ {i} : ecs'[j] = ecs[j]
    BY <1>4 DEF Launch, LaunchInstance, Launched, Typed, TypeOK, HasKey
  <2>2. LiveIsOwned' /\ OneLiveInstance'
    BY <2>1, NoneAssumption DEF LiveInv, LiveIsOwned, OneLiveInstance,
       NoneBeforeLaunch, Live
  <2>3. \A v \in Workers : pc'[v] # "run"
    <3>1. LaunchInstance(w) /\ ~AdoptInstance(w)
      BY <1>4 DEF Launch, LaunchInstance, AdoptInstance
    <3> QED
      BY <3>1, RunSteps DEF OneWorker, LookedUp
  <2> QED
    BY <2>2, <2>3 DEF LiveInv, NoneBeforeLaunch
<1> QED
  BY <1>2, <1>3, <1>4, InstanceSteps

(* Two instances of one machine are never alive at once, though ECS may    *)
(* forget any ClientToken at any time: one controller's adopt-by-tag is    *)
(* enough, for any number of machines, faults and whatever they are called.*)
THEOREM OneLive ==
  ASSUME OneWorker
  PROVE  Spec => []OneLiveInstance
<1>1. Init => LiveInv
  BY DEF Init, ECSInit, LiveInv, NoneBeforeLaunch, LiveIsOwned, OneLiveInstance, Live
<1>2. /\ Typed /\ LiveInv /\ [Next]_vars => LiveInv'
      /\ LiveInv => OneLiveInstance
  BY LiveStep DEF LiveInv
<1> QED
  BY <1>1, <1>2, TypedAlways, PTL DEF Spec

-----------------------------------------------------------------------------
(* What a finalizer holds.  reconcileDelete removes it from what it read   *)
(* and from what the tag sweep told it, and the patch sends the removal    *)
(* later; the invariant says that by then nothing launched under the       *)
(* finalizer is alive, and that no copy of the object makes the delete     *)
(* path take its nothing-was-provisioned shortcut while something is.      *)

\* m has a live instance that was launched under its finalizer and region.
Threat(m) == \E i \in Instances : ecs[i].owner = m /\ ecs[i].guarded /\ Live(i)

CreateSteps == {"offload", "find", "run"}

KeepSteps == {"describe", "harden", "delDescribe", "sweep", "deleteECS"}

\* The object is held, and a copy that is being deleted shows its region.
Held ==
  \A m \in Machines :
     Threat(m) => /\ Guarded(m)
                  /\ \A w \in Workers : cache[w][m].deleting => cache[w][m].regionID

\* A create works under the finalizer, and a copy delivered meanwhile is as
\* good as the object.
CreatesHeld ==
  \A w \in Workers :
     pc[w] \in CreateSteps =>
        /\ cur[w].finalizer
        /\ cache[w][key[w]].deleting /\ obj[key[w]].regionID
              => cache[w][key[w]].regionID

\* The finalizer is about to go, or gone in memory and not yet in the API.
Releasing(w) ==
  pc[w] = "cleanup" \/ (pc[w] # "idle" /\ base[w].finalizer /\ ~cur[w].finalizer)

\* Up to the sweep the finalizer is kept in memory; it is given up only when
\* nothing of the machine is left.
ReleasesNothing ==
  \A w \in Workers :
     /\ pc[w] \in KeepSteps /\ base[w].finalizer => cur[w].finalizer
     /\ Releasing(w) => ~Threat(key[w])

GuardInv == Held /\ CreatesHeld /\ ReleasesNothing

(* Only a launch puts a machine under threat, and only a guarded one.      *)
LEMMA ThreatSteps ==
  ASSUME Typed, [Next]_vars
  PROVE  \/ \A m \in Machines : Threat(m)' => Threat(m)
         \/ \E w \in Workers, i \in Instances :
              /\ Launch(w, i)
              /\ \A m \in Machines :
                    Threat(m)' => Threat(m) \/ (m = key[w] /\ Guarded(m))
<1>1. CASE Quiet
  BY <1>1 DEF Quiet, Threat
<1>2. ASSUME NEW w \in Workers, Harden(w)
      PROVE  \A m \in Machines : Threat(m)' => Threat(m)
  <2>1. \A i \in Instances : /\ ecs'[i].owner = ecs[i].owner
                             /\ ecs'[i].guarded = ecs[i].guarded
                             /\ ecs'[i].state = ecs[i].state
    BY <1>2 DEF Harden, ModifyInstanceMetadata, Typed, TypeOK, Instance
  <2> QED
    BY <2>1 DEF Threat, Live
<1>3. ASSUME NEW w \in Workers, NEW i \in Instances, Launch(w, i)
      PROVE  \A m \in Machines : Threat(m)' => Threat(m) \/ (m = key[w] /\ Guarded(m))
  <2>1. /\ ecs'[i].owner = key[w] /\ ecs'[i].guarded = Guarded(key[w])
        /\ \A j \in Instances \ {i} : ecs'[j] = ecs[j]
    BY <1>3 DEF Launch, Launched, Typed, TypeOK
  <2> QED
    BY <2>1 DEF Threat, Live
<1> QED
  BY <1>1, <1>2, <1>3, InstanceSteps

(* A reconcile starts.                                                     *)
LEMMA StartGuarded ==
  ASSUME OneWorker, Typed, GuardInv, NEW w \in Workers, NEW m \in Machines, NEW p,
         NEW c, NEW again, Start(w, m, p, c, again), p # "cleanup",
         p \in CreateSteps => c.finalizer /\ ~cache[w][m].deleting,
         p \in KeepSteps /\ cache[w][m].finalizer => c.finalizer,
         cache[w][m].finalizer /\ ~c.finalizer => ~Threat(m)
  PROVE  GuardInv'
<1>1. /\ UNCHANGED <<ecs, obj, cache>>
      /\ pc'[w] = p /\ key'[w] = m /\ base'[w] = cache[w][m] /\ cur'[w] = c
      /\ \A v \in Workers : v = w
  BY DEF Start, apiVars, Typed, TypeOK, OneWorker
<1>2. Held'
  BY <1>1 DEF GuardInv, Held, Threat, Guarded, Live
<1>3. CreatesHeld'
  BY <1>1 DEF CreatesHeld
<1>4. ReleasesNothing'
  BY <1>1 DEF ReleasesNothing, Releasing, Threat, Live
<1> QED
  BY <1>2, <1>3, <1>4 DEF GuardInv

(* A reconcile goes on, without a launch.                                  *)
LEMMA GotoGuarded ==
  ASSUME OneWorker, Typed, GuardInv, NEW w \in Workers, NEW p, NEW c, Goto(w, p, c),
         \A m \in Machines : Threat(m)' => Threat(m), pc[w] # "idle",
         p \in CreateSteps => pc[w] \in CreateSteps /\ c.finalizer,
         p \in KeepSteps /\ base[w].finalizer => c.finalizer,
         p = "cleanup" \/ (base[w].finalizer /\ ~c.finalizer) => ~Threat(key[w])
  PROVE  GuardInv'
<1>1. /\ UNCHANGED <<obj, cache>> /\ key[w] \in Machines
      /\ pc'[w] = p /\ key'[w] = key[w] /\ base'[w] = base[w] /\ cur'[w] = c
      /\ \A v \in Workers : v = w
  BY DEF Goto, Typed, TypeOK, OneWorker, HasKey
<1>2. Held'
  BY <1>1 DEF GuardInv, Held, Guarded
<1>3. CreatesHeld'
  BY <1>1 DEF GuardInv, CreatesHeld
<1>4. ReleasesNothing'
  <2>1. Threat(key[w])' => Threat(key[w])
    BY <1>1 DEF Goto
  <2> QED
    BY <1>1 DEF ReleasesNothing, Releasing
<1> QED
  BY <1>2, <1>3, <1>4 DEF GuardInv

(* Picking up a machine.  The shortcut of the delete path is only open to  *)
(* a copy without a region, hence without a threat.                        *)
LEMMA BeginGuarded ==
  ASSUME OneWorker, Typed, GuardInv, NEW w \in Workers, NEW m \in Machines, Begin(w, m)
  PROVE  GuardInv'
<1> DEFINE o == cache[w][m]
<1>1. o \in Object
  BY DEF Typed, TypeOK
<1>2. \A b, c : FirstPatch(b, c) \notin CreateSteps \cup KeepSteps \cup {"cleanup"}
  BY DEF FirstPatch, AfterConditions, AfterSpec, CreateSteps, KeepSteps
<1>3. CASE SkipReconcile(w, m)
  BY <1>3 DEF SkipReconcile, apiVars, localVars, GuardInv, Held, CreatesHeld,
              ReleasesNothing, Releasing, Threat, Guarded, Live
<1>4. ASSUME NEW c, NEW again, StartAndReturn(w, m, c, again),
             o.finalizer /\ ~c.finalizer => ~Threat(m)
      PROVE  GuardInv'
  BY <1>2, <1>4, StartGuarded DEF StartAndReturn
<1>5. /\ Adopted(w, m).finalizer /\ Adopted(w, m) \in Object
      /\ setFailed(Adopted(w, m)).finalizer
      /\ [Adopted(w, m) EXCEPT !.cond = FALSE].finalizer
      /\ [Adopted(w, m) EXCEPT !.regionID = TRUE].finalizer
      /\ setFailed([Adopted(w, m) EXCEPT !.regionID = TRUE]).finalizer
  BY <1>1 DEF Adopted, setFailed, Object
<1>6. CASE WaitForPrerequisites(w, m) \/ PrerequisiteFails(w, m)
           \/ ProviderIDMismatch(w, m)
  BY <1>4, <1>5, <1>6 DEF WaitForPrerequisites, PrerequisiteFails, ProviderIDMismatch
<1>7. CASE BeginDescribe(w, m)
  BY <1>5, <1>7, StartGuarded DEF BeginDescribe, CreateSteps
<1>8. CASE BeginCreate(w, m)
  <2> DEFINE r == [Adopted(w, m) EXCEPT !.regionID = TRUE]
  <2>1. /\ ~o.deleting
        /\ \/ StartAndReturn(w, m, setFailed(Adopted(w, m)), FALSE)
           \/ StartAndReturn(w, m, setFailed(r), FALSE)
           \/ Start(w, m, "offload", r, FALSE)
           \/ Start(w, m, "find", r, FALSE)
    BY <1>8 DEF BeginCreate, Normal
  <2>2. setFailed(r).finalizer /\ r.finalizer
    BY <1>5
  <2> HIDE DEF r
  <2> QED
    BY <1>4, <1>5, <2>1, <2>2, StartGuarded DEF KeepSteps
<1>9. CASE ReleaseUnprovisioned(w, m)
  <2>1. o.deleting /\ ~o.regionID
    BY <1>9 DEF ReleaseUnprovisioned, regionFromMachine
  <2>2. ~Threat(m)
    BY <2>1 DEF GuardInv, Held
  <2> QED
    BY <1>4, <1>9, <2>2 DEF ReleaseUnprovisioned
<1>10. CASE RegionUnknown(w, m)
  BY <1>4, <1>10 DEF RegionUnknown
<1>11. CASE BeginDelete(w, m)
  <2> DEFINE c == [o EXCEPT !.instanceID = RecordedInstance(o)]
  <2>1. c.finalizer = o.finalizer
    BY <1>1 DEF Object
  <2>2. \/ StartAndReturn(w, m, c, TRUE)
        \/ Start(w, m, "delDescribe", c, FALSE)
        \/ Start(w, m, "sweep", c, FALSE)
    BY <1>11 DEF BeginDelete
  <2> HIDE DEF c
  <2> QED
    BY <1>4, <2>1, <2>2, StartGuarded DEF CreateSteps
<1> QED
  BY <1>3, <1>6, <1>7, <1>8, <1>9, <1>10, <1>11 DEF Begin

(* The edits of a reconcile that are not about the finalizer keep it.      *)
LEMMA FinalizerEdits ==
  ASSUME NEW o \in Object
  PROVE  /\ setFailed(o).finalizer = o.finalizer
         /\ SetProvisioned(o).finalizer = o.finalizer
         /\ Healed(o).finalizer = o.finalizer
         /\ [o EXCEPT !.cond = FALSE].finalizer = o.finalizer
         /\ [o EXCEPT !.hardened = TRUE].finalizer = o.finalizer
         /\ [o EXCEPT !.ignitionOSS = TRUE].finalizer = o.finalizer
         /\ \A i : [o EXCEPT !.providerID = i, !.instanceID = i].finalizer = o.finalizer
  BY DEF Object, setFailed, SetProvisioned, Healed

(* A launch, answered or not: what it puts under threat is guarded.        *)
LEMMA LaunchGuarded ==
  ASSUME OneWorker, Typed, GuardInv, NEW w \in Workers, LaunchInstance(w)
  PROVE  GuardInv'
<1>1. /\ pc[w] = "run" /\ key[w] \in Machines /\ cur[w] \in Object
      /\ \A v \in Workers : v = w
  BY DEF LaunchInstance, Typed, TypeOK, HasKey, OneWorker
<1>2. cur[w].finalizer /\ (cache[w][key[w]].deleting /\ obj[key[w]].regionID
                              => cache[w][key[w]].regionID)
  BY <1>1 DEF GuardInv, CreatesHeld, CreateSteps
<1>3. PICK c : Goto(w, FirstPatch(base[w], c), c) /\ c.finalizer
  <2>1. ASSUME NEW d, NEW again, Finish(w, d, again), d.finalizer
        PROVE  \E c : Goto(w, FirstPatch(base[w], c), c) /\ c.finalizer
    BY <2>1 DEF Finish
  <2>2. ASSUME NEW i, Created(w, i)
        PROVE  \E c : Goto(w, FirstPatch(base[w], c), c) /\ c.finalizer
    <3> DEFINE d == [cur[w] EXCEPT !.providerID = i, !.instanceID = i]
    <3>1. Finish(w, d, TRUE) /\ d.finalizer
      BY <1>1, <1>2, <2>2, FinalizerEdits DEF Created
    <3> HIDE DEF d
    <3> QED
      BY <2>1, <3>1
  <2>3. CASE Finish(w, setFailed(cur[w]), FALSE)
    BY <1>1, <1>2, <2>1, <2>3, FinalizerEdits
  <2>4. CASE FinishWithError(w)
    <3> DEFINE d == [cur[w] EXCEPT !.cond = FALSE]
    <3>1. Finish(w, d, TRUE) /\ d.finalizer
      BY <1>1, <1>2, <2>4, FinalizerEdits DEF FinishWithError
    <3> HIDE DEF d
    <3> QED
      BY <2>1, <3>1
  <2> QED
    BY <2>2, <2>3, <2>4 DEF LaunchInstance
<1>4. FirstPatch(base[w], c) \notin CreateSteps \cup KeepSteps \cup {"cleanup"}
  BY DEF FirstPatch, AfterConditions, AfterSpec, CreateSteps, KeepSteps
<1>5. /\ UNCHANGED <<obj, cache>> /\ cur'[w] = c /\ pc'[w] = FirstPatch(base[w], c)
  BY <1>3 DEF Goto, Typed, TypeOK
<1>6. \A m \in Machines : Threat(m)' => Threat(m) \/ (m = key[w] /\ Guarded(m))
  <2>1. Next
    BY DEF Next, Advance
  <2>2. \/ \A m \in Machines : Threat(m)' => Threat(m)
        \/ \E v \in Workers : \A m \in Machines :
              Threat(m)' => Threat(m) \/ (m = key[v] /\ Guarded(m))
    BY <2>1, ThreatSteps
  <2> QED
    BY <1>1, <2>2
<1>7. Held'
  BY <1>1, <1>2, <1>5, <1>6 DEF GuardInv, Held, Guarded
<1>8. CreatesHeld' /\ ReleasesNothing'
  BY <1>1, <1>3, <1>4, <1>5 DEF CreatesHeld, ReleasesNothing, Releasing
<1> QED
  BY <1>7, <1>8 DEF GuardInv

HeldObject(o) == o.exists /\ o.finalizer /\ o.regionID

(* What a patch of the worker's own machine does to an object that is      *)
(* held: the finalizer goes only if this worker gave it up, and the region *)
(* never goes.                                                             *)
LEMMA PatchHolds ==
  ASSUME NEW o \in Object, NEW b \in Object, NEW c \in Object, HeldObject(o),
         ~(b.finalizer /\ ~c.finalizer)
  PROVE  /\ HeldObject(PatchedConditions(o, b, c))
         /\ HeldObject(PatchedStatus(o, b, c))
         /\ ValidateUpdate(o, PatchedSpec(o, b, c)) => HeldObject(PatchedSpec(o, b, c))
<1> USE DEF HeldObject
<1>1. HeldObject(PatchedConditions(o, b, c)) /\ HeldObject(PatchedStatus(o, b, c))
  BY DEF PatchedConditions, PatchedStatus, Object
<1>2. PatchedSpec(o, b, c).exists /\ PatchedSpec(o, b, c).finalizer
  BY DEF PatchedSpec, Collect, Merge, Object
<1> QED
  BY <1>1, <1>2 DEF ValidateUpdate

(* A request of the deferred patch.                                        *)
LEMMA PatchGuarded ==
  ASSUME OneWorker, Typed, GuardInv, NEW w \in Workers,
         PatchConditions(w) \/ PatchSpec(w) \/ PatchStatus(w)
  PROVE  GuardInv'
<1> DEFINE m == key[w]
           o == obj[m]
           b == base[w]
           c == cur[w]
<1>0. pc[w] # "idle"
  BY DEF PatchConditions, PatchSpec, PatchStatus
<1>1. /\ m \in Machines /\ o \in Object /\ b \in Object /\ c \in Object
      /\ \A v \in Workers : v = w
  BY DEF PatchConditions, PatchSpec, PatchStatus, Typed, TypeOK, HasKey, OneWorker
<1>2. /\ UNCHANGED <<ecs, cache, key, base, cur>>
      /\ pc'[w] \notin CreateSteps \cup KeepSteps \cup {"cleanup"}
  BY DEF PatchConditions, PatchSpec, PatchStatus, Patch, Answered, AfterConditions,
         AfterSpec, CreateSteps, KeepSteps, Typed, TypeOK
<1>3. \/ UNCHANGED obj
      \/ obj' = [obj EXCEPT ![m] = PatchedConditions(o, b, c)]
      \/ obj' = [obj EXCEPT ![m] = PatchedStatus(o, b, c)]
      \/ /\ ValidateUpdate(o, PatchedSpec(o, b, c))
         /\ obj' = [obj EXCEPT ![m] = PatchedSpec(o, b, c)]
  BY DEF PatchConditions, PatchSpec, PatchStatus, Patch
<1>4. \A n \in Machines : Threat(n)' = Threat(n)
  BY <1>2 DEF Threat, Live
<1>5. ASSUME NEW n \in Machines, Threat(n)
      PROVE  HeldObject(obj'[n])
  <2>1. HeldObject(obj[n])
    BY <1>5 DEF GuardInv, Held, Guarded, HeldObject
  <2>2. CASE n # m \/ UNCHANGED obj
    BY <1>3, <2>1, <2>2 DEF Typed, TypeOK
  <2>3. CASE n = m
    <3>1. ~(b.finalizer /\ ~c.finalizer)
      BY <1>0, <1>5, <2>3 DEF GuardInv, ReleasesNothing, Releasing
    <3> HIDE DEF o, b, c
    <3>2. HeldObject(o)
      BY <2>1, <2>3 DEF o
    <3>3. \/ UNCHANGED obj
          \/ obj'[m] = PatchedConditions(o, b, c)
          \/ obj'[m] = PatchedStatus(o, b, c)
          \/ /\ ValidateUpdate(o, PatchedSpec(o, b, c))
             /\ obj'[m] = PatchedSpec(o, b, c)
      BY <1>1, <1>3 DEF Typed, TypeOK
    <3> QED
      BY <1>1, <2>1, <2>3, <3>1, <3>2, <3>3, PatchHolds
  <2> QED
    BY <2>2, <2>3
<1>6. Held'
  BY <1>2, <1>4, <1>5 DEF GuardInv, Held, Guarded, HeldObject
<1>7. CreatesHeld' /\ ReleasesNothing'
  BY <1>0, <1>1, <1>2, <1>4 DEF GuardInv, CreatesHeld, ReleasesNothing, Releasing
<1> QED
  BY <1>6, <1>7 DEF GuardInv

(* A reconcile ends, or the process restarts with fresh copies.            *)
LEMMA DoneGuarded ==
  ASSUME OneWorker, Typed, GuardInv, NEW w \in Workers, Done(w),
         UNCHANGED <<ecs, obj>>,
         \A m \in Machines : cache'[w][m] \in {cache[w][m], obj[m]}
  PROVE  GuardInv'
<1>1. pc'[w] = "idle" /\ \A v \in Workers : v = w
  BY DEF Done, Typed, TypeOK, OneWorker
<1>2. Held'
  BY <1>1 DEF GuardInv, Held, Threat, Guarded, Live
<1>3. CreatesHeld' /\ ReleasesNothing'
  BY <1>1 DEF CreatesHeld, ReleasesNothing, Releasing, CreateSteps, KeepSteps
<1> QED
  BY <1>2, <1>3 DEF GuardInv

(* Every request of a reconcile keeps GuardInv: one step per action of     *)
(* Advance.  SweepByTag is where the names matter: it must look for the    *)
(* tag the create path set.                                                *)
LEMMA AdvanceGuarded ==
  ASSUME OneWorker, SameNames, Typed, GuardInv, NEW w \in Workers, Advance(w)
  PROVE  GuardInv'
<1> DEFINE c == cur[w]
           b == base[w]
<1>1. c \in Object /\ b \in Object /\ (pc[w] # "idle" => key[w] \in Machines)
  BY DEF Typed, TypeOK, HasKey
<1>2. ASSUME pc[w] # "run"
      PROVE  \A m \in Machines : Threat(m)' => Threat(m)
  <2>1. Next
    BY DEF Next
  <2>2. ASSUME NEW v \in Workers, NEW i \in Instances, Launch(v, i)
        PROVE  FALSE
    BY <1>2, <2>2 DEF Launch, LaunchInstance, OneWorker
  <2> QED
    BY <2>1, <2>2, ThreatSteps
<1>3. \A d : FirstPatch(b, d) \notin CreateSteps \cup KeepSteps \cup {"cleanup"}
  BY DEF FirstPatch, AfterConditions, AfterSpec, CreateSteps, KeepSteps
<1>4. ASSUME NEW d, NEW again, Finish(w, d, again), pc[w] \notin {"idle", "run"},
             b.finalizer /\ ~d.finalizer => ~Threat(key[w])
      PROVE  GuardInv'
  BY <1>2, <1>3, <1>4, GotoGuarded DEF Finish
<1>5. /\ pc[w] \in KeepSteps /\ b.finalizer => c.finalizer
      /\ pc[w] \in CreateSteps => c.finalizer
      /\ pc[w] = "cleanup" => ~Threat(key[w])
  BY DEF GuardInv, CreatesHeld, ReleasesNothing, Releasing
<1>6. ASSUME NEW d, NEW again, Finish(w, d, again), d.finalizer = c.finalizer,
             pc[w] \in KeepSteps \cup {"offload", "find"}
      PROVE  GuardInv'
  BY <1>4, <1>5, <1>6 DEF KeepSteps, CreateSteps
<1>7. CASE Describe(w)
  <2>1. pc[w] = "describe" /\ Healed(c) \in Object /\ Healed(c).finalizer = c.finalizer
    BY <1>1, <1>7, ObjectEdits, FinalizerEdits DEF Describe
  <2>2. /\ setFailed(c).finalizer = c.finalizer
        /\ setFailed(Healed(c)).finalizer = c.finalizer
        /\ SetProvisioned(Healed(c)).finalizer = c.finalizer
        /\ [c EXCEPT !.cond = FALSE].finalizer = c.finalizer
    BY <1>1, <2>1, FinalizerEdits
  <2>3. ASSUME Goto(w, "harden", Healed(c))
        PROVE  GuardInv'
    BY <1>2, <1>5, <2>1, <2>3, GotoGuarded DEF KeepSteps, CreateSteps
  <2> QED
    BY <1>6, <1>7, <2>1, <2>2, <2>3 DEF Describe, WaitForRunning, FinishWithError,
       KeepSteps
<1>8. CASE HardenMetadata(w)
  <2> DEFINE x == [c EXCEPT !.hardened = TRUE]
  <2>1. x \in Object /\ x.finalizer = c.finalizer
    BY <1>1, ObjectFlags, FinalizerEdits
  <2> HIDE DEF x
  <2>2. /\ SetProvisioned(x).finalizer = c.finalizer
        /\ SetProvisioned(c).finalizer = c.finalizer
    BY <1>1, <2>1, FinalizerEdits
  <2> QED
    BY <1>6, <1>8, <2>2 DEF HardenMetadata, KeepSteps, x
<1>9. CASE OffloadUserData(w)
  <2>1. pc[w] = "offload"
    BY <1>9 DEF OffloadUserData
  <2>2. /\ [c EXCEPT !.ignitionOSS = TRUE].finalizer = c.finalizer
        /\ [c EXCEPT !.cond = FALSE].finalizer = c.finalizer
    BY <1>1, FinalizerEdits
  <2>3. ASSUME Goto(w, "find", [c EXCEPT !.ignitionOSS = TRUE])
        PROVE  GuardInv'
    BY <1>2, <1>5, <2>1, <2>2, <2>3, GotoGuarded DEF KeepSteps, CreateSteps
  <2> QED
    BY <1>6, <1>9, <2>1, <2>2, <2>3 DEF OffloadUserData, FinishWithError
<1>10. CASE AdoptInstance(w)
  <2>1. pc[w] = "find"
    BY <1>10 DEF AdoptInstance
  <2>2. /\ [c EXCEPT !.cond = FALSE].finalizer = c.finalizer
        /\ \A i : [c EXCEPT !.providerID = i, !.instanceID = i].finalizer = c.finalizer
    BY <1>1, FinalizerEdits
  <2>3. ASSUME Goto(w, "run", c)
        PROVE  GuardInv'
    BY <1>2, <1>5, <2>1, <2>3, GotoGuarded DEF KeepSteps, CreateSteps
  <2> QED
    BY <1>6, <1>10, <2>1, <2>2, <2>3 DEF AdoptInstance, Created, FinishWithError
<1>11. CASE DescribeForDelete(w)
  <2>1. pc[w] = "delDescribe" /\ [c EXCEPT !.cond = FALSE].finalizer = c.finalizer
    BY <1>1, <1>11, FinalizerEdits DEF DescribeForDelete
  <2>2. ASSUME NEW p \in {"sweep", "deleteECS"}, NEW d, Goto(w, p, d),
               d.finalizer = c.finalizer
        PROVE  GuardInv'
    BY <1>2, <1>5, <2>1, <2>2, GotoGuarded DEF KeepSteps, CreateSteps
  <2> QED
    BY <1>6, <1>11, <2>1, <2>2 DEF DescribeForDelete, KeepSteps
<1>12. CASE SweepByTag(w)
  <2>1. pc[w] = "sweep" /\ key[w] \in Machines
    BY <1>1, <1>12 DEF SweepByTag
  <2>2. Unrecorded(key[w]) = {} => ~Threat(key[w])
    BY <2>1, NoneAssumption DEF Unrecorded, FindInstanceByTag, SameNames, Threat
  <2>3. ASSUME Goto(w, "deleteECS", c)
        PROVE  GuardInv'
    BY <1>2, <1>5, <2>1, <2>3, GotoGuarded DEF KeepSteps, CreateSteps
  <2>4. ASSUME Goto(w, "cleanup", c), ~Threat(key[w])
        PROVE  GuardInv'
    BY <1>2, <1>5, <2>1, <2>4, GotoGuarded DEF KeepSteps, CreateSteps
  <2> QED
    BY <1>4, <1>6, <1>12, <2>1, <2>2, <2>3, <2>4 DEF SweepByTag, KeepSteps
<1>13. CASE DeleteInstance(w)
  BY <1>6, <1>13 DEF DeleteInstance, KeepSteps
<1>14. CASE CleanupIgnition(w)
  BY <1>4, <1>5, <1>14 DEF CleanupIgnition
<1>15. CASE Return(w)
  BY <1>15, DoneGuarded DEF Return, apiVars
<1> QED
  BY <1>7, <1>8, <1>9, <1>10, <1>11, <1>12, <1>13, <1>14, <1>15, LaunchGuarded,
     PatchGuarded DEF Advance

(* A guarded instance is never stranded by one controller: GuardInv holds  *)
(* in every reachable state.                                               *)
LEMMA GuardStep ==
  ASSUME OneWorker, SameNames, Typed, GuardInv, [Next]_vars
  PROVE  GuardInv'
<1>1. CASE UNCHANGED vars
  BY <1>1 DEF vars, apiVars, workerVars, localVars, GuardInv, Held, CreatesHeld,
              ReleasesNothing, Releasing, Threat, Guarded, Live
<1>2. ASSUME NEW w \in Workers, NEW m \in Machines, Deliver(w, m)
      PROVE  GuardInv'
  <2>1. /\ UNCHANGED <<ecs, obj, pc, key, base, cur>>
        /\ \A v \in Workers, n \in Machines :
              cache'[v][n] \in {cache[v][n], obj[n]}
    BY <1>2 DEF Deliver, apiVars, localVars, Typed, TypeOK
  <2>2. Held' /\ ReleasesNothing'
    BY <2>1 DEF GuardInv, Held, ReleasesNothing, Releasing, Threat, Guarded, Live
  <2>3. CreatesHeld'
    <3>1. \A v \in Workers : pc[v] \in CreateSteps => key[v] \in Machines
      BY DEF Typed, HasKey, CreateSteps
    <3> QED
      BY <2>1, <3>1 DEF GuardInv, CreatesHeld
  <2> QED
    BY <2>2, <2>3 DEF GuardInv
<1>3. ASSUME NEW w \in Workers, Crash(w)
      PROVE  GuardInv'
  BY <1>3, DoneGuarded DEF Crash, apiVars
<1>4. CASE Environment
  <2>1. /\ UNCHANGED <<cache, pc, key, base, cur>>
        /\ \A m \in Machines : Threat(m)' => Threat(m)
    <3>1. ASSUME NEW w \in Workers, NEW i \in Instances, Launch(w, i)
          PROVE  FALSE
      <4>1. UNCHANGED pc /\ pc[w] = "run"
        BY <1>4, <3>1, SurroundingsKeep DEF Launch, LaunchInstance
      <4> QED
        BY <3>1, <4>1, RunSteps DEF Launch, LookedUp, AdoptInstance
    <3> QED
      BY <1>4, <3>1, SurroundingsKeep, ThreatSteps DEF Next
  <2>2. ASSUME NEW m \in Machines
        PROVE  /\ obj'[m].regionID = obj[m].regionID
               /\ HeldObject(obj[m]) => HeldObject(obj'[m])
    <3>1. UNCHANGED obj \/ \E n \in Machines : UserDeletes(n)
      BY <1>4 DEF Environment, SetOwner, SetDataSecret, BindNode, Pause, Unpause,
         UnpauseCluster, OwnerDeleted, ECSProgress, NodeJoins, OperatorRestarts,
         CloudFault, ClusterChanges, Event, Silent, apiVars
    <3>2. obj'[m] \in {obj[m], MarkDeleted(obj[m])}
      BY <3>1 DEF UserDeletes, Typed, TypeOK
    <3>3. /\ MarkDeleted(obj[m]).regionID = obj[m].regionID
          /\ HeldObject(obj[m]) => HeldObject(MarkDeleted(obj[m]))
      BY DEF MarkDeleted, Collect, HeldObject, Typed, TypeOK, Object
    <3> QED
      BY <3>2, <3>3
  <2>3. Held'
    BY <2>1, <2>2 DEF GuardInv, Held, Guarded, HeldObject
  <2>4. CreatesHeld' /\ ReleasesNothing'
    <3>1. \A w \in Workers : pc[w] # "idle" => key[w] \in Machines
      BY DEF Typed, HasKey
    <3>2. CreatesHeld'
      BY <2>1, <2>2, <3>1 DEF GuardInv, CreatesHeld, CreateSteps
    <3>3. ReleasesNothing'
      BY <2>1, <3>1 DEF GuardInv, ReleasesNothing, Releasing
    <3> QED
      BY <3>2, <3>3
  <2> QED
    BY <2>3, <2>4 DEF GuardInv
<1> QED
  BY <1>1, <1>2, <1>3, <1>4, BeginGuarded, AdvanceGuarded DEF Next

(* reconcileDelete never strands an instance that was launched under the   *)
(* stored finalizer and region: whatever is lost, stale, retried or        *)
(* restarted, the object stays until that instance is released.  This is   *)
(* one controller's promise (leader election), and the delete sweep must   *)
(* look for the tag createInstance set.                                    *)
THEOREM NotStranded ==
  ASSUME OneWorker, SameNames
  PROVE  Spec => []GuardedNotStranded
<1>1. Init => GuardInv /\ LiveInv
  <2> SUFFICES ASSUME Init
               PROVE  GuardInv /\ LiveInv
    OBVIOUS
  <2>1. Held /\ LiveInv
    BY DEF Init, ECSInit, Held, Threat, Live, LiveInv, NoneBeforeLaunch,
           LiveIsOwned, OneLiveInstance
  <2>2. CreatesHeld /\ ReleasesNothing
    BY DEF Init, CreatesHeld, ReleasesNothing, Releasing, CreateSteps, KeepSteps
  <2> QED
    BY <2>1, <2>2 DEF GuardInv
<1>2. /\ Typed /\ GuardInv /\ [Next]_vars => GuardInv'
      /\ Typed /\ LiveInv /\ [Next]_vars => LiveInv'
  BY GuardStep, LiveStep
<1>3. Typed /\ GuardInv /\ LiveInv => GuardedNotStranded
  <2> SUFFICES ASSUME Typed, GuardInv, LiveInv, NEW i \in Instances,
                      ecs[i].guarded, Live(i)
               PROVE  obj[ecs[i].owner].exists
    BY DEF GuardedNotStranded
  <2>1. ecs[i].owner \in Machines
    BY DEF LiveInv, LiveIsOwned, Typed, TypeOK, Instance
  <2> QED
    BY <2>1 DEF GuardInv, Held, Threat, Guarded
<1> QED
  BY <1>1, <1>2, <1>3, TypedAlways, PTL DEF Spec

-----------------------------------------------------------------------------
(* A machine that cannot bind is not left Ready.  The invariant says who   *)
(* will still attend to it: a copy to be delivered, the queue, a requeue,  *)
(* or a patch under way that withdraws Ready.                              *)

\* Ready, and its two handles name different instances.
Unbindable(o) == o.exists /\ ~o.deleting /\ o.ready /\ Mismatch(o)

WorkSteps == CreateSteps \cup KeepSteps \cup {"cleanup"}

PatchingSteps == {"patchConditions", "patchSpec", "patchStatus"}

\* An idle worker holds no machine, and one at work does not yet know whether
\* it will be back.
Paced ==
  \A w \in Workers : /\ pc[w] = "idle" => key[w] = None
                     /\ pc[w] \in WorkSteps => ~requeue[w]

\* A machine without an owner has never been Ready, in any copy.
UnownedNotReady ==
  \A m \in Machines :
     machine[m].link = "unowned" =>
        /\ ~obj[m].ready
        /\ \A w \in Workers :
              /\ ~cache[w][m].ready
              /\ key[w] = m => ~cur[w].ready /\ pc[w] \notin {"describe", "harden"}

NeverPaused ==
  pauses = 0 => \A m \in Machines : machine[m].link \notin {"paused", "clusterPaused"}

\* A copy delivered during a reconcile of its machine queues it again.
Fresh ==
  pauses = 0 =>
     \A w \in Workers, m \in Machines :
        key[w] = m => cache[w][m] = base[w] \/ queued[w][m]

\* A reconcile that read such a machine withdraws Ready, or comes back.
Withdraws ==
  \A w \in Workers :
     pc[w] # "idle" /\ Unbindable(base[w]) =>
        pc[w] \notin WorkSteps /\ (requeue[w] \/ ~cur[w].ready)

Attended(w, m) ==
  \/ cache[w][m] # obj[m]
  \/ queued[w][m]
  \/ key[w] = m /\ requeue[w]
  \/ key[w] = m /\ pc[w] \in PatchingSteps /\ base[w].ready /\ ~cur[w].ready

AllAttended ==
  pauses = 0 =>
     \A w \in Workers, m \in Machines : Unbindable(obj[m]) => Attended(w, m)

RestInv ==
  Paced /\ UnownedNotReady /\ NeverPaused /\ Fresh /\ Withdraws /\ AllAttended

(* A change of Ready is always sent: the patch does not end before its     *)
(* status request.                                                         *)
LEMMA ReadyIsSent ==
  ASSUME NEW b \in Object, NEW c \in Object, b.ready # c.ready
  PROVE  /\ FirstPatch(b, c) \in PatchingSteps
         /\ AfterConditions(b, c) \in PatchingSteps
         /\ AfterSpec(b, c) \in PatchingSteps
<1>1. PatchedStatus(b, b, c).ready = c.ready
  BY DEF PatchedStatus, Merge, Object
<1>2. PatchedStatus(b, b, c) # b
  BY <1>1
<1> QED
  BY <1>2 DEF FirstPatch, AfterConditions, AfterSpec, PatchingSteps

(* The deferred patch is past the work.                                    *)
LEMMA PatchIsNoWork ==
  ASSUME NEW b, NEW c
  PROVE  {FirstPatch(b, c), AfterConditions(b, c), AfterSpec(b, c)}
            \cap (WorkSteps \cup {"idle"}) = {}
  BY DEF FirstPatch, AfterConditions, AfterSpec, WorkSteps, CreateSteps, KeepSteps

(* A reconcile starts.                                                     *)
LEMMA StartRests ==
  ASSUME OneWorker, Typed, RestInv, NEW w \in Workers, NEW m \in Machines,
         NEW p \in Steps, NEW c \in Object, NEW again \in BOOLEAN,
         Start(w, m, p, c, again), p # "idle",
         p \in WorkSteps => ~again,
         p \in WorkSteps \/ p = FirstPatch(cache[w][m], c),
         machine[m].link = "unowned" => ~c.ready /\ p \notin {"describe", "harden"},
         Unbindable(cache[w][m]) => p \notin WorkSteps /\ (again \/ ~c.ready)
  PROVE  RestInv'
<1>1. /\ UNCHANGED <<obj, cache, machine, pauses>> /\ pc[w] = "idle"
      /\ pc'[w] = p /\ key'[w] = m /\ base'[w] = cache[w][m] /\ cur'[w] = c
      /\ requeue'[w] = again
      /\ \A n \in Machines \ {m} : queued'[w][n] = queued[w][n]
      /\ \A v \in Workers : v = w
  BY DEF Start, apiVars, envVars, Typed, TypeOK, OneWorker
<1>2. key[w] = None /\ None \notin Machines /\ cache[w][m] \in Object
  BY <1>1, NoneAssumption DEF RestInv, Paced, Typed, TypeOK
<1>3. Paced'
  BY <1>1 DEF Paced
<1>4. UnownedNotReady' /\ NeverPaused'
  BY <1>1 DEF RestInv, UnownedNotReady, NeverPaused
<1>5. Fresh'
  BY <1>1 DEF Fresh
<1>6. Withdraws'
  BY <1>1 DEF Withdraws
<1>7. AllAttended'
  <2> SUFFICES ASSUME pauses = 0, NEW n \in Machines, Unbindable(obj[n])
               PROVE  Attended(w, n)'
    BY <1>1 DEF AllAttended
  <2>1. cache[w][n] # obj[n] \/ queued[w][n]
    BY <1>2 DEF RestInv, AllAttended, Attended
  <2>2. CASE n # m \/ cache[w][n] # obj[n]
    BY <1>1, <2>1, <2>2 DEF Attended
  <2>3. CASE n = m /\ cache[w][m] = obj[m] /\ again
    BY <1>1, <2>3 DEF Attended
  <2>4. CASE n = m /\ cache[w][m] = obj[m] /\ ~again
    <3>1. p \notin WorkSteps /\ ~c.ready /\ cache[w][m].ready
      BY <2>4 DEF Unbindable
    <3>2. p \in PatchingSteps
      BY <1>2, <3>1, ReadyIsSent
    <3> QED
      BY <1>1, <2>4, <3>1, <3>2 DEF Attended
  <2> QED
    BY <2>2, <2>3, <2>4
<1> QED
  BY <1>3, <1>4, <1>5, <1>6, <1>7 DEF RestInv

(* A reconcile goes on.                                                    *)
LEMMA GotoRests ==
  ASSUME OneWorker, Typed, RestInv, NEW w \in Workers, NEW p \in Steps, NEW c \in Object,
         Goto(w, p, c), pc[w] \in WorkSteps, p # "idle",
         p \in WorkSteps => UNCHANGED requeue,
         machine[key[w]].link = "unowned" => ~c.ready /\ p \notin {"describe", "harden"}
  PROVE  RestInv'
<1>1. /\ UNCHANGED <<obj, cache, machine, pauses, queued>>
      /\ pc'[w] = p /\ key'[w] = key[w] /\ base'[w] = base[w] /\ cur'[w] = c
      /\ \A v \in Workers : v = w
  BY DEF Goto, envVars, Typed, TypeOK, OneWorker
<1>2. /\ pc[w] # "idle" /\ pc[w] \notin PatchingSteps /\ ~requeue[w]
      /\ ~Unbindable(base[w])
  BY DEF RestInv, Paced, Withdraws, WorkSteps, CreateSteps, KeepSteps, PatchingSteps
<1>3. Paced'
  BY <1>1, <1>2 DEF Paced
<1>4. UnownedNotReady' /\ NeverPaused' /\ Fresh'
  BY <1>1 DEF RestInv, UnownedNotReady, NeverPaused, Fresh
<1>5. Withdraws'
  BY <1>1, <1>2 DEF Withdraws
<1>6. AllAttended'
  BY <1>1, <1>2 DEF RestInv, AllAttended, Attended
<1> QED
  BY <1>3, <1>4, <1>5, <1>6 DEF RestInv

(* Picking up a machine.  The mismatch check sends an unbindable one to    *)
(* the patch with Ready withdrawn; before it only errors and requeues      *)
(* return.                                                                 *)
LEMMA BeginRests ==
  ASSUME OneWorker, Typed, RestInv, NEW w \in Workers, NEW m \in Machines, Begin(w, m)
  PROVE  RestInv'
<1> DEFINE o == cache[w][m]
           a == Adopted(w, m)
           r == [a EXCEPT !.regionID = TRUE]
           f == [o EXCEPT !.finalizer = FALSE]
           d == [o EXCEPT !.instanceID = RecordedInstance(o)]
           x == [a EXCEPT !.cond = FALSE]
<1>1. o \in Object
  BY DEF Typed, TypeOK
<1>2. a \in Object /\ r \in Object /\ x \in Object
  BY <1>1, ObjectFlags DEF Adopted
<1>3. f \in Object /\ d \in Object
  BY <1>1, ObjectFlags, ObjectEdits, ObjectHandles
<1>4. setFailed(a) \in Object /\ setFailed(r) \in Object
  BY <1>2, ObjectEdits
<1>5. ~setFailed(a).ready /\ ~setFailed(r).ready
  BY <1>2 DEF setFailed, Object
<1>6. f.ready = o.ready /\ d.ready = o.ready
  BY <1>1 DEF Object
<1>7. machine[m].link = "unowned" => ~o.ready
  BY DEF RestInv, UnownedNotReady
<1>8. Normal(w, m) => machine[m].link # "unowned"
  BY DEF Normal
<1> HIDE DEF r, f, d, x
<1>9. ASSUME NEW c \in Object, NEW again \in BOOLEAN, StartAndReturn(w, m, c, again),
             machine[m].link = "unowned" => ~c.ready,
             Unbindable(o) => again \/ ~c.ready
      PROVE  RestInv'
  <2>1. /\ FirstPatch(o, c) \in Steps /\ FirstPatch(o, c) \notin WorkSteps
        /\ FirstPatch(o, c) # "idle"
    BY PatchSteps, PatchIsNoWork
  <2>2. FirstPatch(o, c) \notin {"describe", "harden"}
    BY <2>1 DEF WorkSteps, KeepSteps
  <2> QED
    BY <1>9, <2>1, <2>2, StartRests DEF StartAndReturn
<1>10. ASSUME NEW p \in WorkSteps, NEW c \in Object, Start(w, m, p, c, FALSE),
              machine[m].link = "unowned" => ~c.ready /\ p \notin {"describe", "harden"},
              ~Unbindable(o)
       PROVE  RestInv'
  <2>1. p \in Steps /\ p # "idle"
    BY DEF WorkSteps, CreateSteps, KeepSteps, Steps
  <2> QED
    BY <1>10, <2>1, StartRests
<1>11. CASE SkipReconcile(w, m)
  <2>1. /\ UNCHANGED <<obj, cache, machine, pauses, pc, key, base, cur, requeue>>
        /\ \A n \in Machines \ {m} : queued'[w][n] = queued[w][n]
        /\ \A v \in Workers : v = w
    BY <1>11 DEF SkipReconcile, apiVars, envVars, localVars, Typed, TypeOK, OneWorker
  <2>2. key[w] = None /\ None \notin Machines
    BY <1>11, NoneAssumption DEF SkipReconcile, RestInv, Paced
  <2>3. Paced' /\ UnownedNotReady' /\ NeverPaused' /\ Withdraws'
    BY <2>1 DEF RestInv, Paced, UnownedNotReady, NeverPaused, Withdraws
  <2>4. Fresh'
    BY <2>1, <2>2 DEF Fresh
  <2>5. AllAttended'
    <3> SUFFICES ASSUME pauses = 0, NEW n \in Machines, Unbindable(obj[n])
                 PROVE  Attended(w, n)'
      BY <2>1 DEF AllAttended
    <3>1. cache[w][n] # obj[n] \/ queued[w][n]
      BY <2>2 DEF RestInv, AllAttended, Attended
    <3>2. CASE n # m \/ cache[w][n] # obj[n]
      BY <2>1, <3>1, <3>2 DEF Attended
    <3>3. CASE n = m /\ cache[w][m] = obj[m]
      BY <1>7, <1>11, <3>3 DEF SkipReconcile, Unbindable, RestInv, NeverPaused
    <3> QED
      BY <3>2, <3>3
  <2> QED
    BY <2>3, <2>4, <2>5 DEF RestInv
<1>12. CASE WaitForPrerequisites(w, m) \/ PrerequisiteFails(w, m)
  BY <1>2, <1>8, <1>9, <1>12 DEF WaitForPrerequisites, PrerequisiteFails, x
<1>13. CASE ProviderIDMismatch(w, m)
  BY <1>4, <1>5, <1>9, <1>13 DEF ProviderIDMismatch
<1>14. CASE BeginDescribe(w, m)
  BY <1>2, <1>8, <1>10, <1>14 DEF BeginDescribe, Unbindable, WorkSteps, KeepSteps
<1>15. CASE BeginCreate(w, m)
  <2>1. ~Unbindable(o) /\ machine[m].link # "unowned"
    BY <1>8, <1>15 DEF BeginCreate, Unbindable, Mismatch
  <2>2. \/ StartAndReturn(w, m, setFailed(a), FALSE)
        \/ StartAndReturn(w, m, setFailed(r), FALSE)
        \/ Start(w, m, "offload", r, FALSE)
        \/ Start(w, m, "find", r, FALSE)
    BY <1>15 DEF BeginCreate, r
  <2> QED
    BY <1>2, <1>4, <1>5, <1>9, <1>10, <2>1, <2>2 DEF WorkSteps, CreateSteps
<1>16. CASE ReleaseUnprovisioned(w, m) \/ RegionUnknown(w, m) \/ BeginDelete(w, m)
  <2>1. ~Unbindable(o)
    BY <1>16 DEF ReleaseUnprovisioned, RegionUnknown, BeginDelete, Unbindable
  <2>2. \/ StartAndReturn(w, m, f, FALSE)
        \/ StartAndReturn(w, m, o, TRUE)
        \/ StartAndReturn(w, m, d, TRUE)
        \/ Start(w, m, "delDescribe", d, FALSE)
        \/ Start(w, m, "sweep", d, FALSE)
    BY <1>16 DEF ReleaseUnprovisioned, RegionUnknown, BeginDelete, f, d
  <2> QED
    BY <1>1, <1>3, <1>6, <1>7, <1>9, <1>10, <2>1, <2>2 DEF WorkSteps, KeepSteps
<1> QED
  BY <1>11, <1>12, <1>13, <1>14, <1>15, <1>16 DEF Begin

(* A request of the deferred patch.  If it makes the object what the       *)
(* worker read and that was unbindable, then Ready is still to be          *)
(* withdrawn, or something failed and the worker will be back.             *)
LEMMA PatchRests ==
  ASSUME OneWorker, Typed, RestInv, NEW w \in Workers,
         PatchConditions(w) \/ PatchSpec(w) \/ PatchStatus(w)
  PROVE  RestInv'
<1> DEFINE m == key[w]
           o == obj[m]
           b == base[w]
           c == cur[w]
<1>1. /\ pc[w] \in PatchingSteps /\ m \in Machines
      /\ o \in Object /\ b \in Object /\ c \in Object
      /\ \A v \in Workers : v = w
  BY DEF PatchConditions, PatchSpec, PatchStatus, PatchingSteps, Typed, TypeOK,
         HasKey, OneWorker
<1>2. UNCHANGED <<cache, queued, machine, pauses, key, base, cur>>
  BY DEF PatchConditions, PatchSpec, PatchStatus, Patch, Answered, envVars
<1>3. /\ \A n \in Machines \ {m} : obj'[n] = obj[n]
      /\ requeue[w] => requeue'[w]
  BY DEF PatchConditions, PatchSpec, PatchStatus, Patch, Typed, TypeOK
<1>4. pc'[w] \notin WorkSteps \cup {"idle"}
  <2>1. pc'[w] \in {AfterConditions(b, c), AfterSpec(b, c), "return"}
    BY DEF PatchConditions, PatchSpec, PatchStatus, Patch, Answered, Typed, TypeOK
  <2>2. "return" \notin WorkSteps \cup {"idle"}
    BY DEF WorkSteps, CreateSteps, KeepSteps
  <2> QED
    BY <2>1, <2>2, PatchIsNoWork
<1>5. \/ obj'[m] = o
      \/ obj'[m] = PatchedConditions(o, b, c)
      \/ obj'[m] = PatchedSpec(o, b, c)
      \/ pc[w] = "patchStatus" /\ obj'[m] = PatchedStatus(o, b, c)
  BY <1>1 DEF PatchConditions, PatchSpec, PatchStatus, Patch, Typed, TypeOK
<1>6. /\ PatchedConditions(o, b, c).ready = o.ready
      /\ PatchedSpec(o, b, c).ready = o.ready
      /\ PatchedStatus(o, b, c).ready = Merge(o.ready, b.ready, c.ready)
  <2>1. PatchedConditions(o, b, c).ready = o.ready
    BY <1>1 DEF PatchedConditions, Object
  <2>2. PatchedSpec(o, b, c).ready = o.ready
    BY <1>1 DEF PatchedSpec, Collect, Object
  <2>3. PatchedStatus(o, b, c).ready = Merge(o.ready, b.ready, c.ready)
    BY <1>1 DEF PatchedStatus, Object
  <2> QED
    BY <2>1, <2>2, <2>3
<1>7. Paced' /\ NeverPaused' /\ Fresh'
  BY <1>1, <1>2, <1>4 DEF RestInv, Paced, NeverPaused, Fresh
<1>8. UnownedNotReady'
  <2> SUFFICES ASSUME NEW n \in Machines, machine[n].link = "unowned"
               PROVE  ~obj'[n].ready
    BY <1>1, <1>2, <1>4 DEF RestInv, UnownedNotReady, WorkSteps, KeepSteps
  <2>1. ~obj[n].ready /\ (n = m => ~c.ready)
    BY <1>1 DEF RestInv, UnownedNotReady
  <2>2. CASE n # m
    BY <1>3, <2>1, <2>2
  <2>3. CASE n = m
    <3> HIDE DEF o, b, c
    <3>1. ~o.ready
      BY <2>1, <2>3 DEF o
    <3> QED
      BY <1>5, <1>6, <2>1, <2>3, <3>1 DEF Merge
  <2> QED
    BY <2>2, <2>3
<1>9. Withdraws'
  <2>1. Unbindable(b) => requeue[w] \/ ~c.ready
    BY <1>1 DEF RestInv, Withdraws, PatchingSteps
  <2> QED
    BY <1>1, <1>2, <1>3, <1>4, <2>1 DEF Withdraws
<1>10. AllAttended'
  <2> SUFFICES ASSUME pauses = 0, NEW n \in Machines, Unbindable(obj'[n])
               PROVE  Attended(w, n)'
    BY <1>1, <1>2 DEF AllAttended, Unbindable, Mismatch
  <2>1. CASE n # m
    BY <1>2, <1>3, <2>1 DEF RestInv, AllAttended, Attended
  <2>2. CASE n = m /\ (cache[w][m] # obj'[m] \/ queued[w][m] \/ requeue'[w])
    BY <1>2, <2>2 DEF Attended
  <2>3. CASE n = m /\ cache[w][m] = obj'[m] /\ ~queued[w][m] /\ ~requeue'[w]
    <3>1. obj'[m] = b
      BY <1>1, <2>3 DEF RestInv, Fresh
    <3>2. b.ready /\ ~c.ready
      BY <1>1, <1>3, <2>3, <3>1 DEF RestInv, Withdraws, Unbindable, PatchingSteps
    <3>3. CASE PatchConditions(w) \/ PatchSpec(w)
      <4>1. pc'[w] \in {AfterConditions(b, c), AfterSpec(b, c)}
        BY <3>3 DEF PatchConditions, PatchSpec, Patch, Answered, Typed, TypeOK
      <4>2. pc'[w] \in PatchingSteps
        BY <1>1, <3>2, <4>1, ReadyIsSent
      <4> QED
        BY <1>2, <2>3, <3>2, <4>2 DEF Attended
    <3>4. CASE PatchStatus(w)
      <4>1. obj'[m] = PatchedStatus(o, b, c) \/ (obj'[m] = o /\ ~o.exists)
        BY <1>1, <2>3, <3>4 DEF PatchStatus, Patch, Typed, TypeOK
      <4>2. ~obj'[m].ready \/ ~obj'[m].exists
        BY <1>6, <3>2, <4>1 DEF Merge
      <4> QED
        BY <2>3, <4>2 DEF Unbindable
    <3> QED
      BY <3>3, <3>4
  <2> QED
    BY <2>1, <2>2, <2>3
<1> QED
  BY <1>7, <1>8, <1>9, <1>10 DEF RestInv

(* The edits of a reconcile and Ready: only the tail of reconcileNormal    *)
(* sets it.                                                                *)
LEMMA ReadyEdits ==
  ASSUME NEW o \in Object
  PROVE  /\ ~setFailed(o).ready
         /\ [o EXCEPT !.cond = FALSE].ready = o.ready
         /\ [o EXCEPT !.finalizer = FALSE].ready = o.ready
         /\ [o EXCEPT !.ignitionOSS = TRUE].ready = o.ready
         /\ \A i : [o EXCEPT !.providerID = i, !.instanceID = i].ready = o.ready
  BY DEF Object, setFailed

(* Every request of a reconcile keeps RestInv: one step per action of      *)
(* Advance.                                                                *)
LEMMA AdvanceRests ==
  ASSUME OneWorker, Typed, RestInv, NEW w \in Workers, Advance(w)
  PROVE  RestInv'
<1> DEFINE c == cur[w]
           h == Healed(c)
           x == [c EXCEPT !.cond = FALSE]
           f == [c EXCEPT !.finalizer = FALSE]
           g == [c EXCEPT !.ignitionOSS = TRUE]
           t == [c EXCEPT !.hardened = TRUE]
<1>1. c \in Object /\ (pc[w] # "idle" => key[w] \in Machines)
  BY DEF Typed, TypeOK, HasKey
<1>2. h \in Object /\ x \in Object /\ f \in Object /\ g \in Object /\ t \in Object
  BY <1>1, ObjectEdits, ObjectFlags
<1>3. /\ ~setFailed(c).ready
      /\ x.ready = c.ready /\ f.ready = c.ready /\ g.ready = c.ready
  BY <1>1, ReadyEdits
<1> HIDE DEF h, x, f, g, t
<1>4. /\ setFailed(c) \in Object /\ setFailed(h) \in Object
      /\ SetProvisioned(c) \in Object /\ SetProvisioned(h) \in Object
      /\ SetProvisioned(t) \in Object
  BY <1>1, <1>2, ObjectEdits
<1>5. ASSUME pc[w] # "idle", machine[key[w]].link = "unowned"
      PROVE  ~c.ready /\ pc[w] \notin {"describe", "harden"}
  BY <1>1, <1>5 DEF RestInv, UnownedNotReady
<1>6. ASSUME NEW d \in Object, NEW again, Finish(w, d, again), pc[w] \in WorkSteps,
             pc[w] \in {"describe", "harden"} \/ ~d.ready \/ d.ready = c.ready
      PROVE  RestInv'
  <2>1. /\ FirstPatch(base[w], d) \in Steps
        /\ FirstPatch(base[w], d) \notin WorkSteps \cup {"idle"}
    BY PatchSteps, PatchIsNoWork
  <2>2. FirstPatch(base[w], d) \notin {"describe", "harden"} /\ pc[w] # "idle"
    BY <1>6, <2>1 DEF WorkSteps, CreateSteps, KeepSteps
  <2>3. machine[key[w]].link = "unowned" => ~d.ready
    BY <1>5, <1>6, <2>2
  <2> QED
    BY <1>6, <2>1, <2>2, <2>3, GotoRests DEF Finish
<1>7. ASSUME NEW p \in WorkSteps, NEW d \in Object, Goto(w, p, d), pc[w] \in WorkSteps,
             UNCHANGED requeue, p # "describe", p = "harden" => pc[w] = "describe",
             pc[w] = "describe" \/ d.ready = c.ready
      PROVE  RestInv'
  <2>1. p \in Steps /\ p # "idle" /\ pc[w] # "idle"
    BY <1>7 DEF WorkSteps, CreateSteps, KeepSteps, Steps
  <2>2. machine[key[w]].link = "unowned" => ~d.ready /\ p # "harden"
    BY <1>5, <1>7, <2>1
  <2> QED
    BY <1>7, <2>1, <2>2, GotoRests
<1>8. ASSUME FinishWithError(w), pc[w] \in WorkSteps
      PROVE  RestInv'
  BY <1>2, <1>3, <1>6, <1>8 DEF FinishWithError, x
<1>9. ASSUME NEW i \in Instances, Created(w, i), pc[w] \in WorkSteps
      PROVE  RestInv'
  <2> DEFINE d == [c EXCEPT !.providerID = i, !.instanceID = i]
  <2>1. d \in Object /\ d.ready = c.ready
    BY <1>1, ObjectHandles, ReadyEdits DEF Handle
  <2>2. Finish(w, d, TRUE)
    BY <1>9 DEF Created
  <2> HIDE DEF d
  <2> QED
    BY <1>6, <1>9, <2>1, <2>2
<1> USE DEF WorkSteps, CreateSteps, KeepSteps
<1>10. CASE Describe(w)
  <2>1. pc[w] = "describe"
    BY <1>10 DEF Describe
  <2>2. \/ FinishWithError(w)
        \/ Finish(w, setFailed(c), FALSE) \/ Finish(w, setFailed(h), FALSE)
        \/ Finish(w, h, TRUE) \/ Finish(w, SetProvisioned(h), FALSE)
        \/ Goto(w, "harden", h) /\ UNCHANGED requeue
    BY <1>10 DEF Describe, WaitForRunning, Stay, h
  <2> QED
    BY <1>2, <1>4, <1>6, <1>7, <1>8, <2>1, <2>2
<1>11. CASE HardenMetadata(w)
  <2>1. /\ pc[w] = "harden"
        /\ Finish(w, SetProvisioned(t), FALSE) \/ Finish(w, SetProvisioned(c), FALSE)
    BY <1>11 DEF HardenMetadata, t
  <2> QED
    BY <1>4, <1>6, <2>1
<1>12. CASE OffloadUserData(w)
  <2>1. /\ pc[w] = "offload"
        /\ FinishWithError(w) \/ (Goto(w, "find", g) /\ UNCHANGED requeue)
    BY <1>12 DEF OffloadUserData, Stay, g
  <2> QED
    BY <1>2, <1>3, <1>7, <1>8, <2>1
<1>13. CASE AdoptInstance(w)
  <2>1. /\ pc[w] = "find"
        /\ \/ FinishWithError(w)
           \/ \E i \in Instances : Created(w, i)
           \/ Goto(w, "run", c) /\ UNCHANGED requeue
    BY <1>13 DEF AdoptInstance, FindInstanceByTag, Stay
  <2> QED
    BY <1>1, <1>7, <1>8, <1>9, <2>1
<1>14. CASE LaunchInstance(w)
  <2>1. /\ pc[w] = "run"
        /\ \/ FinishWithError(w) \/ Finish(w, setFailed(c), FALSE)
           \/ \E i \in Instances : Created(w, i)
    BY <1>14 DEF LaunchInstance
  <2> QED
    BY <1>3, <1>4, <1>6, <1>8, <1>9, <2>1
<1>15. CASE DescribeForDelete(w)
  <2>1. /\ pc[w] = "delDescribe"
        /\ \/ Finish(w, c, TRUE) \/ Finish(w, x, TRUE)
           \/ (Goto(w, "sweep", c) \/ Goto(w, "deleteECS", x)) /\ UNCHANGED requeue
    BY <1>15 DEF DescribeForDelete, Stay, x
  <2> QED
    BY <1>1, <1>2, <1>3, <1>6, <1>7, <2>1
<1>16. CASE SweepByTag(w)
  <2>1. /\ pc[w] = "sweep"
        /\ \/ Finish(w, c, TRUE) \/ Finish(w, f, FALSE)
           \/ (Goto(w, "deleteECS", c) \/ Goto(w, "cleanup", c)) /\ UNCHANGED requeue
    BY <1>16 DEF SweepByTag, Stay, f
  <2> QED
    BY <1>1, <1>2, <1>3, <1>6, <1>7, <2>1
<1>17. CASE DeleteInstance(w) \/ CleanupIgnition(w)
  <2>1. /\ pc[w] \in {"deleteECS", "cleanup"}
        /\ Finish(w, c, TRUE) \/ Finish(w, f, FALSE)
    BY <1>17 DEF DeleteInstance, CleanupIgnition, f
  <2> QED
    BY <1>1, <1>2, <1>3, <1>6, <2>1
<1>18. CASE Return(w)
  <2>1. /\ UNCHANGED <<obj, cache, machine, pauses>> /\ pc[w] = "return"
        /\ pc'[w] = "idle" /\ key'[w] = None /\ key[w] \in Machines
        /\ \A n \in Machines : queued[w][n] => queued'[w][n]
        /\ requeue[w] => queued'[w][key[w]]
        /\ \A v \in Workers : v = w
    BY <1>1, <1>18 DEF Return, Done, apiVars, envVars, Typed, TypeOK, OneWorker
  <2>2. Paced' /\ Withdraws'
    BY <2>1 DEF Paced, Withdraws
  <2>3. UnownedNotReady' /\ NeverPaused' /\ Fresh'
    BY <2>1, NoneAssumption DEF RestInv, UnownedNotReady, NeverPaused, Fresh
  <2>4. AllAttended'
    BY <2>1 DEF RestInv, AllAttended, Attended, PatchingSteps
  <2> QED
    BY <2>2, <2>3, <2>4 DEF RestInv
<1> QED
  BY <1>10, <1>11, <1>12, <1>13, <1>14, <1>15, <1>16, <1>17, <1>18, PatchRests
     DEF Advance

(* What the surroundings may do to what RestInv speaks of: a pause is      *)
(* counted, an owner stays, a queue only grows, and a delete makes a       *)
(* machine nobody's business.                                              *)
LEMMA SurroundingsMove ==
  ASSUME Typed, Environment, NEW m \in Machines
  PROVE  /\ UNCHANGED <<cache, pc, key, base, cur, requeue>>
         /\ pauses' = 0 => pauses = 0
         /\ machine'[m].link = "unowned" => machine[m].link = "unowned"
         /\ machine'[m].link \in {"paused", "clusterPaused"} =>
               pauses' # 0 \/ machine[m].link \in {"paused", "clusterPaused"}
         /\ \A w \in Workers : queued[w][m] => queued'[w][m]
         /\ obj'[m] = obj[m] \/ (obj'[m].deleting /\ obj'[m].ready = obj[m].ready)
<1> DEFINE G == /\ UNCHANGED <<cache, pc, key, base, cur, requeue>>
                /\ pauses' = 0 => pauses = 0
                /\ machine'[m].link = "unowned" => machine[m].link = "unowned"
                /\ machine'[m].link \in {"paused", "clusterPaused"} =>
                      pauses' # 0 \/ machine[m].link \in {"paused", "clusterPaused"}
                /\ \A w \in Workers : queued[w][m] => queued'[w][m]
                /\ \/ obj'[m] = obj[m]
                   \/ obj'[m].deleting /\ obj'[m].ready = obj[m].ready
<1> USE DEF apiVars, envVars, workerVars, localVars
<1>1. pauses \in Nat /\ machine \in [Machines -> MachineType]
  BY BoundAssumption DEF Typed, TypeOK
<1>2. pauses' = pauses + 1 => pauses' # 0
  BY <1>1
<1>3. ASSUME NEW n \in Machines, NEW r, Event(n, r) \/ Silent(n, r),
             r.link = "unowned" => machine[n].link = "unowned",
             \/ r.link \notin {"paused", "clusterPaused"} /\ UNCHANGED pauses
             \/ r.link = machine[n].link /\ UNCHANGED pauses
             \/ pauses' = pauses + 1
      PROVE  G
  <2>1. \A w \in Workers : queued[w][m] => queued'[w][m]
    <3>1. CASE Event(n, r)
      <4>1. \A w \in Workers : queued'[w] = [queued[w] EXCEPT ![n] = TRUE]
        BY <3>1 DEF Event, Enqueue
      <4>2. \A w \in Workers : queued[w] \in [Machines -> BOOLEAN]
        BY DEF Typed, TypeOK
      <4>3. ASSUME NEW w \in Workers, queued[w][m]
            PROVE  [queued[w] EXCEPT ![n] = TRUE][m]
        <5>1. CASE m = n
          BY <4>2, <4>3, <5>1
        <5>2. CASE m # n
          BY <4>2, <4>3, <5>2
        <5> QED
          BY <5>1, <5>2
      <4> QED
        BY <4>1, <4>3
    <3>2. CASE Silent(n, r)
      BY <3>2 DEF Silent
    <3> QED
      BY <1>3, <3>1, <3>2
  <2>2. machine'[m] = IF m = n THEN r ELSE machine[m]
    BY <1>1, <1>3 DEF Event, Silent
  <2>3. UNCHANGED <<cache, pc, key, base, cur, requeue, obj>>
    BY <1>3 DEF Event, Silent
  <2> QED
    BY <1>1, <1>2, <1>3, <2>1, <2>2, <2>3
<1>4. ASSUME NEW n \in Machines
      PROVE  /\ \A l : [machine[n] EXCEPT !.link = l].link = l
             /\ [machine[n] EXCEPT !.dataSecret = TRUE].link = machine[n].link
             /\ [machine[n] EXCEPT !.nodeRef = TRUE].link = machine[n].link
  BY <1>1, <1>4 DEF MachineType
<1>5. ASSUME NEW n \in Machines, SetOwner(n) \/ Unpause(n) \/ UnpauseCluster(n)
      PROVE  G
  <2> DEFINE r == [machine[n] EXCEPT !.link = "linked"]
  <2>1. r.link = "linked" /\ UNCHANGED pauses /\ (Event(n, r) \/ Silent(n, r))
    BY <1>4, <1>5 DEF SetOwner, Unpause, UnpauseCluster
  <2> HIDE DEF r, G
  <2> QED
    BY <1>3, <2>1
<1>6. ASSUME NEW n \in Machines, SetDataSecret(n) \/ BindNode(n)
      PROVE  G
  BY <1>3, <1>4, <1>6 DEF SetDataSecret, BindNode
<1>7. ASSUME NEW n \in Machines, Pause(n) \/ OwnerDeleted(n)
      PROVE  G
  BY <1>3, <1>4, <1>7 DEF Pause, OwnerDeleted
<1>8. ASSUME NEW n \in Machines, UserDeletes(n)
      PROVE  G
  <2>1. obj'[m] \in {obj[m], MarkDeleted(obj[m])} /\ obj[m] \in Object
    BY <1>8 DEF UserDeletes, Typed, TypeOK
  <2>2. MarkDeleted(obj[m]).deleting /\ MarkDeleted(obj[m]).ready = obj[m].ready
    BY <2>1 DEF MarkDeleted, Collect, Object
  <2> QED
    BY <1>8, <2>1, <2>2 DEF UserDeletes
<1>9. ASSUME NEW i \in Instances,
             ECSProgress(i) \/ NodeJoins(i) \/ OperatorRestarts(i) \/ CloudFault(i)
      PROVE  G
  BY <1>9 DEF ECSProgress, NodeJoins, OperatorRestarts, CloudFault
<1>10. CASE ClusterChanges
  BY <1>2, <1>10 DEF ClusterChanges
<1> QED
  BY <1>5, <1>6, <1>7, <1>8, <1>9, <1>10 DEF Environment

(* RestInv is inductive for one worker.                                    *)
LEMMA RestStep ==
  ASSUME OneWorker, Typed, RestInv, [Next]_vars
  PROVE  RestInv'
<1>1. CASE UNCHANGED vars
  BY <1>1 DEF vars, apiVars, envVars, workerVars, localVars, RestInv, Paced,
     UnownedNotReady, NeverPaused, Fresh, Withdraws, AllAttended, Attended
<1>2. ASSUME NEW w \in Workers, NEW m \in Machines, Deliver(w, m)
      PROVE  RestInv'
  <2>1. /\ UNCHANGED <<obj, machine, pauses, pc, key, base, cur, requeue>>
        /\ \A n \in Machines \ {m} : /\ cache'[w][n] = cache[w][n]
                                     /\ queued'[w][n] = queued[w][n]
        /\ cache'[w][m] = obj[m]
        /\ machine[m].link # "paused" => queued'[w][m]
        /\ \A v \in Workers : v = w
    BY <1>2 DEF Deliver, apiVars, envVars, localVars, Typed, TypeOK, OneWorker
  <2>2. Paced' /\ NeverPaused' /\ Withdraws' /\ UnownedNotReady'
    BY <2>1 DEF RestInv, Paced, NeverPaused, Withdraws, UnownedNotReady
  <2>3. Fresh' /\ AllAttended'
    <3>1. pauses = 0 => queued'[w][m]
      BY <2>1 DEF RestInv, NeverPaused
    <3> QED
      BY <2>1, <3>1 DEF RestInv, Fresh, AllAttended, Attended
  <2> QED
    BY <2>2, <2>3 DEF RestInv
<1>3. ASSUME NEW w \in Workers, Crash(w)
      PROVE  RestInv'
  <2>1. /\ UNCHANGED <<obj, machine, pauses>>
        /\ pc'[w] = "idle" /\ key'[w] = None
        /\ \A n \in Machines : cache'[w][n] = obj[n] /\ queued'[w][n]
        /\ \A v \in Workers : v = w
    BY <1>3 DEF Crash, Done, apiVars, envVars, Typed, TypeOK, OneWorker
  <2> QED
    BY <2>1, NoneAssumption DEF RestInv, Paced, UnownedNotReady, NeverPaused, Fresh,
       Withdraws, AllAttended, Attended, WorkSteps, CreateSteps, KeepSteps
<1>4. CASE Environment
  <2>1. Paced' /\ Withdraws'
    <3>1. UNCHANGED <<pc, key, base, cur>> /\ requeue' = requeue
      BY <1>4, SurroundingsKeep DEF Environment, SetOwner, SetDataSecret, BindNode,
         Pause, Unpause, UnpauseCluster, OwnerDeleted, UserDeletes, ECSProgress,
         NodeJoins, OperatorRestarts, CloudFault, ClusterChanges, Event, Silent,
         workerVars, localVars
    <3> QED
      BY <3>1 DEF RestInv, Paced, Withdraws
  <2>2. UnownedNotReady' /\ NeverPaused' /\ Fresh'
    BY <1>4, SurroundingsMove DEF RestInv, UnownedNotReady, NeverPaused, Fresh
  <2>3. AllAttended'
    BY <1>4, SurroundingsMove DEF RestInv, AllAttended, Attended, Unbindable, Mismatch
  <2> QED
    BY <2>1, <2>2, <2>3 DEF RestInv
<1> QED
  BY <1>1, <1>2, <1>3, <1>4, BeginRests, AdvanceRests DEF Next

(* One controller never comes to rest on a Ready machine whose providerID  *)
(* and instanceID name different instances - for any number of machines,   *)
(* faults and forgotten tokens: findOrCreateInstance's mismatch check is   *)
(* always still to come, as long as no cluster was paused.                 *)
THEOREM RestBinds ==
  ASSUME OneWorker
  PROVE  Spec => []ReadyAtRestBinds
<1>1. Init => RestInv
  <2> SUFFICES ASSUME Init
               PROVE  RestInv
    OBVIOUS
  <2>1. \A m \in Machines : ~obj[m].ready
    BY DEF Init, NewObject
  <2>2. Paced /\ Withdraws /\ NeverPaused /\ Fresh
    BY NoneAssumption DEF Init, Paced, Withdraws, NeverPaused, Fresh, WorkSteps,
       CreateSteps, KeepSteps
  <2>3. UnownedNotReady /\ AllAttended
    BY <2>1, NoneAssumption DEF Init, UnownedNotReady, AllAttended, Attended
  <2> QED
    BY <2>2, <2>3 DEF RestInv
<1>2. Typed /\ RestInv /\ [Next]_vars => RestInv'
  BY RestStep
<1>3. Typed /\ RestInv => ReadyAtRestBinds
  BY DEF RestInv, AllAttended, Attended, ReadyAtRestBinds, Rests, Unbindable
<1> QED
  BY <1>1, <1>2, <1>3, TypedAlways, PTL DEF Spec
=============================================================================
