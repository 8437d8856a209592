-------------------------- MODULE MachineProperties --------------------------
(***************************************************************************)
(* What the machine controller promises, and what its comments and docs    *)
(* say it promises.                                                        *)
(***************************************************************************)
EXTENDS MachineController

Owned(m) == {i \in Instances : ecs[i].owner = m}

(* At most one instance is ever launched for an AlibabaCloudMachine, however *)
(* many reconciles overlap, crash or lose answers between FindInstanceByTag  *)
(* and RunInstances: ClientToken and adopt-by-tag are what prevents it.      *)
AtMostOneInstance ==
  \A i, j \in Instances :
     ecs[i].owner # None /\ ecs[i].owner = ecs[j].owner => i = j

(* spec.providerID and status.instanceID, written by separate requests that *)
(* fail separately and from different workers, never come to name different *)
(* instances, so no machine ends as ProviderIDInstanceMismatch.             *)
HandlesAgree == \A m \in Machines : ~Mismatch(obj[m])

(* Every handle an object records names an instance launched for that very  *)
(* object: adopt-by-tag never hands a machine somebody else's instance.     *)
OwnHandles ==
  \A m \in Machines :
     {obj[m].providerID, obj[m].instanceID} \ {None} \subseteq Owned(m)

(* A worker deletes only instances that were launched for the machine it    *)
(* deletes, also when it found them by tag (reconcileDelete's orphan sweep). *)
DeletesOwnInstance ==
  \A w \in Workers : target[w] # None => target[w] \in Owned(key[w])

(* IMDS tokens are required of an instance that booted without them only    *)
(* after its own node joined: the nodeRef that opens the gate of            *)
(* maybeHardenMetadata belongs to the instance that is then modified, so    *)
(* Ignition's fetch is never cut off.                                       *)
HardenAfterJoin ==
  \A i \in Instances :
     ecs[i].tokensRequired /\ ~TokensAtBoot(ecs[i].owner) => ecs[i].joined

(* The finalizer of a machine whose instance was launched under it (with a  *)
(* region on the spec) goes only once that instance is released: no crash,  *)
(* lost write or stale cache lets reconcileDelete strand it.                *)
GuardedNotStranded ==
  \A i \in Instances :
     ecs[i].guarded /\ Live(i) => obj[ecs[i].owner].exists

(* The nothing-provisioned shortcut of reconcileDelete: "reaching here      *)
(* means no instance was ever created".                                     *)
ShortcutIsSound ==
  [][\A w \in Workers, m \in Machines :
        ReleaseUnprovisioned(w, m) => Owned(m) = {}]_vars

(* A terminal failure is final: "retrying cannot make progress", so a       *)
(* failed machine is never reported Ready afterwards.                       *)
FailureIsTerminal ==
  [][\A m \in Machines :
        obj[m].failed /\ ~obj[m].ready => ~obj'[m].ready]_vars

(* Once the API server holds a providerID or a region it never changes nor  *)
(* loses it, whatever stale copies the workers patch from.                  *)
IdentityIsStable ==
  [][\A m \in Machines :
        /\ obj[m].providerID # None => obj'[m].providerID = obj[m].providerID
        /\ obj[m].regionID => obj'[m].regionID]_vars

(* ECS may forget a ClientToken, so a second instance may be launched for a *)
(* machine whose first one is gone - but never beside a live one: adopt-by- *)
(* tag alone still keeps one controller from running two instances at once. *)
OneLiveInstance ==
  \A i, j \in Instances :
     Live(i) /\ Live(j) /\ ecs[i].owner = ecs[j].owner => i = j

\* Worker w has nothing left to do about machine m and no news of it to come.
Rests(w, m) == key[w] # m /\ ~queued[w][m] /\ cache[w][m] = obj[m]

(* A machine whose two handles name different instances can never bind its  *)
(* Node.  Stale copies may turn it Ready for a while, but no controller     *)
(* comes to rest on it ("reporting Ready forever"): findOrCreateInstance's  *)
(* mismatch check withdraws it.  Unpausing a Cluster queues nothing, so     *)
(* this is about clusters that were never paused.                           *)
ReadyAtRestBinds ==
  \A w \in Workers, m \in Machines :
     /\ Rests(w, m) /\ pauses = 0
     /\ obj[m].exists /\ ~obj[m].deleting /\ obj[m].ready
     => ~Mismatch(obj[m])

\* What is stored of a machine's handles.
Stored ==
  [m \in Machines |-> [exists     |-> obj[m].exists,
                       providerID |-> obj[m].providerID # None,
                       instanceID |-> obj[m].instanceID # None]]

InfraM == INSTANCE InfraMachine WITH handles <- Stored

(* The controller is what the CSR approver takes it for: no handle it has   *)
(* stored is ever taken back, by whatever stale copy a later patch is made  *)
(* from, and a removed object stays removed.                                *)
ImplementsInfraMachine == InfraM!Spec

-----------------------------------------------------------------------------

(* A deleted machine goes away: its finalizer is eventually removed.        *)
DeletionCompletes ==
  \A m \in Machines : obj[m].deleting ~> ~obj[m].exists

\* The controller has no business with the machine, or not now.
Unwanted(m) == obj[m].deleting \/ machine[m].link # "linked" \/ infra # "ready"

Settled(m) == obj[m].failed \/ Unwanted(m)

(* With its prerequisites there, a machine is eventually provisioned, or    *)
(* reported failed, or no longer wanted: no reconcile ends without a        *)
(* requeue while there is still something to wait for.                      *)
ProvisioningEnds ==
  \A m \in Machines :
     (Prepared(m) /\ machine[m].link = "linked") ~>
        (obj[m].provisioned \/ Settled(m))

(* CAPI core needs spec.providerID once it sees the machine provisioned,    *)
(* and the CSR approver too: a spec write that was lost is made good.       *)
ProviderIDHeals ==
  \A m \in Machines :
     obj[m].provisioned ~> (obj[m].providerID # None \/ Settled(m))

\* The node joined and the spec asks for hardening after boot.
ToHarden(m) == machine[m].nodeRef /\ spec[m].hardenAfterBoot

(* A node that joined gets its IMDS hardening: the event of the nodeRef     *)
(* reaches maybeHardenMetadata although provisioning is long over, unless a *)
(* call failed, the process died or the instance was disrupted on the way.  *)
HardeningHappens ==
  \A m \in Machines :
     ToHarden(m) ~> (obj[m].hardened \/ Settled(m) \/ faults > 0)
=============================================================================
