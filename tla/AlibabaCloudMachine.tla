------------------------- MODULE AlibabaCloudMachine -------------------------
(***************************************************************************)
(* The AlibabaCloudMachine API object: the fields the provider's           *)
(* controllers act on, the webhook that admits its updates and the merge   *)
(* semantics of the patch helper that writes it.                           *)
(*                                                                         *)
(* A region is present or absent: the cluster's region is immutable and is *)
(* the only value the controller ever writes.  A providerID is represented *)
(* by the instance it names.                                               *)
(***************************************************************************)
EXTENDS Naturals

CONSTANTS
  Machines,    \* the AlibabaCloudMachine objects (each stands for its UID)
  Instances,   \* the ECS instance ids that may ever be handed out
  None         \* a nil pointer

ASSUME NoneAssumption == None \notin Machines \cup Instances

Handle == Instances \cup {None}

(* finalizer, regionID and providerID are metadata and spec; the rest is   *)
(* status, cond being "the Ready condition is True".                       *)
Object ==
  [exists: BOOLEAN, deleting: BOOLEAN, finalizer: BOOLEAN, regionID: BOOLEAN,
   providerID: Handle, instanceID: Handle, cond: BOOLEAN, ready: BOOLEAN,
   provisioned: BOOLEAN, failed: BOOLEAN, hardened: BOOLEAN,
   ignitionOSS: BOOLEAN]

NewObject(region) ==
  [exists |-> TRUE, deleting |-> FALSE, finalizer |-> FALSE,
   regionID |-> region, providerID |-> None, instanceID |-> None,
   cond |-> FALSE, ready |-> FALSE, provisioned |-> FALSE, failed |-> FALSE,
   hardened |-> FALSE, ignitionOSS |-> FALSE]

\* The local copy of a worker that holds no object.
NoObject == [NewObject(FALSE) EXCEPT !.exists = FALSE]

-----------------------------------------------------------------------------
(* Handles on the instance and on its region. *)

\* The instance a delete acts on: Status.InstanceID, else the providerID's.
RecordedInstance(o) ==
  IF o.instanceID # None THEN o.instanceID ELSE o.providerID

\* regionFromMachine succeeds: the spec names the region or the providerID does.
regionFromMachine(o) == o.regionID \/ o.providerID # None

\* setFailed: the terminal-failure contract.
setFailed(o) == [o EXCEPT !.failed = TRUE, !.ready = FALSE, !.cond = FALSE]

\* The tail of reconcileNormal for a Running instance.
SetProvisioned(o) ==
  [o EXCEPT !.cond = TRUE, !.ready = TRUE, !.provisioned = TRUE]

-----------------------------------------------------------------------------
(* Writing the object.  The patch helper sends, in three requests, only    *)
(* what differs between the object as it was read (b) and as it was left   *)
(* in memory (c); the API server merges that into what it holds (o).       *)

Merge(o, b, c) == IF c = b THEN o ELSE c

PatchedConditions(o, b, c) == [o EXCEPT !.cond = Merge(@, b.cond, c.cond)]

\* The API server drops an object that is being deleted with its last
\* finalizer.
Collect(o) == [o EXCEPT !.exists = @ /\ ~(o.deleting /\ ~o.finalizer)]

PatchedSpec(o, b, c) ==
  Collect([o EXCEPT !.finalizer  = Merge(@, b.finalizer, c.finalizer),
                    !.regionID   = Merge(@, b.regionID, c.regionID),
                    !.providerID = Merge(@, b.providerID, c.providerID)])

\* Mutant: the status in memory replaces the stored one.
PatchedStatus_Update(o, b, c) ==
  [o EXCEPT !.instanceID = c.instanceID, !.ready = c.ready,
            !.provisioned = c.provisioned, !.failed = c.failed,
            !.hardened = c.hardened, !.ignitionOSS = c.ignitionOSS]

PatchedStatus(o, b, c) ==
  [o EXCEPT !.instanceID  = Merge(@, b.instanceID, c.instanceID),
            !.ready       = Merge(@, b.ready, c.ready),
            !.provisioned = Merge(@, b.provisioned, c.provisioned),
            !.failed      = Merge(@, b.failed, c.failed),
            !.hardened    = Merge(@, b.hardened, c.hardened),
            !.ignitionOSS = Merge(@, b.ignitionOSS, c.ignitionOSS)]

\* Mutant: the webhook forgets spec.providerID.
ValidateUpdate_ProviderIDMutable(old, new) == old.regionID => new.regionID

\* validateMachineImmutable, for the fields a controller writes.
ValidateUpdate(old, new) ==
  /\ old.regionID => new.regionID
  /\ old.providerID # None => new.providerID = old.providerID

\* A user deletes the object: it stays, marked, while a finalizer holds it.
MarkDeleted(o) == Collect([o EXCEPT !.deleting = TRUE])
=============================================================================
