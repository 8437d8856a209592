------------------------------ MODULE ECSClient ------------------------------
(***************************************************************************)
(* The ECS operations of pkg/client/capi.go and the instances they act on. *)
(*                                                                         *)
(* An instance that was never launched has no owner; one that was released *)
(* keeps its owner and is "absent", as DescribeInstances no longer lists   *)
(* it.  "Pending" stands for Pending and Starting, which every branch of   *)
(* the provider treats alike.  The per-machine tag is OwnerName of the     *)
(* owner and is not stored.                                                *)
(***************************************************************************)
EXTENDS AlibabaCloudMachine

CONSTANT OwnerName   \* Machine.Name of the CAPI Machine owning the object

VARIABLE ecs

States == {"absent", "Pending", "Running", "Stopping", "Stopped", "Deleted"}

(* token: ECS still remembers the ClientToken the instance was launched    *)
(*        with (it forgets it after a day);                                *)
(* guarded: a history of the launch - the API object held the finalizer    *)
(*        and a region when it happened;                                   *)
(* joined: Ignition is done and the kubelet registered the Node;           *)
(* tokensRequired: IMDS answers only requests that carry a token.          *)
Instance ==
  [state: States, owner: Machines \cup {None}, token: BOOLEAN,
   guarded: BOOLEAN, joined: BOOLEAN, tokensRequired: BOOLEAN]

ECSInit ==
  ecs = [i \in Instances |->
           [state |-> "absent", owner |-> None, token |-> FALSE,
            guarded |-> FALSE, joined |-> FALSE, tokensRequired |-> FALSE]]

Live(i) == ecs[i].state \notin {"absent", "Deleted"}

-----------------------------------------------------------------------------
(* Calls.  The ones that only read are sets or predicates. *)

\* DescribeInstanceByID finds the instance.
Described(i) == ecs[i].state # "absent"

\* Mutant: the tag value is not part of the filter.
FindInstanceByTag_AnyName(name) ==
  {i \in Instances : ecs[i].owner # None /\ Live(i)}

\* Mutant: an instance that is still starting is not listed.
FindInstanceByTag_Running(name) ==
  {i \in Instances : /\ ecs[i].owner # None
                     /\ OwnerName[ecs[i].owner] = name
                     /\ ecs[i].state = "Running"}

\* The instances FindInstanceByTag may return for a machine name; it returns
\* one of them, or "" when there is none.
FindInstanceByTag(name) ==
  {i \in Instances : /\ ecs[i].owner # None
                     /\ OwnerName[ecs[i].owner] = name
                     /\ Live(i)}

\* Mutant: one ClientToken for all machines.
Remembered_SharedToken(m) == {i \in Instances : ecs[i].token}

\* The instance ECS remembers for a ClientToken.
Remembered(m) == {i \in Instances : ecs[i].owner = m /\ ecs[i].token}

Launched(m, guard, tokens) ==
  [state |-> "Pending", owner |-> m, token |-> TRUE, guarded |-> guard,
   joined |-> FALSE, tokensRequired |-> tokens]

\* Mutant: no ClientToken is sent.
RunInstances_NoToken(m, guard, tokens, i) ==
  /\ ecs[i].owner = None
  /\ ecs' = [ecs EXCEPT ![i] = Launched(m, guard, tokens)]

\* RunInstances with ClientToken = UID returns i; a new instance has its IMDS
\* options from the request.
RunInstances(m, guard, tokens, i) ==
  \/ /\ i \in Remembered(m)
     /\ UNCHANGED ecs
  \/ /\ Remembered(m) = {}
     /\ ecs[i].owner = None
     /\ ecs' = [ecs EXCEPT ![i] = Launched(m, guard, tokens)]

SetState(i, s) == ecs' = [ecs EXCEPT ![i].state = s]

\* DeleteECSInstance: a force stop, then the release.  An instance that is
\* gone makes DeleteInstance fail and changes nothing.
DeleteECSInstance(i) ==
  IF Described(i) THEN SetState(i, "Deleted") ELSE UNCHANGED ecs

\* ... of which only the stop took effect.
StopOnly(i) == ecs[i].state = "Running" /\ SetState(i, "Stopping")

ModifyInstanceMetadata(i) == ecs' = [ecs EXCEPT ![i].tokensRequired = TRUE]

-----------------------------------------------------------------------------
(* What happens to instances on its own. *)

Booted(i)   == ecs[i].state = "Pending"  /\ SetState(i, "Running")
Halted(i)   == ecs[i].state = "Stopping" /\ SetState(i, "Stopped")
Released(i) == ecs[i].state = "Deleted"  /\ SetState(i, "absent")

\* Ignition fetches its config from IMDS without a token, so an instance that
\* already requires one never joins.
Joined(i) ==
  /\ ecs[i].state = "Running"
  /\ ~ecs[i].joined /\ ~ecs[i].tokensRequired
  /\ ecs' = [ecs EXCEPT ![i].joined = TRUE]

\* Somebody other than the provider restarts an instance ...
Restarted(i) == ecs[i].state = "Stopped" /\ SetState(i, "Pending")

\* ... or stops it or takes it away (a spot reclaim, the console).
Disrupted(i) ==
  \/ StopOnly(i)
  \/ Live(i) /\ SetState(i, "Deleted")

TokenForgotten(i) ==
  /\ ecs[i].token
  /\ ecs' = [ecs EXCEPT ![i].token = FALSE]
=============================================================================
