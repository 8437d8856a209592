----------------------------- MODULE InfraMachine -----------------------------
(***************************************************************************)
(* What the CSR approver sees of the AlibabaCloudMachines, and all it may   *)
(* rely on: which of the two handles on its instance a machine has stored. *)
(* CSRApprover takes these steps as its environment; MachineController     *)
(* implements them.                                                        *)
(***************************************************************************)
CONSTANT Machines

VARIABLE handles

\* providerID: spec.providerID is set; instanceID: status.instanceID is.
Handles == [exists: BOOLEAN, providerID: BOOLEAN, instanceID: BOOLEAN]

Unrecorded == [exists |-> TRUE, providerID |-> FALSE, instanceID |-> FALSE]

Init == handles = [m \in Machines |-> Unrecorded]

\* A request stores handles, in any order and also both at once, or removes
\* the object; none is taken back, and what is removed stays so.
Record(m) ==
  /\ handles[m].exists
  /\ \E h \in Handles :
        /\ handles[m].providerID => h.providerID
        /\ handles[m].instanceID => h.instanceID
        /\ handles' = [handles EXCEPT ![m] = h]

Next == \E m \in Machines : Record(m)

Spec == Init /\ [][Next]_handles
=============================================================================
