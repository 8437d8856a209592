-------------------------- MODULE CSRApproverProofs --------------------------
(***************************************************************************)
(* Proofs about the CSR approver, for any machines, kubelets and addresses  *)
(* and any number of faults: it is well typed, and what it approved was     *)
(* justified by objects that were really stored, however old its caches.    *)
(***************************************************************************)
EXTENDS CSRApprover, TLAPS

(* What kubelets ask for are requests.                                      *)
LEMMA RequestTypes ==
  ASSUME NEW k \in Kubelets
  PROVE  /\ BootstrapRequest(k) \in Request
         /\ \A a \in SUBSET Addresses : ServingRequest(k, a) \in Request
         /\ OddRequests(k) \subseteq Request
<1>1. BootstrapRequest(k) \in Request
  BY DEF BootstrapRequest, Request
<1>2. \A n \in Kubelets, a \in SUBSET Addresses : ServingRequest(n, a) \in Request
  BY DEF ServingRequest, Request
<1>3. OddRequests(k) \subseteq Request
  BY <1>1, <1>2 DEF OddRequests, Request
<1> QED
  BY <1>1, <1>2, <1>3

(* The initial states are well typed.                                       *)
LEMMA TypeInit == Init => CSRTypeOK
<1> SUFFICES ASSUME Init PROVE CSRTypeOK
  OBVIOUS
<1>1. handles \in [Machines -> Infra!Handles]
  BY DEF Init, Infra!Init, Infra!Unrecorded, Infra!Handles
<1>2. node \in [Kubelets -> Node]
  BY DEF Init, Node, NoNode
<1>3. advertised \in [Kubelets -> SUBSET Addresses]
  BY <1>2 DEF Init, Node
<1>4. csr \in [Kubelets -> CSR]
  BY RequestTypes DEF Init, NoCSR, CSR, Stages
<1>5. certs \in [Kubelets -> SUBSET {"client", "serving"}]
  BY DEF Init
<1>6. seen \in [Kubelets -> Stages] /\ queued \in [Kubelets -> BOOLEAN]
  BY DEF Init, Stages
<1>7. faults \in 0..MaxFaults
  BY ApproverBounds DEF Init
<1>8. seenMachines = handles /\ seenNodes = node /\ approving = None
  BY DEF Init
<1> QED
  BY <1>1, <1>2, <1>3, <1>4, <1>5, <1>6, <1>7, <1>8 DEF CSRTypeOK

(* The approver's own steps keep the types ...                              *)
LEMMA ApproverTyped ==
  ASSUME CSRTypeOK, NEW k \in Kubelets,
         Reconcile(k) \/ UpdateApproval(k) \/ DeliverCSR(k)
  PROVE  CSRTypeOK'
<1>1. CASE Leave(k)
  BY <1>1 DEF CSRTypeOK, Leave, envVars, cacheVars
<1>2. CASE Decide(k)
  BY <1>2 DEF CSRTypeOK, Decide, envVars, cacheVars
<1>3. CASE ReadFails(k)
  BY <1>3, ApproverBounds DEF CSRTypeOK, ReadFails, Fault, envVars, cacheVars
<1>4. CASE UpdateApproval(k)
  <2>1. csr' \in [Kubelets -> CSR]
    BY <1>4 DEF CSRTypeOK, UpdateApproval, Approve, CSR, Stages
  <2>2. queued' = queued \/ queued' = [queued EXCEPT ![k] = TRUE]
    BY <1>4 DEF UpdateApproval
  <2>3. queued' \in [Kubelets -> BOOLEAN]
    BY <2>2 DEF CSRTypeOK
  <2>4. faults' = faults \/ Fault
    BY <1>4 DEF UpdateApproval
  <2>5. faults' \in 0..MaxFaults
    BY <2>4, ApproverBounds DEF CSRTypeOK, Fault
  <2> QED
    BY <1>4, <2>1, <2>3, <2>5 DEF CSRTypeOK, UpdateApproval, envVars, cacheVars
<1>5. CASE DeliverCSR(k)
  BY <1>5 DEF CSRTypeOK, DeliverCSR, CSR, envVars
<1> QED
  BY <1>1, <1>2, <1>3, <1>4, <1>5 DEF Reconcile

(* ... and so do a kubelet's requests ...                                   *)
LEMMA AskTyped ==
  ASSUME CSRTypeOK, NEW k \in Kubelets, NEW r \in Request, Ask(k, r),
         faults' \in 0..MaxFaults
  PROVE  CSRTypeOK'
  BY DEF CSRTypeOK, Ask, CSR, Stages, envVars

(* ... everything that writes a Node ...                                    *)
LEMMA SetNodeTyped ==
  ASSUME CSRTypeOK, NEW k \in Kubelets, NEW n \in Node, SetNode(k, n),
         faults' \in 0..MaxFaults
  PROVE  CSRTypeOK'
  BY DEF CSRTypeOK, SetNode, Others, Node, cacheVars

(* ... and whatever else happens to one kubelet's request.                  *)
LEMMA KubeletTyped ==
  ASSUME CSRTypeOK, NEW k \in Kubelets,
         RequestSteps(k) \/ NodeSteps(k) \/ AskOdd(k) \/ OtherDecides(k) \/ Readdress(k)
  PROVE  CSRTypeOK'
<1>f. faults' \in 0..MaxFaults
  BY ApproverBounds DEF CSRTypeOK, RequestSteps, NodeSteps, AskOdd, OtherDecides, Readdress,
     AskBootstrap, AskServing, Issue, Clean, Register, Initialise, Unregister, Fault
<1>n. node[k] \in Node /\ NoNode \in Node
  BY DEF CSRTypeOK, Node, NoNode
<1>1. CASE AskBootstrap(k)
  BY <1>1, <1>f, RequestTypes, AskTyped DEF AskBootstrap
<1>2. CASE AskServing(k)
  <2>1. PICK a \in IF node[k].providerID THEN {node[k].addresses} ELSE {{}, Addresses} :
          Ask(k, ServingRequest(k, a))
    BY <1>2 DEF AskServing
  <2>2. a \in SUBSET Addresses
    BY <1>n, <2>1 DEF Node
  <2> QED
    BY <1>f, <2>1, <2>2, RequestTypes, AskTyped
<1>3. CASE Issue(k)
  BY <1>3, <1>f DEF CSRTypeOK, Issue, Others, CSR, Request, Stages, cacheVars
<1>4. CASE Clean(k)
  BY <1>4, <1>f, RequestTypes DEF CSRTypeOK, Clean, Others, NoCSR, CSR, Stages, cacheVars, envVars
<1>5. CASE Register(k)
  <2>1. [NoNode EXCEPT !.exists = TRUE] \in Node
    BY DEF Node, NoNode
  <2> QED
    BY <1>5, <1>f, <2>1, SetNodeTyped DEF Register
<1>6. CASE Initialise(k)
  <2>1. [node[k] EXCEPT !.providerID = TRUE, !.addresses = Addresses] \in Node
    BY <1>n DEF Node
  <2> QED
    BY <1>6, <1>f, <2>1, SetNodeTyped DEF Initialise
<1>7. CASE Unregister(k)
  BY <1>7, <1>f, <1>n, SetNodeTyped DEF Unregister
<1>8. CASE AskOdd(k)
  BY <1>8, <1>f, RequestTypes, AskTyped DEF AskOdd
<1>9. CASE OtherDecides(k)
  BY <1>9, <1>f DEF CSRTypeOK, OtherDecides, Others, CSR, Stages, cacheVars
<1>10. CASE Readdress(k)
  <2>1. PICK a \in SUBSET Addresses : SetNode(k, [node[k] EXCEPT !.addresses = a])
    BY <1>10 DEF Readdress
  <2>2. [node[k] EXCEPT !.addresses = a] \in Node
    BY <1>n DEF Node
  <2> QED
    BY <1>f, <2>1, <2>2, SetNodeTyped
<1> QED
  BY <1>1, <1>2, <1>3, <1>4, <1>5, <1>6, <1>7, <1>8, <1>9, <1>10 DEF RequestSteps, NodeSteps

(* The machines store handles, never take one back.                         *)
LEMMA MachinesRecord ==
  ASSUME CSRTypeOK, MachineChanges
  PROVE  /\ handles' \in [Machines -> Infra!Handles]
         /\ \A m \in Machines : /\ handles[m].providerID => handles'[m].providerID
                                /\ handles[m].instanceID => handles'[m].instanceID
  BY DEF CSRTypeOK, MachineChanges, Infra!Next, Infra!Record

(* Every step keeps the types.                                              *)
LEMMA TypeStep == CSRTypeOK /\ [Next]_vars => CSRTypeOK'
<1> SUFFICES ASSUME CSRTypeOK, [Next]_vars PROVE CSRTypeOK'
  OBVIOUS
<1>1. CASE \E k \in Kubelets : Reconcile(k) \/ UpdateApproval(k) \/ DeliverCSR(k)
  BY <1>1, ApproverTyped
<1>2. CASE \E k \in Kubelets : \/ RequestSteps(k) \/ NodeSteps(k)
                               \/ AskOdd(k) \/ OtherDecides(k) \/ Readdress(k)
  BY <1>2, KubeletTyped
<1>3. CASE DeliverMachines \/ DeliverNodes
  BY <1>3 DEF CSRTypeOK, DeliverMachines, DeliverNodes, envVars
<1>4. CASE MachineChanges
  BY <1>4, MachinesRecord DEF CSRTypeOK, MachineChanges, Others, cacheVars
<1>5. CASE Crash
  BY <1>5, ApproverBounds DEF CSRTypeOK, Crash, Fault, CSR, envVars
<1>6. CASE UNCHANGED vars
  BY <1>6 DEF CSRTypeOK, vars, envVars, cacheVars
<1> QED
  BY <1>1, <1>2, <1>3, <1>4, <1>5, <1>6 DEF Next

(* Every reachable state is well typed: requests keep one of five stages    *)
(* and no Node has an address the cluster does not know.                    *)
THEOREM CSRTypeCorrect == Spec => []CSRTypeOK
  BY TypeInit, TypeStep, PTL DEF Spec

-----------------------------------------------------------------------------
(* What was approved. *)

\* The caches hold what was once stored ...
SeenWasStored ==
  \A m \in Machines : /\ seenMachines[m].providerID => handles[m].providerID
                      /\ seenMachines[m].instanceID => handles[m].instanceID

SeenWasAdvertised ==
  \A k \in Kubelets : node[k].addresses \cup seenNodes[k].addresses \subseteq advertised[k]

\* ... whoever is not the bootstrapper asks in its own name, and what is
\* pending is undecided.
Genuine ==
  \A k \in Kubelets : /\ csr[k].request.user \in {k, Bootstrapper}
                      /\ csr[k].stage = "pending" => ~csr[k].ours

ClientJustified(k) == csr[k].request.signer = "client" => \E m \in Machines : Recorded(m)

ServingJustified(k) ==
  csr[k].request.signer = "serving" =>
     /\ csr[k].request.subject = k
     /\ csr[k].request.sans # {}
     /\ csr[k].request.sans \subseteq advertised[k] \cup {k}

\* What the approver is about to approve, or has approved.
Settled(k) == approving = k \/ Approved(k)

Justified == \A k \in Kubelets : Settled(k) => ClientJustified(k) /\ ServingJustified(k)

ApprovalInv ==
  CSRTypeOK /\ SeenWasStored /\ SeenWasAdvertised /\ Genuine /\ Justified

(* Both kinds of decision are justified by what was stored.                 *)
LEMMA DecisionJustified ==
  ASSUME ApprovalInv, NEW k \in Kubelets, shouldApprove(csr[k].request)
  PROVE  ClientJustified(k) /\ ServingJustified(k)
<1> DEFINE r == csr[k].request
<1>1. ASSUME r.signer = "client" PROVE \E m \in Machines : Recorded(m)
  <2>1. hasPendingMachine
    BY <1>1 DEF shouldApprove
  <2>2. PICK m \in Machines : seenMachines[m].providerID /\ seenMachines[m].instanceID
    BY <2>1 DEF hasPendingMachine
  <2> QED
    BY <2>2 DEF ApprovalInv, SeenWasStored, Recorded
<1>2. ASSUME r.signer = "serving" PROVE ServingJustified(k)
  <2>1. r.subject # None /\ r.user = r.subject /\ sansSubsetOfNode(r.sans, r.subject)
    BY <1>2 DEF shouldApprove
  <2>2. r \in Request
    BY DEF ApprovalInv, CSRTypeOK, CSR
  <2>3. r.subject \in Kubelets
    BY <2>1, <2>2 DEF Request
  <2>4. r.subject = k
    BY <2>1, <2>3, KubeletNames DEF ApprovalInv, Genuine
  <2>5. r.sans # {} /\ r.sans \subseteq seenNodes[k].addresses \cup {k}
    BY <2>1, <2>4 DEF sansSubsetOfNode
  <2> QED
    BY <2>4, <2>5 DEF ApprovalInv, SeenWasAdvertised, ServingJustified
<1> QED
  BY <1>1, <1>2 DEF ClientJustified, ServingJustified

(* What justified an approval goes on doing so: handles and the history of  *)
(* addresses only grow, and the request itself does not change.             *)
LEMMA JustifiedStays ==
  ASSUME ApprovalInv, CSRTypeOK',
         \A m \in Machines : Recorded(m) => Recorded(m)',
         \A k \in Kubelets : advertised[k] \subseteq advertised'[k],
         \A k \in Kubelets : Settled(k)' =>
            csr'[k].request = csr[k].request /\ (Settled(k) \/ shouldApprove(csr[k].request))
  PROVE  Justified'
<1> SUFFICES ASSUME NEW k \in Kubelets, Settled(k)'
             PROVE  ClientJustified(k)' /\ ServingJustified(k)'
  BY DEF Justified
<1>1. csr'[k].request = csr[k].request
  OBVIOUS
<1>2. ClientJustified(k) /\ ServingJustified(k)
  BY DecisionJustified DEF ApprovalInv, Justified
<1>3. ClientJustified(k)'
  BY <1>1, <1>2 DEF ClientJustified
<1>4. ServingJustified(k)'
  BY <1>1, <1>2 DEF ServingJustified
<1> QED
  BY <1>3, <1>4

(* The steps that leave machines and Nodes alone.                           *)
LEMMA QuietSteps ==
  ASSUME ApprovalInv, CSRTypeOK', UNCHANGED <<handles, node, advertised, seenMachines, seenNodes>>,
         Genuine',
         \A k \in Kubelets : Settled(k)' =>
            csr'[k].request = csr[k].request /\ (Settled(k) \/ shouldApprove(csr[k].request))
  PROVE  ApprovalInv'
<1>1. SeenWasStored' /\ SeenWasAdvertised'
  BY DEF ApprovalInv, SeenWasStored, SeenWasAdvertised
<1>2. \A m \in Machines : Recorded(m) => Recorded(m)'
  BY DEF Recorded
<1>3. Justified'
  BY <1>2, JustifiedStays
<1> QED
  BY <1>1, <1>3 DEF ApprovalInv

(* A new request is nobody's decision yet.                                  *)
LEMMA AskKeeps ==
  ASSUME ApprovalInv, CSRTypeOK', NEW k \in Kubelets, NEW r \in Request,
         r.user \in {k, Bootstrapper}, Ask(k, r)
  PROVE  ApprovalInv'
<1>1. UNCHANGED <<handles, node, advertised, seenMachines, seenNodes>>
  BY DEF Ask, envVars
<1>2. Genuine'
  BY DEF ApprovalInv, CSRTypeOK, Genuine, Ask
<1>3. ASSUME NEW j \in Kubelets, Settled(j)'
      PROVE  csr'[j].request = csr[j].request /\ Settled(j)
  <2>1. j # k
    BY <1>3 DEF ApprovalInv, CSRTypeOK, Ask, Settled, Approved
  <2> QED
    BY <1>3, <2>1 DEF ApprovalInv, CSRTypeOK, Ask, Settled, Approved
<1> QED
  BY <1>1, <1>2, <1>3, QuietSteps

(* Only a stage, and who set it, changes.                                   *)
LEMMA StageKeeps ==
  ASSUME ApprovalInv, CSRTypeOK', UNCHANGED <<handles, node, advertised, seenMachines, seenNodes>>,
         \A k \in Kubelets : csr'[k].request = csr[k].request,
         \A k \in Kubelets : csr'[k].stage = "pending" => csr'[k] = csr[k],
         \A k \in Kubelets : Settled(k)' => Settled(k) \/ shouldApprove(csr[k].request)
  PROVE  ApprovalInv'
<1>1. Genuine'
  BY DEF ApprovalInv, Genuine
<1> QED
  BY <1>1, QuietSteps

(* A Node is written: its history of addresses grows with it.               *)
LEMMA SetNodeKeeps ==
  ASSUME ApprovalInv, CSRTypeOK', NEW k \in Kubelets, NEW n \in Node, SetNode(k, n)
  PROVE  ApprovalInv'
<1>1. UNCHANGED <<handles, csr, seenMachines, seenNodes, approving>>
  BY DEF SetNode, Others, cacheVars
<1>2. \A j \in Kubelets : advertised[j] \subseteq advertised'[j]
  BY DEF ApprovalInv, CSRTypeOK, SetNode
<1>3. SeenWasAdvertised'
  BY <1>1 DEF ApprovalInv, CSRTypeOK, SeenWasAdvertised, SetNode
<1>4. SeenWasStored' /\ Genuine'
  BY <1>1 DEF ApprovalInv, SeenWasStored, Genuine
<1>5. Justified'
  BY <1>1, <1>2, JustifiedStays DEF Recorded, Settled, Approved
<1> QED
  BY <1>3, <1>4, <1>5 DEF ApprovalInv

(* The approver's own steps.                                                *)
LEMMA ApproverKeeps ==
  ASSUME ApprovalInv, CSRTypeOK', NEW k \in Kubelets,
         Reconcile(k) \/ UpdateApproval(k) \/ DeliverCSR(k)
  PROVE  ApprovalInv'
<1>1. CASE Leave(k) \/ ReadFails(k) \/ DeliverCSR(k)
  BY <1>1, StageKeeps DEF Leave, ReadFails, DeliverCSR, envVars, cacheVars, Settled, Approved
<1>2. CASE Decide(k)
  <2>1. \A j \in Kubelets : Settled(j)' => Settled(j) \/ shouldApprove(csr[j].request)
    BY <1>2 DEF Decide, Settled, Approved
  <2> QED
    BY <1>2, <2>1, StageKeeps DEF Decide, envVars, cacheVars
<1>3. CASE UpdateApproval(k)
  <2>1. \A j \in Kubelets : /\ csr'[j].request = csr[j].request
                            /\ csr'[j].stage = "pending" => csr'[j] = csr[j]
    BY <1>3 DEF ApprovalInv, CSRTypeOK, CSR, UpdateApproval, Approve
  <2>2. \A j \in Kubelets : Settled(j)' => Settled(j)
    BY <1>3, KubeletNames DEF ApprovalInv, CSRTypeOK, UpdateApproval, Approve, Settled, Approved
  <2>3. UNCHANGED <<handles, node, advertised, seenMachines, seenNodes>>
    BY <1>3 DEF UpdateApproval, envVars, cacheVars
  <2> QED
    BY <2>1, <2>2, <2>3, StageKeeps
<1> QED
  BY <1>1, <1>2, <1>3 DEF Reconcile

(* What kubelets, signers, other approvers and Nodes do.                    *)
LEMMA KubeletKeeps ==
  ASSUME ApprovalInv, CSRTypeOK', NEW k \in Kubelets,
         RequestSteps(k) \/ NodeSteps(k) \/ AskOdd(k) \/ OtherDecides(k) \/ Readdress(k)
  PROVE  ApprovalInv'
<1>n. node[k] \in Node /\ NoNode \in Node
  BY DEF ApprovalInv, CSRTypeOK, Node, NoNode
<1>1. CASE AskBootstrap(k)
  <2>1. BootstrapRequest(k).user \in {k, Bootstrapper}
    BY DEF BootstrapRequest
  <2> QED
    BY <1>1, <2>1, RequestTypes, AskKeeps DEF AskBootstrap
<1>2. CASE AskServing(k)
  <2>1. PICK a \in IF node[k].providerID THEN {node[k].addresses} ELSE {{}, Addresses} :
          Ask(k, ServingRequest(k, a))
    BY <1>2 DEF AskServing
  <2>2. a \in SUBSET Addresses
    BY <1>n, <2>1 DEF Node
  <2>3. ServingRequest(k, a).user \in {k, Bootstrapper}
    BY DEF ServingRequest
  <2> QED
    BY <2>1, <2>2, <2>3, RequestTypes, AskKeeps
<1>3. CASE AskOdd(k)
  <2>1. PICK r \in OddRequests(k) : Ask(k, r)
    BY <1>3 DEF AskOdd
  <2>2. r.user \in {k, Bootstrapper}
    <3>1. CASE \E n \in Kubelets \ {k} : r = [ServingRequest(n, {}) EXCEPT !.user = k]
      BY <3>1 DEF ServingRequest
    <3>2. CASE r = [BootstrapRequest(k) EXCEPT !.user = k]
      BY <3>2 DEF BootstrapRequest
    <3>3. CASE r \in {[ServingRequest(k, {}) EXCEPT !.signer = "other"],
                      [ServingRequest(k, {}) EXCEPT !.sans = {}]}
      BY <3>3 DEF ServingRequest
    <3>4. CASE r \in {[BootstrapRequest(k) EXCEPT !.subject = None], BootstrapRequest(k)}
      BY <3>4 DEF BootstrapRequest
    <3> QED
      BY <2>1, <3>1, <3>2, <3>3, <3>4 DEF OddRequests
  <2> QED
    BY <2>1, <2>2, RequestTypes, AskKeeps
<1>4. CASE Issue(k) \/ OtherDecides(k)
  <2>1. PICK s \in {"approved", "denied", "issued"} :
          /\ csr' = [csr EXCEPT ![k].stage = s]
          /\ csr[k].stage = "approved" \/ csr[k].stage = "pending"
    BY <1>4 DEF Issue, OtherDecides
  <2>2. \A j \in Kubelets : /\ csr'[j].request = csr[j].request
                            /\ csr'[j].stage = "pending" => csr'[j] = csr[j]
                            /\ csr'[j].ours = csr[j].ours
    BY <2>1 DEF ApprovalInv, CSRTypeOK, CSR
  <2>3. approving' = approving
    BY <1>4 DEF Issue, OtherDecides, Others
  <2>4. \A j \in Kubelets : Settled(j)' => Settled(j)
    BY <2>1, <2>2, <2>3 DEF ApprovalInv, CSRTypeOK, Genuine, Settled, Approved
  <2> QED
    BY <1>4, <2>2, <2>4, StageKeeps DEF Issue, OtherDecides, Others, cacheVars
<1>5. CASE Clean(k)
  <2>1. /\ UNCHANGED <<handles, node, advertised, seenMachines, seenNodes, approving>>
        /\ csr' = [csr EXCEPT ![k] = NoCSR(k)] /\ approving # k
    BY <1>5 DEF Clean, Others, envVars, cacheVars
  <2>2. NoCSR(k).request.user = Bootstrapper /\ ~NoCSR(k).ours
    BY DEF NoCSR, BootstrapRequest
  <2>3. Genuine'
    BY <2>1, <2>2 DEF ApprovalInv, CSRTypeOK, Genuine
  <2>4. \A j \in Kubelets : Settled(j)' => csr'[j].request = csr[j].request /\ Settled(j)
    BY <2>1, <2>2 DEF ApprovalInv, CSRTypeOK, Settled, Approved
  <2> QED
    BY <2>1, <2>3, <2>4, QuietSteps
<1>6. CASE NodeSteps(k) \/ Readdress(k)
  <2>1. \E n \in Node : SetNode(k, n)
    <3>1. CASE Register(k)
      BY <3>1, <1>n DEF Register, Node
    <3>2. CASE Initialise(k)
      BY <3>2, <1>n DEF Initialise, Node
    <3>3. CASE Unregister(k)
      BY <3>3, <1>n DEF Unregister
    <3>4. CASE Readdress(k)
      BY <3>4, <1>n DEF Readdress, Node
    <3> QED
      BY <1>6, <3>1, <3>2, <3>3, <3>4 DEF NodeSteps
  <2> QED
    BY <2>1, SetNodeKeeps
<1> QED
  BY <1>1, <1>2, <1>3, <1>4, <1>5, <1>6 DEF RequestSteps

(* Every step keeps the invariant.                                          *)
LEMMA ApprovalStep == ApprovalInv /\ [Next]_vars => ApprovalInv'
<1> SUFFICES ASSUME ApprovalInv, [Next]_vars PROVE ApprovalInv'
  OBVIOUS
<1>t. CSRTypeOK /\ CSRTypeOK'
  BY TypeStep DEF ApprovalInv
<1>1. CASE \E k \in Kubelets : Reconcile(k) \/ UpdateApproval(k) \/ DeliverCSR(k)
  BY <1>1, <1>t, ApproverKeeps
<1>2. CASE \E k \in Kubelets : \/ RequestSteps(k) \/ NodeSteps(k)
                               \/ AskOdd(k) \/ OtherDecides(k) \/ Readdress(k)
  BY <1>2, <1>t, KubeletKeeps
<1>3. CASE DeliverMachines \/ DeliverNodes \/ Crash
  <2>1. UNCHANGED <<handles, node, advertised, csr>>
    BY <1>3 DEF DeliverMachines, DeliverNodes, Crash, envVars
  <2>2. /\ seenMachines' \in {seenMachines, handles} /\ seenNodes' \in {seenNodes, node}
        /\ approving' \in {approving, None}
    BY <1>3 DEF DeliverMachines, DeliverNodes, Crash
  <2>3. SeenWasStored' /\ SeenWasAdvertised' /\ Genuine'
    BY <2>1, <2>2 DEF ApprovalInv, SeenWasStored, SeenWasAdvertised, Genuine
  <2>4. \A k \in Kubelets : Settled(k)' => Settled(k)
    BY <2>1, <2>2, KubeletNames DEF Settled, Approved
  <2>5. Justified'
    BY <1>t, <2>1, <2>4, JustifiedStays DEF Recorded
  <2> QED
    BY <1>t, <2>3, <2>5 DEF ApprovalInv
<1>4. CASE MachineChanges
  <2>1. UNCHANGED <<node, advertised, csr, seenMachines, seenNodes, approving>>
    BY <1>4 DEF MachineChanges, Others, cacheVars
  <2>2. \A m \in Machines : /\ handles[m].providerID => handles'[m].providerID
                            /\ handles[m].instanceID => handles'[m].instanceID
    BY <1>4, <1>t, MachinesRecord
  <2>3. SeenWasStored' /\ SeenWasAdvertised' /\ Genuine'
    BY <2>1, <2>2 DEF ApprovalInv, SeenWasStored, SeenWasAdvertised, Genuine
  <2>4. Justified'
    BY <1>t, <2>1, <2>2, JustifiedStays DEF Recorded, Settled, Approved
  <2> QED
    BY <1>t, <2>3, <2>4 DEF ApprovalInv
<1>5. CASE UNCHANGED vars
  BY <1>5, <1>t, StageKeeps DEF vars, envVars, cacheVars, Settled, Approved
<1> QED
  BY <1>1, <1>2, <1>3, <1>4, <1>5 DEF Next

(* It holds at the start: the caches are current and nothing is decided.    *)
LEMMA ApprovalStart == Init => ApprovalInv
<1> SUFFICES ASSUME Init PROVE ApprovalInv
  OBVIOUS
<1>1. CSRTypeOK
  BY TypeInit
<1>2. SeenWasStored /\ SeenWasAdvertised
  BY <1>1 DEF Init, CSRTypeOK, SeenWasStored, SeenWasAdvertised
<1>3. Genuine
  BY DEF Init, Genuine, NoCSR, BootstrapRequest
<1>4. Justified
  BY KubeletNames DEF Init, Justified, Settled, Approved, NoCSR
<1> QED
  BY <1>1, <1>2, <1>3, <1>4 DEF ApprovalInv

LEMMA ApprovalInvariant == Spec => []ApprovalInv
  BY ApprovalStart, ApprovalStep, PTL DEF Spec

(* A bootstrap request that the approver approved had a machine behind it   *)
(* that stored both handles, for any number of machines and requests: the   *)
(* order of the two patch requests and of their events does not matter.     *)
THEOREM BootstrapApprovalsBacked == Spec => []BootstrapHasMachine
<1>1. ApprovalInv => BootstrapHasMachine
  BY DEF ApprovalInv, Justified, Settled, ClientJustified, BootstrapHasMachine
<1> QED
  BY <1>1, ApprovalInvariant, PTL

(* A serving certificate is for the Node whose kubelet asked and for names   *)
(* and addresses that the Node had, however its addresses and the caches     *)
(* changed.                                                                  *)
THEOREM ServingApprovalsMatch == Spec => []ServingMatchesNode
<1>1. ApprovalInv => ServingMatchesNode
  BY DEF ApprovalInv, Justified, Settled, ServingJustified, ServingMatchesNode
<1> QED
  BY <1>1, ApprovalInvariant, PTL

(* With current caches a bootstrap request is approved only while a machine *)
(* awaits its Node: the two forms of a providerID name the same instance.   *)
THEOREM BootstrapApprovalsAwaited == Spec => BootstrapIsAwaited
<1> DEFINE Step == \A k \in Kubelets :
                      Decide(k) /\ csr[k].request.signer = "client" /\ Current
                         => \E m \in Machines : Awaited(m)
<1>1. ASSUME NEW k \in Kubelets, Decide(k), csr[k].request.signer = "client", Current
      PROVE  \E m \in Machines : Awaited(m)
  <2>1. hasPendingMachine
    BY <1>1 DEF Decide, shouldApprove
  <2>2. PICK m \in Machines :
          /\ seenMachines[m].exists
          /\ seenMachines[m].providerID /\ seenMachines[m].instanceID
          /\ ~\E n \in Kubelets : BackedBy(n, m)
    BY <2>1 DEF hasPendingMachine
  <2>3. m \in Kubelets
    BY <2>2 DEF Kubelets
  <2>4. providerInstanceID(NodeProviderID(m)) = providerInstanceID(MachineProviderID(m))
    BY DEF providerInstanceID, NodeProviderID, MachineProviderID
  <2>5. ~(seenNodes[m].exists /\ seenNodes[m].providerID)
    BY <2>2, <2>3, <2>4 DEF BackedBy
  <2> QED
    BY <1>1, <2>2, <2>5 DEF Current, Awaited, Recorded
<1>2. Step
  BY <1>1
<1> QED
  BY <1>2, PTL DEF BootstrapIsAwaited
=============================================================================
