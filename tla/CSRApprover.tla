----------------------------- MODULE CSRApprover -----------------------------
(***************************************************************************)
(* CertificateSigningRequestReconciler, the kubelets that ask it for       *)
(* certificates and the machine controller whose handles it reads.         *)
(*                                                                         *)
(* Every kubelet has one request outstanding at a time, under a new name   *)
(* each time.  The approver reads requests, machines and nodes from three  *)
(* informer caches, each a past state of all objects of its kind, and      *)
(* watches only the requests: one it leaves is not looked at again when a  *)
(* machine or a node changes.  A request is immutable, so its cache holds  *)
(* only its stage.                                                         *)
(***************************************************************************)
EXTENDS Naturals

CONSTANTS
  Machines,    \* the AlibabaCloudMachines; each also names its kubelet and Node
  Foreign,     \* kubelets of Nodes this provider did not create
  Legacy,      \* machines whose providerID has the older, slash form
  Addresses,   \* what Nodes advertise, besides their names
  None,
  MaxFaults    \* bound on failed calls, crashes, changed addresses, odd requests
               \* and others' decisions

Kubelets == Machines \cup Foreign

Bootstrapper == "node-bootstrapper"

ASSUME KubeletNames ==
  /\ Machines \cap Foreign = {} /\ Legacy \subseteq Machines
  /\ None \notin Kubelets /\ Bootstrapper \notin Kubelets
  /\ Addresses \cap Kubelets = {}
ASSUME ApproverBounds == MaxFaults \in Nat

VARIABLES
  handles,        \* the machines' stored handles, see InfraMachine
  node,           \* the Nodes
  advertised,     \* every address a Node ever had: a history
  csr,            \* each kubelet's request in the API server
  certs,          \* the certificates each kubelet was issued
  seenMachines, seenNodes, seen,   \* the approver's caches; seen is of stages
  queued,         \* its work queue
  approving,      \* the request it has decided to approve, or None
  faults

cacheVars == <<seenMachines, seenNodes, seen>>
envVars   == <<handles, node, advertised, certs>>
vars      == <<envVars, csr, cacheVars, queued, approving, faults>>

Infra == INSTANCE InfraMachine

\* subject: the node named by CN=system:node:<name>, O=system:nodes, or None
\* for a request that does not parse or names no node.
Request ==
  [signer: {"client", "serving", "other"}, user: Kubelets \cup {Bootstrapper},
   subject: Kubelets \cup {None}, sans: SUBSET (Addresses \cup Kubelets)]

BootstrapRequest(k) ==
  [signer |-> "client", user |-> Bootstrapper, subject |-> k, sans |-> {}]

ServingRequest(k, a) ==
  [signer |-> "serving", user |-> k, subject |-> k, sans |-> a \cup {k}]

\* What else may be asked: of another signer, a rotation of the client
\* certificate, the bootstrap of a reinstalled node, no node's identity, another
\* node's, or a serving certificate without a name.
OddRequests(k) ==
  {[ServingRequest(k, {}) EXCEPT !.signer = "other"],
   [ServingRequest(k, {}) EXCEPT !.sans = {}],
   [BootstrapRequest(k) EXCEPT !.user = k],
   [BootstrapRequest(k) EXCEPT !.subject = None],
   BootstrapRequest(k)}
     \cup {[ServingRequest(n, {}) EXCEPT !.user = k] : n \in Kubelets \ {k}}

Stages == {"none", "pending", "approved", "denied", "issued"}

\* ours: the approver took the decision.
CSR == [stage: Stages, request: Request, ours: BOOLEAN]

NoCSR(k) == [stage |-> "none", request |-> BootstrapRequest(k), ours |-> FALSE]

Node == [exists: BOOLEAN, providerID: BOOLEAN, addresses: SUBSET Addresses]

NoNode == [exists |-> FALSE, providerID |-> FALSE, addresses |-> {}]

CSRTypeOK ==
  /\ {handles, seenMachines} \subseteq [Machines -> Infra!Handles]
  /\ {node, seenNodes} \subseteq [Kubelets -> Node]
  /\ advertised \in [Kubelets -> SUBSET Addresses]
  /\ csr \in [Kubelets -> CSR]
  /\ certs \in [Kubelets -> SUBSET {"client", "serving"}]
  /\ seen \in [Kubelets -> Stages]
  /\ queued \in [Kubelets -> BOOLEAN]
  /\ approving \in Kubelets \cup {None}
  /\ faults \in 0..MaxFaults

\* The foreign Nodes are members of the cluster from the start.
Init ==
  /\ Infra!Init
  /\ node = [k \in Kubelets |->
               IF k \in Foreign
               THEN [exists |-> TRUE, providerID |-> TRUE, addresses |-> Addresses]
               ELSE NoNode]
  /\ advertised = [k \in Kubelets |-> node[k].addresses]
  /\ csr = [k \in Kubelets |-> NoCSR(k)]
  /\ certs = [k \in Kubelets |-> IF k \in Foreign THEN {"client"} ELSE {}]
  /\ seenMachines = handles /\ seenNodes = node
  /\ seen = [k \in Kubelets |-> "none"]
  /\ queued = [k \in Kubelets |-> FALSE]
  /\ approving = None
  /\ faults = 0

Fault == faults < MaxFaults /\ faults' = faults + 1

-----------------------------------------------------------------------------
(* The decision, from the caches. *)

\* The providerID of a Node (written by the cloud-controller-manager) and of a
\* machine: region, separator and instance, which is named after its machine.
NodeProviderID(k) == <<"region", ".", k>>

MachineProviderID(m) == <<"region", IF m \in Legacy THEN "/" ELSE ".", m>>

\* Mutant: the raw strings are compared.
providerInstanceID_Raw(p) == p

\* Mutant: cut at the wrong side of the separator.
providerInstanceID_Region(p) == p[1]

\* What follows the last separator, of either form.
providerInstanceID(p) == p[3]

\* The Node of the name n has the machine's instance, as far as the caches know.
BackedBy(n, m) ==
  /\ seenNodes[n].exists /\ seenNodes[n].providerID
  /\ seenMachines[m].exists /\ seenMachines[m].providerID
  /\ providerInstanceID(NodeProviderID(n)) = providerInstanceID(MachineProviderID(m))

\* Mutant: either handle will do.
hasPendingMachine_Half ==
  \E m \in Machines :
     /\ seenMachines[m].exists
     /\ seenMachines[m].providerID \/ seenMachines[m].instanceID
     /\ ~\E n \in Kubelets : BackedBy(n, m)

hasPendingMachine ==
  \E m \in Machines :
     /\ seenMachines[m].exists
     /\ seenMachines[m].providerID /\ seenMachines[m].instanceID
     /\ ~\E n \in Kubelets : BackedBy(n, m)

\* Mutant: a request is taken to be the node's if any address is.
sansSubsetOfNode_Any(sans, n) == sans \cap (seenNodes[n].addresses \cup {n}) # {}

sansSubsetOfNode(sans, n) ==
  sans # {} /\ sans \subseteq seenNodes[n].addresses \cup {n}

\* Mutant: only the provider's own nodes are served.
shouldApprove_OwnNodes(r) ==
  /\ r.subject # None
  /\ \/ r.signer = "client" /\ r.user = Bootstrapper /\ hasPendingMachine
     \/ /\ r.signer = "serving" /\ r.user = r.subject
        /\ seenNodes[r.subject].exists /\ sansSubsetOfNode(r.sans, r.subject)
        /\ \E m \in Machines : BackedBy(r.subject, m)

shouldApprove(r) ==
  /\ r.subject # None
  /\ \/ r.signer = "client" /\ r.user = Bootstrapper /\ hasPendingMachine
     \/ /\ r.signer = "serving" /\ r.user = r.subject
        /\ seenNodes[r.subject].exists /\ sansSubsetOfNode(r.sans, r.subject)

-----------------------------------------------------------------------------
(* Reconcile. *)

Idle(k) == approving = None /\ queued[k]

\* Mutant: a decided request is decided again.
Undecided_Unchecked(k) == seen[k] # "none"

\* The request is there, has no decision and no certificate.
Undecided(k) == seen[k] = "pending"

\* Gone, decided, or not to be approved: it is left, and nothing brings it back
\* but an event of its own.
Leave(k) ==
  /\ Idle(k)
  /\ ~(Undecided(k) /\ shouldApprove(csr[k].request))
  /\ queued' = [queued EXCEPT ![k] = FALSE]
  /\ UNCHANGED <<envVars, csr, cacheVars, approving, faults>>

Decide(k) ==
  /\ Idle(k)
  /\ Undecided(k) /\ shouldApprove(csr[k].request)
  /\ approving' = k
  /\ queued' = [queued EXCEPT ![k] = FALSE]
  /\ UNCHANGED <<envVars, csr, cacheVars, faults>>

\* A list or a get fails: the error brings the request back.
ReadFails(k) ==
  Idle(k) /\ Undecided(k) /\ Fault /\ UNCHANGED <<envVars, csr, cacheVars, queued, approving>>

\* Mutant: the condition has the reason where its type belongs.
Approve_ByReason(k) == csr' = [csr EXCEPT ![k].stage = "CAPAApprove", ![k].ours = TRUE]

Approve(k) == csr' = [csr EXCEPT ![k].stage = "approved", ![k].ours = TRUE]

\* The update of the approval carries the version that was read: the API server
\* takes it only if nobody decided, or removed, the request since.  Any error
\* brings the request back, also one that hides a success.
UpdateApproval(k) ==
  LET Requeued == queued' = [queued EXCEPT ![k] = TRUE]
  IN /\ approving = k
     /\ approving' = None
     /\ UNCHANGED <<envVars, cacheVars>>
     /\ \/ csr[k].stage = "pending" /\ Approve(k) /\ UNCHANGED <<queued, faults>>
        \/ csr[k].stage = "pending" /\ Approve(k) /\ Requeued /\ Fault
        \/ csr[k].stage # "pending" /\ Requeued /\ UNCHANGED <<csr, faults>>
        \/ Requeued /\ Fault /\ UNCHANGED csr

\* Only requests are watched; machines and nodes are merely cached.
DeliverCSR(k) ==
  /\ seen[k] # csr[k].stage
  /\ seen' = [seen EXCEPT ![k] = csr[k].stage]
  /\ queued' = [queued EXCEPT ![k] = TRUE]
  /\ UNCHANGED <<envVars, csr, seenMachines, seenNodes, approving, faults>>

DeliverMachines ==
  /\ seenMachines # handles
  /\ seenMachines' = handles
  /\ UNCHANGED <<envVars, csr, seenNodes, seen, queued, approving, faults>>

DeliverNodes ==
  /\ seenNodes # node
  /\ seenNodes' = node
  /\ UNCHANGED <<envVars, csr, seenMachines, seen, queued, approving, faults>>

Crash ==
  /\ Fault
  /\ approving' = None
  /\ seenMachines' = handles /\ seenNodes' = node
  /\ seen' = [k \in Kubelets |-> csr[k].stage]
  /\ queued' = [k \in Kubelets |-> csr[k].stage # "none"]
  /\ UNCHANGED <<envVars, csr>>

-----------------------------------------------------------------------------
(* The surroundings: machines, kubelets, the cloud-controller-manager, the  *)
(* signer, other approvers and the cleaner of old requests.                 *)

Others == UNCHANGED <<cacheVars, queued, approving>>

Up(k) == k \in Machines => handles[k].exists

\* The machine controller, as InfraMachine lets it.
MachineChanges ==
  Infra!Next /\ Others /\ UNCHANGED <<node, advertised, csr, certs, faults>>

\* A kubelet asks again once its last request was decided, or removed, and the
\* approver is done with it; the new request has a name of its own.
Ask(k, r) ==
  /\ Up(k)
  /\ csr[k].stage \in {"none", "denied", "issued"}
  /\ seen[k] = csr[k].stage /\ ~queued[k] /\ approving # k
  /\ csr' = [csr EXCEPT ![k] = [stage |-> "pending", request |-> r, ours |-> FALSE]]
  /\ seen' = [seen EXCEPT ![k] = "none"]
  /\ UNCHANGED <<envVars, seenMachines, seenNodes, queued, approving>>

AskBootstrap(k) ==
  "client" \notin certs[k] /\ Ask(k, BootstrapRequest(k)) /\ UNCHANGED faults

\* The kubelet names the addresses of its Node, or before the Node has any,
\* perhaps the ones of its own that the Node will get.
AskServing(k) ==
  /\ node[k].exists /\ "serving" \notin certs[k]
  /\ \E a \in IF node[k].providerID THEN {node[k].addresses} ELSE {{}, Addresses} :
        Ask(k, ServingRequest(k, a))
  /\ UNCHANGED faults

AskOdd(k) == k \in Foreign /\ Fault /\ \E r \in OddRequests(k) : Ask(k, r)

\* Somebody else approves or denies the request.
OtherDecides(k) ==
  /\ Fault
  /\ csr[k].stage = "pending"
  /\ \E s \in {"approved", "denied"} : csr' = [csr EXCEPT ![k].stage = s]
  /\ Others
  /\ UNCHANGED <<handles, node, advertised, certs>>

\* The signer issues what was approved, to the kubelet that asked.
Issue(k) ==
  /\ csr[k].stage = "approved"
  /\ csr' = [csr EXCEPT ![k].stage = "issued"]
  /\ certs' = [certs EXCEPT ![k] =
                 IF csr[k].request.signer = "other" THEN @ ELSE @ \cup {csr[k].request.signer}]
  /\ Others
  /\ UNCHANGED <<handles, node, advertised, faults>>

\* A request nobody decided is removed, hours after the approver left it.
Clean(k) ==
  /\ csr[k].stage = "pending"
  /\ seen[k] = csr[k].stage /\ ~queued[k] /\ approving # k
  /\ csr' = [csr EXCEPT ![k] = NoCSR(k)]
  /\ Others
  /\ UNCHANGED <<envVars, faults>>

SetNode(k, n) ==
  /\ node' = [node EXCEPT ![k] = n]
  /\ advertised' = [advertised EXCEPT ![k] = @ \cup n.addresses]
  /\ Others
  /\ UNCHANGED <<handles, csr, certs>>

\* A kubelet with a client certificate registers its Node ...
Register(k) ==
  /\ Up(k) /\ "client" \in certs[k] /\ ~node[k].exists
  /\ SetNode(k, [NoNode EXCEPT !.exists = TRUE]) /\ UNCHANGED faults

\* ... and the cloud-controller-manager completes it ...
Initialise(k) ==
  /\ node[k].exists /\ ~node[k].providerID
  /\ SetNode(k, [node[k] EXCEPT !.providerID = TRUE, !.addresses = Addresses])
  /\ UNCHANGED faults

\* ... and may change its addresses.
Readdress(k) ==
  /\ Fault
  /\ node[k].exists /\ node[k].providerID
  /\ \E a \in SUBSET Addresses : /\ node[k].addresses # a
                                 /\ SetNode(k, [node[k] EXCEPT !.addresses = a])

\* The Node of a machine that is gone is removed.
Unregister(k) ==
  ~Up(k) /\ node[k].exists /\ SetNode(k, NoNode) /\ UNCHANGED faults

-----------------------------------------------------------------------------

Reconcile(k) == Leave(k) \/ Decide(k) \/ ReadFails(k)

RequestSteps(k) == AskBootstrap(k) \/ AskServing(k) \/ Issue(k) \/ Clean(k)

NodeSteps(k) == Register(k) \/ Initialise(k) \/ Unregister(k)

Next ==
  \/ \E k \in Kubelets :
        \/ Reconcile(k) \/ UpdateApproval(k)
        \/ DeliverCSR(k)
        \/ RequestSteps(k) \/ NodeSteps(k)
        \/ AskOdd(k) \/ OtherDecides(k) \/ Readdress(k)
  \/ DeliverMachines \/ DeliverNodes
  \/ MachineChanges \/ Crash

Spec == Init /\ [][Next]_vars

(* The worker takes what is queued, in turn; informers deliver; kubelets    *)
(* ask again for what they have not got, the signer and the platform's      *)
(* controllers run.  The machine controller and administrators owe nothing. *)
Fairness ==
  /\ \A k \in Kubelets :
        /\ SF_vars(Reconcile(k)) /\ WF_vars(UpdateApproval(k))
        /\ WF_vars(DeliverCSR(k))
        /\ WF_vars(RequestSteps(k)) /\ WF_vars(NodeSteps(k))
  /\ WF_vars(DeliverMachines) /\ WF_vars(DeliverNodes)

FairSpec == Spec /\ Fairness

-----------------------------------------------------------------------------
(* What it promises. *)

Approved(k) == csr[k].stage \in {"approved", "issued"} /\ csr[k].ours

Recorded(m) == handles[m].providerID /\ handles[m].instanceID

(* "It only approves a CSR when it can tie the node back to a CAPA machine":  *)
(* a bootstrap request is approved only once some machine has stored both    *)
(* handles, in whatever order its two requests and their events arrived.     *)
BootstrapHasMachine ==
  \A k \in Kubelets :
     Approved(k) /\ csr[k].request.signer = "client" => \E m \in Machines : Recorded(m)

(* Every name and address in a serving certificate was one that the very     *)
(* Node had, and the Node's own kubelet asked for it, though the Node was    *)
(* read from a cache and has changed since.                                  *)
ServingMatchesNode ==
  \A k \in Kubelets :
     Approved(k) /\ csr[k].request.signer = "serving" =>
        /\ csr[k].request.subject = k
        /\ csr[k].request.sans # {}
        /\ csr[k].request.sans \subseteq advertised[k] \cup {k}

\* The machine's Node has not reported the machine's instance.
Awaited(m) == handles[m].exists /\ Recorded(m) /\ ~(node[m].exists /\ node[m].providerID)

Current == seenMachines = handles /\ seenNodes = node

(* With caches that are up to date a bootstrap request is approved only while *)
(* a machine awaits its Node: machines of both providerID forms are           *)
(* recognised in the Nodes that joined.                                       *)
BootstrapIsAwaited ==
  [][\A k \in Kubelets :
        Decide(k) /\ csr[k].request.signer = "client" /\ Current
           => \E m \in Machines : Awaited(m)]_vars

(* A machine with both handles gets its Node: its kubelet's request is       *)
(* approved at last, though one that came before the handles, or before      *)
(* their events, was left for good.                                          *)
NodesJoin ==
  \A m \in Machines :
     handles[m].exists /\ Recorded(m) ~> node[m].exists \/ ~handles[m].exists

(* Every Node gets its serving certificate, also one this provider did not   *)
(* create and one whose addresses changed between the request and the        *)
(* decision.                                                                 *)
NodesServe ==
  \A k \in Kubelets : node[k].exists ~> "serving" \in certs[k] \/ ~node[k].exists

(* The approver stops working on a request that was decided, by itself or    *)
(* by somebody between its read and its update: no update is repeated for    *)
(* ever.                                                                     *)
DecidedIsLeft ==
  \A k \in Kubelets :
     csr[k].stage \in {"approved", "denied"} ~> (~queued[k] /\ approving # k)
=============================================================================
