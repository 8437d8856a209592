---------------------- MODULE MachineTemplateController ----------------------
(***************************************************************************)
(* AlibabaCloudMachineTemplateReconciler: publishes the capacity of a      *)
(* template's instance type in status.capacity, from which the autoscaler  *)
(* sizes a pool that has no node.  --concurrency workers share the         *)
(* informer cache and a map of instance types already looked up; one       *)
(* template is never with two of them.                                     *)
(*                                                                         *)
(* Memory is counted in MiB and disks in GiB, not in bytes.                *)
(***************************************************************************)
EXTENDS RetryThrottled

CONSTANTS
  Templates,
  Types,          \* the instance types ECS knows
  CpuCoreCount,   \* of a type
  MemorySize,     \* of a type, in GiB
  NewTemplates,   \* what users create, and edit to, see TemplateSpec
  MaxEdits,       \* bound on edits and deletions by users
  MaxFaults,      \* bound on failed calls and crashes
  None

Workers == Callers

\* instanceType and regionID may be empty; systemDisk.size is 0 without a disk.
TemplateSpec == [instanceType: Types \cup {"", "unknown"}, regionID: BOOLEAN, size: Nat]

ASSUME TemplateAssumption ==
  /\ NewTemplates \subseteq TemplateSpec
  /\ {"", "unknown"} \cap Types = {}
  /\ CpuCoreCount \in [Types -> Nat \ {0}] /\ MemorySize \in [Types -> Nat \ {0}]
  /\ MaxEdits \in Nat /\ MaxFaults \in Nat
  /\ None \notin Templates

VARIABLES
  tmpl,     \* the templates in the API server
  cached,   \* the informer's copies
  known,    \* the reconciler's map: instance type -> {cpu, memory}
  queued,
  pc, key, read, capacity,   \* each worker's place, template, copy and result
  edits, faults

workerVars == <<pc, key, read, capacity>>
storeVars  == <<tmpl, edits>>
vars       == <<retry, tmpl, cached, known, queued, workerVars, edits, faults>>

Resources == {"cpu", "memory", "pods", "ephemeral-storage"}

\* Positive quantities of some resources.
IsResourceList(q) == \E rs \in SUBSET Resources : q \in [rs -> Nat \ {0}]

NoResources == [r \in {} |-> 0]

IsTemplate(o) ==
  \E rs \in SUBSET Resources :
     o \in [exists: BOOLEAN, spec: NewTemplates, status: [rs -> Nat \ {0}]]

\* f is a function on S whose values satisfy P.
Maps(f, S, P(_)) == f = [x \in S |-> f[x]] /\ \A x \in S : P(f[x])

TemplateTypeOK ==
  /\ retry \in [Callers -> Retry]
  /\ Maps(tmpl, Templates, IsTemplate) /\ Maps(cached, Templates, IsTemplate)
  /\ DOMAIN known \subseteq Types
  /\ queued \in [Templates -> BOOLEAN]
  /\ pc \in [Workers -> {"idle", "lookup", "patch"}]
  /\ key \in [Workers -> Templates \cup {None}]
  /\ Maps(read, Workers, LAMBDA o : o = None \/ IsTemplate(o))
  /\ Maps(capacity, Workers, IsResourceList)
  /\ \A w \in Workers : pc[w] # "idle" => key[w] \in Templates /\ IsTemplate(read[w])
  /\ edits \in 0..MaxEdits /\ faults \in 0..MaxFaults

Init ==
  /\ retry = NoCalls
  /\ \E s \in [Templates -> NewTemplates] :
        tmpl = [t \in Templates |-> [exists |-> TRUE, spec |-> s[t], status |-> NoResources]]
  /\ cached = tmpl
  /\ known = NoResources
  /\ queued = [t \in Templates |-> TRUE]
  /\ pc = [w \in Workers |-> "idle"]
  /\ key = [w \in Workers |-> None]
  /\ read = [w \in Workers |-> None]
  /\ capacity = [w \in Workers |-> NoResources]
  /\ edits = 0 /\ faults = 0

Fault == faults < MaxFaults /\ faults' = faults + 1

-----------------------------------------------------------------------------
(* resolveCapacity. *)

\* What InstanceTypeCapacity answers of a type, as {cpu, memory}.
Described(it) ==
  [r \in {"cpu", "memory"} |-> IF r = "cpu" THEN CpuCoreCount[it] ELSE MemorySize[it] * 1024]

defaultMaxPodsPerNode == 110

\* Mutant: a template without a disk gets a disk of size 0.
Resolved_NoDisk(base, spec) ==
  [r \in DOMAIN base \cup {"pods", "ephemeral-storage"} |->
     CASE r = "pods" -> defaultMaxPodsPerNode
       [] r = "ephemeral-storage" -> spec.size
       [] OTHER -> base[r]]

\* The copy of base, with what depends on the template.
Resolved(base, spec) ==
  [r \in DOMAIN base \cup {"pods"} \cup IF spec.size > 0 THEN {"ephemeral-storage"} ELSE {} |->
     CASE r = "pods" -> defaultMaxPodsPerNode
       [] r = "ephemeral-storage" /\ spec.size > 0 -> spec.size
       [] OTHER -> base[r]]

\* Mutant: without DeepCopy the map's own entry is completed.
Kept_Aliased(base, spec) == Resolved(base, spec)

\* The map's entry once a capacity was made from it.
Kept(base, spec) == base

\* Mutant: a capacity is published once.
Differs_Once(status, c) == status = NoResources

Differs(status, c) == status # c

-----------------------------------------------------------------------------
(* Reconcile. *)

Goto(w, t, p, c) ==
  /\ pc' = [pc EXCEPT ![w] = p]
  /\ key' = [key EXCEPT ![w] = t]
  /\ read' = [read EXCEPT ![w] = c]

\* The reconcile is over; an error brings the template back.
Return(w, t, again) ==
  /\ Goto(w, None, "idle", None)
  /\ capacity' = [capacity EXCEPT ![w] = NoResources]
  /\ queued' = [queued EXCEPT ![t] = (@ /\ pc[w] # "idle") \/ again]

\* The capacity is at hand: write it, unless the copy that was read has it.
Publish(w, t, o, base) ==
  LET c == Resolved(base, o.spec)
  IN /\ known' = [it \in DOMAIN known \cup {o.spec.instanceType} |->
                    IF it = o.spec.instanceType THEN Kept(base, o.spec) ELSE known[it]]
     /\ \/ ~Differs(o.status, c) /\ Return(w, t, FALSE)
        \/ /\ Differs(o.status, c)
           /\ Goto(w, t, "patch", o)
           /\ capacity' = [capacity EXCEPT ![w] = c]
           /\ queued' = [queued EXCEPT ![t] = @ /\ pc[w] # "idle"]

\* The worker takes the template, which no other one has, and reads its copy.
Takes(w, t) == pc[w] = "idle" /\ queued[t] /\ \A v \in Workers : key[v] # t

\* The template is gone, has no instance type or no region.
Skip(w, t) ==
  LET o == cached[t]
  IN /\ Takes(w, t)
     /\ ~o.exists \/ o.spec.instanceType = "" \/ ~o.spec.regionID
     /\ Return(w, t, FALSE)
     /\ UNCHANGED <<retry, known, faults>>

Begin(w, t) ==
  LET o  == cached[t]
      it == o.spec.instanceType
  IN /\ Takes(w, t)
     /\ o.exists /\ it # "" /\ o.spec.regionID
     /\ \/ it \in DOMAIN known /\ Publish(w, t, o, known[it]) /\ UNCHANGED <<retry, faults>>
        \/ /\ it \notin DOMAIN known
           /\ Call(w)
           /\ Goto(w, t, "lookup", o)
           /\ queued' = [queued EXCEPT ![t] = FALSE]
           /\ UNCHANGED <<known, capacity, faults>>
        \* No client can be built.
        \/ it \notin DOMAIN known /\ Fault /\ Return(w, t, TRUE) /\ UNCHANGED <<retry, known>>

\* DescribeInstanceTypes, outside the lock.
LookupThrottled(w) ==
  /\ pc[w] = "lookup"
  /\ \E err \in Answers : Backoff(w, err)
  /\ UNCHANGED <<known, queued, workerVars, faults>>

LookupFails(w) ==
  /\ pc[w] = "lookup"
  /\ \E err \in Answers \ {"ok"} : CallReturns(w, err)
  /\ Return(w, key[w], TRUE)
  /\ Fault
  /\ UNCHANGED known

\* The answer has the type, or has it not, which is an error.
LookupAnswers(w) ==
  LET o == read[w]
  IN /\ pc[w] = "lookup"
     /\ CallReturns(w, "ok")
     /\ \/ /\ o.spec.instanceType \in Types
           /\ Publish(w, key[w], o, Described(o.spec.instanceType))
        \/ o.spec.instanceType \notin Types /\ Return(w, key[w], TRUE) /\ UNCHANGED known
     /\ UNCHANGED faults

\* What the API server makes of o when the difference of c and b is sent to it.
Merged(o, b, c) ==
  LET removed == DOMAIN b \ DOMAIN c
      sent    == {r \in DOMAIN c : r \in DOMAIN b => b[r] # c[r]}
  IN [r \in (DOMAIN o \ removed) \cup sent |-> IF r \in sent THEN c[r] ELSE o[r]]

\* The status patch, from the copy that was read; its error may hide a success.
PatchStatus(w) ==
  LET t == key[w]
      Written == tmpl' = [tmpl EXCEPT ![t].status = Merged(@, read[w].status, capacity[w])]
  IN /\ pc[w] = "patch"
     /\ UNCHANGED <<retry, known, cached, edits>>
     /\ \/ tmpl[t].exists /\ Written /\ Return(w, t, FALSE) /\ UNCHANGED faults
        \/ tmpl[t].exists /\ Written /\ Return(w, t, TRUE) /\ Fault
        \/ Return(w, t, TRUE) /\ Fault /\ UNCHANGED tmpl
        \/ ~tmpl[t].exists /\ Return(w, t, TRUE) /\ UNCHANGED <<tmpl, faults>>

Deliver(t) ==
  /\ cached[t] # tmpl[t]
  /\ cached' = [cached EXCEPT ![t] = tmpl[t]]
  /\ queued' = [queued EXCEPT ![t] = TRUE]
  /\ UNCHANGED <<retry, storeVars, known, workerVars, faults>>

\* The process restarts: map and queue are rebuilt from nothing.
Crash ==
  /\ Fault
  /\ retry' = NoCalls
  /\ cached' = tmpl /\ known' = NoResources
  /\ queued' = [t \in Templates |-> TRUE]
  /\ pc' = [w \in Workers |-> "idle"]
  /\ key' = [w \in Workers |-> None]
  /\ read' = [w \in Workers |-> None]
  /\ capacity' = [w \in Workers |-> NoResources]
  /\ UNCHANGED storeVars

\* A user edits the template, which no webhook looks at, or deletes it.
UserChanges(t) ==
  /\ tmpl[t].exists /\ edits < MaxEdits /\ edits' = edits + 1
  /\ \/ \E s \in NewTemplates \ {tmpl[t].spec} : tmpl' = [tmpl EXCEPT ![t].spec = s]
     \/ tmpl' = [tmpl EXCEPT ![t].exists = FALSE]
  /\ UNCHANGED <<retry, cached, known, queued, workerVars, faults>>

-----------------------------------------------------------------------------

Reconcile(w, t) == (Skip(w, t) \/ Begin(w, t)) /\ UNCHANGED <<storeVars, cached>>

Lookup(w) ==
  (LookupThrottled(w) \/ LookupFails(w) \/ LookupAnswers(w)) /\ UNCHANGED <<storeVars, cached>>

Next ==
  \/ \E w \in Workers : Lookup(w) \/ PatchStatus(w) \/ \E t \in Templates : Reconcile(w, t)
  \/ \E t \in Templates : Deliver(t) \/ UserChanges(t)
  \/ Crash

Spec == Init /\ [][Next]_vars

(* The workers run and their queue is first-in first-out; the informer      *)
(* delivers.  ECS throttles a call to the end of its budget only as often   *)
(* as faults are allowed.  Users owe nothing.                               *)
Fairness ==
  /\ \A w \in Workers : WF_vars(Lookup(w)) /\ WF_vars(PatchStatus(w))
  /\ \A t \in Templates : SF_vars(\E w \in Workers : Reconcile(w, t)) /\ WF_vars(Deliver(t))

FairSpec == Spec /\ Fairness

-----------------------------------------------------------------------------

(* The map of instance types stays what ECS said of them: what a template   *)
(* adds (pods, its disk) never leaks into the capacity of another one.      *)
KnownIsStatic == \A it \in DOMAIN known : known[it] = Described(it)

Resolvable(t) ==
  tmpl[t].exists /\ tmpl[t].spec.instanceType \in Types /\ tmpl[t].spec.regionID

(* Once users stop editing, every template that names a known type and a    *)
(* region publishes exactly the capacity of that type and its own disk,     *)
(* though a status patch made from a copy older than the stored status      *)
(* leaves keys of two capacities side by side for a while.                  *)
CapacityFollows ==
  \A t \in Templates :
     <>[](Resolvable(t) =>
            tmpl[t].status = Resolved(Described(tmpl[t].spec.instanceType), tmpl[t].spec))
=============================================================================
