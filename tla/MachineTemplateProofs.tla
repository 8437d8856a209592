------------------------ MODULE MachineTemplateProofs ------------------------
(***************************************************************************)
(* Proofs about the template controller and the throttling retry it calls   *)
(* through, for any workers, templates, types, retries and delays.          *)
(***************************************************************************)
EXTENDS MachineTemplateController, TLAPS

-----------------------------------------------------------------------------
(* One call. *)

\* The delay doubles within its bounds and is never shorter than the last
\* sleep; the sleeps so far fit in the attempts so far.
Paced(r) ==
  /\ r.throttled = r.attempt /\ r.attempt <= throttleMaxRetries
  /\ r.on => throttleBaseDelay <= r.delay /\ r.delay <= throttleMaxDelay
  /\ r.on => r.slept <= r.delay
  /\ r.slept <= throttleMaxDelay
  /\ r.total <= r.attempt * throttleMaxDelay

RetryTyped == retry \in [Callers -> Retry]

\* A call is under way only while its worker looks a type up.
CallsAreLookups ==
  /\ pc \in [Workers -> {"idle", "lookup", "patch"}]
  /\ \A w \in Workers : retry[w].on => pc[w] = "lookup"

RetryInv == RetryTyped /\ CallsAreLookups /\ \A c \in Callers : Paced(retry[c])

(* Retries at the cap, one after the other.                                 *)
LEMMA MoreAttempts ==
  ASSUME NEW a \in Nat, NEW d \in Nat
  PROVE  (a + 1) * d = a * d + d
  OBVIOUS

LEMMA FewerAttempts ==
  ASSUME NEW a \in Nat, NEW b \in Nat, NEW d \in Nat, a <= b
  PROVE  a * d <= b * d
<1>1. PICK e \in Nat : b = a + e
  <2>1. b - a \in Nat /\ b = a + (b - a)
    OBVIOUS
  <2> QED
    BY <2>1
<1>2. b * d = a * d + e * d
  BY <1>1
<1>3. a * d \in Nat /\ e * d \in Nat
  BY <1>1
<1> QED
  BY <1>2, <1>3

(* A call that has not begun, or has returned, is paced ...                 *)
LEMMA NoCallPaced ==
  /\ NoCall \in Retry /\ Paced(NoCall)
  /\ \A err \in Answers : [NoCall EXCEPT !.err = err] \in Retry
                         /\ Paced([NoCall EXCEPT !.err = err])
<1>1. 0 * throttleMaxDelay = 0 /\ throttleMaxRetries \in Nat /\ throttleMaxDelay \in Nat
  BY RetryAssumption
<1>2. NoCall \in Retry /\ \A err \in Answers : [NoCall EXCEPT !.err = err] \in Retry
  BY DEF NoCall, Retry
<1>3. Paced(NoCall) /\ \A err \in Answers : Paced([NoCall EXCEPT !.err = err])
  BY <1>1 DEF NoCall, Paced
<1> QED
  BY <1>2, <1>3

(* ... so is one that begins ...                                            *)
LEMMA CallPaced ==
  LET r == [NoCall EXCEPT !.on = TRUE, !.delay = throttleBaseDelay]
  IN  r \in Retry /\ Paced(r) /\ r.on
<1>1. /\ 0 * throttleMaxDelay = 0 /\ throttleMaxRetries \in Nat /\ throttleMaxDelay \in Nat
      /\ throttleBaseDelay \in Nat /\ throttleBaseDelay <= throttleMaxDelay
  BY RetryAssumption
<1> DEFINE r == [NoCall EXCEPT !.on = TRUE, !.delay = throttleBaseDelay]
<1>2. r \in Retry
  BY <1>1 DEF NoCall, Retry
<1>3. Paced(r) /\ r.on
  BY <1>1 DEF NoCall, Paced
<1> QED
  BY <1>2, <1>3

(* ... and one that backs off, which sleeps no shorter than before.         *)
LEMMA BackoffPaced ==
  ASSUME RetryTyped, NEW c \in Callers, Paced(retry[c]), NEW err \in Answers, Backoff(c, err)
  PROVE  /\ retry' = [retry EXCEPT ![c] = retry'[c]]
         /\ retry'[c] \in Retry /\ Paced(retry'[c])
         /\ retry'[c].on /\ retry'[c].err = err
         /\ retry[c].slept <= retry'[c].slept
<1> DEFINE r == retry[c]
<1>1. /\ r \in Retry /\ r.on /\ ~Spent(c)
      /\ throttleMaxRetries \in Nat /\ throttleBaseDelay \in Nat /\ throttleMaxDelay \in Nat
  BY RetryAssumption DEF RetryTyped, Backoff
<1>2. PICK jitter \in Jitter(r.delay) :
        LET sleep == Least(r.delay + jitter, throttleMaxDelay)
        IN  retry' = [retry EXCEPT ![c] =
              [on |-> TRUE, attempt |-> r.attempt + 1, delay |-> NextDelay(r.delay), err |-> err,
               throttled |-> r.throttled + 1, slept |-> sleep, total |-> r.total + sleep]]
  BY DEF Backoff
<1> DEFINE sleep == Least(r.delay + jitter, throttleMaxDelay)
           q == [on |-> TRUE, attempt |-> r.attempt + 1, delay |-> NextDelay(r.delay),
                 err |-> err, throttled |-> r.throttled + 1, slept |-> sleep,
                 total |-> r.total + sleep]
<1>3. retry' = [retry EXCEPT ![c] = q] /\ retry'[c] = q
  BY <1>2 DEF RetryTyped
<1>4. /\ r.attempt \in Nat /\ r.throttled \in Nat /\ r.delay \in Nat
      /\ r.slept \in Nat /\ r.total \in Nat /\ r.on \in BOOLEAN
  BY <1>1 DEF Retry
<1>5. r.delay <= throttleMaxDelay /\ r.slept <= r.delay /\ throttleBaseDelay <= r.delay
  BY <1>1 DEF Paced
<1>6. jitter \in Nat /\ jitter <= r.delay
  BY <1>2, <1>4 DEF Jitter
<1>7. sleep \in Nat /\ r.delay <= sleep /\ sleep <= throttleMaxDelay
  BY <1>1, <1>4, <1>5, <1>6 DEF Least
<1>8. /\ NextDelay(r.delay) \in Nat /\ NextDelay(r.delay) <= throttleMaxDelay
      /\ throttleBaseDelay <= NextDelay(r.delay) /\ sleep <= NextDelay(r.delay)
  BY <1>1, <1>4, <1>5, <1>6 DEF NextDelay, Least
<1>9. r.attempt + 1 <= throttleMaxRetries
  BY <1>1, <1>4 DEF Spent
<1>10. /\ q.attempt = r.attempt + 1 /\ q.err = err /\ q.throttled = r.throttled + 1
       /\ q.delay = NextDelay(r.delay) /\ q.slept = sleep /\ q.total = r.total + sleep
       /\ q.on
  OBVIOUS
<1>11. q \in Retry
  <2>1. r.attempt + 1 \in Nat /\ r.throttled + 1 \in Nat /\ r.total + sleep \in Nat
    BY <1>4, <1>7
  <2>2. NextDelay(r.delay) \in Nat /\ sleep \in Nat /\ err \in Answers \cup {""}
    BY <1>7, <1>8
  <2> HIDE DEF sleep
  <2> QED
    BY <2>1, <2>2 DEF Retry
<1>12. r.total + sleep <= (r.attempt + 1) * throttleMaxDelay
  <2>1. r.total <= r.attempt * throttleMaxDelay
    BY DEF Paced
  <2>2. (r.attempt + 1) * throttleMaxDelay = r.attempt * throttleMaxDelay + throttleMaxDelay
    BY <1>1, <1>4, MoreAttempts
  <2>3. r.attempt * throttleMaxDelay \in Nat
    BY <1>1, <1>4
  <2> HIDE DEF sleep
  <2> QED
    BY <1>1, <1>4, <1>7, <2>1, <2>2, <2>3
<1>13. Paced(q)
  <2> HIDE DEF q, sleep
  <2>1. r.throttled = r.attempt
    BY DEF Paced
  <2> QED
    BY <1>7, <1>8, <1>9, <1>10, <1>12, <2>1 DEF Paced
<1>14. r.slept <= q.slept
  <2> HIDE DEF q, sleep
  <2> QED
    BY <1>4, <1>5, <1>7, <1>10
<1> QED
  <2> HIDE DEF q
  <2> QED
    BY <1>1, <1>3, <1>10, <1>11, <1>13, <1>14

-----------------------------------------------------------------------------
(* The controller. *)

\* What a step does to the calls under way.
RetryStep ==
  \/ UNCHANGED retry
  \/ retry' = NoCalls
  \/ \E w \in Workers : ~retry[w].on /\ Call(w)
  \/ \E w \in Workers, err \in Answers : Backoff(w, err)
  \/ \E w \in Workers, err \in Answers : CallReturns(w, err)

(* A worker that takes a template has no call under way.                    *)
LEMMA StepsOfRetry == RetryInv /\ [Next]_vars => RetryStep
<1> SUFFICES ASSUME RetryInv, [Next]_vars PROVE RetryStep
  OBVIOUS
<1>1. ASSUME NEW w \in Workers, NEW t \in Templates, Reconcile(w, t) PROVE RetryStep
  <2>1. ~retry[w].on
    BY <1>1 DEF RetryInv, CallsAreLookups, Reconcile, Skip, Begin, Takes
  <2> QED
    BY <1>1, <2>1 DEF RetryStep, Reconcile, Skip, Begin
<1>2. ASSUME NEW w \in Workers, Lookup(w) PROVE RetryStep
  <2>1. "ok" \in Answers
    BY DEF Answers
  <2> QED
    BY <1>2, <2>1 DEF RetryStep, Lookup, LookupThrottled, LookupFails, LookupAnswers
<1>3. ASSUME NEW w \in Workers, PatchStatus(w) PROVE RetryStep
  BY <1>3 DEF RetryStep, PatchStatus
<1>4. CASE Crash
  BY <1>4 DEF RetryStep, Crash
<1>5. ASSUME NEW t \in Templates, Deliver(t) \/ UserChanges(t) PROVE RetryStep
  BY <1>5 DEF RetryStep, Deliver, UserChanges
<1>6. CASE UNCHANGED vars
  BY <1>6 DEF RetryStep, vars
<1> QED
  BY <1>1, <1>2, <1>3, <1>4, <1>5, <1>6 DEF Next

(* Calls stay paced.                                                        *)
LEMMA PacedStep ==
  ASSUME RetryTyped, \A c \in Callers : Paced(retry[c]), RetryStep
  PROVE  RetryTyped' /\ \A c \in Callers : Paced(retry'[c])
<1>1. CASE UNCHANGED retry
  BY <1>1 DEF RetryTyped
<1>2. CASE retry' = NoCalls
  BY <1>2, NoCallPaced DEF RetryTyped, NoCalls
<1>3. CASE \E w \in Workers : ~retry[w].on /\ Call(w)
  BY <1>3, CallPaced DEF RetryTyped, Call, Workers
<1>4. CASE \E w \in Workers, err \in Answers : Backoff(w, err)
  <2>1. PICK w \in Callers, err \in Answers : Backoff(w, err)
    BY <1>4 DEF Workers
  <2>2. /\ retry' = [retry EXCEPT ![w] = retry'[w]]
        /\ retry'[w] \in Retry /\ Paced(retry'[w])
    BY <2>1, BackoffPaced
  <2> QED
    BY <2>2 DEF RetryTyped
<1>5. CASE \E w \in Workers, err \in Answers : CallReturns(w, err)
  <2>1. PICK w \in Callers, err \in Answers : CallReturns(w, err)
    BY <1>5 DEF Workers
  <2>2. retry' = [retry EXCEPT ![w] = [NoCall EXCEPT !.err = err]]
    BY <2>1 DEF CallReturns
  <2> QED
    BY <2>2, NoCallPaced DEF RetryTyped
<1> QED
  BY <1>1, <1>2, <1>3, <1>4, <1>5 DEF RetryStep

(* Where a worker goes when it takes a template or is done with it.          *)
LEMMA CallsStayLookups ==
  ASSUME RetryInv, RetryTyped', [Next]_vars
  PROVE  CallsAreLookups'
<1>t. /\ pc \in [Workers -> {"idle", "lookup", "patch"}]
      /\ \A w \in Workers : retry[w].on => pc[w] = "lookup"
  BY DEF RetryInv, CallsAreLookups
<1>1. ASSUME NEW w \in Workers, NEW p \in {"idle", "lookup", "patch"},
             pc' = [pc EXCEPT ![w] = p],
             \A v \in Workers \ {w} : retry'[v].on => retry[v].on,
             retry'[w].on => p = "lookup"
      PROVE  CallsAreLookups'
  BY <1>t, <1>1 DEF CallsAreLookups
<1>2. ASSUME NEW w \in Workers, NEW t \in Templates, Reconcile(w, t) PROVE CallsAreLookups'
  <2>1. ~retry[w].on
    BY <1>2, <1>t DEF Reconcile, Skip, Begin, Takes
  <2>2. PICK p \in {"idle", "lookup", "patch"} :
          /\ pc' = [pc EXCEPT ![w] = p]
          /\ UNCHANGED retry \/ (Call(w) /\ p = "lookup")
    BY <1>2 DEF Reconcile, Skip, Begin, Publish, Return, Goto
  <2>3. \A v \in Workers \ {w} : retry'[v].on => retry[v].on
    BY <2>2 DEF RetryInv, RetryTyped, Call, Workers
  <2> QED
    BY <1>1, <2>1, <2>2, <2>3
<1>3. ASSUME NEW w \in Workers, LookupThrottled(w) PROVE CallsAreLookups'
  <2>1. pc' = pc /\ pc[w] = "lookup"
    BY <1>3 DEF LookupThrottled, workerVars
  <2>2. \A v \in Workers \ {w} : retry'[v] = retry[v]
    BY <1>3 DEF RetryInv, RetryTyped, LookupThrottled, Backoff, Workers
  <2> QED
    BY <1>t, <2>1, <2>2 DEF CallsAreLookups
<1>4. ASSUME NEW w \in Workers, LookupFails(w) \/ LookupAnswers(w) PROVE CallsAreLookups'
  <2>1. PICK p \in {"idle", "lookup", "patch"} : pc' = [pc EXCEPT ![w] = p]
    BY <1>4 DEF LookupFails, LookupAnswers, Publish, Return, Goto
  <2>2. PICK err \in Answers : CallReturns(w, err)
    BY <1>4 DEF LookupFails, LookupAnswers, Answers
  <2>3. ~retry'[w].on /\ \A v \in Workers \ {w} : retry'[v] = retry[v]
    BY <2>2 DEF RetryInv, RetryTyped, CallReturns, NoCall, Workers
  <2> QED
    BY <1>1, <2>1, <2>3
<1>5. ASSUME NEW w \in Workers, PatchStatus(w) PROVE CallsAreLookups'
  <2>1. pc[w] = "patch" /\ pc' = [pc EXCEPT ![w] = "idle"] /\ retry' = retry
    BY <1>5 DEF PatchStatus, Return, Goto
  <2> QED
    BY <1>1, <1>t, <2>1
<1>6. CASE Crash
  BY <1>6 DEF Crash, CallsAreLookups, NoCalls, NoCall, Workers
<1>7. ASSUME NEW t \in Templates, Deliver(t) \/ UserChanges(t) PROVE CallsAreLookups'
  BY <1>7, <1>t DEF CallsAreLookups, Deliver, UserChanges, workerVars
<1>8. CASE UNCHANGED vars
  BY <1>8, <1>t DEF CallsAreLookups, vars, workerVars
<1> QED
  BY <1>2, <1>3, <1>4, <1>5, <1>6, <1>7, <1>8 DEF Next, Lookup

LEMMA RetryInvariant == Spec => []RetryInv
<1>1. Init => RetryInv
  <2> SUFFICES ASSUME Init PROVE RetryInv
    OBVIOUS
  <2>1. RetryTyped /\ \A c \in Callers : Paced(retry[c])
    BY NoCallPaced DEF Init, RetryTyped, NoCalls
  <2>2. CallsAreLookups
    BY DEF Init, CallsAreLookups, NoCalls, NoCall, Workers
  <2> QED
    BY <2>1, <2>2 DEF RetryInv
<1>2. RetryInv /\ [Next]_vars => RetryInv'
  <2> SUFFICES ASSUME RetryInv, [Next]_vars PROVE RetryInv'
    OBVIOUS
  <2>1. RetryTyped' /\ \A c \in Callers : Paced(retry'[c])
    BY StepsOfRetry, PacedStep DEF RetryInv
  <2>2. CallsAreLookups'
    BY <2>1, CallsStayLookups
  <2> QED
    BY <2>1, <2>2 DEF RetryInv
<1> QED
  BY <1>1, <1>2, PTL DEF Spec

(* A call never exceeds its retries, its longest sleep or the time both      *)
(* allow, for every setting of the three.                                    *)
THEOREM RetryBudgetKept == Spec => []RetryBudget
<1>1. RetryInv => RetryBudget
  <2> SUFFICES ASSUME RetryInv, NEW c \in Callers
               PROVE  /\ retry[c].throttled <= throttleMaxRetries
                      /\ retry[c].slept <= throttleMaxDelay
                      /\ retry[c].total <= throttleMaxRetries * throttleMaxDelay
    BY DEF RetryBudget
  <2>1. /\ retry[c].attempt \in Nat /\ retry[c].total \in Nat /\ Paced(retry[c])
        /\ throttleMaxRetries \in Nat /\ throttleMaxDelay \in Nat
    BY RetryAssumption DEF RetryInv, RetryTyped, Retry
  <2>2. retry[c].attempt * throttleMaxDelay <= throttleMaxRetries * throttleMaxDelay
    BY <2>1, FewerAttempts DEF Paced
  <2>3. /\ retry[c].attempt * throttleMaxDelay \in Nat
        /\ throttleMaxRetries * throttleMaxDelay \in Nat
    BY <2>1
  <2>4. /\ retry[c].total <= retry[c].attempt * throttleMaxDelay
        /\ retry[c].throttled <= throttleMaxRetries /\ retry[c].slept <= throttleMaxDelay
    BY <2>1 DEF Paced
  <2> QED
    BY <2>1, <2>2, <2>3, <2>4
<1> QED
  BY <1>1, RetryInvariant, PTL

(* The backoff never shrinks, for every setting and every jitter.            *)
THEOREM BackoffNeverShrinks == Spec => BackoffGrows
<1> DEFINE Grows == \A c \in Callers :
                       retry[c].on /\ retry'[c].on => retry[c].slept <= retry'[c].slept
<1>1. RetryInv /\ [Next]_vars => [Grows]_retry
  <2> SUFFICES ASSUME RetryInv, [Next]_vars, NEW c \in Callers, retry[c].on, retry'[c].on,
                      retry' # retry
               PROVE  retry[c].slept <= retry'[c].slept
    OBVIOUS
  <2>t. RetryTyped /\ retry[c].slept \in Nat
    BY DEF RetryInv, RetryTyped, Retry
  <2>1. RetryStep
    BY StepsOfRetry
  <2>2. CASE retry' = NoCalls
    BY <2>2 DEF NoCalls, NoCall
  <2>3. CASE \E w \in Workers : ~retry[w].on /\ Call(w)
    BY <2>3, <2>t DEF RetryTyped, Call, Workers
  <2>4. CASE \E w \in Workers, err \in Answers : Backoff(w, err)
    <3>1. PICK w \in Callers, err \in Answers : Backoff(w, err)
      BY <2>4 DEF Workers
    <3>2. retry' = [retry EXCEPT ![w] = retry'[w]] /\ retry[w].slept <= retry'[w].slept
      BY <3>1, BackoffPaced DEF RetryInv
    <3>3. CASE c = w
      BY <3>2, <3>3
    <3>4. CASE c # w
      BY <3>2, <3>4, <2>t DEF RetryTyped
    <3> QED
      BY <3>3, <3>4
  <2>5. CASE \E w \in Workers, err \in Answers : CallReturns(w, err)
    <3>1. PICK w \in Callers, err \in Answers : CallReturns(w, err)
      BY <2>5 DEF Workers
    <3>2. retry' = [retry EXCEPT ![w] = [NoCall EXCEPT !.err = err]]
      BY <3>1 DEF CallReturns
    <3>3. CASE c = w
      <4>1. retry'[c] = [NoCall EXCEPT !.err = err]
        BY <3>2, <3>3, <2>t DEF RetryTyped
      <4>2. ~retry'[c].on
        BY <4>1 DEF NoCall
      <4> QED
        BY <4>2
    <3>4. CASE c # w
      <4>1. retry'[c] = retry[c]
        BY <3>2, <3>4, <2>t DEF RetryTyped
      <4> QED
        BY <4>1, <2>t
    <3> QED
      BY <3>3, <3>4
  <2> QED
    BY <2>1, <2>2, <2>3, <2>4, <2>5 DEF RetryStep
<1> QED
  BY <1>1, RetryInvariant, PTL DEF Spec, BackoffGrows

(* A request is repeated only after a throttle, and a throttle reaches the   *)
(* caller only once the retries are used up.                                 *)
THEOREM OnlyThrottlesRetried == Spec => RetriedIfThrottled
<1> DEFINE Step ==
      \A c \in Callers :
        /\ retry[c].on /\ retry'[c].on /\ retry'[c] # retry[c] =>
              retry'[c].err \in RateLimits
        /\ retry[c].on /\ ~retry'[c].on /\ retry'[c].err \in RateLimits =>
              retry[c].throttled = throttleMaxRetries
<1>1. RetryInv /\ [Next]_vars => [Step]_retry
  <2> SUFFICES ASSUME RetryInv, [Next]_vars, NEW c \in Callers, retry[c].on, retry' # retry
               PROVE  /\ retry'[c].on /\ retry'[c] # retry[c] => retry'[c].err \in RateLimits
                      /\ ~retry'[c].on /\ retry'[c].err \in RateLimits =>
                            retry[c].throttled = throttleMaxRetries
    OBVIOUS
  <2>t. RetryTyped /\ retry[c] \in Retry /\ throttleMaxRetries \in Nat
    BY RetryAssumption DEF RetryInv, RetryTyped
  <2>1. RetryStep
    BY StepsOfRetry
  <2>2. CASE retry' = NoCalls
    BY <2>2 DEF NoCalls, NoCall, RateLimits
  <2>3. CASE \E w \in Workers : ~retry[w].on /\ Call(w)
    BY <2>3, <2>t DEF RetryTyped, Call, Workers
  <2>4. CASE \E w \in Workers, err \in Answers : Backoff(w, err)
    <3>1. PICK w \in Callers, err \in Answers : Backoff(w, err)
      BY <2>4 DEF Workers
    <3>2. /\ retry' = [retry EXCEPT ![w] = retry'[w]]
          /\ retry'[w].on /\ retry'[w].err = err /\ err \in RateLimits
      BY <3>1, BackoffPaced DEF RetryInv, Backoff, isThrottlingError
    <3>3. CASE c = w
      BY <3>2, <3>3
    <3>4. CASE c # w
      BY <3>2, <3>4, <2>t DEF RetryTyped
    <3> QED
      BY <3>3, <3>4
  <2>5. CASE \E w \in Workers, err \in Answers : CallReturns(w, err)
    <3>1. PICK w \in Callers, err \in Answers : CallReturns(w, err)
      BY <2>5 DEF Workers
    <3>2. CASE c # w
      BY <3>1, <3>2, <2>t DEF RetryTyped, CallReturns
    <3>3. CASE c = w
      <4>1. retry'[c] = [NoCall EXCEPT !.err = err] /\ (err \notin RateLimits \/ Spent(c))
        BY <3>1, <3>3, <2>t DEF RetryTyped, CallReturns, isThrottlingError
      <4>2. ~retry'[c].on /\ retry'[c].err = err
        BY <4>1 DEF NoCall
      <4>3. /\ retry[c].throttled = retry[c].attempt
            /\ retry[c].attempt <= throttleMaxRetries /\ retry[c].attempt \in Nat
        <5>1. Paced(retry[c])
          BY DEF RetryInv
        <5> QED
          BY <5>1, <2>t DEF Paced, Retry
      <4>4. Spent(c) => retry[c].throttled = throttleMaxRetries
        <5>1. Spent(c) => retry[c].attempt >= throttleMaxRetries
          BY DEF Spent
        <5> QED
          BY <4>3, <5>1, <2>t
      <4> QED
        BY <4>1, <4>2, <4>4
    <3> QED
      BY <3>2, <3>3
  <2> QED
    BY <2>1, <2>2, <2>3, <2>4, <2>5 DEF RetryStep
<1> QED
  BY <1>1, RetryInvariant, PTL DEF Spec, RetriedIfThrottled

-----------------------------------------------------------------------------
(* The map of instance types. *)

LEMMA PublishKeepsStatic ==
  ASSUME KnownIsStatic, NEW w, NEW t, NEW o, NEW base,
         base = Described(o.spec.instanceType), Publish(w, t, o, base)
  PROVE  KnownIsStatic'
  BY DEF KnownIsStatic, Publish, Kept, Described

(* The map holds what ECS said of each type, whichever templates and         *)
(* workers used it and however their look-ups overlapped.                    *)
THEOREM KnownStaysStatic == Spec => []KnownIsStatic
<1>1. Init => KnownIsStatic
  BY DEF Init, KnownIsStatic, NoResources
<1>2. KnownIsStatic /\ [Next]_vars => KnownIsStatic'
  <2> SUFFICES ASSUME KnownIsStatic, [Next]_vars PROVE KnownIsStatic'
    OBVIOUS
  <2>1. ASSUME known' = known PROVE KnownIsStatic'
    BY <2>1 DEF KnownIsStatic, Described
  <2>2. ASSUME NEW w \in Workers, NEW t \in Templates, Reconcile(w, t) PROVE KnownIsStatic'
    <3>1. CASE known' = known
      BY <2>1, <3>1
    <3>2. CASE /\ cached[t].spec.instanceType \in DOMAIN known
               /\ Publish(w, t, cached[t], known[cached[t].spec.instanceType])
      BY <3>2, PublishKeepsStatic DEF KnownIsStatic
    <3> QED
      BY <2>2, <3>1, <3>2 DEF Reconcile, Skip, Begin
  <2>3. ASSUME NEW w \in Workers, Lookup(w) PROVE KnownIsStatic'
    BY <2>1, <2>3, PublishKeepsStatic
       DEF Lookup, LookupThrottled, LookupFails, LookupAnswers
  <2>4. ASSUME NEW w \in Workers, PatchStatus(w) PROVE KnownIsStatic'
    BY <2>1, <2>4 DEF PatchStatus
  <2>5. CASE Crash
    BY <2>5 DEF Crash, KnownIsStatic, NoResources
  <2>6. ASSUME NEW t \in Templates, Deliver(t) \/ UserChanges(t) PROVE KnownIsStatic'
    BY <2>1, <2>6 DEF Deliver, UserChanges
  <2>7. CASE UNCHANGED vars
    BY <2>1, <2>7 DEF vars
  <2> QED
    BY <2>2, <2>3, <2>4, <2>5, <2>6, <2>7 DEF Next
<1> QED
  BY <1>1, <1>2, PTL DEF Spec
-----------------------------------------------------------------------------
(* Types. *)

ResourceLists == UNION {[rs -> Nat \ {0}] : rs \in SUBSET Resources}

Template == [exists: BOOLEAN, spec: NewTemplates, status: ResourceLists]

(* The type invariant's predicates are these sets.                          *)
LEMMA ListsAreSet == \A q : IsResourceList(q) <=> q \in ResourceLists
  BY DEF IsResourceList, ResourceLists

LEMMA TemplatesAreSet == \A o : IsTemplate(o) <=> o \in Template
<1> SUFFICES ASSUME NEW o PROVE IsTemplate(o) <=> o \in Template
  OBVIOUS
<1>1. ASSUME IsTemplate(o) PROVE o \in Template
  <2>1. PICK rs \in SUBSET Resources :
          o \in [exists: BOOLEAN, spec: NewTemplates, status: [rs -> Nat \ {0}]]
    BY <1>1 DEF IsTemplate
  <2>2. [rs -> Nat \ {0}] \subseteq ResourceLists
    BY DEF ResourceLists
  <2> QED
    BY <2>1, <2>2 DEF Template
<1>2. ASSUME o \in Template PROVE IsTemplate(o)
  <2>1. PICK rs \in SUBSET Resources : o.status \in [rs -> Nat \ {0}]
    BY <1>2 DEF Template, ResourceLists
  <2>2. o \in [exists: BOOLEAN, spec: NewTemplates, status: [rs -> Nat \ {0}]]
    BY <1>2, <2>1 DEF Template
  <2> QED
    BY <2>2 DEF IsTemplate
<1> QED
  BY <1>1, <1>2

(* What is published is a positive quantity of known resources: ECS's        *)
(* answer, completed with the pods and, where there is one, the disk ...     *)
LEMMA DescribedListed ==
  ASSUME NEW it \in Types
  PROVE  Described(it) \in ResourceLists
<1>1. CpuCoreCount[it] \in Nat \ {0} /\ MemorySize[it] \in Nat \ {0}
  BY TemplateAssumption
<1>2. MemorySize[it] * 1024 \in Nat \ {0}
  BY <1>1
<1>3. Described(it) \in [{"cpu", "memory"} -> Nat \ {0}]
  BY <1>1, <1>2 DEF Described
<1>4. {"cpu", "memory"} \in SUBSET Resources
  BY DEF Resources
<1> QED
  BY <1>3, <1>4 DEF ResourceLists

LEMMA ResolvedListed ==
  ASSUME NEW base \in ResourceLists, NEW spec \in NewTemplates
  PROVE  Resolved(base, spec) \in ResourceLists
<1>1. spec.size \in Nat
  BY TemplateAssumption DEF TemplateSpec
<1>2. PICK rs \in SUBSET Resources : base \in [rs -> Nat \ {0}]
  BY DEF ResourceLists
<1> DEFINE dom == rs \cup {"pods"} \cup IF spec.size > 0 THEN {"ephemeral-storage"} ELSE {}
<1>3. dom \in SUBSET Resources
  BY <1>2 DEF Resources
<1>4. ASSUME NEW r \in dom
      PROVE  (CASE r = "pods" -> defaultMaxPodsPerNode
                [] r = "ephemeral-storage" /\ spec.size > 0 -> spec.size
                [] OTHER -> base[r]) \in Nat \ {0}
  BY <1>1, <1>2, <1>4 DEF defaultMaxPodsPerNode
<1>5. Resolved(base, spec) \in [dom -> Nat \ {0}]
  <2>1. DOMAIN base = rs
    BY <1>2
  <2> QED
    BY <1>4, <2>1 DEF Resolved
<1> QED
  BY <1>3, <1>5 DEF ResourceLists

(* ... also when the API server merges it into an older status.              *)
LEMMA MergedListed ==
  ASSUME NEW o \in ResourceLists, NEW b, NEW c \in ResourceLists
  PROVE  Merged(o, b, c) \in ResourceLists
<1>1. PICK os \in SUBSET Resources : o \in [os -> Nat \ {0}]
  BY DEF ResourceLists
<1>2. PICK cs \in SUBSET Resources : c \in [cs -> Nat \ {0}]
  BY DEF ResourceLists
<1> DEFINE sent == {r \in DOMAIN c : r \in DOMAIN b => b[r] # c[r]}
           dom  == (DOMAIN o \ (DOMAIN b \ DOMAIN c)) \cup sent
<1>3. dom \in SUBSET Resources
  BY <1>1, <1>2
<1>4. ASSUME NEW r \in dom
      PROVE  (IF r \in sent THEN c[r] ELSE o[r]) \in Nat \ {0}
  BY <1>1, <1>2, <1>4
<1>5. Merged(o, b, c) = [r \in dom |-> IF r \in sent THEN c[r] ELSE o[r]]
  BY DEF Merged
<1>6. Merged(o, b, c) \in [dom -> Nat \ {0}]
  <2> HIDE DEF dom, sent
  <2> QED
    BY <1>4, <1>5
<1> QED
  BY <1>3, <1>6 DEF ResourceLists

LEMMA NothingListed == NoResources \in ResourceLists
<1>1. NoResources \in [{} -> Nat \ {0}] /\ {} \in SUBSET Resources
  BY DEF NoResources
<1> QED
  BY <1>1 DEF ResourceLists

\* The part of the type invariant a reconcile changes.
WorkTyped ==
  /\ DOMAIN known \subseteq Types
  /\ queued \in [Templates -> BOOLEAN]
  /\ pc \in [Workers -> {"idle", "lookup", "patch"}]
  /\ key \in [Workers -> Templates \cup {None}]
  /\ read \in [Workers -> Template \cup {None}]
  /\ capacity \in [Workers -> ResourceLists]
  /\ \A w \in Workers : pc[w] # "idle" => key[w] \in Templates /\ read[w] \in Template

StoreTyped ==
  /\ tmpl \in [Templates -> Template] /\ cached \in [Templates -> Template]
  /\ edits \in 0..MaxEdits

(* The reconcile's results are typed.                                        *)
LEMMA GotoTyped ==
  ASSUME WorkTyped, NEW w \in Workers, NEW t \in Templates, NEW o \in Template,
         NEW p \in {"lookup", "patch"}, Goto(w, t, p, o),
         DOMAIN known' \subseteq Types, queued' \in [Templates -> BOOLEAN],
         capacity' \in [Workers -> ResourceLists]
  PROVE  WorkTyped'
<1>1. /\ pc' \in [Workers -> {"idle", "lookup", "patch"}]
      /\ key' \in [Workers -> Templates \cup {None}]
      /\ read' \in [Workers -> Template \cup {None}]
  BY DEF WorkTyped, Goto
<1>2. \A v \in Workers : pc'[v] # "idle" => key'[v] \in Templates /\ read'[v] \in Template
  BY DEF WorkTyped, Goto
<1> QED
  BY <1>1, <1>2 DEF WorkTyped

LEMMA ReturnTyped ==
  ASSUME WorkTyped, NEW w \in Workers, NEW t \in Templates, NEW again \in BOOLEAN,
         Return(w, t, again), DOMAIN known' \subseteq Types
  PROVE  WorkTyped'
<1>1. /\ pc' \in [Workers -> {"idle", "lookup", "patch"}]
      /\ key' \in [Workers -> Templates \cup {None}]
      /\ read' \in [Workers -> Template \cup {None}]
  BY DEF WorkTyped, Return, Goto
<1>2. \A v \in Workers : pc'[v] # "idle" => key'[v] \in Templates /\ read'[v] \in Template
  BY DEF WorkTyped, Return, Goto
<1>3. capacity' \in [Workers -> ResourceLists]
  BY NothingListed DEF WorkTyped, Return
<1>4. queued' \in [Templates -> BOOLEAN]
  <2>1. queued \in [Templates -> BOOLEAN]
    BY DEF WorkTyped
  <2>2. ((queued[t] /\ pc[w] # "idle") \/ again) \in BOOLEAN
    OBVIOUS
  <2> QED
    BY <2>1, <2>2, Zenon DEF Return
<1> QED
  BY <1>1, <1>2, <1>3, <1>4 DEF WorkTyped

LEMMA PublishTyped ==
  ASSUME WorkTyped, NEW w \in Workers, NEW t \in Templates, NEW o \in Template,
         NEW base \in ResourceLists, o.spec.instanceType \in Types, Publish(w, t, o, base)
  PROVE  WorkTyped'
<1>1. DOMAIN known' \subseteq Types
  BY DEF Publish, WorkTyped
<1>2. Resolved(base, o.spec) \in ResourceLists
  BY ResolvedListed DEF Template
<1>3. CASE Return(w, t, FALSE)
  BY <1>1, <1>3, ReturnTyped
<1>4. CASE /\ Goto(w, t, "patch", o)
           /\ capacity' = [capacity EXCEPT ![w] = Resolved(base, o.spec)]
           /\ queued' = [queued EXCEPT ![t] = @ /\ pc[w] # "idle"]
  <2>1. capacity' \in [Workers -> ResourceLists]
    BY <1>2, <1>4 DEF WorkTyped
  <2>2. queued' \in [Templates -> BOOLEAN]
    <3>1. queued \in [Templates -> BOOLEAN]
      BY DEF WorkTyped
    <3>2. (queued[t] /\ pc[w] # "idle") \in BOOLEAN
      OBVIOUS
    <3> QED
      BY <1>4, <3>1, <3>2, Zenon
  <2> QED
    BY <1>1, <1>4, <2>1, <2>2, GotoTyped
<1> QED
  BY <1>3, <1>4 DEF Publish

LEMMA TypesSplit ==
  TemplateTypeOK <=> RetryTyped /\ StoreTyped /\ WorkTyped /\ faults \in 0..MaxFaults
<1>1. Maps(tmpl, Templates, IsTemplate) <=> tmpl \in [Templates -> Template]
  BY TemplatesAreSet DEF Maps
<1>2. Maps(cached, Templates, IsTemplate) <=> cached \in [Templates -> Template]
  BY TemplatesAreSet DEF Maps
<1>3. Maps(read, Workers, LAMBDA o : o = None \/ IsTemplate(o))
         <=> read \in [Workers -> Template \cup {None}]
  BY TemplatesAreSet DEF Maps
<1>4. Maps(capacity, Workers, IsResourceList) <=> capacity \in [Workers -> ResourceLists]
  BY ListsAreSet DEF Maps
<1>5. (\A w \in Workers : pc[w] # "idle" => key[w] \in Templates /\ IsTemplate(read[w]))
         <=> \A w \in Workers : pc[w] # "idle" => key[w] \in Templates /\ read[w] \in Template
  BY TemplatesAreSet
<1> QED
  BY <1>1, <1>2, <1>3, <1>4, <1>5 DEF TemplateTypeOK, RetryTyped, StoreTyped, WorkTyped

(* A worker takes a template; the map's entry was typed because it is what    *)
(* ECS said of a type.                                                       *)
LEMMA ReconcileTyped ==
  ASSUME StoreTyped, WorkTyped, KnownIsStatic,
         NEW w \in Workers, NEW t \in Templates, Reconcile(w, t)
  PROVE  WorkTyped'
<1>t. cached[t] \in Template /\ DOMAIN known \subseteq Types
  BY DEF StoreTyped, WorkTyped
<1>1. ASSUME known' = known, NEW again \in BOOLEAN, Return(w, t, again) PROVE WorkTyped'
  BY <1>t, <1>1, ReturnTyped
<1>2. CASE Skip(w, t)
  BY <1>1, <1>2 DEF Skip
<1>3. CASE Begin(w, t)
  <2> DEFINE it == cached[t].spec.instanceType
  <2>1. CASE it \in DOMAIN known /\ Publish(w, t, cached[t], known[it])
    <3>1. it \in Types /\ known[it] = Described(it)
      BY <1>t, <2>1 DEF KnownIsStatic
    <3>2. known[it] \in ResourceLists
      BY <3>1, DescribedListed
    <3> QED
      BY <1>t, <2>1, <3>1, <3>2, PublishTyped
  <2>2. CASE /\ Goto(w, t, "lookup", cached[t])
             /\ queued' = [queued EXCEPT ![t] = FALSE]
             /\ UNCHANGED <<known, capacity>>
    <3>1. queued' \in [Templates -> BOOLEAN] /\ capacity' \in [Workers -> ResourceLists]
      BY <2>2 DEF WorkTyped
    <3> QED
      BY <1>t, <2>2, <3>1, GotoTyped
  <2>3. CASE known' = known /\ Return(w, t, TRUE)
    BY <1>1, <2>3
  <2> QED
    BY <1>3, <2>1, <2>2, <2>3 DEF Begin
<1> QED
  BY <1>2, <1>3 DEF Reconcile

LEMMA LookupTyped ==
  ASSUME WorkTyped, NEW w \in Workers, Lookup(w)
  PROVE  WorkTyped'
<1>t. DOMAIN known \subseteq Types /\ (pc[w] # "idle" => key[w] \in Templates /\ read[w] \in Template)
  BY DEF WorkTyped
<1>1. CASE LookupThrottled(w)
  BY <1>1 DEF LookupThrottled, WorkTyped, workerVars
<1>2. ASSUME pc[w] = "lookup", known' = known, Return(w, key[w], TRUE) PROVE WorkTyped'
  BY <1>t, <1>2, ReturnTyped
<1>3. CASE LookupFails(w)
  BY <1>2, <1>3 DEF LookupFails
<1>4. CASE LookupAnswers(w)
  <2> DEFINE it == read[w].spec.instanceType
  <2>1. pc[w] = "lookup"
    BY <1>4 DEF LookupAnswers
  <2>2. CASE it \in Types /\ Publish(w, key[w], read[w], Described(it))
    BY <1>t, <2>1, <2>2, DescribedListed, PublishTyped
  <2>3. CASE Return(w, key[w], TRUE) /\ known' = known
    BY <1>2, <2>1, <2>3
  <2> QED
    BY <1>4, <2>2, <2>3 DEF LookupAnswers
<1> QED
  BY <1>1, <1>3, <1>4 DEF Lookup

LEMMA PatchTyped ==
  ASSUME StoreTyped, WorkTyped, NEW w \in Workers, PatchStatus(w)
  PROVE  StoreTyped' /\ WorkTyped'
<1>t. /\ key[w] \in Templates /\ capacity[w] \in ResourceLists
      /\ DOMAIN known' \subseteq Types
  BY DEF WorkTyped, PatchStatus
<1>1. WorkTyped'
  BY <1>t, ReturnTyped DEF PatchStatus
<1>2. tmpl' \in [Templates -> Template]
  <2> DEFINE q == Merged(tmpl[key[w]].status, read[w].status, capacity[w])
  <2>1. tmpl \in [Templates -> Template] /\ tmpl[key[w]].status \in ResourceLists
    BY <1>t DEF StoreTyped, Template
  <2>2. q \in ResourceLists
    BY <1>t, <2>1, MergedListed
  <2>3. tmpl' = tmpl \/ tmpl' = [tmpl EXCEPT ![key[w]].status = q]
    BY DEF PatchStatus
  <2> HIDE DEF q
  <2> QED
    BY <1>t, <2>1, <2>2, <2>3 DEF Template
<1> QED
  BY <1>1, <1>2 DEF StoreTyped, PatchStatus

(* Every state is well-typed; in particular a published capacity has only    *)
(* positive quantities of the four resources, whatever statuses are merged,  *)
(* and a worker under way always holds a template and its copy.              *)
THEOREM TemplateTypeCorrect == Spec => []TemplateTypeOK
<1> DEFINE Others == StoreTyped /\ WorkTyped /\ faults \in 0..MaxFaults
<1>b. MaxEdits \in Nat /\ MaxFaults \in Nat
  BY TemplateAssumption
<1>1. Init => Others
  <2> SUFFICES ASSUME Init PROVE Others
    OBVIOUS
  <2>1. PICK s \in [Templates -> NewTemplates] :
          tmpl = [t \in Templates |-> [exists |-> TRUE, spec |-> s[t], status |-> NoResources]]
    BY DEF Init
  <2>2. tmpl \in [Templates -> Template]
    BY <2>1, NothingListed DEF Template
  <2>3. StoreTyped /\ faults \in 0..MaxFaults
    BY <1>b, <2>2 DEF Init, StoreTyped
  <2>4. WorkTyped
    BY NothingListed DEF Init, WorkTyped, NoResources
  <2> QED
    BY <2>3, <2>4
<1>2. Others /\ KnownIsStatic /\ [Next]_vars => Others'
  <2> SUFFICES ASSUME Others, KnownIsStatic, [Next]_vars PROVE Others'
    OBVIOUS
  <2>1. ASSUME faults' = faults \/ Fault PROVE faults' \in 0..MaxFaults
    BY <1>b, <2>1 DEF Fault
  <2>2. ASSUME NEW w \in Workers, NEW t \in Templates, Reconcile(w, t) PROVE Others'
    <3>1. WorkTyped'
      BY <2>2, ReconcileTyped
    <3>2. StoreTyped'
      BY <2>2 DEF StoreTyped, Reconcile, storeVars
    <3>3. faults' = faults \/ Fault
      BY <2>2 DEF Reconcile, Skip, Begin
    <3> QED
      BY <2>1, <3>1, <3>2, <3>3
  <2>3. ASSUME NEW w \in Workers, Lookup(w) PROVE Others'
    <3>1. WorkTyped'
      BY <2>3, LookupTyped
    <3>2. StoreTyped'
      BY <2>3 DEF StoreTyped, Lookup, storeVars
    <3>3. faults' = faults \/ Fault
      BY <2>3 DEF Lookup, LookupThrottled, LookupFails, LookupAnswers
    <3> QED
      BY <2>1, <3>1, <3>2, <3>3
  <2>4. ASSUME NEW w \in Workers, PatchStatus(w) PROVE Others'
    <3>1. faults' = faults \/ Fault
      BY <2>4 DEF PatchStatus
    <3> QED
      BY <2>1, <2>4, <3>1, PatchTyped
  <2>5. CASE Crash
    <3>1. WorkTyped'
      BY <2>5, NothingListed DEF Crash, WorkTyped, NoResources
    <3>2. StoreTyped'
      BY <2>5 DEF StoreTyped, Crash, storeVars
    <3> QED
      BY <2>1, <2>5, <3>1, <3>2 DEF Crash
  <2>6. ASSUME NEW t \in Templates, Deliver(t) PROVE Others'
    <3>1. WorkTyped'
      BY <2>6 DEF Deliver, WorkTyped, workerVars
    <3>2. StoreTyped'
      BY <2>6 DEF StoreTyped, Deliver, storeVars
    <3> QED
      BY <2>1, <2>6, <3>1, <3>2 DEF Deliver
  <2>7. ASSUME NEW t \in Templates, UserChanges(t) PROVE Others'
    <3>1. WorkTyped'
      BY <2>7 DEF UserChanges, WorkTyped, workerVars
    <3>2. tmpl' \in [Templates -> Template]
      BY <2>7 DEF StoreTyped, UserChanges, Template
    <3>3. edits' \in 0..MaxEdits
      BY <1>b, <2>7 DEF StoreTyped, UserChanges
    <3> QED
      BY <2>1, <2>7, <3>1, <3>2, <3>3 DEF UserChanges, StoreTyped
  <2>8. CASE UNCHANGED vars
    BY <2>8 DEF StoreTyped, WorkTyped, vars, workerVars
  <2> QED
    BY <2>2, <2>3, <2>4, <2>5, <2>6, <2>7, <2>8 DEF Next
<1>3. RetryInv /\ Others => TemplateTypeOK
  BY TypesSplit DEF RetryInv
<1> QED
  BY <1>1, <1>2, <1>3, RetryInvariant, KnownStaysStatic, PTL DEF Spec

=============================================================================
