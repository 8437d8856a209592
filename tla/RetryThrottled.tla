---------------------------- MODULE RetryThrottled ----------------------------
(***************************************************************************)
(* retryThrottled, the loop every call to ECS goes through: a throttled    *)
(* call is repeated after a delay that doubles, with jitter, up to a cap;  *)
(* any other answer is returned at once.                                   *)
(*                                                                         *)
(* The other modules take a call for one step, however often it was        *)
(* repeated.  Here a step is one request, with the sleep after it.         *)
(***************************************************************************)
EXTENDS Naturals

CONSTANTS
  Callers,              \* whoever calls, one call at a time each
  throttleMaxRetries,
  throttleBaseDelay, throttleMaxDelay

ASSUME RetryAssumption ==
  /\ throttleMaxRetries \in Nat
  /\ throttleBaseDelay \in Nat /\ throttleMaxDelay \in Nat
  /\ throttleBaseDelay <= throttleMaxDelay

VARIABLE retry   \* each caller's present or last call

\* Rate limits: a ServerError with a Throttling* code, which comes with HTTP
\* 400, or with one of the other codes or states, 429 and 503.
RateLimits == {"Throttling.User", "429"}

\* Everything else a request may fail with.
Refusals == {"InvalidParameter"}

Answers == {"ok"} \cup RateLimits \cup Refusals

(* on: the call has not returned; attempt, delay: as in the code; err: the *)
(* last answer.  Histories of the present call: throttled, the requests it *)
(* repeated; slept, the last sleep; total, all its sleeps.                 *)
Retry == [on: BOOLEAN, attempt: Nat, delay: Nat, err: Answers \cup {""},
          throttled: Nat, slept: Nat, total: Nat]

NoCall == [on |-> FALSE, attempt |-> 0, delay |-> 0, err |-> "",
           throttled |-> 0, slept |-> 0, total |-> 0]

\* Mutant: only the HTTP status is looked at.
isThrottlingError_Status(err) == err = "429"

isThrottlingError(err) == err \in RateLimits

Least(a, b) == IF a <= b THEN a ELSE b

Jitter(delay) == 0..(delay \div 2)

\* Mutant: the delay stays.
NextDelay_Same(delay) == delay

NextDelay(delay) == Least(2 * delay, throttleMaxDelay)

\* Mutant: one retry too many.
Spent_OffByOne(c) == retry[c].attempt > throttleMaxRetries

\* The budget of the call is exhausted.
Spent(c) == retry[c].attempt >= throttleMaxRetries

NoCalls == [c \in Callers |-> NoCall]

Call(c) ==
  retry' = [retry EXCEPT ![c] = [NoCall EXCEPT !.on = TRUE, !.delay = throttleBaseDelay]]

\* The request is throttled and will be repeated: the caller sleeps.
Backoff(c, err) ==
  /\ retry[c].on
  /\ isThrottlingError(err) /\ ~Spent(c)
  /\ \E jitter \in Jitter(retry[c].delay) :
        LET r     == retry[c]
            sleep == Least(r.delay + jitter, throttleMaxDelay)
        IN  retry' = [retry EXCEPT ![c] =
              [on |-> TRUE, attempt |-> r.attempt + 1, delay |-> NextDelay(r.delay), err |-> err,
               throttled |-> r.throttled + 1, slept |-> sleep, total |-> r.total + sleep]]

\* The call returns err: success, a refusal, or a throttle past the budget.
CallReturns(c, err) ==
  /\ retry[c].on
  /\ ~isThrottlingError(err) \/ Spent(c)
  /\ retry' = [retry EXCEPT ![c] = [NoCall EXCEPT !.err = err]]

-----------------------------------------------------------------------------

(* A request is repeated only after a throttle, and a throttle reaches the  *)
(* caller only once every retry was used: "terminal/business errors are     *)
(* never masked", and no transient throttle becomes a reconcile error.      *)
RetriedIfThrottled ==
  [][\A c \in Callers :
        /\ retry[c].on /\ retry'[c].on /\ retry'[c] # retry[c] =>
              retry'[c].err \in RateLimits
        /\ retry[c].on /\ ~retry'[c].on /\ retry'[c].err \in RateLimits =>
              retry[c].throttled = throttleMaxRetries]_retry

(* A call makes at most one request more than it has retries, never sleeps   *)
(* longer than the cap, and holds its worker no longer than the retries at   *)
(* the capped delay.                                                         *)
RetryBudget ==
  \A c \in Callers :
     /\ retry[c].throttled <= throttleMaxRetries
     /\ retry[c].slept <= throttleMaxDelay
     /\ retry[c].total <= throttleMaxRetries * throttleMaxDelay

(* The backoff never shrinks: whatever the jitter, and at the cap, a sleep   *)
(* is at least as long as the one before it.                                 *)
BackoffGrows ==
  [][\A c \in Callers :
        retry[c].on /\ retry'[c].on
           => retry[c].slept <= retry'[c].slept]_retry
=============================================================================
