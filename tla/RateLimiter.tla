----------------------------- MODULE RateLimiter -----------------------------
(***************************************************************************)
(* The token bucket of lib/soroban/rateLimiter.ts, meant for the RPC calls *)
(* of the page: acquire() takes a token or waits in a queue, and a timer   *)
(* refills the bucket once per interval and serves the queue.              *)
(***************************************************************************)
EXTENDS Integers, Sequences
LOCAL INSTANCE Functions

CONSTANTS
  Capacity,      \* tokensPerInterval
  IntervalSteps, \* parts of an interval that are told apart
  MaxCalls       \* bound on the calls of acquire()

ASSUME CapacityAssumption == Capacity \in Nat \ {0}
ASSUME IntervalAssumption == IntervalSteps \in Nat \ {0}
ASSUME MaxCallsAssumption == MaxCalls \in Nat

VARIABLES
  tokens,
  queue,         \* numbers of the calls that wait, first come first
  calls,         \* totalRequests
  destroyed,     \* the refill timer was cleared
  sinceRefill,   \* parts of the interval since the last refill
  servedUpTo,    \* history: the last call that was granted a token
  surplus,       \* history: see Surplus
  lately         \* history: grants in each part of the last interval, the present part first

limiterVars == <<tokens, queue, calls, destroyed, sinceRefill, servedUpTo, surplus, lately>>

\* By how much the grants exceed, over the worst stretch of time that ends
\* now, what the refills within that stretch have paid: a grant adds one to
\* every stretch, a refill takes a bucket off, and a new stretch may begin at
\* any moment with nothing.
Surplus(refills, grants) ==
  surplus' = (IF surplus > refills * Capacity THEN surplus - refills * Capacity ELSE 0) + grants
Granted(n) == lately' = [lately EXCEPT ![1] = @ + n]

LimiterInit ==
  /\ tokens = Capacity
  /\ queue = <<>>
  /\ calls = 0
  /\ destroyed = FALSE
  /\ sinceRefill = 0
  /\ servedUpTo = 0
  /\ surplus = 0
  /\ lately = [p \in 1..IntervalSteps |-> 0]

\* acquire() with a token in the bucket.
AcquireAtOnce ==
  /\ tokens > 0 /\ calls < MaxCalls
  /\ tokens' = tokens - 1
  /\ calls' = calls + 1
  /\ servedUpTo' = calls + 1
  /\ Surplus(0, 1) /\ Granted(1)
  /\ UNCHANGED <<queue, destroyed, sinceRefill>>

\* acquire() with an empty bucket.
AcquireLater ==
  /\ tokens = 0 /\ calls < MaxCalls
  /\ calls' = calls + 1
  /\ queue' = Append(queue, calls + 1)
  /\ UNCHANGED <<tokens, destroyed, sinceRefill, servedUpTo, surplus, lately>>

DrainedBeforeRefill == IF Len(queue) < tokens THEN Len(queue) ELSE tokens
Drained == IF Len(queue) < Capacity THEN Len(queue) ELSE Capacity

RefillAdds ==
  /\ sinceRefill = IntervalSteps /\ ~destroyed
  /\ tokens' = tokens + Capacity - Drained
  /\ queue' = SubSeq(queue, Drained + 1, Len(queue))
  /\ Surplus(1, Drained) /\ Granted(Drained)
  /\ servedUpTo' = IF Drained = 0 THEN servedUpTo ELSE queue[Drained]
  /\ sinceRefill' = 0
  /\ UNCHANGED <<calls, destroyed>>
\* refill(), which throws away what was left in the bucket.
Refill ==
  /\ sinceRefill = IntervalSteps /\ ~destroyed
  /\ tokens' = Capacity - Drained
  /\ queue' = SubSeq(queue, Drained + 1, Len(queue))
  /\ Surplus(1, Drained) /\ Granted(Drained)
  /\ servedUpTo' = IF Drained = 0 THEN servedUpTo ELSE queue[Drained]
  /\ sinceRefill' = 0
  /\ UNCHANGED <<calls, destroyed>>

IntervalGoesOn ==
  /\ sinceRefill < IntervalSteps /\ ~destroyed
  /\ sinceRefill' = sinceRefill + 1
  /\ lately' = [p \in 1..IntervalSteps |-> IF p = 1 THEN 0 ELSE lately[p - 1]]
  /\ UNCHANGED <<tokens, queue, calls, destroyed, servedUpTo, surplus>>

\* destroy() leaves the callers in the queue.
Destroy ==
  /\ ~destroyed
  /\ destroyed' = TRUE
  /\ UNCHANGED <<tokens, queue, calls, sinceRefill, servedUpTo, surplus, lately>>

LimiterNext == AcquireAtOnce \/ AcquireLater \/ Refill \/ IntervalGoesOn \/ Destroy

LimiterSpec == LimiterInit /\ [][LimiterNext]_limiterVars

\* The refill timer of the browser goes on until it is cleared.
LimiterFairness == WF_limiterVars(Refill) /\ WF_limiterVars(IntervalGoesOn)

-----------------------------------------------------------------------------
(***************************************************************************)
(* Properties.                                                             *)
(***************************************************************************)

\* The variables have their types and the bucket never overflows.
LimiterTypeOK ==
  /\ tokens \in 0..Capacity
  /\ calls \in 0..MaxCalls
  /\ queue \in Seq(Nat)
  /\ destroyed \in BOOLEAN
  /\ sinceRefill \in 0..IntervalSteps
  /\ servedUpTo \in 0..calls
  /\ surplus \in 0..MaxCalls
  /\ lately \in [1..IntervalSteps -> 0..MaxCalls]

\* Calls are granted strictly in the order in which they came: exactly the
\* calls after the last one served wait, in order, and no call is granted a
\* token while an older one waits or is forgotten in the queue.
ServedInOrder ==
  /\ servedUpTo + Len(queue) = calls
  /\ \A i \in 1..Len(queue) : queue[i] = servedUpTo + i

\* What the bucket limits: over any stretch of time, however long and whenever
\* it begins, the grants are at most one bucket more than what the refills
\* within it have paid.  A bucket that kept unspent tokens, or a refill that
\* paid the queue without charging the bucket, would let bursts add up.
OneBucketAhead == surplus <= Capacity

\* "the total request rate never exceeds `tokensPerInterval` requests per
\* `intervalMs`" (rateLimiter.ts:4-6): in any stretch shorter than an
\* interval.
OneBucketPerInterval == FoldFunction(LAMBDA n, m : n + m, 0, lately) <= Capacity

\* A call that waits is served, however many calls come after it, unless
\* destroy() stops the refill loop.
WaitersAreServed ==
  \A n \in 1..MaxCalls : servedUpTo < n /\ calls >= n ~> servedUpTo >= n \/ destroyed
=============================================================================
