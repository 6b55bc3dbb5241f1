--------------------------- MODULE RpcAccessProofs ---------------------------
(***************************************************************************)
(* Theorems about the way to the network: the rate limiter, for every      *)
(* capacity, interval and number of calls; the circuit breakers, for any   *)
(* number of endpoints and of probes in flight; calls and fee bumps, for   *)
(* any number of tries; the choices a reload brings back; the caches of    *)
(* the service worker; the alarms of the uptime check.                     *)
(*                                                                         *)
(* Every part has an inductive invariant of its own; the last section puts *)
(* them together for the specification of the whole.                       *)
(***************************************************************************)
EXTENDS MCRpcAccess, SequenceTheorems, TLAPS

-----------------------------------------------------------------------------
(* The rate limiter *)

(***************************************************************************)
(* The inductive invariant: besides the properties, what the grants have   *)
(* to do with the bucket.                                                  *)
(***************************************************************************)

\* The tokens left and the surplus of the grants over what the refills have
\* paid make at most one bucket: a grant moves one from the former to the
\* latter, and a refill, whatever it pays the queue, leaves what it has not
\* paid.  Nothing was granted to more callers than were served.
BucketIsShared ==
  /\ surplus + tokens <= Capacity
  /\ surplus <= servedUpTo
  /\ \A p \in 1..IntervalSteps : lately[p] <= servedUpTo

\* The calls that wait are the ones after the last one served.
Waiting ==
  /\ queue \in Seq(Nat)
  /\ servedUpTo + Len(queue) = calls
  /\ \A i \in 1..Len(queue) : queue[i] = servedUpTo + i
  /\ tokens > 0 => queue = <<>>

LimiterInv == LimiterTypeOK /\ BucketIsShared /\ Waiting

LEMMA LimiterInitInv == LimiterInit => LimiterInv
<1> SUFFICES ASSUME LimiterInit
             PROVE  LimiterInv
  OBVIOUS
<1> USE CapacityAssumption, IntervalAssumption, MaxCallsAssumption
<1>1. queue \in Seq(Nat) /\ Len(queue) = 0
  BY EmptySeq DEF LimiterInit
<1>2. LimiterTypeOK
  <2>1. /\ Capacity \in 0..Capacity /\ 0 \in 0..MaxCalls
        /\ 0 \in 0..IntervalSteps /\ 0 \in 0..0
    OBVIOUS
  <2>2. tokens \in 0..Capacity /\ calls \in 0..MaxCalls /\ destroyed \in BOOLEAN
    BY <2>1 DEF LimiterInit
  <2>3. sinceRefill \in 0..IntervalSteps /\ servedUpTo \in 0..calls
    BY <2>1 DEF LimiterInit
  <2>4. surplus \in 0..MaxCalls /\ lately \in [1..IntervalSteps -> 0..MaxCalls]
    BY <2>1 DEF LimiterInit
  <2>. QED
    BY <1>1, <2>2, <2>3, <2>4 DEF LimiterTypeOK
<1>3. Waiting
  BY <1>1 DEF LimiterInit, Waiting
<1>. QED
  BY <1>2, <1>3 DEF LimiterInit, LimiterInv, BucketIsShared

\* refill() serves no more callers than there are tokens, or callers.
LEMMA DrainedBounds ==
  ASSUME LimiterInv
  PROVE  /\ Drained \in Nat
         /\ Drained <= Len(queue) /\ Drained <= Capacity
         /\ Drained < Capacity => Drained = Len(queue)
BY CapacityAssumption DEF LimiterInv, LimiterTypeOK, Drained

\* What is left of a queue whose first n callers were served.
LEMMA RestOfQueue ==
  ASSUME NEW s \in Seq(Nat), NEW n \in 0..Len(s)
  PROVE  /\ SubSeq(s, n + 1, Len(s)) \in Seq(Nat)
         /\ Len(SubSeq(s, n + 1, Len(s))) = Len(s) - n
         /\ \A i \in 1..(Len(s) - n) : SubSeq(s, n + 1, Len(s))[i] = s[n + i]
<1>1. CASE n = Len(s)
  BY <1>1, SubSeqProperties
<1>2. CASE n < Len(s)
  <2>1. n + 1 \in 1..Len(s) + 1 /\ Len(s) \in 0..Len(s)
    BY <1>2
  <2>. QED
    BY <2>1, SubSeqProperties
<1>. QED
  BY <1>1, <1>2

\* Grants that move servedUpTo keep their counts below it.
LEMMA GrantsAreServed ==
  ASSUME LimiterInv, NEW n \in Nat, servedUpTo + n <= MaxCalls, Granted(n),
         servedUpTo' = servedUpTo + n
  PROVE  /\ lately' \in [1..IntervalSteps -> 0..MaxCalls]
         /\ \A p \in 1..IntervalSteps : lately'[p] <= servedUpTo'
<1> USE IntervalAssumption, MaxCallsAssumption
<1>1. /\ lately \in [1..IntervalSteps -> 0..MaxCalls] /\ servedUpTo \in Nat
      /\ \A p \in 1..IntervalSteps : lately[p] \in Nat /\ lately[p] <= servedUpTo
  BY DEF LimiterInv, LimiterTypeOK, BucketIsShared
<1>2. lately' = [lately EXCEPT ![1] = lately[1] + n]
  BY DEF Granted
<1>3. \A p \in 1..IntervalSteps :
        lately'[p] \in {lately[p], lately[p] + n}
  BY <1>1, <1>2
<1>4. \A p \in 1..IntervalSteps : lately'[p] \in Nat /\ lately'[p] <= servedUpTo + n
  BY <1>1, <1>3
<1>5. \A p \in 1..IntervalSteps : lately'[p] \in 0..MaxCalls
  BY <1>1, <1>4
<1>6. DOMAIN lately' = 1..IntervalSteps /\ lately' = [p \in DOMAIN lately' |-> lately'[p]]
  BY <1>1, <1>2
<1>. QED
  BY <1>4, <1>5, <1>6

LEMMA LimiterNextInv == LimiterInv /\ [LimiterNext]_limiterVars => LimiterInv'
<1> SUFFICES ASSUME LimiterInv, [LimiterNext]_limiterVars
             PROVE  LimiterInv'
  OBVIOUS
<1> USE CapacityAssumption, IntervalAssumption, MaxCallsAssumption
<1>1. CASE AcquireAtOnce
  <2>1. queue = <<>> /\ servedUpTo = calls
    BY <1>1 DEF AcquireAtOnce, LimiterInv, LimiterTypeOK, Waiting
  <2>2. /\ tokens' = tokens - 1 /\ calls' = calls + 1 /\ servedUpTo' = calls + 1
        /\ tokens > 0 /\ calls < MaxCalls /\ UNCHANGED <<queue, destroyed, sinceRefill>>
    BY <1>1 DEF AcquireAtOnce
  <2>3. surplus' = surplus + 1
    BY <1>1 DEF AcquireAtOnce, Surplus, LimiterInv, LimiterTypeOK
  <2>4. /\ lately' \in [1..IntervalSteps -> 0..MaxCalls]
        /\ \A p \in 1..IntervalSteps : lately'[p] <= servedUpTo'
    BY <2>1, <2>2, <1>1, GrantsAreServed DEF AcquireAtOnce, LimiterInv, LimiterTypeOK
  <2>. QED
    BY <2>1, <2>2, <2>3, <2>4 DEF LimiterInv, LimiterTypeOK, BucketIsShared, Waiting
<1>2. CASE AcquireLater
  <2>1. /\ queue' \in Seq(Nat) /\ Len(queue') = Len(queue) + 1
        /\ \A i \in 1..Len(queue) : queue'[i] = queue[i]
        /\ queue'[Len(queue) + 1] = calls + 1
    BY <1>2, AppendProperties DEF AcquireLater, LimiterInv, LimiterTypeOK
  <2>2. calls + 1 = servedUpTo + (Len(queue) + 1)
    BY DEF LimiterInv, LimiterTypeOK, Waiting
  <2>3. tokens = 0 /\ calls < MaxCalls /\ calls' = calls + 1
        /\ UNCHANGED <<tokens, destroyed, sinceRefill, servedUpTo, surplus, lately>>
    BY <1>2 DEF AcquireLater
  <2>4. Waiting'
    <3>1. Waiting /\ servedUpTo \in Nat /\ Len(queue) \in Nat /\ calls \in Nat
      BY DEF LimiterInv, LimiterTypeOK
    <3>2. \A i \in 1..Len(queue') : queue'[i] = servedUpTo' + i
      BY <2>1, <2>2, <2>3, <3>1 DEF Waiting
    <3>. QED
      BY <2>1, <2>2, <2>3, <3>1, <3>2 DEF Waiting
  <2>. QED
    BY <2>1, <2>3, <2>4 DEF LimiterInv, LimiterTypeOK, BucketIsShared
<1>3. CASE Refill
  <2>1. /\ Drained \in 0..Len(queue) /\ Drained <= Capacity
        /\ Drained < Capacity => Drained = Len(queue)
    BY DrainedBounds DEF LimiterInv, LimiterTypeOK
  <2>2. /\ queue' \in Seq(Nat) /\ Len(queue') = Len(queue) - Drained
        /\ \A i \in 1..(Len(queue) - Drained) : queue'[i] = queue[Drained + i]
    BY <1>3, <2>1, RestOfQueue DEF Refill, LimiterInv, LimiterTypeOK
  <2>3. servedUpTo' = servedUpTo + Drained
    BY <1>3, <2>1 DEF Refill, LimiterInv, LimiterTypeOK, Waiting
  <2>4. Waiting'
    <3>1. \A i \in 1..Len(queue') : queue'[i] = servedUpTo' + i
      BY <2>1, <2>2, <2>3 DEF LimiterInv, LimiterTypeOK, Waiting
    <3>2. tokens' > 0 => queue' = <<>>
      <4>1. ASSUME tokens' > 0 PROVE Len(queue') = 0
        BY <1>3, <2>1, <2>2, <4>1 DEF Refill
      <4>. QED
        BY <2>2, <4>1, EmptySeq
    <3>. QED
      <4>1. /\ servedUpTo \in Nat /\ Len(queue) \in Nat
            /\ servedUpTo + Len(queue) = calls
        BY DEF LimiterInv, LimiterTypeOK, Waiting
      <4>2. calls' = calls
        BY <1>3 DEF Refill
      <4>3. servedUpTo' + Len(queue') = calls'
        BY <2>1, <2>2, <2>3, <4>1, <4>2
      <4>. QED
        BY <2>2, <3>1, <3>2, <4>3 DEF Waiting
  <2>5. servedUpTo' \in 0..calls
    BY <2>1, <2>3 DEF LimiterInv, LimiterTypeOK, Waiting
  <2>6. surplus' = Drained
    <3>1. surplus \in Nat /\ surplus <= Capacity
      BY DEF LimiterInv, LimiterTypeOK, BucketIsShared
    <3>2. surplus' = (IF surplus > 1 * Capacity THEN surplus - 1 * Capacity ELSE 0) + Drained
      BY <1>3 DEF Refill, Surplus
    <3>. QED
      BY <2>1, <3>1, <3>2
  <2>7. /\ lately' \in [1..IntervalSteps -> 0..MaxCalls]
        /\ \A p \in 1..IntervalSteps : lately'[p] <= servedUpTo'
    <3>1. Granted(Drained) /\ Drained \in Nat /\ servedUpTo + Drained <= MaxCalls
      BY <1>3, <2>1, <2>3, <2>5 DEF Refill, LimiterInv, LimiterTypeOK
    <3>. QED
      BY <2>3, <3>1, GrantsAreServed
  <2>8. tokens' = Capacity - Drained /\ sinceRefill' = 0 /\ UNCHANGED <<calls, destroyed>>
    BY <1>3 DEF Refill
  <2>9. /\ Drained \in Nat /\ Drained <= Capacity
        /\ servedUpTo \in Nat /\ calls \in 0..MaxCalls /\ destroyed \in BOOLEAN
    BY <2>1 DEF LimiterInv, LimiterTypeOK
  <2>10. BucketIsShared'
    BY <2>3, <2>6, <2>7, <2>8, <2>9 DEF BucketIsShared
  <2>11. Drained <= MaxCalls
    BY <2>3, <2>5, <2>9
  <2>12. LimiterTypeOK'
    BY <2>2, <2>5, <2>6, <2>7, <2>8, <2>9, <2>11 DEF LimiterTypeOK
  <2>. QED
    BY <2>4, <2>10, <2>12 DEF LimiterInv
<1>4. CASE IntervalGoesOn
  <2>1. /\ lately' = [p \in 1..IntervalSteps |-> IF p = 1 THEN 0 ELSE lately[p - 1]]
        /\ UNCHANGED <<tokens, queue, calls, destroyed, servedUpTo, surplus>>
        /\ sinceRefill' \in 0..IntervalSteps
    BY <1>4 DEF IntervalGoesOn, LimiterInv, LimiterTypeOK
  <2>2. \A p \in 1..IntervalSteps : p # 1 => p - 1 \in 1..IntervalSteps
    OBVIOUS
  <2>3. \A p \in 1..IntervalSteps : lately'[p] \in 0..MaxCalls /\ lately'[p] <= servedUpTo
    BY <2>1, <2>2 DEF LimiterInv, LimiterTypeOK, BucketIsShared
  <2>4. lately' \in [1..IntervalSteps -> 0..MaxCalls]
    BY <2>1, <2>3
  <2>. QED
    BY <2>1, <2>3, <2>4 DEF LimiterInv, LimiterTypeOK, BucketIsShared, Waiting
<1>5. CASE Destroy
  BY <1>5 DEF Destroy, LimiterInv, LimiterTypeOK, BucketIsShared, Waiting
<1>6. CASE UNCHANGED limiterVars
  BY <1>6 DEF limiterVars, LimiterInv, LimiterTypeOK, BucketIsShared, Waiting
<1>. QED
  BY <1>1, <1>2, <1>3, <1>4, <1>5, <1>6 DEF LimiterNext

LEMMA LimiterInvHolds == LimiterSpec => []LimiterInv
BY LimiterInitInv, LimiterNextInv, PTL DEF LimiterSpec

\* The variables keep their types; the bucket never holds more than its
\* capacity (Math.min and the refill of rateLimiter.ts:149).
THEOREM LimiterTypes == LimiterSpec => []LimiterTypeOK
BY LimiterInvHolds, PTL DEF LimiterInv

\* acquire() serves its callers in the order in which they came, and forgets
\* none, for any capacity.
THEOREM InOrder == LimiterSpec => []ServedInOrder
<1>1. LimiterInv => ServedInOrder
  BY DEF LimiterInv, Waiting, ServedInOrder
<1>. QED
  BY <1>1, LimiterInvHolds, PTL

\* refill() of rateLimiter.ts: over any stretch of time, whenever it begins
\* and however the calls are spread over it, the grants exceed what the
\* refills within it have paid by at most one bucket.  (That an interval
\* without a refill of its own sees one bucket only, as the header of the
\* file says, is false: see OneBucketPerInterval.)
THEOREM RateBounded == LimiterSpec => []OneBucketAhead
<1>1. LimiterInv => OneBucketAhead
  BY CapacityAssumption DEF LimiterInv, LimiterTypeOK, BucketIsShared, OneBucketAhead
<1>. QED
  BY <1>1, LimiterInvHolds, PTL

\* A caller waits only for want of tokens: as long as one is left, nobody
\* queues (acquire() looks at the bucket before it looks at the queue, which
\* overtakes nobody).
THEOREM NobodyWaitsBesideTokens == LimiterSpec => [](tokens > 0 => queue = <<>>)
<1>1. LimiterInv => (tokens > 0 => queue = <<>>)
  BY DEF LimiterInv, Waiting
<1>. QED
  BY <1>1, LimiterInvHolds, PTL

-----------------------------------------------------------------------------
(* The circuit breakers *)

(***************************************************************************)
(* The inductive invariant: besides the types and the property, that every *)
(* answer on its way is of a probe of some endpoint.                       *)
(***************************************************************************)
AnswersAreOfProbes == \A p \in Probes : probe[p].answer # "none" => probe[p].url \in Endpoints

RpcInv == RpcTypeOK /\ AnswersAreOfProbes /\ BreakerIsCoherent

Probe == [url: {0} \union Endpoints, started: 0..MaxTime, answer: {"none", "ok", "failed"}]

LEMMA RpcInitInv == RpcInit => RpcInv
<1> SUFFICES ASSUME RpcInit
             PROVE  RpcInv
  OBVIOUS
<1>1. 0 \in 0..MaxTime /\ 0 \in 0..FailureThreshold /\ 0 \in 0..MaxTime + Cooldown
  BY EndpointAssumption DEF FailureThreshold
<1>2. probe \in [Probes -> Probe]
  BY <1>1 DEF RpcInit, NoProbe, Probe
<1>3. RpcTypeOK
  <2>1. now \in 0..MaxTime /\ checking \in BOOLEAN
    BY <1>1 DEF RpcInit
  <2>2. up \in [Endpoints -> BOOLEAN] /\ healthy \in [Endpoints -> BOOLEAN]
    BY DEF RpcInit
  <2>3. /\ consecutiveFailures \in [Endpoints -> 0..FailureThreshold]
        /\ trippedUntil \in [Endpoints -> 0..MaxTime + Cooldown]
    BY <1>1 DEF RpcInit
  <2>. QED
    BY <1>2, <2>1, <2>2, <2>3 DEF RpcTypeOK, Probe
<1>4. AnswersAreOfProbes
  BY DEF RpcInit, NoProbe, AnswersAreOfProbes
<1>5. BreakerIsCoherent
  BY DEF RpcInit, BreakerIsCoherent, FailureThreshold
<1>. QED
  BY <1>3, <1>4, <1>5 DEF RpcInv

\* A success closes the breaker of its endpoint and touches no other one.
LEMMA SuccessKeepsCoherent ==
  ASSUME RpcInv, NEW e \in Endpoints, recordSuccess(e)
  PROVE  /\ healthy' \in [Endpoints -> BOOLEAN]
         /\ consecutiveFailures' \in [Endpoints -> 0..FailureThreshold]
         /\ trippedUntil' \in [Endpoints -> 0..MaxTime + Cooldown]
         /\ BreakerIsCoherent'
<1> USE EndpointAssumption DEF FailureThreshold
<1>1. healthy' \in [Endpoints -> BOOLEAN]
  BY DEF RpcInv, RpcTypeOK, recordSuccess
<1>2. /\ consecutiveFailures' \in [Endpoints -> 0..FailureThreshold]
      /\ trippedUntil' \in [Endpoints -> 0..MaxTime + Cooldown]
  BY DEF RpcInv, RpcTypeOK, recordSuccess
<1>3. /\ healthy'[e] = TRUE /\ consecutiveFailures'[e] = 0 /\ trippedUntil'[e] = 0
      /\ \A f \in Endpoints \ {e} :
           /\ healthy'[f] = healthy[f]
           /\ consecutiveFailures'[f] = consecutiveFailures[f]
           /\ trippedUntil'[f] = trippedUntil[f]
  BY DEF RpcInv, RpcTypeOK, recordSuccess
<1>4. BreakerIsCoherent'
  BY <1>3 DEF RpcInv, BreakerIsCoherent
<1>. QED
  BY <1>1, <1>2, <1>4

\* The second failure in a row opens the breaker, an earlier one only counts,
\* and a later one extends its cooldown.
LEMMA FailureKeepsCoherent ==
  ASSUME RpcInv, NEW e \in Endpoints, NEW at \in 0..MaxTime, recordFailure(e, at)
  PROVE  /\ healthy' \in [Endpoints -> BOOLEAN]
         /\ consecutiveFailures' \in [Endpoints -> 0..FailureThreshold]
         /\ trippedUntil' \in [Endpoints -> 0..MaxTime + Cooldown]
         /\ BreakerIsCoherent'
<1> USE EndpointAssumption DEF FailureThreshold
<1>0. /\ consecutiveFailures \in [Endpoints -> 0..2] /\ healthy \in [Endpoints -> BOOLEAN]
      /\ trippedUntil \in [Endpoints -> 0..MaxTime + Cooldown]
  BY DEF RpcInv, RpcTypeOK
<1>1. CASE consecutiveFailures[e] = 0
  <2>1. /\ consecutiveFailures' = [consecutiveFailures EXCEPT ![e] = 1]
        /\ UNCHANGED <<healthy, trippedUntil>>
    BY <1>1 DEF recordFailure
  <2>2. consecutiveFailures' \in [Endpoints -> 0..2]
    BY <1>0, <2>1
  <2>3. BreakerIsCoherent'
    BY <1>0, <1>1, <2>1 DEF RpcInv, BreakerIsCoherent
  <2>. QED
    BY <1>0, <2>1, <2>2, <2>3
<1>2. CASE consecutiveFailures[e] # 0
  <2> DEFINE count == IF consecutiveFailures[e] < 2 THEN consecutiveFailures[e] + 1 ELSE 2
  <2>0. count = 2
    BY <1>0, <1>2
  <2>1. /\ consecutiveFailures' = [consecutiveFailures EXCEPT ![e] = 2]
        /\ healthy' = [healthy EXCEPT ![e] = FALSE]
        /\ trippedUntil' = [trippedUntil EXCEPT ![e] = at + Cooldown]
    <3>1. /\ consecutiveFailures' = [consecutiveFailures EXCEPT ![e] = count]
          /\ count = 2 => /\ healthy' = [healthy EXCEPT ![e] = FALSE]
                             /\ trippedUntil' = [trippedUntil EXCEPT ![e] = at + Cooldown]
      BY DEF recordFailure
    <3>. QED
      BY <2>0, <3>1
  <2>2. /\ consecutiveFailures' \in [Endpoints -> 0..2]
        /\ trippedUntil' \in [Endpoints -> 0..MaxTime + Cooldown]
    BY <1>0, <2>1
  <2>3. healthy' \in [Endpoints -> BOOLEAN]
    BY <1>0, <2>1
  <2>4. BreakerIsCoherent'
    BY <1>0, <2>1 DEF RpcInv, BreakerIsCoherent
  <2>. QED
    BY <2>2, <2>3, <2>4
<1>. QED
  BY <1>1, <1>2

LEMMA RpcNextInv == RpcInv /\ [RpcNext]_rpcVars => RpcInv'
<1> SUFFICES ASSUME RpcInv, [RpcNext]_rpcVars
             PROVE  RpcInv'
  OBVIOUS
<1>0. /\ probe \in [Probes -> Probe] /\ now \in 0..MaxTime
      /\ up \in [Endpoints -> BOOLEAN]
      /\ EndpointCount \in Nat
  BY EndpointAssumption DEF RpcInv, RpcTypeOK, Probe
<1>1. CASE RpcTimePasses
  <2>1. now' \in 0..MaxTime
    BY <1>0, <1>1, EndpointAssumption DEF RpcTimePasses
  <2>. QED
    BY <1>1, <2>1 DEF RpcTimePasses, breakers, RpcInv, RpcTypeOK, AnswersAreOfProbes, BreakerIsCoherent
<1>2. CASE SetHealthChecks
  BY <1>2 DEF SetHealthChecks, breakers, RpcInv, RpcTypeOK, AnswersAreOfProbes, BreakerIsCoherent
<1>3. ASSUME NEW e \in Endpoints, EndpointChanges(e) PROVE RpcInv'
  <2>1. up' \in [Endpoints -> BOOLEAN]
    BY <1>0, <1>3 DEF EndpointChanges
  <2>. QED
    BY <1>3, <2>1 DEF EndpointChanges, breakers, RpcInv, RpcTypeOK, AnswersAreOfProbes, BreakerIsCoherent
<1>4. ASSUME NEW e \in Endpoints, NEW p \in Probes, StartProbe(p, e) PROVE RpcInv'
  <2>1. probe' \in [Probes -> Probe]
    BY <1>0, <1>4 DEF StartProbe, Probe
  <2>2. AnswersAreOfProbes'
    BY <1>0, <1>4 DEF StartProbe, RpcInv, AnswersAreOfProbes, Probe
  <2>. QED
    BY <1>4, <2>1, <2>2 DEF StartProbe, breakers, RpcInv, RpcTypeOK, Probe, BreakerIsCoherent
<1>5. ASSUME NEW p \in Probes, ProbeReaches(p) PROVE RpcInv'
  <2>1. probe' \in [Probes -> Probe]
    BY <1>0, <1>5 DEF ProbeReaches, Probe
  <2>2. AnswersAreOfProbes'
    BY <1>0, <1>5 DEF ProbeReaches, RpcInv, AnswersAreOfProbes, Probe
  <2>. QED
    BY <1>5, <2>1, <2>2 DEF ProbeReaches, breakers, RpcInv, RpcTypeOK, Probe, BreakerIsCoherent
<1>6. ASSUME NEW p \in Probes, ProbeEnds(p) PROVE RpcInv'
  <2>1. /\ probe' = [probe EXCEPT ![p] = NoProbe]
        /\ UNCHANGED <<now, up, checking>>
    BY <1>6 DEF ProbeEnds
  <2>2. NoProbe \in Probe
    BY EndpointAssumption DEF NoProbe, Probe
  <2>3. probe' \in [Probes -> Probe]
    BY <1>0, <2>1, <2>2
  <2>4. AnswersAreOfProbes'
    BY <1>0, <2>1 DEF NoProbe, RpcInv, AnswersAreOfProbes
  <2>5. probe[p].url \in Endpoints /\ probe[p].started \in 0..MaxTime
    BY <1>0, <1>6 DEF ProbeEnds, RpcInv, AnswersAreOfProbes, Probe
  <2>6. /\ healthy' \in [Endpoints -> BOOLEAN]
        /\ consecutiveFailures' \in [Endpoints -> 0..FailureThreshold]
        /\ trippedUntil' \in [Endpoints -> 0..MaxTime + Cooldown]
        /\ BreakerIsCoherent'
    BY <1>6, <2>5, SuccessKeepsCoherent, FailureKeepsCoherent DEF ProbeEnds
  <2>7. RpcTypeOK'
    BY <2>1, <2>3, <2>6 DEF RpcInv, RpcTypeOK, Probe
  <2>. QED
    BY <2>4, <2>6, <2>7 DEF RpcInv
<1>7. CASE UNCHANGED rpcVars
  BY <1>7 DEF rpcVars, breakers, RpcInv, RpcTypeOK, AnswersAreOfProbes, BreakerIsCoherent
<1>. QED
  BY <1>1, <1>2, <1>3, <1>4, <1>5, <1>6, <1>7 DEF RpcNext

LEMMA RpcInvHolds == RpcSpec => []RpcInv
BY RpcInitInv, RpcNextInv, PTL DEF RpcSpec

\* Breakers and probes keep their types.
THEOREM BreakerTypes == RpcSpec => []RpcTypeOK
BY RpcInvHolds, PTL DEF RpcInv

\* However many probes of an endpoint overlap, and in whatever order their
\* answers arrive, its breaker is open exactly after two failures in a row,
\* and none is left half open.
THEOREM BreakersAreCoherent == RpcSpec => []BreakerIsCoherent
BY RpcInvHolds, PTL DEF RpcInv

\* An endpoint that is in use is eligible at once: the clock never keeps out
\* an endpoint with a closed breaker, and never lets one in whose breaker is
\* open (the second half of selectEndpoint()'s filter decides nothing).
THEOREM ClockDecidesNothing == RpcSpec => [](Eligible = {e \in Endpoints : healthy[e]})
<1>1. RpcInv => Eligible = {e \in Endpoints : healthy[e]}
  BY DEF RpcInv, BreakerIsCoherent, Eligible
<1>. QED
  BY <1>1, RpcInvHolds, PTL

-----------------------------------------------------------------------------
(* Contract calls and their fee bumps *)

(***************************************************************************)
(* The inductive invariant.  Every try of one call carries the sequence    *)
(* number the user signed, the ledger applies a number once, and so at     *)
(* most one try of a call succeeds.                                        *)
(***************************************************************************)

\* What a try consists of.
TryType ==
  [at: {"idle", "built", "polling", "ended"}, kind: {"invoke", "bump"}, seq: Nat,
   call: Tries, result: {"none", "unsigned", "rejected", "error", "SUCCESS", "FAILED"}]

SubmitTypeOK ==
  /\ sequence \in Nat
  /\ pool \subseteq Tries /\ succeeded \subseteq Tries
  /\ try \in [Tries -> TryType]

\* A try that has not begun is as it was.
IdleIsUntried == \A t \in Tries : try[t].at = "idle" => try[t] = NotTried(t)

\* A try that began has the sequence number of its invocation, which began
\* before it.
SharesItsSequence ==
  \A t \in Tries : try[t].at # "idle" =>
    /\ try[try[t].call].at # "idle"
    /\ try[t].seq = try[try[t].call].seq

\* Only what was sent is with the network.
SentHaveBegun == \A t \in pool \union succeeded : try[t].at # "idle"

\* A ledger uses up the sequence number of what it applies.
SucceededAreOld == \A t \in succeeded : try[t].seq <= sequence
NumbersAreUsedOnce == \A t, u \in succeeded : try[t].seq = try[u].seq => t = u

SubmitInv ==
  /\ SubmitTypeOK
  /\ IdleIsUntried /\ SharesItsSequence /\ SentHaveBegun
  /\ SucceededAreOld /\ NumbersAreUsedOnce /\ SuccessIsApplied

LEMMA SubmitInitInv == SubmitInit => SubmitInv
<1> SUFFICES ASSUME SubmitInit
             PROVE  SubmitInv
  OBVIOUS
<1>1. \A t \in Tries : try[t] = NotTried(t)
  BY DEF SubmitInit
<1>2. try \in [Tries -> TryType]
  BY DEF SubmitInit, NotTried, TryType
<1>3. SubmitTypeOK
  BY <1>2 DEF SubmitInit, SubmitTypeOK
<1>4. IdleIsUntried /\ SharesItsSequence /\ SuccessIsApplied
  <2>1. \A t \in Tries : try[t].at = "idle" /\ try[t].result = "none"
    <3> SUFFICES ASSUME NEW t \in Tries
                 PROVE  try[t].at = "idle" /\ try[t].result = "none"
      OBVIOUS
    <3>1. try[t] = [at |-> "idle", kind |-> "invoke", seq |-> 0, call |-> t, result |-> "none"]
      BY <1>1 DEF NotTried
    <3>. QED
      BY <3>1
  <2>2. IdleIsUntried
    BY <1>1 DEF IdleIsUntried
  <2>3. SharesItsSequence
    BY <2>1 DEF SharesItsSequence
  <2>4. SuccessIsApplied
    BY <2>1 DEF SuccessIsApplied
  <2>. QED
    BY <2>2, <2>3, <2>4
<1>5. SentHaveBegun /\ SucceededAreOld /\ NumbersAreUsedOnce
  BY DEF SubmitInit, SentHaveBegun, SucceededAreOld, NumbersAreUsedOnce
<1>. QED
  BY <1>3, <1>4, <1>5 DEF SubmitInv

(***************************************************************************)
(* A step of one try: it goes on from where it is, under the same number   *)
(* and the same invocation.                                                *)
(***************************************************************************)
GoesOn(t, at, result) == try' = [try EXCEPT ![t].at = at, ![t].result = result]

LEMMA GoesOnInv ==
  ASSUME SubmitInv, NEW t \in Tries, try[t].at # "idle",
         NEW at \in {"polling", "ended"},
         NEW result \in {"none", "unsigned", "rejected", "error", "SUCCESS", "FAILED"},
         GoesOn(t, at, result),
         result = "SUCCESS" => t \in succeeded,
         sequence' = sequence, succeeded' = succeeded,
         pool' \subseteq pool \union {t}
  PROVE  SubmitInv'
<1> USE DEF SubmitInv
<1>1. try' \in [Tries -> TryType]
  BY DEF GoesOn, SubmitTypeOK, TryType
<1>2. SubmitTypeOK'
  BY <1>1 DEF SubmitTypeOK
<1>3. \A u \in Tries : /\ try'[u].kind = try[u].kind /\ try'[u].call = try[u].call
                       /\ try'[u].seq = try[u].seq
                       /\ try'[u].at # "idle" <=> try[u].at # "idle"
  BY DEF GoesOn, SubmitTypeOK, TryType
<1>4. \A u \in Tries : try'[u].result = IF u = t THEN result ELSE try[u].result
  BY DEF GoesOn, SubmitTypeOK, TryType
<1>5. \A u \in Tries : try[u].call \in Tries
  BY DEF SubmitTypeOK, TryType
<1>6. IdleIsUntried' /\ SharesItsSequence'
  <2>1. \A u \in Tries : try'[u].at # "idle" => try'[try'[u].call].at # "idle"
    BY <1>3, <1>5 DEF SharesItsSequence
  <2>2. \A u \in Tries : try'[u].at = "idle" => u # t /\ try'[u] = try[u]
    BY <1>3 DEF GoesOn, SubmitTypeOK
  <2>. QED
    BY <1>3, <1>5, <2>1, <2>2 DEF IdleIsUntried, SharesItsSequence, NotTried
<1>7. SentHaveBegun'
  BY <1>3 DEF SentHaveBegun, SubmitTypeOK
<1>8. SucceededAreOld' /\ NumbersAreUsedOnce'
  BY <1>3 DEF SucceededAreOld, NumbersAreUsedOnce, SubmitTypeOK
<1>9. SuccessIsApplied'
  BY <1>4 DEF SuccessIsApplied
<1>. QED
  BY <1>2, <1>6, <1>7, <1>8, <1>9

(***************************************************************************)
(* A try begins, with the number of its invocation.                        *)
(***************************************************************************)
Begins(t, new) == try' = [try EXCEPT ![t] = new]

LEMMA BeginsInv ==
  ASSUME SubmitInv, NEW t \in Tries, try[t].at = "idle",
         NEW new \in TryType, Begins(t, new),
         new.at = "built", new.result = "none",
         \/ new.kind = "invoke" /\ new.call = t
         \/ /\ new.kind = "bump" /\ new.call # t /\ try[new.call].at # "idle"
            /\ new.seq = try[new.call].seq,
         UNCHANGED <<sequence, pool, succeeded>>
  PROVE  SubmitInv'
<1> USE DEF SubmitInv
<1>1. try' \in [Tries -> TryType]
  BY DEF Begins, SubmitTypeOK
<1>2. SubmitTypeOK'
  BY <1>1 DEF SubmitTypeOK
<1>3. try'[t] = new /\ \A u \in Tries \ {t} : try'[u] = try[u]
  BY DEF Begins, SubmitTypeOK
<1>4. \A u \in Tries : try[u].call \in Tries
  BY DEF SubmitTypeOK, TryType
<1>5. new.call \in Tries
  BY DEF TryType
<1>6. IdleIsUntried'
  BY <1>3 DEF IdleIsUntried, NotTried
<1>7. SharesItsSequence'
  <2> SUFFICES ASSUME NEW u \in Tries, try'[u].at # "idle"
               PROVE  /\ try'[try'[u].call].at # "idle"
                      /\ try'[u].seq = try'[try'[u].call].seq
    BY DEF SharesItsSequence
  <2>1. CASE u = t
    BY <1>3, <1>5, <2>1
  <2>2. CASE u # t
    <3>1. try[u].at # "idle" /\ try[try[u].call].at # "idle" /\ try[u].call # t
      BY <1>3, <1>4, <2>2 DEF SharesItsSequence
    <3>. QED
      BY <1>3, <1>4, <2>2, <3>1 DEF SharesItsSequence
  <2>. QED
    BY <2>1, <2>2
<1>8. \A u \in pool \union succeeded : u # t /\ try'[u] = try[u]
  BY <1>3 DEF SentHaveBegun, SubmitTypeOK
<1>9. SentHaveBegun' /\ SucceededAreOld' /\ NumbersAreUsedOnce'
  BY <1>8 DEF SentHaveBegun, SucceededAreOld, NumbersAreUsedOnce
<1>10. SuccessIsApplied'
  BY <1>3 DEF SuccessIsApplied
<1>. QED
  BY <1>2, <1>6, <1>7, <1>9, <1>10

\* The network puts a transaction it accepts in the place of its rivals.
LEMMA PoolsAfterSend ==
  ASSUME NEW t \in Tries, pool' \in PoolsAfter(t)
  PROVE  pool' \subseteq pool \union {t}
BY DEF PoolsAfter

LEMMA LedgerInv ==
  ASSUME SubmitInv, NEW t \in Tries, LedgerApplies(t)
  PROVE  SubmitInv'
<1> USE DEF SubmitInv
<1>1. /\ t \in pool /\ try[t].seq = sequence + 1 /\ sequence' = sequence + 1
      /\ pool' \subseteq pool /\ try' = try
      /\ succeeded \subseteq succeeded' /\ succeeded' \subseteq succeeded \union {t}
  BY DEF LedgerApplies
<1>2. SubmitTypeOK'
  BY <1>1 DEF SubmitTypeOK
<1>3. IdleIsUntried' /\ SharesItsSequence' /\ SuccessIsApplied'
  BY <1>1 DEF IdleIsUntried, NotTried, SharesItsSequence, SuccessIsApplied
<1>4. SentHaveBegun'
  BY <1>1 DEF SentHaveBegun
<1>5. \A u \in succeeded : try[u].seq \in Nat /\ try[u].seq <= sequence
  BY DEF SubmitTypeOK, TryType, SucceededAreOld
<1>6. SucceededAreOld'
  BY <1>1, <1>5 DEF SucceededAreOld, SubmitTypeOK
<1>7. \A u \in succeeded : try[u].seq # try[t].seq
  BY <1>1, <1>5 DEF SubmitTypeOK
<1>8. NumbersAreUsedOnce'
  BY <1>1, <1>7 DEF NumbersAreUsedOnce
<1>. QED
  BY <1>2, <1>3, <1>4, <1>6, <1>8

LEMMA SubmitNextInv == SubmitInv /\ [SubmitNext]_submitVars => SubmitInv'
<1> SUFFICES ASSUME SubmitInv, [SubmitNext]_submitVars
             PROVE  SubmitInv'
  OBVIOUS
<1>0. \A t \in Tries : try[t] \in TryType /\ (try[t].at = "idle" => try[t] = NotTried(t))
  BY DEF SubmitInv, SubmitTypeOK, IdleIsUntried
<1>1. ASSUME NEW t \in Tries, Invoke(t) PROVE SubmitInv'
  <2> DEFINE new == [at |-> "built", kind |-> "invoke", seq |-> sequence + 1,
                     call |-> t, result |-> "none"]
  <2>1. try[t] = NotTried(t)
    BY <1>0, <1>1 DEF Invoke
  <2>2. Begins(t, new)
    BY <1>1, <2>1 DEF Invoke, Begins, NotTried, SubmitInv, SubmitTypeOK
  <2>3. new \in TryType
    BY DEF SubmitInv, SubmitTypeOK, TryType
  <2>. QED
    BY <1>1, <2>2, <2>3, BeginsInv DEF Invoke
<1>2. ASSUME NEW t \in Tries, NEW of \in Tries \ {t}, BuildFeeBump(t, of) PROVE SubmitInv'
  <2> DEFINE new == [at |-> "built", kind |-> "bump", seq |-> try[of].seq,
                     call |-> of, result |-> "none"]
  <2>1. Begins(t, new) /\ try[of].at # "idle"
    BY <1>2 DEF BuildFeeBump, Bumpable, Begins
  <2>2. new \in TryType
    BY <1>0 DEF TryType
  <2>. QED
    BY <1>2, <2>1, <2>2, BeginsInv DEF BuildFeeBump
<1>3. ASSUME NEW t \in Tries, NotSigned(t) PROVE SubmitInv'
  BY <1>3, GoesOnInv DEF NotSigned, Ends, GoesOn
<1>4. ASSUME NEW t \in Tries, SendRejected(t) PROVE SubmitInv'
  BY <1>4, GoesOnInv DEF SendRejected, Ends, GoesOn
<1>5. ASSUME NEW t \in Tries, Send(t) PROVE SubmitInv'
  <2>1. GoesOn(t, "polling", try[t].result)
    BY <1>0, <1>5 DEF Send, GoesOn, SubmitInv, SubmitTypeOK, TryType
  <2>2. pool' \subseteq pool \union {t}
    BY <1>5, PoolsAfterSend DEF Send
  <2>3. /\ try[t].result \in {"none", "unsigned", "rejected", "error", "SUCCESS", "FAILED"}
        /\ try[t].result = "SUCCESS" => t \in succeeded
    BY <1>0 DEF TryType, SubmitInv, SuccessIsApplied
  <2>. QED
    BY <1>5, <2>1, <2>2, <2>3, GoesOnInv DEF Send
<1>6. ASSUME NEW t \in Tries, SendUnanswered(t) PROVE SubmitInv'
  <2>1. pool' \subseteq pool \union {t}
    BY <1>6, PoolsAfterSend DEF SendUnanswered
  <2>. QED
    BY <1>6, <2>1, GoesOnInv DEF SendUnanswered, Ends, GoesOn
<1>7. ASSUME NEW t \in Tries, PollEnds(t) PROVE SubmitInv'
  <2>1. PICK result \in {"SUCCESS", "FAILED", "error"} :
          /\ GoesOn(t, "ended", result)
          /\ result = "SUCCESS" => t \in succeeded
    BY <1>7 DEF PollEnds, Ends, GoesOn, Polled
  <2>. QED
    BY <1>7, <2>1, GoesOnInv DEF PollEnds
<1>8. ASSUME NEW t \in Tries, TransactionExpires(t) PROVE SubmitInv'
  BY <1>8 DEF TransactionExpires, SubmitInv, SubmitTypeOK, IdleIsUntried, NotTried,
              SharesItsSequence, SentHaveBegun, SucceededAreOld, NumbersAreUsedOnce, SuccessIsApplied
<1>9. ASSUME NEW t \in Tries, LedgerApplies(t) PROVE SubmitInv'
  BY <1>9, LedgerInv
<1>10. CASE UNCHANGED submitVars
  BY <1>10 DEF submitVars, SubmitInv, SubmitTypeOK, IdleIsUntried, NotTried,
               SharesItsSequence, SentHaveBegun, SucceededAreOld, NumbersAreUsedOnce, SuccessIsApplied
<1>. QED
  BY <1>1, <1>2, <1>3, <1>4, <1>5, <1>6, <1>7, <1>8, <1>9, <1>10 DEF SubmitNext

LEMMA SubmitInvHolds == SubmitSpec => []SubmitInv
BY SubmitInitInv, SubmitNextInv, PTL DEF SubmitSpec

\* Calls, bumps and what the network holds of them keep their types.
THEOREM SubmissionTypes == SubmitSpec => []SubmitTypeOK
BY SubmitInvHolds, PTL DEF SubmitInv

\* However often a call is bumped and sent, whatever the network refuses,
\* replaces or drops and whichever answers are lost, what the user signed
\* once is applied with success at most once.
THEOREM EffectOnce == SubmitSpec => []InvocationTakesEffectOnce
<1>1. SubmitInv => InvocationTakesEffectOnce
  <2> SUFFICES ASSUME SubmitInv, NEW t \in succeeded, NEW u \in succeeded,
                      try[t].call = try[u].call
               PROVE  t = u
    BY DEF InvocationTakesEffectOnce
  <2>1. t \in Tries /\ u \in Tries /\ try[t].at # "idle" /\ try[u].at # "idle"
    BY DEF SubmitInv, SubmitTypeOK, SentHaveBegun
  <2>2. try[t].seq = try[u].seq
    BY <2>1 DEF SubmitInv, SharesItsSequence
  <2>. QED
    BY <2>2 DEF SubmitInv, NumbersAreUsedOnce
<1>. QED
  BY <1>1, SubmitInvHolds, PTL

\* No lost answer, bump or late ledger makes a call report a success that the
\* ledger does not know.
THEOREM SuccessTold == SubmitSpec => []SuccessIsApplied
<1>1. SubmitInv => SuccessIsApplied
  BY DEF SubmitInv, SuccessIsApplied
<1>. QED
  BY <1>1, SubmitInvHolds, PTL

-----------------------------------------------------------------------------
(* The endpoint and the contracts that are remembered *)

LEMMA ProviderInitInv == ProviderInit => ReloadKeepsChoices
BY DEF ProviderInit, ReloadKeepsChoices, ChosenAtStart

\* The invariant of the choices carries itself from step to step.
LEMMA ProviderNextInv == ReloadKeepsChoices /\ [ProviderNext]_endpointVars => ReloadKeepsChoices'
<1> SUFFICES ASSUME ReloadKeepsChoices, [ProviderNext]_endpointVars, storageOpen'
             PROVE  ReloadKeepsChoices'
  BY DEF ReloadKeepsChoices
<1> USE DEF ReloadKeepsChoices, ChosenAtStart, urlVars, contractVars
<1>1. CASE ReloadProvider
  BY <1>1 DEF ReloadProvider
<1>2. CASE ClearCustomEndpoint
  BY <1>2 DEF ClearCustomEndpoint, StoreUrl
<1>3. ASSUME NEW v \in Validations, NEW url \in Urls, StartSave(v, url)
      PROVE  ReloadKeepsChoices'
  BY <1>3 DEF StartSave
<1>4. ASSUME NEW v \in Validations, NEW answer, SaveEnds(v, answer)
      PROVE  ReloadKeepsChoices'
  BY <1>4 DEF SaveEnds, StoreUrl
<1>5. ASSUME NEW url \in Urls, NEW chosen \in Networks, SetNetwork(url, chosen)
      PROVE  ReloadKeepsChoices'
  BY <1>5 DEF SetNetwork
<1>6. ASSUME NEW id, SetContractId(id) PROVE ReloadKeepsChoices'
  BY <1>6 DEF SetContractId, StoreSelection
<1>7. ASSUME NEW id \in ContractIds, AddContract(id) PROVE ReloadKeepsChoices'
  BY <1>7 DEF AddContract, StoreList
<1>8. ASSUME NEW id \in ContractIds, RemoveContract(id) PROVE ReloadKeepsChoices'
  BY <1>8 DEF RemoveContract, StoreSelection, StoreList
<1>9. CASE UNCHANGED endpointVars
  BY <1>9 DEF endpointVars
<1>. QED
  BY <1>1, <1>2, <1>3, <1>4, <1>5, <1>6, <1>7, <1>8, <1>9 DEF ProviderNext

-----------------------------------------------------------------------------
(* The service worker *)

\* What a request under way may still put into a cache was deployed.
PutsAreServed ==
  \A f \in Fetches :
    /\ fetches[f].at \in {"fetching", "putting"} => fetches[f].url \in Resources
    /\ fetches[f].at = "putting" => fetches[f].version \in 1..served[fetches[f].url]

FetchType == [at: {"none", "fetching", "putting"}, url: Resources \union {Missing},
              cached: {Missing} \union Nat, version: {Missing} \union Nat]

WorkerInv ==
  /\ served \in [Resources -> Nat \ {0}]
  /\ cache \in [Resources -> {Missing} \union Nat]
  /\ fetches \in [Fetches -> FetchType]
  /\ PutsAreServed
  /\ CachesAreServed

LEMMA WorkerInitInv == WorkerInit => WorkerInv
BY DEF WorkerInit, WorkerInv, PutsAreServed, CachesAreServed, NoFetch, FetchType

\* A request that begins or ends without an answer puts nothing.
LEMMA FetchMoves ==
  ASSUME WorkerInv, NEW f \in Fetches, NEW new \in FetchType,
         new.at \in {"fetching", "putting"} => new.url \in Resources,
         new.at = "putting" => new.version \in 1..served[new.url],
         fetches' = [fetches EXCEPT ![f] = new], UNCHANGED <<served, cache>>
  PROVE  WorkerInv'
BY DEF WorkerInv, PutsAreServed, CachesAreServed

LEMMA WorkerNextInv == WorkerInv /\ [WorkerNext]_workerVars => WorkerInv'
<1> SUFFICES ASSUME WorkerInv, [WorkerNext]_workerVars
             PROVE  WorkerInv'
  OBVIOUS
<1>1. CASE Install
  <2>1. /\ cache' \in [Resources -> {Missing} \union Nat]
        /\ \A u \in Resources : cache'[u] = served[u] \/ cache'[u] = cache[u]
        /\ UNCHANGED <<served, fetches>>
    BY <1>1 DEF Install, WorkerInv
  <2>. QED
    BY <2>1 DEF WorkerInv, PutsAreServed, CachesAreServed
<1>2. CASE Activate \/ NetworkChanges
  BY <1>2 DEF Activate, NetworkChanges, WorkerInv, PutsAreServed, CachesAreServed
<1>3. ASSUME NEW u \in Resources, Deploy(u) PROVE WorkerInv'
  <2>1. /\ served' = [served EXCEPT ![u] = @ + 1] /\ UNCHANGED <<cache, fetches>>
    BY <1>3 DEF Deploy
  <2>2. served' \in [Resources -> Nat \ {0}]
    BY <2>1 DEF WorkerInv
  <2>3. \A w \in Resources : 1..served[w] \subseteq 1..served'[w]
    BY <2>1 DEF WorkerInv
  <2>. QED
    BY <2>1, <2>2, <2>3 DEF WorkerInv, PutsAreServed, CachesAreServed
<1>4. ASSUME NEW u \in Resources, NEW f \in Fetches,
             staleWhileRevalidate(f, u) \/ networkFirst(f, u)
      PROVE  WorkerInv'
  <2>1. PICK c \in {Missing, cache[u]} :
          fetches' = [fetches EXCEPT ![f] =
            [at |-> "fetching", url |-> u, cached |-> c, version |-> Missing]]
    BY <1>4 DEF staleWhileRevalidate, networkFirst, NoFetch
  <2>2. UNCHANGED <<served, cache>>
    BY <1>4 DEF staleWhileRevalidate, networkFirst
  <2>3. [at |-> "fetching", url |-> u, cached |-> c, version |-> Missing] \in FetchType
    BY DEF FetchType, WorkerInv
  <2>. QED
    BY <2>1, <2>2, <2>3, FetchMoves
<1>5. ASSUME NEW f \in Fetches, FetchEnds(f) PROVE WorkerInv'
  <2> DEFINE url == fetches[f].url
  <2>1. fetches[f].at = "fetching" /\ url \in Resources /\ UNCHANGED <<served, cache>>
        /\ fetches[f] \in FetchType /\ served[url] \in Nat /\ served[url] \in 1..served[url]
    BY <1>5 DEF FetchEnds, WorkerInv, PutsAreServed
  <2>2. CASE network = "up"
    <3> DEFINE new == [fetches[f] EXCEPT !.at = "putting", !.version = served[url]]
    <3>1. fetches' = [fetches EXCEPT ![f] = new]
      BY <1>5, <2>2 DEF FetchEnds, Response
    <3>2. new \in FetchType /\ new.at = "putting" /\ new.url = url /\ new.version = served[url]
      BY <2>1 DEF FetchType
    <3>. QED
      BY <2>1, <3>1, <3>2, FetchMoves
  <2>3. CASE network # "up"
    <3>1. fetches' = [fetches EXCEPT ![f] = NoFetch]
      BY <1>5, <2>3 DEF FetchEnds
    <3>2. NoFetch \in FetchType /\ NoFetch.at = "none"
      BY DEF NoFetch, FetchType
    <3>. QED
      BY <2>1, <3>1, <3>2, FetchMoves
  <2>. QED
    BY <2>2, <2>3
<1>6. ASSUME NEW f \in Fetches, PutEnds(f) PROVE WorkerInv'
  <2>1. /\ fetches[f].at = "putting" /\ fetches' = [fetches EXCEPT ![f] = NoFetch]
        /\ cache' = [cache EXCEPT ![fetches[f].url] = fetches[f].version] /\ served' = served
    BY <1>6 DEF PutEnds
  <2>2. fetches[f].url \in Resources /\ fetches[f].version \in 1..served[fetches[f].url]
    BY <2>1 DEF WorkerInv, PutsAreServed
  <2>3. fetches[f].version \in Nat
    BY <2>2 DEF WorkerInv
  <2>4. NoFetch \in FetchType /\ NoFetch.at = "none"
    BY DEF NoFetch, FetchType
  <2>5. cache' \in [Resources -> {Missing} \union Nat] /\ CachesAreServed'
    BY <2>1, <2>2, <2>3 DEF WorkerInv, CachesAreServed
  <2>6. fetches' \in [Fetches -> FetchType] /\ PutsAreServed'
    BY <2>1, <2>4 DEF WorkerInv, PutsAreServed
  <2>. QED
    BY <2>1, <2>5, <2>6 DEF WorkerInv
<1>7. CASE UNCHANGED workerVars
  BY <1>7 DEF workerVars, WorkerInv, PutsAreServed, CachesAreServed
<1>. QED
  BY <1>1, <1>2, <1>3, <1>4, <1>5, <1>6, <1>7 DEF WorkerNext, Visit

-----------------------------------------------------------------------------
(* The uptime check *)

RequestType ==
  [promise: {"none", "pending", "settled"}, timer: {"off", "armed"},
   reply: {"none", "reachable", "unreachable"}]
CheckType == [at: {"none", "page", "health", "waiting"}, appOk: BOOLEAN]

UptimeTypes ==
  /\ app \in BOOLEAN
  /\ requests \in [1..MaxChecks -> RequestType]
  /\ check \in CheckType
  /\ run \in 0..MaxChecks
  /\ check.at # "none" => run \in 1..MaxChecks
  /\ trouble \in [1..MaxChecks -> SUBSET {"app", "rpc", "slow"}]

\* A run in progress has noted what is wrong now, a page that it did not get
\* and why its request was answered with a failure.
TroubleIsNoted ==
  /\ check.at # "none" => Wrong \subseteq trouble[run]
  /\ check.at \in {"health", "waiting"} /\ ~check.appOk => "app" \in trouble[run]
  /\ check.at = "waiting" /\ requests[run].reply = "unreachable" => trouble[run] # {}

UptimeInv == UptimeTypes /\ TroubleIsNoted

AlarmIsTrue ==
  alarm' # alarm =>
    \/ alarm'.reason = "app" /\ "app" \in trouble[run]
    \/ alarm'.reason = "rpc" /\ trouble[run] # {}

LEMMA UptimeInitInv == UptimeInit => UptimeInv
BY UptimeAssumption
   DEF UptimeInit, UptimeInv, UptimeTypes, TroubleIsNoted, NoRequest, NoCheck, RequestType, CheckType

\* What changes in the world while a run is in progress is noted.
LEMMA WorldChanges ==
  ASSUME UptimeInv, app' \in BOOLEAN, Noticed, UNCHANGED <<requests, check, run, alarm>>
  PROVE  UptimeInv'
<1> USE DEF UptimeInv, UptimeTypes, TroubleIsNoted
<1>1. Wrong' \subseteq {"app", "rpc"}
  BY DEF Wrong
<1>2. CASE check.at = "none"
  BY <1>2 DEF Noticed
<1>3. CASE check.at # "none"
  <2>1. trouble' = [trouble EXCEPT ![run] = @ \union Wrong'] /\ run \in 1..MaxChecks
    BY <1>3 DEF Noticed
  <2>2. trouble'[run] = trouble[run] \union Wrong'
        /\ trouble' \in [1..MaxChecks -> SUBSET {"app", "rpc", "slow"}]
    BY <1>1, <2>1
  <2>. QED
    BY <2>1, <2>2
<1>. QED
  BY <1>2, <1>3

\* A request that is answered as new: if it is of the run in progress and
\* comes to a failure, the run notes why.
LEMMA RequestMoves ==
  ASSUME UptimeInv, NEW k \in 1..MaxChecks, NEW new \in RequestType,
         NEW why \in SUBSET {"app", "rpc", "slow"},
         requests' = [requests EXCEPT ![k] = new],
         trouble' = [trouble EXCEPT ![k] = @ \union why],
         check.at = "waiting" /\ k = run /\ new.reply = "unreachable"
           => requests[k].reply = "unreachable" \/ trouble'[k] # {},
         UNCHANGED <<app, rpc, check, run, alarm>>
  PROVE  UptimeInv'
<1> USE DEF UptimeInv, UptimeTypes, TroubleIsNoted
<1>1. /\ requests' \in [1..MaxChecks -> RequestType]
      /\ trouble' \in [1..MaxChecks -> SUBSET {"app", "rpc", "slow"}]
  OBVIOUS
<1>2. \A m \in 1..MaxChecks : trouble[m] \subseteq trouble'[m]
  OBVIOUS
<1>3. check.at # "none" => trouble[run] \subseteq trouble'[run] /\ Wrong' = Wrong
  BY <1>2 DEF Wrong
<1>4. ASSUME check.at = "waiting", requests'[run].reply = "unreachable"
      PROVE  trouble'[run] # {}
  <2>1. CASE k = run
    BY <1>3, <1>4, <2>1
  <2>2. CASE k # run
    BY <1>3, <1>4, <2>2
  <2>. QED
    BY <2>1, <2>2
<1>. QED
  BY <1>1, <1>3, <1>4

LEMMA RepliedType ==
  ASSUME NEW request \in RequestType, NEW reply \in {"reachable", "unreachable"}
  PROVE  Replied(request, reply) \in RequestType
BY DEF Replied, RequestType

\* A run that has ended has nothing to note.
LEMMA CheckEnds ==
  ASSUME UptimeInv, check' = NoCheck, UNCHANGED <<app, rpc, requests, run, trouble>>
  PROVE  UptimeInv'
<1>1. check' \in CheckType /\ check'.at = "none"
  BY DEF NoCheck, CheckType
<1>. QED
  BY <1>1 DEF UptimeInv, UptimeTypes, TroubleIsNoted

LEMMA UptimeStep ==
  UptimeInv /\ [UptimeNext]_uptimeVars => UptimeInv' /\ AlarmIsTrue
<1> SUFFICES ASSUME UptimeInv, [UptimeNext]_uptimeVars
             PROVE  UptimeInv' /\ AlarmIsTrue
  OBVIOUS
<1>0. UptimeTypes /\ TroubleIsNoted
  BY DEF UptimeInv
<1>1. CASE AppChanges
  <2>1. app' \in BOOLEAN /\ Noticed /\ UNCHANGED <<requests, check, run, alarm>>
    BY <1>1 DEF AppChanges
  <2>. QED
    BY <2>1, WorldChanges DEF AlarmIsTrue
<1>2. CASE RpcChanges
  <2>1. app' \in BOOLEAN /\ Noticed /\ UNCHANGED <<requests, check, run, alarm>>
    BY <1>0, <1>2 DEF RpcChanges, UptimeTypes
  <2>. QED
    BY <2>1, WorldChanges DEF AlarmIsTrue
<1>3. CASE StartCheck
  <2>0. run < MaxChecks /\ run' = run + 1 /\ run \in 0..MaxChecks
    BY <1>0, <1>3 DEF StartCheck, UptimeTypes
  <2>1. /\ run' \in 1..MaxChecks
        /\ check' \in CheckType /\ check'.at = "page"
        /\ UNCHANGED <<app, rpc, requests, alarm>>
    <3>1. run' \in 1..MaxChecks
      BY <2>0, UptimeAssumption
    <3>2. check' = [at |-> "page", appOk |-> FALSE]
      BY <1>3 DEF StartCheck, NoCheck
    <3>3. check' \in CheckType /\ check'.at = "page"
      BY <3>2 DEF CheckType
    <3>. QED
      BY <1>3, <3>1, <3>3 DEF StartCheck
  <2>2. trouble' = [trouble EXCEPT ![run'] = @ \union Wrong']
    BY <1>3, <2>1 DEF StartCheck, Noticed
  <2>3. Wrong' \subseteq {"app", "rpc"}
    BY DEF Wrong
  <2>4. trouble'[run'] = trouble[run'] \union Wrong'
        /\ trouble' \in [1..MaxChecks -> SUBSET {"app", "rpc", "slow"}]
    BY <1>0, <2>1, <2>2, <2>3 DEF UptimeTypes
  <2>5. run' \in 0..MaxChecks
    BY <2>1, UptimeAssumption
  <2>. QED
    BY <1>0, <2>1, <2>4, <2>5 DEF UptimeInv, UptimeTypes, TroubleIsNoted, AlarmIsTrue
<1>4. CASE FetchPage
  <2>1. /\ check.at = "page" /\ check' = [at |-> "health", appOk |-> app]
        /\ UNCHANGED <<app, rpc, requests, run, alarm, trouble>>
    BY <1>4 DEF FetchPage
  <2>2. check' \in CheckType /\ check'.at = "health" /\ check'.appOk = app
    BY <1>0, <2>1 DEF CheckType, UptimeTypes
  <2>3. ~app => "app" \in trouble[run]
    BY <1>0, <2>1 DEF TroubleIsNoted, Wrong
  <2>4. UptimeTypes'
    BY <1>0, <2>1, <2>2 DEF UptimeTypes
  <2>5. TroubleIsNoted'
    BY <1>0, <2>1, <2>2, <2>3 DEF TroubleIsNoted, Wrong
  <2>. QED
    BY <2>1, <2>4, <2>5 DEF UptimeInv, AlarmIsTrue
<1>5. CASE FetchHealth
  <2> DEFINE request == [promise |-> "pending", timer |-> "armed", reply |-> "none"]
  <2>1. /\ check.at = "health" /\ run \in 1..MaxChecks
        /\ requests' = [requests EXCEPT ![run] = request]
        /\ check' = [check EXCEPT !.at = "waiting"]
        /\ UNCHANGED <<app, rpc, run, alarm, trouble>>
    BY <1>0, <1>5 DEF FetchHealth, UptimeTypes
  <2>2. check' \in CheckType /\ check'.at = "waiting" /\ check'.appOk = check.appOk
    BY <1>0, <2>1 DEF CheckType, UptimeTypes
  <2>3. request \in RequestType /\ request.reply = "none"
    BY DEF RequestType
  <2>4. requests' \in [1..MaxChecks -> RequestType] /\ requests'[run].reply = "none"
    BY <1>0, <2>1, <2>3 DEF UptimeTypes
  <2>5. UptimeTypes'
    BY <1>0, <2>1, <2>2, <2>4 DEF UptimeTypes
  <2>6. TroubleIsNoted'
    BY <1>0, <2>1, <2>2, <2>4 DEF TroubleIsNoted, Wrong
  <2>. QED
    BY <2>1, <2>5, <2>6 DEF UptimeInv, AlarmIsTrue
<1>6. ASSUME NEW k \in 1..MaxChecks, RpcReplies(k) PROVE UptimeInv' /\ AlarmIsTrue
  <2> DEFINE reply == IF rpc = "answers" THEN "reachable" ELSE "unreachable"
             new == [Replied(requests[k], reply) EXCEPT !.promise = "settled", !.timer = "off"]
  <2>1. requests' = [requests EXCEPT ![k] = new] /\ UNCHANGED <<app, rpc, check, run, alarm, trouble>>
    BY <1>6 DEF RpcReplies
  <2>2. Replied(requests[k], reply) \in RequestType
    BY <1>0, RepliedType DEF UptimeTypes
  <2>3. new \in RequestType /\ new.reply = Replied(requests[k], reply).reply
    BY <2>2 DEF RequestType
  <2>4. new.reply = "unreachable" => requests[k].reply = "unreachable" \/ rpc # "answers"
    BY <1>0, <2>3 DEF Replied, UptimeTypes, RequestType
  <2>5. trouble' = [trouble EXCEPT ![k] = @ \union {}]
    BY <1>0, <2>1 DEF UptimeTypes
  <2>6. check.at = "waiting" /\ k = run /\ rpc # "answers" => trouble[k] # {}
    BY <1>0 DEF TroubleIsNoted, Wrong
  <2>. QED
    BY <2>1, <2>3, <2>4, <2>5, <2>6, RequestMoves DEF AlarmIsTrue
<1>7. ASSUME NEW k \in 1..MaxChecks, Timeout(k) PROVE UptimeInv' /\ AlarmIsTrue
  <2> DEFINE new == [Replied(requests[k], "unreachable") EXCEPT !.timer = "off"]
  <2>1. /\ requests' = [requests EXCEPT ![k] = new]
        /\ trouble' = [trouble EXCEPT ![k] = @ \union {"slow"}]
        /\ UNCHANGED <<app, rpc, check, run, alarm>>
    BY <1>7 DEF Timeout
  <2>2. Replied(requests[k], "unreachable") \in RequestType
    BY <1>0, RepliedType DEF UptimeTypes
  <2>3. new \in RequestType
    BY <2>2 DEF RequestType
  <2>4. trouble'[k] # {}
    BY <1>0, <2>1 DEF UptimeTypes
  <2>. QED
    BY <2>1, <2>3, <2>4, RequestMoves DEF AlarmIsTrue
<1>8. CASE HealthUnreachable
  <2>1. /\ check.at \in {"health", "waiting"} /\ ~app
        /\ alarm' = [reason |-> IF check.appOk THEN "rpc" ELSE "app", run |-> run]
        /\ check' = NoCheck /\ UNCHANGED <<app, rpc, requests, run, trouble>>
    BY <1>8 DEF HealthUnreachable, Escalate, RunEnds
  <2>2. "app" \in trouble[run]
    BY <1>0, <2>1 DEF TroubleIsNoted, Wrong
  <2>3. AlarmIsTrue
    BY <2>1, <2>2 DEF AlarmIsTrue
  <2>. QED
    BY <2>1, <2>3, CheckEnds
<1>9. CASE Judge
  <2>1. /\ check.at = "waiting" /\ requests[run].reply # "none"
        /\ \/ alarm' = alarm
           \/ /\ ~(check.appOk /\ requests[run].reply = "reachable")
              /\ alarm' = [reason |-> IF check.appOk THEN "rpc" ELSE "app", run |-> run]
        /\ check' = NoCheck /\ UNCHANGED <<app, rpc, requests, run, trouble>>
    BY <1>9 DEF Judge, Escalate, RunEnds
  <2>2. run \in 1..MaxChecks /\ requests[run] \in RequestType
    BY <1>0, <2>1 DEF UptimeTypes
  <2>3. requests[run].reply \in {"reachable", "unreachable"}
    BY <2>1, <2>2 DEF RequestType
  <2>4. AlarmIsTrue
    BY <1>0, <2>1, <2>3 DEF AlarmIsTrue, TroubleIsNoted
  <2>. QED
    BY <2>1, <2>4, CheckEnds
<1>10. CASE UNCHANGED uptimeVars
  BY <1>0, <1>10 DEF uptimeVars, UptimeInv, UptimeTypes, TroubleIsNoted, Wrong, AlarmIsTrue
<1>. QED
  BY <1>1, <1>2, <1>3, <1>4, <1>5, <1>6, <1>7, <1>8, <1>9, <1>10 DEF UptimeNext

-----------------------------------------------------------------------------
(* The parts side by side *)

AccessInv ==
  /\ LimiterInv /\ RpcInv /\ SubmitInv
  /\ ReloadKeepsChoices /\ WorkerInv /\ UptimeInv

LEMMA AccessInitInv == Init => AccessInv
BY LimiterInitInv, RpcInitInv, SubmitInitInv, ProviderInitInv, WorkerInitInv, UptimeInitInv
   DEF Init, AccessInv

\* A step is a step of each part, or leaves it alone.
LEMMA StepOfParts ==
  [Next]_vars =>
    /\ [LimiterNext]_limiterVars /\ [RpcNext]_rpcVars /\ [SubmitNext]_submitVars
    /\ [ProviderNext]_endpointVars /\ [WorkerNext]_workerVars /\ [UptimeNext]_uptimeVars
BY DEF Next, vars, callVars, siteVars

LEMMA AccessNextInv == AccessInv /\ [Next]_vars => AccessInv'
BY StepOfParts, LimiterNextInv, RpcNextInv, SubmitNextInv, ProviderNextInv, WorkerNextInv, UptimeStep
   DEF AccessInv

LEMMA AccessInvHolds == Spec => []AccessInv
BY AccessInitInv, AccessNextInv, PTL DEF Spec

\* Whichever part moves, each is sound by itself: the callers of the limiter
\* are served in order, no breaker is half open, a success was applied, a
\* reload brings the user's choices back, and the caches of the service
\* worker hold only what was deployed.
THEOREM AccessIsAlwaysSound == Spec => []AccessIsSound
<1>1. AccessInv => AccessIsSound
  BY CapacityAssumption
     DEF AccessInv, AccessIsSound, LimiterInv, Waiting, ServedInOrder, RpcInv, SubmitInv, WorkerInv
<1>. QED
  BY <1>1, AccessInvHolds, PTL

\* The escalation of uptime-check.yml: for any number of runs, cancelled or
\* not, an alarm names what was wrong during its run, a request of its own
\* that was not answered in time included.
THEOREM AlarmsAreAlwaysTrue == Spec => AlarmsAreTrue
<1>1. AccessInv /\ [Next]_vars =>
        [alarm' # alarm =>
           \/ alarm'.reason = "app" /\ "app" \in trouble[run]
           \/ alarm'.reason = "rpc" /\ trouble[run] # {}]_uptimeVars
  BY StepOfParts, UptimeStep DEF AccessInv, AlarmIsTrue
<1>. QED
  BY <1>1, AccessInvHolds, PTL DEF Spec, AlarmsAreTrue
=============================================================================
