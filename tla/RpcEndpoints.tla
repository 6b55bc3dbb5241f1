---------------------------- MODULE RpcEndpoints ----------------------------
(***************************************************************************)
(* The endpoint manager of lib/soroban/contract.ts: a circuit breaker for  *)
(* each RPC endpoint, fed by health probes that are started on a timer and *)
(* may overlap, so that answers arrive in any order.                       *)
(***************************************************************************)
EXTENDS Integers, FiniteSets

CONSTANTS
  EndpointCount,    \* endpoints are numbered by priority
  Probes,           \* probes in flight
  Cooldown,         \* ENDPOINT_COOLDOWN_MS
  MaxTime           \* bound on the clock

FailureThreshold == 2

ASSUME EndpointAssumption == EndpointCount \in Nat \ {0} /\ Cooldown \in Nat /\ MaxTime \in Nat

VARIABLES
  now,
  up,               \* the endpoint answers
  healthy, consecutiveFailures, trippedUntil,
  probe,            \* [Probes -> [url, started, answer]]
  checking          \* startHealthChecks() was called

breakers == <<healthy, consecutiveFailures, trippedUntil>>
rpcVars == <<now, up, breakers, probe, checking>>

Endpoints == 1..EndpointCount
NoProbe == [url |-> 0, started |-> 0, answer |-> "none"]

RpcInit ==
  /\ now = 0
  /\ up = [e \in Endpoints |-> TRUE]
  /\ healthy = [e \in Endpoints |-> TRUE]
  /\ consecutiveFailures = [e \in Endpoints |-> 0]
  /\ trippedUntil = [e \in Endpoints |-> 0]
  /\ probe = [p \in Probes |-> NoProbe]
  /\ checking = FALSE

Eligible == {e \in Endpoints : healthy[e] /\ (trippedUntil[e] = 0 \/ now >= trippedUntil[e])}
\* selectEndpoint(): priorities differ, so the latency never decides.
selectEndpoint ==
  IF Eligible = {} THEN 1 ELSE CHOOSE e \in Eligible : \A f \in Eligible : e <= f

RpcTimePasses ==
  /\ now < MaxTime
  /\ now' = now + 1
  /\ UNCHANGED <<up, breakers, probe, checking>>

EndpointChanges(e) ==
  /\ up' = [up EXCEPT ![e] = ~up[e]]
  /\ UNCHANGED <<now, breakers, probe, checking>>

SetHealthChecks ==
  /\ checking' = ~checking
  /\ UNCHANGED <<now, up, breakers, probe>>

\* checkEndpoint() of a round of checks is sent.
StartProbe(p, e) ==
  /\ checking
  /\ probe[p].url = 0
  /\ probe' = [probe EXCEPT ![p] = [url |-> e, started |-> now, answer |-> "none"]]
  /\ UNCHANGED <<now, up, breakers, checking>>

\* The endpoint answers, or does not; the answer is on its way.
ProbeReaches(p) ==
  /\ probe[p].url # 0 /\ probe[p].answer = "none"
  /\ probe' = [probe EXCEPT ![p].answer = IF up[probe[p].url] THEN "ok" ELSE "failed"]
  /\ UNCHANGED <<now, up, breakers, checking>>

recordFailureForgets(e, at) ==
  /\ consecutiveFailures' = [consecutiveFailures EXCEPT ![e] = 1]
  /\ healthy' = [healthy EXCEPT ![e] = @ /\ consecutiveFailures[e] = 0]
  /\ trippedUntil' = [trippedUntil EXCEPT ![e] = at + Cooldown]
\* The counter stops at the threshold: beyond it nothing changes.
recordFailure(e, at) ==
  LET failures == IF consecutiveFailures[e] < FailureThreshold
                    THEN consecutiveFailures[e] + 1 ELSE FailureThreshold
  IN  /\ consecutiveFailures' = [consecutiveFailures EXCEPT ![e] = failures]
      /\ IF failures = FailureThreshold
           THEN /\ healthy' = [healthy EXCEPT ![e] = FALSE]
                /\ trippedUntil' = [trippedUntil EXCEPT ![e] = at + Cooldown]
           ELSE UNCHANGED <<healthy, trippedUntil>>

recordSuccessUntrips(e) ==
  /\ consecutiveFailures' = [consecutiveFailures EXCEPT ![e] = 0]
  /\ trippedUntil' = [trippedUntil EXCEPT ![e] = 0]
  /\ UNCHANGED healthy
recordSuccess(e) ==
  /\ healthy' = [healthy EXCEPT ![e] = TRUE]
  /\ consecutiveFailures' = [consecutiveFailures EXCEPT ![e] = 0]
  /\ trippedUntil' = [trippedUntil EXCEPT ![e] = 0]

\* The failure is recorded with the time at which the probe was started.
ProbeEnds(p) ==
  /\ \/ probe[p].answer = "ok" /\ recordSuccess(probe[p].url)
     \/ probe[p].answer = "failed" /\ recordFailure(probe[p].url, probe[p].started)
  /\ probe' = [probe EXCEPT ![p] = NoProbe]
  /\ UNCHANGED <<now, up, checking>>

RpcNext ==
  \/ RpcTimePasses \/ SetHealthChecks
  \/ \E e \in Endpoints : EndpointChanges(e) \/ \E p \in Probes : StartProbe(p, e)
  \/ \E p \in Probes : ProbeReaches(p) \/ ProbeEnds(p)

RpcSpec == RpcInit /\ [][RpcNext]_rpcVars

\* Requests come to an end, and a running timer probes every endpoint.
RpcFairness ==
  /\ \A p \in Probes : WF_rpcVars(ProbeReaches(p)) /\ WF_rpcVars(ProbeEnds(p))
  /\ \A e \in Endpoints : SF_rpcVars(\E p \in Probes : StartProbe(p, e))

-----------------------------------------------------------------------------
(***************************************************************************)
(* Properties.                                                             *)
(***************************************************************************)

\* The variables have their types.
RpcTypeOK ==
  /\ now \in 0..MaxTime /\ checking \in BOOLEAN
  /\ up \in [Endpoints -> BOOLEAN] /\ healthy \in [Endpoints -> BOOLEAN]
  /\ consecutiveFailures \in [Endpoints -> 0..FailureThreshold]
  /\ trippedUntil \in [Endpoints -> 0..MaxTime + Cooldown]
  /\ probe \in [Probes -> [url: {0} \union Endpoints, started: 0..MaxTime,
                            answer: {"none", "ok", "failed"}]]

\* In whatever order overlapping probes answer, an endpoint is out of use
\* exactly after two failures without a success between them, and only then
\* is it tripped: no answer leaves a half-open breaker.
BreakerIsCoherent ==
  \A e \in Endpoints :
    /\ healthy[e] <=> consecutiveFailures[e] < FailureThreshold
    /\ healthy[e] => trippedUntil[e] = 0

\* Failback: once the first endpoint answers for good, and the checks go on,
\* it is the one that is selected, whatever late failures still arrive.
FailsBack == <>[](checking /\ up[1]) => <>[](selectEndpoint = 1)
=============================================================================
