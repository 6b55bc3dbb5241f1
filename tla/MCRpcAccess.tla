---------------------------- MODULE MCRpcAccess ----------------------------
(* The parts of the way to the network that do not touch one another       *)
(* (nothing in the repository joins them yet), side by side: one moves and *)
(* the others rest, so that the states are the sum of theirs.              *)
EXTENDS RateLimiter, RpcEndpoints, Submission, SorobanEndpoints, ServiceWorker, Uptime,
        SigningQueue

CONSTANTS Parts, call1, call2, r1, r2, r3
VARIABLE part

workerRest == part = "worker" \/ ~oldCaches
providerRest == part = "provider" \/ storageOpen

Init ==
  /\ part \in Parts
  /\ LimiterInit
  /\ RpcInit
  /\ SubmitInit
  /\ ProviderInit /\ providerRest
  /\ WorkerInit /\ workerRest
  /\ UptimeInit
  /\ QueueInit

callVars == <<limiterVars, rpcVars, submitVars>>
siteVars == <<endpointVars, workerVars, uptimeVars>>
vars == <<part, callVars, siteVars, queueVars>>

Next ==
  \/ part = "limiter" /\ LimiterNext
     /\ UNCHANGED <<part, rpcVars, submitVars, siteVars, queueVars>>
  \/ part = "rpc" /\ RpcNext
     /\ UNCHANGED <<part, limiterVars, submitVars, siteVars, queueVars>>
  \/ part = "submit" /\ SubmitNext
     /\ UNCHANGED <<part, limiterVars, rpcVars, siteVars, queueVars>>
  \/ part = "provider" /\ ProviderNext
     /\ UNCHANGED <<part, callVars, workerVars, uptimeVars, queueVars>>
  \/ part = "worker" /\ WorkerNext
     /\ UNCHANGED <<part, callVars, endpointVars, uptimeVars, queueVars>>
  \/ part = "uptime" /\ UptimeNext
     /\ UNCHANGED <<part, callVars, endpointVars, workerVars, queueVars>>
  \/ part = "queue" /\ QueueNext
     /\ UNCHANGED <<part, callVars, siteVars>>

\* The timer of the limiter runs only where the limiter is the part that moves.
Spec ==
  /\ Init /\ [][Next]_vars
  /\ WF_limiterVars(part = "limiter" /\ Refill)
  /\ WF_limiterVars(part = "limiter" /\ IntervalGoesOn)
  /\ RpcFairness /\ WorkerFairness /\ UptimeFairness /\ QueueFairness

\* Each part has its types and is sound by itself: callers are served in
\* order, no breaker is half open, a success was applied, a reload brings the
\* choices back and no error page is cached.
AccessIsSound ==
  /\ LimiterTypeOK /\ ServedInOrder
  /\ RpcTypeOK /\ BreakerIsCoherent
  /\ SuccessIsApplied
  /\ ReloadKeepsChoices
  /\ CachesAreServed
=============================================================================
