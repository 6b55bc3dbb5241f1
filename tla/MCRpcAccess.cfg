SPECIFICATION Spec
\* Calls and tries are bounded: two of the parts end.
CHECK_DEADLOCK FALSE
CONSTANTS
  call1 = call1
  call2 = call2
  r1 = r1
  r2 = r2
  r3 = r3
  Parts = {"limiter", "rpc", "submit", "provider", "worker", "uptime", "queue"}
  Capacity = 2
  IntervalSteps = 2
  MaxCalls = 6
  EndpointCount = 2
  Probes = {call1, call2}
  Cooldown = 1
  MaxTime = 1
  Tries = {1, 2, 3}
  Urls = {"u1", "u2"}
  Networks = {"test", "public"}
  Expected = "test"
  NoNetwork = NoNetwork
  ContractIds = {"C1", "C2", "C3"}
  DefaultContract = "C1"
  NoContract = NoContract
  NoUrl = NoUrl
  Validations = {call1, call2}
  Assets = {"/"}
  Data = {"health"}
  Fetches = {call1, call2}
  MaxVersion = 2
  Missing = Missing
  MaxChecks = 2
  Requests = {r1, r2, r3}
  Nobody = Nobody
  MaxDepth = 3
INVARIANTS AccessIsSound OneBucketAhead InvocationTakesEffectOnce PromiseTellsOutcome
PROPERTIES WaitersAreServed FailsBack FreshInTheEnd AlarmsAreRight
  OutcomeIsFinal ServesSerially EveryRequestEnds
