SPECIFICATION FairSpec
CONSTANTS
  c1 = c1
  c2 = c2
  None = None
  Chains <- MCTwo
  MaxEvents = 3
  PageSize = 2
  Recognised <- MCRecognised
INVARIANTS ExactlyOnce HealthIsTrue
PROPERTIES KeepsPolling StopQuiesces
