SPECIFICATION BothSpec
CONSTANTS
  Parts = {"feed"}
  cA = cA
  cB = cB
  t1 = t1
  None = None
  Contracts = {cA, cB}
  TxIds = {t1}
  MockIds = {}
  MaxEvents = 2
  Cap = 2
  MaxSwitches = 0
  a = a
  b = b
  c = c
  Refs = {a, b, c}
  NoRef = NoRef
  Window = 1
  Cooldown = 2
  MaxConsecutive = 1
  SaysPrevious <- Always
  Skew = 1
  MaxTime = 4
INVARIANT KnownRowsFollowStatus
