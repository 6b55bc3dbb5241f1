SPECIFICATION BothSpec
CONSTANTS
  Parts = {"rollback"}
  cA = cA
  cB = cB
  t1 = t1
  None = None
  Contracts = {cA, cB}
  TxIds = {t1}
  MockIds = {}
  MaxEvents = 3
  Cap = 2
  MaxSwitches = 2
  a = a
  b = b
  c = c
  Refs = {a, b, c}
  NoRef = NoRef
  Window = 1
  Cooldown = 2
  MaxConsecutive = 1
  SaysPrevious <- Optional
  Skew = 1
  MaxTime = 4
SYMMETRY Symmetry
INVARIANT TargetNotWithdrawn
