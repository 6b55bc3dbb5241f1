SPECIFICATION FairSpec
CONSTANTS
  c1 = c1
  c2 = c2
  Canaries <- Both
  Broken <- OnlySecond
  Old = Old
  NoDeployment = NoDeployment
  Stages = 2
  Bake = 1
  MaxStage = 1
  ConsecutiveFailures = 2
  Window = 3
  MinProbes = 2
  FailedNum = 1
  FailedDen = 2
  MaxRate = 0
  RateRatio = 1
  Good = 0
  Poor = 1
  VitalRatio = 1
  Levels = {0, 1}
PROPERTIES StageIsBaked BrokenNeverAdvances RolloutEnds
