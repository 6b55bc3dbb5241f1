SPECIFICATION Spec
\* Runs of the workflows are bounded: a part of the automation may end.
CHECK_DEADLOCK FALSE
CONSTANTS
  Parts = {"automerge", "baseline", "flakes", "alerts", "audit"}
  Exempt = {"next"}
  Expected = {"ci"}
  Unreadable = Unreadable
  Unknown = Unknown
  Base <- MCBase
  Contents <- MCContents
  Checks = {"ci", "lint"}
  Required = {"lint"}
  MaxCommits = 2
  Users = {"ann", "bob", "eve"}
  Author = "ann"
  Writers = {"bob"}
  Associates = {"ann", "bob"}
  MaxPushes = 2
  MaxReviews = 2
  Tests = {"t1"}
  WindowRuns = 2
  RunsKept = 3
  StaleAfter = 2
  MinObservations = 2
  RateOneIn = 2
  MaxRuns = 4
  MaxQuarantines = 1
  ErrorSamples <- MCErrorSamples
  VitalsSamples <- MCVitalsSamples
  NoBaseline = NoBaseline
  Packages = {"p", "q"}
  Advisories <- MCAdvisories
  AnyPackage = AnyPackage
  NoAnswer = NoAnswer
  Days = 2
  MaxExceptions = 1
INVARIANTS ArmedIsSafe HeadIsJudged GreenIsApproved HistoryIsTrue
PROPERTIES NoPermanentQuarantine WorseStillFires GreenIsEarned
