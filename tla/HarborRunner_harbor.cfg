SPECIFICATION FairSpec
CONSTANTS
  MaxLaunches = 2
  MaxOut <- TwoOnStdout
  Says <- Signals
  NoTimeout = NoTimeout
  Timeouts = {1, NoTimeout}
  Interval = 2
  TailSize = 1
  HeadSize = 1
  Results <- AnyScore
INVARIANTS
  TypeOK
  NoHarborLeftBehind
  CapturedIsComplete
  VerdictIsTheResults
  HeartbeatIsFresh
PROPERTIES
  RunTrialEnds
CHECK_DEADLOCK FALSE
