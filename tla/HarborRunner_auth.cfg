SPECIFICATION Spec
CONSTANTS
  MaxLaunches = 1
  MaxOut <- TwoOnStderr
  Says <- AnyText
  NoTimeout = NoTimeout
  Timeouts = {NoTimeout}
  Interval = 2
  TailSize = 1
  HeadSize = 1
  Results <- NoScore
INVARIANTS
  AuthSignalStopsRun
CHECK_DEADLOCK FALSE
