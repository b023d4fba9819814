SPECIFICATION Spec
CONSTANTS
  n1 = n1
  n2 = n2
  s1 = s1
  v1 = v1
  v2 = v2
  strict = strict
  functional = functional
  c1 = c1
  NULL = NULL
  NoOne = NoOne
  Jobs = {j1, j2}
  DirCount = 2
  TrialNames = {n1, n2}
  SystemKeys = {s1}
  Setups = {v1, v2}
  Dimensions = {strict, functional}
  StrictPassKey = strict
  Checks = {c1}
  Costs = {1, 2}
  JobContents <- SetupContents
  Scopes <- SingleScopes
  Ingesters = {p1}
  Readers = {r1, r2}
  MaxList = 1
  MaxIngests = 2
  MaxRewrites = 0
INVARIANT RegeneratedReportIsSame
CHECK_DEADLOCK FALSE
