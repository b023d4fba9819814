SPECIFICATION FairSpec
CONSTANTS
  t1 = t1
  t2 = t2
  Trials = {t1, t2}
  NoTrial = NoTrial
  PlanRank <- PlanPosition
  IdRank <- IdPosition
  MaxInfraRetries = 1
  MaxBudget = 3
  HasEstimate = TRUE
  Costs = {0, 2}
  MaxFaults = 1
INVARIANTS
  TypeOK
  OnlyInFlightUnsaved
  AtMostOneRunning
  LoggedIsDurable
  CostAccounting
  OvershootBounded
  AttemptsBounded
  IngestedAgreesWithStore
  FinishedRunIsReported
  FreshRunKeepsPlanOrder
PROPERTIES
  RefinesLedger
  InvocationEnds
  RunSettles
