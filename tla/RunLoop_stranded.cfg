SPECIFICATION FairSpec
CONSTANTS
  t1 = t1
  t2 = t2
  Trials = {t1, t2}
  NoTrial = NoTrial
  PlanRank <- PlanPosition
  IdRank <- IdPosition
  MaxInfraRetries = 1
  MaxBudget = 1
  HasEstimate = TRUE
  Costs = {1, 2}
  MaxFaults = 1
PROPERTIES
  NoTrialStranded
