SPECIFICATION FairSpec
CONSTANTS
  t1 = t1
  t2 = t2
  proc1 = proc1
  proc2 = proc2
  NoTrial = NoTrial
  Absent = Absent
  Trials = {t1}
  Procs = {proc1, proc2}
  Rank <- RankInOrder
  MaxInfraRetries = 1
  MaxBudget = 2
  Verdicts = {"passed", "infra_invalid"}
  Costs = {2}
  MaxDirs = 1
  MaxFaults = 1
INVARIANTS
  FileIsWhole
PROPERTIES
  RaceSettles
