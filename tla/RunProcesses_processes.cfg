SPECIFICATION Spec
CONSTANTS
  t1 = t1
  t2 = t2
  proc1 = proc1
  proc2 = proc2
  NoTrial = NoTrial
  Absent = Absent
  Trials = {t1, t2}
  Procs = {proc1, proc2}
  Rank <- RankInOrder
  MaxInfraRetries = 0
  MaxBudget = 3
  Verdicts = {"passed", "infra_invalid"}
  Costs = {2}
  MaxDirs = 2
  MaxFaults = 1
SYMMETRY Interchangeable
INVARIANTS
  TypeOK
  AtMostOneRunning
  IngestedHasRow
  CostIsSpent
