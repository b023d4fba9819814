SPECIFICATION Spec
CONSTANTS
  p1 = p1
  p2 = p2
  c1 = c1
  c2 = c2
  original = original
  changed = changed
  terra = terra
  luna = luna
  nick = nick
  NULL = NULL
  Paths = {p1, p2}
  TaskName <- OneName
  Commits = {c1, c2}
  Contents = {original, changed}
  Committed <- TwoCommits
  Keys = {terra, luna}
  Names = {nick}
  Documents <- FourDocuments
  Histories <- TwoHistories
  MaxEdits = 2
  MaxSpent = 3
INVARIANTS
  TypeOK
  ExecutesFrozenPlan
  TasksAreAsPlanned
  OfficialIsCommitted
  SpendingIsAllowed
  EstimateCoversTrials
  TrialsAreDistinct
CHECK_DEADLOCK FALSE
