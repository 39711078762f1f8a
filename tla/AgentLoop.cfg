CONSTANTS
  HistoryKeep = 3
  HistoryMaxItems = 7
  HistoryCharBudget = 9
  NoRecipe = NoRecipe
  NoId = NoId
  Runs = {r1}
  Dishes = {d1}
  NoDish = NoDish
  Questions = {q1}
  Tools = {search, fetch}
  PlanWithheld = {search}
  BadCall = BadCall
  MoveTos = {"research", "plan"}
  MaxSteps = 6
  MaxTools = 4
  MaxBatch = 2
  MaxActs = 0
SPECIFICATION FairSpec
INVARIANTS
  TypeOK
  RecoveryReported
PROPERTIES
  RunEnds
