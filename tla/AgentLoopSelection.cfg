CONSTANTS
  HistoryKeep = 3
  HistoryMaxItems = 7
  HistoryCharBudget = 9
  NoRecipe = NoRecipe
  NoId = NoId
  Runs = {r1, r2, r3}
  Dishes = {d1, d2}
  NoDish = NoDish
  Questions = {q1}
  Tools = {search}
  PlanWithheld = {search}
  BadCall = BadCall
  MoveTos = {"clarify", "plan"}
  MaxSteps = 3
  MaxTools = 1
  MaxBatch = 1
  MaxActs = 2
SPECIFICATION Spec
SYMMETRY RunSymmetry
PROPERTIES
  SelectedDishGetsItsPlan
