CONSTANTS
  r1 = r1
  r2 = r2
  Recipes = {r1, r2}
  NoRecipe = NoRecipe
  QueueSizes = {5, 11}
  Corpora <- TwoRecipes
  Failures = {"timeout", "length", "invalid_response", "local"}
  MaxChanges = 1
  MaxRetries = 1
  milk = milk
  chicken = chicken
  egg = egg
  coconut_milk = coconut_milk
  vegan = vegan
  keto = keto
  None = None
  Words = {milk, chicken, egg}
  Phrases = {coconut_milk}
  Diets = {vegan}
  Restrictions = {vegan, keto}
  Prohibited <- OneList
SPECIFICATION FairSpec
INVARIANTS
  TypeOK
  StreamContract
  TelemetryTruthful
PROPERTIES
  
  StreamEnds
CHECK_DEADLOCK FALSE
