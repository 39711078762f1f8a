CONSTANTS
  r1 = r1
  r2 = r2
  roast = roast
  satay = satay
  nuts = nuts
  vegan = vegan
  NoDish = NoDish
  Recipes <- MCRecipes
  Diets = {vegan}
  Allergens = {nuts}
  Breaks <- MCBreaks
  Unsure <- MCUnsure
  SaysFree = {}
  Raw <- MCRaw
  Length <- MCLength
  Long <- MCLong
  DirectionsShown = 1
  MaxDirectionsRange = 1
  MessageKeep = 1
  EpicureEnabled = TRUE
  Runs = {r1, r2}
  Proposals <- MCProposals
  Calls <- MCCalls
  Spoken = {"unnamed", "pairing"}
  Hits <- MCHits
  Sessions <- MCSessions
  MaxMessages = 1
  MaxStarts = 2
  MaxActs = 2
  MaxLost = 1
  MaxCalls = 3
  butter = butter
  buttermilk = buttermilk
  sugar = sugar
  milk = milk
  soft = soft
  of_ = of_
  oil = oil
  salt = salt
  prep = prep
  cup = cup
  ml = ml
  box = box
  MeasureUnits = {cup, ml}
  EquipmentWords = {}
  FunctionWords = {of_}
  ContainerWords = {box}
  NumberWords = {}
  DescriptorWords = {soft, prep}
  PrepWords = {prep, soft}
  Alike <- MCAlike
  Glued <- MCGlued
  Remainder <- MCRemainder
  Nobody = Nobody
SPECIFICATION Spec
PROPERTIES
  OptionsRespectRow
  PlanOnEvidence
CHECK_DEADLOCK FALSE
