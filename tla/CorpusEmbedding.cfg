CONSTANTS
  Recipes = {r1}
  Techniques = {c1}
  RecipeDirs = {d1, d2}
  TechniqueDirs = {t1}
  Sweepers = {w1}
  Versions = {1, 2}
  SendsPerChunk = 2
  SweepCeiling = 2
  Oversized = {2}
  MayRevert = FALSE
  None = None
SPECIFICATION CorpusSpec
INVARIANTS
  MissingIsEmbedded
