CONSTANTS
  Sessions = {s1, s2}
  NoSession = NoSession
  AgentRuns = {r1, r2}
  Calls = {c1, c2}
  MaxSlots = 1
  MaxToggles = 1
SPECIFICATION FairSearchSpec
INVARIANTS
  SearchTypeOK
  SearchesOnRecord
PROPERTIES
  CallEnds
