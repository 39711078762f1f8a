CONSTANTS
  Sessions = {s1, s2}
  NoSession = NoSession
  AgentRuns = {r1, r2}
  Calls = {c1}
  MaxSlots = 1
  MaxToggles = 0
SPECIFICATION SearchSpec
INVARIANTS
  OwnSession
