CONSTANTS
  Sessions = {s1}
  Keys = {k1, k2}
  Answers = {a1}
  MaxSlots = 1
  NoRow = NoRow
  Clients = {c1, c2, c3}
  NoClient = NoClient
  FnPhases = {"clarify", "plan"}
  AnswerCap = 1
  MaxOps = 4
SPECIFICATION FairSpec
INVARIANTS
  TypeOK
  SnapshotIsCurrent
  SeqNeverCollides
  ClaimsAllowed
  ReadNotBehind
PROPERTIES
  RefinesLedger
  OperationsEnd
