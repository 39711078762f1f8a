CONSTANTS
  t1 = t1
  t2 = t2
  Turn = Turn
  Tools <- MCTools
  Callers <- MCCallers
  Cost <- MCCost
  Scenarios <- MCScenarios
  Ceilings = {3}
  NoLimit = NoLimit
  Limits = {NoLimit, 1}
  PoolCap = 3
  CampaignCap = 2
  MaxPerSession = 2
  MaxAttempts = 2
  FirstTurn = 1
  MaxTurns = 1
  MaxRuns = 2
  MaxOverruns = 1
SPECIFICATION FairSpec
INVARIANTS
  TypeOK
  LedgerBalances
  
PROPERTIES
  
  RunsEnd
