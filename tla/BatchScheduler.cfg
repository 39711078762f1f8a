CONSTANTS
  f1 = f1
  f2 = f2
  s1 = s1
  s2 = s2
  Fresh = {f1, f2}
  Retries = {r1, r2, r3}
  Source = {s1, s2}
  SourcesOf <- TwoRuns
  NoRun = NoRun
  RetryLimit = 2
  Answers = {"accepted", "rejected_validation", "settled", "request_error"}
  Workers = {w1, w2}
  NoWorker = NoWorker
  Seed <- InOrder
  MaxInFlight = 2
  Ceilings = {1, 2}
  Faults = {"upload", "create", "answer", "query", "collect", "finalize", "review", "merge", "flag", "version", "crash"}
  Loaded = {f1, r1}
  MaxFaults = 1
  Texts = {1, 2}
  Units = {"g", "count", "container"}
  None = None
  Bad = Bad
SPECIFICATION FairSpec
INVARIANTS
  TypeOK
  
  
  RowsAgree
  
PROPERTIES
  NothingSentPastFailedReview
  
