SPECIFICATION Spec
CONSTANTS
  Kinds = {"http.request", "turn.completed"}
  Script <- TwoLines
  Scenario = TRUE
  ModelNamed = TRUE
  MaxTime = 1
  MaxFaults = 1
  Count = 3
  Parallel = 2
  TrialOutcomes <- TwoOutcomes
  LedgerFaults = 1
  x1 = x1
  x2 = x2
  x3 = x3
  Exchanges = {x1, x2, x3}
  PlaneOf <- OneDocument
  MaxConcurrent = 2
  MaxRun = 2
  MaxBurst = 2
  SinkFaults = 1
  MaxServers = 3
  MaxLive = 2
  MaxServed = 2
INVARIANTS
  
  VerdictIsEarned
  NothingSurvives
  ResultIsTrue
  BatchAccounts
  
  ServeIsAccountable
PROPERTIES
  LedgerCloses
  
  EverythingEnds
CHECK_DEADLOCK FALSE
