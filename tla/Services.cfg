SPECIFICATION Spec
CONSTANTS
  PolicyFor <- TwoPolicies
  Queries <- SomeQueries
  NoKey = NoKey
  NoQuery = NoQuery
  NoReply = NoReply
  Forever = Forever
  MaxClock = 1
  MaxRuns = 3
  Rules <- SomeRules
  Sample <- SomeSamples
  RuleOperations = {"op"}
  MaxEvaluations = 4
  Operations = {"create", "list"}
  Keyed = {"create"}
  Strikes = {2}
  Fixtures <- OneFixture
  DeclaredTime = 0
  MaxWorlds = 2
  MaxDocuments = 1
  MaxInputs = 3
  w1 = w1
  w2 = w2
  Writers = {w1, w2}
  Absent = Absent
  r1 = r1
  r2 = r2
  r3 = r3
  Requests = {r1, r2}
  Serialized = FALSE
  Disconnects = TRUE
  c1 = c1
  c2 = c2
  Calls = {c1, c2}
  Create = Create
  Close = Close
  None = None
  Sends = {1, 2, 3, 4, 5}
  ControlOf <- SomeSends
  QueueLimit = 2
  RecordFaults = 1
  j1 = j1
  j2 = j2
  j3 = j3
  Jobs = {j1, j2, j3}
  SchemaOf <- TwoSchemas
  NoSchema = NoSchema
  NoJob = NoJob
  Oversized = {"large"}
  WorkerCount = 2
  MaxPending = 1
  MaxBundles = 1
INVARIANTS
  CacheIsTrue
  FaultsAreRecorded
  ForksContinue
  PublishedIsWhole
  ControlsTakeEffectOnce
  JobsAreServed
  TraceIsTrue
  Correlated
PROPERTIES
  EverythingEnds
CHECK_DEADLOCK FALSE
