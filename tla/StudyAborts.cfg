SPECIFICATION Spec
CONSTANTS
  Schedule <- TwoByTwo
  SortKey <- Keys
  Names <- ScheduledNames
  Facts = {}
  Absent = Absent
  Policies <- SomePolicies
  Outcomes <- AbortingOutcomes
  ClockFaults = 0
  Tables <- NoTables
  MaxEvents = 5
  Corpus <- SomeCorpus
  MaxRequests = 5
  MaxReadRetries = 1
  MaxPages = 2
  PageSize = 2
  MaxOthers = 1
  Trials = 1
  MaxLines = 2
  NoFile = NoFile
INVARIANT AbortStops
CHECK_DEADLOCK FALSE
