SPECIFICATION Spec
CONSTANTS
  Schedule <- TwoByTwo
  SortKey <- Keys
  Names <- ScheduledNames
  Facts = {}
  Absent = Absent
  Policies <- SomePolicies
  Outcomes <- SomeOutcomes
  ClockFaults = 1
  Tables <- SomeTables
  MaxEvents = 5
  Corpus <- SomeCorpus
  MaxRequests = 5
  MaxReadRetries = 1
  MaxPages = 2
  PageSize = 2
  MaxOthers = 1
  Trials = 1
  MaxLines = 2
  NoFile = NoFile
INVARIANTS
  CorpusLeavesNothing
  CasesAreTrue
  LedgerIsLawful
  ReplacementsAreLawful
  CompletionIsTrue
  EstimatesAreSound
  EvidenceIsSealed
CHECK_DEADLOCK FALSE
