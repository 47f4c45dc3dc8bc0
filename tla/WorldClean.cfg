SPECIFICATION Spec
CONSTANTS
  r1 = r1
  r2 = r2
  r3 = r3
  k1 = k1
  b1 = b1
  b2 = b2
  c1 = c1
  c2 = c2
  None = None
  NoKey = NoKey
  Requests = {r1, r2, r3}
  Keys = {k1}
  Bodies = {b1, b2}
  KeyOf <- RetryKey
  BodyOf <- RetryBody
  CachedOutcomes = {"ok"}
  MaxRequests = 3
  FaultPhases = {"before_behavior", "before_commit", "after_commit"}
  FailurePoints = {}
  Controls = {}
  Payloads <- NoPayloads
  InitialTime = 0
INVARIANTS
  ReplayOfCommitted
  OutcomeRecorded
  ExchangeEndsClean
PROPERTY AtomicSpec
CHECK_DEADLOCK FALSE
