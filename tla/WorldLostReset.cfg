SPECIFICATION Spec
CONSTANTS
  r1 = r1
  r2 = r2
  r3 = r3
  k1 = k1
  b1 = b1
  b2 = b2
  c1 = c1
  c2 = c2
  None = None
  NoKey = NoKey
  Requests = {r1, r2}
  Keys = {k1}
  Bodies = {b1, b2}
  KeyOf <- OneKeyed
  BodyOf <- OneBody
  CachedOutcomes = {"ok"}
  MaxRequests = 2
  FaultPhases = {}
  FailurePoints = {}
  Controls = {c1}
  Payloads <- OneReset
  InitialTime = 0
INVARIANT OldWritesStayGone
CHECK_DEADLOCK FALSE
