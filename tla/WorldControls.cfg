SPECIFICATION FairSpec
CONSTANTS
  r1 = r1
  r2 = r2
  r3 = r3
  k1 = k1
  b1 = b1
  b2 = b2
  c1 = c1
  c2 = c2
  None = None
  NoKey = NoKey
  Requests = {r1, r2}
  Keys = {k1}
  Bodies = {b1, b2}
  KeyOf <- RetryKey
  BodyOf <- RetryBody
  CachedOutcomes = {"ok"}
  MaxRequests = 2
  FaultPhases = {}
  FailurePoints = {"consult"}
  Controls = {c1, c2}
  Payloads <- TwoResets
  InitialTime = 1
INVARIANTS
  IInv
  
PROPERTIES
  ControlsFinal
  ClockForward
  EveryRequestAnswered
CHECK_DEADLOCK FALSE
