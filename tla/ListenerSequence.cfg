SPECIFICATION ListenerSpec
CONSTANTS
  r1 = r1
  r2 = r2
  r3 = r3
  Requests = {r1, r2}
  Serialized = TRUE
  Disconnects = TRUE
INVARIANT OwnSequence
CHECK_DEADLOCK FALSE
