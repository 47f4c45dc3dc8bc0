SPECIFICATION ExposureSpec
CONSTANTS
  x1 = x1
  x2 = x2
  Exchanges = {x1, x2}
  PlaneOf <- OneDocument
  MaxConcurrent = 2
  MaxRun = 2
  MaxBurst = 2
  SinkFaults = 0
INVARIANT OneRecordEach
CHECK_DEADLOCK FALSE
