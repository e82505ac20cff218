SPECIFICATION Spec
CONSTANTS
  Every = 2
  Timeout = 2
  TicksPerMs = 2
  IntMax = 1
  MaxBatch = 1
  MaxReceived = 5
INVARIANTS
  ReportAfterTimeout
