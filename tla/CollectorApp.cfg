SPECIFICATION Spec
CONSTANTS
  Every = 2
  Timeout = 2
  TicksPerMs = 2
  IntMax = 7
  MaxBatch = 1
  MaxReceived = 5
INVARIANTS
  CountedOnce
  ExitReportsEverything
  NothingDueWhileWaiting
  OneReceiveAfterSignal
PROPERTIES
  NoBusyWait
  SignalStops
