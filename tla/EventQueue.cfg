SPECIFICATION QueueSpec
CONSTANTS
  w1 = w1
  w2 = w2
  w3 = w3
  r1 = r1
  r2 = r2
  e1 = e1
  Writers <- MCWriters
  Readers <- MCReaders
  Events <- MCEvents
  MaxQueue = 3
INVARIANTS
  NoLostWakeup
  CloseWakesReaders
PROPERTIES
  ClosedQueueOnlyDrains
