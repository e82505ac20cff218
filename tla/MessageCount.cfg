SPECIFICATION TallySpec
CONSTANTS
  LevelCount = 2
  Buckets = 3
  Lengths = {1, 2}
  MaxMessages = 4
  MaxMalformed = 1
  MaxMinute = 6
INVARIANTS
  LastHourIsExact
  TotalsAreExact
CHECK_DEADLOCK FALSE
