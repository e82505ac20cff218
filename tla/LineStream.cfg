SPECIFICATION StreamSpec
CONSTANTS
  x = x
  y = y
  nl = nl
  Letters <- MCLetters
  Newline = nl
  Limit = 3
  ChunkSize = 3
  MaxBytes = 8
INVARIANTS
  StreamTypeOK
  LinesOfTheStream
  EveryDropCounted
CHECK_DEADLOCK FALSE
