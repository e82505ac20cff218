SPECIFICATION Spec
CONSTANTS
  LastTime <- MCLastTime
  HeadText <- MCHeadText
  Clock <- MCClock
  Levels <- MCLevels
  Messages <- MCMessages
  Letters <- MCLetters
  Newline = 10
  Limit = 8
  ChunkSize = 3
  MaxCalls = 2
  MaxRepeats = 1
INVARIANTS
  OnlyLoggedRecords
  FailedIsNotCounted
  NothingMalformed
CHECK_DEADLOCK FALSE
