SPECIFICATION Spec
CONSTANTS
  r1 = r1
  r2 = r2
  NoReason = NoReason
  Levels <- MCLevels
  LevelOf <- MCLevelOf
  Slashed <- MCSlashed
  Escaped <- MCEscaped
  Lines <- MCLines
  Reasons <- MCReason
  MaxLines = 4
INVARIANTS
  LevelCopyIsAhead
  DefaultMessageNotDropped
  NothingOutlivesRun
  ExitTellsFailures
PROPERTIES
  ShutdownEnds
  ImplementsSequentialLog
