SPECIFICATION Spec
CONSTANTS
  r1 = r1
  r2 = r2
  NoReason = NoReason
  Levels <- MCLevels
  LevelOf <- MCLevelOf
  Slashed <- MCSlashed
  Escaped <- MCEscaped
  Lines <- MCLines
  Reasons <- MCReasons
  MaxLines = 3
PROPERTIES
  EveryReasonPrinted
