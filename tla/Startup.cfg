SPECIFICATION Spec
CONSTANTS
  LevelOf <- MCLevelOf
  ProtocolOf <- MCProtocolOf
  NumberOf <- MCNumberOf
  Numeral <- MCNumeral
  Texts <- MCTexts
  Dashed = {"--"}
  MaxArguments = 4
  AnswersOf <- MCAnswersOf
  Calls <- MCCalls
INVARIANTS
  RunsAsAsked
  ErrorIffNull
  NothingLeftOpen
  PrintedAddressIsAccepted
