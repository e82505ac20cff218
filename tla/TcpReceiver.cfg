SPECIFICATION Spec
CONSTANTS
  a = a
  b = b
  c = c
  x = x
  nl = nl
  Letters <- MCLetters
  Newline = nl
  Limit = 2
  ChunkSize = 2
  Senders <- MCSenders
  Text <- MCText
  MaxClients = 2
  Backlog = 1
INVARIANTS
  TypeOK
  WaitersMatchClients
  NoClientForgotten
  LinesOfTheirSender
PROPERTIES
  ClientIsRead
  SlotIsReused
CHECK_DEADLOCK FALSE
