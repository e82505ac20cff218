SPECIFICATION TcpSinkSpec
CONSTANTS
  a = a
  b = b
  Addresses <- MCAddresses
  NoSocket = NoSocket
  InitialCooldown = 1
  MaxCooldown = 20
  ResolveEvery = 5
  FrameLength = 2
  MaxFailures = 9
INVARIANTS
  ErrorIffFailed
  CooldownDoubles
  FramesNotJoined
PROPERTIES
  PauseBetweenAttempts
  MovedServerFound
