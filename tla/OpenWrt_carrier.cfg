SPECIFICATION MCSpec
CONSTANTS
  Ifaces = {"lo", "wan"}
  Loopbacks = {"lo"}
  IgnoreInterfaces = {"lo"}
  OnlyInterfaces = {}
  ThrottleTicks = 1
  EventBufferSize = 1
  V4 <- MCV4
  V6 = {}
  NoGateway = NoGateway
  MaxChanges = 3
  MaxLosses = 1
  MaxBacklog = 2
  None = None
  Radios = {0, 1}
  Cells <- MCCells
  Password <- MCPassword
  InitialWireless <- MCWireless
  Callers = {"upstream", "admin"}
  Menu <- MCMenu
  MaxFails = 1
  MaxPolls = 1
  MaxRetries = 1
INVARIANTS DownIsReported
CHECK_DEADLOCK FALSE
