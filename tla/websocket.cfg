CONSTANTS
  Short = 3
  Medium = 4
  TopBit = 9
  FrameSize = 2
  MaxFrame = 5
  MaxMessage = 6
  Messages <- SmallMessages
  PingLoads <- SmallPings
  CloseCalls <- SmallCloses
  MaskKeys = {1}
  Scripts <- SmallScripts
  WritesLast = FALSE
  MaxCalls = 2
  Connections = {c1, c2}
  Requests <- SmallRequests
  Responses <- SmallResponses
  MaxHeaders = 6
  MaxPending = 1
  PendingLimits = {1, 2}
SPECIFICATION MCSpec
CHECK_DEADLOCK FALSE
INVARIANTS
  FramesReassembled
  CloseFrameIsLast
  BothEndsUpgrade
  UpgradesKept
PROPERTIES
  BothEndsDisconnect
