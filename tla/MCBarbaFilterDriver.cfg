CONSTANTS
  MaxPackets = 3
  DriverCapacity = 2
  MaxCaptureMessageQueue = 2
  MaxCommands = 2
SPECIFICATION FairSpec
INVARIANTS
  TypeOK
  NoLostWakeup
  HandledInOrder
  StopsCapturing
  NothingLeftBehind
  OutlivesItsCallers
PROPERTIES
  StopCompletes
  CapturedIsTaken
CHECK_DEADLOCK FALSE
