\* Two connections compete for the list: safety, the refinement, and liveness.
SPECIFICATION FairSpec
CONSTANTS
  w1 = w1
  w2 = w2
  Worker = {w1, w2}
  Filter = Filter
  NoThread = NoThread
  Message = {1, 2}
  Size <- MCSize
  TransferSizes = {4}
  MinPacket = 0
  FillLimit = 3
  MaxFailures = 1
INVARIANTS
  TypeOK
  NoLostWakeup
  OnePlace
  NoOverrun
PROPERTIES
  ImplementsDelivery
  EventuallySent
  DisposeEnds
