CONSTANTS
  Configs <- MCTcpConfigs
  MaxTransferSize = 4
  FileHeaderSizes <- MCFileHeaderSizes
  MinPacketSizes <- MCMinPacketSizes
  MessageSizes <- MCMessageSizes
SPECIFICATION Spec
INVARIANT ErrorMeansRejected
CHECK_DEADLOCK FALSE
