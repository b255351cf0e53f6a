CONSTANTS
  Configs <- MCConfigs
  MaxTransferSize = 4
  FileHeaderSizes <- MCFileHeaderSizes
  MinPacketSizes <- MCMinPacketSizes
  MessageSizes <- MCMessageSizes
SPECIFICATION FairSpec
INVARIANTS
  TypeOK
  InStep
  NoMutualWait
  ReceivedAll
  FailsOnlyWhenBroken
PROPERTIES
  BothEnd
CHECK_DEADLOCK FALSE
