CONSTANTS
  c1 = c1
  c2 = c2
  Client = {c1, c2}
  Server = 20
  NatIp = 30
  Byte = 8
  LocalIp <- MCLocalIp
  NatIndex <- MCNatIndex
  Flow = {"web", "dns", "big", "gre", "stray"}
  FlowData <- MCFlowData
  Configs <- MCConfigs
  Ranges <- MCRanges
  MaxVirtualIps = 3
  MaxPorts = 1
  Workloads <- MCWorkloads
SPECIFICATION Spec
INVARIANTS
  TypeOK
  NothingInClear
  ArrivesIntact
  AnswersRightClient
  RepliesAccepted
CHECK_DEADLOCK FALSE
