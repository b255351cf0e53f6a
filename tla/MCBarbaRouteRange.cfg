CONSTANTS
  c1 = c1
  c2 = c2
  Client = {c1, c2}
  Server = 20
  NatIp = 30
  Byte = 8
  LocalIp <- MCLocalIp
  NatIndex <- MCNatIndex
  Flow = {"web", "dns", "big", "gre", "stray"}
  FlowData <- MCFlowData
  Configs <- MCRedirect
  Ranges <- MCShortRanges
  MaxVirtualIps = 4
  MaxPorts = 1
  Workloads <- MCRangeWorkloads
SPECIFICATION Spec
INVARIANTS
  VirtualIpsFiltered
CHECK_DEADLOCK FALSE
