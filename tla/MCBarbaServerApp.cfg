CONSTANTS
  r3 = r3
  s1 = s1
  s2 = s2
  Request = {r1, r2}
  Session = {s1, s2}
  SessionOf <- MCSessionOf
  Flow = {f1}
  BadPacket = bad
  Listener = {l1}
  Main = main
  NoThread = none
  NoIp = noip
  MaxVirtualIps = 2
  MaxConnections = 3
SPECIFICATION FairSpec
INVARIANTS
  TypeOK
  OneConnectionPerSession
  AddressesAccounted
  TornDownAlone
PROPERTY
  StopDisposes
