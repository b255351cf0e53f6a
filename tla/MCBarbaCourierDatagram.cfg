\* Reassembly: two packets of two chunks from a server that may restart.
SPECIFICATION Spec
CONSTANTS
  Client = Client
  Server = Server
  up = up
  reply = reply
  down1 = down1
  down2 = down2
  Sender <- MCSender
  ChunksCount <- MCChunksCount
  Packet = {up, down1, down2}
  MaxMessagesCount = 1
  MaxControls = 1
  MaxId = 1
  MaxInFlight = 3
  MaxRestarts = 1
CHECK_DEADLOCK FALSE
INVARIANTS
  TypeOK
  NeverMixed
  CollectsEachOnce
