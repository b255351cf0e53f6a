\* The settings reach the server; chunks are lost and duplicated.
SPECIFICATION FairSpec
CONSTANTS
  Client = Client
  Server = Server
  up = up
  reply = reply
  down1 = down1
  down2 = down2
  Sender <- MCSender
  ChunksCount <- MCChunksCount
  Packet = {up, reply}
  MaxMessagesCount = 1
  MaxControls = 2
  MaxId = 1
  MaxInFlight = 6
  MaxRestarts = 0
CHECK_DEADLOCK FALSE
PROPERTIES
  EventuallyConfigured
