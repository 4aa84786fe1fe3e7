SPECIFICATION Spec
CONSTANTS
  c1 = c1
  c2 = c2
  c3 = c3
  Clients <- MCClients
  Rooms = {r1, r2}
  SendCap = 1
  BroadcastCap = 2
  MaxUpdates <- MCThreeUpdates
  Stalled = {}
CHECK_DEADLOCK FALSE
INVARIANTS
  TypeOK
  SendTargetsOpen
  ExactDelivery
  SenderOrder
  ShortLogsNeverBlock
PROPERTY
  LogKeptWhileOccupied
