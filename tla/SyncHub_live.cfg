SPECIFICATION FairSpec
CONSTANTS
  c1 = c1
  c2 = c2
  c3 = c3
  Clients <- MCClients
  Rooms = {r1}
  SendCap = 2
  BroadcastCap = 1
  MaxUpdates <- MCTwoUpdates
  Stalled = {c3}
CHECK_DEADLOCK FALSE
PROPERTIES
  HubComesBack
  LostConnectionLeaves
  UpdatesArrive
