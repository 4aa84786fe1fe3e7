SPECIFICATION FairSpec
CONSTANTS
  c1 = c1
  c2 = c2
  c3 = c3
  Clients <- MCClients
  Rooms = {r1}
  SendCap = 1
  BroadcastCap = 1
  MaxUpdates <- MCThreeUpdates
  Stalled = {}
CHECK_DEADLOCK FALSE
PROPERTY
  HubComesBack
