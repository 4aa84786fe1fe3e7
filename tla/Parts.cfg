SPECIFICATION PartsSpec
CONSTANTS
  a1 = a1
  c1 = c1
  c2 = c2
  kitchenDay = kitchenDay
  kitchenNight = kitchenNight
  yard = yard
  untitled = untitled
  ann = ann
  bob = bob
  d1 = d1
  d2 = d2
  Users <- MCUsers
  Owner = ann
  Roles <- MCRoles
  MaxArrived = 3
  MaxFailedStatements = 1
  Callers <- MCClients
  Limit = 2
  Window = 2
  MaxRequests = 5
  MaxTicks = 5
  Sessions <- MCSessions
  MaxDeliveries = 3
  Connectors <- MCConnectors
  CodeTTL = 1
  AccessTTL = 2
  CacheTTL = 2
  JwtTTL = 3
  MaxLogins = 1
  MaxAsked = 3
  MaxCalls = 2
  MaxTime = 3
  MaxRestarts = 1
  Clients <- MCClients
  Scripts <- MCScripts
  PlaceOf <- MCPlace
  Untitled = untitled
  MaxStrips = 2
  MaxMoves = 2
  MaxOpenings = 2
  MaxBoardMishaps = 1
  MaxOpens = 2
  MaxSent = 4
  MaxMishaps = 1
SYMMETRY MCIds
CHECK_DEADLOCK FALSE
INVARIANTS
  TypesOK EverySceneOnBoard SavedBoardComesBack ScheduleIsOneBoard
  OneGrantPerLogin JwtAliveWhenUsed
   AloneNothingIsBlanked OneChosen
  MembersComeFromInvites StacksAreRaces PurgeLeavesNobody NeverOverLimit PaidIsCountedOnce
PROPERTY ShownRowsStay RolesAreKept AnswersStand
