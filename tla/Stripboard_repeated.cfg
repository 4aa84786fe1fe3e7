SPECIFICATION BoardSpec
CONSTANTS
  c1 = c1
  c2 = c2
  kitchenDay = kitchenDay
  yard = yard
  untitled = untitled
  Untitled = untitled
  Clients <- MCClients
  Scripts <- MCScripts
  PlaceOf <- MCPlace
  MaxStrips = 2
  MaxMoves = 2
  MaxOpenings = 2
  MaxBoardMishaps = 0
SYMMETRY MCIds
CHECK_DEADLOCK FALSE
INVARIANT NeverSuggestedAgain
