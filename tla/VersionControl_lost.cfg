SPECIFICATION Spec
CONSTANTS
  c1 = c1
  c2 = c2
  s1 = s1
  s2 = s2
  b1 = b1
  b2 = b2
  Clients <- MCClients
  Scripts <- MCScripts
  Branches <- MCBranches
  Contents = {blank}
  Blank = blank
  NoScript = NoScript
  NoBranch = NoBranch
  MaxRequests = 4
SYMMETRY MCIds
INVARIANTS CommitsStayInHistory
CHECK_DEADLOCK FALSE
