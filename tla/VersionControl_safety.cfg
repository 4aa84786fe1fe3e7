SPECIFICATION Spec
CONSTANTS
  c1 = c1
  c2 = c2
  s1 = s1
  s2 = s2
  b1 = b1
  b2 = b2
  Clients <- MCClients
  Scripts <- MCScripts
  Branches <- MCBranches
  Contents = {blank, words}
  Blank = blank
  NoScript = NoScript
  NoBranch = NoBranch
  MaxRequests = 4
SYMMETRY MCIds
INVARIANTS TypeOK AncestryWellFormed UncontestedCommitsKept BranchIsolation DoneScriptsHaveAPilot
CHECK_DEADLOCK FALSE

PROPERTY ImplementsSlots
