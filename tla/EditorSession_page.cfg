SPECIFICATION FairSpec
CONSTANTS
  pilot = pilot
  b1 = b1
  b2 = b2
  TextBound = 1
  Branches <- MCBranches
  Contents <- MCContents
  Blank = 0
  NoBranch = NoBranch
  Pilot = pilot
  MaxTexts = 1
  MaxChoices = 2
  MaxSaves = 1
  MaxFailures = 1
INVARIANT TypeOK
PROPERTIES SwitchOnlyAfterSave TextReachesTheServer ChosenBranchOpens
