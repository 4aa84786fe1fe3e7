SPECIFICATION Spec
CONSTANTS
  pilot = pilot
  b1 = b1
  b2 = b2
  TextBound = 2
  Branches <- MCBranches
  Contents <- MCContents
  Blank = 0
  NoBranch = NoBranch
  Pilot = pilot
  MaxTexts = 2
  MaxChoices = 2
  MaxSaves = 2
  MaxFailures = 1
INVARIANT CleanMeansSaved
