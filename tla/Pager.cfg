SPECIFICATION FairSpec
CONSTANTS
  Expected <- Loops
  Late = 1
  Repeat = 1
  MaxCrashes = 1
  MaxLost = 1
PROPERTIES SilenceIsPaged
