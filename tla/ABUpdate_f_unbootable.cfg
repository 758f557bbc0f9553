CONSTANTS
  Releases = {1, 3, 5}
  First = 1
  MinSequence <- MCMinSequence
  Quality <- MCQuality
  Tries = 2
  MaxFaults = 1
  RemovalsFail = FALSE
  Discipline = {"decided", "daemon"}
SPECIFICATION FairSpec
PROPERTY ComesBack
