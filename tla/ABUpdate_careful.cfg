CONSTANTS
  Releases = {1, 2, 3, 4}
  First = 1
  MinSequence <- MCMinSequence
  Quality <- MCQuality
  Tries = 2
  MaxFaults = 2
  RemovalsFail = FALSE
  Discipline = {"decided", "settled", "daemon"}
SPECIFICATION FairSpec
INVARIANT KnownGoodKept
PROPERTIES ComesBack BadReleaseIsLeft KeepsPromise
