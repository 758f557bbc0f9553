CONSTANTS
  Releases = {1, 2, 3}
  First = 1
  MinSequence <- MCMinSequence
  Quality <- MCQuality
  Tries = 2
  MaxFaults = 2
  RemovalsFail = TRUE
  Discipline = {}
SPECIFICATION Spec
INVARIANT RunningSlotIntact
PROPERTIES ActivatedAfterWritten NothingOlderWritten
