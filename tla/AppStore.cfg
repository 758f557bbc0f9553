CONSTANTS
  Versions = {1, 2, 3}
  Keep = 2
  Loops = 2
  MaxBuilds = 4
  MaxFaults = 2
SPECIFICATION FairSpec
INVARIANTS CurrentNeverDangles LoopsAccountedFor FreshInstallMounts
PROPERTIES RetentionHolds JobEnds
