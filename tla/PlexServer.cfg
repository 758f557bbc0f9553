CONSTANTS
  Procs = {p1, p2}
  MaxVersion = 2
  MaxFaults = 1
  MaxCrashes = 1
SPECIFICATION FairSpec
INVARIANTS OnePlexPerDaemon ServesWhatIsMounted PlexIsInHand
PROPERTY WantedIsServed
