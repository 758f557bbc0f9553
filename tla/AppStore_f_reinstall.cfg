CONSTANTS
  Versions = {1, 2, 3}
  Keep = 2
  Loops = 2
  MaxBuilds = 4
  MaxFaults = 1
SPECIFICATION Spec
INVARIANT CurrentMounts
