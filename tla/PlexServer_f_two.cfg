CONSTANTS
  Procs = {p1, p2}
  MaxVersion = 2
  MaxFaults = 2
  MaxCrashes = 1
SPECIFICATION Spec
SYMMETRY ProcSymmetry
INVARIANT OnlyOnePlex
