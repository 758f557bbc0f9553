SPECIFICATION SumSpec
CONSTANTS
  Roots = {"root"}
  OurRelease = 1
  BuiltAt = 1
  Target = "b"
  Valid = {"medialith", "cinema"}
  Wishes <- MCWishes
  InitialConfigs <- MCConfigs
  Offers <- MCOffers
  Republished = 1
  Latest = 2
  console = console
  shell = shell
  Services <- MCServices
  Pids <- MCPids
  NoPid = NoPid
  Backoff <- MCBackoff
  Stable = 3
  MaxOrphans = 1
  MaxRefusals = 1
  home = home
  twin = twin
  stranger = stranger
  Disks <- MCDisks
  Home = home
  Signed <- MCSigned
  Layouts <- MCLayouts
  CommandLines <- MCCommandLines
  Processors <- MCProcessors
  NoDisk = NoDisk
  MaxBoots = 2
  Kernels <- MCKernels
  Stacks <- MCStacks
  MaxCuts = 1
  Environments <- MCInitrd
CHECK_DEADLOCK FALSE
INVARIANT VarOfBootedDisk
