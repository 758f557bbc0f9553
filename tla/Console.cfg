SPECIFICATION FairSpec
CONSTANTS
  home = home
  cafe = cafe
  office = office
  Ssids = {home, cafe, office}
  Barred = {office}
  Unsecured = {cafe}
  Longest = 1
  Strokes = 3
  Tabs = {phone, desktop}
  Opened = 2
  Output = 3
  Kept = 2
  Viewers = {phone, desktop}
  MinWindow = 2
  LastTick = 5
  Watchers = {phone, desktop}
  Items = {film}
  SourceCache = 1
  MaxArtwork = 3
  Heading = 1
  Versions = 1
  Clients = {phone}
  MaxHead = 2
  MaxBody = 1
  MaxUpload = 3
  Rotations = 2
  Newest = 3
  Tries = 2
  Ports <- MCPorts
  Address <- MCAddress
  Covered <- MCCovered
  Numbers <- MCNumbers
  Pages = {phone, desktop}
  MaxMembers = 6
  KeptImages = 2
  Installs = 3
  Environments <- MCEnvironments
CHECK_DEADLOCK FALSE
INVARIANTS TypeOK ShownWasTrue InstalledAsSigned
PROPERTIES NothingIsLost EveryoneIsAnswered
