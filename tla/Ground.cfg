SPECIFICATION GroundSpec
CONSTANTS
  own = own
  film = film
  blank = blank
  Disks = {own, film, blank}
  System = own
  Names = {sda, sdb, sdc}
  SystemName = sda
  Kind <- MCKind
  Folders = {films, series}
  Servers = {nas}
  Requests = {one, two}
  Readers = {first, second}
  TooSmall = {}
  MaxStack = 2
  Tried <- MCTried
  bridge = bridge
  eth0 = eth0
  eth1 = eth1
  wlan = wlan
  home = home
  work = work
  typo = typo
  wep = wep
  old = old
  Networks = {home, work, typo, wep, old}
  Kept <- MCKept
  Takes <- MCTakes
  Prints <- MCPrints
  Usual <- MCUsual
  Supplicants = {s1, s2}
  Threads = {t1, t2}
  Ports <- MCPorts
  Wired = {eth0, eth1}
  Passes = 4
  Negotiation = 2
  LeasePolls = 1
  Addresses = {lan, air}
  Moves = 3
  Savers = {r1, r2}
  Statics <- MCStatics
  Reachable <- MCReachable
  Routable <- MCRoutable
  Window = 2
  Timers = {alarm1, alarm2}
  Environments <- MCEnvironments
CHECK_DEADLOCK FALSE
INVARIANTS TypeOK DisksAreAsSaid TableIsAsSaid NetworkIsAsSaid TrialsEnd
PROPERTIES WhatWasSetUpStands Settles
