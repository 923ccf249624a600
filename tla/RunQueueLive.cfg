SPECIFICATION FairSpec
CONSTANTS
  c1 = c1  c2 = c2  c3 = c3  c4 = c4  b1 = b1  b2 = b2  k1 = k1  k2 = k2  k3 = k3
  core1 = core1  core2 = core2  core3 = core3
  NoClient = NoClient
  Clients <- MixedClients
  Kind <- MixedKind
  Workers <- MixedWorkers
  Bundle <- MixedBundle
  Key <- MixedKey
  Outer <- MixedOuter
  Shell <- MixedShell
  Cores <- TwoCores
  MaxWaiting = 1
  Memory = 56
  MaxStamp = 3
  MaxCrashes = 0
  HostMoves = TRUE

INVARIANTS NestedNeverWaits
PROPERTIES WaitersStart
