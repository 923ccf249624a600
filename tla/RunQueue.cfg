SPECIFICATION Spec
CONSTANTS
  c1 = c1  c2 = c2  c3 = c3  c4 = c4  b1 = b1  b2 = b2  k1 = k1  k2 = k2  k3 = k3
  core1 = core1  core2 = core2  core3 = core3
  NoClient = NoClient
  Clients <- CrashClients
  Kind <- CrashKind
  Workers <- CrashWorkers
  Bundle <- CrashBundle
  Key <- CrashKey
  Outer <- CrashOuter
  Shell <- CrashShell
  Cores <- ThreeCores
  MaxWaiting = 1
  Memory = 40
  MaxStamp = 3
  MaxCrashes = 1
  HostMoves = FALSE
SYMMETRY Alike
INVARIANTS ExclusiveCores Consistent MemoryFits
PROPERTIES ImplementsLease ArrivalOrder
