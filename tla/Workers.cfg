SPECIFICATION MCSpec
CONSTANTS
  Bundles = {b1, b2, b3}
  Places = 2
  Fresh = 1
  MaxClock = 3
  MaxRestarts = 1
  Requests = {r1, r2, r3, r4}
  MaxFollows = 2
  MaxRelays = 1
  MaxRelayRestarts = 2
  CutCommands = {1}
  CutTold = {1}
  TailLines = 2
  MaxLines = 4
  MaxCutFaults = 2
  JobEdits = {a, b, c}
  HereEdits = {h}
  MaxStarts = 2
  MaxNoteFaults = 1
  Queued = {q1, q2}
  Priorities = {0, 1}
  Host = host
  NoTask = NoTask
  MaxTasks = 3
  MaxAsked = 1
  MaxHands = 1
  MaxAgents = 1
  MaxRelaunches = 1
INVARIANTS NoneRefused MissingHasEnded FollowsCounted NotesKept CutRight
PROPERTIES OrderKept
SYMMETRY Symmetry
CHECK_DEADLOCK FALSE
