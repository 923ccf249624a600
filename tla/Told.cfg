SPECIFICATION MCSpec
CONSTANTS
  Windows = {w1, w2}
  NoWindow = NoWindow
  MaxAsked = 2
  MaxTasks = 1
  MaxRuns = 3
  Reviews = {r1}
  Comments = {k1}
  MaxClock = 2
  MaxHeads = 1
  MaxFaults = 1
  MaxCommands = 3
INVARIANTS RunsWait
PROPERTIES CardsTold  
CHECK_DEADLOCK FALSE
