SPECIFICATION MCSpec
CONSTANTS
  HostLines = {h1}
  PrLines = {p1}
  PostedLines = {q1}
  Prompts = {d1}
  Tasks = {t1}
  MaxLines = 2
  MaxActs = 3
  MaxDialogs = 2
  Questions = 2
  MaxDialogFaults = 1
  MaxJobs = 2
  MaxDrops = 1
  MaxTunnelFaults = 2
INVARIANTS LinesKept AnswersKept
PROPERTIES  LinesGo DialogEnds 
CHECK_DEADLOCK FALSE
