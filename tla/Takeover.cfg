SPECIFICATION Spec
CONSTANTS
  Terminals = {t1, t2}
  NoTerminal = NoTerminal
  MaxOpens = 1
  MaxHangs = 1
INVARIANTS SessionSafe
PROPERTIES TakeoverGoesOn
CHECK_DEADLOCK FALSE
