SPECIFICATION Spec
CONSTANTS
  Repos = {odoo, enterprise}
  MaxAsks = 3
  MaxCommits = 1
  MaxFaults = 1
INVARIANTS WorkKeptAlways
CHECK_DEADLOCK FALSE
