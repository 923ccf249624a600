SPECIFICATION MCSpec
CONSTANTS
  Own = {c1}
  Others = {o1}
  OwnBundle = FALSE
  MaxUses = 2
  MaxAsks = 1
  MaxTasks = 1
  MaxRestarts = 1
  Nothing = Nothing
  Repos = {odoo, enterprise}
  MaxBuildAsks = 3
  MaxBuildCommits = 1
  MaxBuildFaults = 1
  Bases = {b}
  Packages = {p, q}
  Bundles = {u}
  First = p
  MaxNpmCommits = 2
  MaxNpmFaults = 2
INVARIANTS LosesNothing WorkKept MadeRight
PROPERTIES DeletesInOrder YesActs TaskStarts StoreSafe TreeComes
CHECK_DEADLOCK FALSE
