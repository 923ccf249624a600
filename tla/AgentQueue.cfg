SPECIFICATION FairSpec
CONSTANTS
  b1 = b1  b2 = b2  t1 = t1  t2 = t2  t3 = t3  r1 = r1  q1 = q1
  NoTask = NoTask
  Bundles <- OneBundle
  Bundle <- MCBundle
  Tasks = {t1, t2, r1, q1}
  Resumes = {q1, r1}
  Requeues = {q1}
  Texts = {r1}
  MaxRelaunches = 2
  MaxLosses = 1
  MaxFaults = 2
INVARIANTS TypeOK FreshKept
PROPERTIES RunsOnce LaunchEnds
