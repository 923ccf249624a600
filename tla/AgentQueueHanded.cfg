SPECIFICATION Spec
CONSTANTS
  b1 = b1  b2 = b2  t1 = t1  t2 = t2  t3 = t3  r1 = r1  q1 = q1
  NoTask = NoTask
  Bundles <- TwoBundles
  Bundle <- MCBundle
  Tasks = {t1, t2}
  Resumes = {}
  Requeues = {}
  Texts = {}
  MaxRelaunches = 2
  MaxLosses = 0
  MaxFaults = 0
INVARIANTS HandedKept
