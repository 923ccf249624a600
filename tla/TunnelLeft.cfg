SPECIFICATION Spec
CONSTANTS
    MaxJobs = 2
    MaxDrops = 0
    MaxFaults = 0
INVARIANT NoStandInLeft

CHECK_DEADLOCK FALSE
