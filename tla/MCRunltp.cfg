SPECIFICATION Spec
CONSTANTS
    Earlier = 2
    MaxRuns = 5
    Concurrent = 2
    MaxRotate = 2
    MaxCrashes = 1
    MaxTicks = 3
    WithReport = {4, 5}
INVARIANTS TypeOK DirsBounded LiveDirsKept AloneSucceeds
CHECK_DEADLOCK FALSE
