SPECIFICATION Spec
CONSTANTS
    s1 = s1
    s2 = s2
    Stoppers = {s1}
    MaxCommands = 2
    MaxFetches = 1
    MaxStarts = 2
    MaxStops = 2
INVARIANTS TypeOK StopWaitsForCommand CutByStop
PROPERTIES StopReturns CommandReturns
CHECK_DEADLOCK FALSE
