SPECIFICATION Spec
CONSTANTS
    s1 = s1
    s2 = s2
    Stoppers = {}
    MaxCommands = 1
    MaxFetches = 1
    MaxStarts = 1
    MaxStops = 0
INVARIANTS TimeoutStopsCommand
CHECK_DEADLOCK FALSE
