SPECIFICATION Spec
CONSTANTS
    m = m
    s1 = s1
    Main = m
    Stoppers = {s1}
    MaxConnects = 2
    MaxCalls = 3
    MaxStops <- Requests
INVARIANTS TypeOK StopCloses ResetApart DisturbedByStop
PROPERTIES CallsReturn
CHECK_DEADLOCK FALSE
