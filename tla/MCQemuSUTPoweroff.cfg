SPECIFICATION Spec
CONSTANTS
    m = m
    s1 = s1
    Main = m
    Stoppers = {}
    MaxBoots = 1
    MaxCalls = 0
    MaxStops <- MainOnly
PROPERTIES StopReturns
CHECK_DEADLOCK FALSE
