SPECIFICATION Spec
CONSTANTS
    m = m
    s1 = s1
    Main = m
    Stoppers = {s1}
    MaxBoots = 2
    MaxCalls = 2
    MaxStops <- StopperOnly
INVARIANTS TypeOK StopEndsMachine NoStaleStop FetchExact
PROPERTIES PoweroffToShell ForceStopReturns
CHECK_DEADLOCK FALSE
