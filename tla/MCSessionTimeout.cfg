SPECIFICATION SessionSpec
CONSTANTS
    m = m
    s1 = s1
    s2 = s2
    Main = m
    Stoppers = {}
    SuiteSize <- TwoSuites
    SkipSets <- FirstSkipped
    MaxExec = 1
    MaxSigint = 0
    MaxTaint = 0
INVARIANT TimeoutStopsSut
