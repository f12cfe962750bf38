SPECIFICATION Spec
CONSTANTS
    s1 = s1
    Stoppers = {}
    SuiteSize <- TwoSuites
    SkipSets <- SomeSkipped
    MaxExec = 1
    MaxSigint = 1
    MaxTaint = 1
INVARIANT InterruptNotSwallowed
CHECK_DEADLOCK FALSE
