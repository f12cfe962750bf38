SPECIFICATION Spec
CONSTANTS
    s1 = s1
    Stoppers = {s1}
    SuiteSize <- TwoSuites
    SkipSets <- SomeSkipped
    MaxExec = 2
    MaxSigint = 1
    MaxTaint = 1
INVARIANTS TypeOK EveryTestAccounted ResultsInOrder ReportMatchesEvents
     NoStaleStop
PROPERTIES ExecEnds
