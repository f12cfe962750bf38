SPECIFICATION SessionSpec
CONSTANTS
    m = m
    s1 = s1
    s2 = s2
    Main = m
    Stoppers = {s1}
    SuiteSize <- TwoSuites
    SkipSets <- FirstSkipped
    MaxExec = 1
    MaxSigint = 1
    MaxTaint = 0
INVARIANTS EndedStopsSut StopStopsSession ReportNotLost
    OkMeansAllRun
PROPERTIES SessionEnds
