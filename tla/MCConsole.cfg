SPECIFICATION ConsoleSpec
CONSTANTS
    s1 = s1
    Stoppers = {s1}
    SuiteSize <- OneSuite
    SkipSets <- AllSkipped
    MaxExec = 1
    MaxSigint = 1
    MaxTaint = 2
    MaxPieces = 2
    MaxLines = 1
    MaxBreaks = 1
    Outputs <- SomeOutputs
    Unnamed = {1}
INVARIANTS ToldWhatHappened TroubleShown OneEventPerLine
CHECK_DEADLOCK FALSE
