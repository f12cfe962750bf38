SPECIFICATION Spec
CONSTANTS
    f1 = f1
    f2 = f2
    Firers = {f1, f2}
    NumCallbacks <- Callbacks
    MaxFires = 1
    MaxStarts = 2
INVARIANTS TypeOK StopDrains
PROPERTIES ImplementsQueue EventuallyCalled StopEndsLoop
CHECK_DEADLOCK FALSE
