SPECIFICATION RunSpec
CONSTANTS
    Analyzers = {"log"}
    Updaters = {"sorter"}
    Imd = "log"
    Periods = {1, 2}
    FrameResults <- SomeFrames
    MaxStep = 3
    CallbackPeriod = 0
    LimitMultiple = 2
    MaxInterruptions = 1
INVARIANT ForcesEvaluated
