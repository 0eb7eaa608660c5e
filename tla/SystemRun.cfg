SPECIFICATION RunSpec
CONSTANTS
    Analyzers = {"log"}
    Updaters = {"sorter"}
    Imd = "log"
    Periods = {1}
    FrameResults <- SomeFrames
    MaxStep = 3
    CallbackPeriod = 2
    LimitMultiple = 2
    MaxInterruptions = 2
INVARIANTS RunTypeOK NoItemLeftBehind FlagsRequested NoStepSkipped
PROPERTIES RunEnds SigintEnds
