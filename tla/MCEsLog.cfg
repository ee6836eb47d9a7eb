CONSTANTS
    SignalNumbers <- MCSignalNumbers
    MaxSignals = 3
    Docs <- MCDocs
    Shards <- MCShards
    Home <- MCHome
    TimeOf <- MCTime
    DocNo <- MCDocNo
    Target = "logs"
    ParamSpace <- MCParamSpace
    InitialDocs <- MCDocs
    Windows = {1}
    DefaultWindow = 2
    TotalCap = 3
    Events = {"transport", "interrupt", "delete", "shard"}
SPECIFICATION ProcessFairSpec
INVARIANTS
    InterruptedExit
    OwnCodeKept
    StatusZeroIsComplete
    GivesUpBeforePrinting
PROPERTIES
    FirstSignalIsGentle
    IsSignals
    InterruptEnds
    ProcessEnds
