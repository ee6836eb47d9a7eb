CONSTANTS
    Docs <- MCDocs
    Shards <- MCShards
    Home <- MCHome
    TimeOf <- MCTime
    DocNo <- MCDocNo
    Target = "logs"
    ParamSpace <- MCCapped
    InitialDocs <- MCInitialDocs
    Windows = {1}
    DefaultWindow = 2
    TotalCap = 3
    Events = {}
SPECIFICATION Spec
INVARIANTS
    BoundedRequestFits
