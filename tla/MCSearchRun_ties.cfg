CONSTANTS
    Docs <- MCDocs
    Shards <- MCShards
    Home <- MCHome
    TimeOf <- MCTime
    DocNo <- MCTiedDocNo
    Target = "logs"
    ParamSpace <- MCFetchAll
    InitialDocs <- MCDocs
    Windows = {1}
    DefaultWindow = 2
    TotalCap = 3
    Events = {}
SPECIFICATION Spec
INVARIANTS
    FetchAllComplete
