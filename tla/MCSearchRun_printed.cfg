CONSTANTS
    Docs <- MCDocs
    Shards <- MCShards
    Home <- MCHome
    TimeOf <- MCTime
    DocNo <- MCDocNo
    Target = "logs"
    ParamSpace <- MCPrinted
    InitialDocs <- MCInitialDocs
    Windows = {1, 3}
    DefaultWindow = 2
    TotalCap = 2
    Events = {"shard", "aggs"}
SPECIFICATION Spec
INVARIANTS
    TotalIsExact
    RequestFitsEveryIndex
    OutputIsFilteredFetch
