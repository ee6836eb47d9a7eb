CONSTANTS
    Docs <- MCDocs
    Shards <- MCShards
    Home <- MCHome
    TimeOf <- MCTime
    DocNo <- MCDocNo
    Twin <- MCTwin
    Target = "logs"
    ParamSpace <- MCParamSpace
    InitialDocs <- MCInitialDocs
    Windows = {2, 3}
    DefaultWindow = 2
    TotalCap = 3
    Events = {"delete"}
SPECIFICATION RenumberedSpec
INVARIANTS
    HitsInTimeOrder
    OnlyTimeTiesMissing
    RepeatsStraddlePages
