CONSTANTS
    Docs <- MCDocs
    Shards <- MCShards
    Home <- MCHome
    TimeOf <- MCTime
    DocNo <- MCTiedDocNo
    Target = "logs"
    ParamSpace <- MCEnding
    InitialDocs <- MCInitialDocs
    Windows = {1, 2}
    DefaultWindow = 2
    TotalCap = 3
    Events = {"notfound", "auth", "api", "transport", "badbody", "index", "delete",
              "shard", "lookup", "interrupt"}
SPECIFICATION Spec
INVARIANTS
    PartialNeverSilent
    NoDuplicateHits
    HitsInSortOrder
    OnlyTiesMissing
PROPERTIES
    ImplementsContract
