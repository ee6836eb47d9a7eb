CONSTANTS
    Docs <- MCDocs
    Shards <- MCShards
    Home <- MCHome
    TimeOf <- MCTime
    DocNo <- MCDocNo
    Target = "logs"
    ParamSpace <- MCLive
    InitialDocs <- MCInitialDocs
    Windows = {1, 2, 3}
    DefaultWindow = 2
    TotalCap = 2
    Events = {"index", "delete", "reconfigure", "lookup", "stdout"}
SPECIFICATION Spec
INVARIANTS
    TypeOK
    FetchAllComplete
    TruncationAnnounced
    WrittenInOrder
