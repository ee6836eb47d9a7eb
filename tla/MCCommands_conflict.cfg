CONSTANTS
    FieldPaths <- MCFieldPaths
    Variables <- MCVariables
    BadCerts <- MCBadCerts
    BadServers <- MCBadServers
    Invocations <- MCFieldsOnly
    Mappings <- MCMappings
    MaxDepth = 3
    MaxIndices = 3
    MaxBuckets = 2
SPECIFICATION Spec
INVARIANTS
    EveryTypeConflictShown
