CONSTANTS
    FieldPaths <- MCFieldPaths
    Variables <- MCVariables
    BadCerts <- MCBadCerts
    BadServers <- MCBadServers
    Invocations <- MCInvocations
    Mappings <- MCMappings
    MaxDepth = 3
    MaxIndices = 3
    MaxBuckets = 2
SPECIFICATION Spec
INVARIANTS
    ExitCodesMean
    SentAsConfigured
    OnlyOwnContextMatters
    SecretsMasked
    SentIsLegal
    RefusedForAReason
    FieldsAreTheMappings
    EachFlagHasItsColumn
