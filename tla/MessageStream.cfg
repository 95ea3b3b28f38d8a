SPECIFICATION FairSpec
CONSTANTS
    IntLimit = 1000
    WrappedInt = 1024
    Request <- MCRequest
    PeerId <- MCPeerId
    MaxRequests = 3
    MaxCuts = 2
    MaxLost = 1
INVARIANTS
    UpToDate
    NothingStuck
PROPERTIES
    RequestsDelivered
    AnswersDelivered
    AwaitedComes
CHECK_DEADLOCK FALSE
