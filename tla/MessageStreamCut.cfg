SPECIFICATION Spec
CONSTANTS
    IntLimit = 1000
    WrappedInt = 1024
    Request <- MCRequest
    PeerId <- MCPeerId
    MaxRequests = 1
    MaxCuts = 1
    MaxLost = 0
INVARIANT
    PartIsWaitedFor
CHECK_DEADLOCK FALSE
