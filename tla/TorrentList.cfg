SPECIFICATION FairSpec
CONSTANTS
    Hash = {1, 2}
    Object = {o1, o2, o3}
    NoObject = NoObject
    MaxJobs = 3
    MaxOdd = 1
INVARIANTS
    RowsMatch
    OneShown
    ListIsWhatRuns
PROPERTIES
    RightOneDeleted
    ShareCompletes
