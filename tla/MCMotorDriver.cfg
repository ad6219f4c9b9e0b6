SPECIFICATION FairSpec
CONSTANTS
    Requests <- MCRequests
    ReqGrid = 2
    Lowest <- MCLowest
    Highest = 4
    LoopSleep = 2
    LoopMax = 3
    StartUp = 7
    MaxSets = 3
INVARIANTS
    SteersToTarget
    BridgeFollows
    DriftPerTarget
PROPERTY
    TargetIsReached
