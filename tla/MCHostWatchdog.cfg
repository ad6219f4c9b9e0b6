SPECIFICATION FairSpec
CONSTANTS
    DegGrid = 2
    TaMaxDeg = 4
    TaStepDeg = 2
    TaSettleDeg = 1
    AkMaxErpm = 2
    HostDegs <- MCHostDegs
    HostErpms <- MCHostErpms
    WatchdogTimeout = 3
    KeepalivePeriod = 1
    PingLateness = 1
    BoardPeriod = 1
    RestartDelay = 5
INVARIANTS
    Interlock
    SilentIsStopped
    WaitingIsStandstill
    LiveIsNotTripped
    QuietOutage
PROPERTY
    MoveEnds
