SPECIFICATION FairSpec
CONSTANTS
    DegGrid = 2
    TaMaxDeg = 4
    TaStepDeg = 2
    TaSettleDeg = 1
    AkMaxErpm = 2
    HostDegs <- MCOneDeg
    HostErpms <- MCOneErpm
    WatchdogTimeout = 3
    KeepalivePeriod = 1
    PingLateness = 1
    BoardPeriod = 1
    RestartDelay = 5
PROPERTY
    StopAllArrives
