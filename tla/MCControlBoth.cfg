SPECIFICATION Spec
CONSTANTS
    None = None
    DegGrid = 2
    TaMaxDeg = 4
    TaStepDeg = 2
    TaSettleDeg = 0
    AkMaxErpm = 2
    TaMin = 0
    TaMax = 4
    ConfirmTol = 1
    ErpmGrid = 2
    AkMin <- MCAkMin
    AkMax = 4
    Actions <- MCBoth
    TaRequests <- MCTaRequests
    AkRequests <- MCOneAkRequest
    MaxQueue = 1
    Serial = FALSE
    Stalls = TRUE
INVARIANTS
    TypeOK
    BrakeReleasedByInit
    MovesReleased
    StoppedInOutage
PROPERTY
    DriveSpec
