SPECIFICATION Spec
CONSTANTS
    None = None
    DegGrid = 2
    TaMaxDeg = 2
    TaStepDeg = 2
    TaSettleDeg = 0
    AkMaxErpm = 2
    TaMin = 0
    TaMax = 2
    ConfirmTol = 1
    ErpmGrid = 2
    AkMin <- MCAkMin
    AkMax = 4
    Actions <- MCTaOnly
    TaRequests <- MCOneTaRequest
    AkRequests <- MCOneAkRequest
    MaxQueue = 1
    Serial = TRUE
    Stalls = FALSE
PROPERTY
    DriveSpec
