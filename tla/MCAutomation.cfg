SPECIFICATION FairSpec
CONSTANTS
    None = None
    Part = 2
    Gpios <- MCGpios
    Digital <- MCDigital
    Start <- MCStart
    RampMs <- MCRampMs
    TaskOrder <- MCTaskOrder
    Program <- MCProgram
    Sensors <- MCSensors
    Readings <- MCReadings
    SetTo <- MCSetTo
    LoopMs <- MCLoopMs
INVARIANTS
    RunsAreOwned
    NoOverrun
    StoppedIsFresh
    ItemsInOrder
    EndedIsComplete
PROPERTIES
    TaskEnds
    RampArrives
CHECK_DEADLOCK FALSE
