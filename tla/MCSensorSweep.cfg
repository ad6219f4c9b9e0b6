SPECIFICATION FairSpec
CONSTANTS
    Polled = {"cpu"}
    Files = {"cpu"}
    Boards = {"ta_deg","link"}
    Links = {"link"}
    Weights = {"weight"}
    Config <- MCConfig
    Interval <- MCInterval
    Unset <- MCUnset
    StartRuns = 1
    EndRuns = 2
    Boot = 2
    MaxTime = 5
    MaxReadings = 2
    MaxFailures = 2
INVARIANTS
    Paced
    ReportedOnce
PROPERTIES
    NoBurst
    FreshIsReported
