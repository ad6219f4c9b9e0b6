SPECIFICATION Spec
CONSTANTS
    None = None
    RawSpan = 16
    LongSpan = 256
    RawValues <- MCRawValues
    Gains <- MCGains
    MaxTimeouts = 1
    Times = 3
    TareTimes = 5
    Unit = 2
INVARIANT
    TareSetsZero
