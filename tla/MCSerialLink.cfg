SPECIFICATION FairSpec
CONSTANTS
    Lines <- MCLines
    MaxLine = 3
    Chunk = 4
    Commands <- MCCommands
    MaxCommand = 3
    None = None
INVARIANTS
    ReceivedWhole
    InOrder
PROPERTIES
    CommandsArrive
    PortComesBack
