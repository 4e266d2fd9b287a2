SPECIFICATION PortsSpec
CONSTANTS
    Modes = {"foreground"}
    MaxEffects = 3
    MaxDocs = 0
    Nothing = Nothing
PROPERTY
    ReadingsFresh
CHECK_DEADLOCK FALSE
