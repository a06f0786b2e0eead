CONSTANTS
    server = server
    tool = tool
    Server = server
    Tools <- MCTools
    MaxDay = 2
    MaxSize = 3
    MaxLine = 2
    MaxLines = 6
    ToolLines = 1
    MaxFaults = 3
CHECK_DEADLOCK FALSE
SPECIFICATION Spec
INVARIANTS
    ServerLinesSurvive
    FilesInv
PROPERTY
    ArchivesStay
