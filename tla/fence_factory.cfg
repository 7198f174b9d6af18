SPECIFICATION AllSpec
CONSTANTS
    Ops <- FactoryOps
    MaxRuns = 2
    MaxBoots = 1
    RingN = 2
    MaxEvents = 5
    FileLines = 2
    KeepFiles = 1
    MaxTears = 1
    Nodes <- CardNodes
    Parent <- CardTree
    Dirs <- CardDirs
    Root = "/"
    Logs = "logs"
    LogNames <- CardLogs
    Reserved = {"/", "logs", "roms"}
    Protected = {"events"}
    Hidden = {"events"}
    Image = "roms/i"
    Start <- CardStart
    MaxRequests = 2
    MaxLogs = 2
    MaxFlashes = 1
    MaxFaults = 1
    MaxOpen = 3
    LineMax = 1
    MaxTyped = 3
    MaxClients = 2
PROPERTY NoRebootMidWrite
CHECK_DEADLOCK FALSE
