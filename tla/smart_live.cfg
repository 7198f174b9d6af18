SPECIFICATION AllSpec
CONSTANTS
    Files <- BootFiles
    Chunks = 1
    Hold = 1
    MaxCuts = 1
    MaxFaults = 2
    MaxUploads = 2
    DriveDelay = 1
    HomeDelay = 2
    Configs <- SmartConfigs
    NoNet = "no network"
    MaxModeSaves = 1
    MaxRadioFaults = 1
    Networks = {1, 2}
    BanAfter = 1
    MaxEvents = 2
    WifiModes = {"APSTA"}
    AutoDisable = TRUE
    Open = {1}
    Reasons = {"r200", "r8"}
    RingN = 1
    TallyN = 2
    Repeat = 1
    Half = 2
    MaxDrops = 3
    Horizon = 3
    MaxLost = 2
PROPERTY TransitionTakesSettings
CHECK_DEADLOCK FALSE
