SPECIFICATION AllSpec
CONSTANTS
    SleepTime = 1
    FlashRetry = 1
    StuckCeiling = 2
    WakeHold = 1
    WakeInterval = 1
    RecoverSamples = 2
    Limit = 3
    Cooldown = 2
    Strikes = 2
    CleanReads = 2
    MaxJumps = 1
    Absurd = 4
    MaxStreak = 5
    MaxForgotten = 1
    RingMax = 1
    EvMax = 2
    CmdMax = 1
    MaxNudges = 2
    MaxLockFails = 1
    SettlePasses = 1
    ClientMonitors = FALSE
    Loads <- ElmLoads
    Lines = 2
    Attempts = 2
    MaxDrops = 2
    MaxBoots = 3
INVARIANT ChipIsRepaired
INVARIANT WakeIsTrue
PROPERTY SleepSafe
PROPERTY BatteryLive
PROPERTY ElmIsShared
PROPERTY ClocksAreTrue
CHECK_DEADLOCK FALSE
