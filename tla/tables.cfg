SPECIFICATION AllSpec
CONSTANTS
    MaxStores = 3
    MaxTests = 2
    MaxFaults = 1
    EngineOff = 3
    GateStale = 1
    Probe = 1
    FlipMin = 1
    MaxQuiesce = 2
    Withheld = 1
    GateOff = 1
    RpmStale = 1
    Confirms = 1
    Every = 5
    Secrets = {"old", "new"}
    MaxSaves = 2
    MaxDebugs = 1
    MaxConfigFaults = 1
    Held = Held
    Short = Short
    Absent = Absent
    Odd = Odd
    Broken = Broken
    NoFile = NoFile
INVARIANT ConfigIsKept
PROPERTY TableIsSound
PROPERTY ChangesTakeHold
PROPERTY GateIsTrue
PROPERTY UploadIsWhole
CHECK_DEADLOCK FALSE
