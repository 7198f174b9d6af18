SPECIFICATION AllSpec
CONSTANTS
    Ops <- OwnerOps
    Pids = 2
    Withheld = 1
    FlushPeriod = 1
    Debounce = 1
    SdRetry = 1
    RotateRows = 1
    CloseWait = 1
    RingCap = 2
    MaxRows = 4
    MaxTrips = 2
    MaxClients = 2
    Narrow = 2
    Wide = 3
    LengthMod = 3
    Packets = 1
    MaxLine = 2
    TxCap = 1
    RxCap = 1
    MaxEvents = 2
    MaxBytes = 3
    MaxLinks = 1
    MaxTyped = 1
    MaxEnables = 1
INVARIANT BusSafe
PROPERTY DriveIsRecorded
PROPERTY TripIsKept
PROPERTY StreamIsTrue
PROPERTY PhoneIsServed
CHECK_DEADLOCK FALSE
