SPECIFICATION AllSpec
CONSTANTS
    Ops <- LeaseOps
    ParkTTL = 1
    ClaimTTL = 1
    Grace = 1
    Quiesce = 1
    StuckCeiling = 2
    MaxTime = 5
    HostHorizon = 5
    MaxToken = 2
    MaxGen = 1
INVARIANT CoexistInv
PROPERTY LeasesKeepPromises
PROPERTY BusyFlashKeepsLeases
CHECK_DEADLOCK TRUE
