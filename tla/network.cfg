SPECIFICATION FairSpec
CONSTANTS
    Clocks <- Three
    SlaveOnly <- Slaves
    MaxCrashes = 2
    NULL = NULL
INVARIANT NoRing
PROPERTIES
    BestClockWins
    OneMasterRemains
