SPECIFICATION Spec
CONSTANTS
    SlaveOnly = {TRUE, FALSE}
    E2E_mode = TRUE
    EthernetMode = FALSE
    MaxForeign = 2
    Own <- Ordinary
    Announce <- Masters3
    Length <- Lengths
    Errors = TRUE
    InitMayFail = TRUE
    Punctual = {}
    MaxElapsed = 1
    NULL = NULL
INVARIANTS
    TypeOK
    ReadsWrittenSlots
    DecidedBeforeNextMessage
    BestSoFar
    TimersMatchState
    ParentMatchesState
