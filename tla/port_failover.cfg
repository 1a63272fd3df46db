SPECIFICATION FairSpec
CONSTANTS
    SlaveOnly = {FALSE}
    E2E_mode = FALSE
    EthernetMode = TRUE
    MaxForeign = 2
    Own <- Ordinary
    Announce <- TwoSuperior
    Length <- Lengths
    Errors = FALSE
    InitMayFail = FALSE
    Punctual = {}
    MaxElapsed = 1
    NULL = NULL
PROPERTY SilentParentIsLeft
