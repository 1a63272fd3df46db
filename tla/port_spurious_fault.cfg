SPECIFICATION Spec
CONSTANTS
    SlaveOnly = {FALSE}
    E2E_mode = FALSE
    EthernetMode = FALSE
    MaxForeign = 2
    Own <- Ordinary
    Announce <- Masters2
    Length <- Lengths
    Errors = FALSE
    InitMayFail = FALSE
    Punctual = {}
    MaxElapsed = 1
    NULL = NULL
INVARIANT HealthyPortNeverFaults
