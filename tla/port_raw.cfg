SPECIFICATION FairSpec
CONSTANTS
    SlaveOnly = {TRUE, FALSE}
    E2E_mode = FALSE
    EthernetMode = TRUE
    MaxForeign = 3
    Own <- Ordinary
    Announce <- Three
    Length <- Lengths
    Errors = FALSE
    InitMayFail = FALSE
    Punctual <- TwoPunctual
    MaxElapsed = 2
    NULL = NULL
INVARIANTS
    HealthyPortNeverFaults
    SlaveOnlyObeyed
PROPERTIES
    KeepsPromise
    SlaveIsSteady
    QuietNetworkLeadsToMaster
    MasterKeepsSending
