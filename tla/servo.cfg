SPECIFICATION Spec
CONSTANTS
    Billion = 52
    Word32 = 128
    Word64 = 32768
    Options <- Both
    AdjFreqMax = 2
    IntBits = 6
    Epochs = {2085}
    Start <- Off
    PathDelay = {12}
    MaxPathDelay = 12
    Residence <- PeerToPeerResidence
    Skew = 1
    Jumps <- PeerToPeerJumps
    Prompt = TRUE
    MaxSilence = 2
    MaxTheta = 1600
INVARIANTS
    NormalTimes
    FilterFits
    PathDelayPlausible
PROPERTIES
    SetOnlyWhenOff
    Settles
CHECK_DEADLOCK FALSE
