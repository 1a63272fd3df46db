SPECIFICATION Spec
CONSTANTS
    Billion = 52
    Word32 = 128
    Word64 = 32768
    Options <- EndToEnd
    AdjFreqMax = 8
    IntBits = 6
    Epochs = {2085}
    Start <- Off
    PathDelay = {3}
    MaxPathDelay = 3
    Residence <- PeerToPeerResidence
    Skew = 1
    Jumps <- PeerToPeerJumps
    Prompt = TRUE
    MaxSilence = 1
    MaxTheta = 1600
PROPERTY SetOnlyWhenOff
CHECK_DEADLOCK FALSE
