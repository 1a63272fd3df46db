SPECIFICATION MechanismSpec
CONSTANTS
    Masters = {a, b}
    Self = self
    Other = other
    OtherIds = {65534, 65535}
    HwTimestamping = FALSE
    LoopbackLoss = FALSE
    Kinds = {TRUE, FALSE}
    Prompt = TRUE
    InOrder = TRUE
    MaxSequenceId = 65535
    FirstSeq = 65534
    MaxReq = 5
    MaxPReq = 3
    NULL = NULL
INVARIANTS
    TypeOK
    DelayFromOneRequest
    PeerDelayFromOneExchange
PROPERTIES
    MeasuresInOrder
    PeerMeasuresInOrder
