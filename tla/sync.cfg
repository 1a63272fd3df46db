SPECIFICATION Spec
CONSTANTS
    a = a
    b = b
    NULL = NULL
    Masters = {a, b}
    Kinds <- Mixed
    Prompt = TRUE
    MaxSequenceId = 65535
    FirstSeq <- Wrapping
    MaxSync = 2
INVARIANTS
    TypeOK
    StackNeverOverflows
    FollowUpNamesItsSync
    OffsetFromOneSync
    MeasuredOnce
PROPERTY MeasuresInOrder
