SPECIFICATION Spec
CONSTANTS
    Billion = 3
    Word32 = 4
    Word64 = 16
    Self = self
    Ports = {p, q}
    domainNumber = 0
    Domains = {0, 1}
    Corrections = {0, 5}
    DataSets = {d}
    Clock <- Times
    Garbage <- Stack
    MaxSequenceId = 1
    NULL = NULL
INVARIANTS
    ReadAsMeant
    FollowUpCorrection
