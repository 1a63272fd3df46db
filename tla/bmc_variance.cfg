SPECIFICATION Spec
CONSTANT Sample <- Clocks
INVARIANT GrandmastersAreTold
