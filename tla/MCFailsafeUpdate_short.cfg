CONSTANTS
    i1 = i1
    i2 = i2
    i3 = i3
    NLuns = 2
    Images <- TwoImages
    LunOf <- TwoLuns
    HasXbl = TRUE
    Client = "any"
    TornHeaders = TRUE
    ShortWrites = TRUE
    StatFails = TRUE
    MaxFaults = 2
SPECIFICATION Spec
INVARIANTS
    SignatureLeft
    StuckPerFault
PROPERTIES
    StuckForever
