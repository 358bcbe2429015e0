CONSTANTS
    i1 = i1
    i2 = i2
    i3 = i3
    NLuns = 2
    Images <- ThreeImages
    LunOf <- UnevenLuns
    HasXbl = TRUE
    Client = "resume"
    TornHeaders = TRUE
    ShortWrites = FALSE
    StatFails = FALSE
    MaxFaults = 3
SPECIFICATION Spec
INVARIANTS
    BootChainIntact
    ReadyForUpdate
    NeverRefused
PROPERTIES
    BootChainSpec
