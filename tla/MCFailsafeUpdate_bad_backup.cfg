CONSTANTS
    i1 = i1
    i2 = i2
    i3 = i3
    NLuns = 1
    Images <- OneImage
    LunOf <- OneLun
    HasXbl = FALSE
    Client = "resume"
    TornHeaders = FALSE
    ShortWrites = FALSE
    StatFails = FALSE
    MaxFaults = 1
SPECIFICATION FairSpec
PROPERTIES
    StageSettles
