CONSTANTS
    i1 = i1
    i2 = i2
    i3 = i3
    NLuns = 2
    Images <- TwoImages
    LunOf <- TwoLuns
    HasXbl = FALSE
    Client = "probe"
    TornHeaders = TRUE
    ShortWrites = FALSE
    StatFails = FALSE
    MaxFaults = 3
SPECIFICATION FairSpec
PROPERTIES
    GrantedAgain
