CONSTANTS
    NParts = 3
    NDisks = 4
    Present <- LunPresent
    DiskOf <- LunDiskOf
    BootPart = 3
    XblPart = 1
    IsUfs = TRUE
    ShortWrites = FALSE
    MaxFaults = 1
SPECIFICATION Spec
INVARIANTS
    MarkDurable
    OneTablePerFault
PROPERTIES
    ReadBack
    NeverDarkTowardsA
    DarkForever
    GuidLostForever
    GroupZeroMeansSwitched
