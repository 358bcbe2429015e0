CONSTANTS
    NParts = 2
    NDisks = 4
    Present <- BootPresent
    DiskOf <- BootDiskOf
    BootPart = 2
    XblPart = 1
    IsUfs = TRUE
    ShortWrites = FALSE
    MaxFaults = 1
SPECIFICATION Spec
INVARIANTS
    FreedOnce
