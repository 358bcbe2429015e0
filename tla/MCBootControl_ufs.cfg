CONSTANTS
    NParts = 4
    NDisks = 6
    Present <- UfsPresent
    DiskOf <- UfsDiskOf
    BootPart = 3
    XblPart = 1
    IsUfs = TRUE
    ShortWrites = TRUE
    MaxFaults = 1
SPECIFICATION Spec
INVARIANTS
    TypeOK
    SwitchedAll
    BootSpeaksForSlot
    ActiveGuid
    InvalidOnlyInWindow
PROPERTIES
    SlotTableSpec
