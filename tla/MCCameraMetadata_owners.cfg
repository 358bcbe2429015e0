CONSTANTS
    o1 = o1
    o2 = o2
    b1 = b1
    b2 = b2
    b3 = b3
    c1 = c1
    c2 = c2
    t1 = t1
    t2 = t2
    NULL = NULL
    Objs = {o1, o2}
    Bufs = {b1, b2, b3}
    Holders = {c1, c2}
    Tags = {t1}
    Sizes = {1}
    Capacities <- OneEntry
    AllocFails = TRUE
    Habits = {}
    MaxEntries = 2
SYMMETRY Interchangeable
SPECIFICATION Spec
INVARIANTS
    TypeOK
    OneOwner
    LentPointerValid
PROPERTIES
    ValueSpec
    OkMeansDone
    LeaksOnlyThere
    UndefinedOnlyThere
\* After an undefined call nothing is defined.
CHECK_DEADLOCK FALSE
