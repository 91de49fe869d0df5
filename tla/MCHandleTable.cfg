SPECIFICATION Spec
CONSTANTS
    TableSize = 3
    ProbeLimit = 2
    Keys <- CollidingKeys
    Hash <- CollidingHash
    t1 = t1
    t2 = t2
    Threads = {t1, t2}
INVARIANTS
    OneEntryPerKey
    HidCountExact
PROPERTIES
    MapSpec
