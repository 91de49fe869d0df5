SPECIFICATION Spec
CONSTANTS
    Characters <- Units
    CommandLines <- Vectors
    LibraryCommands <- Commands
    CallerEnvironment <- Environment
    MaxKids = 2
CHECK_DEADLOCK FALSE
INVARIANTS
    RunsAtMostOnce
    LeaseCoversTree
    StartedAsAsked
    SuccessIsReal
PROPERTIES
    RunEnds
