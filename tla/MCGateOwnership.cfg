SPECIFICATION Spec
CONSTANTS
    w1 = w1
    w2 = w2
    w3 = w3
    Workers = {w1, w2, w3}
    NoWorker = NoWorker
    Commands <- AllCommands
INVARIANTS
    CountsMatchOwners
    SteamMatchesGate
    DetoursBeforeBlocking
    OwnersAnsweredAfterSweep
PROPERTIES
    ReleaseCompletes
    GateSpec
