SPECIFICATION DetourSafety
CONSTANTS
    w1 = w1
    w2 = w2
    w3 = w3
    c1 = c1
    c2 = c2
    Workers = {w1, w2, w3}
    NoWorker = NoWorker
    Commands <- OwnershipCommands
    Callers = {c1, c2}
SYMMETRY WorkerSymmetry
INVARIANTS
    AdmittedOnlyWhenOpen
