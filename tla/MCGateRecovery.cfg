SPECIFICATION RecoverySpec
CONSTANTS
    w1 = w1
    w2 = w2
    w3 = w3
    Workers = {w1, w2, w3}
    NoWorker = NoWorker
    Commands <- LeasesOnly
INVARIANTS
    SecondDiscoveryNeverLost
PROPERTIES
    SecondDiscoveryHappens
    Spec
