SPECIFICATION Spec
CONSTANTS
    Nowhere = Nowhere
    a1 = a1
    a2 = a2
    Addresses = {a1, a2}
    b1 = b1
    b2 = b2
    Backgrounds = {b1, b2}
    WarmUps = {}
    r1 = r1
    Recoveries = {r1}
    Limit <- OneEach
INVARIANTS
    RequestReachesRunningThread
