SPECIFICATION Spec
CONSTANTS
    h1 = h1
    h2 = h2
    hid1 = hid1
    hid2 = hid2
    file1 = file1
    event1 = event1
    t1 = t1
    t2 = t2
    Handles = {h1, h2}
    Hids = {hid1, hid2}
    Files = {file1}
    Events = {event1}
    Threads = {t1, t2}
    NoHandle = NoHandle
    NoObject = NoObject
SYMMETRY RevocationSymmetry
INVARIANTS
    SweepClosesWhatItProbed
    ListedHidsAreClosed
