SPECIFICATION Spec
CONSTANTS
    c1 = c1
    c2 = c2
    g1 = g1
    g2 = g2
    p1 = p1
    stateExport = stateExport
    guideExport = guideExport
    Proxies = {p1}
    Payloads = {g1, g2}
    Clients = {c1, c2}
    PayloadPath <- OwnCopies
    Required = {stateExport}
    Optional = {guideExport}
    MaxFailures = 2
INVARIANTS
    WorkerNeverUnmapped
    ReadyIsComplete
    RetiresOnlyWhenPersistent
    PathOutlivesReader
    SecondImageHasACause
PROPERTIES
    ServerComesBack
