SPECIFICATION Spec
CONSTANTS
    p1 = p1 p2 = p2
    m1 = m1 m2 = m2
    c1 = c1 c2 = c2
    l1 = l1
    t1 = t1
    None = None
    Mixed = Mixed
    Pushers = {p1, p2}
    Manifests = {m1}
    Configs = {c1}
    Layers = {l1}
    Tags = {t1}
    ConfigOf <- McConfigOf
    LayersOf <- McLayersOf
    MaxRetry = 1
    MaxFaults = 2
    Formats = {TRUE, FALSE}
    Dialects = {"understood", "state", "relative"}
INVARIANTS
    PushTypeOK
    FailureHasCause
PROPERTIES
    RepositorySpec
    PushAdvances
    PushEnds
    Resumed
