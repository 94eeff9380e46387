SPECIFICATION Spec
CONSTANTS
    p1 = p1 p2 = p2
    m1 = m1 m2 = m2
    c1 = c1 c2 = c2
    l1 = l1
    t1 = t1
    None = None
    Mixed = Mixed
    Pushers = {p1}
    Manifests = {m1, m2}
    Configs = {c1, c2}
    Layers = {l1}
    Tags = {t1}
    ConfigOf <- McConfigOf
    LayersOf <- McLayersOf
    MaxRetry = 1
    MaxFaults = 1
    Formats = {FALSE}
    Dialects = {"understood"}
INVARIANTS
    SuccessNamesImage
