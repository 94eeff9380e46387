SPECIFICATION Spec
CONSTANTS
    p1 = p1 p2 = p2
    m1 = m1 m2 = m2 m3 = m3
    c1 = c1 c2 = c2 c3 = c3
    l1 = l1 l2 = l2 l3 = l3
    localA = localA localB = localB remoteA = remoteA
    shortA = shortA shortB = shortB
    None = None
    Procs = {p1, p2}
    Names = {localA, localB}
    Shorts = {shortA, shortB}
    Manifests = {m1, m2}
    Configs = {c1, c2}
    Layers = {l1}
    ShortOf <- McShortOf
    LocalName <- McLocalName
    ConfigOf <- McConfigOf
    LayersOf <- McOneLayer
    Commands1 = {"build"}
    Commands2 = {"build"}
    CommandsOf <- McCommandsOf
    MaxArgs = 1
    MaxPos = 2
    MaxHistory = 0
    Reuse = FALSE
    FreshBuilds = FALSE
    WriteErrors = FALSE
    LossyRegistry = FALSE
    Crashes = FALSE
INVARIANTS
    HistoryComplete
