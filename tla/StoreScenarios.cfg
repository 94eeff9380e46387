SPECIFICATION ScenarioSpec
CONSTANTS
    p1 = p1 p2 = p2
    m1 = m1 m2 = m2 m3 = m3
    c1 = c1 c2 = c2 c3 = c3
    l1 = l1 l2 = l2 l3 = l3
    localA = localA localB = localB remoteA = remoteA
    shortA = shortA shortB = shortB
    None = None
    Procs = {p1}
    Names = {localA, localB}
    Shorts = {shortA, shortB}
    Manifests = {m1, m2, m3}
    Configs = {c1, c2, c3}
    Layers = {l1, l2, l3}
    ShortOf <- McShortOf
    LocalName <- McLocalName
    ConfigOf <- McConfigOf
    LayersOf <- McLayersOf
    Commands1 = {"build", "pull", "tag", "rmi"}
    Commands2 = {}
    CommandsOf <- McCommandsOf
    MaxArgs = 1
    MaxPos = 2
    MaxHistory = 1
    Reuse = FALSE
    FreshBuilds = FALSE
    WriteErrors = FALSE
    LossyRegistry = FALSE
    Crashes = FALSE
INVARIANTS
    StoreIntact
    NoGarbage
    HistoriesIntact
    RecordedOnce
    CrashComplete
PROPERTIES
    ReusedIntact
