SPECIFICATION ScenarioSpec
CONSTANTS
    p1 = p1 p2 = p2
    m1 = m1 m2 = m2 m3 = m3
    c1 = c1 c2 = c2 c3 = c3
    l1 = l1 l2 = l2 l3 = l3
    localA = localA localB = localB remoteA = remoteA
    shortA = shortA shortB = shortB
    None = None
    Procs = {p1}
    Names = {localA, localB}
    Shorts = {shortA, shortB}
    Manifests = {m1, m2}
    Configs = {c1, c2}
    Layers = {l1}
    ShortOf <- McShortOf
    LocalName <- McLocalName
    ConfigOf <- McConfigOf
    LayersOf <- McOneLayer
    Commands1 = {"build", "pull", "tag", "config", "rmi"}
    Commands2 = {"build", "pull", "tag", "config", "rmi"}
    CommandsOf <- McCommandsOf
    MaxArgs = 1
    MaxPos = 2
    MaxHistory = 1
    Reuse = TRUE
    FreshBuilds = FALSE
    WriteErrors = TRUE
    LossyRegistry = TRUE
    Crashes = FALSE
INVARIANTS
    TypeOK
    NamesUnique
    KeepsNames
    RecordedOnceAfterDeaths
PROPERTIES
    CatalogSpec
