SPECIFICATION ScenarioSpec
CONSTANTS
    p1 = p1 p2 = p2
    w1 = w1 w2 = w2
    partial = partial a = a b = b foreign = foreign native = native
    Nothing = Nothing
    Partial = partial
    Procs = {p1, p2}
    CommandsOf <- McCommandsOf
    Layers = {partial, a, b}
    Working = {w1, w2}
    Repack <- McRepack
    PullImages <- McOwn
    Contents = {a}
    MaxLayers = 2
    MaxRetry = 1
    CopyFails = TRUE
    LostBlobs = FALSE
    Crashes = TRUE
INVARIANTS
    LayerTypeOK
    AloneUnpacked
PROPERTIES
    ListedUnlessAgain
    KeptUnlessAgain
    BuiltUnlessAgain
