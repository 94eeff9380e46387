SPECIFICATION Spec
CONSTANTS
    p1 = p1 p2 = p2
    w1 = w1 w2 = w2
    partial = partial a = a b = b foreign = foreign native = native
    Nothing = Nothing
    Partial = partial
    Procs = {p1}
    CommandsOf <- McCommandsOf
    Layers = {partial, a, foreign, native}
    Working = {w1}
    Repack <- McRepack
    PullImages <- McOneForeign
    Contents = {a}
    MaxLayers = 2
    MaxRetry = 0
    CopyFails = FALSE
    LostBlobs = FALSE
    Crashes = FALSE
INVARIANTS
    BaseKept
