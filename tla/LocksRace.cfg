SPECIFICATION Spec
CONSTANTS
    Commands = {c1, c2}
    None = None
CHECK_DEADLOCK FALSE
INVARIANTS
    WritersExclude
