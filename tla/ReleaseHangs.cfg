SPECIFICATION Spec
CONSTANTS
    Threads = {t1, t2}
    None = None
    Size = 1
    MaxOver = 0
CHECK_DEADLOCK FALSE
PROPERTIES
    ReleaseNotifies
