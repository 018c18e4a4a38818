CONSTANTS
    Commands = {c}
    Tools = {t}
    TempFiles = {f1}
    CacheFiles = {f2}
    NoOne = NoOne
CHECK_DEADLOCK FALSE
SPECIFICATION CleanSpec
INVARIANT StampIsTrue
