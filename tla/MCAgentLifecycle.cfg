SPECIFICATION Spec
CONSTANTS
    Calls = {c1, c2}
    Creators = {c1}
    Resumers = {c2}
    Configurers = {c2}
    None = None
    MaxActivities = 2
INVARIANTS
    LifecycleInv
PROPERTIES
    ImplementsOneLife
    UnloadsEnd
CHECK_DEADLOCK FALSE
