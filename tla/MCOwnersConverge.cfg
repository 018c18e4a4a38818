SPECIFICATION Spec
CONSTANTS
    Calls = {c1, c2}
    Creators = {c1}
    Resumers = {c2}
    Configurers = {}
    None = None
    MaxActivities = 2
INVARIANTS
    OwnersConverge
CHECK_DEADLOCK FALSE
