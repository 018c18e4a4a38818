CONSTANTS
    Clients = {c1, c2}
    MaxSessions = 2
    MaxLog = 4
    BatchSize = 1
SYMMETRY ClientSymmetry
SPECIFICATION Spec
CHECK_DEADLOCK FALSE
INVARIANT AppendsContinue
