CONSTANTS
    Messages = {m1, m2}
    MaxTurns = 2
    MaxSteps = 2
    MaxToolTurns = 1
    MaxCrashes = 2
SYMMETRY MessageSymmetry
SPECIFICATION Spec
CHECK_DEADLOCK FALSE
INVARIANTS RecoveryInv EffectsStay EffectsAreRemembered NothingVanishes
