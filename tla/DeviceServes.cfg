SPECIFICATION DeviceSpec
CONSTANTS
    Cycle = 12
    MaxLag = 1
    MaxNudges = 1
    Requests = {r1, r2}
    MaxErrors = 1
INVARIANTS AnsweredWithoutTimer CleanExit InPhase
PROPERTIES ImplementsSensor
SYMMETRY RequestSymmetry
