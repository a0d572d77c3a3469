SPECIFICATION SensorSpec
CONSTANTS
    Cycle = 12
    MaxLag = 2
    MaxNudges = 0
INVARIANT InPhase
