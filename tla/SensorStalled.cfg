SPECIFICATION SensorSpec
CONSTANTS
    Cycle = 12
    MaxLag = 2
    MaxNudges = 1
INVARIANTS TypeOK ReadingBounded FaultReportedInTime
PROPERTY RampSwings
