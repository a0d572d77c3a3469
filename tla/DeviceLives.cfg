SPECIFICATION DeviceSpec
CONSTANTS
    Cycle = 12
    MaxLag = 1
    MaxNudges = 0
    Requests = {r1}
    MaxErrors = 1
PROPERTIES EveryRequestAnswered ShutdownEnds
CHECK_DEADLOCK FALSE
