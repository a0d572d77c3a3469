CONSTANTS
    Values = {low, high}
    Null = Null
    RelinquishDefault = low
    Slots = 2
    Priorities = {0, 1}
    MaxRequests = 3
SPECIFICATION PeerSpec
INVARIANTS ServedIsWinning WritesAreKept
PROPERTIES NullOnlyIfSwitched EveryRequestHandled
