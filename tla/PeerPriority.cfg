CONSTANTS
    Values = {low, high}
    Null = Null
    RelinquishDefault = low
    Slots = 2
    Priorities = {0, 3}
    MaxRequests = 1
SPECIFICATION PeerSpec
PROPERTY EveryRequestHandled
