SPECIFICATION WorkstationSpec
CONSTANTS
    Requesters = {a, b}
    Observed = a
    IdModulus = 2
    Retries = 1
    Lifetime = 2
    MaxRequests = 3
    Alarms = {alarm, chatter}
    Confirmed = {alarm}
    Wanted = {alarm}
    MaxKept = 2
INVARIANTS NoLostWakeup EveryOneAnswered
PROPERTIES ImplementsExchange
CHECK_DEADLOCK FALSE
