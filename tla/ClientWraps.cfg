SPECIFICATION ClientSpec
CONSTANTS
    IdModulus = 3
    Retries = 1
    Lifetime = 3
    MaxRequests = 5
INVARIANTS AnswersOwnRequest
PROPERTIES ImplementsExchange
CHECK_DEADLOCK FALSE
