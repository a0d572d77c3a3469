SPECIFICATION ControlSpec
CONSTANTS
    Retries = 1
    MaxCommands = 2
INVARIANTS SettledAnswerIsOwn SuccessWasCarriedOut
PROPERTY AskReturns
CHECK_DEADLOCK FALSE
