SPECIFICATION ControlSpec
CONSTANTS
    Retries = 1
    MaxCommands = 2
INVARIANT AnswerIsOwn
CHECK_DEADLOCK FALSE
