SPECIFICATION ProgramSpec
CONSTANTS
    MaxLines = 4
    MaxForeign = 1
INVARIANTS NothingMissedAtExit EachTextOnce NoOrphan CountsAgree
PROPERTIES EveryCallReturns
CHECK_DEADLOCK FALSE
