CONSTANTS
    Argvs <- MCArgvs
    Numbers <- MCNumbers
    TooLong <- MCTooLong
    Unprintable <- MCUnprintable
    InterfaceLists <- MCInterfaceLists
    Peers = {18, 23, 65}
    PrimaryStays = TRUE
    MaxChanges = 3
SPECIFICATION BoundedSpec
INVARIANT BroadcastLeavesTheDevice
CHECK_DEADLOCK FALSE
