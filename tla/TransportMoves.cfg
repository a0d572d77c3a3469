CONSTANTS
    Argvs <- MCArgvs
    Numbers <- MCNumbers
    TooLong <- MCTooLong
    Unprintable <- MCUnprintable
    InterfaceLists <- MCInterfaceLists
    Peers = {18, 23, 65}
    PrimaryStays = FALSE
    MaxChanges = 3
SPECIFICATION BoundedSpec
INVARIANT BroadcastOnReportedNetwork
CHECK_DEADLOCK FALSE
