CONSTANTS
    Argvs <- MCArgvs
    Numbers <- MCNumbers
    TooLong <- MCTooLong
    Unprintable <- MCUnprintable
    InterfaceLists <- MCInterfaceLists
    Peers = {18, 23, 65}
    PrimaryStays = TRUE
    MaxChanges = 3
SPECIFICATION BoundedSpec
INVARIANTS NothingInvented StateHasLabel IdentityAsConfigured BroadcastOnReportedNetwork BroadcastOnServedNetwork
CHECK_DEADLOCK FALSE
