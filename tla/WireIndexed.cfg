SPECIFICATION WireSpec
CONSTANTS
    Messages <- IndexedMessages
    Routes <- WireRoutes
    CutSizes <- WireCuts
    Peer <- WirePeer
INVARIANTS MultipleReadsTheSame
