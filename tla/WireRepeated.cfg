SPECIFICATION WireSpec
CONSTANTS
    Messages <- RepeatedMessages
    Routes <- WireRoutes
    CutSizes <- WireCuts
    Peer <- WirePeer
INVARIANTS MultipleReadsTheSame
