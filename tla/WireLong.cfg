SPECIFICATION WireSpec
CONSTANTS
    Messages <- LongMessages
    Routes <- WireRoutes
    CutSizes <- WireCuts
    Peer <- WirePeer
INVARIANTS RoundTrip
