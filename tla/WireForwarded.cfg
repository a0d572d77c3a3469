SPECIFICATION WireSpec
CONSTANTS
    Messages <- WhoIsMessages
    Routes <- ForwardedRoutes
    CutSizes <- WireCuts
    Peer <- WirePeer
INVARIANTS AnswerGoesBack
