SPECIFICATION WireSpec
CONSTANTS
    Messages <- WireMessages
    Routes <- WireRoutes
    CutSizes <- WireCuts
    Peer <- WirePeer
INVARIANTS RoundTrip WellFormed Unambiguous ReplyReachesSource ReadsWhatIsServed CutNeverWrong
