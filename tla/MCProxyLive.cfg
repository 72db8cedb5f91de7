SPECIFICATION FairSpec
CONSTANTS
    Conns = {c1}
    Models = {m1, m2}
    NoModel = NoModel
    Sessions = {s1, s2}
    NoSession = NoSession
    Fresh = Fresh
    NoConn = NoConn
    Broken = Broken
    ChannelCap = 1
CHECK_DEADLOCK FALSE
PROPERTIES
    GateReleased
    StreamEnds
INVARIANT HeaderBinds
