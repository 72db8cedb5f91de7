SPECIFICATION Spec
CONSTANTS
    Conns = {c1, c2}
    Models = {m1, m2}
    NoModel = NoModel
    Sessions = {}
    NoSession = NoSession
    Fresh = Fresh
    NoConn = NoConn
    Broken = Broken
    ChannelCap = 1
CHECK_DEADLOCK FALSE
SYMMETRY ProxySymmetry
INVARIANTS
    TypeOK
    GateExact
    OneWholeAnswer
    GateInv
