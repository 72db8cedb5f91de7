SPECIFICATION Spec
CONSTANTS
    Writers = {w1, w2}
    Testers = {}
    Sessions = {s1}
    Nobody = Nobody
    NoSession = NoSession
    Key <- OwnKey
    PoolSize = 2
    Timings <- MCTimings
    Fake <- MCFake
    MaxTurns = 2
INVARIANT
    CacheRate
