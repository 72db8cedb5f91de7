SPECIFICATION FairSpec
CONSTANTS
    Writers = {w1, w2}
    Testers = {t1}
    Sessions = {s1, s2}
    Nobody = Nobody
    NoSession = NoSession
    Key <- OneKey
    PoolSize = 1
    Timings <- OneTiming
    Fake <- MCFake
    MaxTurns = 1
INVARIANTS
    DenseTurns
    IndexCurrent
    StoreInv
    RollupMatches
PROPERTIES
    RollupFollows
    ImplementsLog
    RecordingEnds
