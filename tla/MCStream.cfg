SPECIFICATION FairSpec
CONSTANTS
    Answers <- MCAnswers
    MaxBuf = 2
    ChannelCap = 2
    NoTurn = NoTurn
CHECK_DEADLOCK FALSE
INVARIANTS
    StreamInv
    LinesFed
    TurnWhole
    CleanEnd
PROPERTIES
    ImplementsTask
    DrainEnds
