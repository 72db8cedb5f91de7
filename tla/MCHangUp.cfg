SPECIFICATION Spec
CONSTANTS
    Pids = {p1, p2}
    Models = {m1, m2}
    Clients = {c1}
    Poller = poller
    Main = main
    NoPid = NoPid
    NoModel = NoModel
    NoActor = NoActor
    RestartOnCrash = TRUE
    MaxRestarts = 1
    RestartModulus = 256
    DisconnectAt <- SpawnPidAwait
    PidReuse = FALSE
INVARIANT NoOrphan
