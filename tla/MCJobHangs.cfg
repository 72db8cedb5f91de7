SPECIFICATION FairSpec
CONSTANTS
    Clients = {c1, c2}
    Files <- MCFiles
    NoFile = NoFile
    Ids <- MCIds
    Id <- MCId
    Configured <- MCConfigured
    MaxHistory = 1
PROPERTY
    DownloadEnds
