SPECIFICATION WebSpec
CONSTANTS
    t1 = t1
    t2 = t2
    t3 = t3
    x1 = x1
    x2 = x2
    x3 = x3
    None = None
    Handler <- MCHandlers
    Connection <- MCConnections
    MinThreads = 1
    MaxThreads = 2
    MaxChunks = 1
    Server <- MCThreads
    Session <- MCNames
    ExpirationTime = 0
    MaxTicks = 1
    Nobody = Nobody
    Reader <- MCThreads
    Path <- MCNames
    Size <- MCSizes
    MaxVersion = 2
    MaxTime = 2
    CacheTimeout = 1
    MaxCost = 1
    MaxCachedFileSize = 1
    Writer <- MCThreads
    MessageTypes = {0, 2}
    Settings <- MCSettings
    Installed = TRUE
    Failures = {"open", "write"}
    MaxMessages = 4
    Processes = 3
    FlagSets <- MCFlagSets
    Devices <- MCNames
    MaxKills = 1
    Calls = {"", "-t", "-p"}
SYMMETRY MCSymmetry
INVARIANTS
    WebTypeOK
    OneConnectionEach
    RequestFromOneClient
    TimerArmed
    CleanupSparesUsed
    DataLivesWhileReferenced
    NotStalerThanTimeout
    
    NoStaleFile
    NobodyWaitsInVain
PROPERTIES
    MinimumKept
