SPECIFICATION GameSpec
CONSTANTS
    a = a
    b = b
    t1 = t1
    t2 = t2
    GUID <- MCClients
    Thread <- MCThreads
    Matrices <- MCWinning
    Zeros = "zeros"
    lineCount <- MCLineCount
    lineUnits <- MCLineUnits
    Values <- MCNegative
    Overlap = FALSE
    MaxBet = 10
    OfflineBets <- MCOfflineBets
    MaxOfflineBet = 20
SYMMETRY Symmetric
INVARIANTS
    SpinStopAnswerCoherent
    OfflineRoundIsTold
PROPERTIES
    SettledOnce
    AtomicRequests
