SPECIFICATION ServerSpec
CONSTANTS
    a = a
    b = b
    t1 = t1
    t2 = t2
    GUID <- MCClient
    Thread <- MCThreads
    Matrices <- MCMatrices
    Zeros = "zeros"
    lineCount <- MCLineCount
    lineUnits <- MCLineUnits
    Values <- MCNegative
    Overlap = TRUE
    MaxBet = 20
    OfflineBets <- MCOfflineBets
    MaxOfflineBet = 20
SYMMETRY Symmetric
PROPERTIES
    AtomicRequests
