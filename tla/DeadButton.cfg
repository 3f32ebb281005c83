SPECIFICATION FairSpec
CONSTANTS
    me = me
    net = net
    GUID <- MCGuid
    Thread <- MCThread
    Me = me
    Wire = net
    Matrices <- MCMatrices
    Zeros = "zeros"
    lineCount <- MCLineCount
    lineUnits <- MCLineUnits
    Values <- MCValues
    MaxPending = 2
    MaxBet = 10
    MaxTimers = 1
    MaxLosses = 0
    MaxRestarts = 0
CHECK_DEADLOCK FALSE
PROPERTIES StartIsConfirmed
