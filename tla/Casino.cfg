SPECIFICATION FairSpec
CONSTANTS
    me = me
    net = net
    GUID <- MCGuid
    Thread <- MCThread
    Me = me
    Wire = net
    Matrices <- MCMatrices
    Zeros = "zeros"
    lineCount <- MCLineCount
    lineUnits <- MCLineUnits
    Values <- MCValues
    MaxPending = 2
    MaxBet = 20
    MaxTimers = 2
    MaxLosses = 1
    MaxRestarts = 1
CHECK_DEADLOCK FALSE
INVARIANTS
    ReplicaFollowsServer
    SpinIsVisible
    OneStartAtATime
PROPERTIES
    WinShownIsWinPaid
    ButtonThaws
    StopIsDelivered
