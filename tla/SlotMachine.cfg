SPECIFICATION Spec
CONSTANTS
    SLOT_COUNT = 6
    INT_MAX = 511
    Bets <- MCBets
INVARIANTS
    PaysShareTimesUnits
    NoOverpay
    WinningRoundPays
CHECK_DEADLOCK FALSE
