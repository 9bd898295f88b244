\* Lists of which each may be slower than its period, and the first may fail.
SPECIFICATION Spec
CONSTANTS
    Lists = 3
    Periods <- FastAndSlow
    Failing = {1}
    TransferTimes = {0, 2}
    ConnectTimes = {1}
    EIP_TIMEOUT = 3
    EIP_MIN_TIMEOUT = 1
    MaxDelay = 3
    Horizon = 16
    MaxLate <- WorstCase
INVARIANTS
    TypeOK NoOversleep NotStarved
PROPERTIES
    PeriodKept
CHECK_DEADLOCK FALSE
