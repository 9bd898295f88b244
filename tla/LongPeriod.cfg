\* One list with a period above the delay that is believed.
SPECIFICATION Spec
CONSTANTS
    Lists = 1
    Periods <- OneSlow
    Failing = {}
    TransferTimes = {0, 2}
    ConnectTimes = {1}
    EIP_TIMEOUT = 3
    EIP_MIN_TIMEOUT = 1
    MaxDelay = 3
    Horizon = 16
    MaxLate <- WorstCase
INVARIANTS
    DelayHandled
CHECK_DEADLOCK FALSE
