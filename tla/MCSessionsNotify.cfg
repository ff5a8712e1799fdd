CONSTANTS
    A = A
    B = B
    C = C
    Keys = {A, B, C}
    Sids = {1}
    Requests <- MCThreeParties
    Registrations <- MCThreePairs
    Timeout = 0
    WaitTimeout = 0
    DeadPeers = TRUE
SPECIFICATION Spec
CHECK_DEADLOCK FALSE
PROPERTY EveryoneIsNotified
