CONSTANTS
    A = A
    B = B
    C = C
    Keys = {A, B}
    Sids = {1}
    Requests <- MCTwoParties
    Registrations <- MCTwoPairs
    Timeout = 1
    WaitTimeout = 1
    DeadPeers = TRUE
SPECIFICATION Spec
CHECK_DEADLOCK FALSE
INVARIANT VerdictIsGiven
