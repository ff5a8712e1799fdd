CONSTANTS
    A = A
    B = B
    C = C
    Keys = {A, B, C}
    Sids = {1}
    Requests <- MCThreeParties
    Registrations <- MCThreePairs
    Timeout = 0
    WaitTimeout = 0
    DeadPeers = TRUE
SPECIFICATION FairSpec
CHECK_DEADLOCK FALSE
INVARIANT TypeOK
INVARIANT ActiveMeansConnected
INVARIANT OneVerdict
INVARIANT NotifiedSoFar
INVARIANT FinishedMeansGone
PROPERTY ReadyComesFirst
PROPERTY WaitersEnd
PROPERTY UnusedSessionsGoAway
PROPERTY OnlyTheDeadCutOff
PROPERTY ImplementsLife
