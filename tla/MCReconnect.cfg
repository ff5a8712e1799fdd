CONSTANTS
    C1 = C1
    C2 = C2
    C3 = C3
    A = A
    B = B
    Conns = {C1, C2, C3}
    Notifier = Notifier
    Capacity = 1
    Keys = {A, B}
    Participants = {A}
    public_key <- MCOneDenied
    Faults = {"broken", "closed"}
    Allow = {{A, B}}
    Deny = {{B}}
    Reaping = FALSE
SPECIFICATION Spec
CHECK_DEADLOCK FALSE
INVARIANT TypeOK
INVARIANT ActiveEntriesAreReady
INVARIANT HandshakeComesFirst
INVARIANT GuardIsInUse
SYMMETRY MCSymmetry
