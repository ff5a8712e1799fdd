CONSTANTS
    C1 = C1
    C2 = C2
    C3 = C3
    A = A
    B = B
    Conns = {C1, C2}
    Notifier = Notifier
    Capacity = 1
    Keys = {A}
    Participants = {A}
    public_key <- MCOneClient
    Faults = {"broken"}
    Allow = {}
    Deny = {}
    Reaping = FALSE
SPECIFICATION Spec
CHECK_DEADLOCK FALSE
PROPERTY SoundConnectionsStayActive
