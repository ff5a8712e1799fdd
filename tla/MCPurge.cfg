CONSTANTS
    C1 = C1
    C2 = C2
    C3 = C3
    A = A
    B = B
    Conns = {C1, C2}
    Notifier = Notifier
    Capacity = 1
    Keys = {A, B}
    Participants = {A, B}
    public_key <- MCTwoClients
    Faults = {}
    Allow = {}
    Deny = {}
    Reaping = TRUE
SPECIFICATION FairSpec
CHECK_DEADLOCK FALSE
PROPERTY PurgeHappens
