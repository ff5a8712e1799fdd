CONSTANTS
    C1 = C1
    C2 = C2
    C3 = C3
    A = A
    B = B
    Conns = {C1}
    Notifier = Notifier
    Capacity = 1
    Keys = {A}
    Participants = {A}
    public_key <- MCSingle
    Faults = {"broken"}
    Allow = {}
    Deny = {}
    Reaping = TRUE
SPECIFICATION FairSpec
CHECK_DEADLOCK FALSE
PROPERTY PurgeHappens
