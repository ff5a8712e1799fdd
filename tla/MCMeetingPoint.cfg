CONSTANTS
    u1 = u1
    u2 = u2
    u3 = u3
    u4 = u4
    Keys = {"kA", "kB", "kC"}
    Users = {u1, u2, u3, u4}
    Mids = {1}
    Requests <- MCRequests
    Timeout = 1
SPECIFICATION FairSpec
CHECK_DEADLOCK FALSE
INVARIANT TypeOK
INVARIANT AnnouncedListIsFinal
INVARIANT ReadyMeansEveryoneJoined
PROPERTY WaitersEnd
