SPECIFICATION FairSpec
CONSTANTS
    k1 = k1
    k2 = k2
    k3 = k3
    k4 = k4
    Keys <- ClientKeys
    Clones = {a, b}
    Driver = driver
    Loop = loop
    NoOne = noone
    Capacity = 2
    CountBits = 2
    MaxBuffer = 4
    TagLen = 1
    Scripts <- MCScripts
INVARIANTS TypeOK PeersCanRead RequestsArrive EventsInOrder ChunksFit PanicsAreProvoked
PROPERTIES BlockedForEver DoneUnlessFull
CHECK_DEADLOCK FALSE
