CONSTANTS
    A = A
    B = B
    C = C
    Keys <- MCKeys
    KeyIndex <- MCIndex
    Jobs <- MCKeygenThree
SPECIFICATION FairSpec
CHECK_DEADLOCK FALSE
PROPERTY EveryoneFinishes
