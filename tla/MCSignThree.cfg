CONSTANTS
    A = A
    B = B
    C = C
    Keys <- MCKeys
    KeyIndex <- MCIndex
    Jobs <- MCSignThree
SPECIFICATION Spec
CHECK_DEADLOCK FALSE
INVARIANT NobodyFailsBeforeClose
