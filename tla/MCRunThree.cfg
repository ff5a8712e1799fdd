CONSTANTS
    A = A
    B = B
    C = C
    Keys <- MCKeys
    KeyIndex <- MCIndex
    Jobs <- MCJobs
SPECIFICATION FairSpec
CHECK_DEADLOCK FALSE
INVARIANT TypeOK
INVARIANT OneInitiatorPerPair
INVARIANT ActiveWhenAllRegistered
INVARIANT PartyNumbersIdentifyKeys
INVARIANT NoPanic
INVARIANT NobodyFailsBeforeClose
INVARIANT OnlyKeyOrderFinishes
INVARIANT ActiveMeansChannels
INVARIANT NothingIgnored
INVARIANT LockStep
PROPERTY OwnerFinishes
PROPERTY PairFinishes
