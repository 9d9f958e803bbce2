SPECIFICATION FairSpec
CONSTANTS
    a = a
    b = b
    c = c
    Sigs = {a, b, c}
    NonceOf <- MCNonceOf
    DeadlineOf <- MCDeadlineOf
    HasJob <- MCHasJob
    Faults = {"rpc"}
    NoSig = nosig
    Margin = 0
    Limit = 1
    MaxRows = 2
    MaxTx = 2
    MaxTime = 3
    MaxCrashes = 0
INVARIANT
    FinalIsTruthful
PROPERTIES
    EveryOrderSettles
    DeliverableFollowsFill
    RefinesLifecycle
