SPECIFICATION Spec
CONSTANTS
    a = a
    b = b
    c = c
    Sigs = {a, b, c}
    NonceOf <- MCNonceOf
    DeadlineOf <- MCDeadlineOf
    HasJob <- MCHasJob
    Faults = {"crash", "timeout", "lostAck", "rpc", "submit"}
    NoSig = nosig
    Margin = 0
    Limit = 1
    MaxRows = 2
    MaxTx = 3
    MaxTime = 2
    MaxCrashes = 1
INVARIANTS
    TypeOK
    FilledIsBacked
PROPERTIES
    FinalUnlessDeliverableFails
