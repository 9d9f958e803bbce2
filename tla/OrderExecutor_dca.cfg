SPECIFICATION Spec
CONSTANTS
    u1 = u1
    u2 = u2
    usdc = usdc
    eurc = eurc
    other = other
    Users = {u1}
    Tokens = {usdc, eurc, other}
    Targets = {router}
    Keepers = {keeper1}
    Executor = executor
    Treasury = treasury
    NoRecipient = norecipient
    Orders <- NoOrders
    Permits <- MCPermits
    Intents <- MCIntents
    InitBal <- MCBal
    BPS = 2
    MaxFeeBps = 1
    FeeChoices = {1}
    RateScale = 2
    U160 = 3
    MaxAmount = 3
    MaxTime = 1
    MaxParts = 3
CHECK_DEADLOCK FALSE
INVARIANTS
    DcaRateUpToRounding
    DebitsWithinSignatures
