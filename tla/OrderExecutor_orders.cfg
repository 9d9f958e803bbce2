SPECIFICATION Spec
CONSTANTS
    u1 = u1
    u2 = u2
    usdc = usdc
    eurc = eurc
    other = other
    Users = {u1, u2}
    Tokens = {usdc, eurc, other}
    Targets = {router}
    Keepers = {keeper1}
    Executor = executor
    Treasury = treasury
    NoRecipient = norecipient
    Orders <- MCOrders
    Permits <- NoDca
    Intents <- NoDca
    InitBal <- MCBal
    BPS = 2
    MaxFeeBps = 1
    FeeChoices = {0, 1, 2}
    RateScale = 2
    U160 = 8
    MaxAmount = 2
    MaxTime = 2
    MaxParts = 2
CHECK_DEADLOCK FALSE
INVARIANTS
    TypeOK
    
    NonceFillsOnce
    FillsHonourMinOut
