SPECIFICATION TradingSpec
CONSTANTS
    u1 = u1
    usdc = usdc
    tok = tok
    plain = plain
    Users = {u1}
    Keys = {key1, key2}
    Tokens = {usdc, tok}
    Pools = {plain}
    Hooks = {}
    Executor = executor
    Manager = manager
    NoHook = nohook
    NoGrant = nogrant
    PoolKey <- MCPoolKey
    SignedOrders = {}
    SessionOrders <- MCOrders
    Grants <- MCGrants
    InitBal <- MCBal
    InitPools = {plain}
    Testnet = FALSE
    U128 = 8
    MaxOut = 1
    MaxTime = 1
    MaxGrants = 1
    Rows = {1}
    OrderOf <- MCOrderOf
    Keepers = {main, thread}
    Looping = {main}
    NoKeeper = nokeeper
    NoRow = norow
    NoKey = nokey
    Limit = 2
    MaxFaults = 1
CHECK_DEADLOCK FALSE
INVARIANTS
    TradingTypeOK
    PaysOncePerOrder
    OnlyPlacedOrdersFill
PROPERTIES
    FilledIsReported
