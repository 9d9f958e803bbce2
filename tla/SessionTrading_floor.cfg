SPECIFICATION TradingSpec
CONSTANTS
    u1 = u1
    usdc = usdc
    tok = tok
    plain = plain
    Users = {u1}
    Keys = {key1}
    Tokens = {usdc, tok}
    Pools = {plain}
    Hooks = {}
    Executor = executor
    Manager = manager
    NoHook = nohook
    NoGrant = nogrant
    PoolKey <- MCPoolKey
    SignedOrders = {}
    SessionOrders <- DefaultOrders
    Grants <- DefaultGrants
    InitBal <- MCBal
    InitPools = {plain}
    Testnet = FALSE
    U128 = 8
    MaxOut = 2
    MaxTime = 1
    MaxGrants = 1
    Rows = {1}
    OrderOf <- DefaultOrderOf
    Keepers = {main}
    Looping = {main}
    NoKeeper = nokeeper
    NoRow = norow
    NoKey = nokey
    Limit = 2
    MaxFaults = 0
CHECK_DEADLOCK FALSE
PROPERTY
    OneTapFills
