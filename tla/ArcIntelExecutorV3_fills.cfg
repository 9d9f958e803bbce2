SPECIFICATION V3Spec
CONSTANTS
    u1 = u1
    usdc = usdc
    tok = tok
    plain = plain
    hooked = hooked
    launchpad = launchpad
    Users = {u1}
    Keys = {key1}
    Tokens = {usdc, tok}
    Pools = {plain, hooked}
    Hooks = {launchpad}
    Executor = executor
    Manager = manager
    NoHook = nohook
    NoGrant = nogrant
    PoolKey <- MCPoolKey
    SignedOrders <- MCSigned
    SessionOrders <- MCSession
    Grants <- MCGrants
    InitBal <- MCBal
    InitPools = {plain}
    Testnet = TRUE
    U128 = 8
    MaxOut = 1
    MaxTime = 1
    MaxGrants = 2
CHECK_DEADLOCK FALSE
INVARIANTS
    TypeOK
    SessionWithinGrant
    DebitsWithinConsent
