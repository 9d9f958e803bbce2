SPECIFICATION MarketSpec
CONSTANTS
    l1 = l1
    l2 = l2
    a1 = a1
    a2 = a2
    NoAgent = noagent
    BPS = 10
    MaxPerformanceFeeBps = 3
    MaxInterestBps = 2
    MaxReserveBps = 3
    PriceScale = 1
    LPs = {l1, l2}
    Agents = {a1, a2}
    Deposits = {25}
    ShareAmounts = {}
    BondAmounts = {10}
    LoanAmounts = {15, 20}
    Terms = {1}
    Revenues = {24, 42}
    CollateralAmounts = {10}
    Borrowings = {10, 20}
    Policies <- MCPolicies
    FeeSchedules <- MCFeeChoices
    RiskParams <- MCRisks
    BondMins = {12}
    Prices = {2, 4}
    InitPolicy <- MCPolicy
    InitFees <- MCFees
    InitRisk <- MCRisk
    InitBondMin = 10
    InitPrice = 4
    MaxHeld = 55
    MaxCollateral = 20
    MaxShortfall = 24
    MaxLoans = 2
    MaxTime = 1
    MaxGov = 1
    Stakers = {l1, l2}
    Scale = 2
    Stakes = {1, 2}
    StakingRevenues = {1, 3}
    SmallBPS = 4
    ShareChoices = {2, 3}
    MaxStaked = 4
    MaxRevenue = 5
    MaxStakeMoves = 4
    Buyers = {l1, l2}
    X0 = 4
    Y0 = 12
    Spends = {1, 3, 4}
    TokenAmounts = {1, 2, 5}
    FeeChoices <- MCCurveFees
    Thresholds = {5, 8}
    SniperWindow = 1
    MaxWallet = 8
    MaxTx = 3
    LockChoices = {0, 1}
    MaxRaised = 9
    MaxCurveTime = 2
    MaxChanges = 2
    Intents <- MCIntents
    FeeRates = {0, 1}
    Interops = {"none", "keeper", "other"}
    MaxDelivered = 6
    MaxBridgeTime = 3
    MaxSettings = 2
    Depositors = {l1, l2}
    VaultAmounts = {1, 2, 5}
    MaxAssets = 8
    MaxYieldMoves = 6
    MaxDrift = 2
CHECK_DEADLOCK FALSE
INVARIANTS
    TypeOK
    Solvent
    BooksAddUp
PROPERTIES
    ShareValueKept
    WhoPaysFirst
    OnlyMarketSinks
    
SYMMETRY Symmetry
