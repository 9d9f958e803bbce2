SPECIFICATION MCSpec
CONSTANTS
    l1 = l1
    l2 = l2
    a1 = a1
    a2 = a2
    NoAgent = noagent
    BPS = 10
    MaxPerformanceFeeBps = 3
    MaxInterestBps = 2
    MaxReserveBps = 3
    PriceScale = 1
    LPs = {l1}
    Agents = {a1}
    Deposits = {40}
    ShareAmounts = {}
    BondAmounts = {}
    LoanAmounts = {}
    Terms = {1}
    Revenues = {}
    CollateralAmounts = {10}
    Borrowings = {20}
    Policies = {}
    FeeSchedules = {}
    RiskParams = {}
    BondMins = {}
    Prices = {2, 4}
    InitPolicy <- MCPolicy
    InitFees <- MCFees
    InitRisk <- MCRisk
    InitBondMin = 5
    InitPrice = 4
    MaxHeld = 45
    MaxCollateral = 10
    MaxShortfall = 24
    MaxLoans = 2
    MaxTime = 0
    MaxGov = 0
CHECK_DEADLOCK FALSE
INVARIANT LPsMadeWhole
