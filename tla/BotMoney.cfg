SPECIFICATION MoneySpec
CONSTANTS
    Requests = {m1, m2}
    Addresses = {a1}
    NoAddress = none
    Amounts = {1}
    Cap <- MCCap
    MaxTrade = 2
    MaxBalance = 4
    Delay = 1
    DayLength = 2
    Funds = 2
    MaxTime = 2
    MaxCalls = 3
    MaxWallets = 2
    MaxSecrets = 1
    MaxCustodyFaults = 1
    Horizons = {2, 3}
    ActDelay = 1
    CancelWindow = 1
    TTL = 2
    NeedsCode = TRUE
    PaperBlocks = 4
    Prices = {1, 2}
    MaxAlerts = 1
    MaxProposals = 1
    WatchTokens = {m1, m2}
    MAX_TOKENS = 1
    MaxUpdates = 2
    MaxEvents = 2
    Users = {1, 2}
    Sizes = {2}
    MinNotional = 2
    RoundTrip = 1
    RoundLength = 3
    PublishDelay = 2
    LastTrade = 3
    LastTime = 5
    MaxContestFills = 2
    MaxRewardFaults = 1
    AlertKinds = {"dev_sell", "graduation"}
    MaxPosts = 3
    MaxTroubles = 1
    Crews <- MCCrews
    Borrowers = {1}
    Shares = {4, 5, 10}
    Pledge = 3
    BorrowAssets = 3
    BorrowShares = 6
    VirtualShares = 4
    MaxDebt = 3
    Oracle = 2
    Gain <- MCGain
    MinProfit = 1
    SearchRounds = 3
    Grain = 4
    TickSpacing = 2
    Whales <- MCWhales
    MinSwap = 2
    Cool <- MCCool
    HistoryMax = 2
    MaxMoves = 2
    MaxHitches = 1
    MaxMevTime = 1
    Scripts <- MCScripts
    SendWorkers = {m1, m2}
    MaxMishaps = 2
    Owner = 1
    Recipients = {1, 2}
    OtherSenders = {"loop"}
    GlobalPause = 1
    ChatPause = 2
    MinNotify = 2
    MaxCredits = 2
    MaxSpends = 1
    MaxStumbles = 1
    MaxTicks = 2
CHECK_DEADLOCK FALSE
SYMMETRY MoneySymmetry
INVARIANTS
    MoneyTypeOK
    PaperFaithful
    RewardsFaithful
    ChatFaithful
    MevFaithful

    
