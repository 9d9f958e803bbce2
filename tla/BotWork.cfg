SPECIFICATION WorkSpec
CONSTANTS
    Leaders = {1}
    Tokens = {m1, m2}
    Values = {1}
    Limits = {1, 2}
    Settings <- MCSettings
    MaxBlock = 2
    MaxLegs = 2
    MaxEdits = 2
    MaxCopyFaults = 1
    Ids = {1, 2}
    Keepers = {m1, m2}
    MaxHeld = 1
    MaxSigns = 2
    MaxOrderFaults = 1
    Swaps <- MCSwaps
    Chats = {1}
    ScanChunk = 1
    Limit = 2
    PerChatCap = 1
    ReadQueue = 2
    QueueBlocks = 0
    MaxFaults = 2
    Legs <- MCLegs
    BucketBlocks = 1
    Lookback = 3
    Keep = 4
    ZDownSq = 4
    ZUpSq = 4
    WindowBlocks = 1
    RecentBuckets = 1
    MinUsdc = 2
    MinSpike = 2
    LargeSell = 3
    WhaleBuy = 3
    SurgePct = 50
    LastBlock = 4
    MaxReads = 5
    Logs <- MCLogs
    Starts = {1, 2}
    MaxRange = 2
    MaxErrors = 2
    MaxIndexFaults = 2
    Holders = {m1, m2}
    Markets <- MCMarkets
    SwapAmounts <- MCAmounts
    MaxSwaps = 4
    StableUnit = 60
    Traders = {1, 2, 3}
    Profiles <- MCProfiles
    MIN_CLOSED_TRADES = 2
    MinWallets = 2
    MinOccurrences = 3
    MinHolding = 5
    WindowSeconds = 2
    Weights <- MCWeights
    Unit = 20
    Runs = 2
    MaxNews = 1
    History <- MCHistory
    Jobs = {"backfill_v4", "own"}
    FirstBlocks = {1, 2}
    EndBlocks = {2, 3}
    ChunkBlocks = 2
    MinSize = 1
    MaxRetries = 1
    MaxResults = 3
    FirstHeight = 2
    MaxFills = 2
    MaxNodeFaults = 2
    Resolvers = {m1, m2}
    Txs <- MCTxs
    Spans <- MCSpans
    BatchSize = 1
    MaxAttempts = 2
    MaterializeEvery = 1
    Step = 1
    MaxResolves = 2
    MaxResolveFaults = 1
    Creator = 1
    ReportLegs <- MCReportLegs
    ReportBlocks = {1, 2, 4, 6, 7}
    ReportBucket = 2
    ReportWindow = 4
    ReportLast = 8
    Created = {0, 1}
    NoTradeBlocks = 4
    ChainBlocks <- MCBlocks
    ChainTop = 4
    BlocksPerTick = 2
    StartBlocks = {0, 1}
    Depths = {0, 1, 2}
CHECK_DEADLOCK FALSE
SYMMETRY WorkSymmetry
INVARIANTS
    WorkTypeOK
    FeedFaithful
    RebuildAgrees
    IndexFaithful
    AnalyticsFaithful

    
    
