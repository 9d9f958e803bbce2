----------------------------- MODULE MCBotWork -----------------------------
(* The event indexer with its backfill, its senders, its reports of profits and risks    *)
(* and its scores of wallets, arcai's data engine, and the work of the bot's loop: the    *)
(* feed from the chain to the chats, the rules that make alerts of trades, the copy       *)
(* engine, and signed preorders.  Each has state of its own: a behaviour is one of one    *)
(* part, the others stay as they were.                                                *)
EXTENDS Integers, FiniteSets, TLC

CONSTANTS
    Leaders, Tokens, Values, Limits, Settings, MaxBlock, MaxLegs, MaxEdits, MaxCopyFaults,
    Ids, Keepers, MaxHeld, MaxSigns, MaxOrderFaults,
    Swaps, Chats, ScanChunk, Limit, PerChatCap, ReadQueue, QueueBlocks, MaxFaults,
    Legs, BucketBlocks, Lookback, Keep, ZDownSq, ZUpSq, WindowBlocks, RecentBuckets, MinUsdc,
    MinSpike, LargeSell, WhaleBuy, SurgePct, LastBlock, MaxReads,
    Logs, Starts, MaxRange, MaxErrors, MaxIndexFaults,
    Holders, Markets, SwapAmounts, MaxSwaps, StableUnit,
    Traders, Profiles, MIN_CLOSED_TRADES, MinWallets, MinOccurrences, MinHolding, WindowSeconds,
    Weights, Unit, Runs, MaxNews,
    History, Jobs, FirstBlocks, EndBlocks, ChunkBlocks, MinSize, MaxRetries, MaxResults, FirstHeight,
    MaxFills, MaxNodeFaults,
    Resolvers, Txs, Spans, BatchSize, MaxAttempts, MaterializeEvery, Step, MaxResolves, MaxResolveFaults,
    Creator, ReportLegs, ReportBlocks, ReportBucket, ReportWindow, ReportLast, Created, NoTradeBlocks,
    ChainBlocks, ChainTop, BlocksPerTick, StartBlocks, Depths

VARIABLES
    work_part,
    followed, filters, held, trades, clock, stopped, pass, edits, cfaults, copied, decided, joined, again,
    order, qty, keeper, fire, signing, planning, expired, filled, signs, ofaults, resigned, revoked,
    head, swaps, pools, scanned, resolved, trader, legs, legs_cursor, cursor, saved, queue, delivered,
    since, watch, pc, run, mem, faults, fault, late, cutoff, torn, redone, acted, sent,
    block, read, live, rebuilt, running, differ,
    tip, swap_rows, pool_rows, token_rows, event_rows, trade_count, meta_cursor, ix, at, todo, to,
    half, errors, ixfaults, asked, skipped,
    rows, cur_pool, positions, first_entry, last_price, agg, pct, first_buy,
    profile, creators, table, scorer, news, dropped_saves, stored,
    height, stored_logs, job_cursor, data_gaps, liq_cursor, rug_alerts, filler, found,
    runs_of, nfaults, beyond, behind, unfunded, forgotten,
    swap_txs, tx_senders, resolved_blocks, traders, worker, resolves, sfaults, misses, due, owed,
    trades_read, engine,
    startBlock, depth, blocks, transactions, block_logs, candidates, checkpoint, ingestor, first,
    mixed, cut

Copy  == INSTANCE CopyEngine
Pre   == INSTANCE Preorders
Feed  == INSTANCE LiveFeed
Rules == INSTANCE LegRules
Index == INSTANCE EventIndexer
Pnl   == INSTANCE TradePnl
Score == INSTANCE WalletScores
Fill  == INSTANCE Backfill
Send  == INSTANCE Senders
Risk  == INSTANCE RiskReport WITH Legs <- ReportLegs, BucketBlocks <- ReportBucket,
                                  WindowBlocks <- ReportWindow, LastBlock <- ReportLast
Ingest == INSTANCE BlockIngest WITH Blocks <- ChainBlocks, MaxBlock <- ChainTop,
                                     Starts <- StartBlocks

(* Preorders are numbered rows of a table, and 0 is no row.                                *)
ASSUME OrderNumbers == Ids \subseteq Nat \ {0}
(* Blocks, values and what the user may choose are numbers; 0 is no limit on positions.    *)
ASSUME CopyNumbers ==
    /\ IsFiniteSet(Tokens) /\ Values \subseteq Nat /\ Limits \subseteq Nat
    /\ MaxBlock \in Nat /\ MaxLegs \in Nat /\ MaxEdits \in Nat /\ MaxCopyFaults \in Nat
    /\ Settings \subseteq [min_buy : Nat, max_open : Nat, proportional : BOOLEAN, flat : Nat,
                           mirror_sells : BOOLEAN]

(* The chain has finitely many logs; no pool has the name that stands for no token.         *)
ASSUME LogNumbers ==
    /\ IsFiniteSet(Logs) /\ Starts \subseteq Nat /\ MaxRange \in Nat /\ MaxIndexFaults \in Nat
    /\ \A l \in Logs : /\ l.n \in Nat /\ l.block \in Nat /\ l.kind \in Index!Kinds
                       /\ l.pool \in Nat \ {Index!NoToken}
ASSUME TxNumbers ==
    /\ IsFiniteSet(Txs) /\ \A t \in Txs : t.block \in Nat
    /\ MaxAttempts \in Nat \ {0} /\ Step \in Nat
(* A block's hash identifies it; heights begin at 1, and depths count blocks.               *)
ASSUME BlockNumbers ==
    /\ IsFiniteSet(ChainBlocks) /\ ChainTop \in Nat /\ BlocksPerTick \in Nat
    /\ StartBlocks \subseteq Nat /\ Depths \subseteq Nat
    /\ \A b \in ChainBlocks : b.hash # Ingest!NoBlock /\ b.height \in Nat \ {0} /\ b.event \in BOOLEAN
    /\ \A b, c \in ChainBlocks : b.hash = c.hash => b = c

MCSettings ==
    {[min_buy |-> 1, max_open |-> 1, proportional |-> FALSE, flat |-> 1, mirror_sells |-> TRUE],
     [min_buy |-> 0, max_open |-> 0, proportional |-> TRUE, flat |-> 0, mirror_sells |-> FALSE]}
MCSwaps == {[n |-> 1, block |-> 1, pool |-> 1], [n |-> 2, block |-> 1, pool |-> 2],
            [n |-> 3, block |-> 2, pool |-> 1]}
MCLegs == {[creator |-> TRUE, side |-> "buy", qty |-> 2, sv |-> 2],
           [creator |-> TRUE, side |-> "sell", qty |-> 1, sv |-> 1],
           [creator |-> FALSE, side |-> "buy", qty |-> 1, sv |-> 3]}
MCReportLegs == {[wallet |-> 1, side |-> "buy", qty |-> 2, sv |-> 3],
                 [wallet |-> 1, side |-> "sell", qty |-> 1, sv |-> 1],
                 [wallet |-> 2, side |-> "buy", qty |-> 1, sv |-> 2]}
MCLogs == {[n |-> 1, block |-> 1, kind |-> "pool_init", pool |-> 1, wallet |-> 0],
           [n |-> 2, block |-> 1, kind |-> "v4_swap", pool |-> 1, wallet |-> 1],
           [n |-> 3, block |-> 2, kind |-> "launchpad", pool |-> 3, wallet |-> 0],
           [n |-> 4, block |-> 2, kind |-> "v4_swap", pool |-> 1, wallet |-> 1],
           [n |-> 5, block |-> 2, kind |-> "v3_swap", pool |-> 2, wallet |-> 0],
           [n |-> 6, block |-> 3, kind |-> "v3_swap", pool |-> 2, wallet |-> 1]}
MCMarkets == <<[token |-> 1, usd |-> TRUE], [token |-> 2, usd |-> TRUE], [token |-> 1, usd |-> TRUE]>>
MCAmounts == {<<60, -2>>, <<120, -1>>, <<-180, 2>>, <<60, 1>>}
MCProfiles ==
    {[trades |-> 1, win_rate |-> 1, exit_multiple |-> 2, variance |-> 1, entry |-> 1,
      swaps |-> <<1, 9, 30>>, buys |-> {<<1, 1>>}, fund |-> [by |-> 1, at |-> 1]],
     [trades |-> 2, win_rate |-> 2, exit_multiple |-> 1, variance |-> 1, entry |-> 2,
      swaps |-> <<1, 9, 30>>, buys |-> {<<1, 1>>, <<2, 1>>}, fund |-> [by |-> 1, at |-> 3]],
     [trades |-> 2, win_rate |-> 1, exit_multiple |-> 2, variance |-> 0, entry |-> 2,
      swaps |-> <<4, 4, 40>>, buys |-> {<<2, 1>>}, fund |-> [by |-> 1, at |-> 5]],
     [trades |-> 2, win_rate |-> 1, exit_multiple |-> 2, variance |-> 0, entry |-> 2,
      swaps |-> <<4, 20, 40>>, buys |-> {}, fund |-> [by |-> 2, at |-> 5]]}
MCWeights == [win_rate |-> 7, exit_multiple |-> 5, entry_timing |-> 4, consistency |-> 4]
MCHistory ==
    {[n |-> 1, block |-> 1, topic |-> "liq", pool |-> 1, delta |-> 2],
     [n |-> 2, block |-> 1, topic |-> "liq", pool |-> 2, delta |-> 1],
     [n |-> 3, block |-> 1, topic |-> "liq", pool |-> 2, delta |-> -1],
     [n |-> 4, block |-> 1, topic |-> "created", pool |-> 1, delta |-> 0],
     [n |-> 5, block |-> 2, topic |-> "liq", pool |-> 1, delta |-> 1],
     [n |-> 6, block |-> 2, topic |-> "liq", pool |-> 2, delta |-> -1],
     [n |-> 7, block |-> 3, topic |-> "liq", pool |-> 1, delta |-> -1]}
    \cup {[n |-> k, block |-> 2, topic |-> "swap", pool |-> 1, delta |-> 0] : k \in 8..11}
MCTxs == {[id |-> 1, block |-> 1], [id |-> 2, block |-> 2]}
MCSpans == {<<1, 2>>, <<2, 2>>}
(* Two forks at heights 1 and 2, and transactions that are in one and in the other, higher. *)
MCBlocks == {[hash |-> 1, height |-> 1, parent |-> 0, txs |-> {1}, event |-> TRUE],
             [hash |-> 2, height |-> 1, parent |-> 0, txs |-> {2}, event |-> TRUE],
             [hash |-> 3, height |-> 2, parent |-> 1, txs |-> {2}, event |-> TRUE],
             [hash |-> 4, height |-> 2, parent |-> 2, txs |-> {1}, event |-> FALSE],
             [hash |-> 5, height |-> 3, parent |-> 3, txs |-> {3}, event |-> TRUE],
             [hash |-> 6, height |-> 4, parent |-> 5, txs |-> {1}, event |-> TRUE]}
(* Tokens, Keepers, Holders and Resolvers are the same two model values, each in its *)
(* own part.                                                                     *)
WorkSymmetry == Permutations(Tokens)

copyVars  == <<followed, filters, held, trades, clock, stopped, pass, edits, cfaults, copied, decided,
               joined, again>>
orderVars == <<order, qty, keeper, fire, signing, planning, expired, filled, signs, ofaults,
               resigned, revoked>>
feedVars  == <<head, swaps, pools, scanned, resolved, trader, legs, legs_cursor, cursor, saved, queue,
               delivered, since, watch, pc, run, mem, faults, fault, late, cutoff, torn, redone,
               acted, sent>>
ruleVars  == <<block, read, live, rebuilt, running, differ>>
indexVars == <<tip, swap_rows, pool_rows, token_rows, event_rows, trade_count, meta_cursor, ix, at,
               todo, to, half, errors, ixfaults, asked, skipped>>
pnlVars   == <<rows, cur_pool, positions, first_entry, last_price, agg, pct, first_buy>>
scoreVars == <<profile, creators, table, scorer, news, dropped_saves, stored>>
fillVars  == <<height, stored_logs, job_cursor, data_gaps, liq_cursor, rug_alerts, filler, found,
               runs_of, nfaults, beyond, behind, unfunded, forgotten>>
senderVars == <<swap_txs, tx_senders, resolved_blocks, traders, worker, resolves, sfaults, misses,
               due, owed>>
reportVars == <<trades_read, engine>>
ingestVars == <<startBlock, depth, blocks, transactions, block_logs, candidates, checkpoint,
                ingestor, first, mixed, cut>>
workVars == <<work_part, copyVars, orderVars, feedVars, ruleVars, indexVars, pnlVars, scoreVars, fillVars,
          senderVars, reportVars, ingestVars>>

(* A part that does not run has no state, and nothing the properties of steps read.  *)
Idle == 0
CopyOff ==
    /\ followed = Idle /\ filters = Idle /\ held = Idle /\ trades = {} /\ clock = Idle
    /\ stopped = Idle /\ pass = [step |-> "off"] /\ edits = Idle /\ cfaults = Idle /\ copied = Idle
    /\ decided = Idle /\ joined = Idle /\ again = Idle
PreorderOff ==
    /\ order = Idle /\ qty = Idle /\ keeper = Idle /\ fire = Idle /\ signing = Idle /\ planning = Idle
    /\ expired = Idle /\ filled = Idle /\ signs = Idle /\ ofaults = Idle /\ resigned = Idle
    /\ revoked = {}
FeedOff ==
    /\ head = Idle /\ swaps = Idle /\ pools = Idle /\ scanned = Idle /\ resolved = Idle
    /\ trader = Idle /\ legs = Idle /\ legs_cursor = Idle /\ cursor = Idle /\ saved = Idle
    /\ queue = Idle /\ delivered = Idle /\ since = Idle /\ watch = Idle /\ pc = Idle /\ run = Idle
    /\ mem = Idle /\ faults = Idle /\ fault = Idle /\ late = Idle /\ cutoff = Idle /\ torn = Idle
    /\ redone = Idle /\ acted = Idle /\ sent = Idle
RuleOff ==
    /\ block = Idle /\ read = Idle /\ live = Idle /\ rebuilt = Idle /\ running = Idle /\ differ = Idle
IndexOff ==
    /\ tip = Idle /\ swap_rows = Idle /\ pool_rows = Idle /\ token_rows = Idle /\ event_rows = Idle
    /\ trade_count = Idle /\ meta_cursor = Idle /\ ix = Idle /\ at = Idle /\ todo = Idle /\ to = Idle
    /\ half = Idle /\ errors = Idle /\ ixfaults = Idle /\ asked = Idle /\ skipped = Idle
PnlOff ==
    /\ rows = Idle /\ cur_pool = Idle /\ positions = Idle /\ first_entry = Idle /\ last_price = Idle
    /\ agg = Idle /\ pct = Idle /\ first_buy = Idle
ScoreOff ==
    /\ profile = Idle /\ creators = Idle /\ table = Idle /\ scorer = Idle /\ news = Idle
    /\ dropped_saves = Idle /\ stored = Idle
BackfillOff ==
    /\ height = Idle /\ stored_logs = Idle /\ job_cursor = Idle /\ data_gaps = Idle
    /\ liq_cursor = Idle /\ rug_alerts = Idle /\ filler = Idle /\ found = Idle /\ runs_of = Idle
    /\ nfaults = Idle /\ beyond = Idle /\ behind = Idle /\ unfunded = Idle /\ forgotten = Idle
SenderOff ==
    /\ swap_txs = Idle /\ tx_senders = Idle /\ resolved_blocks = Idle /\ traders = Idle
    /\ worker = Idle /\ resolves = Idle /\ sfaults = Idle /\ misses = Idle /\ due = Idle /\ owed = Idle
ReportOff == trades_read = Idle /\ engine = Idle
IngestOff ==
    /\ startBlock = Idle /\ depth = Idle /\ blocks = Idle /\ transactions = Idle /\ block_logs = Idle
    /\ candidates = Idle /\ checkpoint = Idle /\ ingestor = Idle /\ first = Idle /\ mixed = Idle
    /\ cut = Idle
WorkInit ==
    /\ work_part \in {"copy", "preorders", "feed", "rules", "index", "pnl", "scores", "backfill", "senders", "report", "ingest"}
    /\ IF work_part = "copy" THEN Copy!Init ELSE CopyOff
    /\ IF work_part = "preorders" THEN Pre!Init ELSE PreorderOff
    /\ IF work_part = "feed" THEN Feed!Init ELSE FeedOff
    /\ IF work_part = "rules" THEN Rules!Init ELSE RuleOff
    /\ IF work_part = "index" THEN Index!Init ELSE IndexOff
    /\ IF work_part = "pnl" THEN Pnl!Init ELSE PnlOff
    /\ IF work_part = "scores" THEN Score!Init ELSE ScoreOff
    /\ IF work_part = "backfill" THEN Fill!Init ELSE BackfillOff
    /\ IF work_part = "senders" THEN Send!Init ELSE SenderOff
    /\ IF work_part = "report" THEN Risk!Init ELSE ReportOff
    /\ IF work_part = "ingest" THEN Ingest!Init ELSE IngestOff
CopyStep ==
    /\ work_part = "copy" /\ Copy!Next
    /\ UNCHANGED <<work_part, orderVars, feedVars, ruleVars, indexVars, pnlVars, scoreVars, fillVars, senderVars, reportVars,
                   ingestVars>>
PreorderStep ==
    /\ work_part = "preorders" /\ Pre!Next
    /\ UNCHANGED <<work_part, copyVars, feedVars, ruleVars, indexVars, pnlVars, scoreVars, fillVars, senderVars, reportVars,
                   ingestVars>>
FeedStep ==
    /\ work_part = "feed" /\ Feed!Next
    /\ UNCHANGED <<work_part, copyVars, orderVars, ruleVars, indexVars, pnlVars, scoreVars, fillVars, senderVars, reportVars,
                   ingestVars>>
RuleStep ==
    /\ work_part = "rules" /\ Rules!Next
    /\ UNCHANGED <<work_part, copyVars, orderVars, feedVars, indexVars, pnlVars, scoreVars, fillVars, senderVars, reportVars,
                   ingestVars>>
IndexStep ==
    /\ work_part = "index" /\ Index!Next
    /\ UNCHANGED <<work_part, copyVars, orderVars, feedVars, ruleVars, pnlVars, scoreVars, fillVars, senderVars, reportVars,
                   ingestVars>>
PnlStep ==
    /\ work_part = "pnl" /\ Pnl!Next
    /\ UNCHANGED <<work_part, copyVars, orderVars, feedVars, ruleVars, indexVars, scoreVars, fillVars, senderVars, reportVars,
                   ingestVars>>
ScoreStep ==
    /\ work_part = "scores" /\ Score!Next
    /\ UNCHANGED <<work_part, copyVars, orderVars, feedVars, ruleVars, indexVars, pnlVars, fillVars, senderVars, reportVars,
                   ingestVars>>
BackfillStep ==
    /\ work_part = "backfill" /\ Fill!Next
    /\ UNCHANGED <<work_part, copyVars, orderVars, feedVars, ruleVars, indexVars, pnlVars, scoreVars, senderVars, reportVars,
                   ingestVars>>
SenderStep ==
    /\ work_part = "senders" /\ Send!Next
    /\ UNCHANGED <<work_part, copyVars, orderVars, feedVars, ruleVars, indexVars, pnlVars, scoreVars, fillVars, reportVars,
                   ingestVars>>
ReportStep ==
    /\ work_part = "report" /\ Risk!Next
    /\ UNCHANGED <<work_part, copyVars, orderVars, feedVars, ruleVars, indexVars, pnlVars, scoreVars, fillVars, senderVars,
                   ingestVars>>
IngestStep ==
    /\ work_part = "ingest" /\ Ingest!Next
    /\ UNCHANGED <<work_part, copyVars, orderVars, feedVars, ruleVars, indexVars, pnlVars, scoreVars,
                   fillVars, senderVars, reportVars>>
WorkNext ==
    \/ CopyStep \/ PreorderStep \/ FeedStep \/ RuleStep \/ IndexStep \/ PnlStep \/ ScoreStep
    \/ BackfillStep \/ SenderStep \/ ReportStep \/ IngestStep
WorkSpec == WorkInit /\ [][WorkNext]_workVars

----------------------------------------------------------------------------
(* Every part's records keep their types.                                       *)
WorkTypeOK ==
    CASE work_part = "copy" -> Copy!CopyTypeOK
      [] work_part = "preorders" -> Pre!PreordersTypeOK
      [] work_part = "feed" -> Feed!FeedTypeOK
      [] work_part = "rules" -> Rules!RulesTypeOK
      [] work_part = "index" -> Index!IndexTypeOK
      [] work_part = "pnl" -> Pnl!PnlTypeOK
      [] work_part = "scores" -> Score!ScoresTypeOK
      [] work_part = "backfill" -> Fill!BackfillTypeOK
      [] work_part = "senders" -> Send!SendersTypeOK
      [] work_part = "report" -> Risk!ReportTypeOK
      [] work_part = "ingest" -> Ingest!IngestTypeOK

(* Copy engine: a passed trade without a decision shares its block with another  *)
(* one, and a trade is copied twice only after a failure or a new following; a    *)
(* token is opened only below the limit of open positions, and no trade older     *)
(* than the following is copied.                                                 *)
CopiesFaithful ==
    /\ [](work_part = "copy" => Copy!LostOnlyWithinABlock /\ Copy!CopiedTwiceOnlyByFault)
    /\ Copy!OpensBelowLimit /\ Copy!NoHistoryCopied

(* Preorders: no two keepers submit one signature, an order left in "submitting"   *)
(* is held, or its keeper stopped, and a cancellation nobody's work overlapped is  *)
(* final.                                                                       *)
PreordersFaithful ==
    /\ [](work_part = "preorders" => Pre!OneSubmitter /\ Pre!SubmittingIsHeld)
    /\ Pre!CancelledStaysOut

(* Feed: a swap becomes a trade once, a trade is applied once, what it sets off   *)
(* happens once and a chat reads its alert once, each but for the faults that     *)
(* the module names.                                                            *)
FeedFaithful == work_part = "feed" => Feed!FeedFaithful
(* Rules: a state rebuilt from the history goes on as the one that never stopped, *)
(* a repeated surge and a lost compound alert apart.                             *)
RebuildAgrees == work_part = "rules" => Rules!RebuildAgrees
(* Everything that is read block by block.  Indexer: what the stored cursor has passed is  *)
(* stored, with its token and in its wallet's count.  Backfill: a job's cursor tells what  *)
(* was read or noted as a gap, and a stored removal is alerted.  Senders: a resolved block *)
(* has its senders, a run leaves no block out, and a known sender is copied to its swaps.  *)
(* arcai's engine: one canonical chain, whose rows are marked up to the checkpoint.  Each  *)
(* but for what the module names.                                                   *)
IndexFaithful ==
    /\ work_part = "index" => Index!IndexFaithful
    /\ work_part = "backfill" => Fill!BackfillFaithful
    /\ work_part = "senders" => Send!SendersFaithful
    /\ work_part = "ingest" => Ingest!IngestFaithful
(* Profits: the report that reads the swaps pool by pool gives what the report over *)
(* a list of legs gives, and the bot's ledger of the same fills the same profits.   *)
(* Scores: clusters are the chains of common purchases, no better wallet scores     *)
(* less, nobody scored was left out when its facts were read, and the table has     *)
(* the last run's scores of whoever that run ranked.                              *)
(* Risk report: what it derives of all trades is what the live engine told of each. *)
(* Each but for what the module names.                                           *)
AnalyticsFaithful ==
    /\ work_part = "pnl" => Pnl!AccountsAgree
    /\ work_part = "scores" => Score!ScoresFaithful
    /\ work_part = "report" => Risk!ReportFaithful
=============================================================================
