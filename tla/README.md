# Verification of arc-smart-orders

TLA+ specifications of the parts of this repository that move other people's
money, decide about it, or report what became of it: the contracts, the keepers
that drive them, the server that holds keys, and the bot and indexer whose state
survives crashes and races. TLC checks small instances of each module; TLAPS
proves the central safety properties for every value of the constants.

Contents: 1 the system, 2 the modules, 3 the runs, 4 fairness, 5 the proofs,
6 what the models assume, 7 findings and observations, 8 what is not modelled,
9 the plan.

To check a module: `tlc -config OrderExecutor_orders.cfg MCOrderExecutor`. To
check a proof: `tlapm OrderExecutor_proofs.tla`.

## 1. The system

The repository holds three products that share a chain (Arc, with USDC as the
unit of account): *smart orders* (signed limit and DCA orders and their keeper),
the *agent economy* (a launchpad, staking, and credit for agents), and *ARC
Intel* (a trading bot with an indexer, custody, copy trading and one-tap
sessions).

### Components, their state and what makes them correct

| Component | Code | State | Hard part | Correct when | Module |
|---|---|---|---|---|---|
| Order executor | `contracts/src/OrderExecutor.sol` | keeper, allowed targets, fee; Permit2 nonces and allowances (outside) | the keeper builds the router call; permits and nonces come in any order and repeatedly | a signature pays once, for at least its minOut; nothing stays in the contract; DCA stays within permits and rate | `OrderExecutor` |
| Order keeper | `keeper/src/server.ts`, `db.ts`, `worker.ts` | SQLite `orders`, the worker's batch, transactions in flight | awaits interleave with chain and API; crashes, timeouts, lost answers | a reported status is true; every order settles; a job's fill gets its deliverable | `KeeperOrders` |
| Credit pool, revenue router | `contracts/src/credit/AgentCreditPool.sol`, `RevenueRouter.sol` | idle, outstanding, reserve, shares, bonds, loans, collateral | seven books updated by twenty functions; rounding; a market | books and balance agree; losses in the documented order; nobody is diluted | `AgentCreditPool` |
| Staking vault, revenue splitter | `contracts/src/launchpad/AgentStakingVault.sol`, `RevenueSplitter.sol` | accumulator, reward debts, pool | floors that meet | what is owed is what is held, up to the floors; claims go through | `StakingVault` |
| Bonding curve, token, factory; graduation, locker | `contracts/src/launchpad/` | x, y, graduated; limits; locks | rounding of a constant product; a flag set in one branch only | reserves are backed, holders can sell, liquidity is handed over once | `BondingCurve` |
| Cross-chain executor | `contracts/src/CrossChainOrderExecutor.sol` | used intents, one balance for all deliveries | who is paid from whose delivery | a delivery pays its owner's intent | `CrossChainOrders` |
| Yield vault | `contracts/src/credit/AgentYieldVault.sol` | shares, strategy | rounding, strategy losses | nobody pays for another's withdrawal | `YieldVault` |
| Executor V3 | `arc-intel/executor/src/ArcIntelExecutorV3.sol` | sessions, nonces, pool policy | two ways to sign one nonce; renewals; partial swaps | one fill a nonce; a session key stays within its grant; nothing at rest | `ArcIntelExecutorV3` |
| Session trading | `arc-intel/bot/sign_server.py`, `store.py`, `execution/session_keeper.py` | `sessions`, `preorders`, keeper runs | two keepers without a claim, lost answers, database and chain that disagree | an order pays once, only if placed and not cancelled in time; what is reported executed was filled | `SessionTrading` |
| Custody | `bot/sign_server.py`, `execution/custody.py`, `signer.py`, `bot/totp.py` | wallets, limits, delays, freeze | threads that check a limit and spend later | limits hold; nothing leaves while frozen; the key is not lost | `Custody` |
| Paper engine, approvals | `bot/approvals.py`, `security/permissions.py`, `indexer/paper*.py` | proposals, outcomes | late trades, a window | the two policies agree; an outcome is final | `PaperEngine` |
| Copy engine | `execution/copy_keeper.py`, `copy.py` | cursor by leader, filters | partial failure in a block; crash before the cursor is saved | a leader's trade is copied once | `CopyEngine` |
| Signed preorders | `execution/preorders.py`, `keeper.py` | `preorders` | several keepers, signatures that come late | one submitter; a cancellation is final | `Preorders` |
| Bot loop, queue; live ingestion | `bot/telegram.py`, `store.py`, `indexer/ingest.py` | cursors, legs, queue, delivery marks | each commit is a step of its own | a swap becomes a trade once; a chat reads its alert once | `LiveFeed` |
| Alert rules | `indexer/stream_alerts.py` | buckets, creator's position | state rebuilt from history | the rebuilt state goes on as the old one | `LegRules` |
| Event indexer | `indexer/service.py`, `processor.py` | rows, a cursor | errors re-read a range | what the cursor passed is stored | `EventIndexer` |
| Backfill, removals | `indexer/backfill.py` | rows, gaps, cursor of a job | splits, retries, stops | read, or noted as a gap | `Backfill` |
| Sender resolution | `indexer/resolve_senders.py` | senders, marks | passes, two workers | a resolved block has its senders | `Senders` |
| Profits, scores, risk report | `indexer/pnl.py`, `scoring.py`, `alerts.py`, `execution/positions.py` | streamed sums, tables | several accountings of the same trades | they agree | `TradePnl`, `WalletScores`, `RiskReport` |
| arcai data engine | `arcai/src/data/` | checkpoint, blocks, rows | two forks, statements without a transaction | one canonical chain, whose rows are marked | `BlockIngest` |
| Watch list, linked wallets | `bot/commands.py`, `wallet_track.py` | subscriptions | read, change, write in two threads | a manual subscription stays | `Watchlist` |
| Contest, referrals | `monetization/`, `bot/contest_publish.py` | fills, credits, rounds | late fills, publication that fails | an announced round never changes | `Rewards` |
| Conversation, settings | `bot/commands.py`, `sign_server.py` | the question under way, settings | three writers, replayed updates | an answer is taken for its question | `Conversation` |
| Answers, notices, throttle | `bot/sender.py`, `bridge.py`, `throttle.py` | queue, baseline, last times | threads without a lock | sent once, told once | `ReplySender`, `Notices` |
| MEV monitors | `bots/`, `contracts/src/mev/` | cooldowns, one account, one file | four processes, one nonce | no step that cannot pay | `MevBots` |

### How they interact

* The **order keeper** calls `OrderExecutor.executeOrder` with orders posted to
  its API and, for orders linked to a job, reports a deliverable.
* **RevenueRouter.route** repays an agent's loans through the pool's
  `repayOnBehalf` and hands the rest to the **revenue splitter**, which feeds
  the **staking vault**.
* The **sign server** writes sessions and orders; **session keepers** (one in
  the bot's loop, one thread for every order placed) read them, sign with the
  session's key and call `ArcIntelExecutorV3.executeWithSession` through
  Foundry's `cast`. Users talk to the same contract from their own wallets.
* The **indexer** (ingestion, backfill, senders) fills the database; the bot's
  loop turns its swaps into legs, applies the **alert rules**, and queues alerts,
  which set off **paper proposals**, **protections** (preorders of kind `sell`)
  and automatic sales from **custody**. The **copy engine** reads the same legs
  and spends from custody too.
* **Fills** of every engine feed positions, the **contest**, **referrals** and
  the **watch list**, each on a connection of its own.
* The four **MEV monitors** are processes that share one account and one file.

## 2. The modules

| Module | Models | Composes |
|---|---|---|
| `OrderExecutor`, `AgentCreditPool`, `ArcIntelExecutorV3`, `StakingVault`, `BondingCurve`, `CrossChainOrders`, `YieldVault` | the contracts | |
| `KeeperOrders` | `server.ts`, `db.ts`, `worker.ts` with a chain around them | implements `OrderLifecycle` |
| `OrderLifecycle` | abstract: what the order keeper promises | |
| `SessionTrading` | sign server, store, session keepers | `ArcIntelExecutorV3`, whose actions are the chain's steps |
| `Custody`, `PaperEngine`, `Watchlist`, `Rewards`, `Conversation`, `MevBots`, `ReplySender`, `Notices` | the bot's money and its talk | together in `MCBotMoney` |
| `CopyEngine`, `Preorders`, `LiveFeed`, `LegRules`, `EventIndexer`, `TradePnl`, `WalletScores`, `Backfill`, `Senders`, `RiskReport`, `BlockIngest` | the bot's and the indexers' work | together in `MCBotWork` |
| `Totals` | sums over finite domains, as the number of units of a set | used by the contracts |
| `MC...` | small instances for TLC | |
| `..._proofs` | theorems and their proofs | |

Names are the source's names. Every external function of a contract, every
handler of a server and every step of a loop between two awaits or commits is one
action; `PROJECT.json` gives the lines of each.

`MCMarket`, `MCBotMoney` and `MCBotWork` hold several components that share
nothing: the variable `part` (`money_part`, `work_part`) names the one a behaviour
is about, and the variables of the others stay at `Off` (`Idle` in `MCBotWork`). A property of one of these runs is a
conjunction over parts, and every part is searched as completely as in a run of
its own. Sets of parties are the same model values in several parts, so that one
symmetry serves all of them.

**OrderExecutor.** A transaction is atomic, so a function is an action and a
revert is no step. The signatures users hand out (`Orders`, `Permits`,
`Intents`) are constants, and anyone may present them at any time and any number
of times. The calldata of the router is any `RouterCall`: how much of the
approved input it takes, which token it pays, how much and to whom (the user or
a keeper). `executeOrder` is pull, fee, swap, refund, the check of what the user
received, and the nonce; `executeDca` the same with Permit2's allowance and the
per-part rate. `ledger` is history: fills and receipts by order, pulls and
returns by intent, permits registered.

**KeeperOrders.** `PostValidate` and `PostInsert` are the two halves of POST
around its awaited reads. The worker's program counter (`next`, `send`, `wait`,
`deliver`) is cut at its awaits; its batch is the rows `listPending` read at
the tick. `tx` and `nonceUsed` are the chain; `Mine` decides by the state at
mining time. `Faults` selects what the environment may do: crash, receipt
timeout, a lost answer to the broadcast, unreadable reads, a failing
deliverable.

**AgentCreditPool.** Every function that moves funds is an action; the loop in
`repayOnBehalf` is cut loan by loan while it holds the contract's lock
(`route`), which is what makes its accumulation of `used` visible. `held` is the
pool's USDC balance and exists next to the books (`idle`, `reserve`, `bond`) so
that they can be compared. `shortfall` is history: what liquidations credited
without receipt of USDC. Setters are one action `Govern` over candidate values,
valid ones and ones the contract refuses.

**ArcIntelExecutorV3.** Signed orders and session orders are constants, as
above. A fill picks what the pool takes (`taken`, at most the input) and returns
(`out`), so a swap may be partial or return nothing; `ReportedOut` is what
`unlockCallback` reports, with the unsigned cast. `ledger` records fills and
cancellations by nonce and, by session key, what was pulled and received since it
was last authorized.

**SessionTrading** adds the tables, the keepers and the relayer's transactions.
`issued` is the database's view of a session, `sessions` the contract's; the
wallet may send the authorization late or never. A keeper run is: fetch a batch,
pick a row and its session, estimate and broadcast, wait, record. No step claims
a row. A transaction outlives a keeper that stopped waiting for it (`Orphaned`).
`quiet` is history: rows cancelled while no keeper had them.

**StakingVault** is the vault with the splitter in front of it. Reward debts,
accumulator and what a withdrawal leaves are floor divisions as in the code;
`floored` is history: the remainders of the accumulator's divisions.
**BondingCurve** is curve, token limits, graduation and lock as one life of an
agent's token. **CrossChainOrders** has one balance for what the bridge brought
and any `spent` the venue takes. **YieldVault** has a strategy that drifts by a
unit and may be replaced.

**Custody.** A handler is create, enroll, or one of seven ways to spend: check,
nonce, (approval,) broadcast, record, each a step of its own with its own
connection, since `sign_server.py` runs a thread a request. `blind` is history:
the most that one of a day's checks could not see; `grace` the handlers past
their checks at the last freeze.

**PaperEngine** relates the bot's approvals (`proposal`) to the policy module
(`policy`) and computes outcomes from a price series that is indexed in any order.
**CopyEngine** is a pass over a snapshot of followed wallets and filters while the
routes edit them. **Preorders** has the table, any number of keepers, `/sign` in
two statements, and the protections an alert fires. **Watchlist**, **Rewards** and
**Conversation** are one chat's state under its writers (command thread, wallet
worker, fills, mini-app, copy engine), each read-change-write in two steps.

**LiveFeed** runs one token from the chain to the chats, a commit a step, with a
stop anywhere. **LegRules** runs two alert states over the same legs: one that
never stopped, one rebuilt in silence. **EventIndexer**, **Backfill**, **Senders**
and **BlockIngest** are the four programs that read blocks into a database, each
with its cursor. **TradePnl** accounts the same swaps three times; **WalletScores**
is the composite run with what it read when; **RiskReport** runs the batch report
beside the live engine.

**MevBots** has four processes with cooldowns, simulations, one account's nonces
and one history file. **ReplySender** is the poller's queue and its threads,
**Notices** the deposit watcher and the throttle.

## 3. The runs

| Run | Distinct states | Question |
|---|---:|---|
| `orders` | 9,504 | Limit orders, two on one nonce: type, `NoResidue`, `NonceFillsOnce`, `FillsHonourMinOut` |
| `dca` | 75,864 | DCA parts over two permits: `DebitsWithinSignatures`, `DcaRateUpToRounding` |
| `keeper_faulty` | 180,752 | All faults: type, `FilledIsBacked`, `FinalUnlessDeliverableFails` |
| `keeper_reliable` | 22,984 | No crash, timeout or failing deliverable: `FinalIsTruthful`, `EveryOrderSettles`, `DeliverableFollowsFill`, refinement of `OrderLifecycle` |
| `credit_market` | 2,613,687 | Credit pool: type, `Solvent`, `BooksAddUp`, `ShareValueKept`, `WhoPaysFirst`, `OnlyMarketSinks`; staking, curve, bridge, yield: `ContractsFaithful` |
| `executor_v3` | 311,296 | Both kinds of fills, renewals, revocation, cancellation, the owner's switches: type, `SessionWithinGrant`, `DebitsWithinConsent` |
| `session_keepers` | 168,840 | Server, two keepers and contract together: type, `PaysOncePerOrder`, `OnlyPlacedOrdersFill`, `FilledIsReported` |
| `bot_money` | 2,486,249 | Eight parts: type, `CustodyFaithful`, `PaperFaithful`, `RewardsFaithful`, `ChatFaithful`, `MevFaithful` |
| `bot_work` | 1,792,609 | Eleven parts: type, `CopiesFaithful`, `PreordersFaithful`, `FeedFaithful`, `RebuildAgrees`, `IndexFaithful`, `AnalyticsFaithful` |
| `credit_whole` | violation | `LPsMadeWhole` |
| `v3_min_out` | violation | `MinOutEnforced` |
| `session_floor` | violation | `OneTapFills` with the server's default floor |

Each property of a passing run has at least one mutant of a mapped definition (a
dropped guard, a wrong rounding, a missing reset) that breaks it; a conjunction
over parts has one for each part. Some properties are proved and no longer part
of a run: `PulledWithinGrants`, `DeliverableIsBacked`, `NoResidue` and
`OneFillPerNonce` of V3, `ExecutedIsFilled`.

### Bounds, and why they are enough

* *Scales.* Rates are halves (`BPS = 2` in the executor), tenths (`BPS = 10` in
  the pool) or quarters (`SmallBPS = 4`) instead of ten-thousandths, a price unit
  is 1, the accumulator's scale is 2. Divisions keep a remainder at these scales:
  amounts of 1 to 3 at a scale of 2 round in both directions, a loan of 15 or 20
  at 2/10 pays interest, a performance fee and a reserve of different sizes.
* *Widths.* `U160 = 3` makes the cast of a DCA part wrap inside the amounts a
  keeper passes (0 to 3); in the limit-order run it does not bite. `U128 = 8`
  exceeds every amount, as 2^128 does, so the cast of a negative delta is large.
* *Executor.* Two users, of whom one has two orders on one nonce and a third order;
  a permit replaced by a second one; three parts an intent (the rounding error
  accumulates); a clock of two ticks past the earliest deadline.
* *Keeper.* Three orders to post (two share a nonce, one expires earlier, one has
  a job), two rows, so that the same order can be posted twice; a batch limit of
  one, so that rows wait for each other; three transactions; one crash.
  `Margin = 0` instead of 30 s: larger margins only refuse more posts.
* *Pool.* Two LPs and two agents are interchangeable, so the run uses their
  symmetry; it has no liveness property. Two loans let the loop skip one, pay one
  and stop at one; revenues of 24 and 42 lie below, between and above the debts
  (18, 24 and their sums). Loans against collateral run under a moving price and
  changed parameters (`market`). `MaxHeld`, `MaxCollateral`, `MaxShortfall`,
  `MaxLoans`, `MaxTime` and `MaxGov` bound the state.
* *Other contracts.* Two parties each. Staking: four moves, so that both floors
  meet a partial withdrawal; by hand also `Scale = 4` (2.9 million states). Curve:
  k = 48 over 4, not a square, with a threshold that is raised and lowered; by hand
  three other products. Bridge: three intents of two owners, six units delivered.
  Yield: prices from 1 to 4 assets a share, a loss and a gain.
* *V3.* One user, one key, two grants (one for each direction), at most two
  authorizations; a nonce that is signed both ways; a pool that is allowed by list
  and one by its hook; outputs of 0 and 1.
* *Session trading.* One user, two keys, one order, two keepers, one fault (a lost
  answer, a crash, a failed send or a reverting transaction): one order is enough
  for both keepers and both keys to race for it; `Limit = 2` never bites. Two
  orders that race for one budget are proved safe (section 5) and covered on the
  contract's side by `executor_v3`.
* *bot_money.* Custody: two handlers at a time, three calls, two days, one fault.
  Paper: four blocks, two horizons, one alert. Watch list: two tokens with room
  for one, two updates, two events. Rewards: two users, two fills, rounds of three
  units, one fault. Chat: three updates, one trouble (four updates searched by
  hand). Monitors: pairs of bots, two market moves, one hitch. Answers: three of two
  screens, two threads, two mishaps. Notices: two credits, one stumble, two ticks.
* *bot_work.* Copy: one leader, two trades, two edits, one fault. Preorders: two
  orders, two keepers, two signatures, one fault. Feed: one chat, two faults. Rules:
  five readings. Indexer: ranges of two blocks, two errors, two faults. Profits:
  every sequence of four swaps of two holders in three pools. Scores: three
  traders, two overlapping runs, one piece of news. Backfill: two runs of any two
  modes and jobs, two faults. Senders: two workers, two runs, one fault. Report: five
  trades. Data engine: three heights of two forks, one stop.

Deadlock is checked in the keeper's runs, where the worker always has a next
tick. A contract may have nothing left to do (all signatures used and the clock
at its bound), and a bounded part stops at its bounds, so the other
configurations switch the check off.

## 4. Fairness

* `KeeperOrders!FairSpec`: weak fairness of the worker, because `tick` reschedules
  itself in a `finally` (`worker.ts:207-211`); of time; and of the mining of
  each broadcast transaction. Nothing makes users post or the market move.
* `SessionTrading!Fairness`: weak fairness of `KeeperFetch` only for keepers in
  `Looping` (the bot's loop starts a run every cycle, `telegram.py:935-939`;
  nothing starts a second thread); of a run that was started; and that a
  transaction somebody waits for is eventually mined, either way. Users, wallets
  and the clock are not fair.
* `OneTapFills` speaks only of orders that every session the server may pick
  would allow. `FilledIsReported` holds until the first fault: afterwards a
  lost answer leaves a filled row armed, and nothing reads its nonce.
* All other properties are safety properties and need no fairness.

## 5. The proofs

All theorems hold for every value of the constants under the named assumptions
of the modules (section 6). Sums over parties are written as the cardinality of
a set of units (`Totals`), so that the library's facts about finite sets give
what a change of one entry does without an induction over the parties.

| Module | Theorem | Says |
|---|---|---|
| `Totals_proofs` | `TotalUpdate`, `TotalMono`, `TotalAdd`, `TotalScale`, `TotalPart`, `TotalConst`, `TotalMove`, `TotalOnceGrows`, `TotalOnceNew` | what sums do when an entry, a domain or all entries change; with them the arithmetic of floor divisions (`DivMod`, `MulCancel`, `FloorSplit`) |
| `OrderExecutor_proofs` | `TypeCorrect`, `NothingAtRest`, `OrdersFillOnce`, `OrdersFillAtPrice` | no underflow; no residue; one fill a nonce; at least minOut for each fill |
| | `DcaWithinGrants`, `DcaRate` | DCA within its permits and, up to rounding, at its rate |
| | `WalletsWithinSignatures` | a wallet parts with no more than its spent nonces and registered permits name |
| `KeeperOrders_proofs` | `TypeCorrect`, `FilledTellsTheTruth`, `DeliverablesAreBacked`, `FinalStays` | under all faults: what is FILLED was filled by a transaction of that row; a deliverable proves a fill; only a failing deliverable changes a final status |
| | `FinalTellsTheTruth`, `KeeperKeepsPromise` | in a reliable environment: every final status is what the chain says; the keeper implements `OrderLifecycle` |
| `AgentCreditPool_proofs` | `TypeCorrect`, `SolventUpToLiquidations`, `TotalsAreSums` | no underflow; USDC equals books less liquidations; totals are sums |
| | `ShareValueNotDiluted`, `OnlyTheMarketSinks`, `LossesAndRevenueInOrder` | three action properties: the share price, the liquidation threshold, who bears a loss and who is paid first |
| `SessionTrading_proofs` | of `ArcIntelExecutorV3`: `TypeCorrect`, `NothingAtRest`, `NonceFillsOnce`, `SessionsStayInScope`, `WalletsWithinConsent` | nobody overdrawn; no residue; one fill a nonce; a session key within its grant; a wallet within its filled orders and grants |
| | of `SessionTrading`: `TradingImplementsExecutor`, `TradingTypeCorrect`, `ExecutedTellsTheTruth`, `OnlyPlacedFill`, `TradingSessionsStayInScope`, `EachOrderPaidOnce` | server, keepers and chain are a use of the contract; the table tells the truth; keepers that race pay an order once |
| `Market_proofs` | `MarketKeepsPromises` | `ContractsFaithful`: staking vault, curve, cross-chain executor and yield vault, each with its own invariant |
| `BotMoney_proofs` | `CustodyKeepsPromises`, `PaperKeepsPromises`, `RewardsKeepPromises` | `CustodyFaithful`, `PaperFaithful`, `RewardsFaithful` for any handlers, limits, series, horizons, writers and rounds |
| `BotWork_proofs` | `PreordersKeepPromises`, `CopiesKeepPromises` | `PreordersFaithful` and `CopiesFaithful` for any keepers, orders, leaders and trades |

A component that is one part of `MCBotMoney` or `MCBotWork` has an invariant of its
own (`CustodyInv`, `CopiesInv`, ...); its theorem is about the whole specification:
the part's invariant holds while the part runs, and no other step touches it.

The inductive invariants, and why the properties alone are not inductive:

* *OrderExecutor.* `NonceFillsOnce` needs `NoncesRecorded`: the nonce of every
  order that was filled is spent. The refund takes the executor's whole balance,
  so `FillsHonourMinOut` and the type of balances need `NoResidue`.
  `DcaRateUpToRounding` is inductive by itself: a part adds at least
  `(part * rate) div scale` on an input of at most `part`, whatever the cast does.
  `DebitsWithinSignatures` needs `ConsentInv`: what left a wallet plus what its
  allowances still let go is within the spent nonces, each counted once with the
  largest amount signed for it, and the permits registered. A fill spends a new
  nonce, so the sum grows by what the fill may pull (`TotalOnceNew`).
* *KeeperOrders.* `WorkerBacked` ties the worker's row and hash to the transaction
  it sent; `RowsUsed` says that rows beyond the counter are empty and that
  transactions name inserted rows. With them `FilledIsBacked` survives a receipt,
  because a successful transaction never changes again. `FinalStays` adds
  `InHandPending`: a row in the worker's hands before it is sent is pending, since
  the batch is visited once and one at a time. The reliable environment adds
  `ReliableInv` (`Faults` within the failing reads): the transaction the
  worker waits for is the only one of its row, and every other final row agrees
  with the chain. The other faults break it, and should: a crash or a
  timeout leaves a transaction that is mined after the row was given up.
* *AgentCreditPool.* `LoansMade`: only loans that were made are active and they
  have a borrower, so closing a loan subtracts from the right agent.
  `outstanding - principal` cannot underflow because the total is a sum that
  contains the principal. The action properties are lemmas for each action under
  that invariant; `WhoPaysFirst` needs in addition what the lock of
  `repayOnBehalf` guarantees while the loop is under way (`RouteOk`: what was used
  is at most what came in, and loans before the cursor are paid or exceeded what
  was left) and the split of a loss (`WaterfallOf`).
* *ArcIntelExecutorV3.* `NoncesRecorded` as above, over both kinds of fill and
  cancellations; `SpentIsPulled`: the contract's `spent` is what the key pulled
  since it was last authorized, which a renewal resets on both sides.
  `DebitsCovered`: what a wallet lost plus what its live sessions may still pull
  (`Left`) is at most its filled orders (`SpentBy`) plus all it ever granted; a
  session fill moves its amount from what is left to what is lost.
* *SessionTrading.* `OffIInv` says that whatever a keeper or a transaction holds
  is a row that was placed, with its intent, and was not cancelled before
  somebody held it (`HeldArePlaced`, `SentArePlaced`), that a receipt marked ok
  belongs to a filled row (`ReceiptsAreTrue`), and that quiet rows stay
  cancelled. The refinement needs it, because a step of the contract must name a
  key, grant and order that exist. `PaysOncePerOrder` is `DebitsCovered` carried
  over, and the bridge from signatures to rows is `FreshNonces`.
* *Staking vault.* `Book`: the debts of all stakers, in parts of the scale, are
  short of `shares * accumulator` by what is due (`DueOf`), and what is due is at
  most what the vault holds plus one scale for every floor taken so far
  (`RoomOf`). The number of floors taken is what makes the inequality inductive.
* *Bonding curve.* `ProductKept`: the curve quotient `k div x` lies between the
  reserve and the virtual reserve, with one rounding of a trade as slack, so what
  sellers can get is backed.
* *Cross-chain executor.* `BridgeCovered`: all deliveries are at most what is held
  plus what was filled. Nobody else's delivery pays as long as no owner is
  overdrawn, and the sum over owners carries that to the balance.
* *Yield vault.* `YieldKept`: a product inequality between the price before and
  after an action; the floors of deposit and withdrawal both work for those who
  stay.
* *Custody.* `Covered`: by wallet and day, what is out and what is still to be sent
  is at most what the database counts, what is about to be counted, and what was
  lost with an answer or a stop. With it `Capped` is inductive: a check that reads
  the total sees all but the sums of the handlers in between, which is `blind`.
  `WellRun` says which operation may be at which step, `GraceInv` that whatever runs
  while stopped was past its checks, `KeyInv` that a second key needs two creations
  at once. The sums over handlers change by one handler's entry (`Totals_proofs`).
* *Paper engine.* `Settled`: an outcome depends on the series up to the block of its
  last horizon (`LastStays`, `OutcomeStays`), which lies behind the last trade when
  the outcome is computed, so a trade that is indexed in order cannot change it.
* *Contest and referrals.* `RecordedInTime`: a fill is in the database before its
  round can be announced, so the fills of an announced round stay the same set and
  whatever is computed from them stays too (the sums are never expanded).
  `AnnouncedSettled`, `PublishedSoFar` follow a publication through its four commits;
  `CreditsOnTheirWay` a fill through its two.
* *Preorders.* `SendersHold` and `OneHolder`: an order in a keeper's hands is not
  claimable, except after it was signed again; `RevokedIsIdle` makes a cancellation
  that nobody's work overlapped final.
* *Copy engine.* `CursorsTell`: a cursor stands where its leader was followed or at a
  decided trade, and every trade it passed was decided, shares its block with one,
  or was indexed late; `LeftComplete` says the same of the trades a pass still has.
  `DecidedBehind`, without faults: what was decided is behind the stored cursor.
  `OpenCounted`: the positions a pass counted are at least those that are open.
  The next trade is the smallest one left, which exists because naturals are
  well-founded.

Only model-checked: the liveness properties `EveryOrderSettles`,
`DeliverableFollowsFill` and `FilledIsReported` (fairness and ENABLED are out of
the prover's reach), and, so far, `ChatFaithful`, `MevFaithful`, `FeedFaithful`,
`RebuildAgrees`, `IndexFaithful`, `AnalyticsFaithful` and the types of the bot's
parts (`MoneyTypeOK`, `WorkTypeOK`; the parts with a theorem have their types in
their invariant). No module uses RECURSIVE operators.

## 6. What the models assume

* *Constants.* `DistinctAccounts`, `DistinctHolders`, `NumericConstants`,
  `SignedData`, `FinitelySigned` (executors), `Bounds` (keeper), `Parties`,
  `Numbers`, `Settings` (pool), `RowsHaveOrders`, `FreshNonces`, `KeeperNames`
  (session trading) and `StakingNumbers`, `CurveNumbers`, `BridgeNumbers`,
  `YieldNumbers` (`MCMarket`), `CustodyNumbers`, `PaperNumbers`, `RewardNumbers`
  (`MCBotMoney`), `OrderNumbers`, `CopyNumbers` (`MCBotWork`) say that parties are finite sets of distinct names,
  that amounts are naturals and that scales are not zero; TLC evaluates them in
  every run. The theorems `FinalTellsTheTruth` and `KeeperKeepsPromise` also assume
  `Reliable`.
* *Tokens* are plain ERC-20s that neither call back nor take a fee; nobody sends
  tokens to a contract without calling it.
* *OrderExecutor.* A router pays the user or a keeper, never the executor itself;
  the fee recipient is the treasury or none; the list of targets starts empty or
  with one target.
* *Pool.* Whoever pays in has the USDC; everybody is approved at first; price 0
  stands for an oracle that is not configured; risk parameters are bounded by
  `BPS` (the contract's 9,000 and 9,800 are tighter) and the cap on the penalty is
  left out; who may call a setter is not modelled.
* *V3.* Recipients are users; a missing Permit2 or token approval is a revert
  (no step); hooks do not call back into the executor; amounts fit uint160.
* *Keeper.* One POST of a signed order is under way at a time; `created_at` orders
  rows as their insertion does.
* *Session trading.* A chat has one wallet; no two rows share an order nonce (they
  are 62 random bits); `frozen` stands for a frozen chat and for custody paused
  for all; the owner's switches stay as they are, since `executor_v3` moves them;
  `cast` exits with an error on a reverted receipt; the relayer's own nonce
  collisions are failed sends (a fault); the attempts counter is left out because
  nothing reads it; rows of kind `buy` are never created, and rows of kind `sell`
  never submitted, by this version of the code.
* *Bot and indexer.* SQLite statements are atomic and a commit is durable; a node's
  answer is an oracle that may fail where the code handles it; a process stops
  only between two commits; each part of `MCBotMoney` and `MCBotWork` runs alone.

## 7. Findings and observations

Findings, each with a run that shows it:

1. `credit_whole`: a liquidation credits `idle` with USDC the pool never
   receives (`AgentCreditPool.sol:551`), although it promises to make LPs whole.
2. `v3_min_out`: a swap of currency1 that returns nothing passes the minOut check
   (`ArcIntelExecutorV3.sol:380`).
3. `session_floor`: the default floor is computed over the budget and applied to
   each order (`sign_server.py:157`), so with the defaults no order can fill.

Observations while modelling, without a run of their own. *Orders and contracts:*

* `src/sdk/python/README.md:61` lets clients poll until a final status, but a
  deliverable that fails turns FILLED into FAILED (`worker.ts:180-188`); that
  this is the only change of a final status is `FinalUnlessDeliverableFails`. A
  deliverable is lost when the process stops between `worker.ts:175` and `:180`.
* The per-part floor of a DCA rate (`OrderExecutor.sol:323-324`) lets small parts
  fill below the signed rate by at most a unit a part: `DcaRateUpToRounding`.
* Borrowing against collateral ignores the utilization cap
  (`AgentCreditPool.sol:502`), and what it lends is in no total that prices the
  shares (`:510-512`): LPs that enter meanwhile pay too little. `ShareValueKept`
  excepts this step. A position whose collateral is worth 0 cannot be
  liquidated (`:542`).
* `docs/PHASE2_ARCHITECTURE.md:38-39` says that revenue below the debt pays the
  pool in full. The pool repays whole loans only (`AgentCreditPool.sol:296`); what
  the code guarantees is in `WhoPaysFirst`.
* V3 refunds its whole balance of the input token (`ArcIntelExecutorV3.sol:268`),
  which is the user's own as long as nothing is at rest.
* `AUDIT_SCOPE.md:57` says that pending rewards never underflow: after a partial
  withdrawal the debt left can be one unit too high, and `pendingRewards`, `withdraw`
  and `claim` revert until the next reward (`AgentStakingVault.sol:107-110`).
  `AUDIT_SCOPE.md:56`: a reward below `totalSupply / 1e18` units is credited to
  nobody. Several deposits floor several debts, so the last claim can find one
  unit a deposit too little. `AUDIT_SCOPE.md:50`: `k = x * y` holds up to rounding.
* Graduation is decided inside `buy` only; `lockSeconds = 0` makes it revert.
* The cross-chain executor has one balance for all deliveries, and unspent input
  or the USDC of expired intents stays in it. The yield vault's withdrawal may
  burn no shares, and replacing a strategy that holds funds drops them.

*Trading bot:*

* `attach_signature` sets `signed`, but the keepers list only `armed` sells and
  `buy` rows: a signed protective sale never fires, although `keeper.py:9-10` says
  so. The youngest active session hides older ones (`store.py:564-570`); 50 armed
  rows that cannot fill keep younger ones from being read (`store.py:872`).
* Sales of `custsell_fn` are outside the daily caps, and checks that overlap each
  miss what the other is about to record (`DailyCapsUpToUnseen`).
* A leader that is switched off and on again has the trades made meanwhile copied.
  A copied buy with `dump_guard` turns auto-protection back on after its owner
  turned it off.
* The queue keeps delivered rows, so more than 2,000 of them starve newer alerts
  (`store.py:1203` says none is discarded); the liquidity cursor is stored before
  its alerts are queued (`telegram.py:891`), so a stop in between loses them.
* `/subscribe_recent` does not promote an automatic mark, so a manual token may be
  removed (`store.py:943`); a linked wallet that falls to 0 un-follows a token
  another wallet holds (`store.py:933`).
* A stale `awaiting_wallet` links a pasted token address; an open copy question
  swallows commands; a crash during a poll replays the whole batch.
* Telegram's 400 drops a message, although `sender.py:63` wants it sent plain;
  `erc20_balance` returns 0 when the node fails, so the next poll announces the
  whole balance as an arrival.
* Contest standings in the chat use unfiltered volumes (`commands.py:326`, `:340`)
  while the published result is filtered; a round nobody could announce within
  12 hours is never published.
* The Morpho bot rounds its shares up and the market rounds the cost up again, so
  a liquidation reverts unless the sum divides (`mev_morpho_liquidator.py:4-7`); the
  bots share one account's nonces, and one stuck transaction blocks all.

*Indexers:*

* `start = max(block of swaps)` skips blocks whose senders an aborted cycle did not
  resolve; `resolve_senders` stores NULL for an unknown transaction and never
  retries; gaps of the backfill are never fetched again, and its modes share one
  default job name (`backfill.py:250`).
* Confirming a block is four statements without a transaction; a stop between
  them leaves a canonical block whose rows are never marked. A height once seen
  with two hashes blocks the stream for good.
* The batch and the live risk report differ at the edge of a window and about who
  created a token (`RiskReport` states where they agree).
* `upsert_wallet` counts a trade again when a range is re-read, and wallet scores
  of wallets that left the ranking are never removed.

## 8. What is not modelled, and why

Executor V1 and V2 (superseded by V3, which has all their functions); the keeper
of the ERC-8183 agent and the event feed (external jobs, a stateless cache); the
mini-app API and texts (reads and wording); SDKs and the launchpad's web application
(stateless clients); operations scripts (polling of external services); fees and
tiers, reputation, token risk and safety scores (floating-point arithmetic without
a protocol); the poster of the public channel. What is left out inside a modelled
part is in that part's note in `PROJECT.json`.

## 9. The plan

What is left to prove, in this order, each with an invariant of the part like those
of section 5, searched by TLC first:

1. `FeedFaithful` and `IndexFaithful`: cursors that pass what is stored. The invariant
   relates the cursor, the range under way and the rows, as `CursorsTell` does.
2. `ChatFaithful`: the question and its answer, the watch list's read-change-write,
   the queue of answers, the baseline of notices.
3. `MevFaithful`: cooldowns and the one account's nonces.
4. `RebuildAgrees` and `AnalyticsFaithful` compare two computations over the same
   sequence; where they are folds over data they stay with TLC, since an induction
   over data is out of the prover's reach.
