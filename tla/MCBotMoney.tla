----------------------------- MODULE MCBotMoney -----------------------------
(* The custodial wallet, the paper engine, the list of watched tokens, what fills  *)
(* earn in contest and referrals, a chat's questions, the threads that send the bot's *)
(* answers and its notices, and the monitors that send from the keeper's account, each with state of *)
(* its own: a behaviour is one of one part, the others stay as they were.           *)
EXTENDS Integers, FiniteSets, TLC

CONSTANTS
    Requests, Addresses, NoAddress, Amounts, Cap, MaxTrade, MaxBalance, Delay, DayLength,
    Funds, MaxTime, MaxCalls, MaxWallets, MaxSecrets, MaxCustodyFaults,
    Horizons, ActDelay, CancelWindow, TTL, NeedsCode, PaperBlocks, Prices, MaxAlerts, MaxProposals,
    WatchTokens, MAX_TOKENS, MaxUpdates, MaxEvents,
    Users, Sizes, MinNotional, RoundTrip, RoundLength, PublishDelay, LastTrade, LastTime, MaxContestFills,
    MaxRewardFaults,
    AlertKinds, MaxPosts, MaxTroubles,
    Crews, Borrowers, Shares, Pledge, BorrowAssets, BorrowShares, VirtualShares, MaxDebt, Oracle, Gain,
    MinProfit, SearchRounds, Grain, TickSpacing, Whales, MinSwap, Cool, HistoryMax, MaxMoves, MaxHitches,
    MaxMevTime,
    Scripts, SendWorkers, MaxMishaps,
    Owner, Recipients, OtherSenders, GlobalPause, ChatPause, MinNotify, MaxCredits, MaxSpends,
    MaxStumbles, MaxTicks

VARIABLES
    money_part,
    now, paused, frozen, wallet, totp, usable, total, holdings, position, protect, req, chain, made,
    secrets, calls, custody_faults, told, known, doubled, out, lost, blind, grace,
    ptime, series, proposal, policy, paper_alerts, outcomes, cancelledLate, indexedLate,
    tokens, auto_subs, linked, passing, tg_offset, open_position, inbox, bot, scan, fill, changes,
    ufaults, handled, backlog, wanted, clobbered, crossed, leftover, dropped,
    time, fills, qty_held, referrer, credits, rounds, winner_rows, writing, publishing, rfaults,
    announced, hung, uncredited, rebound, cut_short,
    note, kinds, copy_settings, autoprotect, posts, offset, poller, webapp, copier, troubles,
    did, applied, failed, meant, tangled, chosen, forced,
    mtime, price, debt, shares, coll, mhead, acct, txs, crew, mev_live, mev, last, seen, base, file, moves,
    hitches, tried, rushed, recorded, overlapped, mev_torn, met, broken_off, steady, blinded,
    replies, next_up, kept_offset, jobs, sending, screen, mishaps, tally, sent_again, swept, raced, ahead,
    balance, baseline, watcher, clock_tick, last_global, last_chat, waits, credits_seen, spent, said,
    small, stumbles, misread, unsaid, passed, hasty

Custody == INSTANCE Custody WITH MaxFaults <- MaxCustodyFaults, faults <- custody_faults
Paper   == INSTANCE PaperEngine
Watch   == INSTANCE Watchlist WITH Tokens <- WatchTokens
Rewards == INSTANCE Rewards WITH MaxFills <- MaxContestFills, cut <- cut_short
Chat    == INSTANCE Conversation
Mev     == INSTANCE MevBots WITH live <- mev_live, torn <- mev_torn
Sender  == INSTANCE ReplySender WITH again <- sent_again
Notices == INSTANCE Notices

(* sign_server.py: the amounts, limits and bounds of the custodial wallet.              *)
ASSUME CustodyNumbers ==
    /\ IsFiniteSet(Requests) /\ Amounts \subseteq Nat /\ Funds \in Nat
    /\ Cap \in [{"wd", "td"} -> Nat] /\ DayLength \in Nat \ {0}
    /\ MaxTime \in Nat /\ MaxWallets \in Nat /\ MaxCustodyFaults \in Nat

(* paper.py: a simulated sale takes ActDelay, within the longest horizon.                   *)
ASSUME PaperNumbers ==
    /\ PaperBlocks \in Nat /\ NeedsCode \in BOOLEAN /\ CancelWindow \in Nat /\ TTL \in Nat
    /\ ActDelay \in Nat /\ Horizons \subseteq Nat \ {0} /\ 0 \notin Prices
    /\ \E h \in Horizons : ActDelay <= h /\ \A k \in Horizons : k <= h

(* monetization/contest.py, contest_publish.py: the lengths of a round and of the delay.     *)
ASSUME RewardNumbers ==
    /\ RoundLength \in Nat \ {0} /\ PublishDelay \in Nat \ {0} /\ RoundTrip \in Nat
    /\ LastTime \in Nat /\ LastTrade \in Nat /\ MaxContestFills \in Nat /\ MaxRewardFaults \in Nat
    /\ 0 \notin Users

MCCap == [wd |-> 1, td |-> 1]
MCCrews == {{"jit", "morpho"}, {"arb", "liq"}, {"arb", "morpho"}}
MCGain == <<<<-5, -4, -3, -2, -1, 0, 6, 3>>, <<0, 0, 0, 0, 0, 0, 0, 0>>, <<1, 2, 4, 6, 5, 3, -1, -2>>>>
MCWhales == {[n |-> 1, block |-> 2, usd |-> 2], [n |-> 2, block |-> 2, usd |-> 3],
             [n |-> 3, block |-> 3, usd |-> 2], [n |-> 4, block |-> 3, usd |-> 1]}
MCCool == [liq |-> 2, morpho |-> 2, arb |-> 2, jit |-> 1]
MCScripts ==
    LET edited == [screen |-> 1, edit |-> TRUE,  html |-> TRUE, bad |-> FALSE]
        sent   == [screen |-> 2, edit |-> FALSE, html |-> TRUE, bad |-> FALSE]
    IN  {<<edited, [edited EXCEPT !.html = FALSE], edited>>,
         <<sent, [sent EXCEPT !.bad = TRUE], [sent EXCEPT !.html = FALSE]>>}
(* Requests, WatchTokens and SendWorkers are the same two model values, each in its part.  *)
MoneySymmetry == Permutations(Requests)

custodyVars == <<now, paused, frozen, wallet, totp, usable, total, holdings, position, protect, req,
                 chain, made, secrets, calls, custody_faults, told, known, doubled, out, lost, blind, grace>>
paperVars   == <<ptime, series, proposal, policy, paper_alerts, outcomes, cancelledLate, indexedLate>>
watchVars   == <<tokens, auto_subs, linked, passing, tg_offset, open_position, inbox, bot, scan, fill,
                 changes, ufaults, handled, backlog, wanted, clobbered, crossed, leftover, dropped>>
rewardVars  == <<time, fills, qty_held, referrer, credits, rounds, winner_rows, writing, publishing,
                 rfaults, announced, hung, uncredited, rebound, cut_short>>
chatVars    == <<note, kinds, copy_settings, autoprotect, posts, offset, poller, webapp, copier, troubles,
                 did, applied, failed, meant, tangled, chosen, forced>>
mevVars     == <<mtime, price, debt, shares, coll, mhead, acct, txs, crew, mev_live, mev, last, seen, base,
                 file, moves, hitches, tried, rushed, recorded, overlapped, mev_torn, met, broken_off, steady,
                 blinded>>
replyVars   == <<replies, next_up, kept_offset, jobs, sending, screen, mishaps, tally, sent_again, swept,
                 raced, ahead>>
noticeVars  == <<balance, baseline, watcher, clock_tick, last_global, last_chat, waits, credits_seen,
                 spent, said, small, stumbles, misread, unsaid, passed, hasty>>
moneyVars == <<money_part, custodyVars, paperVars, watchVars, rewardVars, chatVars, mevVars, replyVars, noticeVars>>

(* A part that does not run has no state, and nothing the properties of steps read.  *)
Off == 0
CustodyOff ==
    /\ now = Off /\ paused = Off /\ frozen = Off /\ wallet = Off /\ totp = Off /\ usable = Off
    /\ total = Off /\ holdings = Off /\ position = Off /\ protect = Off /\ req = [r \in Requests |-> [step |-> "off"]]
    /\ chain = Off /\ made = Off /\ secrets = Off /\ calls = Off /\ custody_faults = Off /\ told = Off
    /\ known = Off /\ doubled = Off /\ out = Off /\ lost = Off /\ blind = Off /\ grace = Off
PaperOff ==
    /\ ptime = Off /\ series = Off /\ proposal = Off /\ policy = Off /\ paper_alerts = Off
    /\ outcomes = Off /\ cancelledLate = Off /\ indexedLate = Off
WatchOff ==
    /\ tokens = Off /\ auto_subs = Off /\ linked = Off /\ passing = Off /\ tg_offset = Off
    /\ open_position = Off /\ inbox = Off /\ bot = Off /\ scan = Off /\ fill = Off
    /\ changes = Off /\ ufaults = Off /\ handled = Off /\ backlog = Off /\ wanted = Off
    /\ clobbered = Off /\ crossed = Off /\ leftover = Off /\ dropped = Off
RewardOff ==
    /\ time = Off /\ fills = Off /\ qty_held = Off /\ referrer = Off /\ credits = Off
    /\ rounds = Off /\ winner_rows = Off /\ writing = Off /\ publishing = Off /\ rfaults = Off
    /\ announced = Off /\ hung = Off /\ uncredited = Off /\ rebound = Off /\ cut_short = Off
ChatOff ==
    /\ note = Off /\ kinds = Off /\ copy_settings = Off /\ autoprotect = Off /\ posts = Off
    /\ offset = Off /\ poller = Off /\ webapp = Off /\ copier = Off /\ troubles = Off
    /\ did = Off /\ applied = Off /\ failed = Off /\ meant = Off /\ tangled = Off
    /\ chosen = Off /\ forced = Off
MevOff ==
    /\ mtime = Off /\ price = Off /\ debt = Off /\ shares = Off /\ coll = Off /\ mhead = Off
    /\ acct = Off /\ txs = Off /\ crew = Off /\ mev_live = Off /\ mev = Off /\ last = Off /\ seen = Off
    /\ base = Off /\ file = Off /\ moves = Off /\ hitches = Off /\ tried = Off /\ rushed = Off
    /\ recorded = Off /\ overlapped = Off /\ mev_torn = Off /\ met = Off /\ broken_off = Off
    /\ steady = Off /\ blinded = Off
ReplyOff ==
    /\ replies = Off /\ next_up = Off /\ kept_offset = Off /\ jobs = Off /\ sending = Off /\ screen = Off
    /\ mishaps = Off /\ tally = Off /\ sent_again = Off /\ swept = Off /\ raced = Off /\ ahead = Off
NoticeOff ==
    /\ balance = Off /\ baseline = Off /\ watcher = Off /\ clock_tick = Off /\ last_global = Off
    /\ last_chat = Off /\ waits = Off /\ credits_seen = Off /\ spent = Off /\ said = Off /\ small = Off
    /\ stumbles = Off /\ misread = Off /\ unsaid = Off /\ passed = Off /\ hasty = Off
MoneyInit ==
    /\ money_part \in {"custody", "paper", "watchlist", "rewards", "chat", "mev", "replies", "notices"}
    /\ IF money_part = "custody" THEN Custody!Init ELSE CustodyOff
    /\ IF money_part = "paper" THEN Paper!Init ELSE PaperOff
    /\ IF money_part = "watchlist" THEN Watch!Init ELSE WatchOff
    /\ IF money_part = "rewards" THEN Rewards!Init ELSE RewardOff
    /\ IF money_part = "chat" THEN Chat!Init ELSE ChatOff
    /\ IF money_part = "mev" THEN Mev!Init ELSE MevOff
    /\ IF money_part = "replies" THEN Sender!Init ELSE ReplyOff
    /\ IF money_part = "notices" THEN Notices!Init ELSE NoticeOff
CustodyStep ==
    money_part = "custody" /\ Custody!Next /\ UNCHANGED <<money_part, paperVars, watchVars, rewardVars, chatVars, mevVars, replyVars, noticeVars>>
PaperStep ==
    money_part = "paper" /\ Paper!Next /\ UNCHANGED <<money_part, custodyVars, watchVars, rewardVars, chatVars, mevVars, replyVars, noticeVars>>
WatchStep ==
    money_part = "watchlist" /\ Watch!Next /\ UNCHANGED <<money_part, custodyVars, paperVars, rewardVars, chatVars, mevVars, replyVars, noticeVars>>
RewardStep ==
    money_part = "rewards" /\ Rewards!Next /\ UNCHANGED <<money_part, custodyVars, paperVars, watchVars, chatVars, mevVars, replyVars, noticeVars>>
ChatStep ==
    money_part = "chat" /\ Chat!Next /\ UNCHANGED <<money_part, custodyVars, paperVars, watchVars, rewardVars, mevVars, replyVars, noticeVars>>
MevStep ==
    money_part = "mev" /\ Mev!Next /\ UNCHANGED <<money_part, custodyVars, paperVars, watchVars, rewardVars, chatVars, replyVars, noticeVars>>
ReplyStep ==
    money_part = "replies" /\ Sender!Next
    /\ UNCHANGED <<money_part, custodyVars, paperVars, watchVars, rewardVars, chatVars, mevVars, noticeVars>>
NoticeStep ==
    money_part = "notices" /\ Notices!Next
    /\ UNCHANGED <<money_part, custodyVars, paperVars, watchVars, rewardVars, chatVars, mevVars, replyVars>>
MoneyNext == CustodyStep \/ PaperStep \/ WatchStep \/ RewardStep \/ ChatStep \/ MevStep \/ ReplyStep \/ NoticeStep
MoneySpec == MoneyInit /\ [][MoneyNext]_moneyVars

----------------------------------------------------------------------------
(* Every part's records keep their types.                                        *)
MoneyTypeOK ==
    CASE money_part = "custody" -> Custody!CustodyTypeOK
      [] money_part = "paper" -> Paper!PaperTypeOK
      [] money_part = "watchlist" -> Watch!WatchlistTypeOK
      [] money_part = "rewards" -> Rewards!RewardsTypeOK
      [] money_part = "chat" -> Chat!ConversationTypeOK
      [] money_part = "mev" -> Mev!MevTypeOK
      [] money_part = "replies" -> Sender!ReplyTypeOK
      [] money_part = "notices" -> Notices!NoticesTypeOK

(* Custody: a day's spending exceeds its limit only by what checks of handlers  *)
(* running at the same time, or a lost answer, could not see; after a freeze or  *)
(* pause only handlers past their checks still spend; the stored key is the one of *)
(* the address the user was given, and what the wallet bought is protected.      *)
CustodyFaithful ==
    /\ [](money_part = "custody" =>
            Custody!DailyCapsUpToUnseen /\ Custody!KeysKept /\ Custody!BoughtIsWatched)
    /\ Custody!FrozenStopsAll

(* Paper engine: approvals follow security/permissions.py, late cancels apart; a *)
(* saved outcome is what its prices give at any later time, and a horizon that   *)
(* counts has a trade after the simulated sale.                                  *)
PaperFaithful ==
    money_part = "paper" =>
        Paper!EnginesAgree /\ Paper!OutcomesAreFinal /\ Paper!NoFrozenHorizonCounts

(* Rewards: an announced round is never changed and is what its fills give, every   *)
(* announced result is stored and every fill of a referred user is credited once,   *)
(* each but for what the module names.                                            *)
RewardsFaithful == money_part = "rewards" => Rewards!RewardsFaithful

(* Chat: an answer is taken for the question right before it, each asking has one     *)
(* answer, nothing handled is left undone, and a setting is what was last chosen.     *)
(* Watch list: a subscription by hand stays until the user ends it, a token the bot's  *)
(* wallet holds is watched, and a command is carried out once.  Answers: each is sent   *)
(* once, and a screen shows its newest state.  Notices: what came in is told, and no    *)
(* more, at the throttle's pauses.  Each but for what the modules name.               *)
ChatFaithful ==
    /\ money_part = "chat" => Chat!ConversationFaithful
    /\ money_part = "watchlist" => Watch!WatchlistFaithful
    /\ money_part = "replies" => Sender!RepliesFaithful
    /\ money_part = "notices" => Notices!NoticesFaithful

(* Monitors: a key rests after an attempt, the account has one transaction waiting at  *)
(* most, only sums that divide are liquidated, the history and the large swaps are    *)
(* complete but for what the module names, and the search keeps the best size.        *)
MevFaithful == money_part = "mev" => Mev!MevFaithful
=============================================================================
