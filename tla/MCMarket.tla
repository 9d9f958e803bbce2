------------------------------ MODULE MCMarket ------------------------------
(* The contracts that hold other people's money: the agent credit pool of              *)
(* MCAgentCreditPool, the staking vault with its splitter, the bonding curve with its   *)
(* graduation, the cross-chain executor and the yield vault.  They share nothing: a     *)
(* behaviour is one of one contract, and the others stay as they were.                  *)
EXTENDS MCAgentCreditPool

CONSTANTS
    Stakers, Scale, Stakes, StakingRevenues, SmallBPS, ShareChoices, MaxStaked, MaxRevenue,
    MaxStakeMoves,
    Buyers, X0, Y0, Spends, TokenAmounts, FeeChoices, Thresholds, SniperWindow, MaxWallet, MaxTx,
    LockChoices, MaxRaised, MaxCurveTime, MaxChanges,
    Intents, FeeRates, Interops, MaxDelivered, MaxBridgeTime, MaxSettings,
    Depositors, VaultAmounts, MaxAssets, MaxYieldMoves, MaxDrift

(* The registers are unsigned; the factory, the splitter and the setters refuse no reserves, *)
(* no supply, and shares or fees of more than the whole.                                 *)
ASSUME StakingNumbers ==
    /\ IsFiniteSet(Stakers) /\ Scale \in Nat \ {0} /\ SmallBPS \in Nat \ {0}
    /\ ShareChoices \subseteq 0..SmallBPS /\ Stakes \cup StakingRevenues \subseteq Nat \ {0}
ASSUME CurveNumbers ==
    /\ IsFiniteSet(Buyers) /\ Buyers \cap {"curve", "exchange"} = {}
    /\ X0 \in Nat \ {0} /\ Y0 \in Nat \ {0} /\ Thresholds \subseteq Nat
    /\ FeeChoices \subseteq [fee : 0..BPS, sniper : 0..BPS]
    /\ Spends \cup TokenAmounts \subseteq Nat \ {0} /\ LockChoices \subseteq Nat
ASSUME BridgeNumbers ==
    /\ IsFiniteSet(Intents) /\ \A i \in Intents : i.amountIn \in Nat
    /\ FeeRates \subseteq 0..SmallBPS /\ MaxDelivered \in Nat
ASSUME YieldNumbers == IsFiniteSet(Depositors) /\ VaultAmounts \subseteq Nat

VARIABLES
    part,
    staked, accRewardPerShare, rewardDebt, pool, vault_usdc, treasury, splitter_held,
    stakerShareBps, revenue, moves, deposits, exits, floored, partial,
    x, y, curve_fees, graduationUsdc, graduated, curve_usdc, tokens, limitsActive, moduleSet,
    lockSeconds, done, lock, time, changes, lowered,
    bridge_held, usedIntent, feeBps, interop, allowed, clock, settingsMade, delivered,
    balance, strategies, strategy, vault_shares, yield_moves, drift

Staking == INSTANCE StakingVault WITH Revenues <- StakingRevenues, BPS <- SmallBPS
Curve   == INSTANCE BondingCurve WITH fees <- curve_fees, reserve <- curve_usdc
Bridge  == INSTANCE CrossChainOrders WITH held <- bridge_held, BPS <- SmallBPS
Yield   == INSTANCE YieldVault

MCCurveFees == {[fee |-> 1, sniper |-> 3], [fee |-> 0, sniper |-> 1]}
MCIntents == {[owner |-> 1, amountIn |-> 4, deadline |-> 1, nonce |-> 1],
              [owner |-> 1, amountIn |-> 2, deadline |-> 2, nonce |-> 2],
              [owner |-> 2, amountIn |-> 4, deadline |-> 2, nonce |-> 1]}

creditVars  == <<vars, market>>
stakingVars == <<staked, accRewardPerShare, rewardDebt, pool, vault_usdc, treasury, splitter_held,
                 stakerShareBps, revenue, moves, deposits, exits, floored, partial>>
curveVars   == <<x, y, curve_fees, graduationUsdc, graduated, curve_usdc, tokens, limitsActive,
                 moduleSet, lockSeconds, done, lock, time, changes, lowered>>
bridgeVars  == <<bridge_held, usedIntent, feeBps, interop, allowed, clock, settingsMade, delivered>>
yieldVars   == <<balance, strategies, strategy, vault_shares, yield_moves, drift>>
marketVars  == <<part, creditVars, stakingVars, curveVars, bridgeVars, yieldVars>>

Off == 0
StakingOff ==
    /\ staked = Off /\ accRewardPerShare = Off /\ rewardDebt = Off /\ pool = Off /\ vault_usdc = Off
    /\ treasury = Off /\ splitter_held = Off /\ stakerShareBps = Off /\ revenue = Off /\ moves = Off
    /\ deposits = Off /\ exits = Off /\ floored = Off /\ partial = Off
CurveOff ==
    /\ x = Off /\ y = Off /\ curve_fees = Off /\ graduationUsdc = Off /\ graduated = Off
    /\ curve_usdc = Off /\ tokens = Off /\ limitsActive = Off /\ moduleSet = Off
    /\ lockSeconds = Off /\ done = Off /\ lock = Off /\ time = Off /\ changes = Off /\ lowered = Off
BridgeOff ==
    /\ bridge_held = Off /\ usedIntent = Off /\ feeBps = Off /\ interop = Off /\ allowed = Off
    /\ clock = Off /\ settingsMade = Off /\ delivered = Off
(* The yield vault that is off is an empty one, which a property of its steps can read.  *)
YieldOff == Yield!Init /\ strategy = "none"

MarketInit ==
    /\ part \in {"credit", "staking", "curve", "bridge", "yield"}
    /\ MCInit /\ (part # "credit" => market)
    /\ IF part = "staking" THEN Staking!Init ELSE StakingOff
    /\ IF part = "curve" THEN Curve!Init ELSE CurveOff
    /\ IF part = "bridge" THEN Bridge!Init ELSE BridgeOff
    /\ IF part = "yield" THEN Yield!Init ELSE YieldOff
CreditStep ==
    /\ part = "credit" /\ MCNext
    /\ UNCHANGED <<part, market, stakingVars, curveVars, bridgeVars, yieldVars>>
StakingStep ==
    /\ part = "staking" /\ Staking!Next
    /\ UNCHANGED <<part, creditVars, curveVars, bridgeVars, yieldVars>>
CurveStep ==
    /\ part = "curve" /\ Curve!Next
    /\ UNCHANGED <<part, creditVars, stakingVars, bridgeVars, yieldVars>>
BridgeStep ==
    /\ part = "bridge" /\ Bridge!Next
    /\ UNCHANGED <<part, creditVars, stakingVars, curveVars, yieldVars>>
YieldStep ==
    /\ part = "yield" /\ Yield!Next
    /\ UNCHANGED <<part, creditVars, stakingVars, curveVars, bridgeVars>>
MarketNext == CreditStep \/ StakingStep \/ CurveStep \/ BridgeStep \/ YieldStep
MarketSpec == MarketInit /\ [][MarketNext]_marketVars

----------------------------------------------------------------------------
(* Staking vault: what is owed is what is held up to the floors, and only a partial     *)
(* withdrawal can leave a staker waiting for the next reward.  Curve: its reserves are   *)
(* backed, their product keeps, holders can sell, and it stops at its threshold.         *)
(* Cross-chain executor: a delivery pays its owner's intent unless another's was filled  *)
(* ahead of its own.  Yield vault: a holder's step takes from the others less than a     *)
(* share is worth.                                                                  *)
ContractsFaithful ==
    /\ [](part = "staking" => Staking!StakingTypeOK /\ Staking!StakingFaithful)
    /\ [](part = "curve" => Curve!CurveTypeOK /\ Curve!CurveFaithful)
    /\ [](part = "bridge" => Bridge!CrossChainTypeOK /\ Bridge!CrossChainFaithful)
    /\ [](part = "yield" => Yield!YieldTypeOK)
    /\ Yield!OthersKeepTheirValue
=============================================================================
