---------------------------- MODULE StakingVault ----------------------------
(* AgentStakingVault with the RevenueSplitter that feeds it: stakers share USDC rewards   *)
(* through an accumulator of rewards per share, in floor divisions.                    *)
EXTENDS Integers, FiniteSets, Totals

CONSTANTS
    Stakers,
    Scale,              \* 1e18 of the accumulator
    Stakes,             \* amounts staked and withdrawn
    Revenues,           \* amounts that reach the splitter or the vault
    BPS, ShareChoices,  \* 10000 and what stakerShareBps may be set to
    MaxStaked, MaxRevenue, MaxStakeMoves    \* bounds of the model

VARIABLES
    staked,             \* balanceOf; the vault holds as many agent tokens
    accRewardPerShare, rewardDebt, pool,
    vault_usdc, treasury, splitter_held, stakerShareBps,
    revenue, moves,     \* counts for the bounds
    deposits, exits,    \* history: how often shares were added, and taken out
    floored,            \* history: what the accumulator's divisions dropped, times Scale
    partial             \* history: who withdrew a part since their debt was last set whole
vars == <<staked, accRewardPerShare, rewardDebt, pool, vault_usdc, treasury, splitter_held,
          stakerShareBps, revenue, moves, deposits, exits, floored, partial>>

totalSupply == Total(staked)
Rewards(shares, acc) == (shares * acc) \div Scale

Init ==
    /\ staked = [u \in Stakers |-> 0] /\ rewardDebt = [u \in Stakers |-> 0]
    /\ accRewardPerShare = 0 /\ pool = 0
    /\ vault_usdc = 0 /\ treasury = 0 /\ splitter_held = 0 /\ stakerShareBps \in ShareChoices
    /\ revenue = 0 /\ moves = 0 /\ deposits = 0 /\ exits = 0 /\ floored = 0 /\ partial = {}

(* pendingRewards is a checked subtraction: without enough the call reverts.            *)
Earned(u) == Rewards(staked[u], accRewardPerShare)
PendingDefined(u) == Earned(u) >= rewardDebt[u]
pendingRewards(u) == Earned(u) - rewardDebt[u]

deposit(u, shares) ==
    LET supply == totalSupply + shares
    IN  /\ rewardDebt' = [rewardDebt EXCEPT ![u] = @ + Rewards(shares, accRewardPerShare)]
        /\ staked' = [staked EXCEPT ![u] = @ + shares]
        /\ accRewardPerShare' = accRewardPerShare + (pool * Scale) \div supply
        /\ pool' = 0
        /\ floored' = floored + ((pool * Scale) % supply)
        /\ deposits' = deposits + 1
        /\ UNCHANGED <<vault_usdc, treasury, splitter_held, stakerShareBps, exits, partial>>

(* Mutant: the debt of the shares that leave is not taken off.                           *)
DebtNotReduced(u, shares) == Rewards(staked[u], accRewardPerShare)
DebtLeft(u, shares) == Rewards(staked[u], accRewardPerShare) - Rewards(shares, accRewardPerShare)
_withdraw(u, shares) ==
    /\ shares <= staked[u] /\ PendingDefined(u) /\ pendingRewards(u) <= vault_usdc
    /\ rewardDebt' = [rewardDebt EXCEPT ![u] = DebtLeft(u, shares)]
    /\ staked' = [staked EXCEPT ![u] = @ - shares]
    /\ vault_usdc' = vault_usdc - pendingRewards(u)
    /\ exits' = exits + 1
    /\ partial' = IF shares < staked[u] THEN partial \cup {u} ELSE partial \ {u}
    /\ UNCHANGED <<accRewardPerShare, pool, treasury, splitter_held, stakerShareBps, deposits, floored>>
claim(u) ==
    /\ PendingDefined(u) /\ pendingRewards(u) \in 1..vault_usdc
    /\ rewardDebt' = [rewardDebt EXCEPT ![u] = Earned(u)]
    /\ vault_usdc' = vault_usdc - pendingRewards(u)
    /\ partial' = partial \ {u}
    /\ UNCHANGED <<staked, accRewardPerShare, pool, treasury, splitter_held, stakerShareBps,
                   deposits, exits, floored>>

(* notifyReward, as the splitter or anyone else calls it.                              *)
notifyReward(amount) ==
    /\ vault_usdc' = vault_usdc + amount
    /\ IF totalSupply = 0
       THEN pool' = pool + amount /\ UNCHANGED <<accRewardPerShare, floored>>
       ELSE /\ accRewardPerShare' = accRewardPerShare + (amount * Scale) \div totalSupply
            /\ floored' = floored + ((amount * Scale) % totalSupply)
            /\ UNCHANGED pool
ToStakers(amount) == (amount * stakerShareBps) \div BPS
Split(amount) ==
    /\ treasury' = treasury + amount - ToStakers(amount)
    /\ IF ToStakers(amount) > 0 THEN notifyReward(ToStakers(amount))
       ELSE UNCHANGED <<vault_usdc, pool, accRewardPerShare, floored>>
distribute(amount) == Split(amount) /\ UNCHANGED splitter_held
distributeBalance ==
    /\ splitter_held > 0
    /\ Split(splitter_held) /\ splitter_held' = 0
    /\ UNCHANGED revenue
(* USDC sent to the splitter waits for distributeBalance.                              *)
SendToSplitter(amount) ==
    /\ splitter_held' = splitter_held + amount
    /\ UNCHANGED <<vault_usdc, pool, accRewardPerShare, floored, treasury>>
setConfig(share) ==
    /\ stakerShareBps' = share /\ share # stakerShareBps
    /\ UNCHANGED <<vault_usdc, pool, accRewardPerShare, floored, treasury, splitter_held, revenue>>

Move ==
    /\ moves < MaxStakeMoves /\ moves' = moves + 1 /\ UNCHANGED revenue
    /\ \E u \in Stakers :
           \/ claim(u)
           \/ \E shares \in Stakes :
                  (totalSupply + shares <= MaxStaked /\ deposit(u, shares)) \/ _withdraw(u, shares)
Revenue ==
    /\ \/ \E amount \in Revenues :
              /\ revenue + amount <= MaxRevenue /\ revenue' = revenue + amount
              /\ \/ distribute(amount) \/ SendToSplitter(amount)
                 \/ notifyReward(amount) /\ UNCHANGED <<treasury, splitter_held>>
          /\ UNCHANGED stakerShareBps
       \/ distributeBalance /\ UNCHANGED stakerShareBps
       \/ \E share \in ShareChoices : setConfig(share)
    /\ UNCHANGED <<staked, rewardDebt, moves, deposits, exits, partial>>
Next == Move \/ Revenue
Spec == Init /\ [][Next]_vars

----------------------------------------------------------------------------
(* Shares, debts and balances are natural numbers.                                   *)
StakingTypeOK ==
    /\ staked \in [Stakers -> Nat] /\ rewardDebt \in [Stakers -> Nat]
    /\ accRewardPerShare \in Nat /\ pool \in Nat
    /\ vault_usdc \in Nat /\ treasury \in Nat /\ splitter_held \in Nat

(* What is owed is what the vault holds, but for the floors: each deposit floors a debt    *)
(* and may credit one unit too much; the accumulator drops what is less than a unit of it  *)
(* per share, and each share out and each staker less than one unit.                       *)
Owed == pool + Total([u \in Stakers |-> IF PendingDefined(u) THEN pendingRewards(u) ELSE 0])
RewardsAddUp ==
    /\ Owed <= vault_usdc + deposits
    /\ (vault_usdc - Owed) * Scale <= floored + Scale * (exits + Cardinality(Stakers))

(* A staker's pending rewards are defined, so that a withdrawal and a claim go through,     *)
(* unless a part was withdrawn before: the debt left may then be one unit too high          *)
(* (AgentStakingVault.sol:107-110), and the staker waits for the next reward.              *)
StakersServed ==
    \A u \in Stakers :
        /\ rewardDebt[u] <= Earned(u) + 1
        /\ u \notin partial => PendingDefined(u)

(* All of it.                                                                     *)
StakingFaithful == RewardsAddUp /\ StakersServed
=============================================================================
