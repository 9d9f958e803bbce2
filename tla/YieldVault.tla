----------------------------- MODULE YieldVault -----------------------------
(* AgentYieldVault: shares of a pool of cirBTC, part of it deployed in a strategy that       *)
(* gains, loses, and may be replaced while it holds funds.                               *)
EXTENDS Integers, FiniteSets, Totals

CONSTANTS
    Depositors,
    VaultAmounts,       \* what is deposited, withdrawn, redeemed, deployed and recalled
    MaxAssets, MaxYieldMoves, MaxDrift      \* bounds of the model

VARIABLES
    balance,            \* the vault's own cirBTC
    strategies,         \* "none", "first" or "second" -> what it manages
    strategy,
    vault_shares, yield_moves, drift
vars == <<balance, strategies, strategy, vault_shares, yield_moves, drift>>

Init ==
    /\ balance = 0 /\ strategies = [s \in {"none", "first", "second"} |-> 0]
    /\ strategy \in {"none", "first"}
    /\ vault_shares = [u \in Depositors |-> 0] /\ yield_moves = 0 /\ drift = 0

supply == Total(vault_shares)
totalAssets == balance + strategies[strategy]
(* Mutant: the share price leaves out what is deployed.                                 *)
SharesOfBalance(assets) == IF balance = 0 THEN assets ELSE (assets * supply) \div balance
convertToShares(assets) == IF supply = 0 THEN assets ELSE (assets * supply) \div totalAssets
convertToAssets(shares) == IF supply = 0 THEN shares ELSE (shares * totalAssets) \div supply

(* While there are shares and no assets the conversion divides by zero and reverts.         *)
Convertible == supply = 0 \/ totalAssets > 0
deposit(u, assets) ==
    /\ Convertible /\ totalAssets + assets <= MaxAssets
    /\ convertToShares(assets) > 0
    /\ vault_shares' = [vault_shares EXCEPT ![u] = @ + convertToShares(assets)]
    /\ balance' = balance + assets
    /\ UNCHANGED <<strategies, strategy>>
(* What the vault's own balance lacks is recalled, as far as the strategy has it; if it is    *)
(* not enough the payment reverts.                                                     *)
_burnAndPay(u, shares, assets) ==
    LET need == IF balance < assets THEN assets - balance ELSE 0
    IN  /\ shares <= vault_shares[u] /\ need <= strategies[strategy]
        /\ vault_shares' = [vault_shares EXCEPT ![u] = @ - shares]
        /\ balance' = balance + need - assets
        /\ strategies' = [strategies EXCEPT ![strategy] = @ - need]
        /\ UNCHANGED strategy
withdraw(u, assets) == Convertible /\ _burnAndPay(u, convertToShares(assets), assets)
redeem(u, shares) == _burnAndPay(u, shares, convertToAssets(shares))
Holder ==
    \E u \in Depositors, n \in VaultAmounts : deposit(u, n) \/ withdraw(u, n) \/ redeem(u, n)
Hand ==
    \E u, to \in Depositors, n \in VaultAmounts :
        /\ u # to /\ n <= vault_shares[u]
        /\ vault_shares' = [vault_shares EXCEPT ![u] = @ - n, ![to] = @ + n]
        /\ UNCHANGED <<balance, strategies, strategy>>

(* The owner's and the manager's steps.                                              *)
setStrategy ==
    /\ \E s \in DOMAIN strategies : s # strategy /\ strategy' = s
    /\ UNCHANGED <<balance, strategies, vault_shares>>
deployToStrategy(amount) ==
    /\ strategy # "none" /\ amount <= balance
    /\ balance' = balance - amount /\ strategies' = [strategies EXCEPT ![strategy] = @ + amount]
    /\ UNCHANGED <<strategy, vault_shares>>
recallFromStrategy(amount) ==
    /\ amount <= strategies[strategy]
    /\ balance' = balance + amount /\ strategies' = [strategies EXCEPT ![strategy] = @ - amount]
    /\ UNCHANGED <<strategy, vault_shares>>
Manager == \E n \in VaultAmounts : deployToStrategy(n) \/ recallFromStrategy(n)
(* The strategy's position gains or loses.                                             *)
Drift ==
    /\ drift < MaxDrift /\ drift' = drift + 1
    /\ \E gain \in {-1, 1} :
           /\ strategies[strategy] > 0 /\ strategies[strategy] + gain >= 0
           /\ totalAssets + gain <= MaxAssets
           /\ strategies' = [strategies EXCEPT ![strategy] = @ + gain]
    /\ UNCHANGED <<balance, strategy, vault_shares, yield_moves>>

Next ==
    \/ /\ yield_moves < MaxYieldMoves /\ yield_moves' = yield_moves + 1 /\ UNCHANGED drift
       /\ Holder \/ Hand \/ setStrategy \/ Manager
    \/ Drift
Spec == Init /\ [][Next]_vars

----------------------------------------------------------------------------
(* Assets and shares are natural numbers.                                            *)
YieldTypeOK ==
    /\ balance \in Nat /\ strategies \in [{"none", "first", "second"} -> Nat]
    /\ vault_shares \in [Depositors -> Nat]

(* No holder's step takes from the others more than a share is worth: a deposit and a      *)
(* redemption round for the vault, a withdrawal of assets rounds its shares down           *)
(* (AgentYieldVault.sol:139).                                                         *)
OthersKeepTheirValue ==
    [][\A u \in Depositors :
           (vault_shares'[u] = vault_shares[u] /\ strategy' = strategy /\ drift' = drift)
           => vault_shares[u] * totalAssets' * supply + vault_shares[u] * totalAssets
              >= vault_shares[u] * totalAssets * supply']_vars
=============================================================================
