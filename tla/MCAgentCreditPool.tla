------------------------- MODULE MCAgentCreditPool -------------------------
(* Small instances of AgentCreditPool.  Rates are tenths instead of basis    *)
(* points, so that a loan of 20 already pays a fee, a reserve and LPs.        *)
EXTENDS AgentCreditPool, TLC

CONSTANTS l1, l2, a1, a2

Symmetry == Permutations(LPs) \cup Permutations(Agents)

MCPolicy == [minLoan |-> 5, maxLoan |-> 20, maxTerm |-> 1, maxPerAgent |-> 40,
             epochCap |-> 40, epochDuration |-> 1, maxUtilizationBps |-> 8]
MCPolicies == {[MCPolicy EXCEPT !.maxUtilizationBps = 10, !.epochCap = 20],
               [MCPolicy EXCEPT !.maxPerAgent = 10]}      \* the second is refused
MCFees == [perf |-> 3, interest |-> 2, reserve |-> 3]
MCFeeChoices == {[perf |-> 0, interest |-> 1, reserve |-> 3],
                 [perf |-> 9, interest |-> 2, reserve |-> 3]}   \* the second is refused
MCRisk == [maxLtv |-> 7, threshold |-> 8, penalty |-> 1]
MCRisks == {[maxLtv |-> 3, threshold |-> 5, penalty |-> 2],
            [maxLtv |-> 8, threshold |-> 8, penalty |-> 1]}     \* the second is refused

(* A behaviour is about loans on a bond or about borrowing on collateral. *)
VARIABLE market
MCInit ==
    /\ Init
    /\ market \in BOOLEAN
LoansOnBond ==
    /\ ~market /\ Next
    /\ UNCHANGED <<market, gov, price, collateral, collateralDebt>>
BorrowingOnCollateral ==
    /\ market /\ Next
    /\ UNCHANGED <<market, now, bond, loanCount>>
    /\ held' <= 44 /\ totalShares' >= totalShares
    /\ Cardinality({l \in LPs : shares'[l] > 0}) <= 1
    /\ Cardinality({a \in Agents : collateral'[a] > 0 \/ collateralDebt'[a] > 0}) <= 1
MCNext == LoansOnBond \/ BorrowingOnCollateral
MCSpec == MCInit /\ [][MCNext]_<<vars, market>>
=============================================================================
