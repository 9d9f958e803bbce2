----------------------------- MODULE PaperEngine -----------------------------
(* Proposals of the alert loop and their paper outcomes: a proposal may be          *)
(* cancelled, approved after its cancel window or expire, and what acting on the    *)
(* alert would have brought is computed once, when the prices of every horizon are  *)
(* indexed.  One token; a block lasts one unit of time.                             *)
EXTENDS Integers, FiniteSets

CONSTANTS
    Horizons,                     \* in blocks
    ActDelay,                     \* blocks between an alert and the simulated sale
    CancelWindow, TTL,
    NeedsCode,                    \* the notional reaches the second-factor threshold
    PaperBlocks, Prices, MaxAlerts, MaxProposals     \* bounds

Alerts == 0..PaperBlocks
NoPrice == 0
Unknown == [at |-> 0, price |-> NoPrice]

VARIABLES
    ptime,
    series,        \* price of the last trade of each block, if any
    proposal,      \* approvals: per alert block, created and status
    policy,        \* the same approval under security/permissions.py
    paper_alerts,
    outcomes,      \* paper_outcomes: per alert block, the saved horizons
    cancelledLate, \* cancelled after the window the policy gives
    indexedLate    \* a trade was indexed below a later one
paperVars == <<ptime, series, proposal, policy, paper_alerts, outcomes, cancelledLate, indexedLate>>

NoProposal == [created |-> 0, status |-> "none"]
Statuses == {"none", "pending", "approved", "cancelled", "expired"}

PaperTypeOK ==
    /\ ptime \in 0..PaperBlocks
    /\ series \in [Alerts -> Prices \cup {NoPrice}]
    /\ proposal \in [Alerts -> [created : Alerts, status : Statuses]]
    /\ policy \in [Alerts -> Statuses]
    /\ paper_alerts \subseteq Alerts
    /\ DOMAIN outcomes \subseteq paper_alerts
    /\ cancelledLate \subseteq Alerts /\ indexedLate \in BOOLEAN

Init ==
    /\ ptime = 0
    /\ series = [b \in Alerts |-> NoPrice]
    /\ proposal = [b \in Alerts |-> NoProposal]
    /\ policy = [b \in Alerts |-> "none"]
    /\ paper_alerts = {} /\ outcomes = <<>>
    /\ cancelledLate = {} /\ indexedLate = FALSE

----------------------------------------------------------------------------
(* paper.py: the price of the last trade at or before a block.                      *)
Traded(b) == {c \in Alerts : c <= b /\ series[c] # NoPrice}
last_trade_at(b) ==
    IF Traded(b) = {} THEN Unknown
    ELSE LET c == CHOOSE c \in Traded(b) : \A d \in Traded(b) : d <= c
         IN [at |-> c, price |-> series[c]]
price_at(b) == last_trade_at(b).price

(* A horizon without a trade after the sale shows a price that did not move and     *)
(* counts in no statistic.                                                          *)
StaleFromAlert(a, src) == src.at <= a
Stale(a, src) == src.at <= a + ActDelay
Horizon(a, h) ==
    LET src == last_trade_at(a + h) IN [price |-> src.price, stale |-> Stale(a, src)]
paper_outcome(a) ==
    [sold |-> price_at(a + ActDelay), instant |-> price_at(a),
     horizons |-> [h \in {k \in Horizons : price_at(a + k) # NoPrice} |-> Horizon(a, h)]]

LastOf(S) == IF S = {} THEN 0 ELSE CHOOSE c \in S : \A d \in S : d <= c
max_leg_block == LastOf(Traded(PaperBlocks))

----------------------------------------------------------------------------
Index(b, p) ==
    /\ b <= ptime /\ p \in Prices /\ series[b] = NoPrice
    /\ series' = [series EXCEPT ![b] = p]
    /\ indexedLate' = (indexedLate \/ b < max_leg_block)
    /\ UNCHANGED <<ptime, proposal, policy, paper_alerts, outcomes, cancelledLate>>

Tick ==
    /\ ptime < PaperBlocks /\ ptime' = ptime + 1
    /\ UNCHANGED <<series, proposal, policy, paper_alerts, outcomes, cancelledLate, indexedLate>>

(* The loop files every alert for evaluation, once, and proposes a sale.            *)
add_paper_alert(a) ==
    /\ series[a] # NoPrice /\ a \notin paper_alerts /\ Cardinality(paper_alerts) < MaxAlerts
    /\ paper_alerts' = paper_alerts \cup {a}
    /\ UNCHANGED <<ptime, series, proposal, policy, outcomes, cancelledLate, indexedLate>>

propose(a) ==
    /\ a \in paper_alerts /\ proposal[a].status = "none"
    /\ Cardinality({b \in Alerts : proposal[b].status # "none"}) < MaxProposals
    /\ proposal' = [proposal EXCEPT ![a] = [created |-> ptime, status |-> "pending"]]
    /\ policy' = [policy EXCEPT ![a] = "pending"]
    /\ UNCHANGED <<ptime, series, paper_alerts, outcomes, cancelledLate, indexedLate>>

cancel_until(a) == proposal[a].created + CancelWindow
expires_ts(a) == proposal[a].created + TTL

(* What /approve makes of a pending proposal.                                       *)
ApproveAtOnce(a, code) ==
    IF ptime > expires_ts(a) THEN "expired"
    ELSE IF NeedsCode /\ ~code THEN "pending" ELSE "approved"
Approved(a, code) ==
    IF ptime > expires_ts(a) THEN "expired"
    ELSE IF ptime <= cancel_until(a) \/ (NeedsCode /\ ~code) THEN "pending" ELSE "approved"

(* permissions.py: confirm and cancel.                                              *)
confirm(a, code) ==
    IF policy[a] # "pending" THEN policy[a]
    ELSE IF ptime > expires_ts(a) THEN "expired"
    ELSE IF ptime > cancel_until(a) /\ (NeedsCode => code) THEN "approved" ELSE "pending"
can_cancel(a) == policy[a] = "pending" /\ ptime <= cancel_until(a)

approve(a, code) ==
    /\ proposal[a].status = "pending"
    /\ proposal' = [proposal EXCEPT ![a].status = Approved(a, code)]
    /\ policy' = [policy EXCEPT ![a] = confirm(a, code)]
    /\ UNCHANGED <<ptime, series, paper_alerts, outcomes, cancelledLate, indexedLate>>

cancel(a) ==
    /\ proposal[a].status = "pending"
    /\ proposal' = [proposal EXCEPT ![a].status = "cancelled"]
    /\ policy' = IF can_cancel(a) THEN [policy EXCEPT ![a] = "cancelled"] ELSE policy
    /\ cancelledLate' = IF can_cancel(a) THEN cancelledLate ELSE cancelledLate \cup {a}
    /\ UNCHANGED <<ptime, series, paper_alerts, outcomes, indexedLate>>

(* persist_pending: the alerts whose longest horizon lies behind the last indexed   *)
(* block; a restart may come after any of them.                                     *)
Soonest == CHOOSE h \in Horizons : \A k \in Horizons : h <= k
Longest == CHOOSE h \in Horizons : \A k \in Horizons : k <= h
ReadySoon == max_leg_block - Soonest
Ready == max_leg_block - Longest
list_pending_paper_alerts == {a \in paper_alerts \ DOMAIN outcomes : a <= Ready}

persist_pending(done) ==
    /\ done # {} /\ done \subseteq list_pending_paper_alerts
    /\ outcomes' = [a \in DOMAIN outcomes \cup done |->
                        IF a \in done THEN paper_outcome(a) ELSE outcomes[a]]
    /\ UNCHANGED <<ptime, series, proposal, policy, paper_alerts, cancelledLate, indexedLate>>

Next ==
    \/ Tick
    \/ \E b \in Alerts, p \in Prices : Index(b, p)
    \/ \E a \in Alerts : \/ add_paper_alert(a) \/ propose(a) \/ cancel(a)
                         \/ \E code \in BOOLEAN : approve(a, code)
    \/ \E done \in SUBSET list_pending_paper_alerts : persist_pending(done)

Spec == Init /\ [][Next]_paperVars

----------------------------------------------------------------------------
(* The bot's approvals follow the reference policy of security/permissions.py but   *)
(* for a cancellation, which the policy allows in the window only.                  *)
EnginesAgree == \A a \in Alerts : a \in cancelledLate \/ proposal[a].status = policy[a]

(* An outcome is saved once and never again: it is what the prices of all its       *)
(* horizons give at any later time, unless a trade is indexed out of order.         *)
OutcomesAreFinal ==
    indexedLate \/ \A a \in DOMAIN outcomes : outcomes[a] = paper_outcome(a)

(* A horizon that counts in the statistics has a trade after the simulated sale: it *)
(* does not show the sale's own price as a result.                                  *)
NoFrozenHorizonCounts ==
    \A a \in DOMAIN outcomes : \A h \in DOMAIN outcomes[a].horizons :
        outcomes[a].horizons[h].stale
            \/ \E b \in Alerts : b > a + ActDelay /\ b <= a + h /\ series[b] # NoPrice
=============================================================================
