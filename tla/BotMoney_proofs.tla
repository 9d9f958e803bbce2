-------------------------- MODULE BotMoney_proofs --------------------------
(* Theorems about components of the bot, each a part of MCBotMoney, for every value of the constants. *)
EXTENDS MCBotMoney, Totals_proofs, WellFoundedInduction

(* Paper engine: the outcome of an alert depends on the series up to its last horizon.     *)
MaxOf(T) == CHOOSE c \in T : \A d \in T : d <= c
Before(s, b) == {c \in Paper!Alerts : c <= b /\ s[c] # 0}
LastIn(s, b) == IF Before(s, b) = {} THEN Paper!Unknown
                ELSE [at |-> MaxOf(Before(s, b)), price |-> s[MaxOf(Before(s, b))]]
OutcomeIn(s, a) ==
    [sold |-> LastIn(s, a + ActDelay).price, instant |-> LastIn(s, a).price,
     horizons |-> [h \in {k \in Horizons : LastIn(s, a + k).price # 0} |->
                      [price |-> LastIn(s, a + h).price, stale |-> LastIn(s, a + h).at <= a + ActDelay]]]

LEMMA MaxExists ==
    ASSUME NEW N \in Nat, NEW T \in SUBSET (0..N), T # {}
    PROVE  MaxOf(T) \in T /\ \A d \in T : d <= MaxOf(T)
<1> DEFINE R == {ss \in Nat \X Nat : ss[1] < ss[2]}
           U == {N - c : c \in T}
<1>1. IsWellFoundedOn(R, Nat)
  BY NatLessThanWellFounded DEF OpToRel
<1>2. U \subseteq Nat /\ U # {}
  <2>1. ASSUME NEW c \in T PROVE N - c \in Nat
    OBVIOUS
  <2>2. PICK c \in T : TRUE
    OBVIOUS
  <2> QED
    BY <2>1, <2>2
<1>3. PICK x \in U : \A y \in U : <<y, x>> \notin R
  <2> HIDE DEF R, U
  <2> QED
    BY <1>1, <1>2, WFMin
<1>4. PICK c \in T : x = N - c
  BY <1>3
<1>5. ASSUME NEW d \in T PROVE d <= c
  <2>1. N - d \in U /\ N - d \in Nat /\ x \in Nat
    BY <1>2, <1>3
  <2>2. ~(N - d < x)
    BY <1>3, <2>1
  <2> QED
    BY <1>4, <2>2
<1> QED
  BY <1>4, <1>5 DEF MaxOf

LEMMA OutcomeIs ==
    ASSUME NEW a PROVE Paper!paper_outcome(a) = OutcomeIn(series, a)
<1>1. ASSUME NEW b PROVE Paper!last_trade_at(b) = LastIn(series, b)
  BY DEF Paper!last_trade_at, LastIn, MaxOf, Before, Paper!Traded, Paper!NoPrice
<1> QED
  BY <1>1 DEF Paper!paper_outcome, OutcomeIn, Paper!price_at, Paper!Horizon, Paper!Stale, Paper!NoPrice

LEMMA LastStays ==
    ASSUME NEW s, NEW s2, NEW m \in Nat, NEW b \in Nat, b <= m,
           \A c \in Paper!Alerts : c <= m => s[c] = s2[c]
    PROVE  LastIn(s, b) = LastIn(s2, b)
<1>1. Before(s, b) = Before(s2, b)
  BY PaperNumbers DEF Before, Paper!Alerts
<1>2. CASE Before(s, b) # {}
  <2>1. MaxOf(Before(s, b)) \in Before(s, b)
    <3>1. Before(s, b) \in SUBSET (0..PaperBlocks)
      BY DEF Before, Paper!Alerts
    <3> QED
      BY <1>2, <3>1, MaxExists, PaperNumbers
  <2>2. s[MaxOf(Before(s, b))] = s2[MaxOf(Before(s, b))]
    BY <2>1, PaperNumbers DEF Before, Paper!Alerts
  <2> QED
    BY <1>1, <2>2 DEF LastIn
<1> QED
  BY <1>1, <1>2 DEF LastIn

LEMMA OutcomeStays ==
    ASSUME NEW s, NEW s2, NEW m \in Nat, NEW a \in Nat, \A h \in Horizons : a + h <= m,
           \A c \in Paper!Alerts : c <= m => s[c] = s2[c]
    PROVE  OutcomeIn(s, a) = OutcomeIn(s2, a)
<1>1. ASSUME NEW b \in Nat, b <= m PROVE LastIn(s, b) = LastIn(s2, b)
  BY <1>1, LastStays
<1>2. /\ a + ActDelay \in Nat /\ a + ActDelay <= m /\ a <= m
      /\ \A h \in Horizons : a + h \in Nat /\ a + h <= m
  BY PaperNumbers
<1>3. /\ LastIn(s, a + ActDelay) = LastIn(s2, a + ActDelay) /\ LastIn(s, a) = LastIn(s2, a)
      /\ \A h \in Horizons : LastIn(s, a + h) = LastIn(s2, a + h)
  BY <1>1, <1>2
<1>4. {k \in Horizons : LastIn(s, a + k).price # 0} = {k \in Horizons : LastIn(s2, a + k).price # 0}
  BY <1>3
<1> QED
  BY <1>3, <1>4 DEF OutcomeIn

TopOf(s) == IF Before(s, PaperBlocks) = {} THEN 0 ELSE MaxOf(Before(s, PaperBlocks))

LEMMA TopIs ==
    ASSUME NEW s
    PROVE  /\ TopOf(s) \in Paper!Alerts /\ \A c \in Paper!Alerts : s[c] # 0 => c <= TopOf(s)
           /\ TopOf(s) = 0 \/ s[TopOf(s)] # 0
<1>1. Before(s, PaperBlocks) = {c \in Paper!Alerts : s[c] # 0}
  BY PaperNumbers DEF Before, Paper!Alerts
<1>2. CASE Before(s, PaperBlocks) # {}
  <2>1. Before(s, PaperBlocks) \in SUBSET (0..PaperBlocks)
    BY DEF Before, Paper!Alerts
  <2>2. /\ MaxOf(Before(s, PaperBlocks)) \in Before(s, PaperBlocks)
        /\ \A d \in Before(s, PaperBlocks) : d <= MaxOf(Before(s, PaperBlocks))
    BY <1>2, <2>1, MaxExists, PaperNumbers
  <2> QED
    BY <1>1, <1>2, <2>2 DEF TopOf
<1>3. CASE Before(s, PaperBlocks) = {}
  BY <1>1, <1>3, PaperNumbers DEF TopOf, Paper!Alerts
<1> QED
  BY <1>2, <1>3

LEMMA TopIsMaxLeg == Paper!max_leg_block = TopOf(series)
  BY DEF Paper!max_leg_block, Paper!LastOf, Paper!Traded, TopOf, Before, MaxOf, Paper!NoPrice

(* A horizon of an outcome that counts has a trade after the sale.                        *)
CountsTruly(o, a, s) ==
    \A h \in DOMAIN o.horizons : o.horizons[h].stale
        \/ \E b \in Paper!Alerts : b > a + ActDelay /\ b <= a + h /\ s[b] # 0

LEMMA OutcomeCounts ==
    ASSUME NEW s, NEW a \in Nat PROVE CountsTruly(OutcomeIn(s, a), a, s)
<1> SUFFICES ASSUME NEW h \in DOMAIN OutcomeIn(s, a).horizons, ~OutcomeIn(s, a).horizons[h].stale
             PROVE  \E b \in Paper!Alerts : b > a + ActDelay /\ b <= a + h /\ s[b] # 0
  BY DEF CountsTruly
<1>1. h \in Horizons /\ ~(LastIn(s, a + h).at <= a + ActDelay)
  BY DEF OutcomeIn
<1>2. Before(s, a + h) # {}
  <2>1. Paper!Unknown.at = 0 /\ 0 <= a + ActDelay
    BY PaperNumbers DEF Paper!Unknown
  <2> QED
    BY <1>1, <2>1 DEF LastIn
<1>3. MaxOf(Before(s, a + h)) \in Before(s, a + h)
  <2>1. Before(s, a + h) \in SUBSET (0..PaperBlocks)
    BY DEF Before, Paper!Alerts
  <2> QED
    BY <1>2, <2>1, MaxExists, PaperNumbers
<1>4. LastIn(s, a + h).at = MaxOf(Before(s, a + h))
  BY <1>2 DEF LastIn
<1>5. PICK b \in Paper!Alerts : b = LastIn(s, a + h).at /\ b <= a + h /\ s[b] # 0
  BY <1>3, <1>4 DEF Before
<1>6. b > a + ActDelay
  BY <1>1, <1>5, PaperNumbers DEF Paper!Alerts
<1> QED
  BY <1>5, <1>6

PaperTyped ==
    /\ ptime \in Paper!Alerts /\ series \in [Paper!Alerts -> Prices \cup {0}]
    /\ proposal \in [Paper!Alerts -> [created : Paper!Alerts, status : Paper!Statuses]]
    /\ policy \in [Paper!Alerts -> Paper!Statuses]
    /\ paper_alerts \subseteq Paper!Alerts /\ DOMAIN outcomes \subseteq paper_alerts
    /\ indexedLate \in BOOLEAN

(* A saved outcome is what its series gives, and all its horizons lie behind the last trade: *)
(* a trade indexed in order leaves it as it is.                                         *)
Settled(o, s) ==
    \A a \in DOMAIN o : o[a] = OutcomeIn(s, a) /\ \A h \in Horizons : a + h <= TopOf(s)

CountTruly(o, s) == \A a \in DOMAIN o : CountsTruly(o[a], a, s)

PaperInv ==
    /\ PaperTyped /\ Paper!EnginesAgree
    /\ indexedLate \/ Settled(outcomes, series)
    /\ CountTruly(outcomes, series)

LEMMA PaperInvSays == ASSUME PaperInv PROVE Paper!EnginesAgree /\ Paper!OutcomesAreFinal /\ Paper!NoFrozenHorizonCounts
<1>1. Paper!OutcomesAreFinal
  BY OutcomeIs DEF PaperInv, Settled, Paper!OutcomesAreFinal
<1>2. Paper!NoFrozenHorizonCounts
  BY DEF PaperInv, CountTruly, CountsTruly, Paper!NoFrozenHorizonCounts, Paper!NoPrice
<1> QED
  BY <1>1, <1>2 DEF PaperInv

LEMMA PaperStart == ASSUME Paper!Init PROVE PaperInv
<1> USE DEF Paper!Init
<1>1. DOMAIN outcomes = {}
  OBVIOUS
<1>2. PaperTyped
  BY <1>1, PaperNumbers DEF PaperTyped, Paper!Alerts, Paper!NoPrice, Paper!NoProposal, Paper!Statuses
<1>3. Paper!EnginesAgree
  BY DEF Paper!EnginesAgree, Paper!NoProposal
<1> QED
  BY <1>1, <1>2, <1>3 DEF PaperInv, Settled, CountTruly

LEMMA PaperIndexes ==
    ASSUME PaperInv, NEW b \in Paper!Alerts, NEW p \in Prices, Paper!Index(b, p)
    PROVE  PaperInv'
<1>1. /\ series[b] = 0 /\ series' = [series EXCEPT ![b] = p]
      /\ indexedLate' = (indexedLate \/ b < TopOf(series))
      /\ UNCHANGED <<ptime, proposal, policy, paper_alerts, outcomes, cancelledLate>>
  BY TopIsMaxLeg DEF Paper!Index, Paper!NoPrice
<1>2. /\ series'[b] = p /\ p # 0 /\ \A c \in Paper!Alerts : c # b => series'[c] = series[c]
      /\ \A c \in Paper!Alerts : series[c] # 0 => series'[c] # 0
  BY <1>1, PaperNumbers DEF PaperInv, PaperTyped
<1>3. PaperTyped' /\ Paper!EnginesAgree'
  BY <1>1 DEF PaperInv, PaperTyped, Paper!EnginesAgree
<1>4. CountTruly(outcomes', series')
  BY <1>1, <1>2 DEF PaperInv, CountTruly, CountsTruly
<1>5. CASE ~indexedLate'
  <2> DEFINE m == TopOf(series)
  <2>1. Settled(outcomes, series) /\ ~(b < m) /\ m \in Paper!Alerts /\ (m = 0 \/ series[m] # 0)
        /\ TopOf(series') \in Paper!Alerts /\ (series'[m] # 0 => m <= TopOf(series'))
    BY <1>1, <1>5, TopIs DEF PaperInv
  <2> HIDE DEF m
  <2>2. m <= TopOf(series')
    BY <1>2, <2>1, PaperNumbers DEF Paper!Alerts
  <2>3. ASSUME NEW a \in DOMAIN outcomes
        PROVE  outcomes[a] = OutcomeIn(series', a) /\ \A h \in Horizons : a + h <= TopOf(series')
    <3>1. /\ a \in Nat /\ m \in Nat /\ b \in Nat /\ TopOf(series') \in Nat
          /\ \A h \in Horizons : a + h <= m
          /\ outcomes[a] = OutcomeIn(series, a)
      <4>1. a \in Paper!Alerts
        BY DEF PaperInv, PaperTyped
      <4>2. outcomes[a] = OutcomeIn(series, a) /\ \A h \in Horizons : a + h <= m
        BY <2>1 DEF Settled, m
      <4>3. a \in Nat /\ m \in Nat /\ b \in Nat /\ TopOf(series') \in Nat
        BY <2>1, <4>1, PaperNumbers DEF Paper!Alerts
      <4> QED
        BY <4>2, <4>3
    <3>2. m > 0
      BY <3>1, PaperNumbers
    <3>3. ASSUME NEW c \in Paper!Alerts, c <= m PROVE series[c] = series'[c]
      <4>1. c # b
        BY <1>1, <2>1, <3>1, <3>2, <3>3 DEF Paper!Alerts
      <4> QED
        BY <1>2, <4>1
    <3>4. OutcomeIn(series, a) = OutcomeIn(series', a)
      BY <3>1, <3>3, OutcomeStays
    <3>5. ASSUME NEW h \in Horizons PROVE a + h <= TopOf(series')
      BY <2>2, <3>1, PaperNumbers
    <3> QED
      BY <3>1, <3>4, <3>5
  <2> QED
    BY <1>1, <1>3, <1>4, <2>3 DEF PaperInv, Settled
<1> QED
  BY <1>3, <1>4, <1>5 DEF PaperInv

LEMMA PaperPersists ==
    ASSUME PaperInv, NEW done, Paper!persist_pending(done)
    PROVE  PaperInv'
<1>1. /\ done \subseteq paper_alerts
      /\ \A a \in done : a <= TopOf(series) - Paper!Longest
      /\ outcomes' = [a \in DOMAIN outcomes \cup done |->
                        IF a \in done THEN OutcomeIn(series, a) ELSE outcomes[a]]
      /\ UNCHANGED <<ptime, series, proposal, policy, paper_alerts, cancelledLate, indexedLate>>
  BY TopIsMaxLeg, OutcomeIs DEF Paper!persist_pending, Paper!list_pending_paper_alerts, Paper!Ready
<1>2. Paper!Longest \in Horizons /\ \A k \in Horizons : k <= Paper!Longest
  BY PaperNumbers DEF Paper!Longest
<1>3. PaperTyped' /\ Paper!EnginesAgree'
  BY <1>1 DEF PaperInv, PaperTyped, Paper!EnginesAgree
<1>4. ASSUME NEW a \in done
      PROVE  a \in Nat /\ \A h \in Horizons : a + h <= TopOf(series)
  <2>1. a \in Nat /\ TopOf(series) \in Nat /\ Paper!Longest \in Nat
    BY <1>1, <1>2, TopIs, PaperNumbers DEF PaperInv, PaperTyped, Paper!Alerts
  <2>2. a <= TopOf(series) - Paper!Longest
    BY <1>1
  <2>3. ASSUME NEW h \in Horizons PROVE a + h <= TopOf(series)
    BY <1>2, <2>1, <2>2, PaperNumbers
  <2> QED
    BY <2>1, <2>3
<1>5. indexedLate' \/ Settled(outcomes', series')
  BY <1>1, <1>4 DEF PaperInv, Settled
<1>6. CountTruly(outcomes', series')
  BY <1>1, <1>4, OutcomeCounts DEF PaperInv, CountTruly
<1> QED
  BY <1>3, <1>5, <1>6 DEF PaperInv

LEMMA PaperProposes ==
    ASSUME PaperInv, NEW a \in Paper!Alerts,
           \/ Paper!add_paper_alert(a) \/ Paper!propose(a) \/ Paper!cancel(a)
           \/ \E code \in BOOLEAN : Paper!approve(a, code)
    PROVE  PaperInv'
<1> DEFINE Proposal == [created : Paper!Alerts, status : Paper!Statuses]
<1>0. /\ proposal \in [Paper!Alerts -> Proposal] /\ policy \in [Paper!Alerts -> Paper!Statuses]
      /\ ptime \in Paper!Alerts /\ Paper!EnginesAgree
  BY DEF PaperInv, PaperTyped
<1>1. CASE Paper!add_paper_alert(a)
  BY <1>1 DEF Paper!add_paper_alert, PaperInv, PaperTyped, Paper!EnginesAgree, Settled, CountTruly
<1>a. ASSUME NEW q \in Proposal, NEW s \in Paper!Statuses, proposal' = [proposal EXCEPT ![a] = q],
             policy' = [policy EXCEPT ![a] = s], UNCHANGED <<ptime, series, paper_alerts, outcomes, indexedLate>>,
             cancelledLate \subseteq cancelledLate', a \in cancelledLate' \/ q.status = s
      PROVE  PaperInv'
  <2>1. PaperTyped'
    BY <1>0, <1>a DEF PaperInv, PaperTyped
  <2>2. Paper!EnginesAgree'
    BY <1>0, <1>a DEF Paper!EnginesAgree
  <2> QED
    BY <1>a, <2>1, <2>2 DEF PaperInv, Settled, CountTruly
<1>2. CASE Paper!propose(a)
  <2>1. [created |-> ptime, status |-> "pending"] \in Proposal /\ "pending" \in Paper!Statuses
    BY <1>0 DEF Paper!Statuses
  <2> QED
    BY <1>2, <1>a, <2>1 DEF Paper!propose
<1>3. CASE Paper!cancel(a)
  <2> DEFINE q == [proposal[a] EXCEPT !.status = "cancelled"]
             s == IF Paper!can_cancel(a) THEN "cancelled" ELSE policy[a]
  <2>1. q \in Proposal /\ s \in Paper!Statuses /\ q.status = "cancelled"
    BY <1>0 DEF Paper!Statuses
  <2>2. /\ proposal' = [proposal EXCEPT ![a] = q] /\ policy' = [policy EXCEPT ![a] = s]
        /\ cancelledLate \subseteq cancelledLate' /\ (~Paper!can_cancel(a) => a \in cancelledLate')
        /\ UNCHANGED <<ptime, series, paper_alerts, outcomes, indexedLate>>
    BY <1>0, <1>3 DEF Paper!cancel
  <2> QED
    BY <1>a, <2>1, <2>2
<1>4. ASSUME NEW code \in BOOLEAN, Paper!approve(a, code) PROVE PaperInv'
  <2> DEFINE q == [proposal[a] EXCEPT !.status = Paper!Approved(a, code)]
             s == Paper!confirm(a, code)
  <2>1. /\ proposal[a].status = "pending"
        /\ proposal' = [proposal EXCEPT ![a] = q] /\ policy' = [policy EXCEPT ![a] = s]
        /\ UNCHANGED <<ptime, series, paper_alerts, outcomes, cancelledLate, indexedLate>>
    BY <1>0, <1>4 DEF Paper!approve
  <2>2. Paper!Approved(a, code) \in Paper!Statuses /\ s \in Paper!Statuses
    BY <1>0 DEF Paper!Approved, Paper!confirm, Paper!Statuses
  <2>3. q \in Proposal /\ q.status = Paper!Approved(a, code)
    BY <1>0, <2>2
  <2>4. policy[a] = "pending" => Paper!Approved(a, code) = s
    <3>1. /\ ptime \in Int /\ Paper!cancel_until(a) \in Int /\ Paper!expires_ts(a) \in Int
      BY <1>0, PaperNumbers DEF Paper!cancel_until, Paper!expires_ts, Paper!Alerts
    <3> QED
      BY <3>1, PaperNumbers DEF Paper!Approved, Paper!confirm
  <2>5. a \in cancelledLate \/ policy[a] = "pending"
    BY <1>0, <2>1 DEF Paper!EnginesAgree
  <2> HIDE DEF q, s
  <2> QED
    BY <1>a, <2>1, <2>2, <2>3, <2>4, <2>5
<1> QED
  BY <1>1, <1>2, <1>3, <1>4

LEMMA PaperSteps == ASSUME PaperInv, [Paper!Next]_(Paper!paperVars) PROVE PaperInv'
<1>1. CASE UNCHANGED Paper!paperVars
  BY <1>1 DEF Paper!paperVars, PaperInv, PaperTyped, Paper!EnginesAgree, Settled, CountTruly
<1>2. CASE Paper!Tick
  <2>1. /\ ptime' = ptime + 1 /\ ptime < PaperBlocks
        /\ UNCHANGED <<series, proposal, policy, paper_alerts, outcomes, cancelledLate, indexedLate>>
    BY <1>2 DEF Paper!Tick
  <2>2. PaperTyped'
    BY <2>1, PaperNumbers DEF PaperInv, PaperTyped, Paper!Alerts
  <2> QED
    BY <2>1, <2>2 DEF PaperInv, Paper!EnginesAgree, Settled, CountTruly
<1> QED
  BY <1>1, <1>2, PaperIndexes, PaperPersists, PaperProposes DEF Paper!Next

PaperPart == money_part = "paper" => PaperInv

(* Paper engine (approvals.py, permissions.py, paper.py): approvals follow the reference    *)
(* policy, late cancellations apart; a saved outcome is what its prices give at any later  *)
(* time, unless trades are indexed out of order; a horizon that counts has a trade.        *)
THEOREM PaperKeepsPromises == MoneySpec => []PaperFaithful
<1>1. MoneyInit => PaperPart
  BY PaperStart DEF MoneyInit, PaperPart
<1>2. PaperPart /\ [MoneyNext]_moneyVars => PaperPart'
  <2> SUFFICES ASSUME PaperPart, [MoneyNext]_moneyVars, money_part' = "paper" PROVE PaperInv'
    BY DEF PaperPart
  <2>1. CASE PaperStep
    BY <2>1, PaperSteps DEF PaperStep, PaperPart
  <2>2. CASE money_part' = money_part /\ UNCHANGED paperVars
    <3>1. UNCHANGED Paper!paperVars
      BY <2>2 DEF paperVars, Paper!paperVars
    <3> QED
      BY <2>2, <3>1, PaperSteps DEF PaperPart
  <2>3. CASE UNCHANGED moneyVars
    BY <2>2, <2>3 DEF moneyVars
  <2>4. CASE MoneyNext /\ ~PaperStep
    BY <2>2, <2>4 DEF MoneyNext, CustodyStep, WatchStep, RewardStep, ChatStep, MevStep, ReplyStep, NoticeStep
  <2> QED
    BY <2>1, <2>3, <2>4
<1>3. PaperPart => PaperFaithful
  BY PaperInvSays DEF PaperPart, PaperFaithful
<1> QED
  BY <1>1, <1>2, <1>3, PTL DEF MoneySpec

(* Custody: the rows of the handlers.                                                    *)
Handler == [op : Custody!Spends \cup {"none", "create", "totp_get", "totp_rotate", "totp_verify"},
            step : Custody!Steps, asset : Custody!Assets, amt : Nat, to : Addresses \cup {NoAddress},
            wallet : 0..MaxWallets, read : Nat, nonce : Nat, day : Custody!Days]

(* A spend is at one of the steps of a spend, from a wallet there is; only purchases pay USDC *)
(* to a swap, and only a counted amount is added to a total.                             *)
SpendSteps == {"checked", "signed", "sent", "adding", "filling"}
WellRun(q) ==
    /\ q.op \in Custody!Spends <=> q.step \in SpendSteps
    /\ q.op \in Custody!Spends => q.wallet \in Custody!Wallets
    /\ q.op \in Custody!Swaps /\ q.asset = "usdc" => q.op \in Custody!Buys
    /\ q.step = "adding" => Custody!Counted(q)
    /\ q.op = "create" => q.step = "create"

CustodyTyped ==
    /\ now \in 0..MaxTime /\ wallet \in 0..MaxWallets /\ made \in Nat /\ secrets \in Nat
    /\ paused \in BOOLEAN /\ frozen \in BOOLEAN /\ holdings \in BOOLEAN
    /\ req \in [Requests -> Handler] /\ \A r \in Requests : WellRun(req[r])
    /\ chain \in [Custody!Wallets -> [usdc : Nat, tok : Nat, nonce : Nat, approved : SUBSET Custody!Assets]]
    /\ custody_faults \in Nat /\ told \subseteq Nat \ {0} /\ doubled \in BOOLEAN
    /\ total \in [Custody!Kinds -> [Custody!Days -> Nat]]
    /\ out \in [Custody!Kinds -> [Custody!Days -> Nat]]
    /\ lost \in [Custody!Kinds -> [Custody!Days -> Nat]]
    /\ blind \in [Custody!Kinds -> [Custody!Days -> Nat]]

(* What a handler's amount is for a day's limit: not out yet, not added yet, on its way   *)
(* between the two.                                                                     *)
Counts(q, k, d) == Custody!Counted(q) /\ Custody!Kind(q.op) = k /\ q.day = d
PendingOf(q, k, d)   == IF Counts(q, k, d) /\ q.step \in {"checked", "signed"} THEN q.amt ELSE 0
UncountedOf(q, k, d) == IF Counts(q, k, d) /\ q.step # "filling" THEN q.amt ELSE 0
ForgottenOf(q, k, d) == IF Counts(q, k, d) /\ q.step \in {"sent", "adding"} THEN q.amt ELSE 0
PendingIn(R, k, d)   == Total([q \in Requests |-> PendingOf(R[q], k, d)])
UncountedIn(R, k, d) == Total([q \in Requests |-> UncountedOf(R[q], k, d)])
ForgottenIn(R, k, d) == Total([q \in Requests |-> ForgottenOf(R[q], k, d)])

(* What left or is on its way is in the day's total, not added yet, or lost.            *)
Covered(k, d) ==
    out[k][d] + PendingIn(req, k, d) <= total[k][d] + UncountedIn(req, k, d) + lost[k][d]
Capped(k, d) == out[k][d] + PendingIn(req, k, d) <= Cap[k] + blind[k][d]
CapsInv == \A k \in Custody!Kinds, d \in Custody!Days : Covered(k, d) /\ Capped(k, d)

(* While the account is stopped, every spend under way was past its checks before.       *)
GraceInv == paused \/ frozen => \A r \in Requests : req[r].op \in Custody!Spends => r \in grace

(* Creations that do not overlap: the one that runs found no wallet.                     *)
Creators == {r \in Requests : req[r].op = "create"}
KeyInv ==
    doubled \/ /\ told \subseteq {wallet}
               /\ \A r, s \in Creators : r = s
               /\ Creators # {} => told = {}

CustodyInv == CustodyTyped /\ CapsInv /\ GraceInv /\ KeyInv /\ Custody!BoughtIsWatched

LEMMA SumOf ==
    ASSUME NEW S PROVE Custody!SumAmounts(S) = Total([q \in Requests |-> IF q \in S THEN req[q].amt ELSE 0])
  BY DEF Custody!SumAmounts, Custody!Total, Custody!Units, Custody!Cardinality, Total, Units, Cardinality

LEMMA SumsAre ==
    ASSUME NEW k, NEW d
    PROVE  /\ Custody!SumAmounts(Custody!Uncounted(k, d)) = UncountedIn(req, k, d)
           /\ Custody!Pending(k, d) = PendingIn(req, k, d)
           /\ Custody!Forgotten(k, d) = ForgottenIn(req, k, d)
<1> DEFINE U == Custody!Uncounted(k, d)
           P == {q \in Custody!Uncounted(k, d) : req[q].step \in {"checked", "signed"}}
           F == {q \in Custody!Uncounted(k, d) : req[q].step \in {"sent", "adding"}}
<1>1. [q \in Requests |-> IF q \in U THEN req[q].amt ELSE 0] = [q \in Requests |-> UncountedOf(req[q], k, d)]
  BY DEF Custody!Uncounted, UncountedOf, Counts
<1>2. [q \in Requests |-> IF q \in P THEN req[q].amt ELSE 0] = [q \in Requests |-> PendingOf(req[q], k, d)]
  BY DEF Custody!Uncounted, PendingOf, Counts
<1>3. [q \in Requests |-> IF q \in F THEN req[q].amt ELSE 0] = [q \in Requests |-> ForgottenOf(req[q], k, d)]
  BY DEF Custody!Uncounted, ForgottenOf, Counts
<1> QED
  BY <1>1, <1>2, <1>3, SumOf DEF Custody!Pending, Custody!Forgotten, PendingIn, UncountedIn, ForgottenIn

(* The sums of any table of handlers, and how they change with one of its rows.          *)
LEMMA SumsTyped ==
    ASSUME NEW R \in [Requests -> Handler], NEW k, NEW d
    PROVE  PendingIn(R, k, d) \in Nat /\ UncountedIn(R, k, d) \in Nat /\ ForgottenIn(R, k, d) \in Nat
<1>1. /\ [q \in Requests |-> PendingOf(R[q], k, d)] \in [Requests -> Nat]
      /\ [q \in Requests |-> UncountedOf(R[q], k, d)] \in [Requests -> Nat]
      /\ [q \in Requests |-> ForgottenOf(R[q], k, d)] \in [Requests -> Nat]
  BY DEF Handler, PendingOf, UncountedOf, ForgottenOf
<1> QED
  BY <1>1, CustodyNumbers, TotalType DEF PendingIn, UncountedIn, ForgottenIn

Edited(R, R2, r, z) == R2 \in [Requests -> Handler] /\ R2[r] = z /\ \A q \in Requests \ {r} : R2[q] = R[q]

LEMMA SumsEdited ==
    ASSUME NEW R \in [Requests -> Handler], NEW r \in Requests, NEW R2, Edited(R, R2, r, R2[r]), NEW k, NEW d
    PROVE  /\ PendingIn(R2, k, d) + PendingOf(R[r], k, d) = PendingIn(R, k, d) + PendingOf(R2[r], k, d)
           /\ UncountedIn(R2, k, d) + UncountedOf(R[r], k, d) = UncountedIn(R, k, d) + UncountedOf(R2[r], k, d)
<1>0. R2 \in [Requests -> Handler] /\ R[r].amt \in Nat /\ R2[r].amt \in Nat
  BY DEF Edited, Handler
<1>1. PendingOf(R[r], k, d) \in Nat /\ PendingOf(R2[r], k, d) \in Nat
      /\ UncountedOf(R[r], k, d) \in Nat /\ UncountedOf(R2[r], k, d) \in Nat
  BY <1>0 DEF PendingOf, UncountedOf
<1> DEFINE p == [q \in Requests |-> PendingOf(R[q], k, d)]
           u == [q \in Requests |-> UncountedOf(R[q], k, d)]
<1>2. p \in [Requests -> Nat] /\ u \in [Requests -> Nat]
  BY DEF Handler, PendingOf, UncountedOf
<1>3. p[r] = PendingOf(R[r], k, d) /\ u[r] = UncountedOf(R[r], k, d)
  OBVIOUS
<1>4. PICK v, w \in Nat : v = PendingOf(R2[r], k, d) /\ w = UncountedOf(R2[r], k, d)
  BY <1>1
<1>5. /\ [q \in Requests |-> PendingOf(R2[q], k, d)] = [p EXCEPT ![r] = v]
      /\ [q \in Requests |-> UncountedOf(R2[q], k, d)] = [u EXCEPT ![r] = w]
  BY <1>4 DEF Edited
<1> HIDE DEF p, u
<1>9. IsFiniteSet(Requests)
  BY CustodyNumbers
<1>6. Total([p EXCEPT ![r] = v]) = Total(p) - p[r] + v /\ Total(p) \in Nat
  BY <1>2, <1>9, TotalUpdate
<1>7. Total([u EXCEPT ![r] = w]) = Total(u) - u[r] + w /\ Total(u) \in Nat
  BY <1>2, <1>9, TotalUpdate
<1>8. /\ PendingIn(R2, k, d) = Total([p EXCEPT ![r] = v]) /\ PendingIn(R, k, d) = Total(p)
      /\ UncountedIn(R2, k, d) = Total([u EXCEPT ![r] = w]) /\ UncountedIn(R, k, d) = Total(u)
  BY <1>5 DEF PendingIn, UncountedIn, p, u
<1> QED
  BY <1>1, <1>3, <1>4, <1>6, <1>7, <1>8

Money == <<total, out, lost, blind>>
Account == <<now, paused, frozen, wallet, made, told, doubled>>

LEMMA IdleIs ==
    /\ Custody!Idle \in Handler /\ WellRun(Custody!Idle)
    /\ Custody!Idle.op \notin Custody!Spends \cup {"create"} /\ Custody!Idle.step = "idle"
    /\ \A k, d : PendingOf(Custody!Idle, k, d) = 0 /\ UncountedOf(Custody!Idle, k, d) = 0
<1>1. 0 \in Custody!Days
  BY CustodyNumbers, DivNat DEF Custody!Days
<1>2. Custody!Idle \in Handler
  BY <1>1, CustodyNumbers DEF Custody!Idle, Handler, Custody!Spends, Custody!Steps, Custody!Assets
<1> QED
  BY <1>2 DEF Custody!Idle, WellRun, SpendSteps, Custody!Spends, Custody!Swaps, Custody!Counted, PendingOf,
              UncountedOf, Counts

LEMMA TodayIs == ASSUME CustodyTyped PROVE Custody!Today \in Custody!Days
<1>1. now \in Nat /\ MaxTime \in Nat /\ now <= MaxTime /\ DayLength \in Nat \ {0}
  BY CustodyNumbers DEF CustodyTyped
<1> QED
  BY <1>1, DivNat, DivMono DEF Custody!Today, Custody!Days

LEMMA RowChanged ==
    ASSUME CustodyTyped, NEW r \in Requests, NEW z \in Handler, WellRun(z), req' = [req EXCEPT ![r] = z]
    PROVE  /\ req' \in [Requests -> Handler] /\ \A q \in Requests : WellRun(req'[q])
           /\ Edited(req, req', r, req'[r]) /\ req'[r] = z /\ \A q \in Requests \ {r} : req'[q] = req[q]
  BY DEF CustodyTyped, Edited

(* A handler moves on: what goes out was pending, and what is covered no more is not counted, *)
(* not added or lost instead.                                                           *)
LEMMA SumsMoved ==
    ASSUME CustodyTyped, NEW r \in Requests, Edited(req, req', r, req'[r]), NEW k, NEW d
    PROVE  /\ PendingIn(req', k, d) + PendingOf(req[r], k, d) = PendingIn(req, k, d) + PendingOf(req'[r], k, d)
           /\ UncountedIn(req', k, d) + UncountedOf(req[r], k, d) = UncountedIn(req, k, d) + UncountedOf(req'[r], k, d)
<1>1. req \in [Requests -> Handler] /\ req' \in [Requests -> Handler]
  BY DEF CustodyTyped, Edited
<1> QED
  BY <1>1, SumsEdited

LEMMA CapsMoved ==
    ASSUME CustodyTyped, CapsInv, NEW r \in Requests, Edited(req, req', r, req'[r]), UNCHANGED blind,
           total' \in [Custody!Kinds -> [Custody!Days -> Nat]],
           out' \in [Custody!Kinds -> [Custody!Days -> Nat]],
           lost' \in [Custody!Kinds -> [Custody!Days -> Nat]],
           \A k \in Custody!Kinds, d \in Custody!Days :
               /\ out'[k][d] + PendingOf(req'[r], k, d) <= out[k][d] + PendingOf(req[r], k, d)
               /\ total[k][d] + UncountedOf(req[r], k, d) + lost[k][d] + out'[k][d] + PendingOf(req'[r], k, d)
                    <= total'[k][d] + UncountedOf(req'[r], k, d) + lost'[k][d] + out[k][d] + PendingOf(req[r], k, d)
    PROVE  CapsInv'
<1> SUFFICES ASSUME NEW k \in Custody!Kinds, NEW d \in Custody!Days
             PROVE  Covered(k, d)' /\ Capped(k, d)'
  BY DEF CapsInv
<1>1. req \in [Requests -> Handler] /\ req' \in [Requests -> Handler]
  BY DEF CustodyTyped, Edited
<1>2. PICK p, u, p2, u2 \in Nat : /\ p = PendingIn(req, k, d) /\ u = UncountedIn(req, k, d)
                                  /\ p2 = PendingIn(req', k, d) /\ u2 = UncountedIn(req', k, d)
  BY <1>1, SumsTyped
<1>3. PICK a, b, a2, b2 \in Nat : /\ a = PendingOf(req[r], k, d) /\ b = UncountedOf(req[r], k, d)
                                  /\ a2 = PendingOf(req'[r], k, d) /\ b2 = UncountedOf(req'[r], k, d)
  BY <1>1 DEF Handler, PendingOf, UncountedOf
<1>4. p2 + a = p + a2 /\ u2 + b = u + b2
  <2>1. /\ PendingIn(req', k, d) + PendingOf(req[r], k, d) = PendingIn(req, k, d) + PendingOf(req'[r], k, d)
        /\ UncountedIn(req', k, d) + UncountedOf(req[r], k, d) = UncountedIn(req, k, d) + UncountedOf(req'[r], k, d)
    BY SumsMoved
  <2> QED
    BY <1>2, <1>3, <2>1
<1>9. /\ out[k][d] \in Nat /\ total[k][d] \in Nat /\ lost[k][d] \in Nat /\ blind[k][d] \in Nat
      /\ out'[k][d] \in Nat /\ total'[k][d] \in Nat /\ lost'[k][d] \in Nat
  BY DEF CustodyTyped
<1>5. PICK o, t, l, c, o2, t2, l2 \in Nat : /\ o = out[k][d] /\ t = total[k][d] /\ l = lost[k][d]
                                            /\ o2 = out'[k][d] /\ t2 = total'[k][d] /\ l2 = lost'[k][d]
                                            /\ c = blind[k][d]
  BY <1>9
<1>6. /\ o2 + a2 <= o + a /\ t + b + l + o2 + a2 <= t2 + b2 + l2 + o + a
  BY <1>3, <1>5
<1>7. o + p <= t + u + l /\ o + p <= Cap[k] + c /\ Cap[k] \in Nat
  BY <1>2, <1>5, CustodyNumbers DEF CapsInv, Covered, Capped, Custody!Kinds
<1>8. o2 + p2 <= t2 + u2 + l2 /\ o2 + p2 <= Cap[k] + c
  BY <1>4, <1>6, <1>7
<1> QED
  BY <1>2, <1>5, <1>8 DEF Covered, Capped

LEMMA CapsKept ==
    ASSUME CustodyTyped, CapsInv, NEW r \in Requests, Edited(req, req', r, req'[r]), UNCHANGED Money,
           \A k \in Custody!Kinds, d \in Custody!Days :
               /\ PendingOf(req'[r], k, d) = PendingOf(req[r], k, d)
               /\ UncountedOf(req'[r], k, d) = UncountedOf(req[r], k, d)
    PROVE  CapsInv'
<1>1. ASSUME NEW k \in Custody!Kinds, NEW d \in Custody!Days
      PROVE  /\ out'[k][d] + PendingOf(req'[r], k, d) <= out[k][d] + PendingOf(req[r], k, d)
             /\ total[k][d] + UncountedOf(req[r], k, d) + lost[k][d] + out'[k][d] + PendingOf(req'[r], k, d)
                  <= total'[k][d] + UncountedOf(req'[r], k, d) + lost'[k][d] + out[k][d] + PendingOf(req[r], k, d)
  <2>1. PendingOf(req[r], k, d) \in Nat /\ UncountedOf(req[r], k, d) \in Nat
    BY DEF CustodyTyped, Handler, PendingOf, UncountedOf
  <2>2. out[k][d] \in Nat /\ total[k][d] \in Nat /\ lost[k][d] \in Nat
    BY DEF CustodyTyped
  <2>3. PICK a, b, o, t, l \in Nat : /\ a = PendingOf(req[r], k, d) /\ b = UncountedOf(req[r], k, d)
                                     /\ o = out[k][d] /\ t = total[k][d] /\ l = lost[k][d]
    BY <2>1, <2>2
  <2> QED
    BY <2>3 DEF Money
<1> QED
  BY <1>1, CapsMoved DEF CustodyTyped, Money

(* What a step of a handler leaves of the stop and of the keys, when it neither starts a   *)
(* spend nor a creation.                                                               *)
LEMMA StopsAndKeysKept ==
    ASSUME CustodyInv, NEW r \in Requests, Edited(req, req', r, req'[r]), UNCHANGED Account,
           req'[r].op # "create", req'[r].op \in Custody!Spends => req[r].op \in Custody!Spends,
           grace' = grace \/ (req'[r].op \notin Custody!Spends /\ grace' = grace \ {r})
    PROVE  GraceInv' /\ KeyInv'
<1>1. GraceInv'
  BY DEF CustodyInv, GraceInv, Edited, Account
<1>2. Creators' \subseteq Creators
  BY DEF Creators, Edited
<1>3. KeyInv'
  BY <1>2 DEF CustodyInv, KeyInv, Account
<1> QED
  BY <1>1, <1>3

LEMMA WatchKept ==
    ASSUME CustodyInv, NEW r \in Requests, Edited(req, req', r, req'[r]), UNCHANGED chain,
           holdings => holdings', custody_faults > 0 => custody_faults' > 0,
           req[r].step = "sent" /\ req[r].op \in Custody!Buys =>
               holdings' \/ (req'[r].step = "sent" /\ req'[r].op \in Custody!Buys)
    PROVE  Custody!BoughtIsWatched'
  BY DEF CustodyInv, Custody!BoughtIsWatched, Edited

(* A handler that does not spend: creation and second factor.                             *)
LEMMA QuietRow ==
    ASSUME CustodyInv, NEW r \in Requests,
           Custody!CreateCheck(r) \/ Custody!save_custody(r) \/ Custody!Enroll(r)
    PROVE  /\ req[r].op \notin Custody!Spends
           /\ \E z \in Handler : WellRun(z) /\ z.op \notin Custody!Spends /\ req' = [req EXCEPT ![r] = z]
           /\ UNCHANGED Money /\ UNCHANGED <<now, paused, frozen, chain, holdings, custody_faults>>
           /\ grace' = grace \/ grace' = grace \ {r}
           /\ secrets' \in Nat
<1> USE DEF Custody!store, Custody!ghost, Money
<1>0. /\ req[r] \in Handler /\ WellRun(req[r]) /\ secrets \in Nat
      /\ Custody!Idle.op \notin Custody!Spends
  BY IdleIs DEF CustodyInv, CustodyTyped
<1>1. CASE Custody!CreateCheck(r)
  <2> DEFINE z == [Custody!Idle EXCEPT !.op = "create", !.step = "create"]
  <2>1. z \in Handler /\ WellRun(z) /\ z.op \notin Custody!Spends
    BY IdleIs DEF Handler, WellRun, SpendSteps, Custody!Spends, Custody!Steps, Custody!Swaps
  <2> QED
    BY <1>0, <1>1, <2>1 DEF Custody!CreateCheck, Custody!Start
<1>2. CASE Custody!save_custody(r)
  BY <1>0, <1>2, IdleIs DEF Custody!save_custody, Custody!Done, Custody!Spends
<1>3. ASSUME NEW op \in {"totp_get", "totp_rotate"}, Custody!TotpCheck(r, op)
      PROVE  /\ req' = [req EXCEPT ![r] = [Custody!Idle EXCEPT !.op = op, !.step = "secret"]]
             /\ req[r] = Custody!Idle
  BY <1>3 DEF Custody!TotpCheck, Custody!Start
<1>4. ASSUME NEW op \in {"totp_get", "totp_rotate", "totp_verify"}, NEW s \in {"secret", "verified"}
      PROVE  LET z == [Custody!Idle EXCEPT !.op = op, !.step = s] IN
             z \in Handler /\ WellRun(z) /\ z.op \notin Custody!Spends
  BY IdleIs DEF Handler, WellRun, SpendSteps, Custody!Spends, Custody!Steps, Custody!Swaps
<1>5. CASE \E op \in {"totp_get", "totp_rotate"} : Custody!TotpCheck(r, op)
  BY <1>0, <1>3, <1>4, <1>5 DEF Custody!TotpCheck
<1>6. CASE Custody!save_totp(r)
  <2> DEFINE z == [req[r] EXCEPT !.step = "reset", !.read = secrets + 1]
  <2>1. z \in Handler /\ WellRun(z) /\ z.op = req[r].op /\ req[r].op \notin Custody!Spends
    <3>1. req[r].step = "secret" /\ secrets + 1 \in Nat
      BY <1>0, <1>6 DEF Custody!save_totp
    <3>2. req[r].op \notin Custody!Spends /\ req[r].op # "create"
      BY <1>0, <3>1 DEF WellRun, SpendSteps
    <3>3. z \in Handler /\ z.step = "reset" /\ z.op = req[r].op
      BY <1>0, <3>1 DEF Handler, Custody!Steps
    <3> QED
      BY <3>2, <3>3 DEF WellRun, SpendSteps, Custody!Swaps
  <2>2. req' = [req EXCEPT ![r] = z]
    BY <1>0, <1>6 DEF Custody!save_totp, Handler
  <2>3. /\ UNCHANGED Money /\ UNCHANGED <<now, paused, frozen, chain, holdings, custody_faults>>
        /\ grace' = grace /\ secrets' \in Nat
    BY <1>0, <1>6 DEF Custody!save_totp
  <2> HIDE DEF z
  <2> QED
    BY <2>1, <2>2, <2>3
<1>7. CASE Custody!set_totp_pending(r)
  BY <1>0, <1>7, IdleIs DEF Custody!set_totp_pending, Custody!Done, WellRun, SpendSteps
<1>8. CASE Custody!TotpVerify(r)
  BY <1>0, <1>4, <1>8 DEF Custody!TotpVerify, Custody!Start
<1>9. CASE Custody!set_totp_confirmed(r)
  BY <1>0, <1>9, IdleIs DEF Custody!set_totp_confirmed, Custody!Done, WellRun, SpendSteps
<1> QED
  BY <1>1, <1>2, <1>5, <1>6, <1>7, <1>8, <1>9 DEF Custody!Enroll

LEMMA QuietKeys ==
    ASSUME CustodyInv, NEW r \in Requests, Edited(req, req', r, req'[r]),
           Custody!CreateCheck(r) \/ Custody!save_custody(r) \/ Custody!Enroll(r)
    PROVE  /\ KeyInv' /\ wallet' \in 0..MaxWallets /\ made' \in Nat
           /\ told' \subseteq Nat \ {0} /\ doubled' \in BOOLEAN
<1>0. /\ wallet \in 0..MaxWallets /\ made \in Nat /\ told \subseteq Nat \ {0} /\ doubled \in BOOLEAN
      /\ MaxWallets \in Nat
      /\ \A q \in Requests \ {r} : req'[q] = req[q]
      /\ req \in [Requests -> Handler]
  BY CustodyNumbers DEF CustodyInv, CustodyTyped, Edited
<1>1. CASE Custody!CreateCheck(r)
  <2>1. /\ wallet = 0 /\ doubled' = (doubled \/ \E q \in Requests : req[q].op = "create")
        /\ UNCHANGED <<wallet, made, told>>
    BY <1>1 DEF Custody!CreateCheck, Custody!CreateOnce, Custody!Creating, Custody!store
  <2>2. CASE ~doubled'
    <3>1. told = {} /\ Creators = {}
      BY <1>0, <2>1, <2>2 DEF CustodyInv, KeyInv, Creators
    <3>2. Creators' \subseteq {r}
      BY <1>0, <3>1 DEF Creators
    <3> QED
      BY <1>0, <2>1, <3>1, <3>2 DEF KeyInv
  <2> QED
    BY <1>0, <2>1, <2>2 DEF KeyInv
<1>2. CASE Custody!save_custody(r)
  <2>1. /\ r \in Creators /\ made < MaxWallets /\ made' = made + 1 /\ wallet' = made + 1
        /\ told' = told \cup {made + 1} /\ doubled' = doubled /\ req'[r] = Custody!Idle
    BY <1>0, <1>2 DEF Custody!save_custody, Custody!Done, Creators
  <2>2. CASE ~doubled
    <3>1. told = {} /\ Creators = {r}
      BY <2>1, <2>2 DEF CustodyInv, KeyInv
    <3>2. Creators' = {}
      BY <1>0, <2>1, <3>1, IdleIs DEF Creators
    <3> QED
      BY <1>0, <2>1, <3>1, <3>2 DEF KeyInv
  <2> QED
    BY <1>0, <2>1, <2>2 DEF KeyInv
<1>3. CASE Custody!Enroll(r)
  <2>1. UNCHANGED <<wallet, made, told, doubled>> /\ req'[r].op # "create"
    <3>1. CASE \E op \in {"totp_get", "totp_rotate"} : Custody!TotpCheck(r, op)
      BY <1>0, <3>1 DEF Custody!TotpCheck, Custody!Start, Custody!store, Custody!ghost, Custody!Idle
    <3>2. CASE Custody!save_totp(r)
      <4>1. req[r].op # "create"
        BY <1>0, <3>2 DEF Custody!save_totp, CustodyInv, CustodyTyped, WellRun
      <4> QED
        BY <1>0, <3>2, <4>1 DEF Custody!save_totp, Custody!ghost
    <3>3. CASE Custody!set_totp_pending(r)
      BY <1>0, <3>3, IdleIs DEF Custody!set_totp_pending, Custody!Done
    <3>4. CASE Custody!TotpVerify(r)
      BY <1>0, <3>4 DEF Custody!TotpVerify, Custody!Start, Custody!store, Custody!ghost, Custody!Idle
    <3>5. CASE Custody!set_totp_confirmed(r)
      BY <1>0, <3>5, IdleIs DEF Custody!set_totp_confirmed, Custody!Done
    <3> QED
      BY <1>3, <3>1, <3>2, <3>3, <3>4, <3>5 DEF Custody!Enroll
  <2>2. Creators' \subseteq Creators
    BY <1>0, <2>1 DEF Creators
  <2> QED
    BY <1>0, <2>1, <2>2 DEF CustodyInv, KeyInv
<1> QED
  BY <1>1, <1>2, <1>3

LEMMA CustodyQuiet ==
    ASSUME CustodyInv, NEW r \in Requests,
           Custody!CreateCheck(r) \/ Custody!save_custody(r) \/ Custody!Enroll(r)
    PROVE  CustodyInv'
<1>1. PICK z \in Handler : WellRun(z) /\ z.op \notin Custody!Spends /\ req' = [req EXCEPT ![r] = z]
  BY QuietRow
<1>2. /\ req[r].op \notin Custody!Spends
      /\ UNCHANGED Money /\ UNCHANGED <<now, paused, frozen, chain, holdings, custody_faults>>
      /\ grace' = grace \/ grace' = grace \ {r}
      /\ secrets' \in Nat
  BY QuietRow
<1>3. /\ req' \in [Requests -> Handler] /\ \A q \in Requests : WellRun(req'[q])
      /\ Edited(req, req', r, req'[r]) /\ req'[r] = z
  BY <1>1, RowChanged DEF CustodyInv
<1>4. CustodyTyped'
  <2>1. /\ wallet' \in 0..MaxWallets /\ made' \in Nat /\ told' \subseteq Nat \ {0} /\ doubled' \in BOOLEAN
    BY <1>3, QuietKeys
  <2> QED
    BY <1>2, <1>3, <2>1 DEF CustodyInv, CustodyTyped, Money
<1>5. CapsInv'
  <2>1. ~Custody!Counted(req[r]) /\ ~Custody!Counted(req'[r])
    BY <1>1, <1>2, <1>3 DEF Custody!Counted, Custody!Spends
  <2> QED
    BY <1>2, <1>3, <2>1, CapsKept DEF CustodyInv, PendingOf, UncountedOf, Counts
<1>6. GraceInv'
  BY <1>1, <1>2, <1>3 DEF CustodyInv, GraceInv, Edited
<1>7. Custody!BoughtIsWatched'
  BY <1>2, <1>3, WatchKept DEF Custody!Buys, Custody!Spends
<1> QED
  BY <1>3, <1>4, <1>5, <1>6, <1>7, QuietKeys DEF CustodyInv

(* The start of a spend: its amount is pending and uncounted from now on, under the day's  *)
(* limit by what the check could see.                                                   *)
LEMMA CheckedRow ==
    ASSUME CustodyInv, NEW r \in Requests, NEW op \in Custody!Spends, NEW asset \in Custody!Assets,
           NEW n \in Amounts, NEW dest \in Addresses \cup {NoAddress}, Custody!SpendCheck(r, op, asset, n, dest)
    PROVE  \E z \in Handler :
             /\ WellRun(z) /\ req' = [req EXCEPT ![r] = z] /\ req[r] = Custody!Idle
             /\ z.op = op /\ z.asset = asset /\ z.amt = n /\ z.step = "checked" /\ z.day = Custody!Today
             /\ ~paused /\ ~frozen
             /\ Custody!Counted(z) => total[Custody!Kind(op)][Custody!Today] + n <= Cap[Custody!Kind(op)]
<1> DEFINE z == [Custody!Idle EXCEPT !.op = op, !.step = "checked", !.asset = asset, !.amt = n, !.to = dest,
                                     !.wallet = wallet, !.day = Custody!Today]
<1>1. req' = [req EXCEPT ![r] = z] /\ req[r] = Custody!Idle /\ Custody!MaySpend(op, asset, n, dest)
  BY DEF Custody!SpendCheck, Custody!Start
<1>2. /\ wallet \in 0..MaxWallets /\ wallet # 0 /\ ~paused /\ ~frozen /\ n \in Nat /\ MaxWallets \in Nat
      /\ Custody!Today \in Custody!Days
  BY <1>1, TodayIs, CustodyNumbers DEF CustodyInv, CustodyTyped, Custody!MaySpend, Custody!Guards
<1>3. z \in Handler
  BY <1>2, IdleIs DEF Handler, Custody!Steps
<1>4. /\ z.op = op /\ z.asset = asset /\ z.amt = n /\ z.step = "checked" /\ z.day = Custody!Today
      /\ z.wallet = wallet
  BY DEF Custody!Idle
<1>5. op \in Custody!Swaps /\ asset = "usdc" => op \in Custody!Buys
  BY <1>1 DEF Custody!MaySpend, Custody!MayCopySell, Custody!MaySell, Custody!MayCustsell,
              Custody!MayAutoProtect, Custody!Swaps, Custody!Buys
<1>6. Custody!Counted(z) => total[Custody!Kind(op)][Custody!Today] + n <= Cap[Custody!Kind(op)]
  BY <1>1, <1>4 DEF Custody!MaySpend, Custody!MayWithdraw, Custody!MayBuy, Custody!DailyLimit, Custody!Counted,
                    Custody!Kind
<1> HIDE DEF z
<1>7. WellRun(z)
  BY <1>2, <1>4, <1>5 DEF WellRun, SpendSteps, Custody!Wallets, Custody!Spends
<1> QED
  BY <1>1, <1>2, <1>3, <1>4, <1>6, <1>7

LEMMA CheckedCaps ==
    ASSUME CustodyInv, NEW r \in Requests, NEW op \in Custody!Spends, NEW asset \in Custody!Assets,
           NEW n \in Amounts, NEW dest \in Addresses \cup {NoAddress}, Custody!SpendCheck(r, op, asset, n, dest)
    PROVE  CapsInv' /\ blind' \in [Custody!Kinds -> [Custody!Days -> Nat]]
<1>1. PICK z \in Handler :
             /\ WellRun(z) /\ req' = [req EXCEPT ![r] = z] /\ req[r] = Custody!Idle
             /\ z.op = op /\ z.asset = asset /\ z.amt = n /\ z.step = "checked" /\ z.day = Custody!Today
             /\ ~paused /\ ~frozen
             /\ Custody!Counted(z) => total[Custody!Kind(op)][Custody!Today] + n <= Cap[Custody!Kind(op)]
  BY CheckedRow
<1>2. Edited(req, req', r, req'[r]) /\ req'[r] = z /\ req \in [Requests -> Handler] /\ req' \in [Requests -> Handler]
  BY <1>1, RowChanged DEF CustodyInv, CustodyTyped
<1>3. UNCHANGED <<total, out, lost>>
  BY DEF Custody!SpendCheck, Custody!store
<1>4. PICK y \in Custody!Days : y = Custody!Today
  BY TodayIs DEF CustodyInv
<1>5. CASE ~Custody!Counted(z)
  <2>1. UNCHANGED blind
    BY <1>1, <1>5 DEF Custody!SpendCheck, Custody!Counted
  <2>2. \A k, d : PendingOf(req'[r], k, d) = PendingOf(req[r], k, d) /\ UncountedOf(req'[r], k, d) = UncountedOf(req[r], k, d)
    BY <1>1, <1>2, <1>5, IdleIs DEF PendingOf, UncountedOf, Counts
  <2> QED
    BY <1>2, <1>3, <2>1, <2>2, CapsKept DEF CustodyInv, CustodyTyped, Money
<1>6. CASE Custody!Counted(z)
  <2> DEFINE k == Custody!Kind(op)
             m == UncountedIn(req, k, y) + lost[k][y]
  <2>0. k \in Custody!Kinds /\ n \in Nat
    BY CustodyNumbers DEF Custody!Kind, Custody!Kinds
  <2>1. m = Custody!Missed(k, Custody!Today)
    BY <1>4, SumsAre DEF Custody!Missed
  <2>2. m \in Nat
    <3>1. UncountedIn(req, k, y) \in Nat
      BY <1>2, SumsTyped
    <3>2. lost[k][y] \in Nat
      BY <2>0 DEF CustodyInv, CustodyTyped
    <3> QED
      BY <3>1, <3>2
  <2>3. blind' = [blind EXCEPT ![k][y] = IF @ < m THEN m ELSE @]
    BY <1>1, <1>4, <1>6, <2>1 DEF Custody!SpendCheck, Custody!Counted
  <2> HIDE DEF m
  <2>4. /\ blind' \in [Custody!Kinds -> [Custody!Days -> Nat]] /\ blind'[k][y] >= m
        /\ \A j \in Custody!Kinds, d \in Custody!Days : blind'[j][d] >= blind[j][d]
    <3>1. PICK b \in Nat : b = (IF blind[k][y] < m THEN m ELSE blind[k][y])
      BY <2>0, <2>2 DEF CustodyInv, CustodyTyped
    <3>2. blind' = [blind EXCEPT ![k][y] = b] /\ b >= m /\ b >= blind[k][y]
      BY <2>0, <2>2, <2>3, <3>1 DEF CustodyInv, CustodyTyped
    <3> HIDE DEF k
    <3> QED
      BY <2>0, <3>2 DEF CustodyInv, CustodyTyped
  <2>5. ASSUME NEW j \in Custody!Kinds, NEW d \in Custody!Days PROVE Covered(j, d)' /\ Capped(j, d)'
    <3>1. PICK p, u, p2, u2 \in Nat : /\ p = PendingIn(req, j, d) /\ u = UncountedIn(req, j, d)
                                      /\ p2 = PendingIn(req', j, d) /\ u2 = UncountedIn(req', j, d)
      BY <1>2, SumsTyped
    <3>2. PendingOf(req[r], j, d) = 0 /\ UncountedOf(req[r], j, d) = 0
      BY <1>1, IdleIs
    <3>3. PICK a \in Nat : a = PendingOf(req'[r], j, d) /\ a = UncountedOf(req'[r], j, d)
      BY <1>1, <1>2, <2>0 DEF PendingOf, UncountedOf
    <3>4. p2 = p + a /\ u2 = u + a
      <4>1. /\ PendingIn(req', j, d) + PendingOf(req[r], j, d) = PendingIn(req, j, d) + PendingOf(req'[r], j, d)
            /\ UncountedIn(req', j, d) + UncountedOf(req[r], j, d) = UncountedIn(req, j, d) + UncountedOf(req'[r], j, d)
        BY <1>2, SumsEdited
      <4>2. p2 + 0 = p + a /\ u2 + 0 = u + a
        BY <3>1, <3>2, <3>3, <4>1
      <4> QED
        BY <4>2
    <3>5. PICK o, t, l, b, b2 \in Nat : /\ o = out[j][d] /\ t = total[j][d] /\ l = lost[j][d]
                                        /\ b = blind[j][d] /\ b2 = blind'[j][d] /\ b2 >= b
      BY <2>4 DEF CustodyInv, CustodyTyped
    <3>6. o + p <= t + u + l /\ o + p <= Cap[j] + b /\ Cap[j] \in Nat
      BY <3>1, <3>5, CustodyNumbers DEF CustodyInv, CapsInv, Covered, Capped, Custody!Kinds
    <3>7. o + p2 <= t + u2 + l
      BY <3>4, <3>6
    <3>8. o + p2 <= Cap[j] + b2
      <4>1. CASE j = k /\ d = y
        <5>1. t + n <= Cap[j] /\ a = n /\ b2 >= u + l
          BY <1>1, <1>2, <1>4, <1>6, <2>4, <3>1, <3>3, <3>5, <4>1 DEF m, PendingOf, Counts
        <5> QED
          BY <2>0, <3>4, <3>6, <5>1
      <4>2. CASE ~(j = k /\ d = y)
        <5>1. a = 0
          BY <1>1, <1>2, <1>4, <3>3, <4>2 DEF PendingOf, Counts
        <5> QED
          BY <3>4, <3>5, <3>6, <5>1
      <4> QED
        BY <4>1, <4>2
    <3> QED
      BY <1>3, <3>1, <3>5, <3>7, <3>8 DEF Covered, Capped
  <2> QED
    BY <2>4, <2>5 DEF CapsInv
<1> QED
  BY <1>5, <1>6

LEMMA CustodyChecked ==
    ASSUME CustodyInv, NEW r \in Requests, NEW op \in Custody!Spends, NEW asset \in Custody!Assets,
           NEW n \in Amounts, NEW dest \in Addresses \cup {NoAddress}, Custody!SpendCheck(r, op, asset, n, dest)
    PROVE  CustodyInv'
<1>1. PICK z \in Handler :
             /\ WellRun(z) /\ req' = [req EXCEPT ![r] = z] /\ req[r] = Custody!Idle
             /\ z.op = op /\ z.step = "checked" /\ ~paused /\ ~frozen
  BY CheckedRow
<1>2. /\ req' \in [Requests -> Handler] /\ \A q \in Requests : WellRun(req'[q])
      /\ Edited(req, req', r, req'[r]) /\ req'[r] = z
  BY <1>1, RowChanged DEF CustodyInv
<1>3. /\ UNCHANGED <<total, out, lost>> /\ UNCHANGED Account
      /\ UNCHANGED <<chain, holdings, secrets, custody_faults, grace>>
  BY DEF Custody!SpendCheck, Custody!store, Account
<1>4. CustodyTyped'
  BY <1>2, <1>3, CheckedCaps DEF CustodyInv, CustodyTyped, Account
<1>5. GraceInv'
  BY <1>1, <1>3 DEF GraceInv, Account
<1>6. KeyInv'
  <2>1. Creators' \subseteq Creators
    BY <1>1, <1>2 DEF Creators, Edited, Custody!Spends
  <2> QED
    BY <1>3, <2>1 DEF CustodyInv, KeyInv, Account
<1>7. Custody!BoughtIsWatched'
  BY <1>1, <1>2, <1>3, IdleIs, WatchKept
<1> QED
  BY <1>4, <1>5, <1>6, <1>7, CheckedCaps DEF CustodyInv

(* A transaction that is mined: the wallet's balances stay counted, and only a purchase   *)
(* brings a token in.                                                                   *)
Accounts == [usdc : Nat, tok : Nat, nonce : Nat, approved : SUBSET Custody!Assets]
ChainTyped == chain \in [Custody!Wallets -> Accounts]

LEMMA MovedAccount ==
    ASSUME NEW q \in Handler, NEW c \in Accounts, c[q.asset] >= q.amt,
           q.op \in Custody!Swaps /\ q.asset = "usdc" => q.op \in Custody!Buys
    PROVE  /\ Custody!Moved(q, c) \in Accounts
           /\ Custody!Moved(q, c).tok > 0 => c.tok > 0 \/ q.op \in Custody!Buys
<1>1. PICK n, x, y, m \in Nat : n = q.amt /\ x = c.usdc /\ y = c.tok /\ m = c.nonce
  BY DEF Handler, Accounts
<1>2. q.asset \in {"usdc", "tok"}
  BY DEF Handler, Custody!Assets
<1> DEFINE After(a, b) == [usdc |-> a, tok |-> b, nonce |-> m + 1, approved |-> c.approved]
<1>3. c = [usdc |-> x, tok |-> y, nonce |-> m, approved |-> c.approved] /\ c.approved \in SUBSET Custody!Assets
  BY <1>1 DEF Accounts
<1>4. ASSUME NEW a \in Nat, NEW b \in Nat PROVE After(a, b) \in Accounts /\ After(a, b).tok = b
  BY <1>3 DEF Accounts
<1>5. CASE q.asset = "usdc"
  <2>1. x - n \in Nat /\ y + n \in Nat /\ (y > 0 <=> c.tok > 0)
    BY <1>1, <1>5
  <2>2. CASE q.op \in Custody!Swaps
    <3>1. Custody!Moved(q, c) = After(x - n, y + n)
      BY <1>1, <1>3, <1>5, <2>2 DEF Custody!Moved
    <3> QED
      BY <1>4, <1>5, <2>1, <2>2, <3>1
  <2>3. CASE q.op \notin Custody!Swaps
    <3>1. Custody!Moved(q, c) = After(x - n, y)
      BY <1>1, <1>3, <1>5, <2>3 DEF Custody!Moved
    <3> QED
      BY <1>1, <1>4, <2>1, <3>1
  <2> QED
    BY <2>2, <2>3
<1>6. CASE q.asset = "tok"
  <2>1. y - n \in Nat /\ x + n \in Nat /\ (y - n > 0 => c.tok > 0)
    BY <1>1, <1>6
  <2>2. CASE q.op \in Custody!Swaps
    <3>1. Custody!Moved(q, c) = After(x + n, y - n)
      BY <1>1, <1>3, <1>6, <2>2 DEF Custody!Moved
    <3> QED
      BY <1>4, <2>1, <3>1
  <2>3. CASE q.op \notin Custody!Swaps
    <3>1. Custody!Moved(q, c) = After(x, y - n)
      BY <1>1, <1>3, <1>6, <2>3 DEF Custody!Moved
    <3> QED
      BY <1>4, <2>1, <3>1
  <2> QED
    BY <2>2, <2>3
<1> QED
  BY <1>2, <1>5, <1>6

LEMMA MinedChain ==
    ASSUME CustodyTyped, NEW r \in Requests, req[r].step = "signed", Custody!Mined(req[r])
    PROVE  /\ chain' \in [Custody!Wallets -> Accounts]
           /\ \A w \in Custody!Wallets : chain'[w].tok > 0 => chain[w].tok > 0 \/ req[r].op \in Custody!Buys
<1>1. PICK q \in Handler : q = req[r]
  BY DEF CustodyTyped
<1>2. /\ q.wallet \in Custody!Wallets /\ chain \in [Custody!Wallets -> Accounts]
      /\ q.op \in Custody!Swaps /\ q.asset = "usdc" => q.op \in Custody!Buys
  BY <1>1 DEF CustodyTyped, WellRun, SpendSteps, Accounts
<1>3. PICK c \in Accounts : c = chain[q.wallet]
  BY <1>2
<1>4. PICK a \in Accounts : /\ chain' = [chain EXCEPT ![q.wallet] = a]
                            /\ a.tok > 0 => c.tok > 0 \/ q.op \in Custody!Buys
  <2>1. CASE chain' = [chain EXCEPT ![q.wallet].nonce = @ + 1]
    <3>1. [c EXCEPT !.nonce = @ + 1] \in Accounts /\ [c EXCEPT !.nonce = @ + 1].tok = c.tok
      BY DEF Accounts
    <3>2. chain' = [chain EXCEPT ![q.wallet] = [c EXCEPT !.nonce = @ + 1]]
      BY <1>2, <1>3, <2>1 DEF Accounts
    <3> QED
      BY <3>1, <3>2
  <2>2. CASE /\ chain[q.wallet][q.asset] >= q.amt
             /\ chain' = [chain EXCEPT ![q.wallet] = Custody!Moved(q, @)]
    <3>1. chain' = [chain EXCEPT ![q.wallet] = Custody!Moved(q, c)] /\ c[q.asset] >= q.amt
      BY <1>2, <1>3, <2>2
    <3> QED
      BY <1>2, <3>1, MovedAccount
  <2> QED
    BY <1>1, <2>1, <2>2 DEF Custody!Mined
<1> QED
  BY <1>1, <1>2, <1>3, <1>4

(* A handler in its spend goes on to a step, or is done.                                  *)
On(q, s, n, m) == [q EXCEPT !.step = s, !.nonce = n, !.read = m]
SpendRows(r) ==
    /\ req' \in [Requests -> Handler] /\ (\A q \in Requests : WellRun(req'[q]))
    /\ Edited(req, req', r, req'[r]) /\ req[r].op \in Custody!Spends
SpendOn(r, s) ==
    /\ SpendRows(r) /\ req'[r].step = s /\ req'[r].op = req[r].op /\ req'[r].asset = req[r].asset
    /\ req'[r].amt = req[r].amt /\ req'[r].day = req[r].day
SpendDone(r) == SpendRows(r) /\ req'[r] = Custody!Idle

LEMMA WentOn ==
    ASSUME CustodyTyped, NEW r \in Requests, NEW s \in SpendSteps, NEW n \in Nat, NEW m \in Nat,
           req[r].step \in SpendSteps, s = "adding" => Custody!Counted(req[r]),
           req' = [req EXCEPT ![r] = On(req[r], s, n, m)]
    PROVE  SpendOn(r, s)
<1>1. PICK q \in Handler : q = req[r] /\ WellRun(q)
  BY DEF CustodyTyped
<1>2. PICK z : z = On(q, s, n, m)
  OBVIOUS
<1>3. /\ z \in Handler /\ z.wallet = q.wallet
      /\ z.op = q.op /\ z.step = s /\ z.asset = q.asset /\ z.amt = q.amt /\ z.day = q.day
  BY <1>2 DEF On, Handler, SpendSteps, Custody!Steps
<1>4. q.op \in Custody!Spends
  BY <1>1 DEF WellRun
<1>5. WellRun(z)
  BY <1>1, <1>3, <1>4 DEF WellRun, SpendSteps, Custody!Counted, Custody!Spends
<1> QED
  BY <1>1, <1>2, <1>3, <1>4, <1>5, RowChanged DEF SpendOn, SpendRows

LEMMA WentIdle ==
    ASSUME CustodyTyped, NEW r \in Requests, req[r].step \in SpendSteps,
           req' = [req EXCEPT ![r] = Custody!Idle]
    PROVE  SpendDone(r)
<1>1. req[r].op \in Custody!Spends
  BY DEF CustodyTyped, WellRun
<1> QED
  BY <1>1, IdleIs, RowChanged DEF SpendDone, SpendRows

LEMMA SpendKeeps ==
    ASSUME CustodyInv, NEW r \in Requests,
           \/ (\E s : SpendOn(r, s)) /\ grace' = grace
           \/ SpendDone(r) /\ grace' = grace \ {r},
           UNCHANGED Account, UNCHANGED secrets,
           custody_faults' \in Nat, holdings' \in BOOLEAN, chain' \in [Custody!Wallets -> Accounts],
           total' \in [Custody!Kinds -> [Custody!Days -> Nat]],
           out' \in [Custody!Kinds -> [Custody!Days -> Nat]],
           lost' \in [Custody!Kinds -> [Custody!Days -> Nat]],
           blind' \in [Custody!Kinds -> [Custody!Days -> Nat]],
           CapsInv', Custody!BoughtIsWatched'
    PROVE  CustodyInv'
<1>1. SpendRows(r) /\ req'[r].op # "create" /\ (req'[r].op \in Custody!Spends => req[r].op \in Custody!Spends)
      /\ (grace' = grace \/ (req'[r].op \notin Custody!Spends /\ grace' = grace \ {r}))
  BY IdleIs DEF SpendOn, SpendDone, SpendRows, Custody!Spends
<1>2. Edited(req, req', r, req'[r])
  BY <1>1 DEF SpendRows
<1>3. GraceInv' /\ KeyInv'
  BY <1>1, <1>2, StopsAndKeysKept
<1>4. CustodyTyped'
  BY <1>1 DEF SpendRows, CustodyInv, CustodyTyped, Account, Accounts
<1> QED
  BY <1>3, <1>4 DEF CustodyInv

(* Steps that leave a handler's part of the sums as it is.                                 *)
LEMMA SameSums ==
    ASSUME CustodyInv, NEW r \in Requests, SpendRows(r), UNCHANGED Money,
           \/ \E s \in {"checked", "signed"} : SpendOn(r, s) /\ req[r].step \in {"checked", "signed"}
           \/ \E s \in {"sent", "adding"} : SpendOn(r, s) /\ req[r].step \in {"sent", "adding"}
           \/ SpendDone(r) /\ req[r].step = "filling"
           \/ (~Custody!Counted(req[r])) /\ (SpendDone(r) \/ \E s : SpendOn(r, s))
    PROVE  CapsInv'
<1>1. \A k, d : /\ PendingOf(req'[r], k, d) = PendingOf(req[r], k, d)
                /\ UncountedOf(req'[r], k, d) = UncountedOf(req[r], k, d)
  BY IdleIs DEF SpendOn, SpendDone, PendingOf, UncountedOf, Counts, Custody!Counted
<1> QED
  BY <1>1, CapsKept DEF SpendRows, CustodyInv

LEMMA WentStep ==
    ASSUME CustodyTyped, NEW r \in Requests, NEW s \in SpendSteps,
           req[r].step \in SpendSteps, s = "adding" => Custody!Counted(req[r]),
           \/ req' = [req EXCEPT ![r].step = s]
           \/ \E n \in Nat : req' = [req EXCEPT ![r].step = s, ![r].nonce = n]
           \/ \E m \in Nat : req' = [req EXCEPT ![r].step = s, ![r].read = m]
    PROVE  SpendOn(r, s)
<1>0. PICK q \in Handler : q = req[r] /\ q.nonce \in Nat /\ q.read \in Nat
  BY DEF CustodyTyped, Handler
<1>1. CASE req' = [req EXCEPT ![r].step = s]
  <2>1. On(q, s, q.nonce, q.read) = [q EXCEPT !.step = s]
    BY DEF On, Handler
  <2>2. req' = [req EXCEPT ![r] = On(req[r], s, q.nonce, q.read)]
    BY <1>0, <1>1, <2>1 DEF CustodyTyped
  <2> QED
    BY <1>0, <2>2, WentOn
<1>2. ASSUME NEW n \in Nat, req' = [req EXCEPT ![r].step = s, ![r].nonce = n] PROVE SpendOn(r, s)
  <2>1. On(q, s, n, q.read) = [q EXCEPT !.step = s, !.nonce = n]
    BY DEF On, Handler
  <2>2. req' = [req EXCEPT ![r] = On(req[r], s, n, q.read)]
    BY <1>0, <1>2, <2>1 DEF CustodyTyped
  <2> QED
    BY <1>0, <2>2, WentOn
<1>3. ASSUME NEW m \in Nat, req' = [req EXCEPT ![r].step = s, ![r].read = m] PROVE SpendOn(r, s)
  <2>1. On(q, s, q.nonce, m) = [q EXCEPT !.step = s, !.read = m]
    BY DEF On, Handler
  <2>2. req' = [req EXCEPT ![r] = On(req[r], s, q.nonce, m)]
    BY <1>0, <1>3, <2>1 DEF CustodyTyped
  <2> QED
    BY <1>0, <2>2, WentOn
<1> QED
  BY <1>1, <1>2, <1>3

LEMMA CustodyReadsNonce == ASSUME CustodyInv, NEW r \in Requests, Custody!ReadNonce(r) PROVE CustodyInv'
<1>1. /\ req[r].step = "checked"
      /\ req' = [req EXCEPT ![r].step = "signed", ![r].nonce = chain[req[r].wallet].nonce]
      /\ UNCHANGED Account /\ UNCHANGED Money
      /\ UNCHANGED <<secrets, custody_faults, holdings, chain, grace>>
  BY DEF Custody!ReadNonce, Custody!store, Custody!ghost, Account, Money
<1>2. chain[req[r].wallet].nonce \in Nat
  BY <1>1 DEF CustodyInv, CustodyTyped, WellRun, SpendSteps
<1>3. SpendOn(r, "signed")
  BY <1>1, <1>2, WentStep DEF CustodyInv, SpendSteps
<1>4. CapsInv'
  BY <1>1, <1>3, SameSums DEF SpendOn
<1>5. Custody!BoughtIsWatched'
  BY <1>1, <1>3, WatchKept DEF SpendOn, SpendRows
<1> QED
  BY <1>1, <1>3, <1>4, <1>5, SpendKeeps DEF CustodyInv, CustodyTyped, Money, Accounts

LEMMA CustodyApproves ==
    ASSUME CustodyInv, NEW r \in Requests, Custody!ensure_permit2_approval(r) PROVE CustodyInv'
<1>1. /\ req[r].step = "signed"
      /\ req' = [req EXCEPT ![r].step = "checked"]
      /\ chain' = [chain EXCEPT ![req[r].wallet].nonce = @ + 1,
                                ![req[r].wallet].approved = @ \cup {req[r].asset}]
      /\ UNCHANGED Account /\ UNCHANGED Money
      /\ UNCHANGED <<secrets, custody_faults, holdings, grace>>
  BY DEF Custody!ensure_permit2_approval, Custody!Accepted, Custody!Step, Custody!store, Custody!ghost, Account, Money
<1>2. SpendOn(r, "checked")
  BY <1>1, WentStep DEF CustodyInv, SpendSteps
<1>3. /\ chain' \in [Custody!Wallets -> Accounts]
      /\ \A w \in Custody!Wallets : chain'[w].tok = chain[w].tok
  <2>1. PICK v \in Custody!Wallets, a \in Custody!Assets : v = req[r].wallet /\ a = req[r].asset
    BY <1>1 DEF CustodyInv, CustodyTyped, WellRun, SpendSteps, Handler
  <2>2. PICK c \in Accounts : c = chain[v]
    BY DEF CustodyInv, CustodyTyped, Accounts
  <2>3. [c EXCEPT !.nonce = @ + 1, !.approved = @ \cup {a}] \in Accounts
        /\ [c EXCEPT !.nonce = @ + 1, !.approved = @ \cup {a}].tok = c.tok
    <3>1. c.nonce + 1 \in Nat /\ c.approved \cup {a} \in SUBSET Custody!Assets
      BY DEF Accounts
    <3> QED
      BY <3>1 DEF Accounts
  <2>4. chain' = [chain EXCEPT ![v] = [c EXCEPT !.nonce = @ + 1, !.approved = @ \cup {a}]]
    BY <1>1, <2>1, <2>2 DEF CustodyInv, CustodyTyped, Accounts
  <2> QED
    BY <2>2, <2>3, <2>4 DEF CustodyInv, CustodyTyped, Accounts
<1>4. CapsInv'
  BY <1>1, <1>2, SameSums DEF SpendOn
<1>5. Custody!BoughtIsWatched'
  BY <1>1, <1>2, <1>3 DEF CustodyInv, Custody!BoughtIsWatched, SpendOn, SpendRows, Edited
<1> QED
  BY <1>1, <1>2, <1>3, <1>4, <1>5, SpendKeeps DEF CustodyInv, CustodyTyped, Money

LEMMA CustodyRecords ==
    ASSUME CustodyInv, NEW r \in Requests,
           \/ Custody!ReadTotal(r) \/ Custody!RecordCopy(r)
           \/ Custody!record_fill(r) \/ Custody!RecordNothing(r)
    PROVE  CustodyInv'
<1> USE DEF Custody!store, Custody!ghost, Account, Money
<1>1. /\ UNCHANGED Account /\ UNCHANGED Money /\ UNCHANGED <<secrets, custody_faults, chain>>
      /\ holdings' \in BOOLEAN /\ (holdings => holdings') /\ req[r].step \in SpendSteps
  BY DEF Custody!ReadTotal, Custody!RecordCopy, Custody!record_fill, Custody!RecordNothing, Custody!add_holding,
         CustodyInv, CustodyTyped, SpendSteps
<1>2. ASSUME NEW s, SpendOn(r, s), grace' = grace, CapsInv', req[r].op \in Custody!Buys => holdings'
      PROVE  CustodyInv'
  <2>1. Custody!BoughtIsWatched'
    BY <1>1, <1>2, WatchKept DEF SpendOn, SpendRows
  <2> QED
    BY <1>1, <1>2, <2>1, SpendKeeps DEF CustodyInv, CustodyTyped, Accounts
<1>3. ASSUME SpendDone(r), grace' = grace \ {r}, CapsInv', ~(req[r].step = "sent" /\ req[r].op \in Custody!Buys)
      PROVE  CustodyInv'
  <2>1. Custody!BoughtIsWatched'
    BY <1>1, <1>3, WatchKept DEF SpendDone, SpendRows
  <2> QED
    BY <1>1, <1>3, <2>1, SpendKeeps DEF CustodyInv, CustodyTyped, Accounts
<1>4. CASE Custody!ReadTotal(r)
  <2>1. /\ req[r].step = "sent" /\ Custody!Counted(req[r]) /\ grace' = grace
        /\ req[r].op \in Custody!Buys => holdings'
        /\ req' = [req EXCEPT ![r].step = "adding", ![r].read = total[Custody!Kind(req[r].op)][Custody!Today]]
    BY <1>4 DEF Custody!ReadTotal, Custody!add_holding
  <2>2. total[Custody!Kind(req[r].op)][Custody!Today] \in Nat
    BY TodayIs DEF CustodyInv, CustodyTyped, Custody!Kind, Custody!Kinds
  <2>3. SpendOn(r, "adding")
    BY <2>1, <2>2, WentStep DEF CustodyInv, SpendSteps
  <2>4. CapsInv'
    BY <1>1, <2>1, <2>3, SameSums DEF SpendOn
  <2> QED
    BY <1>2, <2>1, <2>3, <2>4
<1>5. CASE Custody!RecordCopy(r)
  <2>1. /\ req[r].step = "sent" /\ req[r].op = "copybuy" /\ grace' = grace /\ holdings'
        /\ req' = [req EXCEPT ![r].step = "filling"]
    BY <1>5 DEF Custody!RecordCopy, Custody!add_holding, Custody!Buys, Custody!Step
  <2>2. SpendOn(r, "filling")
    BY <2>1, WentStep DEF CustodyInv, SpendSteps
  <2>3. CapsInv'
    BY <1>1, <2>1, <2>2, SameSums DEF SpendOn, Custody!Counted
  <2> QED
    BY <1>2, <2>1, <2>2, <2>3
<1>6. CASE Custody!record_fill(r)
  <2>1. /\ req[r].step = "filling" \/ (~Custody!Counted(req[r]) /\ req[r].op \notin Custody!Buys)
        /\ req' = [req EXCEPT ![r] = Custody!Idle] /\ grace' = grace \ {r}
    BY <1>6 DEF Custody!record_fill, Custody!Done, Custody!Counted, Custody!Buys
  <2>2. SpendDone(r)
    BY <1>1, <2>1, WentIdle DEF CustodyInv
  <2>3. CapsInv'
    BY <1>1, <2>1, <2>2, SameSums DEF SpendDone
  <2> QED
    BY <1>3, <2>1, <2>2, <2>3
<1>7. CASE Custody!RecordNothing(r)
  <2>1. /\ ~Custody!Counted(req[r]) /\ req[r].op \notin Custody!Buys
        /\ req' = [req EXCEPT ![r] = Custody!Idle] /\ grace' = grace \ {r}
    BY <1>7 DEF Custody!RecordNothing, Custody!Done, Custody!Counted, Custody!Buys
  <2>2. SpendDone(r)
    BY <1>1, <2>1, WentIdle DEF CustodyInv
  <2>3. CapsInv'
    BY <1>1, <2>1, <2>2, SameSums DEF SpendDone
  <2> QED
    BY <1>3, <2>1, <2>2, <2>3
<1> QED
  BY <1>4, <1>5, <1>6, <1>7

(* What goes out with a transaction was pending.                                          *)
LEMMA SpentAmount ==
    ASSUME CustodyInv, NEW r \in Requests, req[r].step = "signed", Custody!Spent(req[r])
    PROVE  /\ out' \in [Custody!Kinds -> [Custody!Days -> Nat]]
           /\ \A k \in Custody!Kinds, d \in Custody!Days : out'[k][d] = out[k][d] + PendingOf(req[r], k, d)
<1>1. PICK q \in Handler : q = req[r] /\ q.step = "signed"
  BY DEF CustodyInv, CustodyTyped
<1>2. PICK n \in Nat, j \in Custody!Kinds, y \in Custody!Days : n = q.amt /\ j = Custody!Kind(q.op) /\ y = q.day
  BY DEF Handler, Custody!Kind, Custody!Kinds
<1>3. PICK o \in [Custody!Kinds -> [Custody!Days -> Nat]] : o = out
  BY DEF CustodyInv, CustodyTyped
<1>4. ASSUME Custody!Counted(q), NEW k \in Custody!Kinds, NEW d \in Custody!Days
      PROVE  PendingOf(q, k, d) = IF k = j /\ d = y THEN n ELSE 0
  BY <1>1, <1>2, <1>4 DEF PendingOf, Counts
<1>5. CASE Custody!Counted(q)
  <2>1. out' = [o EXCEPT ![j][y] = @ + n]
    BY <1>1, <1>2, <1>3, <1>5 DEF Custody!Spent
  <2>2. out' \in [Custody!Kinds -> [Custody!Days -> Nat]]
    BY <2>1
  <2>3. ASSUME NEW k \in Custody!Kinds, NEW d \in Custody!Days
        PROVE  out'[k][d] = o[k][d] + (IF k = j /\ d = y THEN n ELSE 0)
    BY <2>1
  <2> QED
    BY <1>1, <1>3, <1>4, <1>5, <2>2, <2>3
<1>6. CASE ~Custody!Counted(q)
  <2>1. out' = o
    BY <1>1, <1>3, <1>6 DEF Custody!Spent
  <2>2. ASSUME NEW k \in Custody!Kinds, NEW d \in Custody!Days PROVE PendingOf(q, k, d) = 0 /\ o[k][d] \in Nat
    BY <1>6 DEF PendingOf, Counts
  <2> QED
    BY <1>1, <1>3, <2>1, <2>2
<1> QED
  BY <1>5, <1>6

(* The sums of a row, as natural numbers.                                                  *)
LEMMA RowSums ==
    ASSUME CustodyInv, NEW r \in Requests, NEW k \in Custody!Kinds, NEW d \in Custody!Days
    PROVE  /\ PendingOf(req[r], k, d) \in Nat /\ UncountedOf(req[r], k, d) \in Nat
           /\ out[k][d] \in Nat /\ total[k][d] \in Nat /\ lost[k][d] \in Nat
           /\ req[r].step = "signed" => UncountedOf(req[r], k, d) = PendingOf(req[r], k, d)
  BY DEF CustodyInv, CustodyTyped, Handler, PendingOf, UncountedOf

LEMMA CustodyBroadcasts == ASSUME CustodyInv, NEW r \in Requests, Custody!Broadcast(r) PROVE CustodyInv'
<1>1. /\ req[r].step = "signed" /\ req' = [req EXCEPT ![r].step = "sent"]
      /\ Custody!Mined(req[r]) /\ Custody!Spent(req[r])
      /\ UNCHANGED Account /\ UNCHANGED <<total, lost, blind, secrets, custody_faults, holdings, grace>>
  BY DEF Custody!Broadcast, Custody!Accepted, Custody!Step, Custody!store, Account
<1>2. SpendOn(r, "sent")
  BY <1>1, WentStep DEF CustodyInv, SpendSteps
<1>3. /\ chain' \in [Custody!Wallets -> Accounts]
      /\ \A w \in Custody!Wallets : chain'[w].tok > 0 => chain[w].tok > 0 \/ req[r].op \in Custody!Buys
  BY <1>1, MinedChain DEF CustodyInv
<1>4. CapsInv'
  <2>1. ASSUME NEW k \in Custody!Kinds, NEW d \in Custody!Days
        PROVE  /\ out'[k][d] + PendingOf(req'[r], k, d) <= out[k][d] + PendingOf(req[r], k, d)
               /\ total[k][d] + UncountedOf(req[r], k, d) + lost[k][d] + out'[k][d] + PendingOf(req'[r], k, d)
                    <= total'[k][d] + UncountedOf(req'[r], k, d) + lost'[k][d] + out[k][d] + PendingOf(req[r], k, d)
    <3>1. PendingOf(req'[r], k, d) = 0 /\ UncountedOf(req'[r], k, d) = UncountedOf(req[r], k, d)
      BY <1>1, <1>2 DEF SpendOn, PendingOf, UncountedOf, Counts, Custody!Counted
    <3>2. out'[k][d] = out[k][d] + PendingOf(req[r], k, d)
      BY <1>1, SpentAmount
    <3> QED
      BY <1>1, <3>1, <3>2, RowSums
  <2>2. out' \in [Custody!Kinds -> [Custody!Days -> Nat]]
    BY <1>1, SpentAmount
  <2>3. Edited(req, req', r, req'[r])
    BY <1>2 DEF SpendOn, SpendRows
  <2> QED
    BY <1>1, <2>1, <2>2, <2>3, CapsMoved DEF CustodyInv, CustodyTyped
<1>5. Custody!BoughtIsWatched'
  BY <1>1, <1>2, <1>3 DEF CustodyInv, Custody!BoughtIsWatched, SpendOn, SpendRows, Edited
<1> QED
  BY <1>1, <1>2, <1>3, <1>4, <1>5, SpentAmount, SpendKeeps DEF CustodyInv, CustodyTyped

LEMMA CustodyLosesAnswer == ASSUME CustodyInv, NEW r \in Requests, Custody!LoseAnswer(r) PROVE CustodyInv'
<1>1. /\ req[r].step = "signed" /\ req' = [req EXCEPT ![r] = Custody!Idle] /\ grace' = grace \ {r}
      /\ Custody!Mined(req[r]) /\ Custody!Spent(req[r]) /\ custody_faults' = custody_faults + 1
      /\ UNCHANGED Account /\ UNCHANGED <<total, blind, secrets, holdings>>
  BY DEF Custody!LoseAnswer, Custody!Accepted, Custody!Done, Custody!store, Account
<1>2. SpendDone(r)
  BY <1>1, WentIdle DEF CustodyInv, SpendSteps
<1>3. chain' \in [Custody!Wallets -> Accounts]
  BY <1>1, MinedChain DEF CustodyInv
<1>4. /\ lost' \in [Custody!Kinds -> [Custody!Days -> Nat]]
      /\ \A k \in Custody!Kinds, d \in Custody!Days : lost'[k][d] = lost[k][d] + PendingOf(req[r], k, d)
  <2>1. PICK q \in Handler : q = req[r] /\ q.step = "signed"
    BY <1>1 DEF CustodyInv, CustodyTyped
  <2>2. PICK n \in Nat, j \in Custody!Kinds, y \in Custody!Days : n = q.amt /\ j = Custody!Kind(q.op) /\ y = q.day
    BY DEF Handler, Custody!Kind, Custody!Kinds
  <2>3. PICK o \in [Custody!Kinds -> [Custody!Days -> Nat]] : o = lost
    BY DEF CustodyInv, CustodyTyped
  <2>4. CASE Custody!Counted(q)
    <3>1. lost' = [o EXCEPT ![j][y] = @ + n]
      BY <2>1, <2>2, <2>3, <2>4 DEF Custody!LoseAnswer
    <3>2. ASSUME NEW k \in Custody!Kinds, NEW d \in Custody!Days
          PROVE  PendingOf(q, k, d) = IF k = j /\ d = y THEN n ELSE 0
      BY <2>1, <2>2, <2>4 DEF PendingOf, Counts
    <3>3. ASSUME NEW k \in Custody!Kinds, NEW d \in Custody!Days
          PROVE  lost'[k][d] = o[k][d] + (IF k = j /\ d = y THEN n ELSE 0)
      BY <3>1
    <3>4. lost' \in [Custody!Kinds -> [Custody!Days -> Nat]]
      BY <3>1
    <3> QED
      BY <2>1, <2>3, <3>2, <3>3, <3>4
  <2>5. CASE ~Custody!Counted(q)
    <3>1. lost' = o
      BY <2>1, <2>3, <2>5 DEF Custody!LoseAnswer
    <3>2. ASSUME NEW k \in Custody!Kinds, NEW d \in Custody!Days PROVE PendingOf(q, k, d) = 0 /\ o[k][d] \in Nat
      BY <2>5 DEF PendingOf, Counts
    <3> QED
      BY <2>1, <2>3, <3>1, <3>2
  <2> QED
    BY <2>4, <2>5
<1>5. CapsInv'
  <2>1. ASSUME NEW k \in Custody!Kinds, NEW d \in Custody!Days
        PROVE  /\ out'[k][d] + PendingOf(req'[r], k, d) <= out[k][d] + PendingOf(req[r], k, d)
               /\ total[k][d] + UncountedOf(req[r], k, d) + lost[k][d] + out'[k][d] + PendingOf(req'[r], k, d)
                    <= total'[k][d] + UncountedOf(req'[r], k, d) + lost'[k][d] + out[k][d] + PendingOf(req[r], k, d)
    <3>1. PendingOf(req'[r], k, d) = 0 /\ UncountedOf(req'[r], k, d) = 0
      BY <1>2, IdleIs DEF SpendDone
    <3>2. out'[k][d] = out[k][d] + PendingOf(req[r], k, d) /\ lost'[k][d] = lost[k][d] + PendingOf(req[r], k, d)
      BY <1>1, <1>4, SpentAmount
    <3> QED
      BY <1>1, <3>1, <3>2, RowSums
  <2>2. out' \in [Custody!Kinds -> [Custody!Days -> Nat]]
    BY <1>1, SpentAmount
  <2>3. Edited(req, req', r, req'[r])
    BY <1>2 DEF SpendDone, SpendRows
  <2> QED
    BY <1>1, <1>4, <2>1, <2>2, <2>3, CapsMoved DEF CustodyInv, CustodyTyped
<1>6. Custody!BoughtIsWatched'
  BY <1>1 DEF CustodyInv, CustodyTyped, Custody!BoughtIsWatched
<1> QED
  BY <1>1, <1>2, <1>3, <1>4, <1>5, <1>6, SpentAmount, SpendKeeps DEF CustodyInv, CustodyTyped

LEMMA CustodyRejected == ASSUME CustodyInv, NEW r \in Requests, Custody!Rejected(r) PROVE CustodyInv'
<1>1. /\ req[r].step = "signed" /\ req' = [req EXCEPT ![r] = Custody!Idle] /\ grace' = grace \ {r}
      /\ UNCHANGED Account /\ UNCHANGED Money /\ UNCHANGED <<chain, custody_faults, secrets, holdings>>
  BY DEF Custody!Rejected, Custody!Done, Custody!store, Account, Money
<1>2. SpendDone(r)
  BY <1>1, WentIdle DEF CustodyInv, SpendSteps
<1>3. Edited(req, req', r, req'[r])
  BY <1>2 DEF SpendDone, SpendRows
<1>4. CapsInv'
  <2>1. ASSUME NEW k \in Custody!Kinds, NEW d \in Custody!Days
        PROVE  /\ out'[k][d] + PendingOf(req'[r], k, d) <= out[k][d] + PendingOf(req[r], k, d)
               /\ total[k][d] + UncountedOf(req[r], k, d) + lost[k][d] + out'[k][d] + PendingOf(req'[r], k, d)
                    <= total'[k][d] + UncountedOf(req'[r], k, d) + lost'[k][d] + out[k][d] + PendingOf(req[r], k, d)
    <3>1. PendingOf(req'[r], k, d) = 0 /\ UncountedOf(req'[r], k, d) = 0
      BY <1>2, IdleIs DEF SpendDone
    <3> QED
      BY <1>1, <3>1, RowSums DEF Money
  <2> QED
    BY <1>1, <1>3, <2>1, CapsMoved DEF CustodyInv, CustodyTyped, Money
<1>5. Custody!BoughtIsWatched'
  BY <1>1, <1>3, WatchKept
<1> QED
  BY <1>1, <1>2, <1>4, <1>5, SpendKeeps DEF CustodyInv, CustodyTyped, Money, Accounts

(* The read total and the amount replace the day's total: what it did not count is lost.      *)
LEMMA WrittenTotals ==
    ASSUME CustodyInv, NEW r \in Requests, Custody!WriteTotal(r)
    PROVE  /\ total' \in [Custody!Kinds -> [Custody!Days -> Nat]]
           /\ lost' \in [Custody!Kinds -> [Custody!Days -> Nat]]
           /\ \A k \in Custody!Kinds, d \in Custody!Days :
                 total[k][d] + UncountedOf(req[r], k, d) + lost[k][d] <= total'[k][d] + lost'[k][d]
<1>1. PICK q \in Handler : q = req[r] /\ q.step = "adding" /\ Custody!Counted(q)
  BY DEF CustodyInv, CustodyTyped, WellRun, Custody!WriteTotal
<1>2. PICK n, m \in Nat, j \in Custody!Kinds, y \in Custody!Days :
        n = q.amt /\ m = q.read /\ j = Custody!Kind(q.op) /\ y = q.day
  BY DEF Handler, Custody!Kind, Custody!Kinds
<1>3. PICK t, l \in [Custody!Kinds -> [Custody!Days -> Nat]] : t = total /\ l = lost
  BY DEF CustodyInv, CustodyTyped
<1>4. PICK z \in Custody!Days : z = Custody!Today
  BY TodayIs DEF CustodyInv
<1>5. PICK whole \in Nat : whole = t[j][z] + (IF y = z THEN n ELSE 0)
  OBVIOUS
<1> DEFINE Over(d) == (IF d = z /\ whole > m + n THEN whole - m - n ELSE 0) + (IF d = y /\ d # z THEN n ELSE 0)
<1>6. total' = [t EXCEPT ![j][z] = m + n]
  BY <1>1, <1>2, <1>3, <1>4 DEF Custody!WriteTotal
<1>7. lost' = [l EXCEPT ![j] = [d \in Custody!Days |-> l[j][d] + Over(d)]]
  <2>1. Custody!Overwritten(q, j) = [d \in Custody!Days |-> Over(d)]
    BY <1>1, <1>2, <1>3, <1>4, <1>5 DEF Custody!Overwritten
  <2>2. lost' = [l EXCEPT ![j] = [d \in Custody!Days |-> @[d] + Custody!Overwritten(q, j)[d]]]
    BY <1>1, <1>2, <1>3 DEF Custody!WriteTotal
  <2> HIDE DEF Over
  <2> QED
    BY <2>1, <2>2
<1>8. ASSUME NEW d \in Custody!Days PROVE Over(d) \in Nat
  BY <1>8
<1>9. total' \in [Custody!Kinds -> [Custody!Days -> Nat]]
  BY <1>6
<1>10. lost' \in [Custody!Kinds -> [Custody!Days -> Nat]]
  <2> HIDE DEF Over
  <2>1. [d \in Custody!Days |-> l[j][d] + Over(d)] \in [Custody!Days -> Nat]
    BY <1>8
  <2> QED
    BY <1>7, <2>1
<1>11. ASSUME NEW k \in Custody!Kinds, NEW d \in Custody!Days
       PROVE  total[k][d] + UncountedOf(req[r], k, d) + lost[k][d] <= total'[k][d] + lost'[k][d]
  <2>1. PICK a, b \in Nat : a = t[k][d] /\ b = l[k][d]
    OBVIOUS
  <2>2. UncountedOf(q, k, d) = IF k = j /\ d = y THEN n ELSE 0
    BY <1>1, <1>2 DEF UncountedOf, Counts
  <2>3. CASE k # j
    <3>1. total'[k][d] = a /\ lost'[k][d] = b
      BY <1>6, <1>7, <2>1, <2>3
    <3> QED
      BY <1>1, <1>3, <2>1, <2>2, <2>3, <3>1
  <2>4. CASE k = j
    <3>1. lost'[k][d] = b + Over(d)
      <4> HIDE DEF Over
      <4> QED
        BY <1>7, <2>1, <2>4
    <3>2. total'[k][d] = IF d = z THEN m + n ELSE a
      BY <1>6, <2>1, <2>4
    <3>3. a + (IF d = y THEN n ELSE 0) + b <= (IF d = z THEN m + n ELSE a) + (b + Over(d))
      <4>1. CASE d = z
        BY <1>5, <2>1, <2>4, <4>1
      <4>2. CASE d # z
        BY <2>1, <4>2
      <4> QED
        BY <4>1, <4>2
    <3> HIDE DEF Over
    <3> QED
      BY <1>1, <1>3, <2>1, <2>2, <2>4, <3>1, <3>2, <3>3
  <2> QED
    BY <2>3, <2>4
<1> QED
  BY <1>9, <1>10, <1>11

LEMMA CustodyWritesTotal == ASSUME CustodyInv, NEW r \in Requests, Custody!WriteTotal(r) PROVE CustodyInv'
<1>1. /\ req[r].step = "adding"
      /\ UNCHANGED Account /\ UNCHANGED <<out, blind, chain, custody_faults, secrets, holdings>>
  BY DEF Custody!WriteTotal, Account, Custody!Done
<1>2. \/ SpendOn(r, "filling") /\ grace' = grace
      \/ SpendDone(r) /\ grace' = grace \ {r}
  <2>1. CASE req[r].op = "buy"
    <3>1. req' = [req EXCEPT ![r].step = "filling", ![r].read = 0] /\ grace' = grace
      BY <2>1 DEF Custody!WriteTotal
    <3> QED
      BY <1>1, <3>1, WentStep DEF CustodyInv, SpendSteps
  <2>2. CASE req[r].op # "buy"
    <3>1. req' = [req EXCEPT ![r] = Custody!Idle] /\ grace' = grace \ {r}
      BY <2>2 DEF Custody!WriteTotal, Custody!Done
    <3> QED
      BY <1>1, <3>1, WentIdle DEF CustodyInv, SpendSteps
  <2> QED
    BY <2>1, <2>2
<1>3. Edited(req, req', r, req'[r])
  BY <1>2 DEF SpendOn, SpendDone, SpendRows
<1>4. CapsInv'
  <2>1. ASSUME NEW k \in Custody!Kinds, NEW d \in Custody!Days
        PROVE  /\ out'[k][d] + PendingOf(req'[r], k, d) <= out[k][d] + PendingOf(req[r], k, d)
               /\ total[k][d] + UncountedOf(req[r], k, d) + lost[k][d] + out'[k][d] + PendingOf(req'[r], k, d)
                    <= total'[k][d] + UncountedOf(req'[r], k, d) + lost'[k][d] + out[k][d] + PendingOf(req[r], k, d)
    <3>1. PendingOf(req'[r], k, d) = 0 /\ UncountedOf(req'[r], k, d) = 0 /\ PendingOf(req[r], k, d) = 0
      BY <1>1, <1>2, IdleIs DEF SpendOn, SpendDone, PendingOf, UncountedOf
    <3>2. total[k][d] + UncountedOf(req[r], k, d) + lost[k][d] <= total'[k][d] + lost'[k][d]
          /\ total'[k][d] \in Nat /\ lost'[k][d] \in Nat
      BY WrittenTotals
    <3> QED
      BY <1>1, <3>1, <3>2, RowSums
  <2> QED
    BY <1>1, <1>3, <2>1, WrittenTotals, CapsMoved DEF CustodyInv, CustodyTyped
<1>5. Custody!BoughtIsWatched'
  BY <1>1, <1>3, WatchKept
<1> QED
  BY <1>1, <1>2, <1>4, <1>5, WrittenTotals, SpendKeeps DEF CustodyInv, CustodyTyped, Accounts

(* The process stops: what was out and not added is lost, what was not out is gone.          *)
LEMMA CustodyCrashes == ASSUME CustodyInv, Custody!Crash PROVE CustodyInv'
<1>1. /\ req' = [q \in Requests |-> Custody!Idle] /\ grace' = {} /\ custody_faults' = custody_faults + 1
      /\ lost' = [k \in Custody!Kinds |-> [d \in Custody!Days |-> lost[k][d] + Custody!Forgotten(k, d)]]
      /\ UNCHANGED Account /\ UNCHANGED <<total, out, blind, chain, secrets, holdings>>
  BY DEF Custody!Crash, Custody!store, Account
<1>2. req' \in [Requests -> Handler] /\ (\A q \in Requests : req'[q] = Custody!Idle /\ WellRun(req'[q]))
  BY <1>1, IdleIs
<1>3. ASSUME NEW k \in Custody!Kinds, NEW d \in Custody!Days
      PROVE  /\ lost'[k][d] \in Nat /\ lost'[k][d] = lost[k][d] + ForgottenIn(req, k, d)
             /\ Covered(k, d)' /\ Capped(k, d)'
  <2>1. PICK p, u, f, o, t, l, b \in Nat :
          /\ p = PendingIn(req, k, d) /\ u = UncountedIn(req, k, d) /\ f = ForgottenIn(req, k, d)
          /\ o = out[k][d] /\ t = total[k][d] /\ l = lost[k][d] /\ b = blind[k][d]
    <3>1. req \in [Requests -> Handler]
      BY DEF CustodyInv, CustodyTyped
    <3>2. out[k][d] \in Nat /\ total[k][d] \in Nat /\ lost[k][d] \in Nat /\ blind[k][d] \in Nat
      BY DEF CustodyInv, CustodyTyped
    <3> QED
      BY <3>1, <3>2, SumsTyped
  <2>2. lost'[k][d] = l + f
    BY <1>1, <2>1, SumsAre
  <2>3. u = p + f
    <3> DEFINE ps == [q \in Requests |-> PendingOf(req[q], k, d)]
               fs == [q \in Requests |-> ForgottenOf(req[q], k, d)]
               us == [q \in Requests |-> UncountedOf(req[q], k, d)]
    <3>1. ps \in [Requests -> Nat] /\ fs \in [Requests -> Nat]
      BY DEF CustodyInv, CustodyTyped, Handler, PendingOf, ForgottenOf
    <3>2. us = [q \in Requests |-> ps[q] + fs[q]]
      <4>1. ASSUME NEW q \in Requests
            PROVE  UncountedOf(req[q], k, d) = PendingOf(req[q], k, d) + ForgottenOf(req[q], k, d)
        <5>1. req[q].amt \in Nat /\ WellRun(req[q])
          BY DEF CustodyInv, CustodyTyped, Handler
        <5>2. Custody!Counted(req[q]) => req[q].step \in SpendSteps
          BY <5>1 DEF WellRun, Custody!Counted, Custody!Spends
        <5> QED
          BY <5>1, <5>2 DEF UncountedOf, PendingOf, ForgottenOf, Counts, SpendSteps
      <4> QED
        BY <4>1
    <3>3. IsFiniteSet(Requests)
      BY CustodyNumbers
    <3> HIDE DEF ps, fs
    <3>4. Total([q \in Requests |-> ps[q] + fs[q]]) = Total(ps) + Total(fs)
      BY <3>1, <3>3, TotalAdd
    <3> QED
      BY <2>1, <3>2, <3>4 DEF PendingIn, UncountedIn, ForgottenIn, ps, fs
  <2>4. PendingIn(req', k, d) = 0 /\ UncountedIn(req', k, d) = 0
    <3>1. /\ \A q \in Requests : PendingOf(req'[q], k, d) = 0
          /\ \A q \in Requests : UncountedOf(req'[q], k, d) = 0
      BY <1>2, IdleIs
    <3>2. [q \in Requests |-> 0] \in [Requests -> Nat] /\ \A q \in Requests : [x \in Requests |-> 0][q] = 0
      OBVIOUS
    <3>3. Total([q \in Requests |-> 0]) = 0
      BY <3>2, TotalZero
    <3>4. /\ [q \in Requests |-> PendingOf(req'[q], k, d)] = [q \in Requests |-> 0]
          /\ [q \in Requests |-> UncountedOf(req'[q], k, d)] = [q \in Requests |-> 0]
      BY <3>1
    <3> QED
      BY <3>3, <3>4 DEF PendingIn, UncountedIn
  <2>5. o + p <= t + u + l /\ o + p <= Cap[k] + b /\ Cap[k] \in Nat
    BY <2>1, CustodyNumbers DEF CustodyInv, CapsInv, Covered, Capped, Custody!Kinds
  <2>6. o + 0 <= t + 0 + (l + f) /\ o + 0 <= Cap[k] + b
    BY <2>3, <2>5
  <2> QED
    BY <1>1, <2>1, <2>2, <2>4, <2>6 DEF Covered, Capped
<1>4. lost' \in [Custody!Kinds -> [Custody!Days -> Nat]]
  <2>1. lost' = [k \in Custody!Kinds |-> [d \in Custody!Days |-> lost'[k][d]]]
    BY <1>1
  <2> QED
    BY <1>3, <2>1
<1>5. CustodyTyped'
  BY <1>1, <1>2, <1>4 DEF CustodyInv, CustodyTyped, Account
<1>6. GraceInv' /\ KeyInv'
  <2>1. Creators' = {}
    BY <1>2, IdleIs DEF Creators
  <2> QED
    BY <1>1, <1>2, <2>1, IdleIs DEF CustodyInv, GraceInv, KeyInv, Account
<1>7. Custody!BoughtIsWatched'
  BY <1>1 DEF CustodyInv, CustodyTyped, Custody!BoughtIsWatched
<1> QED
  BY <1>3, <1>5, <1>6, <1>7 DEF CustodyInv, CapsInv

(* Deposits, enrolment in the chat, addresses, the stop, the protection, time.               *)
LEMMA CustodyAround ==
    ASSUME CustodyInv,
           \/ \E w \in Custody!Wallets : Custody!Deposit(w)
           \/ Custody!BotEnroll \/ (\E a \in Addresses : Custody!add_custody_addr(a))
           \/ (\E on \in BOOLEAN : Custody!SetProtect(on))
           \/ \E f, p \in BOOLEAN : Custody!Stop(f, p)
           \/ Custody!Tick \/ UNCHANGED Custody!vars
    PROVE  CustodyInv'
<1> USE DEF Custody!store, Custody!ghost
<1>1. /\ UNCHANGED <<req, total, out, lost, blind, wallet, made, told, doubled, custody_faults, holdings>>
      /\ secrets' \in Nat
  BY DEF Custody!Deposit, Custody!BotEnroll, Custody!add_custody_addr, Custody!SetProtect, Custody!Stop,
         Custody!Tick, Custody!vars, CustodyInv, CustodyTyped
<1>2. CapsInv'
  BY <1>1 DEF CustodyInv, CapsInv, Covered, Capped
<1>3. KeyInv'
  BY <1>1 DEF CustodyInv, KeyInv, Creators
<1>4. /\ chain' \in [Custody!Wallets -> Accounts]
      /\ \A w \in Custody!Wallets : chain'[w].tok = chain[w].tok
  <2>1. chain \in [Custody!Wallets -> Accounts]
    BY DEF CustodyInv, CustodyTyped, Accounts
  <2>2. ASSUME NEW w \in Custody!Wallets, Custody!Deposit(w)
        PROVE  chain' \in [Custody!Wallets -> Accounts] /\ \A v \in Custody!Wallets : chain'[v].tok = chain[v].tok
    <3>1. PICK c \in Accounts : c = chain[w]
      BY <2>1
    <3>2. [c EXCEPT !.usdc = Funds] \in Accounts /\ [c EXCEPT !.usdc = Funds].tok = c.tok
      BY CustodyNumbers DEF Accounts
    <3>3. chain' = [chain EXCEPT ![w] = [c EXCEPT !.usdc = Funds]]
      BY <2>1, <2>2, <3>1 DEF Custody!Deposit
    <3> QED
      BY <2>1, <3>1, <3>2, <3>3
  <2>3. CASE UNCHANGED chain
    BY <2>1, <2>3
  <2> QED
    BY <2>2, <2>3 DEF Custody!BotEnroll, Custody!add_custody_addr, Custody!SetProtect, Custody!Stop,
                      Custody!Tick, Custody!vars
<1>5. Custody!BoughtIsWatched'
  BY <1>1, <1>4 DEF CustodyInv, Custody!BoughtIsWatched
<1>6. /\ paused' \in BOOLEAN /\ frozen' \in BOOLEAN /\ GraceInv'
  <2>1. ASSUME NEW f \in BOOLEAN, NEW p \in BOOLEAN, Custody!Stop(f, p)
        PROVE  paused' \in BOOLEAN /\ frozen' \in BOOLEAN /\ GraceInv'
    BY <1>1, <2>1 DEF Custody!Stop, CustodyInv, CustodyTyped, GraceInv
  <2>2. CASE UNCHANGED <<paused, frozen, grace>>
    BY <1>1, <2>2 DEF CustodyInv, CustodyTyped, GraceInv
  <2> QED
    BY <2>1, <2>2 DEF Custody!Deposit, Custody!BotEnroll, Custody!add_custody_addr, Custody!SetProtect,
                      Custody!Tick, Custody!vars
<1>7. now' \in 0..MaxTime
  <2>1. CASE Custody!Tick
    BY <2>1, CustodyNumbers DEF Custody!Tick, CustodyInv, CustodyTyped
  <2>2. CASE UNCHANGED now
    BY <2>2 DEF CustodyInv, CustodyTyped
  <2> QED
    BY <2>1, <2>2 DEF Custody!Deposit, Custody!BotEnroll, Custody!add_custody_addr, Custody!SetProtect,
                      Custody!Stop, Custody!vars
<1>8. CustodyTyped'
  BY <1>1, <1>4, <1>6, <1>7 DEF CustodyInv, CustodyTyped, Accounts
<1> QED
  BY <1>2, <1>3, <1>5, <1>6, <1>8 DEF CustodyInv

LEMMA CustodySteps == ASSUME CustodyInv, [Custody!Next]_(Custody!vars) PROVE CustodyInv'
<1>1. ASSUME NEW r \in Requests, Custody!Spend(r) PROVE CustodyInv'
  BY <1>1, CustodyChecked, CustodyReadsNonce, CustodyApproves, CustodyBroadcasts, CustodyLosesAnswer,
     CustodyRejected DEF Custody!Spend
<1>2. ASSUME NEW r \in Requests, Custody!Record(r) PROVE CustodyInv'
  BY <1>2, CustodyRecords, CustodyWritesTotal DEF Custody!Record
<1>3. ASSUME NEW r \in Requests, Custody!CreateCheck(r) \/ Custody!save_custody(r) \/ Custody!Enroll(r)
      PROVE  CustodyInv'
  BY <1>3, CustodyQuiet
<1>4. CASE Custody!Crash
  BY <1>4, CustodyCrashes
<1> QED
  BY <1>1, <1>2, <1>3, <1>4, CustodyAround DEF Custody!Next

LEMMA CustodyStart == ASSUME Custody!Init PROVE CustodyInv
<1> USE DEF Custody!Init
<1>1. req \in [Requests -> Handler] /\ \A q \in Requests : req[q] = Custody!Idle /\ WellRun(req[q])
  BY IdleIs
<1>2. [d \in Custody!Days |-> 0] \in [Custody!Days -> Nat]
  OBVIOUS
<1>3. total \in [Custody!Kinds -> [Custody!Days -> Nat]] /\ out = total /\ lost = total /\ blind = total
      /\ \A k \in Custody!Kinds, d \in Custody!Days : total[k][d] = 0
  BY <1>2
<1>7. chain \in [Custody!Wallets -> Accounts]
  <2>1. Custody!NewWallet \in Accounts
    BY DEF Custody!NewWallet, Accounts
  <2> QED
    BY <2>1
<1>4. CustodyTyped
  <2>1. /\ now = 0 /\ wallet = 0 /\ made = 0 /\ secrets = 0 /\ custody_faults = 0 /\ told = {}
        /\ paused = FALSE /\ frozen = FALSE /\ holdings = FALSE /\ doubled = FALSE
    OBVIOUS
  <2>2. 0 \in 0..MaxTime /\ 0 \in 0..MaxWallets
    BY CustodyNumbers
  <2> HIDE DEF Custody!Init
  <2> QED
    BY <1>1, <1>3, <1>7, <2>1, <2>2 DEF CustodyTyped, Accounts
<1>5. ASSUME NEW k \in Custody!Kinds, NEW d \in Custody!Days PROVE Covered(k, d) /\ Capped(k, d)
  <2>1. /\ [q \in Requests |-> PendingOf(req[q], k, d)] = [q \in Requests |-> 0]
        /\ [q \in Requests |-> UncountedOf(req[q], k, d)] = [q \in Requests |-> 0]
    BY <1>1, IdleIs
  <2>2. [q \in Requests |-> 0] \in [Requests -> Nat] /\ \A q \in Requests : [x \in Requests |-> 0][q] = 0
    OBVIOUS
  <2>3. Total([q \in Requests |-> 0]) = 0
    BY <2>2, TotalZero
  <2>4. PendingIn(req, k, d) = 0 /\ UncountedIn(req, k, d) = 0
    BY <2>1, <2>3 DEF PendingIn, UncountedIn
  <2> QED
    BY <1>3, <2>4, CustodyNumbers DEF Covered, Capped, Custody!Kinds
<1>6. GraceInv /\ KeyInv /\ Custody!BoughtIsWatched
  BY <1>1, IdleIs DEF GraceInv, KeyInv, Creators, Custody!BoughtIsWatched, Custody!NewWallet
<1> QED
  BY <1>4, <1>5, <1>6 DEF CustodyInv, CapsInv

LEMMA CustodyInvSays ==
    ASSUME CustodyInv
    PROVE  Custody!DailyCapsUpToUnseen /\ Custody!KeysKept /\ Custody!BoughtIsWatched
<1>1. Custody!DailyCapsUpToUnseen
  BY SumsAre DEF CustodyInv, CapsInv, Capped, Custody!DailyCapsUpToUnseen
<1> QED
  BY <1>1 DEF CustodyInv, KeyInv, Custody!KeysKept

CustodyPart == money_part = "custody" => CustodyInv

(* What a stopped account still sends.                                                       *)
SendsUnlessStopped ==
    \A r \in Requests :
        (req[r].step = "signed" /\ req[r].op \in Custody!Spends /\ chain'[req[r].wallet] # chain[req[r].wallet]
            /\ req'[r] # req[r]) => ((~paused /\ ~frozen) \/ r \in grace)

(* Custody (sign_server.py, security.py, custody.py): a day's spending exceeds its limit by no more than     *)
(* the checks of handlers running at the same time, or lost answers, could not see; once stopped *)
(* only handlers past their checks spend; the stored key is the user's unless creations          *)
(* overlapped; what a wallet bought is watched unless a failure came between.                    *)
THEOREM CustodyKeepsPromises == MoneySpec => CustodyFaithful
<1>1. MoneyInit => CustodyPart
  BY CustodyStart DEF MoneyInit, CustodyPart
<1>0. [MoneyNext]_moneyVars => CustodyStep \/ (money_part' = money_part /\ UNCHANGED Custody!vars)
  <2>1. UNCHANGED custodyVars => UNCHANGED Custody!vars
    BY DEF custodyVars, Custody!vars, Custody!store, Custody!ghost
  <2> QED
    BY <2>1 DEF MoneyNext, PaperStep, WatchStep, RewardStep, ChatStep, MevStep, ReplyStep, NoticeStep, moneyVars
<1>2. CustodyPart /\ [MoneyNext]_moneyVars => CustodyPart'
  <2> SUFFICES ASSUME CustodyPart, [MoneyNext]_moneyVars, money_part' = "custody" PROVE CustodyInv'
    BY DEF CustodyPart
  <2> QED
    BY <1>0, CustodySteps DEF CustodyStep, CustodyPart
<1>3. CustodyPart => (money_part = "custody" =>
                        Custody!DailyCapsUpToUnseen /\ Custody!KeysKept /\ Custody!BoughtIsWatched)
  BY CustodyInvSays DEF CustodyPart
<1>4. CustodyPart /\ [MoneyNext]_moneyVars => [SendsUnlessStopped]_(Custody!vars)
  <2> SUFFICES ASSUME CustodyPart, CustodyStep PROVE SendsUnlessStopped
    BY <1>0
  <2>1. CustodyInv
    BY DEF CustodyPart, CustodyStep
  <2> QED
    BY <2>1 DEF CustodyInv, GraceInv, SendsUnlessStopped
<1> QED
  BY <1>1, <1>2, <1>3, <1>4, PTL DEF MoneySpec, CustodyFaithful, Custody!FrozenStopsAll, SendsUnlessStopped

-----------------------------------------------------------------------------
(* Contest and referrals: the rows of the database as the threads write them.               *)
FillRow == [id : Nat, user : Users \cup {Rewards!Nobody}, side : {"buy", "sell", "none"}, usdc : Sizes \cup {0},
            ts : Nat, paper : BOOLEAN]
WriterRow == [step : {"rest", "sent", "accrue", "hanging"}, fill : FillRow]
RewardsTyped ==
    /\ time \in Nat /\ fills \subseteq FillRow /\ \A f \in fills : f.user \in Users
    /\ writing \in [Rewards!Writers -> WriterRow]
    /\ \A w \in Rewards!Writers : writing[w].step # "rest" => writing[w].fill.user \in Users
    /\ writing["server"].step # "hanging"
    /\ referrer \in [Users -> Users \cup {Rewards!Nobody}] /\ rounds \subseteq Rewards!Rounds
    /\ publishing = [step |-> publishing.step, round |-> publishing.round, result |-> publishing.result]
    /\ publishing.step \in {"rest", "send", "mark", "trader", "affiliate"}
    /\ IF publishing.step = "rest" THEN publishing.round = -1 ELSE publishing.round \in Rewards!Rounds
    /\ \A x \in announced : x.round \in Rewards!Rounds

(* What a round's fills say, as a function of the fills and of who referred whom.            *)
InRound(F, r) == {f \in F : f.ts >= r /\ f.ts < r + RoundLength /\ ~f.paper}
TotalOf(F, r) == Rewards!Volume(Rewards!filter_fills(InRound(F, r)))
TraderOf(F, r) == Rewards!Leading([u \in Users |-> Rewards!Volume({f \in Rewards!filter_fills(InRound(F, r)) : f.user = u})])
AffiliateOf(F, R, r) ==
    Rewards!Leading([u \in Users |-> Rewards!Volume({f \in Rewards!filter_fills(InRound(F, r)) : R[f.user] = u})])
SettledBy(F, R, B, r, result) ==
    /\ result.total = TotalOf(F, r) /\ result.trader = TraderOf(F, r)
    /\ result.affiliate = AffiliateOf(F, R, r) \/ r \in B

(* A fill is recorded before its round can be announced.                                  *)
RecordedInTime ==
    \A w \in Rewards!Writers : (writing[w].step \in {"sent", "hanging"} /\ ~writing[w].fill.paper)
                          => time < writing[w].fill.ts + PublishDelay
(* What is announced, or about to be, is what the fills of a round say that is over.           *)
AnnouncedSettled ==
    /\ \A x \in announced : /\ x.round + RoundLength + PublishDelay <= time
                            /\ SettledBy(fills, referrer, rebound, x.round, x.result)
    /\ publishing.step # "rest" =>
          publishing.round + RoundLength + PublishDelay <= time
    /\ publishing.step = "send" =>
          SettledBy(fills, referrer, rebound, publishing.round, publishing.result)

RowsOf(r) == {row \in winner_rows : row.round = r}
WinnersOf(r, result, C) ==
    {[round |-> r, category |-> c, user |-> result[c]] : c \in {k \in C : result[k] # Rewards!Nobody}}
(* How far a publication is, and what the database has of its round.                         *)
Sending == publishing.step \in {"send", "mark"}
Storing == publishing.step \in {"trader", "affiliate"}
PublishedSoFar ==
    /\ \A row \in winner_rows : row.round \in rounds
    /\ Sending => publishing.round \notin rounds
    /\ Storing => publishing.round \in rounds
    /\ publishing.step = "send" => \A x \in announced : x.round = publishing.round => x.round \in cut_short
    /\ publishing.step \in {"mark", "trader", "affiliate"} =>
          \E x \in announced : x.round = publishing.round /\ x.result = publishing.result
    /\ publishing.step = "trader" => RowsOf(publishing.round) = {}
    /\ publishing.step = "affiliate" =>
          RowsOf(publishing.round) = WinnersOf(publishing.round, publishing.result, {"trader"})

(* A fill that was recorded is credited, or on the way to it, or nobody will credit it.        *)
CreditsOnTheirWay ==
    /\ \A c \in credits : c[2] # Rewards!Nobody
    /\ \A w \in Rewards!Writers : writing[w].step = "accrue" => writing[w].fill \in fills
    /\ \A w \in Rewards!Writers : writing[w].step = "hanging" => writing[w].fill.id \in hung

RewardsInv ==
    /\ RewardsTyped /\ RecordedInTime /\ AnnouncedSettled /\ PublishedSoFar /\ CreditsOnTheirWay
    /\ Rewards!RecordedIsAnnounced /\ Rewards!CreditsFollowFills

LEMMA SettleIs ==
    ASSUME NEW r
    PROVE  /\ Rewards!settle(r).total = TotalOf(fills, r) /\ Rewards!settle(r).trader = TraderOf(fills, r)
           /\ Rewards!settle(r).affiliate = AffiliateOf(fills, referrer, r)
  BY DEF Rewards!settle, TotalOf, TraderOf, AffiliateOf, InRound, Rewards!contest_fills_between

(* A fill of a later round, or on paper, changes no result.                                 *)
LEMMA LaterFill ==
    ASSUME NEW F, NEW f, NEW r, NEW R, NEW B, NEW result, SettledBy(F, R, B, r, result),
           f.paper \/ ~(f.ts < r + RoundLength)
    PROVE  SettledBy(F \cup {f}, R, B, r, result)
<1>1. InRound(F \cup {f}, r) = InRound(F, r)
  BY DEF InRound
<1> QED
  BY <1>1 DEF SettledBy, TotalOf, TraderOf, AffiliateOf

(* Who refers a user after a round's end may change its affiliate, and nothing else.         *)
LEMMA LaterReferral ==
    ASSUME NEW F, NEW r, NEW R, NEW B, NEW R2, NEW B2, NEW result, SettledBy(F, R, B, r, result),
           r \in B2
    PROVE  SettledBy(F, R2, B2, r, result)
  BY DEF SettledBy

LEMMA RewardsStart == ASSUME Rewards!Init PROVE RewardsInv
<1> USE DEF Rewards!Init
<1>1. Rewards!NoFill \in FillRow /\ Rewards!Idle.step = "rest" /\ Rewards!Idle.fill = Rewards!NoFill /\ Rewards!Idle \in WriterRow
  BY DEF Rewards!NoFill, FillRow, Rewards!Idle, WriterRow
<1>2. /\ Rewards!Quiet.step = "rest" /\ Rewards!Quiet.round = -1
      /\ Rewards!Quiet = [step |-> Rewards!Quiet.step, round |-> Rewards!Quiet.round, result |-> Rewards!Quiet.result]
  BY DEF Rewards!Quiet
<1>3. RewardsTyped
  BY <1>1, <1>2 DEF RewardsTyped, Rewards!Writers
<1>4. RecordedInTime /\ AnnouncedSettled /\ PublishedSoFar /\ CreditsOnTheirWay
  BY <1>1, <1>2 DEF RecordedInTime, AnnouncedSettled, PublishedSoFar, CreditsOnTheirWay, Sending, Storing
<1>5. Rewards!RecordedIsAnnounced /\ Rewards!CreditsFollowFills
  BY DEF Rewards!RecordedIsAnnounced, Rewards!CreditsFollowFills
<1> QED
  BY <1>3, <1>4, <1>5 DEF RewardsInv

PublicationVars == <<rounds, winner_rows, publishing, announced, cut_short>>
LEMMA PublicationKept ==
    ASSUME RewardsInv, UNCHANGED PublicationVars PROVE PublishedSoFar' /\ Rewards!RecordedIsAnnounced'
  BY DEF RewardsInv, PublishedSoFar, Rewards!RecordedIsAnnounced, PublicationVars, Sending, Storing, RowsOf

LEMMA RewardsTick == ASSUME RewardsInv, Rewards!Tick PROVE RewardsInv'
<1>1. /\ time' = time + 1 /\ time \in Nat
      /\ UNCHANGED <<fills, qty_held, referrer, credits, rounds, winner_rows, writing, publishing, rfaults,
                     announced, hung, uncredited, rebound, cut_short>>
      /\ \A w \in Rewards!Writers : (writing[w].step \in {"sent", "hanging"} /\ ~writing[w].fill.paper)
                            => time < writing[w].fill.ts + PublishDelay - 1
  BY DEF Rewards!Tick, RewardsInv, RewardsTyped
<1>2. RewardsTyped' /\ CreditsOnTheirWay' /\ Rewards!CreditsFollowFills'
  BY <1>1 DEF RewardsInv, RewardsTyped, CreditsOnTheirWay, Rewards!CreditsFollowFills
<1>3. RecordedInTime'
  <2>1. \A w \in Rewards!Writers : writing[w].fill.ts \in Nat
    BY DEF RewardsInv, RewardsTyped, WriterRow, FillRow
  <2> QED
    BY <1>1, <2>1, RewardNumbers DEF RecordedInTime
<1>4. AnnouncedSettled'
  <2>1. \A r \in Rewards!Rounds : r \in Nat
    BY DEF Rewards!Rounds
  <2> QED
    BY <1>1, <2>1, RewardNumbers DEF RewardsInv, RewardsTyped, AnnouncedSettled
<1> QED
  BY <1>1, <1>2, <1>3, <1>4, PublicationKept DEF RewardsInv, PublicationVars

(* What a thread writes to the table of fills changes no announced round.                     *)
LEMMA FillsGrow ==
    ASSUME RewardsInv, NEW w \in Rewards!Writers, writing[w].step \in {"sent", "hanging"}
    PROVE  /\ \A x \in announced :
                 SettledBy(fills \cup {writing[w].fill}, referrer, rebound, x.round, x.result)
           /\ publishing.step = "send" =>
                 SettledBy(fills \cup {writing[w].fill}, referrer, rebound,
                           publishing.round, publishing.result)
<1> DEFINE f == writing[w].fill
<1>1. time \in Nat /\ f.ts \in Nat /\ (~f.paper => time < f.ts + PublishDelay)
  BY DEF RewardsInv, RewardsTyped, WriterRow, FillRow, RecordedInTime
<1>2. ASSUME NEW r \in Rewards!Rounds, r + RoundLength + PublishDelay <= time
      PROVE  f.paper \/ ~(f.ts < r + RoundLength)
  BY <1>1, <1>2, RewardNumbers DEF Rewards!Rounds
<1> QED
  BY <1>2, LaterFill DEF RewardsInv, RewardsTyped, AnnouncedSettled

LEMMA WriterMoves ==
    ASSUME RewardsTyped, NEW w \in Rewards!Writers, NEW r \in WriterRow, writing' = [writing EXCEPT ![w] = r]
    PROVE  /\ writing' \in [Rewards!Writers -> WriterRow] /\ writing'[w] = r
           /\ \A v \in Rewards!Writers : v # w => writing'[v] = writing[v]
  BY DEF RewardsTyped

LEMMA RewardsTrade ==
    ASSUME RewardsInv, NEW w \in Rewards!Writers, NEW user \in Users, NEW side \in {"buy", "sell"},
           NEW usdc \in Sizes, NEW paper \in BOOLEAN, Rewards!Trade(w, user, side, usdc, paper)
    PROVE  RewardsInv'
<1>1. PICK id \in 1..MaxContestFills : writing' = [writing EXCEPT ![w] =
                [step |-> "sent",
                 fill |-> [id |-> id, user |-> user, side |-> side, usdc |-> usdc,
                          ts |-> IF paper THEN 0 ELSE time, paper |-> paper]]]
  BY DEF Rewards!Trade
<1>2. UNCHANGED <<time, fills, qty_held, referrer, credits, rounds, winner_rows, publishing, rfaults,
                  announced, hung, uncredited, rebound, cut_short>> /\ writing[w].step = "rest"
  BY DEF Rewards!Trade
<1>3. time \in Nat /\ RewardsTyped
  BY DEF RewardsInv, RewardsTyped
<1>4. PICK r \in WriterRow : /\ writing' = [writing EXCEPT ![w] = r] /\ r.step = "sent"
                             /\ r.fill.user = user /\ (~r.fill.paper => r.fill.ts = time)
  <2> DEFINE f == [id |-> id, user |-> user, side |-> side, usdc |-> usdc,
                   ts |-> IF paper THEN 0 ELSE time, paper |-> paper]
             r == [step |-> "sent", fill |-> f]
  <2>1. f \in FillRow /\ f.user = user /\ (~f.paper => f.ts = time)
    BY <1>3, RewardNumbers DEF FillRow
  <2> HIDE DEF f
  <2>2. r \in WriterRow /\ r.step = "sent" /\ r.fill = f
    BY <2>1 DEF WriterRow
  <2> QED
    BY <1>1, <2>1, <2>2 DEF f
<1>5. /\ writing' \in [Rewards!Writers -> WriterRow] /\ writing'[w] = r
      /\ \A v \in Rewards!Writers : v # w => writing'[v] = writing[v]
  BY <1>3, <1>4, WriterMoves
<1>6. RewardsTyped'
  BY <1>2, <1>4, <1>5 DEF RewardsInv, RewardsTyped, Rewards!Writers
<1>7. RecordedInTime'
  BY <1>2, <1>3, <1>4, <1>5, RewardNumbers DEF RewardsInv, RecordedInTime
<1>8. AnnouncedSettled'
  BY <1>2 DEF RewardsInv, AnnouncedSettled
<1>9. CreditsOnTheirWay' /\ Rewards!CreditsFollowFills'
  BY <1>2, <1>4, <1>5 DEF RewardsInv, CreditsOnTheirWay, Rewards!CreditsFollowFills
<1> QED
  BY <1>2, <1>6, <1>7, <1>8, <1>9, PublicationKept DEF RewardsInv, PublicationVars

LEMMA RewardsRecord == ASSUME RewardsInv, NEW w \in Rewards!Writers, Rewards!record_fill(w) PROVE RewardsInv'
<1> DEFINE f == writing[w].fill
<1>1. /\ writing[w].step = "sent" /\ fills' = fills \cup {f}
      /\ writing' = [writing EXCEPT ![w].step = "accrue"]
      /\ UNCHANGED <<time, referrer, credits, rounds, winner_rows, publishing, rfaults, announced, hung,
                     uncredited, rebound, cut_short>>
  BY DEF Rewards!record_fill
<1>2. RewardsTyped /\ writing[w] \in WriterRow
  BY DEF RewardsInv, RewardsTyped
<1>3. PICK r \in WriterRow : writing' = [writing EXCEPT ![w] = r] /\ r.step = "accrue" /\ r.fill = f
  <2>1. [writing[w] EXCEPT !.step = "accrue"] \in WriterRow
    BY <1>2 DEF WriterRow
  <2> QED
    BY <1>1, <1>2, <2>1 DEF WriterRow
<1>4. /\ writing' \in [Rewards!Writers -> WriterRow] /\ writing'[w] = r
      /\ \A v \in Rewards!Writers : v # w => writing'[v] = writing[v]
  BY <1>2, <1>3, WriterMoves
<1>5. f \in FillRow /\ f.user \in Users
  BY <1>1, <1>2 DEF RewardsTyped, WriterRow
<1>6. RewardsTyped'
  BY <1>1, <1>3, <1>4, <1>5 DEF RewardsInv, RewardsTyped, Rewards!Writers
<1>7. RecordedInTime'
  BY <1>1, <1>3, <1>4 DEF RewardsInv, RecordedInTime
<1>8. AnnouncedSettled'
  BY <1>1, FillsGrow DEF RewardsInv, AnnouncedSettled
<1>9. CreditsOnTheirWay'
  BY <1>1, <1>3, <1>4 DEF RewardsInv, CreditsOnTheirWay
<1>10. Rewards!CreditsFollowFills'
  <2>1. \A c \in credits : \E g \in fills' : g.id = c[1] /\ ~g.paper /\ referrer[g.user] = c[2]
    BY <1>1 DEF RewardsInv, Rewards!CreditsFollowFills
  <2>2. \A g \in fills' : \/ g.paper \/ g.id \in hung \cup uncredited
                          \/ \E c \in credits : c[1] = g.id
                          \/ \E v \in Rewards!Writers : writing'[v].step = "accrue" /\ writing'[v].fill = g
    <3> SUFFICES ASSUME NEW g \in fills' 
                 PROVE  \/ g.paper \/ g.id \in hung \cup uncredited
                        \/ \E c \in credits : c[1] = g.id
                        \/ \E v \in Rewards!Writers : writing'[v].step = "accrue" /\ writing'[v].fill = g
      OBVIOUS
    <3>1. CASE g = f
      BY <1>3, <1>4, <3>1
    <3>2. CASE g \in fills
      BY <1>1, <1>4, <3>2 DEF RewardsInv, Rewards!CreditsFollowFills
    <3> QED
      BY <1>1, <3>1, <3>2
  <2> QED
    BY <1>1, <2>1, <2>2 DEF Rewards!CreditsFollowFills
<1> QED
  BY <1>1, <1>6, <1>7, <1>8, <1>9, <1>10, PublicationKept DEF RewardsInv, PublicationVars

(* A thread leaves its fill behind, counted among those that nobody will credit.             *)
LEMMA RewardsDropped ==
    ASSUME RewardsInv, NEW w \in Rewards!Writers, NEW r \in WriterRow, writing' = [writing EXCEPT ![w] = r],
           r.step = "rest" \/ (r.step = "hanging" /\ w = "bot" /\ r.fill = writing[w].fill
                               /\ writing[w].step = "sent"),
           fills' = fills \/ (fills' = fills \cup {writing[w].fill} /\ writing[w].step = "hanging"),
           hung \subseteq hung', uncredited \subseteq uncredited',
           r.step = "hanging" => r.fill.id \in hung',
           writing[w].step = "accrue" => writing[w].fill.id \in uncredited',
           UNCHANGED <<time, referrer, credits, announced, rebound>>,
           publishing' = publishing \/ publishing' = Rewards!Quiet
    PROVE  /\ RecordedInTime' /\ AnnouncedSettled' /\ CreditsOnTheirWay' /\ Rewards!CreditsFollowFills'
           /\ rounds' = rounds => RewardsTyped'
<1>1. RewardsTyped
  BY DEF RewardsInv
<1>2. /\ writing' \in [Rewards!Writers -> WriterRow] /\ writing'[w] = r
      /\ \A v \in Rewards!Writers : v # w => writing'[v] = writing[v]
  BY <1>1, WriterMoves
<1>3. Rewards!Quiet.step = "rest" /\ Rewards!Quiet.round = -1
      /\ Rewards!Quiet = [step |-> Rewards!Quiet.step, round |-> Rewards!Quiet.round, result |-> Rewards!Quiet.result]
  BY DEF Rewards!Quiet
<1>4. rounds' = rounds => RewardsTyped'
  <2>1. fills' \subseteq FillRow /\ \A f \in fills' : f.user \in Users
    BY DEF RewardsInv, RewardsTyped, WriterRow
  <2>2. /\ \A v \in Rewards!Writers : writing'[v].step # "rest" => writing'[v].fill.user \in Users
        /\ writing'["server"].step # "hanging"
    BY <1>2 DEF RewardsInv, RewardsTyped, Rewards!Writers
  <2>3. /\ publishing' = [step |-> publishing'.step, round |-> publishing'.round, result |-> publishing'.result]
        /\ publishing'.step \in {"rest", "send", "mark", "trader", "affiliate"}
        /\ IF publishing'.step = "rest" THEN publishing'.round = -1 ELSE publishing'.round \in Rewards!Rounds
    BY <1>3 DEF RewardsInv, RewardsTyped
  <2> QED
    BY <1>2, <2>1, <2>2, <2>3 DEF RewardsInv, RewardsTyped
<1>5. RecordedInTime'
  BY <1>2 DEF RewardsInv, RecordedInTime
<1>6. AnnouncedSettled'
  <2>2. CASE fills' = fills
    BY <1>3, <2>2 DEF RewardsInv, AnnouncedSettled
  <2>3. CASE fills' = fills \cup {writing[w].fill} /\ writing[w].step = "hanging"
    BY <1>3, <2>3, FillsGrow DEF RewardsInv, AnnouncedSettled
  <2> QED
    BY <2>2, <2>3
<1>7. CreditsOnTheirWay'
  BY <1>2 DEF RewardsInv, CreditsOnTheirWay
<1>8. Rewards!CreditsFollowFills'
  <2>1. \A c \in credits : \E g \in fills' : g.id = c[1] /\ ~g.paper /\ referrer[g.user] = c[2]
    BY DEF RewardsInv, Rewards!CreditsFollowFills
  <2>2. ASSUME NEW g \in fills'
        PROVE  \/ g.paper \/ g.id \in hung' \cup uncredited'
               \/ \E c \in credits : c[1] = g.id
               \/ \E v \in Rewards!Writers : writing'[v].step = "accrue" /\ writing'[v].fill = g
    <3>1. CASE g \in fills
      BY <1>2, <3>1 DEF RewardsInv, Rewards!CreditsFollowFills
    <3>2. CASE g = writing[w].fill /\ writing[w].step = "hanging"
      BY <3>2 DEF RewardsInv, CreditsOnTheirWay
    <3> QED
      BY <3>1, <3>2
  <2> QED
    BY <2>1, <2>2 DEF Rewards!CreditsFollowFills
<1> QED
  BY <1>4, <1>5, <1>6, <1>7, <1>8

LEMMA RewardsRaises == ASSUME RewardsInv, NEW w \in Rewards!Writers, Rewards!sell_raises(w) PROVE RewardsInv'
<1>1. /\ writing[w].step = "sent" /\ hung' = hung \cup {writing[w].fill.id}
      /\ writing' = [writing EXCEPT ![w] = IF w = "server" THEN Rewards!Idle ELSE [@ EXCEPT !.step = "hanging"]]
      /\ UNCHANGED <<time, fills, qty_held, referrer, credits, rounds, winner_rows, publishing, rfaults,
                     announced, uncredited, rebound, cut_short>>
  BY DEF Rewards!sell_raises
<1>2. writing[w] \in WriterRow /\ writing \in [Rewards!Writers -> WriterRow]
  BY DEF RewardsInv, RewardsTyped
<1>3. PICK r \in WriterRow : /\ writing' = [writing EXCEPT ![w] = r]
                             /\ IF w = "server" THEN r.step = "rest"
                                ELSE r.step = "hanging" /\ r.fill = writing[w].fill
  <2>1. Rewards!Idle \in WriterRow /\ Rewards!Idle.step = "rest"
    BY DEF Rewards!Idle, Rewards!NoFill, WriterRow, FillRow
  <2>2. /\ [writing[w] EXCEPT !.step = "hanging"] \in WriterRow
        /\ [writing[w] EXCEPT !.step = "hanging"].step = "hanging"
        /\ [writing[w] EXCEPT !.step = "hanging"].fill = writing[w].fill
    BY <1>2 DEF WriterRow
  <2> QED
    BY <1>1, <1>2, <2>1, <2>2
<1> QED
  BY <1>1, <1>3, RewardsDropped, PublicationKept DEF RewardsInv, PublicationVars, Rewards!Writers

LEMMA RewardsCommit == ASSUME RewardsInv, Rewards!next_commit PROVE RewardsInv'
<1>1. Rewards!Idle \in WriterRow /\ Rewards!Idle.step = "rest" /\ "bot" \in Rewards!Writers
  BY DEF Rewards!Idle, Rewards!NoFill, WriterRow, FillRow, Rewards!Writers
<1>2. /\ writing["bot"].step = "hanging" /\ fills' = fills \cup {writing["bot"].fill}
      /\ writing' = [writing EXCEPT !["bot"] = Rewards!Idle]
      /\ UNCHANGED <<time, qty_held, referrer, credits, rounds, winner_rows, publishing, rfaults, announced,
                     hung, uncredited, rebound, cut_short>>
  BY DEF Rewards!next_commit
<1> QED
  BY <1>1, <1>2, RewardsDropped, PublicationKept DEF RewardsInv, PublicationVars

LEMMA RewardsAccrue == ASSUME RewardsInv, NEW w \in Rewards!Writers, Rewards!accrue_referral(w) PROVE RewardsInv'
<1> DEFINE f == writing[w].fill
<1>1. /\ writing[w].step = "accrue" /\ writing' = [writing EXCEPT ![w] = Rewards!Idle]
      /\ credits' = IF f.paper \/ referrer[f.user] = Rewards!Nobody THEN credits
                    ELSE credits \cup {<<f.id, referrer[f.user]>>}
      /\ uncredited' = IF referrer[f.user] = Rewards!Nobody THEN uncredited \cup {f.id} ELSE uncredited
      /\ UNCHANGED <<time, fills, qty_held, referrer, rounds, winner_rows, publishing, rfaults,
                     announced, hung, rebound, cut_short>>
  BY DEF Rewards!accrue_referral
<1>2. Rewards!Idle \in WriterRow /\ Rewards!Idle.step = "rest" /\ RewardsTyped /\ f \in fills
  BY <1>1 DEF Rewards!Idle, Rewards!NoFill, WriterRow, FillRow, RewardsInv, CreditsOnTheirWay
<1>3. /\ writing' \in [Rewards!Writers -> WriterRow] /\ writing'[w] = Rewards!Idle
      /\ \A v \in Rewards!Writers : v # w => writing'[v] = writing[v]
  BY <1>1, <1>2, WriterMoves
<1>4. RewardsTyped'
  BY <1>1, <1>2, <1>3 DEF RewardsTyped, Rewards!Writers
<1>5. RecordedInTime' /\ AnnouncedSettled'
  BY <1>1, <1>2, <1>3 DEF RewardsInv, RecordedInTime, AnnouncedSettled
<1>6. CreditsOnTheirWay'
  BY <1>1, <1>2, <1>3 DEF RewardsInv, CreditsOnTheirWay
<1>7. Rewards!CreditsFollowFills'
  <2>1. ASSUME NEW c \in credits'
        PROVE  \E g \in fills : g.id = c[1] /\ ~g.paper /\ referrer[g.user] = c[2]
    BY <1>1, <1>2, <2>1 DEF RewardsInv, Rewards!CreditsFollowFills
  <2>2. ASSUME NEW g \in fills
        PROVE  \/ g.paper \/ g.id \in hung \cup uncredited'
               \/ \E c \in credits' : c[1] = g.id
               \/ \E v \in Rewards!Writers : writing'[v].step = "accrue" /\ writing'[v].fill = g
    <3>1. CASE g = f
      <4>1. CASE ~f.paper /\ referrer[f.user] # Rewards!Nobody
        <5>1. <<f.id, referrer[f.user]>> \in credits'
          BY <1>1, <4>1
        <5> QED
          BY <3>1, <5>1
      <4>2. CASE f.paper \/ referrer[f.user] = Rewards!Nobody
        BY <1>1, <3>1, <4>2
      <4> QED
        BY <4>1, <4>2
    <3>2. CASE g # f
      BY <1>1, <1>3, <3>2 DEF RewardsInv, Rewards!CreditsFollowFills
    <3> QED
      BY <3>1, <3>2
  <2> QED
    BY <1>1, <2>1, <2>2 DEF Rewards!CreditsFollowFills
<1> QED
  BY <1>1, <1>4, <1>5, <1>6, <1>7, PublicationKept DEF RewardsInv, PublicationVars

LEMMA RewardsBind ==
    ASSUME RewardsInv, NEW user \in Users, NEW owner \in Users, Rewards!bind_referral(user, owner)
    PROVE  RewardsInv'
<1>1. /\ referrer' = [referrer EXCEPT ![user] = owner] /\ referrer[user] = Rewards!Nobody
      /\ rebound' = rebound \cup {r \in Rewards!Rounds : r + RoundLength <= time}
      /\ UNCHANGED <<time, fills, qty_held, credits, rounds, winner_rows, writing, publishing, rfaults,
                     announced, hung, uncredited, cut_short>>
  BY DEF Rewards!bind_referral
<1>2. /\ referrer' \in [Users -> Users \cup {Rewards!Nobody}]
      /\ \A u \in Users : referrer[u] # Rewards!Nobody => referrer'[u] = referrer[u]
  BY <1>1 DEF RewardsInv, RewardsTyped
<1>3. RewardsTyped' /\ RecordedInTime' /\ CreditsOnTheirWay'
  BY <1>1, <1>2 DEF RewardsInv, RewardsTyped, RecordedInTime, CreditsOnTheirWay
<1>4. AnnouncedSettled'
  <2>1. \A r \in Rewards!Rounds : r + RoundLength + PublishDelay <= time => r \in rebound'
    BY <1>1, RewardNumbers DEF Rewards!Rounds, RewardsInv, RewardsTyped
  <2> QED
    BY <1>1, <2>1, LaterReferral DEF RewardsInv, RewardsTyped, AnnouncedSettled
<1>5. Rewards!CreditsFollowFills'
  <2>1. ASSUME NEW c \in credits
        PROVE  \E g \in fills : g.id = c[1] /\ ~g.paper /\ referrer'[g.user] = c[2]
    <3>1. PICK g \in fills : g.id = c[1] /\ ~g.paper /\ referrer[g.user] = c[2]
      BY DEF RewardsInv, Rewards!CreditsFollowFills
    <3>2. c[2] # Rewards!Nobody /\ g.user \in Users
      BY DEF RewardsInv, RewardsTyped, CreditsOnTheirWay
    <3> QED
      BY <1>2, <3>1, <3>2
  <2>2. \A g \in fills : \/ g.paper \/ g.id \in hung \cup uncredited
                         \/ \E c \in credits : c[1] = g.id
                         \/ \E v \in Rewards!Writers : writing[v].step = "accrue" /\ writing[v].fill = g
    BY DEF RewardsInv, Rewards!CreditsFollowFills
  <2> QED
    BY <1>1, <2>1, <2>2 DEF Rewards!CreditsFollowFills
<1> QED
  BY <1>1, <1>3, <1>4, <1>5, PublicationKept DEF RewardsInv, PublicationVars

(* A publication that ends before it marked its round leaves it cut, or never announced.      *)
LEMMA PublicationEnds ==
    ASSUME RewardsInv, publishing' = Rewards!Quiet, UNCHANGED <<rounds, winner_rows, announced>>,
           cut_short \subseteq cut_short', publishing.step \in {"rest", "send"} \/ publishing.round \in cut_short'
    PROVE  PublishedSoFar' /\ Rewards!RecordedIsAnnounced'
<1>1. Rewards!Quiet.step = "rest" /\ Rewards!Quiet.round = -1 /\ -1 \notin Rewards!Rounds
  BY DEF Rewards!Quiet, Rewards!Rounds
<1>2. PublishedSoFar'
  BY <1>1 DEF RewardsInv, PublishedSoFar, Sending, Storing
<1>3. \A row \in winner_rows : \E x \in announced : x.round = row.round /\ x.result[row.category] = row.user
  BY DEF RewardsInv, Rewards!RecordedIsAnnounced
<1>4. ASSUME NEW r \in rounds, r # -1, r \notin cut_short'
      PROVE  \E x \in announced :
                /\ x.round = r
                /\ {row \in winner_rows : row.round = r} =
                      {[round |-> r, category |-> c, user |-> x.result[c]] :
                          c \in {k \in {"trader", "affiliate"} : x.result[k] # Rewards!Nobody}}
  <2>1. r # publishing.round
    BY <1>4 DEF RewardsInv, RewardsTyped, PublishedSoFar, Sending
  <2> QED
    BY <1>4, <2>1 DEF RewardsInv, Rewards!RecordedIsAnnounced
<1>5. \A x \in announced : x.round \in rounds \cup cut_short'
  BY <1>1 DEF RewardsInv, RewardsTyped, PublishedSoFar, Rewards!RecordedIsAnnounced
<1>6. \A x, y \in announced : x.round = y.round => x = y \/ x.round \in cut_short'
  BY DEF RewardsInv, Rewards!RecordedIsAnnounced
<1> QED
  BY <1>1, <1>2, <1>3, <1>4, <1>5, <1>6 DEF Rewards!RecordedIsAnnounced

(* A process stops.  A publication it cuts leaves its round among those that were cut.         *)
LEMMA RewardsCrash == ASSUME RewardsInv, NEW w \in Rewards!Writers, Rewards!crash(w) PROVE RewardsInv'
<1>1. /\ writing' = [writing EXCEPT ![w] = Rewards!Idle] /\ uncredited' = uncredited \cup {writing[w].fill.id}
      /\ hung \subseteq hung' /\ publishing' = IF w = "bot" THEN Rewards!Quiet ELSE publishing
      /\ cut_short' = IF w = "bot" /\ publishing.step # "rest" THEN cut_short \cup {publishing.round} ELSE cut_short
      /\ UNCHANGED <<time, fills, qty_held, referrer, credits, rounds, winner_rows, announced, rebound>>
  BY DEF Rewards!crash
<1>2. Rewards!Idle \in WriterRow /\ Rewards!Idle.step = "rest"
  BY DEF Rewards!Idle, Rewards!NoFill, WriterRow, FillRow
<1>3. /\ RecordedInTime' /\ AnnouncedSettled' /\ CreditsOnTheirWay' /\ Rewards!CreditsFollowFills' /\ RewardsTyped'
  BY <1>1, <1>2, RewardsDropped
<1>4. PublishedSoFar' /\ Rewards!RecordedIsAnnounced'
  BY <1>1, PublicationEnds, PublicationKept DEF PublicationVars
<1> QED
  BY <1>3, <1>4 DEF RewardsInv

(* The steps of a publication.                                                             *)
LEMMA NothingRecorded ==
    ASSUME RewardsInv, UNCHANGED <<time, fills, writing, credits, referrer, hung, uncredited>>
    PROVE  RecordedInTime' /\ CreditsOnTheirWay' /\ Rewards!CreditsFollowFills'
  BY DEF RewardsInv, RecordedInTime, CreditsOnTheirWay, Rewards!CreditsFollowFills

LEMMA RewardsPublish == ASSUME RewardsInv, Rewards!publish_round PROVE RewardsInv'
<1>1. PICK r \in Rewards!Rounds \ rounds :
         r = Rewards!RoundOf(time) - RoundLength /\ Rewards!Due(r)
         /\ publishing' = [step |-> "send", round |-> r, result |-> Rewards!settle(r)]
  BY DEF Rewards!publish_round
<1>2. /\ publishing.step = "rest" /\ publishing.round = -1 /\ -1 \notin Rewards!Rounds
      /\ UNCHANGED <<time, fills, qty_held, referrer, credits, rounds, winner_rows, writing, rfaults,
                     announced, hung, uncredited, rebound, cut_short>>
  BY DEF Rewards!publish_round, RewardsInv, RewardsTyped, Rewards!Rounds
<1>3. RewardsTyped'
  BY <1>1, <1>2 DEF RewardsInv, RewardsTyped
<1>4. AnnouncedSettled'
  <2>1. r + RoundLength + PublishDelay <= time
    BY <1>1, RewardNumbers DEF Rewards!Due, Rewards!Rounds, RewardsInv, RewardsTyped
  <2>2. SettledBy(fills, referrer, rebound, r, Rewards!settle(r))
    BY SettleIs DEF SettledBy
  <2> QED
    BY <1>1, <1>2, <2>1, <2>2 DEF RewardsInv, AnnouncedSettled
<1>5. PublishedSoFar'
  <2>1. \A x \in announced : x.round = r => x.round \in cut_short
    BY <1>1, <1>2 DEF RewardsInv, Rewards!RecordedIsAnnounced
  <2> QED
    BY <1>1, <1>2, <2>1 DEF RewardsInv, PublishedSoFar, Sending, Storing
<1>6. Rewards!RecordedIsAnnounced'
  <2>1. r \notin rounds
    BY <1>1
  <2> QED
    BY <1>1, <1>2, <2>1 DEF RewardsInv, RewardsTyped, Rewards!RecordedIsAnnounced
<1> QED
  BY <1>2, <1>3, <1>4, <1>5, <1>6, NothingRecorded DEF RewardsInv

LEMMA RewardsSend == ASSUME RewardsInv, Rewards!send PROVE RewardsInv'
<1> DEFINE r == publishing.round
           x0 == [round |-> publishing.round, result |-> publishing.result]
<1>1. /\ publishing.step = "send" /\ announced' = announced \cup {x0}
      /\ publishing' = [publishing EXCEPT !.step = "mark"]
      /\ UNCHANGED <<time, fills, qty_held, referrer, credits, rounds, winner_rows, writing, rfaults, hung,
                     uncredited, rebound, cut_short>>
  BY DEF Rewards!send
<1>2. /\ publishing'.step = "mark" /\ publishing'.round = r /\ publishing'.result = publishing.result
      /\ publishing' = [step |-> publishing'.step, round |-> publishing'.round, result |-> publishing'.result]
      /\ r \in Rewards!Rounds /\ x0.round = r /\ x0.result = publishing.result
  BY <1>1 DEF RewardsInv, RewardsTyped
<1> HIDE DEF x0
<1>3. RewardsTyped'
  BY <1>1, <1>2 DEF RewardsInv, RewardsTyped
<1>4. AnnouncedSettled'
  BY <1>1, <1>2 DEF RewardsInv, AnnouncedSettled
<1>5. PublishedSoFar'
  BY <1>1, <1>2 DEF RewardsInv, PublishedSoFar, Sending, Storing
<1>6. \A x \in announced : x.round = r => r \in cut_short
  BY <1>1 DEF RewardsInv, PublishedSoFar
<1>7. Rewards!RecordedIsAnnounced'
  BY <1>1, <1>2, <1>6 DEF RewardsInv, Rewards!RecordedIsAnnounced
<1> QED
  BY <1>1, <1>3, <1>4, <1>5, <1>7, NothingRecorded DEF RewardsInv

LEMMA RewardsUnsent == ASSUME RewardsInv, Rewards!sends_fail PROVE RewardsInv'
<1>1. /\ publishing.step = "send" /\ publishing' = Rewards!Quiet
      /\ UNCHANGED <<time, fills, qty_held, referrer, credits, rounds, winner_rows, writing, announced, hung,
                     uncredited, rebound, cut_short>>
  BY DEF Rewards!sends_fail
<1>2. /\ Rewards!Quiet.step = "rest" /\ Rewards!Quiet.round = -1
      /\ Rewards!Quiet = [step |-> Rewards!Quiet.step, round |-> Rewards!Quiet.round, result |-> Rewards!Quiet.result]
  BY DEF Rewards!Quiet
<1>3. RewardsTyped' /\ AnnouncedSettled'
  BY <1>1, <1>2 DEF RewardsInv, RewardsTyped, AnnouncedSettled
<1> QED
  BY <1>1, <1>3, NothingRecorded, PublicationEnds DEF RewardsInv

LEMMA RewardsMark == ASSUME RewardsInv, Rewards!mark_contest_round PROVE RewardsInv'
<1> DEFINE r == publishing.round
<1>1. /\ publishing.step = "mark" /\ rounds' = rounds \cup {r}
      /\ publishing' = [publishing EXCEPT !.step = "trader"]
      /\ UNCHANGED <<time, fills, qty_held, referrer, credits, winner_rows, writing, rfaults, announced, hung,
                     uncredited, rebound, cut_short>>
  BY DEF Rewards!mark_contest_round
<1>2. /\ publishing'.step = "trader" /\ publishing'.round = r /\ publishing'.result = publishing.result
      /\ publishing' = [step |-> publishing'.step, round |-> publishing'.round, result |-> publishing'.result]
      /\ r \in Rewards!Rounds
  BY <1>1 DEF RewardsInv, RewardsTyped
<1>3. RewardsTyped' /\ AnnouncedSettled'
  BY <1>1, <1>2 DEF RewardsInv, RewardsTyped, AnnouncedSettled
<1>4. r \notin rounds /\ RowsOf(r) = {}
  BY <1>1 DEF RewardsInv, PublishedSoFar, Sending, RowsOf
<1>5. PublishedSoFar'
  BY <1>1, <1>2, <1>4 DEF RewardsInv, PublishedSoFar, Sending, Storing, RowsOf
<1>6. Rewards!RecordedIsAnnounced'
  BY <1>1, <1>2 DEF RewardsInv, Rewards!RecordedIsAnnounced
<1> QED
  BY <1>1, <1>3, <1>5, <1>6, NothingRecorded DEF RewardsInv


(* The winner of a category is stored, after what the round has already.                    *)
LEMMA WinnerStored ==
    ASSUME RewardsInv, NEW category \in {"trader", "affiliate"}, publishing.step = category,
           NEW D, RowsOf(publishing.round) = WinnersOf(publishing.round, publishing.result, D),
           winner_rows' = IF publishing.result[category] = Rewards!Nobody THEN winner_rows
                          ELSE winner_rows \cup {[round |-> publishing.round, category |-> category,
                                                  user |-> publishing.result[category]]}
    PROVE  /\ {row \in winner_rows' : row.round = publishing.round}
                 = WinnersOf(publishing.round, publishing.result, D \cup {category})
           /\ \A n \in Rewards!Rounds : n # publishing.round
                 => {row \in winner_rows' : row.round = n} = {row \in winner_rows : row.round = n}
           /\ \A row \in winner_rows' :
                 row \in winner_rows
                 \/ (row.round = publishing.round /\ publishing.result[row.category] = row.user)
<1> DEFINE r == publishing.round
           res == publishing.result
           new == [round |-> r, category |-> category, user |-> res[category]]
<1>1. CASE res[category] = Rewards!Nobody
  <2>1. WinnersOf(r, res, D \cup {category}) = WinnersOf(r, res, D)
    BY <1>1 DEF WinnersOf
  <2>2. winner_rows' = winner_rows
    BY <1>1
  <2>3. {row \in winner_rows' : row.round = r} = RowsOf(r)
    BY <2>2 DEF RowsOf
  <2>4. \A n \in Rewards!Rounds : {row \in winner_rows' : row.round = n} = {row \in winner_rows : row.round = n}
    BY <2>2
  <2>5. \A row \in winner_rows' : row \in winner_rows
    BY <2>2
  <2>6. {row \in winner_rows' : row.round = r} = WinnersOf(r, res, D \cup {category})
    BY <2>1, <2>3
  <2> QED
    BY <2>4, <2>5, <2>6
<1>2. CASE res[category] # Rewards!Nobody
  <2>1. winner_rows' = winner_rows \cup {new}
    BY <1>2
  <2>2. WinnersOf(r, res, D \cup {category}) = WinnersOf(r, res, D) \cup {new}
    BY <1>2 DEF WinnersOf
  <2>3. new.round = r /\ new.category = category /\ new.user = res[category]
    OBVIOUS
  <2> HIDE DEF new
  <2>4. {row \in winner_rows' : row.round = r} = RowsOf(r) \cup {new}
    BY <2>1, <2>3 DEF RowsOf
  <2>5. ASSUME NEW n \in Rewards!Rounds, n # r
        PROVE  {row \in winner_rows' : row.round = n} = {row \in winner_rows : row.round = n}
    BY <2>1, <2>3, <2>5
  <2>6. \A row \in winner_rows' : row \in winner_rows \/ (row.round = r /\ res[row.category] = row.user)
    <3> SUFFICES ASSUME NEW row \in winner_rows', row \notin winner_rows
                 PROVE  row.round = r /\ res[row.category] = row.user
      OBVIOUS
    <3>1. row = new
      BY <2>1
    <3> QED
      BY <3>1, <2>3
  <2> QED
    BY <2>2, <2>4, <2>5, <2>6
<1> QED
  BY <1>1, <1>2

LEMMA RewardsTrader == ASSUME RewardsInv, Rewards!record_contest_winner("trader", "affiliate") PROVE RewardsInv'
<1> DEFINE r == publishing.round
<1>1. /\ publishing.step = "trader"
      /\ winner_rows' = IF publishing.result["trader"] = Rewards!Nobody THEN winner_rows
                        ELSE winner_rows \cup {[round |-> publishing.round, category |-> "trader",
                                                user |-> publishing.result["trader"]]}
      /\ publishing' = [publishing EXCEPT !.step = "affiliate"]
      /\ UNCHANGED <<time, fills, qty_held, referrer, credits, rounds, writing, rfaults, announced, hung,
                     uncredited, rebound, cut_short>>
  BY DEF Rewards!record_contest_winner
<1>2. /\ publishing'.step = "affiliate" /\ publishing'.round = r /\ publishing'.result = publishing.result
      /\ publishing' = [step |-> publishing'.step, round |-> publishing'.round, result |-> publishing'.result]
      /\ r \in Rewards!Rounds /\ r \in rounds
  BY <1>1 DEF RewardsInv, RewardsTyped, PublishedSoFar, Storing
<1>3. RewardsTyped' /\ AnnouncedSettled'
  BY <1>1, <1>2 DEF RewardsInv, RewardsTyped, AnnouncedSettled
<1>4. RowsOf(r) = WinnersOf(r, publishing.result, {})
  BY <1>1 DEF RewardsInv, PublishedSoFar, WinnersOf
<1>5. /\ {row \in winner_rows' : row.round = r} = WinnersOf(r, publishing.result, {"trader"})
      /\ \A n \in Rewards!Rounds : n # r
            => {row \in winner_rows' : row.round = n} = {row \in winner_rows : row.round = n}
      /\ \A row \in winner_rows' :
            row \in winner_rows \/ (row.round = r /\ publishing.result[row.category] = row.user)
  <2>1. {} \cup {"trader"} = {"trader"}
    OBVIOUS
  <2> QED
    BY <1>1, <1>4, <2>1, WinnerStored
<1>6. \E x \in announced : x.round = r /\ x.result = publishing.result
  BY <1>1 DEF RewardsInv, PublishedSoFar
<1>7. PublishedSoFar'
  BY <1>1, <1>2, <1>5, <1>6 DEF RewardsInv, PublishedSoFar, Sending, Storing, RowsOf
<1>8. Rewards!RecordedIsAnnounced'
  <2>1. \A row \in winner_rows' : \E x \in announced : x.round = row.round /\ x.result[row.category] = row.user
    BY <1>5, <1>6 DEF RewardsInv, Rewards!RecordedIsAnnounced
  <2>2. rounds \subseteq Rewards!Rounds
    BY DEF RewardsInv, RewardsTyped
  <2> QED
    BY <1>1, <1>2, <1>5, <2>1, <2>2 DEF RewardsInv, Rewards!RecordedIsAnnounced
<1> QED
  BY <1>1, <1>3, <1>7, <1>8, NothingRecorded DEF RewardsInv

LEMMA RewardsAffiliate == ASSUME RewardsInv, Rewards!record_contest_winner("affiliate", "rest") PROVE RewardsInv'
<1> DEFINE r == publishing.round
<1>1. /\ publishing.step = "affiliate"
      /\ winner_rows' = IF publishing.result["affiliate"] = Rewards!Nobody THEN winner_rows
                        ELSE winner_rows \cup {[round |-> publishing.round, category |-> "affiliate",
                                                user |-> publishing.result["affiliate"]]}
      /\ publishing' = Rewards!Quiet
      /\ UNCHANGED <<time, fills, qty_held, referrer, credits, rounds, writing, rfaults, announced, hung,
                     uncredited, rebound, cut_short>>
  BY DEF Rewards!record_contest_winner
<1>2. /\ Rewards!Quiet.step = "rest" /\ Rewards!Quiet.round = -1 /\ -1 \notin Rewards!Rounds
      /\ Rewards!Quiet = [step |-> Rewards!Quiet.step, round |-> Rewards!Quiet.round, result |-> Rewards!Quiet.result]
      /\ r \in Rewards!Rounds /\ r \in rounds
  BY <1>1 DEF Rewards!Quiet, Rewards!Rounds, RewardsInv, RewardsTyped, PublishedSoFar, Storing
<1>3. RewardsTyped' /\ AnnouncedSettled'
  BY <1>1, <1>2 DEF RewardsInv, RewardsTyped, AnnouncedSettled
<1>4. RowsOf(r) = WinnersOf(r, publishing.result, {"trader"})
  BY <1>1 DEF RewardsInv, PublishedSoFar
<1>5. /\ {row \in winner_rows' : row.round = r} = WinnersOf(r, publishing.result, {"trader", "affiliate"})
      /\ \A n \in Rewards!Rounds : n # r
            => {row \in winner_rows' : row.round = n} = {row \in winner_rows : row.round = n}
      /\ \A row \in winner_rows' :
            row \in winner_rows \/ (row.round = r /\ publishing.result[row.category] = row.user)
  <2>1. {"trader"} \cup {"affiliate"} = {"trader", "affiliate"}
    OBVIOUS
  <2> QED
    BY <1>1, <1>4, <2>1, WinnerStored
<1>6. PICK x0 \in announced : x0.round = r /\ x0.result = publishing.result
  BY <1>1 DEF RewardsInv, PublishedSoFar
<1>7. PublishedSoFar'
  BY <1>1, <1>2, <1>5 DEF RewardsInv, PublishedSoFar, Sending, Storing
<1>8. Rewards!RecordedIsAnnounced'
  <2>1. \A row \in winner_rows' : \E x \in announced : x.round = row.round /\ x.result[row.category] = row.user
    BY <1>5, <1>6 DEF RewardsInv, Rewards!RecordedIsAnnounced
  <2>2. ASSUME NEW n \in rounds, n \notin cut_short
        PROVE  \E x \in announced :
                  /\ x.round = n
                  /\ {row \in winner_rows' : row.round = n} =
                        {[round |-> n, category |-> c, user |-> x.result[c]] :
                            c \in {k \in {"trader", "affiliate"} : x.result[k] # Rewards!Nobody}}
    <3>1. CASE n = r
      BY <1>5, <1>6, <3>1 DEF WinnersOf
    <3>2. CASE n # r
      <4>1. {row \in winner_rows' : row.round = n} = {row \in winner_rows : row.round = n}
        BY <1>5, <3>2 DEF RewardsInv, RewardsTyped
      <4> QED
        BY <2>2, <3>2, <4>1 DEF RewardsInv, Rewards!RecordedIsAnnounced
    <3> QED
      BY <3>1, <3>2
  <2>3. \A x \in announced : x.round \in rounds \cup cut_short
    BY <1>2 DEF RewardsInv, Rewards!RecordedIsAnnounced
  <2> QED
    BY <1>1, <1>2, <2>1, <2>2, <2>3 DEF RewardsInv, Rewards!RecordedIsAnnounced
<1> QED
  BY <1>1, <1>3, <1>7, <1>8, NothingRecorded DEF RewardsInv

LEMMA RewardsStep == ASSUME RewardsInv, [Rewards!Next]_(Rewards!rewardVars) PROVE RewardsInv'
<1>1. CASE UNCHANGED Rewards!rewardVars
  BY <1>1, NothingRecorded, PublicationKept
     DEF Rewards!rewardVars, PublicationVars, RewardsInv, RewardsTyped, AnnouncedSettled
<1>2. CASE Rewards!Next
  BY <1>2, RewardsTick, RewardsPublish, RewardsSend, RewardsUnsent, RewardsMark, RewardsCommit,
     RewardsTrader, RewardsAffiliate, RewardsBind, RewardsRecord, RewardsRaises, RewardsAccrue,
     RewardsCrash, RewardsTrade DEF Rewards!Next
<1> QED
  BY <1>1, <1>2

LEMMA RewardsAreFaithful == ASSUME RewardsInv PROVE Rewards!RewardsFaithful
<1>1. Rewards!AnnouncedIsFinal
  BY SettleIs DEF RewardsInv, AnnouncedSettled, SettledBy, Rewards!AnnouncedIsFinal
<1> QED
  BY <1>1 DEF RewardsInv, Rewards!RewardsFaithful

RewardsPart == money_part = "rewards" => RewardsInv

LEMMA RewardsPartKept == ASSUME RewardsPart, [MoneyNext]_moneyVars PROVE RewardsPart'
<1>1. CASE RewardStep
  BY <1>1, RewardsStep DEF RewardStep, RewardsPart
<1>2. CASE money_part' = money_part /\ UNCHANGED rewardVars
  <2>1. UNCHANGED Rewards!rewardVars
    BY <1>2 DEF rewardVars, Rewards!rewardVars
  <2>2. CASE money_part = "rewards"
    BY <1>2, <2>1, <2>2, RewardsStep DEF RewardsPart
  <2> QED
    BY <1>2, <2>2 DEF RewardsPart
<1>3. CASE UNCHANGED moneyVars
  BY <1>2, <1>3 DEF moneyVars
<1>4. CASE MoneyNext /\ ~RewardStep
  BY <1>2, <1>4 DEF MoneyNext, CustodyStep, PaperStep, WatchStep, ChatStep, MevStep, ReplyStep, NoticeStep
<1> QED
  BY <1>1, <1>3, <1>4

(* Contest and referrals (store.py, monetization/, contest_publish.py): what was announced of   *)
(* a round stays what its fills give, its winners are the ones stored, and each fill of a       *)
(* referred user is credited once, but for what a stop or a late referral leaves undone.        *)
THEOREM RewardsKeepPromises == MoneySpec => []RewardsFaithful
<1>1. MoneyInit => RewardsPart
  BY RewardsStart DEF MoneyInit, RewardsPart
<1>2. RewardsPart /\ [MoneyNext]_moneyVars => RewardsPart'
  BY RewardsPartKept
<1>3. RewardsPart => RewardsFaithful
  BY RewardsAreFaithful DEF RewardsPart, RewardsFaithful
<1> QED
  BY <1>1, <1>2, <1>3, PTL DEF MoneySpec
=============================================================================
