------------------------------ MODULE Preorders ------------------------------
(* Orders of one token that the user arms and signs ahead of time: purchases, which *)
(* any of several keepers submits once they are signed, and protective sales, which *)
(* the alert loop fires (as paper trades) on an alert.  All share one table, each   *)
(* of its statements a transaction of its own.                                      *)
EXTENDS Integers, FiniteSets

CONSTANTS
    Ids,           \* preorders
    Keepers,       \* the loop's keeper, and threads started by a signature
    MaxHeld, MaxSigns, MaxOrderFaults      \* bounds

Statuses == {"none", "armed", "signed", "submitting", "executed", "cancelled", "no_position"}

VARIABLES
    order,       \* per preorder: kind, status, signature, payload
    qty,         \* the tracked position
    keeper,      \* per keeper: the orders it listed, and the one it holds
    fire,        \* protections the alert loop is going to fire
    signing,     \* requests of /sign past their check
    planning,    \* sales without their payload yet
    expired,
    filled,      \* executions on chain per preorder
    signs, ofaults,
    resigned,    \* signed again while a keeper held it
    revoked      \* cancelled while nobody held it, and not signed since
poVars == <<order, qty, keeper, fire, signing, planning, expired, filled, signs, ofaults, resigned, revoked>>

NoOrder == [kind |-> "sell", status |-> "none", signature |-> FALSE, payload |-> FALSE]
NoBatch == [todo |-> {}, id |-> 0, step |-> "rest"]

PreordersTypeOK ==
    /\ order \in [Ids -> [kind : {"buy", "sell"}, status : Statuses, signature : BOOLEAN, payload : BOOLEAN]]
    /\ qty \in 0..MaxHeld
    /\ keeper \in [Keepers -> [todo : SUBSET Ids, id : Ids \cup {0}, step : {"rest", "listed", "sending"}]]
    /\ fire \subseteq Ids /\ signing \subseteq Ids /\ planning \subseteq Ids /\ expired \subseteq Ids
    /\ filled \in [Ids -> 0..1] /\ signs \in 0..MaxSigns /\ ofaults \in 0..MaxOrderFaults
    /\ resigned \subseteq Ids /\ revoked \subseteq Ids

Init ==
    /\ order = [i \in Ids |-> NoOrder] /\ qty = 0
    /\ keeper = [k \in Keepers |-> NoBatch]
    /\ fire = {} /\ signing = {} /\ planning = {} /\ expired = {}
    /\ filled = [i \in Ids |-> 0]
    /\ signs = 0 /\ ofaults = 0 /\ resigned = {} /\ revoked = {}

----------------------------------------------------------------------------
Held(i) == \E k \in Keepers : keeper[k].id = i
InFlight(i) == Held(i) \/ i \in fire \/ i \in signing

(* The plan of a sale, or of a purchase, is a row and then its payload.             *)
create_preorder(i, kind) ==
    /\ order[i].status = "none"
    /\ kind = "sell" => qty > 0
    /\ order' = [order EXCEPT ![i] = [NoOrder EXCEPT !.kind = kind, !.status = "armed"]]
    /\ planning' = planning \cup {i}
    /\ UNCHANGED <<qty, keeper, fire, signing, expired, filled, signs, ofaults, resigned, revoked>>

save_payload(i) ==
    /\ i \in planning /\ planning' = planning \ {i}
    /\ order' = [order EXCEPT ![i].payload = TRUE]
    /\ UNCHANGED <<qty, keeper, fire, signing, expired, filled, signs, ofaults, resigned, revoked>>

(* The button of the chat: a protection without a payload.                          *)
_arm_protect(i) ==
    /\ order[i].status = "none" /\ qty > 0
    /\ order' = [order EXCEPT ![i] = [NoOrder EXCEPT !.status = "armed"]]
    /\ UNCHANGED <<qty, keeper, fire, signing, planning, expired, filled, signs, ofaults, resigned, revoked>>

(* POST /sign reads the status and attaches the signature in two statements; the    *)
(* page of GET /order has offered an armed or signed order with its payload.        *)
Signable(s) == s # "executed"
SignCheck(i) ==
    /\ order[i].payload /\ Signable(order[i].status)
    /\ i \notin signing /\ signs < MaxSigns
    /\ signing' = signing \cup {i} /\ signs' = signs + 1
    /\ revoked' = revoked \ {i}
    /\ UNCHANGED <<order, qty, keeper, fire, planning, expired, filled, ofaults, resigned>>

attach_signature(i) ==
    /\ i \in signing /\ signing' = signing \ {i}
    /\ order' = [order EXCEPT ![i].status = "signed", ![i].signature = TRUE]
    /\ resigned' = IF Held(i) THEN resigned \cup {i} ELSE resigned
    /\ UNCHANGED <<qty, keeper, fire, planning, expired, filled, signs, ofaults, revoked>>

cancel_preorder(i) ==
    /\ order[i].status \in {"armed", "signed", "submitting"}
    /\ order' = [order EXCEPT ![i].status = "cancelled"]
    /\ revoked' = IF InFlight(i) THEN revoked ELSE revoked \cup {i}
    /\ UNCHANGED <<qty, keeper, fire, signing, planning, expired, filled, signs, ofaults, resigned>>

Expire(i) ==
    /\ order[i].status # "none" /\ i \notin expired
    /\ expired' = expired \cup {i}
    /\ UNCHANGED <<order, qty, keeper, fire, signing, planning, filled, signs, ofaults, resigned, revoked>>

(* The user trades the token himself, on paper or not.                              *)
Trade(n) ==
    /\ n # qty /\ qty' = n
    /\ UNCHANGED <<order, keeper, fire, signing, planning, expired, filled, signs, ofaults, resigned, revoked>>

----------------------------------------------------------------------------
(* run_keeper.                                                                      *)
orders_due == {i \in Ids : order[i].kind = "buy" /\ order[i].status = "signed" /\ i \notin expired}

ListDue(k) ==
    /\ keeper[k].step = "rest" /\ orders_due # {}
    /\ keeper' = [keeper EXCEPT ![k] = [todo |-> orders_due, id |-> 0, step |-> "listed"]]
    /\ UNCHANGED <<order, qty, fire, signing, planning, expired, filled, signs, ofaults, resigned, revoked>>

Turn(k, i) == keeper[k].step = "listed" /\ i \in keeper[k].todo /\ \A j \in keeper[k].todo : i <= j
AnyStatus(i) == TRUE
Claimable(i) == order[i].status = "signed"
claim_order(k, i) ==
    /\ Turn(k, i)
    /\ IF Claimable(i)
       THEN /\ order' = [order EXCEPT ![i].status = "submitting"]
            /\ keeper' = [keeper EXCEPT ![k].todo = @ \ {i}, ![k].id = i, ![k].step = "sending"]
       ELSE /\ keeper' = [keeper EXCEPT ![k].todo = @ \ {i}]
            /\ UNCHANGED order
    /\ UNCHANGED <<qty, fire, signing, planning, expired, filled, signs, ofaults, resigned, revoked>>

Release(k) == keeper' = [keeper EXCEPT ![k].id = 0, ![k].step = "listed"]

(* The executor takes an order's nonce once, and no expired order.                  *)
OnChain(i) == filled[i] = 0 /\ i \notin expired
submit_execute(k) ==
    LET i == keeper[k].id IN
    /\ keeper[k].step = "sending" /\ OnChain(i)
    /\ filled' = [filled EXCEPT ![i] = 1]
    /\ order' = [order EXCEPT ![i].status = "executed"]
    /\ Release(k)
    /\ UNCHANGED <<qty, fire, signing, planning, expired, signs, ofaults, resigned, revoked>>

BackTo(status) == status
Requeued(status) == "signed"
SubmitFails(k, sent) ==
    LET i == keeper[k].id IN
    /\ keeper[k].step = "sending"
    /\ sent => OnChain(i) /\ ofaults < MaxOrderFaults
    /\ filled' = IF sent THEN [filled EXCEPT ![i] = 1] ELSE filled
    /\ ofaults' = IF sent THEN ofaults + 1 ELSE ofaults
    /\ order' = [order EXCEPT ![i].status = Requeued(@)]
    /\ Release(k)
    /\ UNCHANGED <<qty, fire, signing, planning, expired, signs, resigned, revoked>>

EndBatch(k) ==
    /\ keeper[k].step = "listed" /\ keeper[k].todo = {}
    /\ keeper' = [keeper EXCEPT ![k] = NoBatch]
    /\ UNCHANGED <<order, qty, fire, signing, planning, expired, filled, signs, ofaults, resigned, revoked>>

----------------------------------------------------------------------------
(* fire_preorders, on a creator's sale: the token's armed sales are listed, then    *)
(* each sells on paper, or nothing without a price, and is executed.                *)
preorders_for_token == {i \in Ids : order[i].kind = "sell" /\ order[i].status = "armed"}

Alert ==
    /\ fire = {} /\ preorders_for_token # {}
    /\ fire' = preorders_for_token
    /\ UNCHANGED <<order, qty, keeper, signing, planning, expired, filled, signs, ofaults, resigned, revoked>>

PlannedSale == 0..MaxHeld
PaperSale == 0..qty
fire_preorder(i, n) ==
    /\ i \in fire /\ fire' = fire \ {i}
    /\ n \in PaperSale
    /\ qty' = qty - n
    /\ order' = [order EXCEPT ![i].status = IF qty = 0 THEN "no_position" ELSE "executed"]
    /\ UNCHANGED <<keeper, signing, planning, expired, filled, signs, ofaults, resigned, revoked>>

(* The bot or the sign server stops.                                                *)
Crash ==
    /\ ofaults < MaxOrderFaults /\ ofaults' = ofaults + 1
    /\ \/ /\ fire' = {} /\ keeper' \in {[keeper EXCEPT ![k] = NoBatch] : k \in Keepers}
          /\ UNCHANGED <<signing, planning>>
       \/ /\ signing' = {} /\ planning' = {} /\ keeper' \in {[keeper EXCEPT ![k] = NoBatch] : k \in Keepers}
          /\ UNCHANGED fire
    /\ UNCHANGED <<order, qty, expired, filled, signs, resigned, revoked>>

Keeper(k) ==
    \/ ListDue(k) \/ submit_execute(k) \/ EndBatch(k)
    \/ \E i \in Ids : claim_order(k, i)
    \/ \E sent \in BOOLEAN : SubmitFails(k, sent)
Next ==
    \/ \E i \in Ids :
          \/ \E kind \in {"buy", "sell"} : create_preorder(i, kind)
          \/ save_payload(i) \/ _arm_protect(i) \/ SignCheck(i) \/ attach_signature(i)
          \/ cancel_preorder(i) \/ Expire(i)
          \/ \E n \in 0..MaxHeld : fire_preorder(i, n)
    \/ \E n \in 0..MaxHeld : Trade(n)
    \/ \E k \in Keepers : Keeper(k)
    \/ Alert \/ Crash

Spec == Init /\ [][Next]_poVars

----------------------------------------------------------------------------
(* claim_order keeps two keepers from submitting the same order, unless its owner   *)
(* signs it again while one of them holds it (store.py:876, sign_server.py:1358).   *)
OneSubmitter ==
    \A i \in Ids : i \notin resigned =>
        Cardinality({k \in Keepers : keeper[k].id = i}) <= 1

(* An order stays in "submitting", which nothing lists again, only when the process *)
(* that claimed it stopped.                                                         *)
SubmittingIsHeld ==
    \A i \in Ids : order[i].status = "submitting" => Held(i) \/ ofaults > 0

(* A cancellation that finds nobody working on the order is final: it is neither    *)
(* submitted nor fired until its owner signs it again.                              *)
CancelledStaysOut ==
    [][\A i \in revoked :
          filled'[i] = filled[i] /\ order'[i].status = "cancelled"]_poVars
=============================================================================
