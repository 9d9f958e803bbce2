--------------------------- MODULE BotWork_proofs ---------------------------
(* Theorems about components of the bot, each a part of MCBotWork, for every value of the constants. *)
EXTENDS MCBotWork, Totals_proofs, FiniteSetTheorems, WellFoundedInduction, TLAPS

(* Signed preorders: what the keepers hold, and the status of what they hold or do not.   *)
OrdersTyped ==
    /\ order \in [Ids -> [kind : {"buy", "sell"}, status : Pre!Statuses,
                          signature : BOOLEAN, payload : BOOLEAN]]
    /\ keeper \in [Keepers -> [todo : SUBSET Ids, id : Ids \cup {0},
                               step : {"rest", "listed", "sending"}]]
    /\ filled \in [Ids -> 0..1] /\ ofaults \in Nat
    /\ fire \subseteq Ids /\ signing \subseteq Ids /\ revoked \subseteq Ids

(* A keeper holds an order exactly while it sends one.                                *)
SendersHold == \A k \in Keepers : keeper[k].id = 0 <=> keeper[k].step # "sending"

(* Only an order that was signed again while it was held has two holders, or is signed   *)
(* and held: nobody else can claim an order that is held.                             *)
OneHolder ==
    \A i \in Ids \ resigned : \A k \in Keepers : keeper[k].id = i =>
        order[i].status # "signed" /\ \A j \in Keepers : keeper[j].id = i => j = k

RevokedIsIdle == \A i \in revoked : order[i].status = "cancelled" /\ ~Pre!InFlight(i)

OrdersInv == OrdersTyped /\ SendersHold /\ OneHolder /\ Pre!SubmittingIsHeld /\ RevokedIsIdle

(* What a step may not do to an order that was cancelled while nobody had it.             *)
RevokedKept == \A i \in revoked : filled'[i] = filled[i] /\ order'[i].status = "cancelled"

LEMMA OneHolderIsOneSubmitter == ASSUME OrdersInv PROVE Pre!OneSubmitter
<1> SUFFICES ASSUME NEW i \in Ids, i \notin resigned
             PROVE  Cardinality({k \in Keepers : keeper[k].id = i}) <= 1
  BY DEF Pre!OneSubmitter, Pre!Cardinality, Cardinality
<1> DEFINE H == {k \in Keepers : keeper[k].id = i}
<1>1. CASE H = {}
  BY <1>1, FS_EmptySet
<1>2. CASE H # {}
  <2>1. PICK k \in Keepers : keeper[k].id = i
    BY <1>2
  <2>2. H = {k}
    BY <2>1 DEF OrdersInv, OneHolder
  <2>3. Cardinality({k}) = 1
    BY FS_Singleton
  <2> QED
    BY <2>2, <2>3
<1> QED
  BY <1>1, <1>2

OrderRow == [kind : {"buy", "sell"}, status : Pre!Statuses, signature : BOOLEAN, payload : BOOLEAN]

(* An edit of one row keeps the table's type and touches no other row.                    *)
LEMMA RowEdited ==
    ASSUME OrdersTyped, NEW i \in Ids, NEW r \in OrderRow, order' = [order EXCEPT ![i] = r]
    PROVE  /\ order' \in [Ids -> OrderRow] /\ order'[i] = r
           /\ \A j \in Ids : j # i => order'[j] = order[j]
  BY DEF OrdersTyped, OrderRow

LEMMA OrderOfUser ==
    ASSUME OrdersInv, NEW i \in Ids,
           \/ \E kind \in {"buy", "sell"} : Pre!create_preorder(i, kind)
           \/ Pre!save_payload(i) \/ Pre!_arm_protect(i) \/ Pre!SignCheck(i) \/ Pre!attach_signature(i)
           \/ Pre!cancel_preorder(i) \/ Pre!Expire(i)
    PROVE  OrdersInv' /\ RevokedKept
<1> DEFINE Kept == OrdersInv' /\ RevokedKept
<1> USE DEF SendersHold, OneHolder, RevokedIsIdle, RevokedKept, Pre!SubmittingIsHeld,
            Pre!InFlight, Pre!Held
<1>0. order[i] \in OrderRow /\ OrdersTyped
  BY DEF OrdersInv, OrdersTyped, OrderRow
<1>1. ASSUME NEW kind \in {"buy", "sell"}, Pre!create_preorder(i, kind) PROVE Kept
  <2>1. PICK r \in OrderRow : order' = [order EXCEPT ![i] = r] /\ r.status = "armed"
    <3>1. /\ [Pre!NoOrder EXCEPT !.kind = kind, !.status = "armed"] \in OrderRow
          /\ [Pre!NoOrder EXCEPT !.kind = kind, !.status = "armed"].status = "armed"
      BY DEF Pre!NoOrder, OrderRow, Pre!Statuses
    <3> QED
      BY <1>1, <3>1 DEF Pre!create_preorder
  <2>2. /\ UNCHANGED <<keeper, filled, ofaults, fire, signing, resigned, revoked>>
        /\ order[i].status = "none"
    BY <1>1 DEF Pre!create_preorder
  <2> QED
    BY <1>0, <2>1, <2>2, RowEdited DEF OrdersInv, OrdersTyped, OrderRow
<1>2. CASE Pre!save_payload(i)
  <2>1. PICK r \in OrderRow : order' = [order EXCEPT ![i] = r] /\ r.status = order[i].status
    <3>1. [order[i] EXCEPT !.payload = TRUE] \in OrderRow
      BY <1>0 DEF OrderRow
    <3> QED
      BY <1>0, <1>2, <3>1 DEF Pre!save_payload, OrderRow
  <2>2. UNCHANGED <<keeper, filled, ofaults, fire, signing, resigned, revoked>>
    BY <1>2 DEF Pre!save_payload
  <2> QED
    BY <1>0, <2>1, <2>2, RowEdited DEF OrdersInv, OrdersTyped, OrderRow
<1>3. CASE Pre!_arm_protect(i)
  <2>1. PICK r \in OrderRow : order' = [order EXCEPT ![i] = r] /\ r.status = "armed"
    <3>1. /\ [Pre!NoOrder EXCEPT !.status = "armed"] \in OrderRow
          /\ [Pre!NoOrder EXCEPT !.status = "armed"].status = "armed"
      BY DEF Pre!NoOrder, OrderRow, Pre!Statuses
    <3> QED
      BY <1>3, <3>1 DEF Pre!_arm_protect
  <2>2. /\ UNCHANGED <<keeper, filled, ofaults, fire, signing, resigned, revoked>>
        /\ order[i].status = "none"
    BY <1>3 DEF Pre!_arm_protect
  <2> QED
    BY <1>0, <2>1, <2>2, RowEdited DEF OrdersInv, OrdersTyped, OrderRow
<1>4. CASE Pre!SignCheck(i)
  BY <1>4 DEF Pre!SignCheck, OrdersInv, OrdersTyped
<1>5. CASE Pre!attach_signature(i)
  <2>1. PICK r \in OrderRow : order' = [order EXCEPT ![i] = r] /\ r.status = "signed"
    <3>1. [order[i] EXCEPT !.status = "signed", !.signature = TRUE] \in OrderRow
      BY <1>0 DEF OrderRow, Pre!Statuses
    <3> QED
      BY <1>0, <1>5, <3>1 DEF Pre!attach_signature, OrderRow
  <2>2. /\ UNCHANGED <<keeper, filled, ofaults, fire, revoked>> /\ i \in signing
        /\ signing' = signing \ {i} /\ resigned \subseteq resigned' /\ (Pre!Held(i) => i \in resigned')
    BY <1>5 DEF Pre!attach_signature
  <2> QED
    BY <1>0, <2>1, <2>2, RowEdited DEF OrdersInv, OrdersTyped, OrderRow
<1>6. CASE Pre!cancel_preorder(i)
  <2>1. PICK r \in OrderRow : order' = [order EXCEPT ![i] = r] /\ r.status = "cancelled"
    <3>1. [order[i] EXCEPT !.status = "cancelled"] \in OrderRow
      BY <1>0 DEF OrderRow, Pre!Statuses
    <3> QED
      BY <1>0, <1>6, <3>1 DEF Pre!cancel_preorder, OrderRow
  <2>2. /\ UNCHANGED <<keeper, filled, ofaults, fire, signing, resigned>>
        /\ revoked' = IF Pre!InFlight(i) THEN revoked ELSE revoked \cup {i}
    BY <1>6 DEF Pre!cancel_preorder
  <2> QED
    BY <1>0, <2>1, <2>2, RowEdited DEF OrdersInv, OrdersTyped, OrderRow
<1>7. CASE Pre!Expire(i)
  BY <1>7 DEF Pre!Expire, OrdersInv, OrdersTyped
<1> QED
  BY <1>1, <1>2, <1>3, <1>4, <1>5, <1>6, <1>7

LEMMA OrderOfKeeper ==
    ASSUME OrdersInv, 0 \notin Ids, NEW k \in Keepers, Pre!Keeper(k)
    PROVE  OrdersInv' /\ RevokedKept
<1> USE DEF SendersHold, OneHolder, RevokedIsIdle, RevokedKept, Pre!SubmittingIsHeld,
            Pre!InFlight, Pre!Held
<1> DEFINE Batch == [todo : SUBSET Ids, id : Ids \cup {0}, step : {"rest", "listed", "sending"}]
           i == keeper[k].id
<1>0. OrdersTyped /\ keeper[k] \in Batch /\ keeper \in [Keepers -> Batch]
      /\ (keeper[k].step = "sending" => i \in Ids)
  BY DEF OrdersInv, OrdersTyped
<1>a. ASSUME NEW b \in Batch, keeper' = [keeper EXCEPT ![k] = b]
      PROVE  keeper' \in [Keepers -> Batch] /\ keeper'[k] = b
             /\ \A j \in Keepers : j # k => keeper'[j] = keeper[j]
  BY <1>0, <1>a
<1>1. CASE Pre!ListDue(k)
  <2>1. PICK b \in Batch : keeper' = [keeper EXCEPT ![k] = b] /\ b.id = 0 /\ b.step = "listed"
    <3> DEFINE b == [todo |-> Pre!orders_due, id |-> 0, step |-> "listed"]
    <3>1. b \in Batch /\ b.id = 0 /\ b.step = "listed"
      BY DEF Pre!orders_due
    <3>2. keeper' = [keeper EXCEPT ![k] = b]
      BY <1>1 DEF Pre!ListDue
    <3> QED
      BY <3>1, <3>2
  <2>2. /\ UNCHANGED <<order, filled, ofaults, fire, signing, resigned, revoked>>
        /\ keeper[k].step = "rest"
    BY <1>1 DEF Pre!ListDue
  <2> QED
    BY <1>0, <1>a, <2>1, <2>2 DEF OrdersInv, OrdersTyped
<1>2. ASSUME NEW o \in Ids, Pre!claim_order(k, o) PROVE OrdersInv' /\ RevokedKept
  <2>1. UNCHANGED <<filled, ofaults, fire, signing, resigned, revoked>> /\ keeper[k].step = "listed"
    BY <1>2 DEF Pre!claim_order, Pre!Turn
  <2>2. CASE order[o].status = "signed"
    <3>1. PICK r \in OrderRow : order' = [order EXCEPT ![o] = r] /\ r.status = "submitting"
      <4>1. [order[o] EXCEPT !.status = "submitting"] \in OrderRow
        BY <1>0 DEF OrdersTyped, OrderRow, Pre!Statuses
      <4> QED
        BY <1>0, <1>2, <2>2, <4>1 DEF Pre!claim_order, Pre!Claimable, OrdersTyped, OrderRow
    <3>2. PICK b \in Batch : keeper' = [keeper EXCEPT ![k] = b] /\ b.id = o /\ b.step = "sending"
      <4>1. [keeper[k] EXCEPT !.todo = @ \ {o}, !.id = o, !.step = "sending"] \in Batch
        BY <1>0
      <4> QED
        BY <1>0, <1>2, <2>2, <4>1 DEF Pre!claim_order, Pre!Claimable
    <3> QED
      BY <1>0, <1>a, <2>1, <2>2, <3>1, <3>2, RowEdited DEF OrdersInv, OrdersTyped, OrderRow
  <2>3. CASE order[o].status # "signed"
    <3>1. order' = order
      BY <1>2, <2>3 DEF Pre!claim_order, Pre!Claimable
    <3>2. PICK b \in Batch : keeper' = [keeper EXCEPT ![k] = b] /\ b.id = i /\ b.step = "listed"
      <4>1. [keeper[k] EXCEPT !.todo = @ \ {o}] \in Batch
        BY <1>0
      <4> QED
        BY <1>0, <1>2, <2>1, <2>3, <4>1 DEF Pre!claim_order, Pre!Claimable
    <3> QED
      BY <1>0, <1>a, <2>1, <3>1, <3>2 DEF OrdersInv, OrdersTyped
  <2> QED
    BY <2>2, <2>3
<1>b. ASSUME keeper[k].step = "sending", Pre!Release(k), NEW r \in OrderRow, order' = [order EXCEPT ![i] = r],
             r.status # "submitting",
             UNCHANGED <<fire, signing, resigned, revoked>>, ofaults' \in Nat, ofaults' >= ofaults,
             filled' \in [Ids -> 0..1], \A j \in Ids : j # i => filled'[j] = filled[j]
      PROVE  OrdersInv' /\ RevokedKept
  <2>1. PICK b \in Batch : keeper' = [keeper EXCEPT ![k] = b] /\ b.id = 0 /\ b.step = "listed"
    <3>1. [keeper[k] EXCEPT !.id = 0, !.step = "listed"] \in Batch
      BY <1>0
    <3> QED
      BY <1>0, <1>b, <3>1 DEF Pre!Release
  <2> QED
    BY <1>0, <1>a, <1>b, <2>1, RowEdited DEF OrdersInv, OrdersTyped, OrderRow
<1>3. CASE Pre!submit_execute(k)
  <2>1. /\ keeper[k].step = "sending" /\ Pre!Release(k) /\ filled' = [filled EXCEPT ![i] = 1]
        /\ order' = [order EXCEPT ![i].status = "executed"]
        /\ UNCHANGED <<fire, signing, resigned, revoked, ofaults>>
    BY <1>3 DEF Pre!submit_execute
  <2>2. PICK r \in OrderRow : order' = [order EXCEPT ![i] = r] /\ r.status = "executed"
    <3>1. [order[i] EXCEPT !.status = "executed"] \in OrderRow
      BY <1>0, <2>1 DEF OrdersTyped, OrderRow, Pre!Statuses
    <3> QED
      BY <1>0, <2>1, <3>1 DEF OrdersTyped, OrderRow
  <2>3. /\ filled' \in [Ids -> 0..1] /\ \A j \in Ids : j # i => filled'[j] = filled[j]
        /\ ofaults' \in Nat /\ ofaults' >= ofaults
    BY <1>0, <2>1 DEF OrdersTyped
  <2> QED
    BY <1>b, <2>1, <2>2, <2>3
<1>4. ASSUME NEW b \in BOOLEAN, Pre!SubmitFails(k, b) PROVE OrdersInv' /\ RevokedKept
  <2>1. /\ keeper[k].step = "sending" /\ Pre!Release(k)
        /\ filled' = IF b THEN [filled EXCEPT ![i] = 1] ELSE filled
        /\ order' = [order EXCEPT ![i].status = "signed"]
        /\ ofaults' = IF b THEN ofaults + 1 ELSE ofaults
        /\ UNCHANGED <<fire, signing, resigned, revoked>>
    BY <1>4 DEF Pre!SubmitFails, Pre!Requeued
  <2>2. PICK r \in OrderRow : order' = [order EXCEPT ![i] = r] /\ r.status = "signed"
    <3>1. [order[i] EXCEPT !.status = "signed"] \in OrderRow
      BY <1>0, <2>1 DEF OrdersTyped, OrderRow, Pre!Statuses
    <3> QED
      BY <1>0, <2>1, <3>1 DEF OrdersTyped, OrderRow
  <2>3. /\ filled' \in [Ids -> 0..1] /\ \A j \in Ids : j # i => filled'[j] = filled[j]
        /\ ofaults' \in Nat /\ ofaults' >= ofaults
    BY <1>0, <2>1 DEF OrdersTyped
  <2> QED
    BY <1>b, <2>1, <2>2, <2>3
<1>5. CASE Pre!EndBatch(k)
  <2>1. PICK b \in Batch : keeper' = [keeper EXCEPT ![k] = b] /\ b.id = 0 /\ b.step = "rest"
    <3>1. Pre!NoBatch \in Batch /\ Pre!NoBatch.id = 0 /\ Pre!NoBatch.step = "rest"
      BY DEF Pre!NoBatch
    <3> QED
      BY <1>5, <3>1 DEF Pre!EndBatch
  <2>2. /\ UNCHANGED <<order, filled, ofaults, fire, signing, resigned, revoked>>
        /\ keeper[k].step = "listed"
    BY <1>5 DEF Pre!EndBatch
  <2> QED
    BY <1>0, <1>a, <2>1, <2>2 DEF OrdersInv, OrdersTyped
<1> QED
  BY <1>1, <1>2, <1>3, <1>4, <1>5 DEF Pre!Keeper

LEMMA OrderOfLoop ==
    ASSUME OrdersInv, 0 \notin Ids,
           \/ \E i \in Ids : \E n \in 0..MaxHeld : Pre!fire_preorder(i, n)
           \/ \E n \in 0..MaxHeld : Pre!Trade(n)
           \/ Pre!Alert \/ Pre!Crash
    PROVE  OrdersInv' /\ RevokedKept
<1> USE DEF SendersHold, OneHolder, RevokedIsIdle, RevokedKept, Pre!SubmittingIsHeld,
            Pre!InFlight, Pre!Held
<1> DEFINE Batch == [todo : SUBSET Ids, id : Ids \cup {0}, step : {"rest", "listed", "sending"}]
<1>0. OrdersTyped /\ order \in [Ids -> OrderRow] /\ keeper \in [Keepers -> Batch]
  BY DEF OrdersInv, OrdersTyped, OrderRow
<1>1. ASSUME NEW i \in Ids, NEW n \in 0..MaxHeld, Pre!fire_preorder(i, n) PROVE OrdersInv' /\ RevokedKept
  <2>1. /\ i \in fire /\ fire' = fire \ {i}
        /\ order' = [order EXCEPT ![i].status = IF qty = 0 THEN "no_position" ELSE "executed"]
        /\ UNCHANGED <<keeper, filled, ofaults, signing, resigned, revoked>>
    BY <1>1 DEF Pre!fire_preorder
  <2>2. PICK r \in OrderRow : order' = [order EXCEPT ![i] = r] /\ r.status \in {"no_position", "executed"}
    <3>1. [order[i] EXCEPT !.status = IF qty = 0 THEN "no_position" ELSE "executed"] \in OrderRow
      BY <1>0 DEF OrderRow, Pre!Statuses
    <3> QED
      BY <1>0, <2>1, <3>1 DEF OrderRow
  <2> QED
    BY <1>0, <2>1, <2>2, RowEdited DEF OrdersInv, OrdersTyped, OrderRow
<1>2. ASSUME NEW n \in 0..MaxHeld, Pre!Trade(n) PROVE OrdersInv' /\ RevokedKept
  BY <1>2 DEF Pre!Trade, OrdersInv, OrdersTyped
<1>3. CASE Pre!Alert
  BY <1>3 DEF Pre!Alert, Pre!preorders_for_token, OrdersInv, OrdersTyped
<1>4. CASE Pre!Crash
  <2>1. /\ UNCHANGED <<order, filled, resigned, revoked>> /\ ofaults' = ofaults + 1
        /\ fire' \subseteq fire /\ signing' \subseteq signing
    BY <1>4 DEF Pre!Crash
  <2>2. PICK k \in Keepers : keeper' = [keeper EXCEPT ![k] = Pre!NoBatch]
    BY <1>4 DEF Pre!Crash
  <2>3. Pre!NoBatch \in Batch /\ Pre!NoBatch.id = 0 /\ Pre!NoBatch.step = "rest"
    BY DEF Pre!NoBatch
  <2>4. /\ keeper' \in [Keepers -> Batch] /\ keeper'[k].id = 0 /\ keeper'[k].step = "rest"
        /\ \A j \in Keepers : j # k => keeper'[j] = keeper[j]
    BY <1>0, <2>2, <2>3
  <2> QED
    BY <1>0, <2>1, <2>4 DEF OrdersInv, OrdersTyped, OrderRow
<1> QED
  BY <1>1, <1>2, <1>3, <1>4

LEMMA OrdersStart == ASSUME Pre!Init PROVE OrdersInv
<1> USE DEF Pre!Init
<1>1. 0 \notin Ids
  BY OrderNumbers
<1>2. Pre!NoOrder \in OrderRow /\ Pre!NoOrder.status = "none"
  BY DEF Pre!NoOrder, OrderRow, Pre!Statuses
<1>3. /\ Pre!NoBatch \in [todo : SUBSET Ids, id : Ids \cup {0}, step : {"rest", "listed", "sending"}]
      /\ Pre!NoBatch.id = 0 /\ Pre!NoBatch.step = "rest"
  BY DEF Pre!NoBatch
<1>4. OrdersTyped
  BY <1>2, <1>3 DEF OrdersTyped, OrderRow
<1>5. SendersHold /\ OneHolder /\ RevokedIsIdle
  BY <1>1, <1>3 DEF SendersHold, OneHolder, RevokedIsIdle
<1>6. Pre!SubmittingIsHeld
  BY <1>2 DEF Pre!SubmittingIsHeld
<1> QED
  BY <1>4, <1>5, <1>6 DEF OrdersInv

LEMMA OrdersStep == ASSUME OrdersInv, [Pre!Next]_(Pre!poVars) PROVE OrdersInv' /\ RevokedKept
<1>1. CASE UNCHANGED Pre!poVars
  <2>1. UNCHANGED <<order, qty, keeper, fire, signing, filled, ofaults, resigned, revoked>>
    BY <1>1 DEF Pre!poVars
  <2> QED
    BY <2>1 DEF OrdersInv, OrdersTyped, SendersHold, OneHolder, RevokedIsIdle, RevokedKept,
                Pre!SubmittingIsHeld, Pre!InFlight, Pre!Held
<1>2. CASE Pre!Next
  BY <1>2, OrderNumbers, OrderOfUser, OrderOfKeeper, OrderOfLoop DEF Pre!Next
<1> QED
  BY <1>1, <1>2

OrdersPart == work_part = "preorders" => OrdersInv

LEMMA OrdersPartKept ==
    ASSUME OrdersPart, [WorkNext]_workVars
    PROVE  OrdersPart' /\ [RevokedKept]_(Pre!poVars)
<1>1. CASE PreorderStep
  BY <1>1, OrdersStep DEF PreorderStep, OrdersPart
<1>2. CASE work_part' = work_part /\ UNCHANGED orderVars
  <2>1. UNCHANGED Pre!poVars
    BY <1>2 DEF orderVars, Pre!poVars
  <2>2. CASE work_part = "preorders"
    BY <1>2, <2>1, <2>2, OrdersStep DEF OrdersPart
  <2> QED
    BY <1>2, <2>1, <2>2 DEF OrdersPart
<1>3. CASE UNCHANGED workVars
  BY <1>3, <1>2 DEF workVars
<1>4. CASE WorkNext /\ ~PreorderStep
  BY <1>4, <1>2 DEF WorkNext, CopyStep, FeedStep, RuleStep, IndexStep, PnlStep, ScoreStep, BackfillStep,
     SenderStep, ReportStep, IngestStep
<1> QED
  BY <1>1, <1>3, <1>4

(* Signed preorders (preorders.py, keeper.py, sign_server.py): no two keepers submit one    *)
(* signature, an order in "submitting" is held unless a process stopped, and a            *)
(* cancellation nobody's work overlapped is final.                                      *)
THEOREM PreordersKeepPromises == WorkSpec => PreordersFaithful
<1>1. WorkInit => OrdersPart
  BY OrdersStart DEF WorkInit, OrdersPart
<1>2. OrdersPart /\ [WorkNext]_workVars => OrdersPart' /\ [RevokedKept]_(Pre!poVars)
  BY OrdersPartKept
<1>3. OrdersPart => (work_part = "preorders" => Pre!OneSubmitter /\ Pre!SubmittingIsHeld)
  BY OneHolderIsOneSubmitter DEF OrdersPart, OrdersInv
<1>4. [RevokedKept]_(Pre!poVars)
      => [\A i \in revoked : filled'[i] = filled[i] /\ order'[i].status = "cancelled"]_(Pre!poVars)
  BY DEF RevokedKept
<1> QED
  BY <1>1, <1>2, <1>3, <1>4, PTL DEF WorkSpec, PreordersFaithful, Pre!CancelledStaysOut

-----------------------------------------------------------------------------
(* The copy engine: what its records are.                                                  *)
FollowRow == [on : BOOLEAN, enabled : BOOLEAN, last : Nat, flat : Nat]
PassRow == [step : {"rest", "next", "trading"}, rows : [Leaders -> FollowRow], todo : SUBSET Leaders,
            filters : Settings \cup {0}, limit : Nat, open : Nat, leader : Leaders \cup {0}, last : Nat,
            left : SUBSET Copy!Trades, advanced : Nat, manual : BOOLEAN]
CopiesTyped ==
    /\ followed \in [Leaders -> FollowRow] /\ filters \in Settings
    /\ held \in [Tokens -> Nat] /\ clock \in Nat /\ cfaults \in Nat /\ again \in BOOLEAN
    /\ copied \in [Copy!TradeIds -> Nat] /\ joined \in [Leaders -> Nat]
    /\ pass \in PassRow /\ pass.left \subseteq trades
    /\ pass.step = "trading" => pass.leader \in Leaders
    /\ pass.step # "rest" => pass.filters \in Settings

(* Trades are numbered as they are indexed, and only indexed trades are decided.             *)
Numbered ==
    /\ trades \subseteq Copy!Trades /\ IsFiniteSet(trades) /\ decided \subseteq {t.n : t \in trades}
    /\ \A t \in trades : t.n <= Cardinality(trades)
    /\ \A t, u \in trades : t.n = u.n => t = u

JoinedPast == \A l \in Leaders : joined[l] <= clock

(* A cursor at block b tells of every trade it has passed, and stands where its leader was  *)
(* followed or at a trade that was decided, so that a trade indexed below it is late.       *)
Sharing(t, T, D) == \E u \in T : u.leader = t.leader /\ u.block = t.block /\ u.n \in D
PassedBy(l, b, T, D, j) ==
    /\ b <= j \/ \E u \in T : u.leader = l /\ u.block = b /\ u.n \in D
    /\ \A t \in T : (t.leader = l /\ t.block <= b /\ t.block > j) => t.late \/ Sharing(t, T, D)
Passed(l, b) == PassedBy(l, b, trades, decided, joined[l])
CursorsTell ==
    /\ \A l \in Leaders : followed[l].on => Passed(l, followed[l].last)
    /\ \A l \in pass.todo : Passed(l, pass.rows[l].last)
    /\ pass.step = "trading" => Passed(pass.leader, pass.advanced)

(* What a pass has still to decide is all that its leader did from the block it reached up  *)
(* to the last trade it read, but for what was indexed late.                            *)
LeftComplete ==
    pass.step = "trading" =>
        /\ pass.last <= pass.advanced /\ pass.leader \notin pass.todo
        /\ \A t \in pass.left : t.leader = pass.leader /\ t.block > pass.last
        /\ \A t \in pass.left, u \in trades :
              (u.leader = pass.leader /\ pass.advanced < u.block /\ u.block < t.block)
                  => u \in pass.left \/ u.late

(* The leaders of a pass were followed when it started.                                 *)
ReadFollowed ==
    /\ \A l \in pass.todo : pass.rows[l].on
    /\ pass.step = "trading" => pass.rows[pass.leader].on

(* No cursor is behind the block from which its leader is followed.                         *)
JoinedBehind ==
    ~again => /\ \A l \in Leaders : followed[l].on => joined[l] <= followed[l].last
              /\ \A l \in pass.todo : joined[l] <= pass.rows[l].last
              /\ pass.step = "trading" => joined[pass.leader] <= pass.last

(* Without faults, what was decided is behind the cursor, and the pass has the cursor that   *)
(* is stored.                                                                         *)
DecidedBehind ==
    cfaults = 0 /\ ~again =>
        /\ \A n \in Copy!TradeIds : copied[n] <= 1 /\ (copied[n] > 0 => n \in decided)
        /\ \A t \in pass.left : t.n \notin decided
        /\ \A u \in trades : u.n \in decided =>
              /\ u.leader \in pass.todo => u.block <= pass.rows[u.leader].last
              /\ IF pass.step = "trading" /\ pass.leader = u.leader THEN u.block <= pass.advanced
                 ELSE followed[u.leader].on => u.block <= followed[u.leader].last
        /\ \A l \in pass.todo : followed[l].on => followed[l].last = pass.rows[l].last
        /\ pass.step = "trading" /\ followed[pass.leader].on => followed[pass.leader].last = pass.last

OpenCounted == pass.step # "rest" /\ ~pass.manual => Copy!list_positions <= pass.open

CopiesInv ==
    /\ CopiesTyped /\ Numbered /\ JoinedPast /\ CursorsTell /\ LeftComplete /\ ReadFollowed
    /\ JoinedBehind /\ DecidedBehind /\ OpenCounted

(* Every set of numbers that is not empty has a smallest one.                            *)
LEMMA Smallest ==
    ASSUME NEW S \in SUBSET Nat, S # {} PROVE \E b \in S : \A a \in S : b <= a
<1> DEFINE R == {ab \in Nat \X Nat : ab[1] < ab[2]}
<1>1. IsWellFoundedOn(R, Nat)
  BY NatLessThanWellFounded DEF OpToRel
<1> HIDE DEF R
<1>2. PICK b \in S : \A a \in S : ~ (<<a, b>> \in R)
  BY <1>1, WFMin
<1>3. ASSUME NEW a \in S PROVE b <= a
  <2>1. a \in Nat /\ b \in Nat /\ ~(a < b)
    BY <1>2 DEF R
  <2> QED
    BY <2>1
<1> QED
  BY <1>3

(* The trade a pass decides next is the oldest of those it has left.                         *)
LEMMA OldestIsFirst ==
    ASSUME Numbered, NEW S \in SUBSET trades, S # {}
    PROVE  Copy!Oldest(S) \in S /\ \A u \in S \ {Copy!Oldest(S)} : Copy!Before(Copy!Oldest(S), u)
<1>1. \A t \in S : t.block \in Nat /\ t.n \in Nat
  BY CopyNumbers DEF Numbered, Copy!Trades, Copy!TradeIds
<1>2. PICK b \in {t.block : t \in S} : \A a \in {t.block : t \in S} : b <= a
  BY <1>1, Smallest
<1> DEFINE First == {t \in S : t.block = b}
<1>3. PICK n \in {t.n : t \in First} : \A a \in {t.n : t \in First} : n <= a
  <2>1. {t.n : t \in First} \in SUBSET Nat /\ {t.n : t \in First} # {}
    BY <1>1, <1>2
  <2> QED
    BY <2>1, Smallest
<1>4. PICK t \in First : t.n = n
  BY <1>3
<1>5. ASSUME NEW u \in S \ {t} PROVE Copy!Before(t, u)
  <2>1. t.block <= u.block
    BY <1>2, <1>4, <1>5
  <2>2. CASE u.block = t.block
    <3>1. t.n <= u.n /\ t.n # u.n
      BY <1>3, <1>4, <1>5, <2>2 DEF Numbered
    <3> QED
      BY <1>1, <2>2, <3>1, <1>4 DEF Copy!Before
  <2> QED
    BY <1>1, <1>4, <2>1, <2>2 DEF Copy!Before
<1>6. \E v \in S : \A u \in S \ {v} : Copy!Before(v, u)
  BY <1>4, <1>5
<1> QED
  BY <1>6 DEF Copy!Oldest

(* What a cursor tells of the trades behind it stays told while trades are indexed and        *)
(* decided, and while its leader is followed anew, from a later block.                     *)
LEMMA PassedGrows ==
    ASSUME NEW l, NEW b \in Nat, NEW T \in SUBSET Copy!Trades, NEW D, NEW j \in Nat,
           NEW T2 \in SUBSET Copy!Trades, NEW D2, NEW j2 \in Nat,
           PassedBy(l, b, T, D, j), j <= j2, T \subseteq T2, D \subseteq D2,
           \A t \in T2 \ T : (\E u \in T : u.leader = t.leader /\ u.block > t.block) => t.late
    PROVE  PassedBy(l, b, T2, D2, j2)
<1>0. \A t \in T2 : t.block \in Nat
  BY CopyNumbers DEF Copy!Trades
<1>1. b <= j2 \/ \E u \in T2 : u.leader = l /\ u.block = b /\ u.n \in D2
  BY DEF PassedBy
<1>2. ASSUME NEW t \in T2, t.leader = l, t.block <= b, t.block > j2
      PROVE  t.late \/ Sharing(t, T2, D2)
  <2>1. CASE t \in T
    BY <1>0, <1>2, <2>1 DEF PassedBy, Sharing
  <2>2. CASE t \notin T
    <3>1. PICK u \in T : u.leader = l /\ u.block = b /\ u.n \in D
      BY <1>0, <1>2 DEF PassedBy
    <3>2. CASE t.block = b
      BY <1>2, <3>1, <3>2 DEF Sharing
    <3>3. CASE t.block < b
      BY <1>2, <2>2, <3>1, <3>3
    <3> QED
      BY <1>0, <1>2, <3>2, <3>3
  <2> QED
    BY <2>1, <2>2
<1> QED
  BY <1>1, <1>2 DEF PassedBy

(* A cursor at the block from which its leader is followed has passed nothing.               *)
LEMMA PassedAtJoin ==
    ASSUME NEW l, NEW b \in Nat, NEW T \in SUBSET Copy!Trades, NEW D, NEW j \in Nat, b <= j
    PROVE  PassedBy(l, b, T, D, j)
<1>0. \A t \in T : t.block \in Nat
  BY CopyNumbers DEF Copy!Trades
<1> QED
  BY <1>0 DEF PassedBy

LEMMA CopyInit == ASSUME Copy!Init PROVE CopiesInv
<1> USE DEF Copy!Init
<1>1. /\ trades = {} /\ IsFiniteSet(trades) /\ Cardinality(trades) = 0 /\ pass = Copy!NoPass
      /\ Copy!NoPass.left = {} /\ Copy!NoPass.todo = {} /\ Copy!NoPass.step = "rest" /\ decided = {}
      /\ again = FALSE
  BY FS_EmptySet DEF Copy!NoPass
<1>2. /\ Copy!NotFollowed \in FollowRow /\ Copy!NotFollowed.last = 0 /\ Copy!NoPass \in PassRow
      /\ \A l \in Leaders : followed[l] \in FollowRow /\ followed[l].last = 0 /\ joined[l] = 0
  <2>1. Copy!NotFollowed \in FollowRow /\ Copy!NotFollowed.last = 0
    BY DEF Copy!NotFollowed, FollowRow
  <2>2. [Copy!NotFollowed EXCEPT !.on = TRUE, !.enabled = TRUE] \in FollowRow
        /\ [Copy!NotFollowed EXCEPT !.on = TRUE, !.enabled = TRUE].last = 0
    BY DEF Copy!NotFollowed, FollowRow
  <2>3. Copy!NoPass \in PassRow
    BY <2>1 DEF Copy!NoPass, PassRow
  <2> QED
    BY <2>1, <2>2, <2>3
<1>3. followed \in [Leaders -> FollowRow]
  BY <1>2
<1>4. CopiesTyped
  BY <1>1, <1>2, <1>3, CopyNumbers DEF CopiesTyped, Copy!TradeIds
<1>5. Numbered /\ JoinedPast /\ LeftComplete /\ ReadFollowed /\ OpenCounted
  BY <1>1, <1>2 DEF Numbered, JoinedPast, LeftComplete, ReadFollowed, OpenCounted
<1>6. CursorsTell
  BY <1>1, <1>2 DEF CursorsTell, Passed, PassedBy
<1>7. JoinedBehind
  BY <1>1, <1>2 DEF JoinedBehind
<1>8. DecidedBehind
  BY <1>1, <1>2 DEF DecidedBehind
<1> QED
  BY <1>4, <1>5, <1>6, <1>7, <1>8 DEF CopiesInv

(* A step that leaves the engine's own records alone.                                       *)
CopyQuiet == <<followed, held, trades, clock, pass, cfaults, copied, decided, joined, again>>

LEMMA CopyStutter ==
    ASSUME CopiesInv, UNCHANGED CopyQuiet, filters' \in Settings PROVE CopiesInv'
<1> USE DEF CopyQuiet
<1>1. CopiesTyped' /\ Numbered' /\ JoinedPast' /\ LeftComplete' /\ ReadFollowed' /\ OpenCounted'
  BY DEF CopiesInv, CopiesTyped, Numbered, JoinedPast, LeftComplete, ReadFollowed, OpenCounted,
         Copy!list_positions
<1>2. CursorsTell' /\ JoinedBehind' /\ DecidedBehind'
  BY DEF CopiesInv, CursorsTell, Passed, JoinedBehind, DecidedBehind
<1> QED
  BY <1>1, <1>2 DEF CopiesInv

(* The indexer and the loop's cursor.                                                       *)
LEMMA CopyIndexed ==
    ASSUME CopiesInv, NEW l \in Leaders, NEW b \in 1..MaxBlock, NEW side \in Copy!Sides, NEW tok \in Tokens,
           NEW v \in Values, Copy!IndexTrade(l, b, side, tok, v)
    PROVE  CopiesInv'
<1> DEFINE n == Cardinality(trades) + 1
           t == [n |-> n, leader |-> l, block |-> b, side |-> side, token |-> tok, value |-> v,
                 late |-> \E u \in trades : u.leader = l /\ u.block > b]
<1>1. /\ n \in Copy!TradeIds /\ trades' = trades \cup {t}
      /\ UNCHANGED <<followed, filters, held, clock, stopped, pass, edits, cfaults, copied, decided,
                     joined, again>>
  BY DEF Copy!IndexTrade, Copy!Cardinality, Cardinality
<1>2. t \in Copy!Trades /\ t.n = n /\ t.leader = l /\ t.block = b
      /\ (t.late <=> \E u \in trades : u.leader = l /\ u.block > b)
  BY <1>1 DEF Copy!Trades
<1> HIDE DEF t
<1>3. Cardinality(trades) \in Nat /\ IsFiniteSet(trades)
  BY FS_CardinalityType DEF CopiesInv, Numbered
<1>4. t \notin trades /\ \A u \in trades : u.n < n /\ u.n \in Nat
  BY <1>2, <1>3 DEF CopiesInv, Numbered, Copy!Trades, Copy!TradeIds
<1>5. IsFiniteSet(trades') /\ Cardinality(trades') = n
  BY <1>1, <1>3, <1>4, FS_AddElement
<1>6. CopiesTyped'
  BY <1>1 DEF CopiesInv, CopiesTyped
<1>7. Numbered'
  <2>1. trades' \subseteq Copy!Trades /\ decided' \subseteq {u.n : u \in trades'}
    BY <1>1, <1>2 DEF CopiesInv, Numbered
  <2>2. \A u \in trades' : u.n <= n
    BY <1>1, <1>2, <1>3, <1>4
  <2>3. \A u, w \in trades' : u.n = w.n => u = w
    BY <1>1, <1>2, <1>3, <1>4 DEF CopiesInv, Numbered
  <2> QED
    BY <1>5, <2>1, <2>2, <2>3 DEF Numbered
<1>8. trades \in SUBSET Copy!Trades /\ trades' \in SUBSET Copy!Trades
  BY <1>1, <1>2 DEF CopiesInv, Numbered
<1>9. ASSUME NEW k \in Leaders, NEW c \in Nat, Passed(k, c)
      PROVE  PassedBy(k, c, trades', decided, joined[k])
  <2>1. joined[k] \in Nat
    BY DEF CopiesInv, CopiesTyped
  <2>2. \A w \in trades' \ trades : (\E u \in trades : u.leader = w.leader /\ u.block > w.block) => w.late
    BY <1>1, <1>2
  <2> QED
    BY <1>1, <1>8, <1>9, <2>1, <2>2, PassedGrows DEF Passed
<1>10. CursorsTell'
  <2>1. /\ \A k \in Leaders : followed[k].last \in Nat /\ pass.rows[k].last \in Nat
        /\ pass.advanced \in Nat /\ pass.todo \subseteq Leaders
        /\ pass.step = "trading" => pass.leader \in Leaders
    BY DEF CopiesInv, CopiesTyped, PassRow, FollowRow
  <2> QED
    BY <1>1, <1>9, <2>1 DEF CopiesInv, CursorsTell, Passed
<1>11. LeftComplete'
  BY <1>1, <1>2 DEF CopiesInv, CopiesTyped, LeftComplete
<1>12. JoinedPast' /\ ReadFollowed' /\ JoinedBehind' /\ OpenCounted'
  BY <1>1 DEF CopiesInv, JoinedPast, ReadFollowed, JoinedBehind, OpenCounted, Copy!list_positions
<1>13. t.n \notin decided
  BY <1>2, <1>4 DEF CopiesInv, Numbered
<1>14. DecidedBehind'
  BY <1>1, <1>13 DEF CopiesInv, DecidedBehind
<1> QED
  BY <1>6, <1>7, <1>10, <1>11, <1>12, <1>14 DEF CopiesInv

LEMMA CopyClock == ASSUME CopiesInv, Copy!AdvanceClock PROVE CopiesInv'
<1>1. /\ clock' \in Nat /\ clock' > clock
      /\ UNCHANGED <<followed, filters, held, trades, stopped, pass, edits, cfaults, copied, decided,
                     joined, again>>
  BY CopyNumbers DEF Copy!AdvanceClock, CopiesInv, Numbered, Copy!Trades
<1>2. CopiesTyped' /\ Numbered' /\ LeftComplete' /\ ReadFollowed' /\ OpenCounted'
  BY <1>1 DEF CopiesInv, CopiesTyped, Numbered, LeftComplete, ReadFollowed, OpenCounted, Copy!list_positions
<1>3. JoinedPast'
  BY <1>1 DEF CopiesInv, CopiesTyped, JoinedPast
<1>4. CursorsTell' /\ JoinedBehind' /\ DecidedBehind'
  BY <1>1 DEF CopiesInv, CursorsTell, Passed, JoinedBehind, DecidedBehind
<1> QED
  BY <1>2, <1>3, <1>4 DEF CopiesInv

(* The user's edits of a followed wallet: one that keeps the cursor, or ends the following,   *)
(* and one that starts it.                                                              *)
LEMMA CopyEdited ==
    ASSUME CopiesInv, NEW l \in Leaders, NEW r \in FollowRow, followed' = [followed EXCEPT ![l] = r],
           r.on => followed[l].on /\ r.last = followed[l].last,
           UNCHANGED <<filters, held, trades, clock, pass, cfaults, copied, decided, joined, again>>
    PROVE  CopiesInv'
<1>1. /\ followed' \in [Leaders -> FollowRow] /\ followed'[l] = r
      /\ \A k \in Leaders : k # l => followed'[k] = followed[k]
  BY DEF CopiesInv, CopiesTyped
<1>2. \A k \in Leaders : followed'[k].on => followed[k].on /\ followed'[k].last = followed[k].last
  BY <1>1
<1>3. CopiesTyped' /\ Numbered' /\ JoinedPast' /\ LeftComplete' /\ ReadFollowed' /\ OpenCounted'
  BY <1>1 DEF CopiesInv, CopiesTyped, Numbered, JoinedPast, LeftComplete, ReadFollowed, OpenCounted,
              Copy!list_positions
<1>4. CursorsTell' /\ JoinedBehind'
  BY <1>2 DEF CopiesInv, CursorsTell, Passed, JoinedBehind
<1>5. pass.todo \subseteq Leaders /\ (pass.step = "trading" => pass.leader \in Leaders)
      /\ \A u \in trades : u.leader \in Leaders
  BY DEF CopiesInv, CopiesTyped, PassRow, Numbered, Copy!Trades
<1>6. DecidedBehind'
  BY <1>2, <1>5 DEF CopiesInv, DecidedBehind
<1> QED
  BY <1>3, <1>4, <1>6 DEF CopiesInv

LEMMA CopyJoined ==
    ASSUME CopiesInv, NEW l \in Leaders, NEW r \in FollowRow, followed' = [followed EXCEPT ![l] = r],
           ~followed[l].on, r.on, r.last = clock, joined' = [joined EXCEPT ![l] = clock],
           again' = (again \/ pass.rows[l].on \/ \E t \in trades : t.leader = l /\ t.n \in decided),
           UNCHANGED <<filters, held, trades, clock, pass, cfaults, copied, decided>>
    PROVE  CopiesInv'
<1>1. /\ followed' \in [Leaders -> FollowRow] /\ followed'[l] = r /\ joined'[l] = clock
      /\ \A k \in Leaders : k # l => followed'[k] = followed[k] /\ joined'[k] = joined[k]
      /\ clock \in Nat /\ joined' \in [Leaders -> Nat] /\ joined \in [Leaders -> Nat]
      /\ again \in BOOLEAN
  BY DEF CopiesInv, CopiesTyped
<1>2. /\ pass.todo \subseteq Leaders /\ (pass.step = "trading" => pass.leader \in Leaders)
      /\ pass.advanced \in Nat
      /\ \A u \in trades : u.leader \in Leaders
      /\ \A k \in Leaders : pass.rows[k].last \in Nat /\ followed[k].last \in Nat /\ pass.rows[k].on \in BOOLEAN
  BY DEF CopiesInv, CopiesTyped, PassRow, Numbered, Copy!Trades, FollowRow
<1>3. CopiesTyped' /\ Numbered' /\ LeftComplete' /\ ReadFollowed' /\ OpenCounted'
  <2>1. again' \in BOOLEAN
    BY <1>1, <1>2
  <2> QED
    BY <1>1, <2>1 DEF CopiesInv, CopiesTyped, Numbered, LeftComplete, ReadFollowed, OpenCounted,
                Copy!list_positions
<1>4. JoinedPast' /\ \A k \in Leaders : joined[k] <= joined'[k]
  BY <1>1 DEF CopiesInv, JoinedPast
<1>5. ASSUME NEW k \in Leaders, NEW c \in Nat, Passed(k, c)
      PROVE  PassedBy(k, c, trades, decided, joined'[k])
  <2>1. trades \in SUBSET Copy!Trades
    BY DEF CopiesInv, Numbered
  <2> QED
    BY <1>1, <1>4, <1>5, <2>1, PassedGrows DEF Passed
<1>6. CursorsTell'
  <2>1. PassedBy(l, r.last, trades, decided, joined'[l])
    BY <1>1, PassedAtJoin DEF CopiesInv, Numbered
  <2> QED
    BY <1>1, <1>2, <1>5, <2>1 DEF CopiesInv, CursorsTell, Passed
<1>7. ~again' => /\ ~again /\ ~pass.rows[l].on /\ l \notin pass.todo
                 /\ ~(pass.step = "trading" /\ pass.leader = l)
                 /\ \A t \in trades : t.leader = l => t.n \notin decided
  BY <1>1, <1>2 DEF CopiesInv, ReadFollowed
<1>8. JoinedBehind'
  BY <1>1, <1>2, <1>7 DEF CopiesInv, JoinedBehind
<1>9. DecidedBehind'
  BY <1>1, <1>2, <1>7 DEF CopiesInv, DecidedBehind
<1> QED
  BY <1>3, <1>4, <1>6, <1>8, <1>9 DEF CopiesInv

LEMMA CopyUser == ASSUME CopiesInv, Copy!User PROVE CopiesInv'
<1>0. followed \in [Leaders -> FollowRow] /\ clock \in Nat
  BY DEF CopiesInv, CopiesTyped
<1>1. ASSUME NEW l \in Leaders, NEW f \in 0..1, Copy!add_copy_wallet(l, f) PROVE CopiesInv'
  <2> DEFINE last == IF followed[l].on THEN followed[l].last ELSE clock
  <2>1. PICK r \in FollowRow : followed' = [followed EXCEPT ![l] = r] /\ r.on /\ r.last = last
    <3> DEFINE r == [on |-> TRUE, enabled |-> TRUE, flat |-> f, last |-> last]
    <3>1. r \in FollowRow /\ r.on /\ r.last = last
      BY <1>0 DEF FollowRow
    <3>2. followed' = [followed EXCEPT ![l] = r]
      BY <1>1 DEF Copy!add_copy_wallet
    <3> QED
      BY <3>1, <3>2
  <2>2. UNCHANGED <<filters, held, trades, clock, pass, cfaults, copied, decided>>
    BY <1>1 DEF Copy!add_copy_wallet
  <2>3. CASE followed[l].on
    <3>1. joined' = joined /\ again' = again
      BY <1>1, <2>3 DEF Copy!add_copy_wallet, CopiesInv, CopiesTyped
    <3> QED
      BY <2>1, <2>2, <2>3, <3>1, CopyEdited
  <2>4. CASE ~followed[l].on
    <3>1. joined' = [joined EXCEPT ![l] = clock]
          /\ again' = (again \/ pass.rows[l].on \/ \E t \in trades : t.leader = l /\ t.n \in decided)
      BY <1>1, <2>4 DEF Copy!add_copy_wallet
    <3> QED
      BY <2>1, <2>2, <2>4, <3>1, CopyJoined
  <2> QED
    BY <2>3, <2>4
<1>2. ASSUME NEW l \in Leaders, Copy!remove_copy_wallet(l) PROVE CopiesInv'
  <2>1. Copy!NotFollowed \in FollowRow /\ ~Copy!NotFollowed.on
    BY DEF Copy!NotFollowed, FollowRow
  <2> QED
    BY <1>2, <2>1, CopyEdited DEF Copy!remove_copy_wallet
<1>3. ASSUME NEW l \in Leaders, Copy!set_copy_wallet_enabled(l) PROVE CopiesInv'
  <2>1. PICK r \in FollowRow : /\ followed' = [followed EXCEPT ![l] = r]
                               /\ r.on = followed[l].on /\ r.last = followed[l].last
    <3> DEFINE r == [followed[l] EXCEPT !.enabled = ~@]
    <3>1. r \in FollowRow /\ r.on = followed[l].on /\ r.last = followed[l].last
      BY <1>0 DEF FollowRow
    <3>2. followed' = [followed EXCEPT ![l] = r]
      BY <1>0, <1>3 DEF Copy!set_copy_wallet_enabled, FollowRow
    <3> QED
      BY <3>1, <3>2
  <2> QED
    BY <1>3, <2>1, CopyEdited DEF Copy!set_copy_wallet_enabled
<1>4. ASSUME NEW s \in Settings, Copy!set_copy_settings(s) PROVE CopiesInv'
  BY <1>4, CopyStutter DEF Copy!set_copy_settings, CopyQuiet
<1>5. CASE Copy!StopOrResume
  BY <1>5, CopyStutter DEF Copy!StopOrResume, CopyQuiet, CopiesInv, CopiesTyped
<1>6. ASSUME NEW tok \in Tokens, NEW q \in 0..1, Copy!ManualTrade(tok, q) PROVE CopiesInv'
  <2>1. /\ UNCHANGED <<followed, filters, trades, clock, cfaults, copied, decided, joined, again>>
        /\ held' = [held EXCEPT ![tok] = q]
    BY <1>6 DEF Copy!ManualTrade
  <2>2. PICK p \in PassRow : /\ pass' = p /\ p.manual = (pass.step # "rest") /\ p.step = pass.step
                             /\ p.rows = pass.rows /\ p.todo = pass.todo /\ p.filters = pass.filters
                             /\ p.leader = pass.leader /\ p.last = pass.last /\ p.left = pass.left
                             /\ p.advanced = pass.advanced
    <3> DEFINE p == [pass EXCEPT !.manual = pass.step # "rest"]
    <3>1. /\ p \in PassRow /\ p.manual = (pass.step # "rest") /\ p.step = pass.step
          /\ p.rows = pass.rows /\ p.todo = pass.todo /\ p.filters = pass.filters
          /\ p.leader = pass.leader /\ p.last = pass.last /\ p.left = pass.left
          /\ p.advanced = pass.advanced
      BY DEF CopiesInv, CopiesTyped, PassRow
    <3> QED
      BY <1>6, <3>1 DEF Copy!ManualTrade
  <2>3. CopiesTyped'
    <3>1. held' \in [Tokens -> Nat]
      BY <2>1 DEF CopiesInv, CopiesTyped
    <3> QED
      BY <2>1, <2>2, <3>1 DEF CopiesInv, CopiesTyped
  <2>5. Numbered' /\ JoinedPast' /\ LeftComplete' /\ ReadFollowed' /\ OpenCounted'
    BY <2>1, <2>2 DEF CopiesInv, Numbered, JoinedPast, LeftComplete, ReadFollowed, OpenCounted
  <2>4. CursorsTell' /\ JoinedBehind' /\ DecidedBehind'
    BY <2>1, <2>2 DEF CopiesInv, CursorsTell, Passed, JoinedBehind, DecidedBehind
  <2> QED
    BY <2>3, <2>4, <2>5 DEF CopiesInv
<1> QED
  BY <1>1, <1>2, <1>3, <1>4, <1>5, <1>6 DEF Copy!User

LEMMA PositionsCounted ==
    ASSUME NEW h, NEW g, \A tok \in Tokens : g[tok] > 0 => h[tok] > 0
    PROVE  /\ Cardinality({tok \in Tokens : g[tok] > 0}) <= Cardinality({tok \in Tokens : h[tok] > 0})
           /\ Cardinality({tok \in Tokens : g[tok] > 0}) \in Nat
<1> DEFINE H == {tok \in Tokens : h[tok] > 0}
           G == {tok \in Tokens : g[tok] > 0}
<1>1. IsFiniteSet(H)
  BY CopyNumbers, FS_Subset
<1>2. G \in SUBSET H
  OBVIOUS
<1> HIDE DEF H, G
<1>3. IsFiniteSet(G) /\ Cardinality(G) <= Cardinality(H)
  BY <1>1, <1>2, FS_Subset
<1>4. Cardinality(G) \in Nat
  BY <1>3, FS_CardinalityType
<1> QED
  BY <1>3, <1>4 DEF G, H

(* The steps of a pass that decide no trade.                                               *)
LEMMA CopyStarts ==
    ASSUME CopiesInv, NEW limit \in Limits, Copy!StartPass(limit) PROVE CopiesInv'
<1> DEFINE p == [Copy!NoPass EXCEPT !.step = "next", !.rows = followed, !.filters = filters, !.limit = limit,
                               !.todo = {l \in Leaders : followed[l].on /\ followed[l].enabled},
                               !.open = Copy!list_positions]
<1>1. /\ UNCHANGED <<followed, filters, held, trades, clock, cfaults, copied, decided, joined, again>>
      /\ pass' = p /\ pass.step = "rest"
  BY DEF Copy!StartPass
<1>2. Copy!list_positions \in Nat
  BY PositionsCounted DEF Copy!list_positions, Copy!Cardinality, Cardinality
<1>3. /\ p \in PassRow /\ p.step = "next" /\ p.rows = followed /\ p.left = {} /\ p.open = Copy!list_positions
      /\ p.filters = filters /\ p.todo = {l \in Leaders : followed[l].on /\ followed[l].enabled}
  BY <1>2, CopyNumbers DEF Copy!NoPass, PassRow, CopiesInv, CopiesTyped
<1> HIDE DEF p
<1>4. CopiesTyped' /\ Numbered' /\ JoinedPast' /\ LeftComplete' /\ ReadFollowed'
  BY <1>1, <1>3 DEF CopiesInv, CopiesTyped, Numbered, JoinedPast, LeftComplete, ReadFollowed
<1>5. OpenCounted'
  BY <1>1, <1>2, <1>3 DEF OpenCounted, Copy!list_positions
<1>6. CursorsTell' /\ JoinedBehind'
  BY <1>1, <1>3 DEF CopiesInv, CursorsTell, Passed, JoinedBehind
<1>7. DecidedBehind'
  BY <1>1, <1>3 DEF CopiesInv, DecidedBehind
<1> QED
  BY <1>4, <1>5, <1>6, <1>7 DEF CopiesInv

(* A pass that leaves the leader it would read, or stops between two leaders.                *)
LEMMA CopyDrops ==
    ASSUME CopiesInv, NEW p \in PassRow, pass' = p, p.step \in {"rest", "next"}, p.left = {},
           p.step = "next" => p.filters = pass.filters,
           p.step = "next" => pass.step = "next" /\ p.open = pass.open /\ p.manual = pass.manual,
           p.todo \subseteq pass.todo, p.todo # {} => p.rows = pass.rows,
           pass.step = "trading" => cfaults' # 0, cfaults' \in Nat, cfaults' >= cfaults,
           UNCHANGED <<followed, filters, held, trades, clock, copied, decided, joined, again>>
    PROVE  CopiesInv'
<1>1. CopiesTyped'
  BY DEF CopiesInv, CopiesTyped
<1>2. Numbered' /\ JoinedPast' /\ LeftComplete' /\ ReadFollowed' /\ OpenCounted'
  BY DEF CopiesInv, Numbered, JoinedPast, LeftComplete, ReadFollowed, OpenCounted, Copy!list_positions
<1>3. CursorsTell' /\ JoinedBehind'
  BY DEF CopiesInv, CursorsTell, Passed, JoinedBehind
<1>4. cfaults \in Nat /\ (cfaults' = 0 => cfaults = 0)
  BY DEF CopiesInv, CopiesTyped
<1>5. DecidedBehind'
  BY <1>4 DEF CopiesInv, DecidedBehind
<1> QED
  BY <1>1, <1>2, <1>3, <1>5 DEF CopiesInv

(* What is read of a leader is a beginning of its trades, oldest first.                       *)
LEMMA ReadFromTheOldest ==
    ASSUME Numbered, NEW l, NEW last, NEW t \in Copy!recent_wallet_legs(l, last), pass.limit \in Nat,
           NEW u \in Copy!Newer(l, last), u.block < t.block
    PROVE  u \in Copy!recent_wallet_legs(l, last)
<1> DEFINE N == Copy!Newer(l, last)
           PT == {w \in N : Copy!Before(w, t)}
           PU == {w \in N : Copy!Before(w, u)}
<1>1. N \subseteq trades /\ IsFiniteSet(PT) /\ \A w \in N : w.block \in Nat /\ w.n \in Nat
  <2>1. N \subseteq trades
    BY DEF Copy!Newer
  <2>2. IsFiniteSet(PT)
    BY <2>1, FS_Subset DEF Numbered
  <2> QED
    BY <2>1, <2>2, CopyNumbers DEF Numbered, Copy!Trades, Copy!TradeIds
<1>2. t \in N /\ Cardinality(PT) < pass.limit
  BY DEF Copy!recent_wallet_legs, Copy!Cardinality, Cardinality
<1>3. PU \in SUBSET PT
  BY <1>1, <1>2 DEF Copy!Before
<1> HIDE DEF N, PT, PU
<1>4. Cardinality(PU) <= Cardinality(PT)
  BY <1>1, <1>3, FS_Subset
<1>5. Cardinality(PT) \in Nat /\ Cardinality(PU) \in Nat
  BY <1>1, <1>3, FS_Subset, FS_CardinalityType
<1>6. Cardinality(PU) < pass.limit
  BY <1>2, <1>4, <1>5
<1> QED
  BY <1>6 DEF Copy!recent_wallet_legs, N, PU, Copy!Cardinality, Cardinality

LEMMA CopyFetches ==
    ASSUME CopiesInv, NEW l \in Leaders, Copy!Fetch(l) PROVE CopiesInv'
<1> DEFINE from == pass.rows[l].last
           last == Copy!FirstBlock(from)
<1>1. /\ pass.step = "next" /\ l \in pass.todo
      /\ UNCHANGED <<filters, held, trades, clock, cfaults, copied, decided, again>>
  BY DEF Copy!Fetch
<1>2. /\ pass \in PassRow /\ pass.rows[l] \in FollowRow /\ pass.limit \in Nat /\ pass.todo \subseteq Leaders
      /\ followed \in [Leaders -> FollowRow] /\ clock \in Nat /\ joined \in [Leaders -> Nat]
      /\ from \in Nat
  BY DEF CopiesInv, CopiesTyped, PassRow, FollowRow
<1>3. last \in Nat /\ (from > 0 => last = from) /\ (from = 0 => last = clock)
  BY <1>2 DEF Copy!FirstBlock
<1>4. /\ joined' \in [Leaders -> Nat] /\ joined'[l] = IF from = 0 THEN clock ELSE joined[l]
      /\ \A k \in Leaders : k # l => joined'[k] = joined[k]
  BY <1>2 DEF Copy!Fetch
<1>5. /\ followed' \in [Leaders -> FollowRow]
      /\ \A k \in Leaders : k # l => followed'[k] = followed[k]
      /\ followed'[l].on = followed[l].on
      /\ followed'[l].last = IF from = 0 /\ followed[l].on THEN last ELSE followed[l].last
  <2>1. CASE from = 0 /\ followed[l].on
    <3>1. PICK r \in FollowRow : followed' = [followed EXCEPT ![l] = r] /\ r.on = followed[l].on /\ r.last = last
      <4> DEFINE r == [followed[l] EXCEPT !.last = last]
      <4>1. r \in FollowRow /\ r.on = followed[l].on /\ r.last = last
        BY <1>2, <1>3 DEF FollowRow
      <4>2. followed' = [followed EXCEPT ![l] = r]
        BY <1>2, <2>1 DEF Copy!Fetch, FollowRow
      <4> QED
        BY <4>1, <4>2
    <3> QED
      BY <1>2, <2>1, <3>1
  <2>2. CASE ~(from = 0 /\ followed[l].on)
    BY <1>2, <2>2 DEF Copy!Fetch
  <2> QED
    BY <2>1, <2>2
<1>6. PICK p \in PassRow :
        /\ pass' = p /\ p.rows = pass.rows /\ p.todo = pass.todo \ {l} /\ p.filters = pass.filters
        /\ p.open = pass.open /\ p.manual = pass.manual
        /\ IF last = 0 THEN p.step = "next" /\ p.left = pass.left
           ELSE /\ p.step = "trading" /\ p.leader = l /\ p.last = last /\ p.advanced = last
                /\ p.left = Copy!recent_wallet_legs(l, last)
  <2>1. CASE last = 0
    <3> DEFINE p == [pass EXCEPT !.todo = @ \ {l}]
    <3>1. /\ p \in PassRow /\ p.rows = pass.rows /\ p.todo = pass.todo \ {l} /\ p.filters = pass.filters
          /\ p.open = pass.open /\ p.manual = pass.manual /\ p.step = "next" /\ p.left = pass.left
      BY <1>1, <1>2 DEF PassRow
    <3>2. pass' = p
      BY <2>1 DEF Copy!Fetch
    <3> QED
      BY <2>1, <3>1, <3>2
  <2>2. CASE last # 0
    <3> DEFINE p == [pass EXCEPT !.step = "trading", !.todo = @ \ {l}, !.leader = l, !.last = last,
                                 !.advanced = last, !.left = Copy!recent_wallet_legs(l, last)]
    <3>0. Copy!recent_wallet_legs(l, last) \subseteq Copy!Trades
      BY DEF Copy!recent_wallet_legs, Copy!Newer, CopiesInv, Numbered
    <3>1. /\ p \in PassRow /\ p.rows = pass.rows /\ p.todo = pass.todo \ {l} /\ p.filters = pass.filters
          /\ p.open = pass.open /\ p.manual = pass.manual
          /\ p.step = "trading" /\ p.leader = l /\ p.last = last /\ p.advanced = last
          /\ p.left = Copy!recent_wallet_legs(l, last)
      BY <1>1, <1>2, <1>3, <3>0 DEF PassRow
    <3>2. pass' = p
      BY <2>2 DEF Copy!Fetch
    <3> QED
      BY <2>2, <3>1, <3>2
  <2> QED
    BY <2>1, <2>2
<1> HIDE DEF last, from
<1>7. Copy!recent_wallet_legs(l, last) \subseteq Copy!Newer(l, last) /\ Copy!Newer(l, last) \subseteq trades
      /\ \A t \in Copy!Newer(l, last) : t.leader = l /\ t.block > last
  BY DEF Copy!recent_wallet_legs, Copy!Newer
<1>8. CopiesTyped'
  <2>1. p.left \subseteq trades
    BY <1>6, <1>7 DEF CopiesInv, CopiesTyped
  <2> QED
    BY <1>1, <1>4, <1>5, <1>6, <2>1 DEF CopiesInv, CopiesTyped
<1>9. Numbered' /\ ReadFollowed' /\ OpenCounted'
  BY <1>1, <1>6 DEF CopiesInv, Numbered, ReadFollowed, OpenCounted, Copy!list_positions
<1>10. JoinedPast' /\ \A k \in Leaders : joined[k] <= joined'[k]
  BY <1>1, <1>2, <1>4 DEF CopiesInv, JoinedPast
<1>11. ASSUME NEW k \in Leaders, NEW c \in Nat, Passed(k, c)
      PROVE  PassedBy(k, c, trades, decided, joined'[k])
  <2>1. trades \in SUBSET Copy!Trades
    BY DEF CopiesInv, Numbered
  <2> QED
    BY <1>2, <1>4, <1>10, <1>11, <2>1, PassedGrows DEF Passed
<1>12. PassedBy(l, last, trades, decided, joined'[l])
  <2>1. CASE from = 0
    BY <1>2, <1>3, <1>4, <2>1, PassedAtJoin DEF CopiesInv, Numbered
  <2>2. CASE from > 0
    BY <1>1, <1>2, <1>3, <1>11, <2>2 DEF CopiesInv, CursorsTell, from
  <2> QED
    BY <1>2, <2>1, <2>2
<1>13. CursorsTell'
  <2>1. ASSUME NEW k \in Leaders, followed'[k].on
        PROVE  PassedBy(k, followed'[k].last, trades, decided, joined'[k])
    <3>1. followed'[k].last \in Nat /\ followed[k].on
      BY <1>5, <2>1 DEF FollowRow
    <3> QED
      BY <1>5, <1>11, <1>12, <2>1, <3>1 DEF CopiesInv, CursorsTell
  <2>2. ASSUME NEW k \in p.todo
        PROVE  PassedBy(k, p.rows[k].last, trades, decided, joined'[k])
    <3>1. k \in Leaders /\ pass.rows[k].last \in Nat /\ k \in pass.todo
      BY <1>2, <1>6 DEF PassRow, FollowRow
    <3> QED
      BY <1>6, <1>11, <3>1 DEF CopiesInv, CursorsTell
  <2> QED
    BY <1>1, <1>6, <1>12, <2>1, <2>2 DEF CursorsTell, Passed
<1>14. LeftComplete'
  <2> SUFFICES ASSUME p.step = "trading"
               PROVE  /\ p.last <= p.advanced /\ p.leader \notin p.todo
                      /\ \A t \in p.left : t.leader = p.leader /\ t.block > p.last
                      /\ \A t \in p.left, u \in trades :
                            (u.leader = p.leader /\ p.advanced < u.block /\ u.block < t.block)
                                => u \in p.left \/ u.late
    BY <1>1, <1>6 DEF LeftComplete
  <2>1. p.leader = l /\ p.last = last /\ p.advanced = last /\ p.left = Copy!recent_wallet_legs(l, last)
    BY <1>1, <1>6
  <2>2. ASSUME NEW t \in p.left, NEW u \in trades, u.leader = l, last < u.block, u.block < t.block
        PROVE  u \in p.left
    <3>1. u \in Copy!Newer(l, last)
      BY <2>2 DEF Copy!Newer
    <3> QED
      BY <1>2, <2>1, <2>2, <3>1, ReadFromTheOldest DEF CopiesInv
  <2> QED
    BY <1>3, <1>6, <1>7, <2>1, <2>2
<1>15. JoinedBehind'
  BY <1>1, <1>2, <1>3, <1>4, <1>5, <1>6 DEF CopiesInv, JoinedBehind, from
<1>16. DecidedBehind'
  <2> SUFFICES ASSUME cfaults = 0, ~again PROVE DecidedBehind'
    BY <1>1 DEF DecidedBehind
  <2>1. /\ \A u \in trades : u.n \in decided /\ u.leader = l => u.block <= from
        /\ followed[l].on => followed[l].last = from
    BY <1>1 DEF CopiesInv, DecidedBehind, from
  <2>2. \A u \in trades : u.block \in Nat /\ u.block > 0 /\ u.leader \in Leaders
    BY CopyNumbers DEF CopiesInv, Numbered, Copy!Trades
  <2>3. \A u \in trades : u.n \in decided /\ u.leader = l => u.block <= last /\ from > 0
    BY <1>2, <1>3, <2>1, <2>2
  <2>4. followed'[l].on => followed'[l].last = last
    BY <1>2, <1>3, <1>5, <2>1
  <2>5. \A t \in p.left : t.n \notin decided
    BY <1>3, <1>6, <1>7, <2>2, <2>3 DEF CopiesInv, DecidedBehind
  <2> QED
    BY <1>1, <1>2, <1>3, <1>5, <1>6, <2>2, <2>3, <2>4, <2>5 DEF CopiesInv, DecidedBehind
<1> QED
  BY <1>8, <1>9, <1>10, <1>13, <1>14, <1>15, <1>16 DEF CopiesInv

LEMMA CopySaves == ASSUME CopiesInv, Copy!set_copy_wallet_last_block PROVE CopiesInv'
<1> DEFINE l == pass.leader
           p == [pass EXCEPT !.step = "next", !.leader = 0, !.last = 0, !.advanced = 0]
<1>1. /\ pass.step = "trading" /\ pass.left = {} /\ pass' = p
      /\ followed' = IF pass.advanced # pass.last THEN [followed EXCEPT ![l] = Copy!SaveCursor(@)] ELSE followed
      /\ UNCHANGED <<filters, held, trades, clock, cfaults, copied, decided, joined, again>>
  BY DEF Copy!set_copy_wallet_last_block
<1>2. /\ pass \in PassRow /\ l \in Leaders /\ pass.todo \subseteq Leaders
      /\ followed \in [Leaders -> FollowRow] /\ followed[l] \in FollowRow /\ joined \in [Leaders -> Nat]
      /\ pass.advanced \in Nat /\ pass.last \in Nat /\ pass.last <= pass.advanced /\ l \notin pass.todo
  BY <1>1 DEF CopiesInv, CopiesTyped, PassRow, LeftComplete
<1>3. /\ p \in PassRow /\ p.step = "next" /\ p.left = {} /\ p.todo = pass.todo /\ p.rows = pass.rows
      /\ p.filters = pass.filters /\ p.open = pass.open /\ p.manual = pass.manual
  BY <1>1, <1>2 DEF PassRow
<1> HIDE DEF p
<1>4. /\ followed' \in [Leaders -> FollowRow]
      /\ \A k \in Leaders : k # l => followed'[k] = followed[k]
      /\ followed'[l].on = followed[l].on
      /\ followed[l].on => \/ followed'[l].last = pass.advanced
                           \/ followed'[l].last = followed[l].last /\ pass.advanced = pass.last
  <2>1. Copy!SaveCursor(followed[l]) \in FollowRow /\ Copy!SaveCursor(followed[l]).on = followed[l].on
        /\ (followed[l].on => Copy!SaveCursor(followed[l]).last = pass.advanced)
    BY <1>2 DEF Copy!SaveCursor, FollowRow
  <2> QED
    BY <1>1, <1>2, <2>1
<1>5. CopiesTyped'
  BY <1>1, <1>3, <1>4 DEF CopiesInv, CopiesTyped
<1>6. Numbered' /\ JoinedPast' /\ LeftComplete' /\ ReadFollowed' /\ OpenCounted'
  BY <1>1, <1>3 DEF CopiesInv, Numbered, JoinedPast, LeftComplete, ReadFollowed, OpenCounted, Copy!list_positions
<1>7. CursorsTell'
  <2>1. Passed(l, pass.advanced)
    BY <1>1 DEF CopiesInv, CursorsTell
  <2>2. \A k \in Leaders : followed'[k].on => Passed(k, followed'[k].last)
    BY <1>2, <1>4, <2>1 DEF CopiesInv, CursorsTell
  <2> QED
    BY <1>1, <1>3, <2>2 DEF CopiesInv, CursorsTell, Passed
<1>8. JoinedBehind'
  <2>1. ~again => joined[l] <= pass.last
    BY <1>1 DEF CopiesInv, JoinedBehind
  <2>2. ~again => joined[l] <= pass.advanced
    BY <1>2, <2>1
  <2> QED
    BY <1>1, <1>2, <1>3, <1>4, <2>1, <2>2 DEF CopiesInv, JoinedBehind
<1>9. DecidedBehind'
  <2> SUFFICES ASSUME cfaults = 0, ~again PROVE DecidedBehind'
    BY <1>1 DEF DecidedBehind
  <2>1. followed[l].on => followed'[l].last = pass.advanced
    BY <1>1, <1>4 DEF CopiesInv, DecidedBehind
  <2>2. \A u \in trades : u.leader \in Leaders
    BY DEF CopiesInv, Numbered, Copy!Trades
  <2> QED
    BY <1>1, <1>2, <1>3, <1>4, <2>1, <2>2 DEF CopiesInv, DecidedBehind
<1> QED
  BY <1>5, <1>6, <1>7, <1>8, <1>9 DEF CopiesInv

(* A trade is decided: its own cursor moves up to it, and nobody else's.                     *)
LEMMA CopyDecides ==
    ASSUME CopiesInv, NEW t \in pass.left, Copy!Ready(t), NEW p \in PassRow, pass' = p,
           p.step = pass.step, p.rows = pass.rows, p.todo = pass.todo, p.filters = pass.filters,
           p.leader = pass.leader, p.last = pass.last, p.left = pass.left \ {t},
           p.advanced = IF pass.advanced < t.block THEN t.block ELSE pass.advanced,
           decided' = decided \cup {t.n},
           copied' = copied \/ copied' = [copied EXCEPT ![t.n] = @ + 1],
           held' \in [Tokens -> Nat], OpenCounted',
           UNCHANGED <<followed, filters, trades, clock, cfaults, joined, again>>
    PROVE  CopiesInv'
<1> DEFINE l == pass.leader
<1>1. /\ pass.step = "trading" /\ l \in Leaders /\ pass.todo \subseteq Leaders /\ l \notin pass.todo
      /\ pass.left \subseteq trades /\ t \in trades /\ t.n \in Copy!TradeIds /\ t.block \in Nat /\ t.leader = l
      /\ pass.advanced \in Nat /\ pass.last \in Nat /\ pass.last <= pass.advanced
      /\ \A u \in trades : u.n \in Copy!TradeIds /\ u.block \in Nat /\ u.leader \in Leaders
      /\ trades \in SUBSET Copy!Trades
  BY CopyNumbers DEF CopiesInv, CopiesTyped, PassRow, Numbered, Copy!Trades, LeftComplete, Copy!Ready
<1>2. \A u \in pass.left \ {t} : Copy!Before(t, u)
  <2>1. t = Copy!Oldest(pass.left) /\ pass.left \in SUBSET trades
    BY <1>1 DEF Copy!Ready
  <2> QED
    BY <2>1, OldestIsFirst DEF CopiesInv
<1>3. p.advanced \in Nat /\ pass.advanced <= p.advanced /\ t.block <= p.advanced
  BY <1>1
<1>4. /\ copied' \in [Copy!TradeIds -> Nat]
      /\ \A n \in Copy!TradeIds : n # t.n => copied'[n] = copied[n]
      /\ copied[t.n] \in Nat /\ copied'[t.n] <= copied[t.n] + 1
  BY <1>1 DEF CopiesInv, CopiesTyped
<1>5. CopiesTyped'
  BY <1>1, <1>4 DEF CopiesInv, CopiesTyped
<1>6. Numbered' /\ JoinedPast' /\ ReadFollowed' /\ JoinedBehind'
  BY <1>1 DEF CopiesInv, Numbered, JoinedPast, ReadFollowed, JoinedBehind
<1>7. ASSUME NEW k \in Leaders, NEW c \in Nat, Passed(k, c)
      PROVE  PassedBy(k, c, trades, decided', joined[k])
  <2>1. joined[k] \in Nat
    BY DEF CopiesInv, CopiesTyped
  <2> QED
    BY <1>1, <1>7, <2>1, PassedGrows DEF Passed
<1>8. PassedBy(l, p.advanced, trades, decided', joined[l])
  <2>1. CASE p.advanced = pass.advanced
    BY <1>1, <1>7, <2>1 DEF CopiesInv, CursorsTell
  <2>2. CASE p.advanced = t.block /\ pass.advanced < t.block
    <3>1. PassedBy(l, pass.advanced, trades, decided', joined[l])
      BY <1>1, <1>7 DEF CopiesInv, CursorsTell
    <3>2. ASSUME NEW u \in trades, u.leader = l, u.block <= t.block, u.block > joined[l]
          PROVE  u.late \/ Sharing(u, trades, decided')
      <4>1. CASE u.block <= pass.advanced
        BY <3>1, <3>2, <4>1 DEF PassedBy
      <4>2. CASE u.block = t.block
        BY <1>1, <3>2, <4>2 DEF Sharing
      <4>3. CASE pass.advanced < u.block /\ u.block < t.block
        <5>1. u \notin pass.left
          BY <1>1, <1>2, <4>3 DEF Copy!Before
        <5> QED
          BY <1>1, <3>2, <4>3, <5>1 DEF CopiesInv, LeftComplete
      <4> QED
        BY <1>1, <3>2, <4>1, <4>2, <4>3
    <3> QED
      BY <1>1, <2>2, <3>2 DEF PassedBy
  <2> QED
    BY <1>1, <2>1, <2>2
<1>9. CursorsTell'
  <2>1. \A k \in Leaders : followed[k].last \in Nat /\ pass.rows[k].last \in Nat
    BY DEF CopiesInv, CopiesTyped, PassRow, FollowRow
  <2>2. \A k \in Leaders : followed[k].on => PassedBy(k, followed[k].last, trades, decided', joined[k])
    BY <1>7, <2>1 DEF CopiesInv, CursorsTell
  <2>3. \A k \in pass.todo : PassedBy(k, pass.rows[k].last, trades, decided', joined[k])
    BY <1>1, <1>7, <2>1 DEF CopiesInv, CursorsTell
  <2> QED
    BY <1>8, <2>2, <2>3 DEF CursorsTell, Passed
<1>10. LeftComplete'
  <2>1. ASSUME NEW v \in p.left, NEW u \in trades, u.leader = l, p.advanced < u.block, u.block < v.block
        PROVE  u \in p.left \/ u.late
    <3>1. u \in pass.left \/ u.late
      BY <1>1, <1>3, <2>1 DEF CopiesInv, LeftComplete
    <3> QED
      BY <1>1, <1>3, <2>1, <3>1
  <2> QED
    BY <1>1, <1>3, <2>1 DEF CopiesInv, LeftComplete
<1>11. DecidedBehind'
  <2> SUFFICES ASSUME cfaults = 0, ~again PROVE DecidedBehind'
    BY DEF DecidedBehind
  <2>1. copied[t.n] = 0
    BY <1>1, <1>4 DEF CopiesInv, DecidedBehind
  <2>2. \A n \in Copy!TradeIds : copied'[n] <= 1 /\ (copied'[n] > 0 => n \in decided')
    BY <1>4, <2>1 DEF CopiesInv, DecidedBehind
  <2>3. \A u \in p.left : u.n \notin decided'
    BY <1>1 DEF CopiesInv, DecidedBehind, Numbered
  <2>4. \A u \in trades : u.n \in decided' /\ u.n \notin decided => u = t
    BY <1>1 DEF CopiesInv, Numbered
  <2> QED
    BY <1>1, <1>3, <2>2, <2>3, <2>4 DEF CopiesInv, DecidedBehind
<1> QED
  BY <1>5, <1>6, <1>9, <1>10, <1>11 DEF CopiesInv

LEMMA SizesAreNumbers ==
    ASSUME CopiesInv, NEW t \in pass.left, Copy!Ready(t)
    PROVE  /\ Copy!plan_size(t, pass.filters, Copy!Row) \in Nat
           /\ t \in trades /\ t.n \in Copy!TradeIds /\ t.token \in Tokens /\ t.leader = pass.leader
           /\ pass.filters.max_open \in Nat
<1>1. t \in Copy!Trades /\ t \in trades /\ t.leader = pass.leader /\ t.value \in Nat
  BY CopyNumbers DEF CopiesInv, CopiesTyped, Numbered, Copy!Trades, LeftComplete, Copy!Ready
<1>2. pass.filters.flat \in Nat /\ pass.filters.max_open \in Nat
  BY CopyNumbers DEF CopiesInv, CopiesTyped, Copy!Ready
<1>3. Copy!Row.flat \in Nat
  BY DEF CopiesInv, CopiesTyped, PassRow, FollowRow, Copy!Row, Copy!Ready
<1> QED
  BY <1>1, <1>2, <1>3 DEF Copy!plan_size, Copy!Trades

LEMMA Reached ==
    ASSUME CopiesInv, NEW t \in pass.left
    PROVE  /\ Copy!Reach(t) \in PassRow /\ Copy!Reach(t).step = pass.step /\ Copy!Reach(t).rows = pass.rows
           /\ Copy!Reach(t).todo = pass.todo /\ Copy!Reach(t).filters = pass.filters /\ Copy!Reach(t).leader = pass.leader
           /\ Copy!Reach(t).last = pass.last /\ Copy!Reach(t).left = pass.left \ {t} /\ Copy!Reach(t).open = pass.open
           /\ Copy!Reach(t).manual = pass.manual
           /\ Copy!Reach(t).advanced = IF pass.advanced < t.block THEN t.block ELSE pass.advanced
<1>1. pass \in PassRow /\ t.block \in Nat /\ pass.advanced \in Nat
  BY CopyNumbers DEF CopiesInv, CopiesTyped, PassRow, Numbered, Copy!Trades
<1> QED
  BY <1>1 DEF Copy!Reach, PassRow

LEMMA CopySkips ==
    ASSUME CopiesInv, NEW t \in pass.left, Copy!Skip(t) PROVE CopiesInv'
<1>1. Copy!Ready(t) /\ decided' = decided \cup {t.n} /\ pass' = Copy!Reach(t)
      /\ UNCHANGED <<followed, filters, held, trades, clock, cfaults, copied, joined, again>>
  BY DEF Copy!Skip
<1>2. /\ Copy!Reach(t) \in PassRow /\ Copy!Reach(t).step = pass.step /\ Copy!Reach(t).rows = pass.rows
      /\ Copy!Reach(t).todo = pass.todo /\ Copy!Reach(t).filters = pass.filters /\ Copy!Reach(t).leader = pass.leader
      /\ Copy!Reach(t).last = pass.last /\ Copy!Reach(t).left = pass.left \ {t} /\ Copy!Reach(t).open = pass.open
      /\ Copy!Reach(t).manual = pass.manual
      /\ Copy!Reach(t).advanced = IF pass.advanced < t.block THEN t.block ELSE pass.advanced
  BY Reached
<1>3. OpenCounted' /\ held' \in [Tokens -> Nat]
  BY <1>1, <1>2 DEF CopiesInv, CopiesTyped, OpenCounted, Copy!list_positions
<1> QED
  BY <1>1, <1>2, <1>3, CopyDecides

LEMMA CopyCopies ==
    ASSUME CopiesInv, NEW t \in pass.left, Copy!Copy(t)
    PROVE  /\ CopiesInv'
           /\ \A tok \in Tokens : held[tok] = 0 /\ held'[tok] > 0
                 => pass.manual \/ pass.filters.max_open = 0 \/ Copy!list_positions < pass.filters.max_open
<1>1. /\ Copy!Ready(t) /\ decided' = decided \cup {t.n} /\ pass' = [Copy!Reach(t) EXCEPT !.open = Copy!Recount(t)]
      /\ copied' = [copied EXCEPT ![t.n] = @ + 1] /\ held' = Copy!After(t) /\ Copy!Decision(t) # "skip"
      /\ UNCHANGED <<followed, filters, trades, clock, cfaults, joined, again>>
  BY DEF Copy!Copy
<1>2. /\ held \in [Tokens -> Nat] /\ pass.open \in Nat /\ pass.step # "rest" /\ pass \in PassRow
      /\ Copy!Decision(t) \in {"buy", "sell"}
  BY <1>1 DEF CopiesInv, CopiesTyped, PassRow, Copy!Ready, Copy!Decision, Copy!decide
<1>3. /\ held' \in [Tokens -> Nat]
      /\ \A tok \in Tokens : tok # t.token => held'[tok] = held[tok]
      /\ Copy!Decision(t) = "sell" => held'[t.token] = 0
  BY <1>1, <1>2, SizesAreNumbers DEF Copy!After, Copy!Bought, Copy!Sold
<1>4. Copy!Recount(t) \in Nat /\ (Copy!Decision(t) = "buy" => Copy!Recount(t) = Copy!list_positions')
      /\ (Copy!Decision(t) # "buy" => Copy!Recount(t) = pass.open) /\ Copy!list_positions' \in Nat /\ Copy!list_positions \in Nat
  <2>1. /\ Copy!list_positions = Cardinality({tok \in Tokens : held[tok] > 0})
        /\ Copy!list_positions' = Cardinality({tok \in Tokens : held'[tok] > 0})
    BY DEF Copy!list_positions, Copy!Cardinality, Cardinality
  <2>2. Copy!list_positions' = Cardinality({tok \in Tokens : Copy!After(t)[tok] > 0})
    BY <1>1, <2>1
  <2>3. Copy!Decision(t) = "buy" => Copy!Recount(t) = Copy!list_positions'
    BY <2>2 DEF Copy!Recount, Copy!Cardinality, Cardinality
  <2>4. Copy!Decision(t) # "buy" => Copy!Recount(t) = pass.open
    BY DEF Copy!Recount
  <2>5. Copy!list_positions \in Nat /\ Copy!list_positions' \in Nat
    BY <2>1, PositionsCounted
  <2> QED
    BY <1>2, <2>3, <2>4, <2>5
<1>5. PICK p \in PassRow :
        /\ pass' = p /\ p.step = pass.step /\ p.rows = pass.rows
        /\ p.todo = pass.todo /\ p.filters = pass.filters /\ p.leader = pass.leader
        /\ p.last = pass.last /\ p.left = pass.left \ {t} /\ p.open = Copy!Recount(t)
        /\ p.manual = pass.manual
        /\ p.advanced = IF pass.advanced < t.block THEN t.block ELSE pass.advanced
  <2> DEFINE p == [Copy!Reach(t) EXCEPT !.open = Copy!Recount(t)]
  <2>1. /\ p \in PassRow /\ p.step = pass.step /\ p.rows = pass.rows
        /\ p.todo = pass.todo /\ p.filters = pass.filters /\ p.leader = pass.leader
        /\ p.last = pass.last /\ p.left = pass.left \ {t} /\ p.open = Copy!Recount(t)
        /\ p.manual = pass.manual
        /\ p.advanced = IF pass.advanced < t.block THEN t.block ELSE pass.advanced
    BY <1>4, Reached DEF PassRow
  <2> QED
    BY <1>1, <2>1
<1>6. OpenCounted'
  <2>1. CASE Copy!Decision(t) = "buy"
    BY <1>4, <1>5, <2>1 DEF OpenCounted
  <2>2. CASE Copy!Decision(t) = "sell"
    <3>1. \A tok \in Tokens : held'[tok] > 0 => held[tok] > 0
      BY <1>2, <1>3, <2>2
    <3>2. Copy!list_positions' <= Copy!list_positions
      BY <3>1, PositionsCounted DEF Copy!list_positions, Copy!Cardinality, Cardinality
    <3> QED
      BY <1>2, <1>4, <1>5, <2>2, <3>2 DEF OpenCounted, CopiesInv
  <2> QED
    BY <1>2, <2>1, <2>2
<1>7. CopiesInv'
  BY <1>1, <1>3, <1>5, <1>6, CopyDecides
<1>8. ASSUME NEW tok \in Tokens, held[tok] = 0, held'[tok] > 0
      PROVE  pass.manual \/ pass.filters.max_open = 0 \/ Copy!list_positions < pass.filters.max_open
  <2>1. Copy!Decision(t) = "buy" /\ held[t.token] = 0
    BY <1>2, <1>3, <1>8, SizesAreNumbers
  <2>2. ~(pass.filters.max_open > 0 /\ pass.open >= pass.filters.max_open)
    BY <2>1 DEF Copy!Decision, Copy!decide
  <2>3. pass.manual \/ Copy!list_positions <= pass.open
    BY <1>2 DEF CopiesInv, OpenCounted
  <2>4. pass.filters.max_open \in Nat
    BY <1>1, SizesAreNumbers
  <2> QED
    BY <1>2, <1>4, <2>2, <2>3, <2>4
<1> QED
  BY <1>7, <1>8

LEMMA CopyStopsHere ==
    ASSUME CopiesInv, NEW t \in pass.left, NEW broke \in BOOLEAN, Copy!CopyFails(t, broke) PROVE CopiesInv'
<1>1. /\ Copy!Ready(t) /\ pass' = Copy!StopHere(t) /\ cfaults' = cfaults + 1
      /\ copied' = IF broke THEN [copied EXCEPT ![t.n] = @ + 1] ELSE copied
      /\ UNCHANGED <<followed, filters, held, trades, clock, decided, joined, again>>
  BY DEF Copy!CopyFails
<1>2. /\ Copy!StopHere(t) \in PassRow /\ Copy!StopHere(t).step = pass.step /\ Copy!StopHere(t).rows = pass.rows
      /\ Copy!StopHere(t).todo = pass.todo /\ Copy!StopHere(t).filters = pass.filters
      /\ Copy!StopHere(t).leader = pass.leader /\ Copy!StopHere(t).last = pass.last /\ Copy!StopHere(t).left = {}
      /\ Copy!StopHere(t).open = pass.open /\ Copy!StopHere(t).manual = pass.manual
      /\ Copy!StopHere(t).advanced = pass.advanced
  BY DEF Copy!StopHere, CopiesInv, CopiesTyped, PassRow
<1>3. copied' \in [Copy!TradeIds -> Nat] /\ cfaults' \in Nat /\ cfaults' # 0
  BY <1>1, SizesAreNumbers DEF CopiesInv, CopiesTyped
<1>4. CopiesTyped' /\ Numbered' /\ JoinedPast' /\ LeftComplete' /\ ReadFollowed' /\ OpenCounted'
  BY <1>1, <1>2, <1>3 DEF CopiesInv, CopiesTyped, Numbered, JoinedPast, LeftComplete, ReadFollowed,
                          OpenCounted, Copy!list_positions
<1>5. CursorsTell' /\ JoinedBehind' /\ DecidedBehind'
  BY <1>1, <1>2, <1>3 DEF CopiesInv, CursorsTell, Passed, JoinedBehind, DecidedBehind
<1> QED
  BY <1>4, <1>5 DEF CopiesInv

LEMMA CopyEnds ==
    ASSUME CopiesInv, Copy!EndPass \/ Copy!CopyCrash \/ \E l \in Leaders : Copy!FetchFails(l) PROVE CopiesInv'
<1>1. /\ Copy!NoPass \in PassRow /\ Copy!NoPass.step = "rest" /\ Copy!NoPass.left = {} /\ Copy!NoPass.todo = {}
      /\ pass \in PassRow /\ cfaults \in Nat
  BY DEF Copy!NoPass, PassRow, Copy!NotFollowed, FollowRow, CopiesInv, CopiesTyped
<1>2. CASE Copy!EndPass
  BY <1>1, <1>2, CopyDrops DEF Copy!EndPass
<1>3. CASE Copy!CopyCrash
  BY <1>1, <1>3, CopyDrops DEF Copy!CopyCrash
<1>4. ASSUME NEW l \in Leaders, Copy!FetchFails(l) PROVE CopiesInv'
  <2> DEFINE p == [pass EXCEPT !.todo = @ \ {l}]
  <2>1. /\ pass.step = "next" /\ pass' = p /\ cfaults' = cfaults + 1
        /\ UNCHANGED <<followed, filters, held, trades, clock, copied, decided, joined, again>>
    BY <1>4 DEF Copy!FetchFails
  <2>2. /\ p \in PassRow /\ p.step = "next" /\ p.rows = pass.rows /\ p.todo = pass.todo \ {l}
        /\ p.filters = pass.filters /\ p.open = pass.open /\ p.manual = pass.manual
        /\ p.left = pass.left
    BY <1>1, <2>1 DEF PassRow
  <2> HIDE DEF p
  <2>3. CopiesTyped' /\ Numbered' /\ JoinedPast' /\ LeftComplete' /\ ReadFollowed' /\ OpenCounted'
    BY <1>1, <2>1, <2>2 DEF CopiesInv, CopiesTyped, Numbered, JoinedPast, LeftComplete, ReadFollowed,
                            OpenCounted, Copy!list_positions
  <2>4. CursorsTell' /\ JoinedBehind'
    BY <2>1, <2>2 DEF CopiesInv, CursorsTell, Passed, JoinedBehind
  <2>5. DecidedBehind'
    BY <1>1, <2>1 DEF DecidedBehind
  <2> QED
    BY <2>3, <2>4, <2>5 DEF CopiesInv
<1> QED
  BY <1>2, <1>3, <1>4

(* What the steps of the engine may not do.                                                  *)
OpenedBelowLimit ==
    \A tok \in Tokens :
        (pass.step = "trading" /\ held[tok] = 0 /\ held'[tok] > 0 /\ copied' # copied)
            => pass.manual \/ pass.filters.max_open = 0 \/ Copy!list_positions < pass.filters.max_open
CopiedSinceJoined ==
    \A t \in trades : copied'[t.n] > copied[t.n] => again \/ t.block > joined[t.leader]

LEMMA CopiedNow ==
    ASSUME CopiesInv, NEW t \in pass.left, Copy!Ready(t),
           copied' = copied \/ copied' = [copied EXCEPT ![t.n] = @ + 1]
    PROVE  CopiedSinceJoined
<1> SUFFICES ASSUME NEW u \in trades, copied'[u.n] > copied[u.n], ~again
             PROVE  u.block > joined[u.leader]
  BY DEF CopiedSinceJoined
<1>1. /\ t \in trades /\ t.leader = pass.leader /\ t.block > pass.last /\ pass.step = "trading"
      /\ t.n \in Copy!TradeIds /\ u.n \in Copy!TradeIds /\ t.block \in Nat
  BY CopyNumbers, SizesAreNumbers DEF CopiesInv, LeftComplete, Copy!Ready, Numbered, Copy!Trades
<1>2. u = t
  <2>1. copied[u.n] \in Nat /\ copied \in [Copy!TradeIds -> Nat]
    BY <1>1 DEF CopiesInv, CopiesTyped
  <2>2. u.n = t.n
    BY <1>1, <2>1
  <2> QED
    BY <1>1, <2>2 DEF CopiesInv, Numbered
<1>3. joined[pass.leader] <= pass.last /\ joined[pass.leader] \in Nat /\ pass.last \in Nat
  BY <1>1 DEF CopiesInv, JoinedBehind, CopiesTyped, PassRow
<1> QED
  BY <1>1, <1>2, <1>3

LEMMA CopyQuietSteps ==
    ASSUME CopiesInv, copied' = copied PROVE OpenedBelowLimit /\ CopiedSinceJoined
<1>1. \A t \in trades : t.n \in Copy!TradeIds /\ copied[t.n] \in Nat
  BY DEF CopiesInv, CopiesTyped, Numbered, Copy!Trades
<1> QED
  BY <1>1 DEF OpenedBelowLimit, CopiedSinceJoined

LEMMA CopyStepKeeps ==
    ASSUME CopiesInv, [Copy!Next]_(Copy!copyVars)
    PROVE  CopiesInv' /\ OpenedBelowLimit /\ CopiedSinceJoined
<1> DEFINE Kept == CopiesInv' /\ OpenedBelowLimit /\ CopiedSinceJoined
<1>1. CASE UNCHANGED Copy!copyVars
  <2>1. UNCHANGED CopyQuiet /\ filters' \in Settings /\ copied' = copied
    BY <1>1 DEF Copy!copyVars, CopyQuiet, CopiesInv, CopiesTyped
  <2> QED
    BY <2>1, CopyStutter, CopyQuietSteps
<1>2. ASSUME NEW l \in Leaders, NEW b \in 1..MaxBlock, NEW side \in Copy!Sides, NEW tok \in Tokens,
             NEW v \in Values, Copy!IndexTrade(l, b, side, tok, v)
      PROVE  Kept
  <2>1. copied' = copied
    BY <1>2 DEF Copy!IndexTrade
  <2> QED
    BY <1>2, <2>1, CopyIndexed, CopyQuietSteps
<1>3. CASE Copy!AdvanceClock
  <2>1. copied' = copied
    BY <1>3 DEF Copy!AdvanceClock
  <2> QED
    BY <1>3, <2>1, CopyClock, CopyQuietSteps
<1>4. CASE Copy!User
  <2>1. copied' = copied
    BY <1>4 DEF Copy!User, Copy!add_copy_wallet, Copy!remove_copy_wallet, Copy!set_copy_wallet_enabled, Copy!set_copy_settings,
                Copy!StopOrResume, Copy!ManualTrade
  <2> QED
    BY <1>4, <2>1, CopyUser, CopyQuietSteps
<1>5. ASSUME NEW limit \in Limits, Copy!StartPass(limit) PROVE Kept
  <2>1. copied' = copied
    BY <1>5 DEF Copy!StartPass
  <2> QED
    BY <1>5, <2>1, CopyStarts, CopyQuietSteps
<1>6. CASE Copy!set_copy_wallet_last_block
  <2>1. copied' = copied
    BY <1>6 DEF Copy!set_copy_wallet_last_block
  <2> QED
    BY <1>6, <2>1, CopySaves, CopyQuietSteps
<1>7. ASSUME NEW l \in Leaders, Copy!Fetch(l) PROVE Kept
  <2>1. copied' = copied
    BY <1>7 DEF Copy!Fetch
  <2> QED
    BY <1>7, <2>1, CopyFetches, CopyQuietSteps
<1>8. CASE Copy!EndPass \/ Copy!CopyCrash \/ \E l \in Leaders : Copy!FetchFails(l)
  <2>1. copied' = copied
    BY <1>8 DEF Copy!EndPass, Copy!CopyCrash, Copy!FetchFails
  <2> QED
    BY <1>8, <2>1, CopyEnds, CopyQuietSteps
<1>9. ASSUME NEW t \in pass.left, Copy!Skip(t) PROVE Kept
  <2>1. copied' = copied
    BY <1>9 DEF Copy!Skip
  <2> QED
    BY <1>9, <2>1, CopySkips, CopyQuietSteps
<1>10. ASSUME NEW t \in pass.left, Copy!Copy(t) PROVE Kept
  <2>1. Copy!Ready(t) /\ copied' = [copied EXCEPT ![t.n] = @ + 1]
    BY <1>10 DEF Copy!Copy
  <2> QED
    BY <1>10, <2>1, CopyCopies, CopiedNow DEF OpenedBelowLimit
<1>11. ASSUME NEW t \in pass.left, NEW broke \in BOOLEAN, Copy!CopyFails(t, broke) PROVE Kept
  <2>1. /\ Copy!Ready(t) /\ (copied' = copied \/ copied' = [copied EXCEPT ![t.n] = @ + 1])
        /\ held' = held
    BY <1>11 DEF Copy!CopyFails
  <2>2. OpenedBelowLimit
    BY <2>1 DEF OpenedBelowLimit, CopiesInv, CopiesTyped
  <2> QED
    BY <1>11, <2>1, <2>2, CopyStopsHere, CopiedNow
<1> QED
  BY <1>1, <1>2, <1>3, <1>4, <1>5, <1>6, <1>7, <1>8, <1>9, <1>10, <1>11 DEF Copy!Next, Copy!Pass

LEMMA CopiesAreFaithful == ASSUME CopiesInv PROVE Copy!LostOnlyWithinABlock /\ Copy!CopiedTwiceOnlyByFault
<1>1. \A t \in trades : t.leader \in Leaders
  BY DEF CopiesInv, Numbered, Copy!Trades
<1>2. Copy!LostOnlyWithinABlock
  BY <1>1 DEF CopiesInv, CursorsTell, Passed, PassedBy, Sharing, Copy!LostOnlyWithinABlock
<1>3. Copy!CopiedTwiceOnlyByFault
  BY DEF CopiesInv, DecidedBehind, Copy!CopiedTwiceOnlyByFault
<1> QED
  BY <1>2, <1>3

CopyPart == work_part = "copy" => CopiesInv

LEMMA CopyPartKept ==
    ASSUME CopyPart, [WorkNext]_workVars
    PROVE  CopyPart' /\ [OpenedBelowLimit]_(Copy!copyVars) /\ [CopiedSinceJoined]_(Copy!copyVars)
<1>1. CASE CopyStep
  BY <1>1, CopyStepKeeps DEF CopyStep, CopyPart
<1>2. CASE work_part' = work_part /\ UNCHANGED copyVars
  <2>1. UNCHANGED Copy!copyVars
    BY <1>2 DEF copyVars, Copy!copyVars
  <2>2. CASE work_part = "copy"
    BY <1>2, <2>1, <2>2, CopyStepKeeps DEF CopyPart
  <2> QED
    BY <1>2, <2>1, <2>2 DEF CopyPart
<1>3. CASE UNCHANGED workVars
  BY <1>3, <1>2 DEF workVars
<1>4. CASE WorkNext /\ ~CopyStep
  BY <1>4, <1>2 DEF WorkNext, PreorderStep, FeedStep, RuleStep, IndexStep, PnlStep, ScoreStep, BackfillStep,
     SenderStep, ReportStep, IngestStep
<1> QED
  BY <1>1, <1>3, <1>4

(* Copy engine (copy_keeper.py, sign_server.py): a trade the cursor has passed undecided    *)
(* was late or shares its block with a decided one; nothing is copied twice without a      *)
(* fault or a new following; no token is opened above the limit; no trade is copied that   *)
(* is older than the following.                                                         *)
THEOREM CopiesKeepPromises == WorkSpec => CopiesFaithful
<1>1. WorkInit => CopyPart
  BY CopyInit DEF WorkInit, CopyPart
<1>2. /\ CopyPart /\ [WorkNext]_workVars => CopyPart'
      /\ CopyPart /\ [WorkNext]_workVars => [OpenedBelowLimit]_(Copy!copyVars)
      /\ CopyPart /\ [WorkNext]_workVars => [CopiedSinceJoined]_(Copy!copyVars)
  BY CopyPartKept
<1>3. CopyPart => (work_part = "copy" => Copy!LostOnlyWithinABlock /\ Copy!CopiedTwiceOnlyByFault)
  BY CopiesAreFaithful DEF CopyPart
<1>4. [OpenedBelowLimit]_(Copy!copyVars)
      => [\A tok \in Tokens :
             (pass.step = "trading" /\ held[tok] = 0 /\ held'[tok] > 0 /\ copied' # copied)
                 => pass.manual \/ pass.filters.max_open = 0
                    \/ Copy!list_positions < pass.filters.max_open]_(Copy!copyVars)
  BY DEF OpenedBelowLimit
<1>5. [CopiedSinceJoined]_(Copy!copyVars)
      => [\A t \in trades : copied'[t.n] > copied[t.n]
             => again \/ t.block > joined[t.leader]]_(Copy!copyVars)
  BY DEF CopiedSinceJoined
<1> QED
  BY <1>1, <1>2, <1>3, <1>4, <1>5, PTL
     DEF WorkSpec, CopiesFaithful, Copy!OpensBelowLimit, Copy!NoHistoryCopied

-----------------------------------------------------------------------------
(* The event indexer: what its records are.                                              *)
IndexTyped ==
    /\ tip \in Nat /\ meta_cursor \in Int /\ at \in Int /\ to \in Int /\ ixfaults \in Nat
    /\ IsFiniteSet(swap_rows)
    /\ \A r \in swap_rows : r.log \in Logs /\ r.log.kind \in {"v3_swap", "v4_swap"} /\ r.from \in Int
    /\ trade_count \in [Index!Wallets -> Nat]
    /\ half \in BOOLEAN /\ todo \subseteq Logs

(* A swap has one row.                                                                *)
OneRow == \A r, q \in swap_rows : r.log = q.log => r = q

(* Where the process is between two stored cursors.                                    *)
RangeInHand ==
    /\ at <= meta_cursor
    /\ ix \in {"process", "health"} => at <= to
    /\ ix = "process" => \A l \in todo : at < l.block /\ l.block <= to
    /\ ix = "health" => to = meta_cursor /\ todo = {}

(* What was read up to now is stored, or still to be processed.                           *)
ReadIsStored ==
    ix = "process" =>
        \A l \in Logs : l.block <= to => Index!Stored(l) \/ l \in skipped \/ l.block \in asked \/ l \in todo

(* The log under way, when its first row is there.                                       *)
HalfIsBegun ==
    half => \A l \in todo : Index!Current(l) =>
        IF l.kind = "launchpad" THEN l \in token_rows ELSE Index!Has(l) /\ l.kind # "pool_init"

(* The swaps a wallet's count must have, and those that can be counted without a new error. *)
MustCount(w) ==
    {r \in Index!SwapsOf(w) : /\ r.log.block \notin asked /\ r.log \notin skipped
                              /\ \/ r.log.block <= meta_cursor
                                 \/ ix = "process" /\ r.log.block <= to /\ r.log \notin todo}
Behind(w) ==
    {r \in Index!SwapsOf(w) : \/ r.log.block <= at
                              \/ ix \in {"process", "health"} /\ r.log.block <= to /\ r.log \notin todo}
CountOf(w) ==
    /\ Cardinality(MustCount(w)) <= trade_count[w]
    /\ trade_count[w] <= Cardinality(Index!SwapsOf(w)) * ixfaults + Cardinality(Behind(w))

IndexInv ==
    /\ IndexTyped /\ OneRow /\ RangeInHand /\ ReadIsStored /\ HalfIsBegun
    /\ Index!PassedIsStored /\ Index!TokenMissingOnlyWhenReadTogether
    /\ \A w \in Index!Wallets \ {Index!NoWallet} : CountOf(w)

LEMMA SmallerBlock ==
    ASSUME NEW a \in Int, NEW b \in Int
    PROVE  Index!Min({a, b}) \in {a, b} /\ Index!Min({a, b}) <= a /\ Index!Min({a, b}) <= b
<1>1. \E x \in {a, b} : \A y \in {a, b} : x <= y
  OBVIOUS
<1> QED
  BY <1>1 DEF Index!Min

LEMMA LargerBlock ==
    ASSUME NEW a \in Int, NEW b \in Int
    PROVE  Index!Max({a, b}) \in {a, b} /\ Index!Max({a, b}) >= a /\ Index!Max({a, b}) >= b
<1>1. \E x \in {a, b} : \A y \in {a, b} : x >= y
  OBVIOUS
<1> QED
  BY <1>1 DEF Index!Max

LEMMA OneCurrent ==
    ASSUME NEW l \in Logs, NEW k \in Logs, Index!Current(l), Index!Current(k) PROVE l = k
<1>1. \A m \in Logs : Index!Rank(m) \in Nat /\ m.n \in Nat
  BY LogNumbers DEF Index!Rank, Index!Kinds
<1> QED
  BY <1>1 DEF Index!Current, Index!Comes

LEMMA IndexStarts == ASSUME Index!Init PROVE IndexInv
<1> USE DEF Index!Init
<1>1. IndexTyped
  <2>1. IsFiniteSet(swap_rows)
        /\ \A r \in swap_rows : r.log \in Logs /\ r.log.kind \in {"v3_swap", "v4_swap"} /\ r.from \in Int
    BY FS_EmptySet
  <2>2. tip \in Nat /\ meta_cursor \in Int /\ at \in Int /\ to \in Int /\ ixfaults \in Nat
    BY DEF Index!NoCursor
  <2>3. trade_count \in [Index!Wallets -> Nat] /\ half \in BOOLEAN /\ todo \subseteq Logs
    OBVIOUS
  <2> QED
    BY <2>1, <2>2, <2>3 DEF IndexTyped
<1>2. /\ OneRow /\ RangeInHand /\ ReadIsStored /\ HalfIsBegun
  BY DEF OneRow, RangeInHand, ReadIsStored, HalfIsBegun, Index!NoCursor
<1>5. Index!TokenMissingOnlyWhenReadTogether
  BY DEF Index!TokenMissingOnlyWhenReadTogether
<1>3. Index!PassedIsStored
  BY LogNumbers DEF Index!PassedIsStored, Index!NoCursor
<1>4. ASSUME NEW w \in Index!Wallets \ {Index!NoWallet} PROVE CountOf(w)
  <2>1. Index!SwapsOf(w) = {} /\ MustCount(w) = {} /\ Behind(w) = {}
    BY DEF Index!SwapsOf, MustCount, Behind
  <2> QED
    BY <2>1, FS_EmptySet DEF CountOf
<1> HIDE DEF Index!Init
<1> QED
  BY <1>1, <1>2, <1>3, <1>4, <1>5 DEF IndexInv

(* A step that counts nothing and stores no more than it must.                             *)
LEMMA CountKept ==
    ASSUME IndexInv, IsFiniteSet(swap_rows'), ixfaults' \in Nat, ixfaults <= ixfaults',
           NEW w \in Index!Wallets \ {Index!NoWallet}, trade_count'[w] = trade_count[w],
           Index!SwapsOf(w) \subseteq Index!SwapsOf(w)', MustCount(w)' \subseteq MustCount(w), Behind(w) \subseteq Behind(w)'
    PROVE  CountOf(w)'
<1>1. IsFiniteSet(Index!SwapsOf(w)) /\ IsFiniteSet(Index!SwapsOf(w)')
  BY FS_Subset DEF IndexInv, IndexTyped, Index!SwapsOf
<1>2. /\ MustCount(w) \subseteq Index!SwapsOf(w) /\ Behind(w)' \subseteq Index!SwapsOf(w)'
  BY DEF MustCount, Behind
<1>3. PICK s \in Nat, t \in Nat, m \in Nat, n \in Nat, b \in Nat, c \in Nat, f \in Nat, g \in Nat :
          /\ s = Cardinality(Index!SwapsOf(w)) /\ t = Cardinality(Index!SwapsOf(w)')
          /\ m = Cardinality(MustCount(w)) /\ n = Cardinality(MustCount(w)')
          /\ b = Cardinality(Behind(w)) /\ c = Cardinality(Behind(w)')
          /\ f = ixfaults /\ g = ixfaults' /\ s <= t /\ n <= m /\ b <= c /\ f <= g
  <2>1. IsFiniteSet(MustCount(w)) /\ IsFiniteSet(Behind(w)')
    BY <1>1, <1>2, FS_Subset
  <2>2. IsFiniteSet(MustCount(w)') /\ IsFiniteSet(Behind(w))
    BY <2>1, FS_Subset
  <2>3. /\ Cardinality(Index!SwapsOf(w)) \in Nat /\ Cardinality(Index!SwapsOf(w)') \in Nat
        /\ Cardinality(MustCount(w)) \in Nat /\ Cardinality(MustCount(w)') \in Nat
        /\ Cardinality(Behind(w)) \in Nat /\ Cardinality(Behind(w)') \in Nat
    BY <1>1, <2>1, <2>2, FS_CardinalityType
  <2>4. /\ Cardinality(Index!SwapsOf(w)) <= Cardinality(Index!SwapsOf(w)')
        /\ Cardinality(MustCount(w)') <= Cardinality(MustCount(w))
        /\ Cardinality(Behind(w)) <= Cardinality(Behind(w)')
    BY <1>1, <2>1, FS_Subset
  <2> QED
    BY <2>3, <2>4 DEF IndexInv, IndexTyped
<1>4. PICK p \in Nat, q \in Nat, x \in Nat : p = s * f /\ q = t * g /\ x = trade_count[w] /\ p <= q
  <2>1. s * f <= t * f /\ t * f <= t * g /\ s * f \in Nat /\ t * f \in Nat /\ t * g \in Nat
    BY <1>3, MulMono, MulNat
  <2>2. trade_count[w] \in Nat
    BY DEF IndexInv, IndexTyped
  <2>3. \A u, v, z \in Nat : u <= v /\ v <= z => u <= z
    OBVIOUS
  <2>4. s * f <= t * g
    BY <2>1, <2>3, Zenon
  <2> QED
    BY <2>1, <2>2, <2>4, Zenon
<1>5. m <= x /\ x <= p + b
  BY <1>3, <1>4 DEF IndexInv, CountOf
<1>6. n <= x /\ x <= q + c
  BY <1>3, <1>4, <1>5
<1> QED
  BY <1>3, <1>4, <1>6 DEF CountOf

(* The steps that write no rows.                                                        *)
LEMMA RowsStay ==
    ASSUME IndexInv, UNCHANGED Index!tables, skipped \subseteq skipped', asked \subseteq asked'
    PROVE  /\ OneRow' /\ Index!TokenMissingOnlyWhenReadTogether'
           /\ \A l \in Logs : Index!Stored(l)' = Index!Stored(l)
           /\ \A w \in Index!Wallets : Index!SwapsOf(w)' = Index!SwapsOf(w)
           /\ IsFiniteSet(swap_rows')
<1>1. /\ swap_rows' = swap_rows /\ pool_rows' = pool_rows /\ token_rows' = token_rows
      /\ event_rows' = event_rows /\ trade_count' = trade_count
  BY DEF Index!tables
<1>2. OneRow' /\ IsFiniteSet(swap_rows')
  BY <1>1 DEF IndexInv, IndexTyped, OneRow
<1>3. Index!TokenMissingOnlyWhenReadTogether'
  BY <1>1 DEF IndexInv, Index!TokenMissingOnlyWhenReadTogether
<1>4. \A l \in Logs : Index!Stored(l)' = Index!Stored(l)
  BY <1>1 DEF Index!Stored, Index!Has
<1>5. \A w \in Index!Wallets : Index!SwapsOf(w)' = Index!SwapsOf(w)
  BY <1>1 DEF Index!SwapsOf
<1> QED
  BY <1>2, <1>3, <1>4, <1>5

LEMMA IndexWaits ==
    ASSUME IndexInv, tip' \in Nat,
           UNCHANGED <<Index!tables, meta_cursor, ix, at, todo, to, half, ixfaults, asked, skipped>>
    PROVE  IndexInv'
<1>1. UNCHANGED Index!tables /\ skipped \subseteq skipped' /\ asked \subseteq asked'
  OBVIOUS
<1>2. IndexTyped'
  BY DEF IndexInv, IndexTyped, Index!tables
<1>3. RangeInHand' /\ HalfIsBegun'
  BY DEF IndexInv, RangeInHand, HalfIsBegun, Index!Current, Index!Has, Index!tables
<1>4. ReadIsStored' /\ Index!PassedIsStored'
  BY <1>1, RowsStay DEF IndexInv, ReadIsStored, Index!PassedIsStored
<1>5. ASSUME NEW w \in Index!Wallets \ {Index!NoWallet} PROVE CountOf(w)'
  <2>1. Index!SwapsOf(w)' = Index!SwapsOf(w) /\ MustCount(w)' = MustCount(w) /\ Behind(w)' = Behind(w)
    BY DEF Index!SwapsOf, MustCount, Behind, Index!tables
  <2> QED
    BY <2>1 DEF IndexInv, CountOf, Index!tables
<1> QED
  BY <1>1, <1>2, <1>3, <1>4, <1>5, RowsStay DEF IndexInv

LEMMA IndexNewTip == ASSUME IndexInv, Index!NewTip PROVE IndexInv'
<1>1. tip' \in Nat
  BY DEF Index!NewTip, IndexInv, IndexTyped
<1> QED
  BY <1>1, IndexWaits DEF Index!NewTip

LEMMA IndexStart == ASSUME IndexInv, NEW f \in Starts, Index!start(f) PROVE IndexInv'
<1> DEFINE kept == IF meta_cursor = Index!NoCursor THEN f - 1 ELSE meta_cursor
           from == Index!Max({kept, f - 1})
<1>1. /\ ix = "down" /\ asked' = asked \cup (meta_cursor + 1)..from /\ meta_cursor' = from
      /\ at' = from /\ ix' = "poll"
      /\ UNCHANGED <<tip, Index!tables, todo, to, half, ixfaults, skipped>>
  BY DEF Index!start
<1>2. from \in Int /\ from >= kept /\ from >= f - 1 /\ kept \in Int /\ f - 1 \in Int
  <2>1. kept \in Int /\ f - 1 \in Int
    BY LogNumbers DEF IndexInv, IndexTyped
  <2> QED
    BY <2>1, LargerBlock
<1>3. meta_cursor <= from
  BY <1>2, LogNumbers DEF Index!NoCursor
<1> HIDE DEF from
<1>4. UNCHANGED Index!tables /\ skipped \subseteq skipped' /\ asked \subseteq asked'
  BY <1>1
<1>5. IndexTyped'
  BY <1>1, <1>2 DEF IndexInv, IndexTyped, Index!tables
<1>6. RangeInHand' /\ HalfIsBegun' /\ ReadIsStored'
  BY <1>1, <1>2 DEF RangeInHand, HalfIsBegun, ReadIsStored, Index!Current
<1>7. Index!PassedIsStored'
  <2> SUFFICES ASSUME NEW l \in Logs, l.block <= from PROVE Index!Stored(l)' \/ l \in skipped' \/ l.block \in asked'
    BY <1>1 DEF Index!PassedIsStored
  <2>1. CASE l.block <= meta_cursor
    BY <1>1, <1>4, <2>1, RowsStay DEF IndexInv, Index!PassedIsStored
  <2>2. CASE ~(l.block <= meta_cursor)
    BY <1>1, <1>2, <2>2, LogNumbers DEF IndexInv, IndexTyped
  <2> QED
    BY <2>1, <2>2
<1>8. ASSUME NEW w \in Index!Wallets \ {Index!NoWallet} PROVE CountOf(w)'
  <2>1. \A r \in Index!SwapsOf(w) : r.log.block \in Nat
    BY LogNumbers DEF IndexInv, IndexTyped, Index!SwapsOf
  <2>2. Index!SwapsOf(w)' = Index!SwapsOf(w) /\ trade_count'[w] = trade_count[w]
    BY <1>1, <1>4, RowsStay DEF Index!tables
  <2>3. MustCount(w)' \subseteq MustCount(w)
    BY <1>1, <1>2, <2>1, <2>2 DEF MustCount, IndexInv, IndexTyped
  <2>4. Behind(w) \subseteq Behind(w)'
    BY <1>1, <1>2, <1>3, <2>1, <2>2 DEF Behind, IndexInv, IndexTyped, RangeInHand
  <2>5. ixfaults' \in Nat /\ ixfaults <= ixfaults'
    BY <1>1 DEF IndexInv, IndexTyped
  <2> QED
    BY <1>4, <2>2, <2>3, <2>4, <2>5, CountKept, RowsStay
<1> QED
  BY <1>4, <1>5, <1>6, <1>7, <1>8, RowsStay DEF IndexInv

LEMMA IndexStop == ASSUME IndexInv, Index!stop PROVE IndexInv'
<1>1. /\ ix = "poll" /\ ix' = "down"
      /\ UNCHANGED <<tip, Index!tables, meta_cursor, at, todo, to, half, ixfaults, asked, skipped>>
  BY DEF Index!stop
<1>2. UNCHANGED Index!tables /\ skipped \subseteq skipped' /\ asked \subseteq asked'
  BY <1>1
<1>3. IndexTyped' /\ RangeInHand' /\ HalfIsBegun' /\ ReadIsStored'
  BY <1>1 DEF IndexInv, IndexTyped, RangeInHand, HalfIsBegun, ReadIsStored, Index!Current, Index!tables
<1>4. Index!PassedIsStored'
  BY <1>1, <1>2, RowsStay DEF IndexInv, Index!PassedIsStored
<1>5. ASSUME NEW w \in Index!Wallets \ {Index!NoWallet} PROVE CountOf(w)'
  <2>1. Index!SwapsOf(w)' = Index!SwapsOf(w) /\ MustCount(w)' = MustCount(w) /\ Behind(w)' = Behind(w)
    BY <1>1 DEF Index!SwapsOf, MustCount, Behind, Index!tables
  <2> QED
    BY <1>1, <2>1 DEF IndexInv, CountOf, Index!tables
<1> QED
  BY <1>2, <1>3, <1>4, <1>5, RowsStay DEF IndexInv

LEMMA IndexPoll == ASSUME IndexInv, Index!poll PROVE IndexInv'
<1> DEFINE up == Index!Upto(tip)
<1>1. /\ ix = "poll" /\ tip > at /\ to' = up /\ ix' = "process" /\ half' = FALSE
      /\ UNCHANGED <<tip, Index!tables, meta_cursor, at, errors, asked>>
  BY DEF Index!poll
<1>2. PICK bad \in SUBSET {l \in Logs : l.block \in (at + 1)..up} :
          /\ ixfaults' = ixfaults + Cardinality(bad) /\ skipped' = skipped \cup bad
          /\ todo' = {l \in Logs : l.block \in (at + 1)..up /\ l.block <= tip} \ bad
  BY DEF Index!poll, Index!Cardinality, Cardinality
<1>3. up \in Int /\ at <= up /\ up <= tip /\ at \in Int /\ tip \in Nat
  <2>1. at + MaxRange \in Int /\ at <= at + MaxRange /\ at \in Int /\ tip \in Nat /\ tip \in Int
    BY LogNumbers DEF IndexInv, IndexTyped
  <2>2. up \in {tip, at + MaxRange} /\ up <= tip
    BY <2>1, SmallerBlock DEF Index!Upto
  <2> QED
    BY <1>1, <2>1, <2>2
<1> HIDE DEF up
<1>4. UNCHANGED Index!tables /\ skipped \subseteq skipped' /\ asked \subseteq asked'
  BY <1>1, <1>2
<1>5. ixfaults' \in Nat /\ ixfaults <= ixfaults'
  <2>1. bad \subseteq Logs
    BY <1>2
  <2>2. Cardinality(bad) \in Nat
    BY <2>1, LogNumbers, FS_Subset, FS_CardinalityType
  <2> QED
    BY <1>2, <2>2 DEF IndexInv, IndexTyped
<1>6. \A l \in Logs : l.block \in Nat
  BY LogNumbers
<1>7. IndexTyped'
  BY <1>1, <1>2, <1>3, <1>5 DEF IndexInv, IndexTyped, Index!tables
<1>8. RangeInHand' /\ HalfIsBegun'
  BY <1>1, <1>2, <1>3, <1>6 DEF IndexInv, RangeInHand, HalfIsBegun
<1>9. Index!PassedIsStored'
  BY <1>1, <1>4, RowsStay DEF IndexInv, Index!PassedIsStored
<1>10. ReadIsStored'
  <2> SUFFICES ASSUME NEW l \in Logs, l.block <= up
               PROVE  Index!Stored(l)' \/ l \in skipped' \/ l.block \in asked' \/ l \in todo'
    BY <1>1 DEF ReadIsStored
  <2>1. CASE l.block <= at
    <3>1. l.block <= meta_cursor
      BY <1>3, <1>6, <2>1 DEF IndexInv, IndexTyped, RangeInHand
    <3> QED
      BY <1>1, <1>9, <3>1 DEF Index!PassedIsStored
  <2>2. CASE ~(l.block <= at)
    BY <1>2, <1>3, <1>6, <2>2
  <2> QED
    BY <2>1, <2>2
<1>11. ASSUME NEW w \in Index!Wallets \ {Index!NoWallet} PROVE CountOf(w)'
  <2>1. \A r \in Index!SwapsOf(w) : r.log.block \in Nat /\ r.log \in Logs
    BY LogNumbers DEF IndexInv, IndexTyped, Index!SwapsOf
  <2>2. Index!SwapsOf(w)' = Index!SwapsOf(w) /\ trade_count'[w] = trade_count[w]
    BY <1>1, <1>4, RowsStay DEF Index!tables
  <2>3. MustCount(w)' \subseteq MustCount(w)
    <3> SUFFICES ASSUME NEW r \in Index!SwapsOf(w), r.log.block \notin asked, r.log \notin skipped',
                        r.log.block <= meta_cursor \/ (r.log.block <= up /\ r.log \notin todo')
                 PROVE  r.log.block <= meta_cursor
      BY <1>1, <1>2, <2>2 DEF MustCount
    <3>1. CASE r.log.block <= at
      BY <1>3, <2>1, <3>1 DEF IndexInv, IndexTyped, RangeInHand
    <3>2. CASE ~(r.log.block <= at)
      BY <1>2, <1>3, <2>1, <3>2
    <3> QED
      BY <3>1, <3>2
  <2>4. Behind(w) \subseteq Behind(w)'
    BY <1>1, <2>2 DEF Behind
  <2> QED
    BY <1>4, <1>5, <2>2, <2>3, <2>4, CountKept, RowsStay
<1> QED
  BY <1>4, <1>7, <1>8, <1>9, <1>10, <1>11, RowsStay DEF IndexInv

LEMMA IndexSetCursor == ASSUME IndexInv, Index!set_cursor PROVE IndexInv'
<1>1. /\ ix = "process" /\ todo = {} /\ meta_cursor' = to /\ ix' = "health"
      /\ UNCHANGED <<tip, Index!tables, at, todo, to, half, errors, ixfaults, asked, skipped>>
  BY DEF Index!set_cursor
<1>2. UNCHANGED Index!tables /\ skipped \subseteq skipped' /\ asked \subseteq asked'
  BY <1>1
<1>3. IndexTyped' /\ RangeInHand' /\ HalfIsBegun' /\ ReadIsStored'
  BY <1>1 DEF IndexInv, IndexTyped, RangeInHand, HalfIsBegun, ReadIsStored, Index!Current, Index!tables
<1>4. Index!PassedIsStored'
  BY <1>1, <1>2, RowsStay DEF IndexInv, Index!PassedIsStored, ReadIsStored
<1>5. ASSUME NEW w \in Index!Wallets \ {Index!NoWallet} PROVE CountOf(w)'
  <2>2. Index!SwapsOf(w)' = Index!SwapsOf(w) /\ trade_count'[w] = trade_count[w]
    BY <1>1, <1>2, RowsStay DEF Index!tables
  <2>3. MustCount(w)' \subseteq MustCount(w)
    BY <1>1, <2>2 DEF MustCount
  <2>4. Behind(w) \subseteq Behind(w)'
    BY <1>1, <2>2 DEF Behind
  <2>5. ixfaults' \in Nat /\ ixfaults <= ixfaults'
    BY <1>1 DEF IndexInv, IndexTyped
  <2> QED
    BY <1>2, <2>2, <2>3, <2>4, <2>5, CountKept, RowsStay
<1> QED
  BY <1>2, <1>3, <1>4, <1>5, RowsStay DEF IndexInv

LEMMA IndexHealth == ASSUME IndexInv, Index!record_health PROVE IndexInv'
<1>1. /\ ix = "health" /\ at' = to /\ ix' = "poll"
      /\ UNCHANGED <<tip, Index!tables, meta_cursor, todo, to, half, ixfaults, asked, skipped>>
  BY DEF Index!record_health
<1>2. UNCHANGED Index!tables /\ skipped \subseteq skipped' /\ asked \subseteq asked'
  BY <1>1
<1>3. IndexTyped' /\ RangeInHand' /\ HalfIsBegun' /\ ReadIsStored'
  BY <1>1 DEF IndexInv, IndexTyped, RangeInHand, HalfIsBegun, ReadIsStored, Index!Current, Index!tables
<1>4. Index!PassedIsStored'
  BY <1>1, <1>2, RowsStay DEF IndexInv, Index!PassedIsStored
<1>5. ASSUME NEW w \in Index!Wallets \ {Index!NoWallet} PROVE CountOf(w)'
  <2>1. \A r \in Index!SwapsOf(w) : r.log.block \in Nat
    BY LogNumbers DEF IndexInv, IndexTyped, Index!SwapsOf
  <2>2. Index!SwapsOf(w)' = Index!SwapsOf(w) /\ trade_count'[w] = trade_count[w]
    BY <1>1, <1>2, RowsStay DEF Index!tables
  <2>3. MustCount(w)' \subseteq MustCount(w)
    BY <1>1, <2>2 DEF MustCount
  <2>4. Behind(w) \subseteq Behind(w)'
    BY <1>1, <2>1, <2>2 DEF Behind, IndexInv, IndexTyped, RangeInHand
  <2>5. ixfaults' \in Nat /\ ixfaults <= ixfaults'
    BY <1>1 DEF IndexInv, IndexTyped
  <2> QED
    BY <1>2, <2>2, <2>3, <2>4, <2>5, CountKept, RowsStay
<1> QED
  BY <1>2, <1>3, <1>4, <1>5, RowsStay DEF IndexInv

(* After an error every swap may be counted once more.                                    *)
LEMMA IndexError == ASSUME IndexInv, Index!source_error PROVE IndexInv'
<1>1. /\ ixfaults' = ixfaults + 1 /\ ix' \in {"down", "poll"} /\ todo' = {} /\ half' = FALSE
      /\ UNCHANGED <<tip, Index!tables, meta_cursor, at, to, asked, skipped>>
  BY DEF Index!source_error
<1>2. UNCHANGED Index!tables /\ skipped \subseteq skipped' /\ asked \subseteq asked'
  BY <1>1
<1>6. IndexTyped'
  <2>1. ixfaults' \in Nat
    BY <1>1 DEF IndexInv, IndexTyped
  <2>2. todo' \subseteq Logs /\ half' \in BOOLEAN
    BY <1>1
  <2> QED
    BY <1>1, <2>1, <2>2 DEF IndexInv, IndexTyped, Index!tables
<1>3. RangeInHand' /\ HalfIsBegun' /\ ReadIsStored'
  BY <1>1 DEF IndexInv, RangeInHand, HalfIsBegun, ReadIsStored
<1>4. Index!PassedIsStored'
  BY <1>1, <1>2, RowsStay DEF IndexInv, Index!PassedIsStored
<1>5. ASSUME NEW w \in Index!Wallets \ {Index!NoWallet} PROVE CountOf(w)'
  <2>1. Index!SwapsOf(w)' = Index!SwapsOf(w) /\ trade_count'[w] = trade_count[w]
    BY <1>1, <1>2, RowsStay DEF Index!tables
  <2>2. MustCount(w)' \subseteq MustCount(w)
    BY <1>1, <2>1 DEF MustCount
  <2>3. /\ IsFiniteSet(Index!SwapsOf(w)) /\ MustCount(w) \subseteq Index!SwapsOf(w) /\ Behind(w) \subseteq Index!SwapsOf(w)
        /\ Behind(w)' \subseteq Index!SwapsOf(w)
    BY <2>1, FS_Subset DEF IndexInv, IndexTyped, Index!SwapsOf, MustCount, Behind
  <2>4. PICK s \in Nat, m \in Nat, n \in Nat, b \in Nat, c \in Nat, f \in Nat, x \in Nat, p \in Nat :
            /\ s = Cardinality(Index!SwapsOf(w)) /\ f = ixfaults /\ x = trade_count[w] /\ p = s * f
            /\ m = Cardinality(MustCount(w)) /\ n = Cardinality(MustCount(w)')
            /\ b = Cardinality(Behind(w)) /\ c = Cardinality(Behind(w)') /\ n <= m /\ b <= s
    <3>1. IsFiniteSet(MustCount(w)) /\ IsFiniteSet(Behind(w)) /\ IsFiniteSet(Behind(w)')
          /\ IsFiniteSet(MustCount(w)')
      BY <2>2, <2>3, FS_Subset
    <3>2. /\ Cardinality(Index!SwapsOf(w)) \in Nat /\ Cardinality(MustCount(w)) \in Nat
          /\ Cardinality(MustCount(w)') \in Nat /\ Cardinality(Behind(w)) \in Nat
          /\ Cardinality(Behind(w)') \in Nat
      BY <2>3, <3>1, FS_CardinalityType
    <3>3. Cardinality(MustCount(w)') <= Cardinality(MustCount(w)) /\ Cardinality(Behind(w)) <= Cardinality(Index!SwapsOf(w))
      BY <2>2, <2>3, <3>1, FS_Subset
    <3>4. ixfaults \in Nat /\ trade_count[w] \in Nat
      BY DEF IndexInv, IndexTyped
    <3>5. Cardinality(Index!SwapsOf(w)) * ixfaults \in Nat
      BY <3>2, <3>4, MulNat
    <3> QED
      BY <3>2, <3>3, <3>4, <3>5
  <2>5. m <= x /\ x <= p + b
    BY <2>4 DEF IndexInv, CountOf
  <2>6. s * (f + 1) = p + s
    BY <2>4
  <2>7. n <= x /\ x <= s * (f + 1) + c
    BY <2>4, <2>5, <2>6
  <2> QED
    BY <1>1, <2>1, <2>4, <2>7 DEF CountOf
<1> QED
  BY <1>2, <1>3, <1>4, <1>5, <1>6, RowsStay DEF IndexInv

(* The steps that process a log: the cursor stays, and the log may be done with.             *)
Processes(l) ==
    /\ ix = "process" /\ l \in todo /\ todo' \in {todo, todo \ {l}}
    /\ UNCHANGED <<tip, meta_cursor, ix, at, to, ixfaults, asked, skipped>>
IndexRowsGrow ==
    /\ swap_rows \subseteq swap_rows' /\ pool_rows \subseteq pool_rows'
    /\ token_rows \subseteq token_rows' /\ event_rows \subseteq event_rows'

LEMMA StoredStays == ASSUME IndexRowsGrow, NEW l \in Logs, Index!Stored(l) PROVE Index!Stored(l)'
  BY LogNumbers DEF IndexRowsGrow, Index!Stored, Index!Has, Index!Kinds

LEMMA LogProcessed ==
    ASSUME IndexInv, NEW l \in Logs, Processes(l), IndexRowsGrow, todo' = todo \/ Index!Stored(l)'
    PROVE  RangeInHand' /\ ReadIsStored' /\ Index!PassedIsStored'
<1>1. RangeInHand'
  BY DEF IndexInv, RangeInHand, Processes
<1>2. Index!PassedIsStored'
  BY StoredStays DEF IndexInv, Index!PassedIsStored, Processes
<1>3. ReadIsStored'
  <2> SUFFICES ASSUME NEW k \in Logs, k.block <= to
               PROVE  Index!Stored(k)' \/ k \in skipped \/ k.block \in asked \/ k \in todo'
    BY DEF ReadIsStored, Processes
  <2>1. CASE Index!Stored(k) \/ k \in skipped \/ k.block \in asked
    BY <2>1, StoredStays
  <2>2. CASE k \in todo
    BY <2>2 DEF Processes
  <2> QED
    BY <2>1, <2>2 DEF IndexInv, ReadIsStored, Processes
<1> QED
  BY <1>1, <1>2, <1>3

(* A log that is not a swap is processed.                                                *)
LEMMA OtherProcessed ==
    ASSUME IndexInv, NEW l \in Logs, Processes(l), IndexRowsGrow, UNCHANGED <<swap_rows, trade_count>>,
           todo' = todo \/ Index!Stored(l)', l.kind \notin {"v3_swap", "v4_swap"}, half' \in BOOLEAN, HalfIsBegun'
    PROVE  IndexInv'
<1>1. IndexTyped'
  BY DEF IndexInv, IndexTyped, Processes
<1>2. OneRow' /\ Index!TokenMissingOnlyWhenReadTogether'
  BY DEF IndexInv, OneRow, Index!TokenMissingOnlyWhenReadTogether, Processes
<1>3. ASSUME NEW w \in Index!Wallets \ {Index!NoWallet} PROVE CountOf(w)'
  <2>1. Index!SwapsOf(w)' = Index!SwapsOf(w)
    BY DEF Index!SwapsOf
  <2>2. \A r \in Index!SwapsOf(w) : r.log \notin todo' <=> r.log \notin todo
    BY DEF IndexInv, IndexTyped, Index!SwapsOf, Processes
  <2>3. MustCount(w)' = MustCount(w) /\ Behind(w)' = Behind(w)
    BY <2>1, <2>2 DEF MustCount, Behind, Processes
  <2> QED
    BY <2>1, <2>3 DEF IndexInv, CountOf, Processes
<1> QED
  BY <1>1, <1>2, <1>3, LogProcessed DEF IndexInv

LEMMA IndexToken == ASSUME IndexInv, NEW l \in todo, Index!insert_token(l) PROVE IndexInv'
<1>1. /\ Index!Current(l) /\ l.kind = "launchpad" /\ token_rows' = token_rows \cup {l} /\ half' = TRUE
      /\ UNCHANGED <<tip, swap_rows, pool_rows, event_rows, trade_count, meta_cursor, ix, at, todo, to,
                     ixfaults, asked, skipped>>
  BY DEF Index!insert_token
<1>2. l \in Logs /\ todo \subseteq Logs
  BY DEF IndexInv, IndexTyped
<1>3. Processes(l) /\ IndexRowsGrow
  BY <1>1 DEF Processes, IndexRowsGrow, Index!Current
<1>4. HalfIsBegun'
  <2> SUFFICES ASSUME NEW k \in todo, Index!Current(k) PROVE k.kind = "launchpad" /\ k \in token_rows'
    BY <1>1 DEF HalfIsBegun, Index!Current
  <2> QED
    BY <1>1, <1>2, OneCurrent
<1> QED
  BY <1>1, <1>2, <1>3, <1>4, OtherProcessed

LEMMA IndexEvent == ASSUME IndexInv, NEW l \in todo, Index!insert_launchpad_event(l) PROVE IndexInv'
<1>1. /\ Index!Current(l) /\ l.kind = "launchpad" /\ event_rows' = event_rows \cup {l} /\ half /\ half' = FALSE
      /\ todo' = todo \ {l}
      /\ UNCHANGED <<tip, swap_rows, pool_rows, token_rows, trade_count, meta_cursor, ix, at, to,
                     ixfaults, asked, skipped>>
  BY DEF Index!insert_launchpad_event
<1>2. l \in Logs /\ todo \subseteq Logs
  BY DEF IndexInv, IndexTyped
<1>3. Processes(l) /\ IndexRowsGrow /\ HalfIsBegun'
  BY <1>1 DEF Processes, IndexRowsGrow, Index!Current, HalfIsBegun
<1>4. Index!Stored(l)'
  BY <1>1 DEF IndexInv, HalfIsBegun, Index!Stored
<1> QED
  BY <1>1, <1>2, <1>3, <1>4, OtherProcessed

LEMMA IndexPool == ASSUME IndexInv, NEW l \in todo, Index!insert_pool_v4(l) PROVE IndexInv'
<1>1. /\ Index!Current(l) /\ l.kind = "pool_init" /\ pool_rows' = pool_rows \cup {l.pool} /\ half' = half
      /\ todo' = todo \ {l}
      /\ UNCHANGED <<tip, swap_rows, event_rows, token_rows, trade_count, meta_cursor, ix, at, to,
                     ixfaults, asked, skipped>>
  BY DEF Index!insert_pool_v4
<1>2. l \in Logs /\ todo \subseteq Logs /\ half \in BOOLEAN
  BY DEF IndexInv, IndexTyped
<1>3. ~half
  BY <1>1 DEF IndexInv, HalfIsBegun
<1>4. Processes(l) /\ IndexRowsGrow /\ HalfIsBegun'
  BY <1>1, <1>3 DEF Processes, IndexRowsGrow, Index!Current, HalfIsBegun
<1>5. Index!Stored(l)'
  BY <1>1 DEF Index!Stored
<1> QED
  BY <1>1, <1>2, <1>3, <1>4, <1>5, OtherProcessed

LEMMA IndexSwap == ASSUME IndexInv, NEW l \in todo, Index!insert_swap(l) PROVE IndexInv'
<1> DEFINE row == [log |-> l, token |-> Index!KnownToken(l), from |-> at + 1]
<1>1. /\ Index!Current(l) /\ l.kind \in {"v3_swap", "v4_swap"}
      /\ swap_rows' = IF Index!Has(l) THEN swap_rows ELSE swap_rows \cup {row}
      /\ half' = (l.wallet # Index!NoWallet)
      /\ todo' = IF l.wallet = Index!NoWallet THEN todo \ {l} ELSE todo
      /\ UNCHANGED <<tip, pool_rows, token_rows, event_rows, trade_count, meta_cursor, ix, at, to,
                     ixfaults, asked, skipped>>
  BY DEF Index!insert_swap
<1>2. l \in Logs /\ todo \subseteq Logs /\ at \in Int /\ meta_cursor \in Int
  BY DEF IndexInv, IndexTyped
<1>3. row.log = l /\ row.token = Index!KnownToken(l) /\ row.from = at + 1
  OBVIOUS
<1> HIDE DEF row
<1>4. Processes(l) /\ IndexRowsGrow
  BY <1>1 DEF Processes, IndexRowsGrow, Index!Current
<1>5. Index!Has(l)'
  BY <1>1, <1>3 DEF Index!Has
<1>6. Index!Stored(l)'
  BY <1>1, <1>5 DEF Index!Stored
<1>7. HalfIsBegun'
  <2> SUFFICES ASSUME half', NEW k \in todo, Index!Current(k) PROVE k = l
    BY <1>1, <1>5 DEF HalfIsBegun, Index!Current
  <2> QED
    BY <1>1, <1>2, OneCurrent
<1>8. IsFiniteSet(swap_rows')
  BY <1>1, FS_AddElement DEF IndexInv, IndexTyped
<1>9. IndexTyped'
  <2>1. \A r \in swap_rows' : r.log \in Logs /\ r.log.kind \in {"v3_swap", "v4_swap"} /\ r.from \in Int
    BY <1>1, <1>2, <1>3 DEF IndexInv, IndexTyped
  <2>2. half' \in BOOLEAN /\ todo' \subseteq Logs
    BY <1>1, <1>2
  <2> QED
    BY <1>1, <1>8, <2>1, <2>2 DEF IndexInv, IndexTyped
<1>10. OneRow'
  <2>1. CASE Index!Has(l)
    BY <1>1, <2>1 DEF IndexInv, OneRow
  <2>2. CASE ~Index!Has(l)
    <3>1. \A r \in swap_rows : r.log # l
      BY <2>2 DEF Index!Has
    <3> QED
      BY <1>1, <1>3, <2>2, <3>1 DEF IndexInv, OneRow
  <2> QED
    BY <2>1, <2>2
<1>11. Index!TokenMissingOnlyWhenReadTogether'
  <2> SUFFICES ASSUME NEW r \in swap_rows', r.log.kind = "v4_swap", r.token = Index!NoToken, NEW k \in Logs,
                      k.kind = "pool_init", k.pool = r.log.pool
               PROVE  k.block >= r.from \/ k \in skipped \/ k.block \in asked
    BY <1>1 DEF Index!TokenMissingOnlyWhenReadTogether
  <2>1. CASE r \in swap_rows
    BY <2>1 DEF IndexInv, Index!TokenMissingOnlyWhenReadTogether
  <2>2. CASE r = row
    <3>1. k.pool \notin pool_rows
      BY <1>3, <2>2, LogNumbers DEF Index!KnownToken
    <3>2. ~Index!Stored(k)
      BY <3>1 DEF Index!Stored
    <3>3. k.block \in Nat /\ at <= meta_cursor
      BY LogNumbers DEF IndexInv, RangeInHand
    <3>4. CASE k.block <= meta_cursor
      BY <3>2, <3>4 DEF IndexInv, Index!PassedIsStored
    <3>5. CASE ~(k.block <= meta_cursor)
      BY <1>2, <1>3, <2>2, <3>3, <3>5
    <3> QED
      BY <3>4, <3>5
  <2> QED
    BY <1>1, <2>1, <2>2
<1>12. ASSUME NEW w \in Index!Wallets \ {Index!NoWallet} PROVE CountOf(w)'
  <2>1. Index!SwapsOf(w) \subseteq Index!SwapsOf(w)'
    BY <1>4 DEF Index!SwapsOf, IndexRowsGrow
  <2>2. \A r \in Index!SwapsOf(w)' : r.log \in todo' <=> r.log \in todo
    BY <1>1 DEF Index!SwapsOf
  <2>3. MustCount(w)' \subseteq MustCount(w)
    <3> SUFFICES ASSUME NEW r \in MustCount(w)' PROVE r \in swap_rows
      BY <1>1, <2>2 DEF MustCount, Index!SwapsOf
    <3>1. CASE r = row /\ ~Index!Has(l)
      <4>1. r.log \in todo' /\ r.log.block \notin asked /\ r.log \notin skipped
        BY <1>1, <1>3, <2>2, <3>1 DEF MustCount
      <4>2. l.block <= meta_cursor
        BY <1>1, <1>3, <3>1, <4>1 DEF MustCount
      <4>3. ~Index!Stored(l)
        BY <1>1, <3>1 DEF Index!Stored
      <4> QED
        BY <1>2, <1>3, <3>1, <4>1, <4>2, <4>3 DEF IndexInv, Index!PassedIsStored
    <3> QED
      BY <1>1, <3>1 DEF MustCount, Index!SwapsOf
  <2>4. Behind(w) \subseteq Behind(w)'
    BY <1>1, <2>1, <2>2 DEF Behind
  <2>5. ixfaults' \in Nat /\ ixfaults <= ixfaults' /\ trade_count'[w] = trade_count[w]
    BY <1>1 DEF IndexInv, IndexTyped
  <2> QED
    BY <1>8, <2>1, <2>3, <2>4, <2>5, CountKept
<1> QED
  BY <1>2, <1>4, <1>6, <1>7, <1>9, <1>10, <1>11, <1>12, LogProcessed DEF IndexInv

LEMMA IndexUpsert == ASSUME IndexInv, NEW l \in todo, Index!upsert_wallet(l) PROVE IndexInv'
<1>1. /\ Index!Current(l) /\ l.kind \in {"v3_swap", "v4_swap"} /\ half
      /\ trade_count' = [trade_count EXCEPT ![l.wallet] = @ + 1] /\ half' = FALSE /\ todo' = todo \ {l}
      /\ UNCHANGED <<tip, swap_rows, pool_rows, token_rows, event_rows, meta_cursor, ix, at, to,
                     ixfaults, asked, skipped>>
  BY DEF Index!upsert_wallet
<1>2. l \in Logs /\ todo \subseteq Logs /\ l.wallet \in Index!Wallets
  BY DEF IndexInv, IndexTyped, Index!Wallets
<1>3. /\ trade_count' \in [Index!Wallets -> Nat] /\ trade_count'[l.wallet] = trade_count[l.wallet] + 1
      /\ \A w \in Index!Wallets : w # l.wallet => trade_count'[w] = trade_count[w]
  BY <1>1, <1>2 DEF IndexInv, IndexTyped
<1>4. Processes(l) /\ IndexRowsGrow /\ HalfIsBegun'
  BY <1>1 DEF Processes, IndexRowsGrow, Index!Current, HalfIsBegun
<1>5. Index!Has(l)
  BY <1>1 DEF IndexInv, HalfIsBegun
<1>6. Index!Stored(l)'
  BY <1>1, <1>5 DEF Index!Stored, Index!Has
<1>7. IndexTyped'
  BY <1>1, <1>2, <1>3 DEF IndexInv, IndexTyped
<1>8. OneRow' /\ Index!TokenMissingOnlyWhenReadTogether'
  BY <1>1 DEF IndexInv, OneRow, Index!TokenMissingOnlyWhenReadTogether
<1>9. ix = "process" /\ at < l.block /\ l.block <= to /\ l.block \in Nat /\ at \in Int
  BY <1>1, <1>2, LogNumbers DEF Index!Current, IndexInv, IndexTyped, RangeInHand
<1>10. ASSUME NEW w \in Index!Wallets \ {Index!NoWallet} PROVE CountOf(w)'
  <2>1. Index!SwapsOf(w)' = Index!SwapsOf(w) /\ IsFiniteSet(Index!SwapsOf(w))
    BY <1>1, FS_Subset DEF Index!SwapsOf, IndexInv, IndexTyped
  <2>2. Behind(w) \subseteq Behind(w)'
    BY <1>1, <2>1 DEF Behind
  <2>3. CASE w # l.wallet
    <3>1. \A r \in Index!SwapsOf(w) : r.log # l
      BY <2>3 DEF Index!SwapsOf
    <3>2. MustCount(w)' \subseteq MustCount(w)
      BY <1>1, <2>1, <3>1 DEF MustCount
    <3>3. ixfaults' \in Nat /\ ixfaults <= ixfaults' /\ IsFiniteSet(swap_rows')
      BY <1>1 DEF IndexInv, IndexTyped
    <3> QED
      BY <1>3, <2>1, <2>2, <2>3, <3>2, <3>3, CountKept
  <2>4. CASE w = l.wallet
    <3>1. PICK q \in Index!SwapsOf(w) : q.log = l
      BY <1>5, <2>4 DEF Index!Has, Index!SwapsOf
    <3>2. MustCount(w)' \subseteq MustCount(w) \cup {q}
      <4> SUFFICES ASSUME NEW r \in MustCount(w)', r # q PROVE r \in MustCount(w)
        OBVIOUS
      <4>1. r.log # l
        BY <2>1, <3>1 DEF MustCount, Index!SwapsOf, IndexInv, OneRow
      <4> QED
        BY <1>1, <2>1, <4>1 DEF MustCount
    <3>3. Behind(w) \cup {q} \subseteq Behind(w)'
      BY <1>1, <1>9, <2>1, <2>2, <3>1 DEF Behind
    <3>4. q \notin Behind(w)
      BY <1>1, <1>9, <3>1 DEF Behind, Index!Current
    <3>5. /\ IsFiniteSet(MustCount(w)) /\ IsFiniteSet(Behind(w)) /\ IsFiniteSet(Behind(w)')
          /\ IsFiniteSet(MustCount(w)')
      <4>1. /\ MustCount(w) \subseteq Index!SwapsOf(w) /\ Behind(w) \subseteq Index!SwapsOf(w)
            /\ MustCount(w)' \subseteq Index!SwapsOf(w) /\ Behind(w)' \subseteq Index!SwapsOf(w)
        BY <2>1 DEF MustCount, Behind
      <4> QED
        BY <2>1, <4>1, FS_Subset
    <3>6. /\ IsFiniteSet(MustCount(w) \cup {q}) /\ Cardinality(MustCount(w) \cup {q}) <= Cardinality(MustCount(w)) + 1
      <4>1. IsFiniteSet(MustCount(w) \cup {q}) /\ Cardinality(MustCount(w)) \in Nat
            /\ Cardinality(MustCount(w) \cup {q}) \in {Cardinality(MustCount(w)), Cardinality(MustCount(w)) + 1}
        BY <3>5, FS_AddElement, FS_CardinalityType
      <4> QED
        BY <4>1
    <3>7. /\ IsFiniteSet(Behind(w) \cup {q}) /\ Cardinality(Behind(w) \cup {q}) = Cardinality(Behind(w)) + 1
      BY <3>4, <3>5, FS_AddElement
    <3>8. PICK p \in Nat, m \in Nat, n \in Nat, b \in Nat, c \in Nat, x \in Nat :
              /\ p = Cardinality(Index!SwapsOf(w)) * ixfaults /\ x = trade_count[w]
              /\ m = Cardinality(MustCount(w)) /\ n = Cardinality(MustCount(w)')
              /\ b = Cardinality(Behind(w)) /\ c = Cardinality(Behind(w)') /\ n <= m + 1 /\ b + 1 <= c
      <4>1. /\ Cardinality(Index!SwapsOf(w)) \in Nat /\ Cardinality(MustCount(w)) \in Nat
            /\ Cardinality(MustCount(w)') \in Nat /\ Cardinality(Behind(w)) \in Nat
            /\ Cardinality(Behind(w)') \in Nat /\ Cardinality(MustCount(w) \cup {q}) \in Nat
        BY <2>1, <3>5, <3>6, FS_CardinalityType
      <4>2. /\ Cardinality(MustCount(w)') <= Cardinality(MustCount(w) \cup {q})
            /\ Cardinality(Behind(w) \cup {q}) <= Cardinality(Behind(w)')
        BY <3>2, <3>3, <3>5, <3>6, <3>7, FS_Subset
      <4>3. ixfaults \in Nat /\ trade_count[w] \in Nat
        BY DEF IndexInv, IndexTyped
      <4>4. Cardinality(Index!SwapsOf(w)) * ixfaults \in Nat
        BY <4>1, <4>3, MulNat
      <4>5. /\ Cardinality(MustCount(w)') <= Cardinality(MustCount(w)) + 1
            /\ Cardinality(Behind(w)) + 1 <= Cardinality(Behind(w)')
        BY <3>6, <3>7, <4>1, <4>2
      <4> QED
        BY <4>1, <4>3, <4>4, <4>5
    <3>9. m <= x /\ x <= p + b
      BY <3>8 DEF IndexInv, CountOf
    <3>10. n <= x + 1 /\ x + 1 <= p + c
      BY <3>8, <3>9
    <3>11. trade_count'[w] = x + 1 /\ Cardinality(Index!SwapsOf(w)') * ixfaults' = p
      BY <1>1, <1>3, <2>1, <2>4, <3>8
    <3> QED
      BY <3>8, <3>10, <3>11 DEF CountOf
  <2> QED
    BY <2>3, <2>4
<1> QED
  BY <1>2, <1>4, <1>6, <1>7, <1>8, <1>10, LogProcessed DEF IndexInv

LEMMA IndexKept == ASSUME IndexInv, [Index!Next]_(Index!ixVars) PROVE IndexInv'
<1>1. CASE UNCHANGED Index!ixVars
  <2>1. tip' \in Nat
    BY <1>1 DEF Index!ixVars, IndexInv, IndexTyped
  <2> QED
    BY <1>1, <2>1, IndexWaits DEF Index!ixVars, Index!tables
<1>2. CASE Index!NewTip \/ Index!poll \/ Index!set_cursor \/ Index!record_health \/ Index!stop \/ Index!source_error
  BY <1>2, IndexNewTip, IndexPoll, IndexSetCursor, IndexHealth, IndexStop, IndexError
<1>3. CASE \E f \in Starts : Index!start(f)
  BY <1>3, IndexStart
<1>4. CASE \E l \in todo : Index!insert_swap(l) \/ Index!upsert_wallet(l) \/ Index!insert_token(l)
                           \/ Index!insert_launchpad_event(l) \/ Index!insert_pool_v4(l)
  BY <1>4, IndexSwap, IndexUpsert, IndexToken, IndexEvent, IndexPool
<1> QED
  BY <1>1, <1>2, <1>3, <1>4 DEF Index!Next

LEMMA IndexIsFaithful == ASSUME IndexInv PROVE Index!IndexFaithful
<1>1. ASSUME NEW w \in Index!Wallets \ {Index!NoWallet}
      PROVE  /\ trade_count[w] >= Cardinality({r \in Index!SwapsOf(w) : Index!Passed(r)})
             /\ trade_count[w] <= Cardinality(Index!SwapsOf(w)) * (1 + ixfaults)
  <2> DEFINE P == {r \in Index!SwapsOf(w) : Index!Passed(r)}
  <2>1. P \subseteq MustCount(w) /\ MustCount(w) \subseteq Index!SwapsOf(w) /\ Behind(w) \subseteq Index!SwapsOf(w)
    BY DEF MustCount, Behind, Index!Passed
  <2>2. IsFiniteSet(Index!SwapsOf(w))
    BY FS_Subset DEF IndexInv, IndexTyped, Index!SwapsOf
  <2>3. IsFiniteSet(MustCount(w)) /\ IsFiniteSet(Behind(w)) /\ IsFiniteSet(P)
    BY <2>1, <2>2, FS_Subset
  <2> HIDE DEF P
  <2>4. PICK s \in Nat, f \in Nat, t \in Nat, m \in Nat, b \in Nat, x \in Nat, p \in Nat :
            /\ s = Cardinality(Index!SwapsOf(w)) /\ f = ixfaults /\ t = s * f
            /\ m = Cardinality(MustCount(w)) /\ b = Cardinality(Behind(w))
            /\ x = trade_count[w] /\ p = Cardinality(P) /\ p <= m /\ b <= s
    <3>1. /\ Cardinality(Index!SwapsOf(w)) \in Nat /\ Cardinality(MustCount(w)) \in Nat
          /\ Cardinality(Behind(w)) \in Nat /\ Cardinality(P) \in Nat
      BY <2>2, <2>3, FS_CardinalityType
    <3>2. Cardinality(P) <= Cardinality(MustCount(w)) /\ Cardinality(Behind(w)) <= Cardinality(Index!SwapsOf(w))
      BY <2>1, <2>2, <2>3, FS_Subset
    <3>3. ixfaults \in Nat /\ trade_count[w] \in Nat
      BY DEF IndexInv, IndexTyped
    <3>4. Cardinality(Index!SwapsOf(w)) * ixfaults \in Nat
      BY <3>1, <3>3, MulNat
    <3> QED
      BY <3>1, <3>2, <3>3, <3>4
  <2>5. m <= x /\ x <= t + b
    BY <2>4 DEF IndexInv, CountOf
  <2>6. s * (1 + f) = t + s
    BY <2>4
  <2>7. x >= p /\ x <= s * (1 + f)
    BY <2>4, <2>5, <2>6
  <2> QED
    BY <2>4, <2>7 DEF P
<1> QED
  BY <1>1 DEF IndexInv, Index!IndexFaithful, Index!CountsFollowSwaps, Index!Cardinality, Cardinality

IndexPart == work_part = "index" => IndexInv

LEMMA IndexPartKept == ASSUME IndexPart, [WorkNext]_workVars PROVE IndexPart'
<1>1. CASE IndexStep
  BY <1>1, IndexKept DEF IndexStep, IndexPart
<1>2. CASE work_part' = work_part /\ UNCHANGED indexVars
  <2>1. UNCHANGED Index!ixVars
    BY <1>2 DEF indexVars, Index!ixVars
  <2> QED
    BY <1>2, <2>1, IndexKept DEF IndexPart
<1>3. CASE UNCHANGED workVars
  BY <1>3, <1>2 DEF workVars
<1>4. CASE WorkNext /\ ~IndexStep
  BY <1>4, <1>2 DEF WorkNext, CopyStep, PreorderStep, FeedStep, RuleStep, PnlStep, ScoreStep, BackfillStep,
     SenderStep, ReportStep, IngestStep
<1> QED
  BY <1>1, <1>3, <1>4

(* Event indexer (service.py, processor.py): a swap, token or event the stored cursor has    *)
(* passed is stored, a swap without its token was read together with it, and a wallet's     *)
(* count is its swaps but for rows counted again after a fault.                           *)
THEOREM IndexerKeepsPromises == WorkSpec => [](work_part = "index" => Index!IndexFaithful)
<1>1. WorkInit => IndexPart
  BY IndexStarts DEF WorkInit, IndexPart
<1>2. IndexPart /\ [WorkNext]_workVars => IndexPart'
  BY IndexPartKept
<1>3. IndexPart => (work_part = "index" => Index!IndexFaithful)
  BY IndexIsFaithful DEF IndexPart
<1> QED
  BY <1>1, <1>2, <1>3, PTL DEF WorkSpec

-----------------------------------------------------------------------------
(* Senders: what the records are.                                                       *)
Keys == Send!TxBlocks \cup {t.id : t \in Txs}
ResolverRow ==
    [step : {"rest", "ask", "insert", "mark", "materialize", "final"}, mode : {"block", "tx"},
     wanted : SUBSET Send!TxBlocks, pending : SUBSET Keys, next : SUBSET Keys, asked : SUBSET Keys,
     got : SUBSET Keys, attempt : Nat, chunks : Nat, at : Int, hi : Int, final : BOOLEAN]
ResolversTyped ==
    /\ swap_txs \subseteq Txs /\ tx_senders \in [Txs -> {"absent", "null", "known"}]
    /\ worker \in [Resolvers -> ResolverRow]
    /\ misses \in [Resolvers -> [Send!TxBlocks -> Nat]] /\ due \in [Resolvers -> SUBSET Txs]

(* What was asked is pending until the answer is stored, and what is marked was stored.   *)
AskedIsPending(w) ==
    /\ worker[w].step = "ask" => worker[w].asked = {}
    /\ worker[w].step \in {"insert", "mark", "materialize"} =>
           worker[w].got \subseteq worker[w].asked /\ worker[w].asked \subseteq worker[w].pending
    /\ worker[w].step \in {"mark", "materialize"} => worker[w].mode = "block"
GotIsKnown(w) ==
    worker[w].step = "mark" => \A t \in Txs : t.block \in worker[w].got => tx_senders[t] # "absent"

(* Of a run over blocks: those that this pass missed, and those it has still to resolve.  *)
Unmarked(w) == worker[w].step \in {"insert", "mark"}
Missed(w) == worker[w].next \cup (IF Unmarked(w) THEN worker[w].asked \ worker[w].got ELSE {})
ToResolve(w) ==
    worker[w].pending \ (IF Unmarked(w) THEN worker[w].asked \ worker[w].got ELSE worker[w].asked)
NoneLeftOut(w) ==
    (worker[w].mode = "block" /\ worker[w].step \in {"ask", "insert", "mark", "materialize"}) =>
        /\ worker[w].attempt < MaxAttempts
        /\ ToResolve(w) \cap Missed(w) = {}
        /\ \A b \in worker[w].wanted :
              \/ b \in resolved_blocks
              \/ b \in Missed(w) /\ misses[w][b] = worker[w].attempt + 1
              \/ b \in ToResolve(w) /\ misses[w][b] = worker[w].attempt

(* A final materialization has labelled what it owes below the block it has reached.      *)
LabelledSoFar(w) ==
    worker[w].step = "final" => \A t \in due[w] :
        /\ t \in swap_txs /\ tx_senders[t] = "known" /\ t.block < worker[w].hi
        /\ worker[w].at <= t.block \/ t \in traders

ResolverInv(w) == AskedIsPending(w) /\ GotIsKnown(w) /\ NoneLeftOut(w) /\ LabelledSoFar(w)
ResolversInv ==
    /\ ResolversTyped /\ Send!ResolvedIsKnown /\ Send!KnownIsLabelled
    /\ \A w \in Resolvers : ResolverInv(w)

LEMMA SmallerOf ==
    ASSUME NEW a \in Int, NEW b \in Int
    PROVE  Send!Min({a, b}) \in {a, b} /\ Send!Min({a, b}) <= a /\ Send!Min({a, b}) <= b
<1>1. \E x \in {a, b} : \A y \in {a, b} : x <= y
  OBVIOUS
<1> QED
  BY <1>1 DEF Send!Min

(* What a step of one worker, or of the feed, may do to the tables.                        *)
SendersGrow ==
    /\ swap_txs \subseteq swap_txs' /\ resolved_blocks \subseteq resolved_blocks'
    /\ traders \subseteq traders'
    /\ \A t \in Txs : tx_senders[t] # "absent" => tx_senders'[t] = tx_senders[t]

LEMMA OtherResolver ==
    ASSUME ResolversInv, SendersGrow, NEW v \in Resolvers, worker'[v] = worker[v],
           misses'[v] = misses[v], due'[v] = due[v]
    PROVE  ResolverInv(v)'
<1>1. AskedIsPending(v)'
  BY DEF ResolversInv, ResolverInv, AskedIsPending
<1>2. GotIsKnown(v)'
  BY DEF ResolversInv, ResolverInv, GotIsKnown, SendersGrow
<1>3. Missed(v)' = Missed(v) /\ ToResolve(v)' = ToResolve(v)
  BY DEF Missed, ToResolve, Unmarked
<1>4. NoneLeftOut(v)'
  BY <1>3 DEF ResolversInv, ResolverInv, NoneLeftOut, SendersGrow
<1>5. LabelledSoFar(v)'
  <2> SUFFICES ASSUME worker[v].step = "final", NEW t \in due[v]
               PROVE  /\ t \in swap_txs' /\ tx_senders'[t] = "known" /\ t.block < worker[v].hi
                      /\ worker[v].at <= t.block \/ t \in traders'
    BY DEF LabelledSoFar
  <2>1. t \in Txs
    BY DEF ResolversInv, ResolversTyped
  <2>2. t \in swap_txs /\ tx_senders[t] = "known" /\ t.block < worker[v].hi
        /\ (worker[v].at <= t.block \/ t \in traders)
    BY DEF ResolversInv, ResolverInv, LabelledSoFar
  <2> QED
    BY <2>1, <2>2 DEF SendersGrow
<1> QED
  BY <1>1, <1>2, <1>4, <1>5 DEF ResolverInv

ResolverTables ==
    /\ swap_txs \subseteq Txs /\ tx_senders \in [Txs -> {"absent", "null", "known"}]
    /\ misses \in [Resolvers -> [Send!TxBlocks -> Nat]] /\ due \in [Resolvers -> SUBSET Txs]

LEMMA ResolverMoves ==
    ASSUME ResolversInv, NEW w \in Resolvers, NEW f \in ResolverRow, worker' = [worker EXCEPT ![w] = f],
           SendersGrow, ResolverTables', Send!ResolvedIsKnown', Send!KnownIsLabelled',
           \A v \in Resolvers : v # w => misses'[v] = misses[v] /\ due'[v] = due[v],
           worker'[w] = f => ResolverInv(w)'
    PROVE  ResolversInv'
<1>1. worker' \in [Resolvers -> ResolverRow] /\ worker'[w] = f
      /\ \A v \in Resolvers : v # w => worker'[v] = worker[v]
  BY DEF ResolversInv, ResolversTyped
<1>2. ResolversTyped'
  BY <1>1 DEF ResolversTyped, ResolverTables
<1>3. ASSUME NEW v \in Resolvers PROVE ResolverInv(v)'
  BY <1>1, OtherResolver
<1> QED
  BY <1>2, <1>3 DEF ResolversInv

(* Steps that leave the tables alone.                                                    *)
LEMMA TablesStay ==
    ASSUME ResolversInv, UNCHANGED <<Send!senderTables, owed>>
    PROVE  /\ SendersGrow /\ Send!ResolvedIsKnown' /\ Send!KnownIsLabelled'
           /\ (UNCHANGED <<misses, due>> => ResolverTables')
<1>1. UNCHANGED <<swap_txs, tx_senders, resolved_blocks, traders, owed>>
  BY DEF Send!senderTables
<1>2. SendersGrow
  BY <1>1 DEF SendersGrow
<1>3. Send!ResolvedIsKnown' /\ Send!KnownIsLabelled'
  BY <1>1 DEF ResolversInv, Send!ResolvedIsKnown, Send!KnownIsLabelled
<1>4. UNCHANGED <<misses, due>> => ResolverTables'
  BY <1>1 DEF ResolversInv, ResolversTyped, ResolverTables
<1> QED
  BY <1>2, <1>3, <1>4

LEMMA RestIsRow ==
    /\ Send!Resting \in ResolverRow /\ Send!Resting.asked = {} /\ Send!Resting.got = {} /\ Send!Resting.next = {}
    /\ Send!Resting.mode = "block" /\ Send!Resting.attempt = 0 /\ Send!Resting.step = "rest"
  BY DEF Send!Resting, ResolverRow

LEMMA SendersStart == ASSUME Send!Init PROVE ResolversInv
<1>1. ResolversTyped
  <2>1. swap_txs \subseteq Txs /\ tx_senders \in [Txs -> {"absent", "null", "known"}]
    BY DEF Send!Init
  <2>2. worker \in [Resolvers -> ResolverRow]
    BY RestIsRow DEF Send!Init
  <2>3. misses \in [Resolvers -> [Send!TxBlocks -> Nat]] /\ due \in [Resolvers -> SUBSET Txs]
    BY DEF Send!Init
  <2> QED
    BY <2>1, <2>2, <2>3 DEF ResolversTyped
<1>2. Send!ResolvedIsKnown /\ Send!KnownIsLabelled
  BY DEF Send!Init, Send!ResolvedIsKnown, Send!KnownIsLabelled
<1>3. ASSUME NEW w \in Resolvers PROVE ResolverInv(w)
  <2>1. worker[w].step = "rest"
    BY DEF Send!Init, Send!Resting
  <2> QED
    BY <2>1 DEF ResolverInv, AskedIsPending, GotIsKnown, NoneLeftOut, LabelledSoFar
<1> QED
  BY <1>1, <1>2, <1>3 DEF ResolversInv

LEMMA SendersWait == ASSUME ResolversInv, UNCHANGED Send!senderVars PROVE ResolversInv'
<1>1. UNCHANGED <<swap_txs, tx_senders, resolved_blocks, traders, worker, misses, due, owed>>
  BY DEF Send!senderVars
<1>2. SendersGrow /\ Send!ResolvedIsKnown' /\ Send!KnownIsLabelled'
  BY <1>1, TablesStay DEF Send!senderTables
<1>3. ResolversTyped'
  BY <1>1 DEF ResolversInv, ResolversTyped
<1> QED
  BY <1>1, <1>2, <1>3, OtherResolver DEF ResolversInv

LEMMA SwapStored == ASSUME ResolversInv, NEW t \in Txs, Send!insert_swaps(t) PROVE ResolversInv'
<1>1. swap_txs' = swap_txs \cup {t}
      /\ UNCHANGED <<tx_senders, resolved_blocks, traders, worker, misses, due, owed>>
  BY DEF Send!insert_swaps
<1>2. SendersGrow /\ Send!ResolvedIsKnown' /\ Send!KnownIsLabelled'
  BY <1>1 DEF SendersGrow, ResolversInv, Send!ResolvedIsKnown, Send!KnownIsLabelled
<1>3. ResolversTyped'
  BY <1>1 DEF ResolversInv, ResolversTyped
<1> QED
  BY <1>1, <1>2, <1>3, OtherResolver DEF ResolversInv

LEMMA ResolverStops ==
    ASSUME ResolversInv, NEW w \in Resolvers, worker' = [worker EXCEPT ![w] = Send!Resting],
           UNCHANGED <<Send!senderTables, misses, due, owed>>
    PROVE  ResolversInv'
<1>1. SendersGrow /\ Send!ResolvedIsKnown' /\ Send!KnownIsLabelled' /\ ResolverTables'
  BY TablesStay
<1>2. worker'[w] = Send!Resting => ResolverInv(w)'
  <2>1. Send!Resting.step = "rest"
    BY DEF Send!Resting
  <2> QED
    BY <2>1 DEF ResolverInv, AskedIsPending, GotIsKnown, NoneLeftOut, LabelledSoFar
<1> QED
  BY <1>1, <1>2, RestIsRow, ResolverMoves

LEMMA ResolverRuns ==
    ASSUME ResolversInv, NEW w \in Resolvers, NEW final \in BOOLEAN, Send!run(w, final)
    PROVE  ResolversInv'
<1> DEFINE f == [Send!Resting EXCEPT !.step = "ask", !.mode = "tx", !.final = final,
                     !.pending = {t.id : t \in {s \in swap_txs : tx_senders[s] = "absent"}}]
<1>1. worker' = [worker EXCEPT ![w] = f] /\ UNCHANGED <<Send!senderTables, misses, due, owed>>
  BY DEF Send!run
<1>2. f \in ResolverRow /\ f.step = "ask" /\ f.mode = "tx" /\ f.asked = {}
  <2>1. {t.id : t \in {s \in swap_txs : tx_senders[s] = "absent"}} \in SUBSET Keys
    BY DEF ResolversInv, ResolversTyped, Keys
  <2> QED
    BY <2>1, RestIsRow DEF ResolverRow
<1> HIDE DEF f
<1>3. SendersGrow /\ Send!ResolvedIsKnown' /\ Send!KnownIsLabelled' /\ ResolverTables'
  BY <1>1, TablesStay
<1>4. worker'[w] = f => ResolverInv(w)'
  BY <1>2 DEF ResolverInv, AskedIsPending, GotIsKnown, NoneLeftOut, LabelledSoFar
<1> QED
  BY <1>1, <1>2, <1>3, <1>4, ResolverMoves

LEMMA ResolverRunsBlocks ==
    ASSUME ResolversInv, NEW w \in Resolvers, NEW lo, NEW hi, NEW final \in BOOLEAN,
           Send!run_blocks(w, lo, hi, final)
    PROVE  ResolversInv'
<1> DEFINE asks == Send!distinct_swap_blocks_range(lo, hi) \ resolved_blocks
           f == [Send!Resting EXCEPT !.step = "ask", !.final = final, !.wanted = asks, !.pending = asks]
<1>1. /\ worker' = [worker EXCEPT ![w] = f] /\ misses' = [misses EXCEPT ![w] = [b \in Send!TxBlocks |-> 0]]
      /\ UNCHANGED <<Send!senderTables, due, owed>>
  BY DEF Send!run_blocks
<1>2. asks \subseteq Send!TxBlocks
  BY DEF Send!distinct_swap_blocks_range, Send!TxBlocks, ResolversInv, ResolversTyped
<1> HIDE DEF asks
<1>3. /\ f \in ResolverRow /\ f.step = "ask" /\ f.mode = "block" /\ f.asked = {} /\ f.wanted = asks
      /\ f.pending = asks /\ f.next = {} /\ f.attempt = 0
  BY <1>2, RestIsRow DEF ResolverRow, Keys
<1> HIDE DEF f
<1>4. SendersGrow /\ Send!ResolvedIsKnown' /\ Send!KnownIsLabelled'
  BY <1>1, TablesStay
<1>5. ResolverTables' /\ \A b \in Send!TxBlocks : misses'[w][b] = 0
  <2>1. misses' \in [Resolvers -> [Send!TxBlocks -> Nat]] /\ misses'[w] = [b \in Send!TxBlocks |-> 0]
    BY <1>1 DEF ResolversInv, ResolversTyped
  <2> QED
    BY <1>1, <2>1 DEF ResolversInv, ResolversTyped, ResolverTables, Send!senderTables
<1>6. ASSUME worker'[w] = f PROVE ResolverInv(w)'
  <2>1. Missed(w)' = {} /\ ToResolve(w)' = asks
    BY <1>3, <1>6 DEF Missed, ToResolve, Unmarked
  <2>2. NoneLeftOut(w)'
    BY <1>2, <1>3, <1>5, <1>6, <2>1, TxNumbers DEF NoneLeftOut
  <2> QED
    BY <1>3, <1>6, <2>2 DEF ResolverInv, AskedIsPending, GotIsKnown, LabelledSoFar
<1>7. \A v \in Resolvers : v # w => misses'[v] = misses[v] /\ due'[v] = due[v]
  BY <1>1 DEF ResolversInv, ResolversTyped
<1> QED
  BY <1>1, <1>3, <1>4, <1>5, <1>6, <1>7, ResolverMoves

LEMMA ResolverAsks == ASSUME ResolversInv, NEW w \in Resolvers, Send!ask(w) PROVE ResolversInv'
<1> DEFINE all == Send!Lowest(worker[w].pending, BatchSize)
<1>1. PICK got \in SUBSET all :
          /\ worker' = [worker EXCEPT ![w].step = "insert", ![w].asked = all, ![w].got = got]
          /\ misses' = IF worker[w].mode = "tx" THEN misses
                       ELSE [misses EXCEPT ![w] = [b \in Send!TxBlocks |-> @[b] + IF b \in all \ got THEN 1 ELSE 0]]
  BY DEF Send!ask
<1>2. worker[w].step = "ask" /\ UNCHANGED <<Send!senderTables, due, owed>>
  BY DEF Send!ask
<1>3. all \subseteq worker[w].pending
  BY DEF Send!Lowest
<1> HIDE DEF all
<1> DEFINE f == [worker[w] EXCEPT !.step = "insert", !.asked = all, !.got = got]
<1>4. worker[w] \in ResolverRow /\ misses \in [Resolvers -> [Send!TxBlocks -> Nat]]
  BY DEF ResolversInv, ResolversTyped
<1>5. /\ f \in ResolverRow /\ f.step = "insert" /\ f.mode = worker[w].mode /\ f.asked = all /\ f.got = got
      /\ f.wanted = worker[w].wanted /\ f.pending = worker[w].pending /\ f.next = worker[w].next
      /\ f.attempt = worker[w].attempt
  BY <1>3, <1>4 DEF ResolverRow
<1>6. worker' = [worker EXCEPT ![w] = f]
  BY <1>1, <1>4 DEF ResolverRow
<1> HIDE DEF f
<1>7. SendersGrow /\ Send!ResolvedIsKnown' /\ Send!KnownIsLabelled'
  BY <1>2, TablesStay
<1> DEFINE asked1 == [b \in Send!TxBlocks |-> misses[w][b] + IF b \in all \ got THEN 1 ELSE 0]
<1>8. asked1 \in [Send!TxBlocks -> Nat]
  BY <1>4
<1>9. /\ ResolverTables' /\ \A v \in Resolvers : v # w => misses'[v] = misses[v] /\ due'[v] = due[v]
      /\ worker[w].mode = "block" =>
             \A b \in Send!TxBlocks : misses'[w][b] = misses[w][b] + IF b \in all \ got THEN 1 ELSE 0
  <2>1. worker[w].mode # "tx" => misses' = [misses EXCEPT ![w] = asked1]
    BY <1>1, <1>4
  <2>2. /\ misses' \in [Resolvers -> [Send!TxBlocks -> Nat]]
        /\ \A v \in Resolvers : v # w => misses'[v] = misses[v]
        /\ worker[w].mode = "block" => misses'[w] = asked1
    <3>1. CASE worker[w].mode = "tx"
      BY <1>1, <1>4, <3>1
    <3>2. CASE worker[w].mode # "tx"
      <4> HIDE DEF asked1
      <4> QED
        BY <1>4, <1>8, <2>1, <3>2
    <3> QED
      BY <3>1, <3>2
  <2>3. ResolverTables'
    BY <1>2, <2>2 DEF ResolversInv, ResolversTyped, ResolverTables, Send!senderTables
  <2> QED
    BY <1>2, <2>2, <2>3
<1>10. ASSUME worker'[w] = f PROVE ResolverInv(w)'
  <2>1. AskedIsPending(w)' /\ GotIsKnown(w)' /\ LabelledSoFar(w)'
    BY <1>1, <1>3, <1>5, <1>10 DEF AskedIsPending, GotIsKnown, LabelledSoFar
  <2>2. CASE worker[w].mode = "block"
    <3>1. Missed(w) = worker[w].next /\ ToResolve(w) = worker[w].pending
      BY <1>2 DEF Missed, ToResolve, Unmarked, ResolversInv, ResolverInv, AskedIsPending
    <3>2. /\ Missed(w)' = worker[w].next \cup (all \ got)
          /\ ToResolve(w)' = worker[w].pending \ (all \ got)
      BY <1>5, <1>10 DEF Missed, ToResolve, Unmarked
    <3>3. /\ worker[w].attempt < MaxAttempts /\ worker[w].pending \cap worker[w].next = {}
          /\ \A b \in worker[w].wanted :
                \/ b \in resolved_blocks
                \/ b \in worker[w].next /\ misses[w][b] = worker[w].attempt + 1
                \/ b \in worker[w].pending /\ misses[w][b] = worker[w].attempt
      BY <1>2, <2>2, <3>1 DEF ResolversInv, ResolverInv, NoneLeftOut
    <3>4. worker[w].wanted \subseteq Send!TxBlocks /\ worker[w].attempt \in Nat
      BY <1>4 DEF ResolverRow
    <3>5. ASSUME NEW b \in worker[w].wanted
          PROVE  \/ b \in resolved_blocks
                 \/ b \in Missed(w)' /\ misses'[w][b] = worker[w].attempt + 1
                 \/ b \in ToResolve(w)' /\ misses'[w][b] = worker[w].attempt
      <4>1. misses[w][b] \in Nat /\ misses'[w][b] = misses[w][b] + IF b \in all \ got THEN 1 ELSE 0
        BY <1>4, <1>9, <2>2, <3>4
      <4>2. CASE b \in all \ got
        BY <1>3, <3>2, <3>3, <3>4, <4>1, <4>2
      <4>3. CASE b \notin all \ got
        BY <1>3, <3>2, <3>3, <3>4, <4>1, <4>3
      <4> QED
        BY <4>2, <4>3
    <3>6. ToResolve(w)' \cap Missed(w)' = {}
      BY <3>2, <3>3
    <3>7. resolved_blocks' = resolved_blocks
      BY <1>2 DEF Send!senderTables
    <3>8. NoneLeftOut(w)'
      BY <1>5, <1>10, <3>3, <3>5, <3>6, <3>7 DEF NoneLeftOut
    <3> QED
      BY <2>1, <3>8 DEF ResolverInv
  <2>3. CASE worker[w].mode # "block"
    BY <1>5, <1>10, <2>1, <2>3 DEF ResolverInv, NoneLeftOut
  <2> QED
    BY <2>2, <2>3
<1> QED
  BY <1>5, <1>6, <1>7, <1>9, <1>10, ResolverMoves

(* What Next1 makes of a worker.                                                          *)
LEMMA ResolverAfter ==
    ASSUME NEW g \in ResolverRow
    PROVE  /\ Send!Next1(g) \in ResolverRow /\ Send!Next1(g).step = "ask" /\ Send!Next1(g).mode = g.mode
           /\ Send!Next1(g).asked = {} /\ Send!Next1(g).got = {} /\ Send!Next1(g).pending = g.pending \ g.asked
           /\ Send!Next1(g).next = g.next /\ Send!Next1(g).wanted = g.wanted /\ Send!Next1(g).attempt = g.attempt
  BY DEF Send!Next1, ResolverRow

LEMMA ResolverInserts == ASSUME ResolversInv, NEW w \in Resolvers, Send!insert_tx_senders(w) PROVE ResolversInv'
<1> DEFINE f == IF worker[w].mode = "tx" THEN Send!Next1(worker[w]) ELSE [worker[w] EXCEPT !.step = "mark"]
<1>1. /\ worker[w].step = "insert"
      /\ tx_senders' = [t \in Txs |->
             IF tx_senders[t] # "absent" THEN tx_senders[t]
             ELSE IF Send!Answered(w, t) THEN "known" ELSE IF Send!NotFound(w, t) THEN "null" ELSE "absent"]
      /\ UNCHANGED <<swap_txs, resolved_blocks, traders, misses, due, owed>>
  BY DEF Send!insert_tx_senders
<1>2. worker[w] \in ResolverRow
  BY DEF ResolversInv, ResolversTyped
<1>3. worker' = [worker EXCEPT ![w] = f]
  BY <1>2 DEF Send!insert_tx_senders, ResolversInv, ResolversTyped
<1>4. /\ worker[w].mode = "tx" => f.step = "ask" /\ f.mode = "tx" /\ f.asked = {}
      /\ worker[w].mode # "tx" =>
             /\ f.step = "mark" /\ f.mode = "block" /\ worker[w].mode = "block" /\ f.asked = worker[w].asked
             /\ f.got = worker[w].got /\ f.pending = worker[w].pending /\ f.next = worker[w].next
             /\ f.wanted = worker[w].wanted /\ f.attempt = worker[w].attempt
      /\ f \in ResolverRow
  <2>1. CASE worker[w].mode = "tx"
    BY <1>2, <2>1, ResolverAfter
  <2>2. CASE worker[w].mode # "tx"
    BY <1>2, <2>2 DEF ResolverRow
  <2> QED
    BY <2>1, <2>2
<1> HIDE DEF f
<1>5. tx_senders' \in [Txs -> {"absent", "null", "known"}]
      /\ \A t \in Txs : tx_senders[t] # "absent" => tx_senders'[t] = tx_senders[t]
  BY <1>1 DEF ResolversInv, ResolversTyped
<1>6. SendersGrow /\ ResolverTables'
  BY <1>1, <1>5 DEF SendersGrow, ResolverTables, ResolversInv, ResolversTyped
<1>7. Send!ResolvedIsKnown' /\ Send!KnownIsLabelled'
  BY <1>1, <1>5 DEF Send!ResolvedIsKnown, Send!KnownIsLabelled, ResolversInv
<1>8. ASSUME worker'[w] = f PROVE ResolverInv(w)'
  <2>1. CASE worker[w].mode = "tx"
    BY <1>4, <1>8, <2>1 DEF ResolverInv, AskedIsPending, GotIsKnown, NoneLeftOut, LabelledSoFar
  <2>2. CASE worker[w].mode # "tx"
    <3>1. AskedIsPending(w)' /\ LabelledSoFar(w)'
      BY <1>1, <1>4, <1>8, <2>2 DEF ResolversInv, ResolverInv, AskedIsPending, LabelledSoFar
    <3>2. GotIsKnown(w)'
      <4> SUFFICES ASSUME NEW t \in Txs, t.block \in worker[w].got PROVE tx_senders'[t] # "absent"
        BY <1>4, <1>8, <2>2 DEF GotIsKnown
      <4>1. Send!Answered(w, t)
        BY <2>2 DEF Send!Answered
      <4> QED
        BY <1>1, <4>1
    <3>3. Missed(w)' = Missed(w) /\ ToResolve(w)' = ToResolve(w)
      BY <1>1, <1>4, <1>8, <2>2 DEF Missed, ToResolve, Unmarked
    <3>4. NoneLeftOut(w)'
      BY <1>1, <1>4, <1>8, <2>2, <3>3 DEF ResolversInv, ResolverInv, NoneLeftOut
    <3> QED
      BY <3>1, <3>2, <3>4 DEF ResolverInv
  <2> QED
    BY <2>1, <2>2
<1> QED
  BY <1>1, <1>3, <1>4, <1>6, <1>7, <1>8, ResolverMoves

LEMMA ResolverMarks == ASSUME ResolversInv, NEW w \in Resolvers, Send!mark_blocks_resolved(w) PROVE ResolversInv'
<1> DEFINE g == [worker[w] EXCEPT !.next = @ \cup (worker[w].asked \ worker[w].got), !.chunks = @ + 1]
<1>1. /\ worker[w].step = "mark" /\ resolved_blocks' = resolved_blocks \cup worker[w].got
      /\ UNCHANGED <<swap_txs, tx_senders, traders, misses, due, owed>>
  BY DEF Send!mark_blocks_resolved, Send!ResolvedOf
<1>2. worker[w] \in ResolverRow
  BY DEF ResolversInv, ResolversTyped
<1>3. PICK f : worker' = [worker EXCEPT ![w] = f] /\ f \in {[g EXCEPT !.step = "materialize"], Send!Next1(g)}
  <2> DEFINE h == IF MaterializeEvery > 0 /\ g.chunks % MaterializeEvery = 0 /\ g.got # {}
                  THEN [g EXCEPT !.step = "materialize"] ELSE Send!Next1(g)
  <2>1. worker' = [worker EXCEPT ![w] = h]
    BY DEF Send!mark_blocks_resolved
  <2>2. h \in {[g EXCEPT !.step = "materialize"], Send!Next1(g)}
    OBVIOUS
  <2> HIDE DEF h
  <2> QED
    BY <2>1, <2>2
<1>4. /\ g \in ResolverRow /\ g.mode = worker[w].mode /\ g.asked = worker[w].asked /\ g.got = worker[w].got
      /\ g.pending = worker[w].pending /\ g.wanted = worker[w].wanted /\ g.attempt = worker[w].attempt
      /\ g.next = worker[w].next \cup (worker[w].asked \ worker[w].got)
  <2>1. worker[w].chunks + 1 \in Nat /\ worker[w].next \cup (worker[w].asked \ worker[w].got) \in SUBSET Keys
    BY <1>2 DEF ResolverRow
  <2> QED
    BY <1>2, <2>1 DEF ResolverRow
<1> HIDE DEF g
<1>5. /\ f \in ResolverRow /\ f.mode = g.mode /\ f.wanted = g.wanted /\ f.attempt = g.attempt /\ f.next = g.next
      /\ f.pending \ f.asked = g.pending \ g.asked
      /\ f.step \in {"materialize", "ask"}
      /\ f.step = "ask" => f.asked = {}
      /\ f.step = "materialize" => f.asked = g.asked /\ f.got = g.got /\ f.pending = g.pending
  <2>1. CASE f = [g EXCEPT !.step = "materialize"]
    BY <1>4, <2>1 DEF ResolverRow
  <2>2. CASE f = Send!Next1(g)
    <3>1. f.step = "ask" /\ f.asked = {} /\ f.pending = g.pending \ g.asked
      BY <1>4, <2>2, ResolverAfter
    <3> QED
      BY <1>4, <2>2, <3>1, ResolverAfter
  <2> QED
    BY <1>3, <2>1, <2>2
<1>6. SendersGrow /\ ResolverTables'
  BY <1>1 DEF SendersGrow, ResolverTables, ResolversInv, ResolversTyped
<1>7. Send!ResolvedIsKnown' /\ Send!KnownIsLabelled'
  BY <1>1 DEF Send!ResolvedIsKnown, Send!KnownIsLabelled, ResolversInv, ResolverInv, GotIsKnown
<1>8. /\ worker[w].mode = "block" /\ worker[w].got \subseteq worker[w].asked
      /\ worker[w].asked \subseteq worker[w].pending
  BY <1>1 DEF ResolversInv, ResolverInv, AskedIsPending
<1>9. ASSUME worker'[w] = f PROVE ResolverInv(w)'
  <2>1. AskedIsPending(w)' /\ GotIsKnown(w)' /\ LabelledSoFar(w)'
    BY <1>4, <1>5, <1>8, <1>9 DEF AskedIsPending, GotIsKnown, LabelledSoFar
  <2>2. /\ Missed(w) = worker[w].next \cup (worker[w].asked \ worker[w].got)
        /\ ToResolve(w) = worker[w].pending \ (worker[w].asked \ worker[w].got)
    BY <1>1 DEF Missed, ToResolve, Unmarked
  <2>3. Missed(w)' = g.next /\ ToResolve(w)' = worker[w].pending \ worker[w].asked
    BY <1>4, <1>5, <1>9 DEF Missed, ToResolve, Unmarked
  <2>4. Missed(w)' = Missed(w) /\ ToResolve(w)' \subseteq ToResolve(w)
        /\ ToResolve(w) \subseteq ToResolve(w)' \cup resolved_blocks'
    BY <1>1, <1>4, <2>2, <2>3
  <2>5. /\ worker[w].attempt < MaxAttempts /\ ToResolve(w) \cap Missed(w) = {}
        /\ \A b \in worker[w].wanted :
              \/ b \in resolved_blocks
              \/ b \in Missed(w) /\ misses[w][b] = worker[w].attempt + 1
              \/ b \in ToResolve(w) /\ misses[w][b] = worker[w].attempt
    BY <1>1, <1>8 DEF ResolversInv, ResolverInv, NoneLeftOut
  <2>6. NoneLeftOut(w)'
    BY <1>1, <1>4, <1>5, <1>9, <2>4, <2>5 DEF NoneLeftOut
  <2> QED
    BY <2>1, <2>6 DEF ResolverInv
<1> QED
  BY <1>1, <1>3, <1>5, <1>6, <1>7, <1>9, ResolverMoves

LEMMA TradersOnly ==
    ASSUME ResolversInv, traders \subseteq traders',
           UNCHANGED <<swap_txs, tx_senders, resolved_blocks, misses, due, owed>>
    PROVE  SendersGrow /\ ResolverTables' /\ Send!ResolvedIsKnown' /\ Send!KnownIsLabelled'
<1>1. SendersGrow /\ ResolverTables'
  BY DEF SendersGrow, ResolverTables, ResolversInv, ResolversTyped
<1>2. Send!ResolvedIsKnown' /\ Send!KnownIsLabelled'
  BY DEF Send!ResolvedIsKnown, Send!KnownIsLabelled, ResolversInv
<1> QED
  BY <1>1, <1>2

LEMMA ResolverMaterializes == ASSUME ResolversInv, NEW w \in Resolvers, Send!materialize(w) PROVE ResolversInv'
<1>1. /\ worker[w].step = "materialize" /\ traders \subseteq traders'
      /\ UNCHANGED <<swap_txs, tx_senders, resolved_blocks, misses, due, owed>>
  BY DEF Send!materialize, Send!materialize_traders_range
<1>2. worker[w] \in ResolverRow
  BY DEF ResolversInv, ResolversTyped
<1> DEFINE f == Send!Next1(worker[w])
<1>3. worker' = [worker EXCEPT ![w] = f]
  BY DEF Send!materialize, ResolversInv, ResolversTyped
<1>4. /\ f \in ResolverRow /\ f.step = "ask" /\ f.mode = worker[w].mode /\ f.asked = {}
      /\ f.pending = worker[w].pending \ worker[w].asked /\ f.next = worker[w].next
      /\ f.wanted = worker[w].wanted /\ f.attempt = worker[w].attempt
  BY <1>2, ResolverAfter
<1> HIDE DEF f
<1>5. ASSUME worker'[w] = f PROVE ResolverInv(w)'
  <2>1. AskedIsPending(w)' /\ GotIsKnown(w)' /\ LabelledSoFar(w)'
    BY <1>4, <1>5 DEF AskedIsPending, GotIsKnown, LabelledSoFar
  <2>2. Missed(w)' = Missed(w) /\ ToResolve(w)' = ToResolve(w)
    BY <1>1, <1>4, <1>5 DEF Missed, ToResolve, Unmarked
  <2>3. NoneLeftOut(w)'
    BY <1>1, <1>4, <1>5, <2>2 DEF NoneLeftOut, ResolversInv, ResolverInv
  <2> QED
    BY <2>1, <2>3 DEF ResolverInv
<1> QED
  BY <1>1, <1>3, <1>4, <1>5, TradersOnly, ResolverMoves

LEMMA LeastOf ==
    ASSUME NEW S \in SUBSET Nat, S # {}
    PROVE  Send!Min(S) \in S /\ \A x \in S : Send!Min(S) <= x
<1> DEFINE R == {ab \in Nat \X Nat : ab[1] < ab[2]}
<1>1. IsWellFoundedOn(R, Nat)
  BY NatLessThanWellFounded DEF OpToRel
<1> HIDE DEF R
<1>2. PICK x \in S : \A y \in S : ~ (<<y, x>> \in R)
  BY <1>1, WFMin
<1>4. ASSUME NEW y \in S PROVE x <= y
  <2>1. y \in Nat /\ x \in Nat /\ ~(y < x)
    BY <1>2 DEF R
  <2> QED
    BY <2>1
<1>3. \E z \in S : \A y \in S : z <= y
  BY <1>4
<1> QED
  BY <1>3 DEF Send!Min

LEMMA GreatestOf ==
    ASSUME NEW S \in SUBSET Nat, S # {}, IsFiniteSet(S)
    PROVE  Send!Max(S) \in S /\ \A x \in S : x <= Send!Max(S)
<1> DEFINE Above(x) == {y \in S : y > x}
           F == {Above(x) : x \in S}
           R == StrictSubsetOrdering(S)
<1>1. IsWellFoundedOn(R, FiniteSubsetsOf(S))
  BY FS_StrictSubsetOrderingWellFounded
<1>2. F \subseteq FiniteSubsetsOf(S) /\ F # {}
  <2>1. ASSUME NEW x \in S PROVE Above(x) \in FiniteSubsetsOf(S)
    <3>1. Above(x) \in SUBSET S
      OBVIOUS
    <3>2. IsFiniteSet(Above(x))
      <4> HIDE DEF Above
      <4> QED
        BY <3>1, FS_Subset
    <3> QED
      BY <3>1, <3>2 DEF FiniteSubsetsOf
  <2> QED
    BY <2>1
<1>3. PICK U \in F : \A V \in F : <<V, U>> \notin R
  BY <1>1, <1>2, WFMin
<1>4. PICK x \in S : U = Above(x)
  BY <1>3
<1>5. ASSUME NEW y \in S, y > x PROVE FALSE
  <2>1. Above(y) \subseteq Above(x) /\ y \in Above(x) /\ y \notin Above(y)
    <3>1. \A z \in S : z > y => z > x
      BY <1>5
    <3>2. ~(y > y)
      OBVIOUS
    <3> QED
      BY <1>5, <3>1, <3>2
  <2>2. Above(y) \subseteq S /\ Above(x) \subseteq S
    OBVIOUS
  <2>3. <<Above(y), Above(x)>> \in R
    <3> HIDE DEF Above
    <3> QED
      BY <2>1, <2>2 DEF StrictSubsetOrdering
  <2> QED
    BY <1>3, <1>4, <2>3
<1>6. \E z \in S : \A y \in S : z >= y
  BY <1>5
<1> QED
  BY <1>6 DEF Send!Max

LEMMA ResolverPasses == ASSUME ResolversInv, NEW w \in Resolvers, Send!next_pass(w) PROVE ResolversInv'
<1> DEFINE f == [worker[w] EXCEPT !.pending = worker[w].next, !.next = {}, !.attempt = @ + 1, !.chunks = 0]
<1>1. /\ worker[w].step = "ask" /\ worker[w].pending = {} /\ worker[w].mode = "block"
      /\ worker[w].attempt + 1 < MaxAttempts /\ UNCHANGED <<Send!senderTables, misses, due, owed>>
  BY DEF Send!next_pass
<1>2. worker[w] \in ResolverRow
  BY DEF ResolversInv, ResolversTyped
<1>3. worker' = [worker EXCEPT ![w] = f]
  BY <1>2 DEF Send!next_pass, ResolverRow
<1>4. /\ f \in ResolverRow /\ f.step = "ask" /\ f.asked = worker[w].asked /\ f.mode = worker[w].mode
      /\ f.pending = worker[w].next /\ f.next = {} /\ f.attempt = worker[w].attempt + 1
      /\ f.wanted = worker[w].wanted
  <2>1. worker[w].attempt + 1 \in Nat /\ worker[w].next \in SUBSET Keys
    BY <1>2 DEF ResolverRow
  <2>2. f \in ResolverRow
    BY <1>2, <2>1 DEF ResolverRow
  <2>3. /\ f.step = worker[w].step /\ f.asked = worker[w].asked /\ f.mode = worker[w].mode
        /\ f.pending = worker[w].next /\ f.next = {} /\ f.attempt = worker[w].attempt + 1
        /\ f.wanted = worker[w].wanted
    BY <1>2 DEF ResolverRow
  <2> HIDE DEF f
  <2> QED
    BY <1>1, <2>2, <2>3
<1> HIDE DEF f
<1>5. SendersGrow /\ Send!ResolvedIsKnown' /\ Send!KnownIsLabelled' /\ ResolverTables'
  BY <1>1, TablesStay
<1>6. worker[w].asked = {}
  BY <1>1 DEF ResolversInv, ResolverInv, AskedIsPending
<1>7. ASSUME worker'[w] = f PROVE ResolverInv(w)'
  <2>1. AskedIsPending(w)' /\ GotIsKnown(w)' /\ LabelledSoFar(w)'
    BY <1>4, <1>6, <1>7 DEF AskedIsPending, GotIsKnown, LabelledSoFar
  <2>2. Missed(w) = worker[w].next /\ ToResolve(w) = {}
    BY <1>1 DEF Missed, ToResolve, Unmarked
  <2>3. Missed(w)' = {} /\ ToResolve(w)' = worker[w].next
    BY <1>4, <1>6, <1>7 DEF Missed, ToResolve, Unmarked
  <2>4. \A b \in worker[w].wanted :
            b \in resolved_blocks \/ (b \in worker[w].next /\ misses[w][b] = worker[w].attempt + 1)
    BY <1>1, <2>2 DEF ResolversInv, ResolverInv, NoneLeftOut
  <2>5. UNCHANGED <<misses, resolved_blocks>>
    BY <1>1 DEF Send!senderTables
  <2>6. NoneLeftOut(w)'
    BY <1>1, <1>4, <1>7, <2>3, <2>4, <2>5 DEF NoneLeftOut
  <2> QED
    BY <2>1, <2>6 DEF ResolverInv
<1> QED
  BY <1>1, <1>3, <1>4, <1>5, <1>7, ResolverMoves

LEMMA ResolverBounds == ASSUME ResolversInv, NEW w \in Resolvers, Send!swap_block_bounds(w) PROVE ResolversInv'
<1>1. UNCHANGED <<Send!senderTables, misses, owed>>
  BY DEF Send!swap_block_bounds
<1>2. CASE ~(worker[w].final /\ swap_txs # {})
  BY <1>1, <1>2, ResolverStops DEF Send!swap_block_bounds
<1>3. CASE worker[w].final /\ swap_txs # {}
  <2> DEFINE B == {t.block : t \in swap_txs}
             f == [worker[w] EXCEPT !.step = "final", !.at = Send!Min(B), !.hi = Send!Max(B) + 1]
             d == {t \in swap_txs : tx_senders[t] = "known"}
  <2>1. worker' = [worker EXCEPT ![w].step = "final", ![w].at = Send!Min(B), ![w].hi = Send!Max(B) + 1]
        /\ due' = [due EXCEPT ![w] = d]
    BY <1>3 DEF Send!swap_block_bounds
  <2>2. worker[w] \in ResolverRow /\ swap_txs \subseteq Txs
    BY DEF ResolversInv, ResolversTyped
  <2>3. B \in SUBSET Nat /\ B # {} /\ IsFiniteSet(B)
    <3>1. IsFiniteSet(swap_txs)
      BY <2>2, TxNumbers, FS_Subset
    <3>2. IsFiniteSet(B)
      <4> DEFINE h == [t \in swap_txs |-> t.block]
      <4>1. h \in Surjection(swap_txs, B)
        BY DEF Surjection
      <4> QED
        BY <3>1, <4>1, FS_Surjection
    <3> QED
      BY <1>3, <2>2, <3>2, TxNumbers
  <2>4. \A t \in swap_txs : Send!Min(B) <= t.block /\ t.block < Send!Max(B) + 1
    <3>1. Send!Min(B) \in Nat /\ Send!Max(B) \in Nat /\ \A x \in B : Send!Min(B) <= x /\ x <= Send!Max(B)
      BY <2>3, LeastOf, GreatestOf
    <3>2. \A t \in swap_txs : t.block \in B /\ t.block \in Nat
      BY <2>2, TxNumbers
    <3> QED
      BY <3>1, <3>2
  <2>5. Send!Min(B) \in Int /\ Send!Max(B) + 1 \in Int
    <3>1. Send!Min(B) \in Nat /\ Send!Max(B) \in Nat
      BY <2>3, LeastOf, GreatestOf
    <3> HIDE DEF B
    <3> QED
      BY <3>1
  <2> HIDE DEF B
  <2>6. worker' = [worker EXCEPT ![w] = f]
    BY <2>1, <2>2 DEF ResolverRow
  <2>7. f \in ResolverRow /\ f.step = "final" /\ f.at = Send!Min(B) /\ f.hi = Send!Max(B) + 1
    BY <2>2, <2>5 DEF ResolverRow
  <2> HIDE DEF f
  <2>8. SendersGrow /\ Send!ResolvedIsKnown' /\ Send!KnownIsLabelled'
    BY <1>1, TablesStay
  <2>9. due' \in [Resolvers -> SUBSET Txs] /\ due'[w] = d /\ \A v \in Resolvers : v # w => due'[v] = due[v]
    BY <2>1, <2>2 DEF ResolversInv, ResolversTyped
  <2>10. ResolverTables'
    BY <1>1, <2>9 DEF ResolversInv, ResolversTyped, ResolverTables, Send!senderTables
  <2>11. UNCHANGED <<swap_txs, tx_senders>>
    BY <1>1 DEF Send!senderTables
  <2>12. ASSUME worker'[w] = f PROVE ResolverInv(w)'
    <3>1. LabelledSoFar(w)'
      BY <2>4, <2>7, <2>9, <2>11, <2>12 DEF LabelledSoFar
    <3> QED
      BY <2>7, <2>12, <3>1 DEF ResolverInv, AskedIsPending, GotIsKnown, NoneLeftOut
  <2> QED
    BY <1>1, <2>6, <2>7, <2>8, <2>9, <2>10, <2>12, ResolverMoves
<1> QED
  BY <1>2, <1>3

LEMMA ResolverLabels ==
    ASSUME ResolversInv, NEW w \in Resolvers, Send!materialize_traders_batched(w) PROVE ResolversInv'
<1> DEFINE e == Send!Min({worker[w].at + Step, worker[w].hi})
           f == [worker[w] EXCEPT !.at = e]
<1>1. /\ worker[w].step = "final" /\ worker' = [worker EXCEPT ![w].at = e]
      /\ traders' = traders \cup {t \in swap_txs :
                        t.block >= worker[w].at /\ t.block < e /\ tx_senders[t] = "known"}
      /\ UNCHANGED <<swap_txs, tx_senders, resolved_blocks, misses, due, owed>>
  BY DEF Send!materialize_traders_batched, Send!materialize_traders_range
<1>2. worker[w] \in ResolverRow /\ swap_txs \subseteq Txs
  BY DEF ResolversInv, ResolversTyped
<1>3. e \in Int
  <2>1. worker[w].at + Step \in Int /\ worker[w].hi \in Int
    BY <1>2, TxNumbers DEF ResolverRow
  <2>2. e \in {worker[w].at + Step, worker[w].hi}
    BY <2>1, SmallerOf
  <2> QED
    BY <2>1, <2>2
<1> HIDE DEF e
<1>4. worker' = [worker EXCEPT ![w] = f]
  BY <1>1, <1>2 DEF ResolverRow
<1>5. f \in ResolverRow /\ f.step = "final" /\ f.at = e /\ f.hi = worker[w].hi
  BY <1>1, <1>2, <1>3 DEF ResolverRow
<1> HIDE DEF f
<1>6. ASSUME worker'[w] = f PROVE ResolverInv(w)'
  <2>1. LabelledSoFar(w)'
    <3> SUFFICES ASSUME NEW t \in due[w]
                 PROVE  /\ t \in swap_txs /\ tx_senders[t] = "known" /\ t.block < worker[w].hi
                        /\ e <= t.block \/ t \in traders'
      BY <1>1, <1>5, <1>6 DEF LabelledSoFar
    <3>1. /\ t \in swap_txs /\ tx_senders[t] = "known" /\ t.block < worker[w].hi
          /\ worker[w].at <= t.block \/ t \in traders
      BY <1>1 DEF ResolversInv, ResolverInv, LabelledSoFar
    <3>2. t.block \in Nat
      BY <1>2, <3>1, TxNumbers
    <3>3. worker[w].at \in Int
      BY <1>2 DEF ResolverRow
    <3> QED
      BY <1>1, <1>3, <3>1, <3>2, <3>3
  <2> QED
    BY <1>5, <1>6, <2>1 DEF ResolverInv, AskedIsPending, GotIsKnown, NoneLeftOut
<1> QED
  BY <1>1, <1>4, <1>5, <1>6, TradersOnly, ResolverMoves

LEMMA ResolverCloses == ASSUME ResolversInv, NEW w \in Resolvers, Send!close(w) PROVE ResolversInv'
<1>1. /\ worker[w].step = "final" /\ worker[w].at >= worker[w].hi /\ owed' = owed \cup due[w]
      /\ worker' = [worker EXCEPT ![w] = Send!Resting]
      /\ UNCHANGED <<swap_txs, tx_senders, resolved_blocks, traders, misses, due>>
  BY DEF Send!close, Send!senderTables
<1>2. due[w] \subseteq traders
  <2> SUFFICES ASSUME NEW t \in due[w] PROVE t \in traders
    OBVIOUS
  <2>1. /\ t \in swap_txs /\ t.block < worker[w].hi
        /\ worker[w].at <= t.block \/ t \in traders
    BY <1>1 DEF ResolversInv, ResolverInv, LabelledSoFar
  <2>2. t.block \in Nat /\ worker[w].at \in Int /\ worker[w].hi \in Int
    BY <2>1, TxNumbers DEF ResolversInv, ResolversTyped, ResolverRow
  <2> QED
    BY <1>1, <2>1, <2>2
<1>3. SendersGrow /\ ResolverTables'
  BY <1>1 DEF SendersGrow, ResolverTables, ResolversInv, ResolversTyped
<1>4. Send!ResolvedIsKnown' /\ Send!KnownIsLabelled'
  BY <1>1, <1>2 DEF Send!ResolvedIsKnown, Send!KnownIsLabelled, ResolversInv
<1>5. worker'[w] = Send!Resting => ResolverInv(w)'
  BY RestIsRow DEF ResolverInv, AskedIsPending, GotIsKnown, NoneLeftOut, LabelledSoFar
<1> QED
  BY <1>1, <1>3, <1>4, <1>5, RestIsRow, ResolverMoves

LEMMA ResolverSteps == ASSUME ResolversInv, [Send!Next]_(Send!senderVars) PROVE ResolversInv'
<1>1. CASE \E t \in Txs : Send!insert_swaps(t)
  BY <1>1, SwapStored
<1>2. ASSUME NEW w \in Resolvers,
             \/ Send!ask(w) \/ Send!insert_tx_senders(w) \/ Send!mark_blocks_resolved(w) \/ Send!materialize(w) \/ Send!next_pass(w)
             \/ Send!swap_block_bounds(w) \/ Send!materialize_traders_batched(w) \/ Send!close(w)
      PROVE  ResolversInv'
  BY <1>2, ResolverAsks, ResolverInserts, ResolverMarks, ResolverMaterializes, ResolverPasses,
     ResolverBounds, ResolverLabels, ResolverCloses
<1>3. ASSUME NEW w \in Resolvers, Send!worker_stops(w) PROVE ResolversInv'
  BY <1>3, ResolverStops DEF Send!worker_stops
<1>4. ASSUME NEW w \in Resolvers, NEW final \in BOOLEAN,
             Send!run(w, final) \/ \E span \in Spans : Send!run_blocks(w, span[1], span[2], final)
      PROVE  ResolversInv'
  BY <1>4, ResolverRuns, ResolverRunsBlocks
<1> QED
  BY <1>1, <1>2, <1>3, <1>4, SendersWait DEF Send!Next

LEMMA ResolversAreFaithful == ASSUME ResolversInv PROVE Send!SendersFaithful
<1>1. Send!RunsConverge
  <2> SUFFICES ASSUME NEW w \in Resolvers, Send!Over(w), worker[w].mode = "block", NEW b \in worker[w].wanted
               PROVE  b \in resolved_blocks \/ misses[w][b] = MaxAttempts
    BY DEF Send!RunsConverge
  <2>1. /\ worker[w].step = "ask" /\ worker[w].pending = {}
        /\ worker[w].next = {} \/ worker[w].attempt + 1 >= MaxAttempts
    BY DEF Send!Over
  <2>2. Missed(w) = worker[w].next /\ ToResolve(w) = {}
    BY <2>1 DEF Missed, ToResolve, Unmarked
  <2>3. /\ worker[w].attempt < MaxAttempts
        /\ b \in resolved_blocks \/ (b \in worker[w].next /\ misses[w][b] = worker[w].attempt + 1)
    BY <2>1, <2>2 DEF ResolversInv, ResolverInv, NoneLeftOut
  <2>4. worker[w].attempt \in Nat
    BY DEF ResolversInv, ResolversTyped, ResolverRow
  <2> QED
    BY <2>1, <2>3, <2>4, TxNumbers
<1> QED
  BY <1>1 DEF ResolversInv, Send!SendersFaithful

SendersPart == work_part = "senders" => ResolversInv

LEMMA SendersPartKept == ASSUME SendersPart, [WorkNext]_workVars PROVE SendersPart'
<1>1. CASE SenderStep
  BY <1>1, ResolverSteps DEF SenderStep, SendersPart
<1>2. CASE work_part' = work_part /\ UNCHANGED senderVars
  <2>1. UNCHANGED Send!senderVars
    BY <1>2 DEF senderVars, Send!senderVars
  <2> QED
    BY <1>2, <2>1, ResolverSteps DEF SendersPart
<1>3. CASE UNCHANGED workVars
  BY <1>3, <1>2 DEF workVars
<1>4. CASE WorkNext /\ ~SenderStep
  BY <1>4, <1>2 DEF WorkNext, CopyStep, PreorderStep, FeedStep, RuleStep, IndexStep, PnlStep, ScoreStep,
     BackfillStep, ReportStep, IngestStep
<1> QED
  BY <1>1, <1>3, <1>4

(* Senders (resolve_senders.py): a block that is marked as resolved has the senders of its   *)
(* swaps, a run leaves no block out but those it failed on, and a known sender is copied to  *)
(* its swaps.                                                                          *)
THEOREM SendersKeepPromises == WorkSpec => [](work_part = "senders" => Send!SendersFaithful)
<1>1. WorkInit => SendersPart
  BY SendersStart DEF WorkInit, SendersPart
<1>2. SendersPart /\ [WorkNext]_workVars => SendersPart'
  BY SendersPartKept
<1>3. SendersPart => (work_part = "senders" => Send!SendersFaithful)
  BY ResolversAreFaithful DEF SendersPart
<1> QED
  BY <1>1, <1>2, <1>3, PTL DEF WorkSpec

-----------------------------------------------------------------------------
(* arcai's engine: what its rows and its place are.                                      *)
Marking == {"mark_txs", "mark_logs", "mark_candidates"}
InBlock == {"txs", "logs", "candidates", "confirm"}
Place == [pc : {"idle", "block", "checkpoint"} \cup InBlock \cup Marking, n : Nat, end : Int,
          block : Ingest!Hashes \cup {Ingest!NoBlock}, source : Ingest!Hashes \cup {Ingest!NoBlock}, heights : SUBSET Nat]
IngestTyped ==
    /\ startBlock \in Nat /\ depth \in Nat /\ checkpoint \in Nat /\ first \in Nat
    /\ blocks \in [Ingest!Hashes -> {"none", "observed", "canonical"}]
    /\ transactions \in [Ingest!TxIds -> [block : Ingest!Hashes \cup {Ingest!NoBlock}, canonical : BOOLEAN]]
    /\ \A t \in Ingest!TxIds : transactions[t].canonical => transactions[t].block # Ingest!NoBlock
    /\ block_logs \in [Ingest!Hashes -> {"none", "stored", "canonical"}]
    /\ candidates \in [Ingest!Hashes -> {"none", "stored", "canonical"}]
    /\ ingestor \in Place

(* The stream goes on with the block after the checkpoint, and is never ahead of it.       *)
Upcoming == IF checkpoint = Ingest!NoBlock THEN first ELSE checkpoint + 1
StreamPlace ==
    /\ first = Ingest!NoBlock => checkpoint = Ingest!NoBlock /\ ingestor.pc = "idle"
    /\ checkpoint # Ingest!NoBlock => first <= checkpoint + 1
    /\ first # Ingest!NoBlock /\ checkpoint = Ingest!NoBlock => first = startBlock
    /\ ingestor.pc # "idle" => ingestor.n = Upcoming
    /\ ingestor.pc \notin Marking => ingestor.heights = {}
NothingAhead ==
    \A b \in ChainBlocks : blocks[b.hash] # "none" =>
        /\ first # Ingest!NoBlock /\ first <= b.height /\ b.height <= Upcoming
        /\ blocks[b.hash] = "canonical" => b.height + depth <= Upcoming

(* One canonical block of a height, the child of the one below if there is no depth.       *)
OnePerHeight ==
    \A b, c \in ChainBlocks :
        /\ blocks[b.hash] = "canonical" /\ blocks[c.hash] = "canonical" /\ b.height = c.height
        => b = c
ChildOfBelow ==
    depth = 0 => \A b, p \in ChainBlocks :
        /\ blocks[b.hash] = "canonical" /\ blocks[p.hash] = "canonical"
        /\ b.height = p.height + 1
        => b.parent = p.hash

(* The rows of a block: its transactions are rows of this block or of one seen before.     *)
TxsOf(b) ==
    \A t \in b.txs : /\ transactions[t].block # Ingest!NoBlock
                     /\ Ingest!BlockOf(transactions[t].block).height <= b.height
LogsOf(b)       == b.event /\ b.height \notin mixed => block_logs[b.hash] # "none"
CandidatesOf(b) == b.event /\ b.height \notin mixed => candidates[b.hash] # "none"
RowsOf(b) == TxsOf(b) /\ LogsOf(b) /\ CandidatesOf(b)

(* The block in hand, while its rows are stored.                                         *)
BlockInHand ==
    ingestor.pc \in InBlock => \E b \in Ingest!At(ingestor.n) :
        /\ ingestor.block = b.hash /\ Ingest!Canonical(ingestor.n) = {} /\ Ingest!Observed(ingestor.n) = {b}
        /\ \A p \in Ingest!Canonical(ingestor.n - 1) : p.hash = b.parent
        /\ ingestor.pc # "txs" => TxsOf(b)
        /\ ingestor.pc \in {"candidates", "confirm"} => LogsOf(b)
        /\ ingestor.pc = "confirm" => CandidatesOf(b)
        /\ ingestor.pc = "candidates" => \E s \in Ingest!At(ingestor.n) :
               ingestor.source = s.hash /\ (s = b \/ ingestor.n \in mixed)

(* Up to where blocks are confirmed, as deep as configured.                               *)
ReachedTo == IF ingestor.pc \in Marking \cup {"checkpoint"} THEN ingestor.n ELSE checkpoint
PassedIsSeen ==
    first # Ingest!NoBlock => \A m \in first..ReachedTo :
          /\ m + depth <= ReachedTo => Ingest!Canonical(m) # {}
          /\ Ingest!Canonical(m) # {} \/ \E x \in ChainBlocks : Ingest!Observed(m) = {x}
RowsAreThere ==
    \A b \in ChainBlocks :
        \/ blocks[b.hash] = "canonical"
        \/ blocks[b.hash] = "observed" /\ b.height <= ReachedTo /\ Ingest!Canonical(b.height) = {}
        => RowsOf(b)

(* Whose rows are stored: at a height with a canonical block, only that one's.              *)
Owns(h) == blocks[h] # "none" /\ (blocks[h] = "canonical" \/ Ingest!Canonical(Ingest!BlockOf(h).height) = {})
RowsAreOwned ==
    /\ \A t \in Ingest!TxIds : transactions[t].block # Ingest!NoBlock => Owns(transactions[t].block)
    /\ \A b \in ChainBlocks :
          /\ block_logs[b.hash] # "none" \/ candidates[b.hash] # "none"
          /\ b.height \notin mixed
          => Owns(b.hash)

(* The heights whose rows are being marked, and what is marked at which step.               *)
HeightsConfirmed ==
    \A h \in ingestor.heights : Ingest!Canonical(h) # {} /\ h + depth > checkpoint
TxsMarked ==
    \A t \in Ingest!TxIds :
        /\ transactions[t].block # Ingest!NoBlock /\ blocks[transactions[t].block] = "canonical"
        /\ Ingest!BlockOf(transactions[t].block).height \notin cut
        => \/ transactions[t].canonical
           \/ Ingest!BlockOf(transactions[t].block).height \in ingestor.heights /\ ingestor.pc = "mark_txs"
EventsMarked ==
    \A b \in ChainBlocks :
        blocks[b.hash] = "canonical" /\ b.event /\ b.height \notin mixed \cup cut =>
            /\ \/ block_logs[b.hash] = "canonical"
               \/ b.height \in ingestor.heights /\ ingestor.pc \in {"mark_txs", "mark_logs"}
            /\ \/ candidates[b.hash] = "canonical"
               \/ b.height \in ingestor.heights /\ ingestor.pc \in Marking

IngestInv ==
    /\ IngestTyped /\ StreamPlace /\ NothingAhead /\ OnePerHeight /\ ChildOfBelow /\ BlockInHand
    /\ PassedIsSeen /\ RowsAreThere /\ RowsAreOwned /\ HeightsConfirmed /\ Ingest!MarkedAreCanonical
    /\ TxsMarked /\ EventsMarked

LEMMA BlockIs ==
    /\ \A b \in ChainBlocks : b.hash \in Ingest!Hashes /\ Ingest!BlockOf(b.hash) = b /\ b.height \in Nat \ {0}
    /\ \A h \in Ingest!Hashes : h # Ingest!NoBlock /\ Ingest!BlockOf(h) \in ChainBlocks /\ Ingest!BlockOf(h).hash = h
<1>1. ASSUME NEW b \in ChainBlocks PROVE b.hash \in Ingest!Hashes /\ Ingest!BlockOf(b.hash) = b /\ b.height \in Nat \ {0}
  BY BlockNumbers DEF Ingest!Hashes, Ingest!BlockOf
<1>2. ASSUME NEW h \in Ingest!Hashes PROVE h # Ingest!NoBlock /\ Ingest!BlockOf(h) \in ChainBlocks /\ Ingest!BlockOf(h).hash = h
  <2>1. PICK b \in ChainBlocks : h = b.hash
    BY DEF Ingest!Hashes
  <2> QED
    BY <1>1, <2>1, BlockNumbers
<1> QED
  BY <1>1, <1>2

LEMMA OneObserved ==
    ASSUME NEW m \in Nat
    PROVE  Ingest!Confirmable(m) <=> Ingest!Canonical(m) = {} /\ \E x \in ChainBlocks : Ingest!Observed(m) = {x}
<1>1. IsFiniteSet(Ingest!Observed(m)) /\ Ingest!Observed(m) \subseteq ChainBlocks
  BY BlockNumbers, FS_Subset DEF Ingest!Observed, Ingest!At
<1>2. Cardinality(Ingest!Observed(m)) = 1 <=> \E x : Ingest!Observed(m) = {x}
  BY <1>1, FS_Singleton
<1> QED
  BY <1>1, <1>2 DEF Ingest!Confirmable, Ingest!Cardinality, Cardinality

LEMMA IngestStarts == ASSUME Ingest!Init PROVE IngestInv
<1>1. \A b \in ChainBlocks : b.hash \in Ingest!Hashes
  BY BlockIs
<1>2. \A b \in ChainBlocks : blocks[b.hash] = "none" /\ block_logs[b.hash] = "none" /\ candidates[b.hash] = "none"
  BY <1>1 DEF Ingest!Init
<1>3. \A t \in Ingest!TxIds : transactions[t].block = Ingest!NoBlock /\ ~transactions[t].canonical
  BY DEF Ingest!Init
<1>4. first = Ingest!NoBlock /\ ingestor.pc = "idle" /\ ingestor.heights = {} /\ checkpoint = Ingest!NoBlock
  BY DEF Ingest!Init, Ingest!Idle
<1>5. IngestTyped
  <2>1. ingestor \in Place
    BY DEF Ingest!Init, Ingest!Idle, Place, Ingest!NoBlock
  <2>2. startBlock \in Nat /\ depth \in Nat /\ checkpoint \in Nat /\ first \in Nat
    BY BlockNumbers DEF Ingest!Init, Ingest!NoBlock
  <2>3. /\ blocks \in [Ingest!Hashes -> {"none", "observed", "canonical"}]
        /\ transactions \in [Ingest!TxIds -> [block : Ingest!Hashes \cup {Ingest!NoBlock}, canonical : BOOLEAN]]
        /\ block_logs \in [Ingest!Hashes -> {"none", "stored", "canonical"}]
        /\ candidates \in [Ingest!Hashes -> {"none", "stored", "canonical"}]
    BY DEF Ingest!Init
  <2> QED
    BY <1>3, <2>1, <2>2, <2>3 DEF IngestTyped
<1>6. /\ StreamPlace /\ NothingAhead /\ OnePerHeight /\ ChildOfBelow /\ BlockInHand
      /\ PassedIsSeen /\ RowsAreThere /\ HeightsConfirmed /\ Ingest!MarkedAreCanonical
  BY <1>2, <1>3, <1>4 DEF StreamPlace, NothingAhead, OnePerHeight, ChildOfBelow, BlockInHand, InBlock,
     PassedIsSeen, RowsAreThere, HeightsConfirmed, Ingest!MarkedAreCanonical
<1>7. RowsAreOwned /\ TxsMarked /\ EventsMarked
  BY <1>2, <1>3 DEF RowsAreOwned, TxsMarked, EventsMarked
<1> QED
  BY <1>5, <1>6, <1>7 DEF IngestInv

(* Steps that leave the rows alone, and what they may do to the place.                    *)
RowsAlone == UNCHANGED <<startBlock, depth, blocks, transactions, block_logs, candidates, mixed>>

LEMMA SeenAlike ==
    ASSUME UNCHANGED blocks
    PROVE  \A m : Ingest!Canonical(m)' = Ingest!Canonical(m) /\ Ingest!Observed(m)' = Ingest!Observed(m)
  BY DEF Ingest!Canonical, Ingest!Observed, Ingest!At

LEMMA RowsAlike ==
    ASSUME IngestInv, RowsAlone
    PROVE  /\ OnePerHeight' /\ ChildOfBelow' /\ RowsAreOwned' /\ Ingest!MarkedAreCanonical'
           /\ \A m : Ingest!Canonical(m)' = Ingest!Canonical(m) /\ Ingest!Observed(m)' = Ingest!Observed(m)
           /\ \A b \in ChainBlocks : TxsOf(b)' = TxsOf(b) /\ LogsOf(b)' = LogsOf(b)
                                    /\ CandidatesOf(b)' = CandidatesOf(b) /\ RowsOf(b)' = RowsOf(b)
<1>1. \A m : Ingest!Canonical(m)' = Ingest!Canonical(m) /\ Ingest!Observed(m)' = Ingest!Observed(m)
  BY SeenAlike DEF RowsAlone
<1>2. OnePerHeight' /\ ChildOfBelow'
  BY DEF IngestInv, RowsAlone, OnePerHeight, ChildOfBelow
<1>3. RowsAreOwned'
  BY <1>1 DEF IngestInv, RowsAlone, RowsAreOwned, Owns
<1>4. Ingest!MarkedAreCanonical'
  BY DEF IngestInv, RowsAlone, Ingest!MarkedAreCanonical
<1>5. \A b \in ChainBlocks : TxsOf(b)' = TxsOf(b) /\ LogsOf(b)' = LogsOf(b) /\ CandidatesOf(b)' = CandidatesOf(b)
  BY DEF RowsAlone, TxsOf, LogsOf, CandidatesOf
<1> QED
  BY <1>1, <1>2, <1>3, <1>4, <1>5 DEF RowsOf

LEMMA IngestWaits == ASSUME IngestInv, UNCHANGED Ingest!vars PROVE IngestInv'
<1>1. RowsAlone /\ UNCHANGED <<checkpoint, ingestor, first, cut>>
  BY DEF Ingest!vars, RowsAlone
<1>2. IngestTyped' /\ StreamPlace' /\ NothingAhead'
  BY <1>1 DEF RowsAlone, IngestInv, IngestTyped, StreamPlace, NothingAhead, Upcoming
<1>3. BlockInHand' /\ PassedIsSeen' /\ RowsAreThere' /\ HeightsConfirmed'
  <2>1. ReachedTo' = ReachedTo
    BY <1>1 DEF ReachedTo
  <2>2. BlockInHand'
    <3> SUFFICES ASSUME ingestor.pc \in InBlock PROVE BlockInHand'
      BY <1>1 DEF BlockInHand
    <3>1. PICK b \in Ingest!At(ingestor.n) :
        /\ ingestor.block = b.hash /\ Ingest!Canonical(ingestor.n) = {} /\ Ingest!Observed(ingestor.n) = {b}
        /\ \A p \in Ingest!Canonical(ingestor.n - 1) : p.hash = b.parent
        /\ ingestor.pc # "txs" => TxsOf(b)
        /\ ingestor.pc \in {"candidates", "confirm"} => LogsOf(b)
        /\ ingestor.pc = "confirm" => CandidatesOf(b)
        /\ ingestor.pc = "candidates" => \E s \in Ingest!At(ingestor.n) :
               ingestor.source = s.hash /\ (s = b \/ ingestor.n \in mixed)
      BY DEF IngestInv, BlockInHand
    <3>2. b \in ChainBlocks /\ Ingest!At(ingestor.n)' = Ingest!At(ingestor.n)
      BY <1>1 DEF Ingest!At
    <3> QED
      BY <1>1, <3>1, <3>2, RowsAlike DEF BlockInHand, RowsAlone
  <2>3. PassedIsSeen'
    BY <1>1, <2>1, RowsAlike DEF PassedIsSeen, IngestInv, RowsAlone
  <2>4. RowsAreThere'
    BY <1>1, <2>1, RowsAlike DEF RowsAreThere, IngestInv, RowsAlone
  <2>5. HeightsConfirmed'
    BY <1>1, RowsAlike DEF HeightsConfirmed, IngestInv, RowsAlone
  <2> QED
    BY <2>2, <2>3, <2>4, <2>5
<1>4. TxsMarked' /\ EventsMarked'
  BY <1>1 DEF RowsAlone, IngestInv, TxsMarked, EventsMarked
<1> QED
  BY <1>1, <1>2, <1>3, <1>4, RowsAlike DEF IngestInv

LEMMA PlaceNumbers ==
    ASSUME IngestInv
    PROVE  /\ Upcoming \in Nat /\ ReachedTo \in Nat
           /\ first # Ingest!NoBlock => /\ first <= Upcoming /\ Upcoming # 0
                                        /\ checkpoint < Upcoming /\ checkpoint <= ReachedTo /\ ReachedTo <= Upcoming
<1>1. /\ checkpoint \in Nat /\ first \in Nat /\ ingestor.n \in Nat
  BY DEF IngestInv, IngestTyped, Place
<1>2. /\ first = Ingest!NoBlock => checkpoint = Ingest!NoBlock /\ ingestor.pc = "idle"
      /\ checkpoint # Ingest!NoBlock => first <= checkpoint + 1
      /\ ingestor.pc # "idle" => ingestor.n = Upcoming
  BY DEF IngestInv, StreamPlace
<1>3. /\ Upcoming \in Nat
      /\ first # Ingest!NoBlock => first <= Upcoming /\ Upcoming # 0 /\ checkpoint < Upcoming
  BY <1>1, <1>2 DEF Upcoming, Ingest!NoBlock
<1>4. ReachedTo = checkpoint \/ (ingestor.pc # "idle" /\ ReachedTo = ingestor.n)
  BY DEF ReachedTo, Marking
<1> QED
  BY <1>1, <1>2, <1>3, <1>4

LEMMA NothingYet ==
    ASSUME IngestInv, first = Ingest!NoBlock
    PROVE  \A b \in ChainBlocks : blocks[b.hash] = "none"
  BY BlockIs DEF IngestInv, NothingAhead

(* Steps of the place alone that end a tick, or begin one.                                  *)
LEMMA PlaceMoves ==
    ASSUME IngestInv, RowsAlone, IngestTyped', StreamPlace', cut \subseteq cut',
           ingestor'.pc \notin InBlock, ingestor'.heights = {}, \A h \in ingestor.heights : h \in cut',
           Upcoming' \in Nat, ReachedTo' \in Nat,
           \/ first' = first /\ ReachedTo' <= ReachedTo /\ Upcoming <= Upcoming'
           \/ first = Ingest!NoBlock /\ ReachedTo' < first'
    PROVE  IngestInv'
<1>1. /\ OnePerHeight' /\ ChildOfBelow' /\ RowsAreOwned' /\ Ingest!MarkedAreCanonical'
      /\ \A m : Ingest!Canonical(m)' = Ingest!Canonical(m) /\ Ingest!Observed(m)' = Ingest!Observed(m)
      /\ \A b \in ChainBlocks : RowsOf(b)' = RowsOf(b)
  BY RowsAlike
<1>2. BlockInHand' /\ HeightsConfirmed'
  BY DEF BlockInHand, HeightsConfirmed
<1>3. TxsMarked' /\ EventsMarked'
  BY DEF IngestInv, TxsMarked, EventsMarked, RowsAlone
<1>4. /\ Upcoming \in Nat /\ ReachedTo \in Nat /\ first \in Nat /\ first' \in Nat /\ depth \in Nat
      /\ \A b \in ChainBlocks : b.height \in Nat
  BY PlaceNumbers, BlockIs DEF IngestInv, IngestTyped
<1>5. CASE first = Ingest!NoBlock /\ ReachedTo' < first'
  <2>1. \A b \in ChainBlocks : blocks'[b.hash] = "none"
    BY <1>5, NothingYet DEF RowsAlone
  <2>2. NothingAhead' /\ RowsAreThere'
    BY <2>1 DEF NothingAhead, RowsAreThere
  <2>3. PassedIsSeen'
    BY <1>4, <1>5 DEF PassedIsSeen
  <2> QED
    BY <1>1, <1>2, <1>3, <2>2, <2>3 DEF IngestInv
<1>6. CASE first' = first /\ ReachedTo' <= ReachedTo /\ Upcoming <= Upcoming'
  <2>1. NothingAhead'
    <3> SUFFICES ASSUME NEW b \in ChainBlocks, blocks'[b.hash] # "none"
                 PROVE  /\ first' # Ingest!NoBlock /\ first' <= b.height /\ b.height <= Upcoming'
                        /\ blocks'[b.hash] = "canonical" => b.height + depth' <= Upcoming'
      BY DEF NothingAhead
    <3>1. /\ first # Ingest!NoBlock /\ first <= b.height /\ b.height <= Upcoming
          /\ blocks[b.hash] = "canonical" => b.height + depth <= Upcoming
      BY DEF IngestInv, NothingAhead, RowsAlone
    <3> QED
      BY <1>4, <1>6, <3>1 DEF RowsAlone
  <2>2. RowsAreThere'
    BY <1>1, <1>4, <1>6 DEF RowsAreThere, IngestInv, RowsAlone
  <2>3. PassedIsSeen'
    <3> SUFFICES ASSUME first # Ingest!NoBlock, NEW m \in first..ReachedTo'
                 PROVE  /\ m + depth <= ReachedTo' => Ingest!Canonical(m) # {}
                        /\ Ingest!Canonical(m) # {} \/ \E x \in ChainBlocks : Ingest!Observed(m) = {x}
      BY <1>1, <1>6 DEF PassedIsSeen, RowsAlone
    <3>1. m \in first..ReachedTo /\ (m + depth <= ReachedTo' => m + depth <= ReachedTo)
      BY <1>4, <1>6
    <3> QED
      BY <3>1 DEF IngestInv, PassedIsSeen
  <2> QED
    BY <1>1, <1>2, <1>3, <2>1, <2>2, <2>3 DEF IngestInv
<1> QED
  BY <1>5, <1>6

LEMMA IngestPrimes == ASSUME IngestInv, Ingest!Prime PROVE IngestInv'
<1>1. PICK latest \in 1..ChainTop : checkpoint' = latest /\ first' = latest + 1
  BY DEF Ingest!Prime
<1>2. /\ ingestor.pc = "idle" /\ checkpoint = Ingest!NoBlock /\ startBlock = Ingest!NoBlock /\ RowsAlone
      /\ UNCHANGED <<ingestor, cut>>
  BY DEF Ingest!Prime, RowsAlone, Ingest!config, Ingest!store
<1>3. latest \in Nat /\ latest # 0
  BY BlockNumbers
<1>4. first = Ingest!NoBlock /\ ingestor.heights = {}
  BY <1>2 DEF IngestInv, StreamPlace, Marking
<1>5. IngestTyped'
  BY <1>1, <1>2, <1>3 DEF IngestInv, IngestTyped, RowsAlone
<1>6. StreamPlace'
  BY <1>1, <1>2, <1>3, <1>4 DEF StreamPlace, Ingest!NoBlock
<1>7. Upcoming' = latest + 1 /\ ReachedTo' = latest
  BY <1>1, <1>2, <1>3 DEF Upcoming, ReachedTo, Marking, Ingest!NoBlock
<1> QED
  BY <1>1, <1>2, <1>3, <1>4, <1>5, <1>6, <1>7, PlaceMoves DEF InBlock

LEMMA IngestTicks == ASSUME IngestInv, Ingest!Tick PROVE IngestInv'
<1> DEFINE from == IF checkpoint = Ingest!NoBlock THEN startBlock ELSE checkpoint + 1
<1>1. PICK latest \in from..ChainTop :
          ingestor' = [ingestor EXCEPT !.pc = "block", !.n = from,
                           !.end = IF latest < from + BlocksPerTick - 1 THEN latest ELSE from + BlocksPerTick - 1]
  BY DEF Ingest!Tick
<1>2. /\ ingestor.pc = "idle" /\ from # Ingest!NoBlock /\ first' = IF first = Ingest!NoBlock THEN from ELSE first
      /\ RowsAlone /\ UNCHANGED <<checkpoint, cut>>
  BY DEF Ingest!Tick, RowsAlone, Ingest!config, Ingest!store
<1>3. ingestor \in Place /\ checkpoint \in Nat /\ first \in Nat /\ startBlock \in Nat /\ from \in Nat
  BY DEF IngestInv, IngestTyped
<1>4. /\ ingestor.heights = {}
      /\ first = Ingest!NoBlock => checkpoint = Ingest!NoBlock
      /\ checkpoint # Ingest!NoBlock => first <= checkpoint + 1
      /\ first # Ingest!NoBlock /\ checkpoint = Ingest!NoBlock => first = startBlock
  BY <1>2 DEF IngestInv, StreamPlace, Marking
<1>5. ingestor' \in Place /\ ingestor'.pc = "block" /\ ingestor'.n = from /\ ingestor'.heights = {}
  <2>1. latest \in Int /\ from + BlocksPerTick - 1 \in Int
    BY <1>3, BlockNumbers
  <2> HIDE DEF from
  <2> DEFINE last == IF latest < from + BlocksPerTick - 1 THEN latest ELSE from + BlocksPerTick - 1
  <2>2. last \in Int
    BY <2>1
  <2>3. ingestor' = [ingestor EXCEPT !.pc = "block", !.n = from, !.end = last]
    BY <1>1
  <2> HIDE DEF last
  <2>4. ingestor' \in Place
    BY <1>3, <2>2, <2>3 DEF Place
  <2>5. ingestor'.pc = "block" /\ ingestor'.n = from /\ ingestor'.heights = ingestor.heights
    BY <1>3, <2>3 DEF Place
  <2> QED
    BY <1>4, <2>4, <2>5
<1>6. IngestTyped'
  BY <1>2, <1>3, <1>5 DEF IngestInv, IngestTyped, RowsAlone
<1>7. Upcoming' = from
  BY <1>2, <1>3, <1>4 DEF Upcoming, Ingest!NoBlock
<1>8. StreamPlace'
  BY <1>2, <1>3, <1>4, <1>5, <1>7 DEF StreamPlace, Ingest!NoBlock, RowsAlone
<1>9. ReachedTo' = checkpoint /\ ReachedTo = checkpoint
  BY <1>2, <1>5 DEF ReachedTo, Marking
<1>10. \/ first' = first /\ Upcoming = from
       \/ first = Ingest!NoBlock /\ checkpoint < first'
  BY <1>2, <1>3, <1>4 DEF Upcoming, Ingest!NoBlock
<1>11. /\ cut \subseteq cut' /\ ingestor'.pc \notin InBlock /\ ingestor'.heights = {}
       /\ \A h \in ingestor.heights : h \in cut'
  BY <1>2, <1>4, <1>5 DEF InBlock
<1> HIDE DEF from
<1>12. /\ Upcoming' \in Nat /\ ReachedTo' \in Nat
       /\ \/ first' = first /\ ReachedTo' <= ReachedTo /\ Upcoming <= Upcoming'
          \/ first = Ingest!NoBlock /\ ReachedTo' < first'
  BY <1>3, <1>7, <1>9, <1>10
<1> QED
  BY <1>2, <1>6, <1>8, <1>11, <1>12, PlaceMoves

LEMMA IngestStops == ASSUME IngestInv, Ingest!Stop PROVE IngestInv'
<1>1. /\ ingestor.pc # "idle" /\ ingestor' = Ingest!Idle /\ cut' = cut \cup ingestor.heights
      /\ RowsAlone /\ UNCHANGED <<checkpoint, first>>
  BY DEF Ingest!Stop, RowsAlone, Ingest!config, Ingest!store
<1>2. Ingest!Idle \in Place /\ Ingest!Idle.pc = "idle" /\ Ingest!Idle.heights = {}
  BY DEF Ingest!Idle, Place, Ingest!NoBlock
<1>3. IngestTyped' /\ StreamPlace'
  BY <1>1, <1>2 DEF IngestInv, IngestTyped, StreamPlace, RowsAlone
<1>4. Upcoming' = Upcoming /\ ReachedTo' = checkpoint
  BY <1>1, <1>2 DEF Upcoming, ReachedTo, Marking
<1>5. first # Ingest!NoBlock /\ checkpoint \in Nat
  BY <1>1 DEF IngestInv, StreamPlace, IngestTyped
<1> QED
  BY <1>1, <1>2, <1>3, <1>4, <1>5, PlaceMoves, PlaceNumbers DEF InBlock

LEMMA IngestPasses == ASSUME IngestInv, Ingest!SetCheckpoint PROVE IngestInv'
<1>1. /\ ingestor.pc = "checkpoint" /\ checkpoint' = ingestor.n /\ RowsAlone /\ UNCHANGED <<first, cut>>
      /\ ingestor' \in {[Ingest!Idle EXCEPT !.pc = "block", !.n = ingestor.n + 1, !.end = ingestor.end], Ingest!Idle}
  BY DEF Ingest!SetCheckpoint, RowsAlone, Ingest!config, Ingest!store
<1>2. ingestor \in Place /\ first # Ingest!NoBlock /\ ingestor.n = Upcoming /\ ingestor.heights = {}
  BY <1>1 DEF IngestInv, IngestTyped, StreamPlace, Marking
<1>3. Upcoming \in Nat /\ Upcoming # 0 /\ first <= Upcoming /\ first \in Nat
  BY <1>2, PlaceNumbers DEF IngestInv, IngestTyped
<1>4. /\ ingestor' \in Place /\ ingestor'.pc \in {"block", "idle"} /\ ingestor'.heights = {}
      /\ ingestor'.pc = "block" => ingestor'.n = ingestor.n + 1
  <2>1. ingestor.n + 1 \in Nat /\ ingestor.end \in Int
    BY <1>2 DEF Place
  <2>2. Ingest!Idle \in Place /\ Ingest!Idle.pc = "idle" /\ Ingest!Idle.heights = {}
    BY DEF Ingest!Idle, Place, Ingest!NoBlock
  <2>3. CASE ingestor' = Ingest!Idle
    BY <2>2, <2>3
  <2>4. CASE ingestor' = [Ingest!Idle EXCEPT !.pc = "block", !.n = ingestor.n + 1, !.end = ingestor.end]
    BY <2>1, <2>2, <2>4 DEF Place
  <2> QED
    BY <1>1, <2>3, <2>4
<1>5. IngestTyped'
  BY <1>1, <1>2, <1>3, <1>4 DEF IngestInv, IngestTyped, RowsAlone
<1>6. Upcoming' = Upcoming + 1 /\ ReachedTo' = Upcoming /\ ReachedTo = Upcoming
  BY <1>1, <1>2, <1>3, <1>4 DEF Upcoming, ReachedTo, Marking, Ingest!NoBlock
<1>7. StreamPlace'
  <2>1. checkpoint' = Upcoming /\ first' = first
    BY <1>1, <1>2
  <2>2. first' # Ingest!NoBlock /\ first' <= checkpoint' + 1 /\ checkpoint' # Ingest!NoBlock
    BY <1>2, <1>3, <2>1 DEF Ingest!NoBlock
  <2>3. ingestor'.pc # "idle" => ingestor'.n = Upcoming'
    BY <1>2, <1>4, <1>6
  <2> QED
    BY <1>4, <2>2, <2>3 DEF StreamPlace
<1> QED
  BY <1>1, <1>2, <1>3, <1>4, <1>5, <1>6, <1>7, PlaceMoves DEF InBlock

(* Steps between two places of a tick that leave the blocks alone.                           *)
LEMMA BlocksAlike ==
    ASSUME IngestInv, UNCHANGED <<startBlock, depth, blocks, checkpoint, first>>,
           ingestor.pc # "idle", ingestor'.n = ingestor.n, ReachedTo' = ReachedTo,
           ingestor'.heights \in {ingestor.heights, {}}, ingestor'.pc \notin Marking => ingestor'.heights = {}
    PROVE  /\ StreamPlace' /\ NothingAhead' /\ OnePerHeight' /\ ChildOfBelow' /\ PassedIsSeen'
           /\ HeightsConfirmed' /\ \A m : Ingest!Canonical(m)' = Ingest!Canonical(m) /\ Ingest!Observed(m)' = Ingest!Observed(m)
<1>1. \A m : Ingest!Canonical(m)' = Ingest!Canonical(m) /\ Ingest!Observed(m)' = Ingest!Observed(m)
  BY SeenAlike
<1>2. Upcoming' = Upcoming
  BY DEF Upcoming
<1>3. StreamPlace' /\ NothingAhead'
  BY <1>2 DEF IngestInv, StreamPlace, NothingAhead
<1>4. OnePerHeight' /\ ChildOfBelow'
  BY DEF IngestInv, OnePerHeight, ChildOfBelow
<1>5. PassedIsSeen' /\ HeightsConfirmed'
  BY <1>1 DEF IngestInv, PassedIsSeen, HeightsConfirmed
<1> QED
  BY <1>1, <1>3, <1>4, <1>5

LEMMA HeldBlock ==
    ASSUME IngestInv, ingestor.pc \in InBlock
    PROVE  \E b \in Ingest!At(ingestor.n) :
        /\ ingestor.block = b.hash /\ Ingest!Canonical(ingestor.n) = {} /\ Ingest!Observed(ingestor.n) = {b}
        /\ b \in ChainBlocks /\ b.height = ingestor.n /\ Owns(b.hash) /\ blocks[b.hash] = "observed"
        /\ \A p \in Ingest!Canonical(ingestor.n - 1) : p.hash = b.parent
        /\ ingestor.pc # "txs" => TxsOf(b)
        /\ ingestor.pc \in {"candidates", "confirm"} => LogsOf(b)
        /\ ingestor.pc = "confirm" => CandidatesOf(b)
        /\ ingestor.pc = "candidates" => \E s \in Ingest!At(ingestor.n) :
               ingestor.source = s.hash /\ (s = b \/ ingestor.n \in mixed)
<1>1. PICK b \in Ingest!At(ingestor.n) :
        /\ ingestor.block = b.hash /\ Ingest!Canonical(ingestor.n) = {} /\ Ingest!Observed(ingestor.n) = {b}
        /\ \A p \in Ingest!Canonical(ingestor.n - 1) : p.hash = b.parent
        /\ ingestor.pc # "txs" => TxsOf(b)
        /\ ingestor.pc \in {"candidates", "confirm"} => LogsOf(b)
        /\ ingestor.pc = "confirm" => CandidatesOf(b)
        /\ ingestor.pc = "candidates" => \E s \in Ingest!At(ingestor.n) :
               ingestor.source = s.hash /\ (s = b \/ ingestor.n \in mixed)
  BY DEF IngestInv, BlockInHand
<1>2. b \in ChainBlocks /\ b.height = ingestor.n /\ blocks[b.hash] = "observed"
  BY <1>1 DEF Ingest!At, Ingest!Observed
<1>3. Owns(b.hash)
  BY <1>1, <1>2, BlockIs DEF Owns
<1> QED
  BY <1>1, <1>2, <1>3

(* The heights a tick has reached before the one in hand.                                   *)
LEMMA BelowTheHand ==
    ASSUME IngestInv, first # Ingest!NoBlock, NEW m \in Nat, first <= m, m < Upcoming
    PROVE  m <= checkpoint
  BY DEF Upcoming, IngestInv, IngestTyped, Ingest!NoBlock

LEMMA IngestGets == ASSUME IngestInv, Ingest!GetBlock PROVE IngestInv'
<1>1. PICK b \in Ingest!At(ingestor.n) :
          /\ blocks' = Ingest!Stored(b)
          /\ \/ /\ Ingest!Canonical(b.height) # {}
                /\ ingestor' = [ingestor EXCEPT !.pc = "checkpoint"]
             \/ /\ Ingest!Canonical(b.height) = {} /\ Ingest!Ambiguous(b)
                /\ ingestor' = Ingest!Idle
             \/ /\ Ingest!Canonical(b.height) = {} /\ ~Ingest!Ambiguous(b)
                /\ ingestor' = [ingestor EXCEPT !.pc = "txs", !.block = b.hash]
  BY DEF Ingest!GetBlock
<1>2. /\ ingestor.pc = "block"
      /\ UNCHANGED <<startBlock, depth, transactions, block_logs, candidates, checkpoint, first, mixed, cut>>
  BY DEF Ingest!GetBlock, Ingest!config
<1>3. /\ ingestor \in Place /\ ingestor.heights = {} /\ ingestor.n = Upcoming /\ first # Ingest!NoBlock
      /\ blocks \in [Ingest!Hashes -> {"none", "observed", "canonical"}]
  BY <1>2 DEF IngestInv, IngestTyped, StreamPlace, Marking
<1>4. b \in ChainBlocks /\ b.height = ingestor.n /\ b.hash \in Ingest!Hashes
  BY <1>1, BlockIs DEF Ingest!At
<1>5. /\ blocks' \in [Ingest!Hashes -> {"none", "observed", "canonical"}]
      /\ \A c \in ChainBlocks : /\ blocks'[c.hash] = "canonical" <=> blocks[c.hash] = "canonical"
                                /\ c # b => blocks'[c.hash] = blocks[c.hash]
                                /\ blocks[c.hash] # "none" => blocks'[c.hash] # "none"
      /\ blocks'[b.hash] = IF blocks[b.hash] = "none" THEN "observed" ELSE blocks[b.hash]
  <2>1. \A c \in ChainBlocks : c.hash \in Ingest!Hashes /\ (c.hash = b.hash => c = b)
    BY <1>4, BlockNumbers, BlockIs
  <2> QED
    BY <1>1, <1>3, <1>4, <2>1 DEF Ingest!Stored
<1>6. /\ \A m : Ingest!Canonical(m)' = Ingest!Canonical(m) /\ (m # ingestor.n => Ingest!Observed(m)' = Ingest!Observed(m))
      /\ Ingest!Observed(ingestor.n) \subseteq ChainBlocks
  BY <1>4, <1>5 DEF Ingest!Canonical, Ingest!Observed, Ingest!At
<1>7. /\ ingestor' \in Place /\ ingestor'.heights = {}
      /\ ingestor'.pc \in {"checkpoint", "idle", "txs"} /\ (ingestor'.pc # "idle" => ingestor'.n = ingestor.n)
      /\ ingestor'.pc = "checkpoint" => Ingest!Canonical(ingestor.n) # {}
      /\ ingestor'.pc = "txs" => ingestor'.block = b.hash /\ Ingest!Canonical(ingestor.n) = {} /\ ~Ingest!Ambiguous(b)
  <2>1. CASE Ingest!Canonical(b.height) # {} /\ ingestor' = [ingestor EXCEPT !.pc = "checkpoint"]
    BY <1>3, <1>4, <2>1 DEF Place
  <2>2. CASE ingestor' = Ingest!Idle
    BY <2>2 DEF Ingest!Idle, Place, Ingest!NoBlock
  <2>3. CASE Ingest!Canonical(b.height) = {} /\ ~Ingest!Ambiguous(b) /\ ingestor' = [ingestor EXCEPT !.pc = "txs", !.block = b.hash]
    BY <1>3, <1>4, <2>3 DEF Place, InBlock
  <2> QED
    BY <1>1, <2>1, <2>2, <2>3
<1>8. /\ Upcoming' = Upcoming /\ ReachedTo = checkpoint
      /\ ReachedTo' = IF ingestor'.pc = "checkpoint" THEN ingestor.n ELSE checkpoint
  BY <1>2, <1>7 DEF Upcoming, ReachedTo, Marking
<1>9. /\ first \in Nat /\ checkpoint \in Nat /\ depth \in Nat /\ ingestor.n \in Nat
      /\ first <= ingestor.n /\ checkpoint < ingestor.n
  BY <1>3, PlaceNumbers DEF IngestInv, IngestTyped
<1>10. IngestTyped' /\ StreamPlace'
  BY <1>2, <1>3, <1>5, <1>7, <1>8 DEF IngestInv, IngestTyped, StreamPlace
<1>11. NothingAhead'
  <2> SUFFICES ASSUME NEW c \in ChainBlocks, blocks'[c.hash] # "none"
               PROVE  /\ first # Ingest!NoBlock /\ first <= c.height /\ c.height <= Upcoming
                      /\ blocks[c.hash] = "canonical" => c.height + depth <= Upcoming
    BY <1>2, <1>5, <1>8 DEF NothingAhead
  <2>1. CASE blocks[c.hash] # "none"
    BY <2>1 DEF IngestInv, NothingAhead
  <2>2. CASE blocks[c.hash] = "none"
    <3>1. c = b
      BY <1>5, <2>2
    <3> QED
      BY <1>3, <1>4, <1>9, <2>2, <3>1
  <2> QED
    BY <2>1, <2>2
<1>12. OnePerHeight' /\ ChildOfBelow'
  BY <1>2, <1>5 DEF IngestInv, OnePerHeight, ChildOfBelow
<1>13. BlockInHand'
  <2> SUFFICES ASSUME ingestor'.pc = "txs"
               PROVE  /\ Ingest!Observed(ingestor.n)' = {b}
                      /\ \A p \in Ingest!Canonical(ingestor.n - 1) : p.hash = b.parent
    BY <1>1, <1>6, <1>7 DEF BlockInHand, InBlock, Ingest!At
  <2>1. ~Ingest!Ambiguous(b) /\ Ingest!Canonical(ingestor.n) = {}
    BY <1>7
  <2>2. blocks[b.hash] # "canonical"
    BY <1>4, <2>1 DEF Ingest!Canonical, Ingest!At
  <2>3. blocks'[b.hash] = "observed"
    BY <1>3, <1>4, <1>5, <2>2
  <2>4. \A o \in Ingest!Observed(ingestor.n) : o = b
    BY <1>4, <2>1, BlockNumbers DEF Ingest!Ambiguous, Ingest!Observed, Ingest!At
  <2>5. Ingest!Observed(ingestor.n)' = {b}
    <3>1. b \in Ingest!At(ingestor.n) /\ \A c \in Ingest!At(ingestor.n) : c # b => blocks'[c.hash] # "observed"
      BY <1>4, <1>5, <2>4 DEF Ingest!Observed, Ingest!At
    <3>2. \A c : c \in Ingest!Observed(ingestor.n)' <=> c \in Ingest!At(ingestor.n) /\ blocks'[c.hash] = "observed"
      BY <1>7 DEF Ingest!Observed, Ingest!At
    <3> QED
      BY <2>3, <3>1, <3>2
  <2>6. \A p \in Ingest!Canonical(ingestor.n - 1) : p.hash = b.parent
    BY <1>4, <2>1 DEF Ingest!Ambiguous
  <2> QED
    BY <2>5, <2>6
<1>14. PassedIsSeen'
  <2> SUFFICES ASSUME NEW m \in first..ReachedTo'
               PROVE  /\ m + depth <= ReachedTo' => Ingest!Canonical(m) # {}
                      /\ Ingest!Canonical(m) # {} \/ \E x \in ChainBlocks : Ingest!Observed(m)' = {x}
    BY <1>2, <1>6 DEF PassedIsSeen
  <2>1. CASE m <= checkpoint
    <3>1. /\ m \in first..ReachedTo /\ m # ingestor.n
      BY <1>8, <1>9, <2>1
    <3>2. /\ m + depth <= checkpoint => Ingest!Canonical(m) # {}
          /\ Ingest!Canonical(m) # {} \/ \E x \in ChainBlocks : Ingest!Observed(m)' = {x}
      BY <1>3, <1>6, <1>8, <3>1 DEF IngestInv, PassedIsSeen
    <3>3. CASE ingestor'.pc = "checkpoint"
      <4>1. PICK c \in ChainBlocks : c.height = ingestor.n /\ blocks[c.hash] = "canonical"
        BY <1>7, <3>3 DEF Ingest!Canonical, Ingest!At
      <4>2. depth = 0
        BY <1>3, <1>9, <4>1 DEF IngestInv, NothingAhead
      <4> QED
        BY <1>9, <2>1, <3>2, <4>2
    <3> QED
      BY <1>8, <3>2, <3>3
  <2>2. CASE ~(m <= checkpoint)
    <3>1. ingestor'.pc = "checkpoint" /\ m = ingestor.n
      BY <1>3, <1>8, <1>9, <2>2, BelowTheHand
    <3> QED
      BY <1>7, <3>1
  <2> QED
    BY <2>1, <2>2
<1>15. RowsAreThere'
  <2>1. \A c \in ChainBlocks : RowsOf(c)' = RowsOf(c)
    BY <1>2 DEF RowsOf, TxsOf, LogsOf, CandidatesOf
  <2> SUFFICES ASSUME NEW c \in ChainBlocks, blocks'[c.hash] = "observed", c.height <= ReachedTo', Ingest!Canonical(c.height) = {}
               PROVE  RowsOf(c)
    BY <1>5, <1>6, <2>1 DEF RowsAreThere, IngestInv
  <2>2. c.height # ingestor.n
    <3>1. CASE ingestor'.pc = "checkpoint"
      BY <1>7, <3>1
    <3>2. CASE ingestor'.pc # "checkpoint"
      BY <1>8, <1>9, <3>2
    <3> QED
      BY <3>1, <3>2
  <2>3. blocks[c.hash] = "observed" /\ c.height \in Nat
    BY <1>4, <1>5, <2>2, BlockIs
  <2>4. first <= c.height /\ c.height <= ingestor.n
    BY <1>3, <2>3 DEF IngestInv, NothingAhead
  <2>5. c.height <= checkpoint
    BY <1>3, <1>9, <2>2, <2>3, <2>4, BelowTheHand
  <2> QED
    BY <1>8, <2>3, <2>5 DEF IngestInv, RowsAreThere
<1>16. RowsAreOwned'
  <2>1. ASSUME NEW h \in Ingest!Hashes, Owns(h) PROVE Owns(h)'
    <3>1. PICK c \in ChainBlocks : c.hash = h
      BY DEF Ingest!Hashes
    <3> QED
      BY <1>5, <1>6, <2>1, <3>1 DEF Owns
  <2>2. \A t \in Ingest!TxIds : transactions[t].block # Ingest!NoBlock => transactions[t].block \in Ingest!Hashes
    BY DEF IngestInv, IngestTyped
  <2> QED
    BY <1>2, <2>1, <2>2, BlockIs DEF IngestInv, RowsAreOwned
<1>17. HeightsConfirmed'
  BY <1>7 DEF HeightsConfirmed
<1>18. Ingest!MarkedAreCanonical' /\ TxsMarked'
  <2>1. \A h \in Ingest!Hashes : blocks'[h] = "canonical" <=> blocks[h] = "canonical"
    BY <1>5 DEF Ingest!Hashes
  <2>2. \A t \in Ingest!TxIds : /\ transactions[t].block # Ingest!NoBlock => transactions[t].block \in Ingest!Hashes
                                /\ transactions[t].canonical => blocks[transactions[t].block] = "canonical"
    BY DEF IngestInv, IngestTyped, Ingest!MarkedAreCanonical
  <2>3. \A t \in Ingest!TxIds : transactions[t].canonical => blocks'[transactions[t].block] = "canonical"
    <3> SUFFICES ASSUME NEW t \in Ingest!TxIds, transactions[t].canonical, transactions[t].block = Ingest!NoBlock PROVE FALSE
      BY <2>1, <2>2
    <3> QED
      BY DEF IngestInv, IngestTyped
  <2>4. Ingest!MarkedAreCanonical'
    BY <1>2, <1>5, <2>3 DEF IngestInv, Ingest!MarkedAreCanonical
  <2>5. TxsMarked'
    BY <1>2, <1>3, <1>7, <2>1, <2>2 DEF IngestInv, TxsMarked
  <2> QED
    BY <2>4, <2>5
<1>19. EventsMarked'
  BY <1>2, <1>3, <1>5, <1>7 DEF IngestInv, EventsMarked, Marking
<1> QED
  BY <1>10, <1>11, <1>12, <1>13, <1>14, <1>15, <1>16, <1>17, <1>18, <1>19 DEF IngestInv

(* Rows that are inserted: of a block in sight, or at a height whose logs are mixed.         *)
MoreRows(old, new) ==
    \A c \in ChainBlocks :
        \/ new[c.hash] = old[c.hash]
        \/ /\ old[c.hash] = "none" /\ new[c.hash] = "stored"
           /\ Owns(c.hash) \/ c.height \in mixed'
LEMMA RowsGrow ==
    ASSUME IngestInv, UNCHANGED <<startBlock, depth, blocks, checkpoint, first, cut>>,
           ingestor.pc \in InBlock, ingestor'.pc \in InBlock, ingestor'.n = ingestor.n,
           ingestor'.heights = ingestor.heights, mixed \subseteq mixed',
           MoreRows(block_logs, block_logs'), MoreRows(candidates, candidates'),
           \A t \in Ingest!TxIds :
               \/ transactions'[t] = transactions[t]
               \/ /\ transactions[t].block = Ingest!NoBlock /\ transactions'[t].block \in Ingest!Hashes
                  /\ Owns(transactions'[t].block) /\ blocks[transactions'[t].block] = "observed"
                  /\ ~transactions'[t].canonical
    PROVE  /\ StreamPlace' /\ NothingAhead' /\ OnePerHeight' /\ ChildOfBelow' /\ PassedIsSeen'
           /\ RowsAreThere' /\ RowsAreOwned' /\ HeightsConfirmed' /\ Ingest!MarkedAreCanonical'
           /\ TxsMarked' /\ EventsMarked'
           /\ \A m : Ingest!Canonical(m)' = Ingest!Canonical(m) /\ Ingest!Observed(m)' = Ingest!Observed(m)
           /\ \A c \in ChainBlocks : /\ TxsOf(c) => TxsOf(c)'
                                     /\ LogsOf(c) => LogsOf(c)'
                                     /\ CandidatesOf(c) => CandidatesOf(c)'
<1>1. /\ ingestor.heights = {} /\ ingestor'.heights = {} /\ ReachedTo' = ReachedTo /\ ingestor'.pc \notin Marking
      /\ ingestor.pc # "idle"
  BY DEF IngestInv, StreamPlace, Marking, InBlock, ReachedTo
<1>2. /\ StreamPlace' /\ NothingAhead' /\ OnePerHeight' /\ ChildOfBelow' /\ PassedIsSeen'
      /\ HeightsConfirmed'
      /\ \A m : Ingest!Canonical(m)' = Ingest!Canonical(m) /\ Ingest!Observed(m)' = Ingest!Observed(m)
  BY <1>1, BlocksAlike
<1>3. \A h \in Ingest!Hashes : Owns(h)' <=> Owns(h)
  BY <1>2 DEF Owns
<1>4. \A t \in Ingest!TxIds : transactions[t].block # Ingest!NoBlock => transactions'[t] = transactions[t]
  OBVIOUS
<1>5. ASSUME NEW c \in ChainBlocks
      PROVE  /\ TxsOf(c) => TxsOf(c)'
             /\ LogsOf(c) => LogsOf(c)'
             /\ CandidatesOf(c) => CandidatesOf(c)'
  <2>1. c.txs \subseteq Ingest!TxIds
    BY DEF Ingest!TxIds
  <2> QED
    BY <1>4, <2>1 DEF TxsOf, LogsOf, CandidatesOf, MoreRows
<1>6. RowsAreThere'
  <2>1. \A c \in ChainBlocks : RowsOf(c) => RowsOf(c)'
    BY <1>5 DEF RowsOf
  <2> QED
    BY <1>1, <1>2, <2>1 DEF IngestInv, RowsAreThere
<1>7. RowsAreOwned'
  <2>1. \A t \in Ingest!TxIds : transactions[t].block # Ingest!NoBlock => transactions[t].block \in Ingest!Hashes
    BY DEF IngestInv, IngestTyped
  <2>2. \A t \in Ingest!TxIds : transactions'[t].block # Ingest!NoBlock =>
           transactions'[t].block \in Ingest!Hashes /\ Owns(transactions'[t].block)
    BY <2>1 DEF IngestInv, RowsAreOwned
  <2>3. \A c \in ChainBlocks :
          /\ block_logs'[c.hash] # "none" \/ candidates'[c.hash] # "none"
          /\ c.height \notin mixed'
          => Owns(c.hash)'
    BY <1>3, BlockIs DEF IngestInv, RowsAreOwned, MoreRows
  <2> QED
    BY <1>3, <2>2, <2>3 DEF RowsAreOwned
<1>8. Ingest!MarkedAreCanonical'
  <2>1. \A t \in Ingest!TxIds : transactions'[t].canonical => blocks'[transactions'[t].block] = "canonical"
    BY DEF IngestInv, Ingest!MarkedAreCanonical
  <2>2. \A b \in ChainBlocks :
           /\ "canonical" \in {block_logs'[b.hash], candidates'[b.hash]}
           /\ b.height \notin mixed'
           => blocks'[b.hash] = "canonical"
    BY DEF IngestInv, Ingest!MarkedAreCanonical, MoreRows
  <2> QED
    BY <2>1, <2>2 DEF Ingest!MarkedAreCanonical
<1>9. TxsMarked'
  BY <1>1, <1>4 DEF IngestInv, TxsMarked
<1>10. EventsMarked'
  BY <1>1 DEF IngestInv, EventsMarked, MoreRows
<1> QED
  BY <1>2, <1>5, <1>6, <1>7, <1>8, <1>9, <1>10

LEMMA IngestStoresTxs == ASSUME IngestInv, Ingest!StoreTransactions PROVE IngestInv'
<1>1. /\ ingestor.pc = "txs" /\ ingestor' = [ingestor EXCEPT !.pc = "logs"]
      /\ transactions' =
           [t \in Ingest!TxIds |->
               IF t \in Ingest!BlockOf(ingestor.block).txs /\ transactions[t].block = Ingest!NoBlock
               THEN [block |-> ingestor.block, canonical |-> FALSE] ELSE transactions[t]]
      /\ UNCHANGED <<startBlock, depth, blocks, block_logs, candidates, checkpoint, first, mixed, cut>>
  BY DEF Ingest!StoreTransactions, Ingest!config
<1>2. PICK b \in Ingest!At(ingestor.n) :
        /\ ingestor.block = b.hash /\ Ingest!Canonical(ingestor.n) = {} /\ Ingest!Observed(ingestor.n) = {b}
        /\ b \in ChainBlocks /\ b.height = ingestor.n /\ Owns(b.hash) /\ blocks[b.hash] = "observed"
        /\ \A p \in Ingest!Canonical(ingestor.n - 1) : p.hash = b.parent
  BY <1>1, HeldBlock DEF InBlock
<1>3. Ingest!BlockOf(ingestor.block) = b /\ b.hash \in Ingest!Hashes /\ b.hash # Ingest!NoBlock
  BY <1>2, BlockIs
<1>4. /\ ingestor' \in Place /\ ingestor'.pc = "logs" /\ ingestor'.n = ingestor.n
      /\ ingestor'.block = ingestor.block /\ ingestor'.heights = ingestor.heights
      /\ ingestor.n = Upcoming
  BY <1>1 DEF IngestInv, IngestTyped, StreamPlace, Place, InBlock
<1>5. \A t \in Ingest!TxIds :
         transactions'[t] = IF t \in b.txs /\ transactions[t].block = Ingest!NoBlock
                            THEN [block |-> b.hash, canonical |-> FALSE] ELSE transactions[t]
  BY <1>1, <1>2, <1>3
<1>6. IngestTyped'
  <2>1. \A t \in Ingest!TxIds : /\ transactions'[t] \in [block : Ingest!Hashes \cup {Ingest!NoBlock}, canonical : BOOLEAN]
                                /\ transactions'[t].canonical => transactions'[t].block # Ingest!NoBlock
    <3> SUFFICES ASSUME NEW t \in Ingest!TxIds
                 PROVE  /\ transactions'[t] \in [block : Ingest!Hashes \cup {Ingest!NoBlock}, canonical : BOOLEAN]
                        /\ transactions'[t].canonical => transactions'[t].block # Ingest!NoBlock
      OBVIOUS
    <3>1. /\ transactions[t] \in [block : Ingest!Hashes \cup {Ingest!NoBlock}, canonical : BOOLEAN]
          /\ transactions[t].canonical => transactions[t].block # Ingest!NoBlock
      BY DEF IngestInv, IngestTyped
    <3>2. CASE transactions'[t] = transactions[t]
      BY <3>1, <3>2
    <3>3. CASE transactions'[t] = [block |-> b.hash, canonical |-> FALSE]
      BY <1>3, <3>3
    <3> QED
      BY <1>5, <3>2, <3>3
  <2>2. transactions' \in [Ingest!TxIds -> [block : Ingest!Hashes \cup {Ingest!NoBlock}, canonical : BOOLEAN]]
    BY <1>1, <2>1
  <2> QED
    BY <1>1, <1>4, <2>1, <2>2 DEF IngestInv, IngestTyped
<1>7. /\ StreamPlace' /\ NothingAhead' /\ OnePerHeight' /\ ChildOfBelow' /\ PassedIsSeen'
      /\ RowsAreThere' /\ RowsAreOwned' /\ HeightsConfirmed' /\ Ingest!MarkedAreCanonical'
      /\ TxsMarked' /\ EventsMarked'
      /\ \A m : Ingest!Canonical(m)' = Ingest!Canonical(m) /\ Ingest!Observed(m)' = Ingest!Observed(m)
  <2>1. MoreRows(block_logs, block_logs') /\ MoreRows(candidates, candidates')
    BY <1>1 DEF MoreRows
  <2>2. \A t \in Ingest!TxIds :
               \/ transactions'[t] = transactions[t]
               \/ /\ transactions[t].block = Ingest!NoBlock /\ transactions'[t].block \in Ingest!Hashes
                  /\ Owns(transactions'[t].block) /\ blocks[transactions'[t].block] = "observed"
                  /\ ~transactions'[t].canonical
    BY <1>2, <1>3, <1>5
  <2>3. ingestor.pc \in InBlock /\ ingestor'.pc \in InBlock
    BY <1>1, <1>4 DEF InBlock
  <2> QED
    BY <1>1, <1>4, <2>1, <2>2, <2>3, RowsGrow
<1>8. BlockInHand'
  <2>1. TxsOf(b)'
    <3> SUFFICES ASSUME NEW t \in b.txs
                 PROVE  /\ transactions'[t].block # Ingest!NoBlock
                        /\ Ingest!BlockOf(transactions'[t].block).height <= b.height
      BY DEF TxsOf
    <3>1. t \in Ingest!TxIds
      BY <1>2 DEF Ingest!TxIds
    <3>2. CASE transactions[t].block = Ingest!NoBlock
      <4>1. transactions'[t].block = b.hash
        BY <1>5, <3>1, <3>2
      <4> QED
        BY <1>2, <1>3, <4>1, BlockIs
    <3>3. CASE transactions[t].block # Ingest!NoBlock
      <4>1. transactions[t].block \in Ingest!Hashes /\ blocks[transactions[t].block] # "none"
        BY <3>1, <3>3 DEF IngestInv, IngestTyped, RowsAreOwned, Owns
      <4>2. Ingest!BlockOf(transactions[t].block).height <= Upcoming
        BY <4>1, BlockIs DEF IngestInv, NothingAhead
      <4>3. transactions'[t] = transactions[t]
        BY <1>5, <3>1, <3>3
      <4> QED
        BY <1>2, <1>4, <3>3, <4>2, <4>3
    <3> QED
      BY <3>2, <3>3
  <2> QED
    BY <1>2, <1>4, <1>7, <2>1 DEF BlockInHand, Ingest!At
<1> QED
  BY <1>6, <1>7, <1>8 DEF IngestInv

LEMMA InsertedRow ==
    ASSUME NEW old \in [Ingest!Hashes -> {"none", "stored", "canonical"}], NEW s \in ChainBlocks
    PROVE  /\ Ingest!Insert(old, s.hash) \in [Ingest!Hashes -> {"none", "stored", "canonical"}]
           /\ s.event => Ingest!Insert(old, s.hash)[s.hash] # "none"
           /\ \A c \in ChainBlocks :
                 \/ Ingest!Insert(old, s.hash)[c.hash] = old[c.hash]
                 \/ c = s /\ old[c.hash] = "none" /\ Ingest!Insert(old, s.hash)[c.hash] = "stored"
<1>1. s.hash \in Ingest!Hashes /\ Ingest!BlockOf(s.hash) = s /\ \A c \in ChainBlocks : c.hash \in Ingest!Hashes /\ (c.hash = s.hash => c = s)
  BY BlockIs, BlockNumbers
<1>2. CASE s.event /\ old[s.hash] = "none"
  <2>1. Ingest!Insert(old, s.hash) = [old EXCEPT ![s.hash] = "stored"]
    BY <1>1, <1>2 DEF Ingest!Insert
  <2> QED
    BY <1>1, <1>2, <2>1
<1>3. CASE ~(s.event /\ old[s.hash] = "none")
  <2>1. Ingest!Insert(old, s.hash) = old
    BY <1>1, <1>3 DEF Ingest!Insert
  <2> QED
    BY <1>1, <1>3, <2>1
<1> QED
  BY <1>2, <1>3

LEMMA IngestStoresLogs == ASSUME IngestInv, Ingest!StoreLogs PROVE IngestInv'
<1>1. PICK s \in Ingest!At(ingestor.n) :
           /\ block_logs' = Ingest!Insert(block_logs, s.hash)
           /\ ingestor' = [ingestor EXCEPT !.pc = "candidates", !.source = s.hash]
           /\ mixed' = IF s.hash = ingestor.block THEN mixed ELSE mixed \cup {s.height}
  BY DEF Ingest!StoreLogs
<1>2. /\ ingestor.pc = "logs"
      /\ UNCHANGED <<startBlock, depth, blocks, transactions, candidates, checkpoint, first, cut>>
  BY DEF Ingest!StoreLogs, Ingest!config
<1>3. PICK b \in Ingest!At(ingestor.n) :
        /\ ingestor.block = b.hash /\ Ingest!Canonical(ingestor.n) = {} /\ Ingest!Observed(ingestor.n) = {b}
        /\ b \in ChainBlocks /\ b.height = ingestor.n /\ Owns(b.hash) /\ blocks[b.hash] = "observed"
        /\ \A p \in Ingest!Canonical(ingestor.n - 1) : p.hash = b.parent
        /\ TxsOf(b)
  BY <1>2, HeldBlock DEF InBlock
<1>4. s \in ChainBlocks /\ s.height = ingestor.n /\ s.hash \in Ingest!Hashes /\ (s.hash = b.hash => s = b)
  BY <1>1, <1>3, BlockIs, BlockNumbers DEF Ingest!At
<1>5. /\ ingestor' \in Place /\ ingestor'.pc = "candidates" /\ ingestor'.n = ingestor.n
      /\ ingestor'.block = ingestor.block /\ ingestor'.heights = ingestor.heights
      /\ ingestor'.source = s.hash
  BY <1>1, <1>4 DEF IngestInv, IngestTyped, Place, InBlock
<1>6. /\ mixed \subseteq mixed' /\ (s = b \/ ingestor.n \in mixed')
  BY <1>1, <1>3, <1>4
<1>7. /\ block_logs' \in [Ingest!Hashes -> {"none", "stored", "canonical"}]
      /\ s.event => block_logs'[s.hash] # "none"
      /\ \A c \in ChainBlocks :
            \/ block_logs'[c.hash] = block_logs[c.hash]
            \/ c = s /\ block_logs[c.hash] = "none" /\ block_logs'[c.hash] = "stored"
  <2>1. block_logs \in [Ingest!Hashes -> {"none", "stored", "canonical"}]
    BY DEF IngestInv, IngestTyped
  <2> QED
    BY <1>1, <1>4, <2>1, InsertedRow
<1>8. IngestTyped'
  BY <1>2, <1>5, <1>7 DEF IngestInv, IngestTyped
<1>9. MoreRows(block_logs, block_logs') /\ MoreRows(candidates, candidates')
  BY <1>2, <1>3, <1>4, <1>6, <1>7 DEF MoreRows
<1>10. /\ StreamPlace' /\ NothingAhead' /\ OnePerHeight' /\ ChildOfBelow' /\ PassedIsSeen'
       /\ RowsAreThere' /\ RowsAreOwned' /\ HeightsConfirmed' /\ Ingest!MarkedAreCanonical'
       /\ TxsMarked' /\ EventsMarked'
       /\ \A m : Ingest!Canonical(m)' = Ingest!Canonical(m) /\ Ingest!Observed(m)' = Ingest!Observed(m)
       /\ \A c \in ChainBlocks : TxsOf(c) => TxsOf(c)'
  <2>1. ingestor.pc \in InBlock /\ ingestor'.pc \in InBlock
    BY <1>2, <1>5 DEF InBlock
  <2> QED
    BY <1>2, <1>5, <1>6, <1>9, <2>1, RowsGrow
<1>11. BlockInHand'
  <2>1. LogsOf(b)'
    BY <1>3, <1>6, <1>7 DEF LogsOf
  <2> QED
    BY <1>1, <1>3, <1>4, <1>5, <1>6, <1>10, <2>1 DEF BlockInHand, Ingest!At
<1> QED
  BY <1>8, <1>10, <1>11 DEF IngestInv

LEMMA IngestStoresCandidates == ASSUME IngestInv, Ingest!StoreCandidates PROVE IngestInv'
<1>1. /\ ingestor.pc = "candidates" /\ candidates' = Ingest!Insert(candidates, ingestor.source)
      /\ ingestor' = [ingestor EXCEPT !.pc = "confirm"]
      /\ UNCHANGED <<startBlock, depth, blocks, transactions, block_logs, checkpoint, first, mixed, cut>>
  BY DEF Ingest!StoreCandidates, Ingest!config
<1>2. PICK b \in Ingest!At(ingestor.n) :
        /\ ingestor.block = b.hash /\ Ingest!Canonical(ingestor.n) = {} /\ Ingest!Observed(ingestor.n) = {b}
        /\ b \in ChainBlocks /\ b.height = ingestor.n /\ Owns(b.hash) /\ blocks[b.hash] = "observed"
        /\ \A p \in Ingest!Canonical(ingestor.n - 1) : p.hash = b.parent
        /\ TxsOf(b) /\ LogsOf(b)
        /\ \E s \in Ingest!At(ingestor.n) : ingestor.source = s.hash /\ (s = b \/ ingestor.n \in mixed)
  BY <1>1, HeldBlock DEF InBlock
<1>3. PICK s \in Ingest!At(ingestor.n) : ingestor.source = s.hash /\ (s = b \/ ingestor.n \in mixed)
  BY <1>2
<1>4. s \in ChainBlocks /\ s.height = ingestor.n
  BY <1>3 DEF Ingest!At
<1>5. /\ ingestor' \in Place /\ ingestor'.pc = "confirm" /\ ingestor'.n = ingestor.n
      /\ ingestor'.block = ingestor.block /\ ingestor'.heights = ingestor.heights
  BY <1>1 DEF IngestInv, IngestTyped, Place, InBlock
<1>6. /\ candidates' \in [Ingest!Hashes -> {"none", "stored", "canonical"}]
      /\ s.event => candidates'[s.hash] # "none"
      /\ \A c \in ChainBlocks :
            \/ candidates'[c.hash] = candidates[c.hash]
            \/ c = s /\ candidates[c.hash] = "none" /\ candidates'[c.hash] = "stored"
  <2>1. candidates \in [Ingest!Hashes -> {"none", "stored", "canonical"}]
    BY DEF IngestInv, IngestTyped
  <2> QED
    BY <1>1, <1>3, <1>4, <2>1, InsertedRow
<1>7. IngestTyped'
  BY <1>1, <1>5, <1>6 DEF IngestInv, IngestTyped
<1>8. MoreRows(block_logs, block_logs') /\ MoreRows(candidates, candidates')
  BY <1>1, <1>2, <1>3, <1>4, <1>6 DEF MoreRows
<1>9. /\ StreamPlace' /\ NothingAhead' /\ OnePerHeight' /\ ChildOfBelow' /\ PassedIsSeen'
      /\ RowsAreThere' /\ RowsAreOwned' /\ HeightsConfirmed' /\ Ingest!MarkedAreCanonical'
      /\ TxsMarked' /\ EventsMarked'
      /\ \A m : Ingest!Canonical(m)' = Ingest!Canonical(m) /\ Ingest!Observed(m)' = Ingest!Observed(m)
      /\ \A c \in ChainBlocks : /\ TxsOf(c) => TxsOf(c)'
                                /\ LogsOf(c) => LogsOf(c)'
  <2>1. ingestor.pc \in InBlock /\ ingestor'.pc \in InBlock
    BY <1>1, <1>5 DEF InBlock
  <2> QED
    BY <1>1, <1>5, <1>8, <2>1, RowsGrow
<1>10. BlockInHand'
  <2>1. CandidatesOf(b)'
    BY <1>1, <1>2, <1>3, <1>6 DEF CandidatesOf
  <2> QED
    BY <1>2, <1>5, <1>9, <2>1 DEF BlockInHand, Ingest!At
<1> QED
  BY <1>7, <1>9, <1>10 DEF IngestInv

LEMMA IngestConfirms == ASSUME IngestInv, Ingest!ConfirmBlocks PROVE IngestInv'
<1> DEFINE H == {n \in 1..ingestor.n - depth : Ingest!Confirmable(n)}
<1>1. /\ ingestor.pc = "confirm"
      /\ blocks' = [h \in Ingest!Hashes |->
                         IF blocks[h] = "observed" /\ Ingest!BlockOf(h).height \in H
                         THEN "canonical" ELSE blocks[h]]
      /\ ingestor' = [ingestor EXCEPT !.pc = IF H = {} THEN "checkpoint" ELSE "mark_txs", !.heights = H]
      /\ UNCHANGED <<startBlock, depth, transactions, block_logs, candidates, checkpoint, first, mixed, cut>>
  BY DEF Ingest!ConfirmBlocks, Ingest!config
<1>2. PICK b \in Ingest!At(ingestor.n) :
        /\ Ingest!Canonical(ingestor.n) = {} /\ Ingest!Observed(ingestor.n) = {b}
        /\ b \in ChainBlocks /\ b.height = ingestor.n
        /\ \A p \in Ingest!Canonical(ingestor.n - 1) : p.hash = b.parent
        /\ RowsOf(b)
  BY <1>1, HeldBlock DEF InBlock, RowsOf
<1>3. /\ ingestor \in Place /\ ingestor.heights = {} /\ ingestor.n = Upcoming /\ first # Ingest!NoBlock
      /\ blocks \in [Ingest!Hashes -> {"none", "observed", "canonical"}]
  BY <1>1 DEF IngestInv, IngestTyped, StreamPlace, Marking
<1>4. /\ first \in Nat /\ checkpoint \in Nat /\ depth \in Nat /\ ingestor.n \in Nat
      /\ first <= ingestor.n /\ checkpoint < ingestor.n /\ ReachedTo = checkpoint /\ first >= 1
  BY <1>1, <1>3, PlaceNumbers DEF IngestInv, IngestTyped, ReachedTo, Marking, Ingest!NoBlock
<1>5. \A m : m \in H <=> /\ m \in Nat /\ 1 <= m /\ m + depth <= ingestor.n
                         /\ Ingest!Canonical(m) = {} /\ \E x \in ChainBlocks : Ingest!Observed(m) = {x}
  <2>1. \A m : m \in 1..ingestor.n - depth <=> m \in Nat /\ 1 <= m /\ m + depth <= ingestor.n
    BY <1>4
  <2> QED
    BY <2>1, OneObserved
<1> HIDE DEF H
<1>6. \A m \in H : /\ m \in Nat /\ m <= ingestor.n /\ m + depth <= ingestor.n /\ Ingest!Canonical(m) = {}
                   /\ first <= m /\ m + depth > checkpoint
  <2> SUFFICES ASSUME NEW m \in H
               PROVE  first <= m /\ m + depth > checkpoint
    BY <1>4, <1>5
  <2>1. PICK x \in ChainBlocks : Ingest!Observed(m) = {x}
    BY <1>5
  <2>2. x.height = m /\ blocks[x.hash] = "observed"
    BY <2>1 DEF Ingest!Observed, Ingest!At
  <2>3. first <= m
    BY <2>2 DEF IngestInv, NothingAhead
  <2>4. ASSUME m + depth <= checkpoint PROVE FALSE
    <3>1. m \in first..ReachedTo
      BY <1>4, <1>5, <2>3, <2>4
    <3> QED
      BY <1>3, <1>4, <1>5, <2>4, <3>1 DEF IngestInv, PassedIsSeen
  <2> QED
    BY <1>4, <1>5, <2>3, <2>4
<1>7. /\ ingestor' \in Place /\ ingestor'.heights = H /\ ingestor'.n = ingestor.n
      /\ ingestor'.pc = IF H = {} THEN "checkpoint" ELSE "mark_txs"
  <2>1. H \in SUBSET Nat
    BY <1>6
  <2> QED
    BY <1>1, <1>3, <2>1 DEF Place, Marking
<1>8. \A c \in ChainBlocks : blocks'[c.hash] = IF blocks[c.hash] = "observed" /\ c.height \in H
                                               THEN "canonical" ELSE blocks[c.hash]
  BY <1>1, BlockIs
<1>9. /\ \A m : m \in H => Ingest!Canonical(m)' = Ingest!Observed(m)
      /\ \A m : m \notin H => Ingest!Canonical(m)' = Ingest!Canonical(m) /\ Ingest!Observed(m)' = Ingest!Observed(m)
  <2>1. ASSUME NEW m, m \in H PROVE Ingest!Canonical(m)' = Ingest!Observed(m)
    <3>1. \A c \in ChainBlocks : c.height = m => blocks[c.hash] # "canonical"
      BY <1>6, <2>1 DEF Ingest!Canonical, Ingest!At
    <3>2. \A c : c \in Ingest!Canonical(m)' <=> c \in Ingest!Observed(m)
      BY <1>8, <2>1, <3>1 DEF Ingest!Canonical, Ingest!Observed, Ingest!At
    <3> QED
      BY <3>2
  <2>2. ASSUME NEW m, m \notin H PROVE Ingest!Canonical(m)' = Ingest!Canonical(m) /\ Ingest!Observed(m)' = Ingest!Observed(m)
    BY <1>8, <2>2 DEF Ingest!Canonical, Ingest!Observed, Ingest!At
  <2> QED
    BY <2>1, <2>2
<1>10. Upcoming' = Upcoming /\ ReachedTo' = ingestor.n
  BY <1>1, <1>7 DEF Upcoming, ReachedTo, Marking
<1>11. IngestTyped'
  <2>1. blocks' \in [Ingest!Hashes -> {"none", "observed", "canonical"}]
    BY <1>1, <1>3
  <2> QED
    BY <1>1, <1>7, <2>1 DEF IngestInv, IngestTyped
<1>12. StreamPlace'
  BY <1>1, <1>3, <1>7, <1>10 DEF IngestInv, StreamPlace, Marking
<1>13. NothingAhead'
  BY <1>1, <1>3, <1>6, <1>8, <1>10 DEF IngestInv, NothingAhead
<1>14. OnePerHeight'
  <2> SUFFICES ASSUME NEW c \in ChainBlocks, NEW d \in ChainBlocks, c.height = d.height,
                      blocks'[c.hash] = "canonical", blocks'[d.hash] = "canonical"
               PROVE  c = d
    BY DEF OnePerHeight
  <2>1. CASE c.height \in H
    <3>1. c \in Ingest!Canonical(c.height)' /\ d \in Ingest!Canonical(c.height)'
      BY DEF Ingest!Canonical, Ingest!At
    <3>2. PICK x \in ChainBlocks : Ingest!Observed(c.height) = {x}
      BY <1>5, <2>1
    <3> QED
      BY <1>9, <2>1, <3>1, <3>2
  <2>2. CASE c.height \notin H
    BY <1>8, <2>2 DEF IngestInv, OnePerHeight
  <2> QED
    BY <2>1, <2>2
<1>15. ChildOfBelow'
  <2> SUFFICES ASSUME depth = 0, NEW c \in ChainBlocks, NEW p \in ChainBlocks, c.height = p.height + 1,
                      blocks'[c.hash] = "canonical", blocks'[p.hash] = "canonical"
               PROVE  c.parent = p.hash
    BY <1>1 DEF ChildOfBelow
  <2>1. \A m \in H : m = ingestor.n
    <3> SUFFICES ASSUME NEW m \in H, m < ingestor.n PROVE FALSE
      BY <1>4, <1>6
    <3>1. m <= checkpoint
      BY <1>3, <1>6, BelowTheHand
    <3> QED
      BY <1>4, <1>6, <3>1
  <2>2. c.height \in Nat /\ p.height \in Nat
    BY BlockIs
  <2>3. CASE c.height \in H
    <3>1. c.height = ingestor.n /\ p.height = ingestor.n - 1 /\ p.height \notin H
      BY <1>4, <2>1, <2>2, <2>3
    <3>2. c \in Ingest!Canonical(c.height)'
      BY DEF Ingest!Canonical, Ingest!At
    <3>3. c = b
      BY <1>2, <1>9, <2>3, <3>1, <3>2
    <3>4. p \in Ingest!Canonical(ingestor.n - 1)
      BY <1>8, <3>1 DEF Ingest!Canonical, Ingest!At
    <3> QED
      BY <1>2, <3>3, <3>4
  <2>4. CASE c.height \notin H
    <3>1. blocks[c.hash] = "canonical"
      BY <1>8, <2>4
    <3>2. c.height <= ingestor.n
      BY <1>3, <1>4, <2>2, <3>1 DEF IngestInv, NothingAhead
    <3>3. p.height \notin H
      BY <1>4, <2>1, <2>2, <3>2
    <3>4. blocks[p.hash] = "canonical"
      BY <1>8, <3>3
    <3> QED
      BY <3>1, <3>4 DEF IngestInv, ChildOfBelow
  <2> QED
    BY <2>3, <2>4
<1>16. PassedIsSeen'
  <2> SUFFICES ASSUME NEW m \in first..ingestor.n
               PROVE  /\ m + depth <= ingestor.n => Ingest!Canonical(m)' # {}
                      /\ Ingest!Canonical(m)' # {} \/ \E x \in ChainBlocks : Ingest!Observed(m)' = {x}
    BY <1>1, <1>10 DEF PassedIsSeen
  <2>1. m \in Nat /\ 1 <= m /\ first <= m
    BY <1>4
  <2>2. Ingest!Canonical(m) # {} \/ \E x \in ChainBlocks : Ingest!Observed(m) = {x}
    <3>1. CASE m = ingestor.n
      BY <1>2, <3>1
    <3>2. CASE m # ingestor.n
      <4>1. m <= checkpoint
        BY <1>3, <1>4, <2>1, <3>2, BelowTheHand
      <4>2. m \in first..ReachedTo
        BY <1>4, <2>1, <4>1
      <4> QED
        BY <1>3, <4>2 DEF IngestInv, PassedIsSeen
    <3> QED
      BY <3>1, <3>2
  <2>3. CASE m \in H
    <3>1. Ingest!Observed(m) # {}
      BY <1>5, <2>3
    <3> QED
      BY <1>9, <2>3, <3>1
  <2>4. CASE m \notin H
    <3>1. ~(m + depth <= ingestor.n) \/ Ingest!Canonical(m) # {}
      BY <1>5, <2>1, <2>2, <2>4
    <3> QED
      BY <1>9, <2>2, <2>4, <3>1
  <2> QED
    BY <2>3, <2>4
<1>17. RowsAreThere'
  <2>1. \A c \in ChainBlocks : RowsOf(c)' = RowsOf(c)
    BY <1>1 DEF RowsOf, TxsOf, LogsOf, CandidatesOf
  <2>2. ASSUME NEW c \in ChainBlocks, blocks[c.hash] = "observed", c.height <= ingestor.n, Ingest!Canonical(c.height) = {}
        PROVE  RowsOf(c)
    <3>1. CASE c.height = ingestor.n
      <4>1. c \in Ingest!Observed(ingestor.n)
        BY <2>2, <3>1 DEF Ingest!Observed, Ingest!At
      <4> QED
        BY <1>2, <4>1
    <3>2. CASE c.height # ingestor.n
      <4>1. first <= c.height /\ c.height \in Nat
        BY <2>2, BlockIs DEF IngestInv, NothingAhead
      <4>2. c.height <= checkpoint
        BY <1>3, <1>4, <2>2, <3>2, <4>1, BelowTheHand
      <4> QED
        BY <1>4, <2>2, <4>2 DEF IngestInv, RowsAreThere
    <3> QED
      BY <3>1, <3>2
  <2> SUFFICES ASSUME NEW c \in ChainBlocks,
                      \/ blocks'[c.hash] = "canonical"
                      \/ blocks'[c.hash] = "observed" /\ c.height <= ingestor.n /\ Ingest!Canonical(c.height)' = {}
               PROVE  RowsOf(c)
    BY <1>10, <2>1 DEF RowsAreThere
  <2>3. CASE blocks[c.hash] = "canonical"
    BY <2>3 DEF IngestInv, RowsAreThere
  <2>4. CASE blocks[c.hash] # "canonical" /\ c.height \in H
    <3>1. blocks[c.hash] = "observed" /\ c.height <= ingestor.n /\ Ingest!Canonical(c.height) = {}
      BY <1>6, <1>8, <2>4
    <3> QED
      BY <2>2, <3>1
  <2>5. CASE blocks[c.hash] # "canonical" /\ c.height \notin H
    <3>1. blocks[c.hash] = "observed" /\ c.height <= ingestor.n /\ Ingest!Canonical(c.height) = {}
      BY <1>8, <1>9, <2>5
    <3> QED
      BY <2>2, <3>1
  <2> QED
    BY <2>3, <2>4, <2>5
<1>18. RowsAreOwned'
  <2>1. ASSUME NEW c \in ChainBlocks, Owns(c.hash) PROVE Owns(c.hash)'
    <3>1. Ingest!BlockOf(c.hash) = c
      BY BlockIs
    <3>2. CASE c.height \in H
      <4>1. blocks[c.hash] \in {"observed", "canonical"}
        BY <1>3, <2>1, BlockIs DEF Owns
      <4>2. blocks'[c.hash] = "canonical"
        BY <1>8, <3>2, <4>1
      <4> QED
        BY <4>2 DEF Owns
    <3>3. CASE c.height \notin H
      BY <1>8, <1>9, <2>1, <3>1, <3>3 DEF Owns
    <3> QED
      BY <3>2, <3>3
  <2>2. \A t \in Ingest!TxIds : transactions[t].block # Ingest!NoBlock => \E c \in ChainBlocks : transactions[t].block = c.hash
    BY DEF IngestInv, IngestTyped, Ingest!Hashes
  <2>3. \A t \in Ingest!TxIds : transactions[t].block # Ingest!NoBlock => Owns(transactions[t].block)'
    <3> SUFFICES ASSUME NEW t \in Ingest!TxIds, transactions[t].block # Ingest!NoBlock
                 PROVE  Owns(transactions[t].block)'
      OBVIOUS
    <3>1. PICK c \in ChainBlocks : transactions[t].block = c.hash
      BY <2>2
    <3>2. Owns(c.hash)'
      BY <2>1, <3>1 DEF IngestInv, RowsAreOwned
    <3> QED
      BY <1>1, <3>1, <3>2
  <2> QED
    BY <1>1, <2>1, <2>3 DEF IngestInv, RowsAreOwned
<1>19. HeightsConfirmed'
  <2> SUFFICES ASSUME NEW m \in H PROVE Ingest!Canonical(m)' # {} /\ m + depth > checkpoint
    BY <1>1, <1>7 DEF HeightsConfirmed
  <2>1. Ingest!Observed(m) # {}
    BY <1>5
  <2> QED
    BY <1>6, <1>9, <2>1
<1>20. Ingest!MarkedAreCanonical' /\ TxsMarked'
  <2>1. \A t \in Ingest!TxIds : transactions[t].block # Ingest!NoBlock =>
          \E c \in ChainBlocks : transactions[t].block = c.hash /\ Ingest!BlockOf(transactions[t].block) = c
    BY BlockIs DEF IngestInv, IngestTyped, Ingest!Hashes
  <2>2. \A t \in Ingest!TxIds : transactions[t].canonical =>
           transactions[t].block # Ingest!NoBlock /\ blocks[transactions[t].block] = "canonical"
    BY DEF IngestInv, IngestTyped, Ingest!MarkedAreCanonical
  <2>3. \A t \in Ingest!TxIds : transactions[t].canonical => blocks'[transactions[t].block] = "canonical"
    BY <1>8, <2>1, <2>2
  <2>4. Ingest!MarkedAreCanonical'
    BY <1>1, <1>8, <2>3 DEF IngestInv, Ingest!MarkedAreCanonical
  <2>5. TxsMarked'
    <3> SUFFICES ASSUME NEW t \in Ingest!TxIds, transactions[t].block # Ingest!NoBlock,
                        blocks'[transactions[t].block] = "canonical",
                        Ingest!BlockOf(transactions[t].block).height \notin cut
                 PROVE  transactions[t].canonical \/ (Ingest!BlockOf(transactions[t].block).height \in H /\ H # {})
      BY <1>1, <1>7 DEF TxsMarked
    <3>1. PICK c \in ChainBlocks : transactions[t].block = c.hash /\ Ingest!BlockOf(transactions[t].block) = c
      BY <2>1
    <3>2. CASE blocks[c.hash] = "canonical"
      BY <1>3, <3>1, <3>2 DEF IngestInv, TxsMarked
    <3>3. CASE blocks[c.hash] # "canonical"
      BY <1>8, <3>1, <3>3
    <3> QED
      BY <3>2, <3>3
  <2> QED
    BY <2>4, <2>5
<1>21. EventsMarked'
  <2> SUFFICES ASSUME NEW c \in ChainBlocks, blocks'[c.hash] = "canonical", c.event, c.height \notin mixed \cup cut
               PROVE  /\ block_logs[c.hash] = "canonical" \/ (c.height \in H /\ H # {})
                      /\ candidates[c.hash] = "canonical" \/ (c.height \in H /\ H # {})
    BY <1>1, <1>7 DEF EventsMarked, Marking
  <2>1. CASE blocks[c.hash] = "canonical"
    BY <1>3, <2>1 DEF IngestInv, EventsMarked
  <2>2. CASE blocks[c.hash] # "canonical"
    BY <1>8, <2>2
  <2> QED
    BY <2>1, <2>2
<1>22. BlockInHand'
  BY <1>7 DEF BlockInHand, InBlock
<1> QED
  BY <1>11, <1>12, <1>13, <1>14, <1>15, <1>16, <1>17, <1>18, <1>19, <1>20, <1>21, <1>22 DEF IngestInv

(* What is marked by its height is of the canonical block of that height.                     *)
LEMMA MarksTheCanonical ==
    ASSUME IngestInv
    PROVE  /\ \A t \in Ingest!TxIds :
                 /\ transactions[t].block # Ingest!NoBlock
                 /\ Ingest!BlockOf(transactions[t].block).height \in ingestor.heights
                 => blocks[transactions[t].block] = "canonical"
           /\ \A c \in ChainBlocks :
                 /\ block_logs[c.hash] # "none" \/ candidates[c.hash] # "none"
                 /\ c.height \in ingestor.heights /\ c.height \notin mixed
                 => blocks[c.hash] = "canonical"
<1>1. \A h : Owns(h) /\ Ingest!BlockOf(h).height \in ingestor.heights => blocks[h] = "canonical"
  BY DEF IngestInv, HeightsConfirmed, Owns
<1> QED
  BY <1>1, BlockIs DEF IngestInv, RowsAreOwned

LEMMA MarkedRows ==
    ASSUME NEW old \in [Ingest!Hashes -> {"none", "stored", "canonical"}]
    PROVE  /\ Ingest!Marked(old) \in [Ingest!Hashes -> {"none", "stored", "canonical"}]
           /\ \A c \in ChainBlocks :
                 Ingest!Marked(old)[c.hash] = IF old[c.hash] = "stored" /\ c.height \in ingestor.heights
                                              THEN "canonical" ELSE old[c.hash]
  BY BlockIs DEF Ingest!Marked

LEMMA IngestMarksTxs == ASSUME IngestInv, Ingest!MarkTransactions PROVE IngestInv'
<1>1. /\ ingestor.pc = "mark_txs" /\ ingestor' = [ingestor EXCEPT !.pc = "mark_logs"]
      /\ transactions' =
           [t \in Ingest!TxIds |->
               IF transactions[t].block = Ingest!NoBlock THEN transactions[t]
               ELSE [transactions[t] EXCEPT
                               !.canonical = @ \/ Ingest!BlockOf(transactions[t].block).height \in ingestor.heights]]
      /\ UNCHANGED <<startBlock, depth, blocks, block_logs, candidates, checkpoint, first, mixed, cut>>
  BY DEF Ingest!MarkTransactions, Ingest!config
<1>2. /\ ingestor' \in Place /\ ingestor'.pc = "mark_logs" /\ ingestor'.n = ingestor.n
      /\ ingestor'.heights = ingestor.heights
  BY <1>1 DEF IngestInv, IngestTyped, Place, Marking
<1>3. ASSUME NEW t \in Ingest!TxIds
      PROVE  /\ transactions'[t] \in [block : Ingest!Hashes \cup {Ingest!NoBlock}, canonical : BOOLEAN]
             /\ transactions'[t].block = transactions[t].block
             /\ transactions'[t].canonical <=>
                   \/ transactions[t].canonical
                   \/ /\ transactions[t].block # Ingest!NoBlock
                      /\ Ingest!BlockOf(transactions[t].block).height \in ingestor.heights
  <2>1. transactions[t] \in [block : Ingest!Hashes \cup {Ingest!NoBlock}, canonical : BOOLEAN]
    BY DEF IngestInv, IngestTyped
  <2>2. CASE transactions[t].block = Ingest!NoBlock
    BY <1>1, <2>1, <2>2
  <2>3. CASE transactions[t].block # Ingest!NoBlock
    <3> DEFINE mark == transactions[t].canonical \/ Ingest!BlockOf(transactions[t].block).height \in ingestor.heights
    <3>1. transactions'[t] = [transactions[t] EXCEPT !.canonical = mark]
      BY <1>1, <2>3
    <3>2. mark \in BOOLEAN
      OBVIOUS
    <3> HIDE DEF mark
    <3>3. /\ transactions'[t] \in [block : Ingest!Hashes \cup {Ingest!NoBlock}, canonical : BOOLEAN]
          /\ transactions'[t].block = transactions[t].block /\ transactions'[t].canonical = mark
      BY <2>1, <3>1, <3>2
    <3> QED
      BY <2>3, <3>3 DEF mark
  <2> QED
    BY <2>2, <2>3
<1>4. IngestTyped'
  <2>1. transactions' \in [Ingest!TxIds -> [block : Ingest!Hashes \cup {Ingest!NoBlock}, canonical : BOOLEAN]]
    BY <1>1, <1>3
  <2>2. \A t \in Ingest!TxIds : transactions'[t].canonical => transactions'[t].block # Ingest!NoBlock
    BY <1>3 DEF IngestInv, IngestTyped
  <2> QED
    BY <1>1, <1>2, <2>1, <2>2 DEF IngestInv, IngestTyped
<1>5. ReachedTo' = ReachedTo
  BY <1>1, <1>2 DEF ReachedTo, Marking
<1>6. /\ StreamPlace' /\ NothingAhead' /\ OnePerHeight' /\ ChildOfBelow' /\ PassedIsSeen'
      /\ HeightsConfirmed' /\ \A m : Ingest!Canonical(m)' = Ingest!Canonical(m) /\ Ingest!Observed(m)' = Ingest!Observed(m)
  BY <1>1, <1>2, <1>5, BlocksAlike DEF Marking
<1>7. RowsAreThere'
  <2>1. \A c \in ChainBlocks : c.txs \subseteq Ingest!TxIds
    BY DEF Ingest!TxIds
  <2>2. \A c \in ChainBlocks : RowsOf(c) => RowsOf(c)'
    BY <1>1, <1>3, <2>1 DEF RowsOf, TxsOf, LogsOf, CandidatesOf
  <2> QED
    BY <1>1, <1>5, <1>6, <2>2 DEF IngestInv, RowsAreThere
<1>8. RowsAreOwned'
  <2>1. \A h : Owns(h)' = Owns(h)
    BY <1>1, <1>6 DEF Owns
  <2>2. \A t \in Ingest!TxIds : transactions'[t].block # Ingest!NoBlock => Owns(transactions'[t].block)
    BY <1>3 DEF IngestInv, RowsAreOwned
  <2> QED
    BY <1>1, <1>6, <2>1, <2>2 DEF IngestInv, RowsAreOwned, Owns
<1>9. Ingest!MarkedAreCanonical' /\ TxsMarked' /\ EventsMarked'
  <2>1. Ingest!MarkedAreCanonical'
    BY <1>1, <1>3, MarksTheCanonical DEF IngestInv, Ingest!MarkedAreCanonical
  <2>2. TxsMarked'
    BY <1>1, <1>2, <1>3 DEF IngestInv, TxsMarked
  <2>3. EventsMarked'
    BY <1>1, <1>2 DEF IngestInv, EventsMarked, Marking
  <2> QED
    BY <2>1, <2>2, <2>3
<1>10. BlockInHand'
  BY <1>2 DEF BlockInHand, InBlock
<1> QED
  BY <1>4, <1>6, <1>7, <1>8, <1>9, <1>10 DEF IngestInv

LEMMA IngestMarksLogs == ASSUME IngestInv, Ingest!MarkLogs PROVE IngestInv'
<1>1. /\ ingestor.pc = "mark_logs" /\ ingestor' = [ingestor EXCEPT !.pc = "mark_candidates"]
      /\ block_logs' = Ingest!Marked(block_logs)
      /\ UNCHANGED <<startBlock, depth, blocks, transactions, candidates, checkpoint, first, mixed, cut>>
  BY DEF Ingest!MarkLogs, Ingest!config
<1>2. /\ ingestor' \in Place /\ ingestor'.pc = "mark_candidates" /\ ingestor'.n = ingestor.n
      /\ ingestor'.heights = ingestor.heights
  BY <1>1 DEF IngestInv, IngestTyped, Place, Marking
<1>3. /\ block_logs' \in [Ingest!Hashes -> {"none", "stored", "canonical"}]
      /\ \A c \in ChainBlocks :
            block_logs'[c.hash] = IF block_logs[c.hash] = "stored" /\ c.height \in ingestor.heights
                                  THEN "canonical" ELSE block_logs[c.hash]
  BY <1>1, MarkedRows DEF IngestInv, IngestTyped
<1>4. IngestTyped'
  BY <1>1, <1>2, <1>3 DEF IngestInv, IngestTyped
<1>5. ReachedTo' = ReachedTo
  BY <1>1, <1>2 DEF ReachedTo, Marking
<1>6. /\ StreamPlace' /\ NothingAhead' /\ OnePerHeight' /\ ChildOfBelow' /\ PassedIsSeen'
      /\ HeightsConfirmed' /\ \A m : Ingest!Canonical(m)' = Ingest!Canonical(m) /\ Ingest!Observed(m)' = Ingest!Observed(m)
  BY <1>1, <1>2, <1>5, BlocksAlike DEF Marking
<1>7. RowsAreThere'
  <2>1. \A c \in ChainBlocks : RowsOf(c) => RowsOf(c)'
    BY <1>1, <1>3 DEF RowsOf, TxsOf, LogsOf, CandidatesOf
  <2> QED
    BY <1>1, <1>5, <1>6, <2>1 DEF IngestInv, RowsAreThere
<1>8. RowsAreOwned'
  BY <1>1, <1>3, <1>6 DEF IngestInv, RowsAreOwned, Owns
<1>9. Ingest!MarkedAreCanonical'
  BY <1>1, <1>3, MarksTheCanonical DEF IngestInv, Ingest!MarkedAreCanonical
<1>10. TxsMarked'
  BY <1>1, <1>2 DEF IngestInv, TxsMarked
<1>11. EventsMarked'
  <2>1. \A c \in ChainBlocks : blocks[c.hash] = "canonical" => LogsOf(c)
    BY DEF IngestInv, RowsAreThere, RowsOf
  <2>2. \A c \in ChainBlocks : c.hash \in Ingest!Hashes
    BY BlockIs
  <2> SUFFICES ASSUME NEW c \in ChainBlocks, blocks[c.hash] = "canonical", c.event, c.height \notin mixed \cup cut
               PROVE  /\ block_logs'[c.hash] = "canonical"
                      /\ candidates[c.hash] = "canonical" \/ c.height \in ingestor.heights
    BY <1>1, <1>2 DEF EventsMarked, Marking
  <2>3. block_logs[c.hash] \in {"stored", "canonical"}
    BY <2>1, <2>2 DEF LogsOf, IngestInv, IngestTyped
  <2>4. /\ block_logs[c.hash] = "canonical" \/ c.height \in ingestor.heights
        /\ candidates[c.hash] = "canonical" \/ c.height \in ingestor.heights
    BY DEF IngestInv, EventsMarked
  <2> QED
    BY <1>3, <2>3, <2>4
<1>12. BlockInHand'
  BY <1>2 DEF BlockInHand, InBlock
<1> QED
  BY <1>4, <1>6, <1>7, <1>8, <1>9, <1>10, <1>11, <1>12 DEF IngestInv

LEMMA IngestMarksCandidates == ASSUME IngestInv, Ingest!MarkCandidates PROVE IngestInv'
<1>1. /\ ingestor.pc = "mark_candidates" /\ ingestor' = [ingestor EXCEPT !.pc = "checkpoint", !.heights = {}]
      /\ candidates' = Ingest!Marked(candidates)
      /\ UNCHANGED <<startBlock, depth, blocks, transactions, block_logs, checkpoint, first, mixed, cut>>
  BY DEF Ingest!MarkCandidates, Ingest!config
<1>2. /\ ingestor' \in Place /\ ingestor'.pc = "checkpoint" /\ ingestor'.n = ingestor.n
      /\ ingestor'.heights = {}
  BY <1>1 DEF IngestInv, IngestTyped, Place
<1>3. /\ candidates' \in [Ingest!Hashes -> {"none", "stored", "canonical"}]
      /\ \A c \in ChainBlocks :
            candidates'[c.hash] = IF candidates[c.hash] = "stored" /\ c.height \in ingestor.heights
                                  THEN "canonical" ELSE candidates[c.hash]
  BY <1>1, MarkedRows DEF IngestInv, IngestTyped
<1>4. IngestTyped'
  BY <1>1, <1>2, <1>3 DEF IngestInv, IngestTyped
<1>5. ReachedTo' = ReachedTo
  BY <1>1, <1>2 DEF ReachedTo, Marking
<1>6. /\ StreamPlace' /\ NothingAhead' /\ OnePerHeight' /\ ChildOfBelow' /\ PassedIsSeen'
      /\ HeightsConfirmed' /\ \A m : Ingest!Canonical(m)' = Ingest!Canonical(m) /\ Ingest!Observed(m)' = Ingest!Observed(m)
  BY <1>1, <1>2, <1>5, BlocksAlike
<1>7. RowsAreThere'
  <2>1. \A c \in ChainBlocks : RowsOf(c) => RowsOf(c)'
    BY <1>1, <1>3 DEF RowsOf, TxsOf, LogsOf, CandidatesOf
  <2> QED
    BY <1>1, <1>5, <1>6, <2>1 DEF IngestInv, RowsAreThere
<1>8. RowsAreOwned'
  BY <1>1, <1>3, <1>6 DEF IngestInv, RowsAreOwned, Owns
<1>9. Ingest!MarkedAreCanonical'
  BY <1>1, <1>3, MarksTheCanonical DEF IngestInv, Ingest!MarkedAreCanonical
<1>10. TxsMarked'
  BY <1>1 DEF IngestInv, TxsMarked
<1>11. EventsMarked'
  <2>1. \A c \in ChainBlocks : blocks[c.hash] = "canonical" => CandidatesOf(c)
    BY DEF IngestInv, RowsAreThere, RowsOf
  <2>2. \A c \in ChainBlocks : c.hash \in Ingest!Hashes
    BY BlockIs
  <2> SUFFICES ASSUME NEW c \in ChainBlocks, blocks[c.hash] = "canonical", c.event, c.height \notin mixed \cup cut
               PROVE  block_logs[c.hash] = "canonical" /\ candidates'[c.hash] = "canonical"
    BY <1>1 DEF EventsMarked
  <2>3. candidates[c.hash] \in {"stored", "canonical"}
    BY <2>1, <2>2 DEF CandidatesOf, IngestInv, IngestTyped
  <2>4. /\ block_logs[c.hash] = "canonical"
        /\ candidates[c.hash] = "canonical" \/ c.height \in ingestor.heights
    BY <1>1 DEF IngestInv, EventsMarked
  <2> QED
    BY <1>3, <2>3, <2>4
<1>12. BlockInHand'
  BY <1>2 DEF BlockInHand, InBlock
<1> QED
  BY <1>4, <1>6, <1>7, <1>8, <1>9, <1>10, <1>11, <1>12 DEF IngestInv

LEMMA IngestKept == ASSUME IngestInv, [Ingest!Next]_(Ingest!vars) PROVE IngestInv'
  BY IngestPrimes, IngestTicks, IngestGets, IngestStoresTxs, IngestStoresLogs, IngestStoresCandidates,
     IngestConfirms, IngestMarksTxs, IngestMarksLogs, IngestMarksCandidates, IngestPasses, IngestStops,
     IngestWaits DEF Ingest!Next

LEMMA IngestIsFaithful == ASSUME IngestInv PROVE Ingest!IngestFaithful
<1>1. /\ first \in Nat /\ checkpoint \in Nat /\ depth \in Nat
      /\ blocks \in [Ingest!Hashes -> {"none", "observed", "canonical"}]
      /\ ReachedTo \in Nat /\ (first # Ingest!NoBlock => checkpoint <= ReachedTo /\ 1 <= first)
  BY PlaceNumbers DEF IngestInv, IngestTyped, Ingest!NoBlock
<1>2. Ingest!OneChain
  <2>1. ASSUME NEW n \in 1..ChainTop PROVE Cardinality(Ingest!Canonical(n)) <= 1
    <3>1. IsFiniteSet(Ingest!Canonical(n))
      BY BlockNumbers, FS_Subset DEF Ingest!Canonical, Ingest!At
    <3>2. CASE Ingest!Canonical(n) = {}
      BY <3>2, FS_EmptySet
    <3>3. CASE Ingest!Canonical(n) # {}
      <4>1. PICK c : c \in Ingest!Canonical(n)
        BY <3>3
      <4>2. Ingest!Canonical(n) = {c}
        BY <4>1 DEF IngestInv, OnePerHeight, Ingest!Canonical, Ingest!At
      <4>3. Cardinality(Ingest!Canonical(n)) = 1
        BY <3>1, <4>2, FS_Singleton
      <4> QED
        BY <4>3
    <3> QED
      BY <3>2, <3>3
  <2>2. ASSUME depth = 0, NEW n \in 2..ChainTop, NEW b \in Ingest!Canonical(n), NEW p \in Ingest!Canonical(n - 1)
        PROVE  b.parent = p.hash
    <3>1. /\ b \in ChainBlocks /\ p \in ChainBlocks /\ b.height = n /\ p.height = n - 1
          /\ blocks[b.hash] = "canonical" /\ blocks[p.hash] = "canonical"
      BY DEF Ingest!Canonical, Ingest!At
    <3>2. b.height = p.height + 1
      BY <3>1, BlockNumbers
    <3> QED
      BY <2>2, <3>1, <3>2 DEF IngestInv, ChildOfBelow
  <2> QED
    BY <2>1, <2>2 DEF Ingest!OneChain, Ingest!Cardinality, Cardinality
<1>3. Ingest!PassedIsCanonical
  <2> SUFFICES ASSUME first # Ingest!NoBlock, NEW n \in first..checkpoint - depth
               PROVE  \E b \in Ingest!Canonical(n) :
                        n \notin cut =>
                            /\ \A t \in b.txs :
                                  \/ transactions[t].canonical
                                  \/ \E c \in ChainBlocks : c.hash = transactions[t].block /\ c.height \in cut
                            /\ b.event /\ n \notin mixed =>
                                   block_logs[b.hash] = "canonical" /\ candidates[b.hash] = "canonical"
    BY DEF Ingest!PassedIsCanonical
  <2>1. n \in Nat /\ n + depth <= checkpoint /\ n \in first..ReachedTo /\ n + depth <= ReachedTo
    BY <1>1
  <2>2. PICK b : b \in Ingest!Canonical(n)
    BY <2>1 DEF IngestInv, PassedIsSeen
  <2>3. b \in ChainBlocks /\ b.height = n /\ blocks[b.hash] = "canonical" /\ RowsOf(b)
    BY <2>2 DEF Ingest!Canonical, Ingest!At, IngestInv, RowsAreThere
  <2>4. \A h \in ingestor.heights : h > n
    <3> SUFFICES ASSUME NEW h \in ingestor.heights PROVE h > n
      OBVIOUS
    <3>1. h \in Nat /\ h + depth > checkpoint
      BY DEF IngestInv, IngestTyped, Place, HeightsConfirmed
    <3> QED
      BY <1>1, <2>1, <3>1
  <2>5. ASSUME NEW t \in b.txs
        PROVE  \/ transactions[t].canonical
               \/ \E c \in ChainBlocks : c.hash = transactions[t].block /\ c.height \in cut
    <3>1. /\ t \in Ingest!TxIds /\ transactions[t].block # Ingest!NoBlock
          /\ Ingest!BlockOf(transactions[t].block).height <= n
      BY <2>3 DEF RowsOf, TxsOf, Ingest!TxIds
    <3>2. PICK c \in ChainBlocks : c.hash = transactions[t].block /\ Ingest!BlockOf(transactions[t].block) = c
      BY <3>1, BlockIs DEF IngestInv, IngestTyped, Ingest!Hashes
    <3>3. c.height \in Nat /\ c.height <= n /\ first <= c.height
      BY <3>1, <3>2, BlockIs DEF IngestInv, NothingAhead, RowsAreOwned, Owns
    <3>4. Ingest!Canonical(c.height) # {}
      <4>1. c.height \in first..ReachedTo /\ c.height + depth <= ReachedTo
        BY <1>1, <2>1, <3>3
      <4> QED
        BY <4>1 DEF IngestInv, PassedIsSeen
    <3>5. blocks[c.hash] = "canonical"
      BY <3>1, <3>2, <3>4 DEF IngestInv, RowsAreOwned, Owns
    <3>6. c.height \notin ingestor.heights
      BY <2>1, <2>4, <3>3
    <3> QED
      BY <3>1, <3>2, <3>5, <3>6 DEF IngestInv, TxsMarked
  <2>6. ASSUME n \notin cut, b.event, n \notin mixed
        PROVE  block_logs[b.hash] = "canonical" /\ candidates[b.hash] = "canonical"
    <3>1. b.height \notin ingestor.heights
      BY <2>1, <2>3, <2>4
    <3> QED
      BY <2>3, <2>6, <3>1 DEF IngestInv, EventsMarked
  <2> QED
    BY <2>2, <2>5, <2>6
<1>4. Ingest!AmbiguousStops
  <2>0. \A m : Ingest!Cardinality(Ingest!Observed(m)) = Cardinality(Ingest!Observed(m))
    BY DEF Ingest!Cardinality, Cardinality
  <2> SUFFICES ASSUME NEW n \in 1..ChainTop, Ingest!Canonical(n) = {}, Cardinality(Ingest!Observed(n)) > 1, checkpoint >= n
               PROVE  FALSE
    BY <1>1, <2>0, BlockNumbers DEF Ingest!AmbiguousStops
  <2>1. n \in Nat /\ IsFiniteSet(Ingest!Observed(n))
    BY BlockNumbers, FS_Subset DEF Ingest!Observed, Ingest!At
  <2>2. PICK c : c \in Ingest!Observed(n)
    BY <2>1, FS_EmptySet
  <2>3. first # Ingest!NoBlock /\ first <= n
    BY <2>2 DEF Ingest!Observed, Ingest!At, IngestInv, NothingAhead
  <2>4. n \in first..ReachedTo
    BY <1>1, <2>1, <2>3
  <2>5. \E x : Ingest!Observed(n) = {x}
    BY <2>3, <2>4 DEF IngestInv, PassedIsSeen
  <2> QED
    BY <2>1, <2>5, FS_Singleton
<1> QED
  BY <1>2, <1>3, <1>4 DEF Ingest!IngestFaithful, IngestInv

IngestPart == work_part = "ingest" => IngestInv

LEMMA IngestPartKept == ASSUME IngestPart, [WorkNext]_workVars PROVE IngestPart'
<1>1. CASE IngestStep
  BY <1>1, IngestKept DEF IngestStep, IngestPart
<1>2. CASE work_part' = work_part /\ UNCHANGED ingestVars
  <2>1. UNCHANGED Ingest!vars
    BY <1>2 DEF ingestVars, Ingest!vars
  <2> QED
    BY <1>2, <2>1, IngestKept DEF IngestPart
<1>3. CASE UNCHANGED workVars
  BY <1>3, <1>2 DEF workVars
<1>4. CASE WorkNext /\ ~IngestStep
  BY <1>4, <1>2 DEF WorkNext, CopyStep, PreorderStep, FeedStep, RuleStep, IndexStep, PnlStep, ScoreStep,
     BackfillStep, SenderStep, ReportStep
<1> QED
  BY <1>1, <1>3, <1>4

(* arcai's engine (src/data): whatever forks the node answers from, a height has one         *)
(* canonical block at most, marked rows belong to it, what the checkpoint has passed is     *)
(* canonical with its rows, and the stream stops at a height seen with two hashes.         *)
THEOREM ArcaiKeepsPromises == WorkSpec => [](work_part = "ingest" => Ingest!IngestFaithful)
<1>1. WorkInit => IngestPart
  BY IngestStarts DEF WorkInit, IngestPart
<1>2. IngestPart /\ [WorkNext]_workVars => IngestPart'
  BY IngestPartKept
<1>3. IngestPart => (work_part = "ingest" => Ingest!IngestFaithful)
  BY IngestIsFaithful DEF IngestPart
<1> QED
  BY <1>1, <1>2, <1>3, PTL DEF WorkSpec
=============================================================================
