------------------------ MODULE KeeperOrders_proofs ------------------------
(* What the orders table may claim, for any signed orders, any bounds and any *)
(* combination of faults.                                                     *)
EXTENDS KeeperOrders, TLAPS

(* Rows, transactions and the worker refer to rows that were inserted, and    *)
(* the worker waits for, or delivers, a transaction of the row it works on.   *)
RowsUsed ==
    /\ \A r \in Rows : r > rows => db[r].status = "none" /\ jobTx[r] = 0
    /\ \A r \in Rows : r <= rows => db[r].sig \in Sigs
    /\ \A t \in TxIds : tx[t].status # "none" => tx[t].row \in Rows /\ tx[t].row <= rows
    /\ \A r \in worker.queue : r <= rows
    /\ worker.cur <= rows

WorkerBacked ==
    /\ worker.pc = "wait" =>
        tx[worker.hash].row = worker.cur /\ tx[worker.hash].status # "none"
    /\ worker.pc = "deliver" =>
        /\ tx[worker.hash] = [row |-> worker.cur, status |-> "success"]
        /\ HasJob(db[worker.cur].sig)

IInv == TypeOK /\ RowsUsed /\ WorkerBacked /\ FilledIsBacked /\ DeliverableIsBacked

LEMMA InitIInv == Init => IInv
<1> SUFFICES ASSUME Init PROVE IInv
  OBVIOUS
<1>1. TypeOK
  BY Bounds DEF Init, TypeOK, Times, Rows, TxIds, Row, Tx, Statuses, Worker, IdleWorker
<1>2. RowsUsed /\ WorkerBacked /\ FilledIsBacked /\ DeliverableIsBacked
  BY Bounds DEF Init, RowsUsed, WorkerBacked, FilledIsBacked, DeliverableIsBacked, IdleWorker,
                Rows, TxIds
<1> QED
  BY <1>1, <1>2 DEF IInv

(* The two tables' updates keep their types. *)
LEMMA TableTypes ==
    ASSUME TypeOK
    PROVE  /\ expireOld \in [Rows -> Row]
           /\ \A r \in Rows : markFailed(r) \in [Rows -> Row]
           /\ \A r \in Rows, t \in TxIds : markFilled(r, t) \in [Rows -> Row]
<1>1. db \in [Rows -> Row]
  BY DEF TypeOK
<1>2. expireOld \in [Rows -> Row]
  BY <1>1 DEF expireOld, Row, Statuses
<1>3. ASSUME NEW r \in Rows PROVE markFailed(r) \in [Rows -> Row]
  BY <1>1 DEF markFailed, Row, Statuses
<1>4. ASSUME NEW r \in Rows, NEW t \in TxIds PROVE markFilled(r, t) \in [Rows -> Row]
  BY <1>1 DEF markFilled, Row, Statuses
<1> QED
  BY <1>2, <1>3, <1>4

LEMMA NextOrderType ==
    ASSUME TypeOK
    PROVE  /\ NextOrder \in Worker
           /\ NextOrder.pc \in {"next", "idle"} /\ NextOrder.cur = 0
           /\ NextOrder.queue = worker.queue
           /\ NextOrder.pc = "next" => NextOrder.queue # {}
BY DEF TypeOK, NextOrder, Worker

-----------------------------------------------------------------------------
(* One lemma per group of actions *)

LEMMA EnvironmentStep ==
    ASSUME IInv, (\E s \in Sigs : PostValidate(s)) \/ MarketMove \/ Tick \/ Crash
    PROVE  IInv'
<1>1. CASE (\E s \in Sigs : PostValidate(s)) \/ MarketMove \/ Tick
  <2>1. UNCHANGED <<db, rows, tx, nonceUsed, jobTx, worker, crashes>>
    BY <1>1 DEF PostValidate, MarketMove, Tick, chain
  <2>2. now' \in Times /\ marketOk' \in BOOLEAN /\ requests' \subseteq Sigs
    <3>1. now \in Times /\ marketOk \in BOOLEAN /\ requests \subseteq Sigs
      BY DEF IInv, TypeOK
    <3>2. CASE \E s \in Sigs : PostValidate(s)
      BY <3>1, <3>2 DEF PostValidate
    <3>3. CASE MarketMove
      BY <3>1, <3>3 DEF MarketMove
    <3>4. CASE Tick
      BY <3>1, <3>4, Bounds DEF Tick, Times
    <3> QED
      BY <1>1, <3>2, <3>3, <3>4
  <2> QED
    BY <2>1, <2>2 DEF IInv, TypeOK, RowsUsed, WorkerBacked, FilledIsBacked, DeliverableIsBacked
<1>2. CASE Crash
  <2>1. /\ UNCHANGED <<now, marketOk, db, rows, tx, nonceUsed, jobTx>>
        /\ requests' = {} /\ worker' = IdleWorker /\ crashes' \in 0..MaxCrashes
    BY <1>2, Bounds DEF Crash, chain, IInv, TypeOK
  <2>2. TypeOK'
    BY <2>1 DEF IInv, TypeOK, IdleWorker, Worker
  <2>3. RowsUsed' /\ WorkerBacked'
    BY <2>1, Bounds DEF IInv, TypeOK, RowsUsed, WorkerBacked, IdleWorker
  <2> QED
    BY <2>1, <2>2, <2>3 DEF IInv, FilledIsBacked, DeliverableIsBacked
<1> QED
  BY <1>1, <1>2

LEMMA InsertStep == ASSUME IInv, NEW s \in Sigs, PostInsert(s) PROVE IInv'
<1>1. /\ TypeOK /\ RowsUsed /\ WorkerBacked /\ FilledIsBacked /\ DeliverableIsBacked
  BY DEF IInv
<1>2. /\ requests' = requests \ {s} /\ rows' = rows + 1 /\ rows < MaxRows
      /\ db' = [db EXCEPT ![rows + 1] = [sig |-> s, status |-> "PENDING", fillTx |-> 0]]
      /\ UNCHANGED <<now, marketOk, tx, nonceUsed, jobTx, worker, crashes>>
  BY DEF PostInsert, chain
<1>3. rows \in Nat /\ rows + 1 \in Rows
  BY <1>1, <1>2, Bounds DEF TypeOK, Rows
<1>4. db' \in [Rows -> Row]
  BY <1>1, <1>2, <1>3 DEF TypeOK, Row, Statuses
<1>5. TypeOK'
  BY <1>1, <1>2, <1>3, <1>4, Bounds DEF TypeOK, Rows
<1>6. RowsUsed'
  BY <1>1, <1>2, <1>3, <1>4, Bounds DEF TypeOK, RowsUsed, Rows, Row, Worker, Tx, TxIds
<1>7. WorkerBacked'
  BY <1>1, <1>2, <1>3 DEF TypeOK, RowsUsed, WorkerBacked, Rows, Worker
<1>8. FilledIsBacked'
  BY <1>1, <1>2, <1>3 DEF TypeOK, FilledIsBacked
<1>9. DeliverableIsBacked'
  BY <1>1, <1>2, <1>3 DEF TypeOK, RowsUsed, DeliverableIsBacked, Rows
<1> QED
  BY <1>5, <1>6, <1>7, <1>8, <1>9 DEF IInv

LEMMA TickStep == ASSUME IInv, WorkerTick PROVE IInv'
<1>1. /\ TypeOK /\ RowsUsed /\ WorkerBacked /\ FilledIsBacked /\ DeliverableIsBacked
  BY DEF IInv
<1> DEFINE q == listPending(expireOld)
<1>2. /\ worker.pc = "idle" /\ db' = expireOld
      /\ worker' = [worker EXCEPT !.queue = q, !.pc = IF q = {} THEN "idle" ELSE "next"]
      /\ UNCHANGED <<now, marketOk, requests, rows, tx, nonceUsed, jobTx, crashes>>
  BY DEF WorkerTick, chain
<1>3. /\ expireOld \in [Rows -> Row]
      /\ \A r \in Rows : expireOld[r] = db[r] \/ (expireOld[r] = [db[r] EXCEPT !.status = "EXPIRED"]
                                                    /\ db[r].status = "PENDING")
  BY <1>1, TableTypes DEF expireOld, Due, Pending
<1>4. q \subseteq Rows /\ \A r \in q : expireOld[r].status = "PENDING"
  BY DEF listPending
<1>5. \A r \in Rows : expireOld[r].status = "PENDING" => r <= rows
  BY <1>1, <1>3 DEF RowsUsed, Rows, TypeOK, Row
<1> HIDE DEF q
<1>6. worker' \in Worker
  BY <1>1, <1>2, <1>4 DEF TypeOK, Worker
<1>7. TypeOK'
  BY <1>1, <1>2, <1>3, <1>6 DEF TypeOK, Worker
<1>8. RowsUsed'
  BY <1>1, <1>2, <1>3, <1>4, <1>5 DEF TypeOK, RowsUsed, Row, Worker
<1>9. WorkerBacked'
  BY <1>1, <1>2 DEF TypeOK, WorkerBacked, Worker
<1>10. FilledIsBacked'
  BY <1>1, <1>2, <1>3 DEF TypeOK, FilledIsBacked, Row
<1>11. DeliverableIsBacked'
  BY <1>1, <1>2, <1>3 DEF TypeOK, DeliverableIsBacked, Row
<1> QED
  BY <1>7, <1>8, <1>9, <1>10, <1>11 DEF IInv

LEMMA CheckStep == ASSUME IInv, NEW r \in Rows, WorkerCheck(r) PROVE IInv'
<1>1. /\ TypeOK /\ RowsUsed /\ WorkerBacked /\ FilledIsBacked /\ DeliverableIsBacked
  BY DEF IInv
<1>2. /\ worker.pc = "next" /\ r \in worker.queue
      /\ \/ worker' = [worker EXCEPT !.pc = "send", !.cur = r, !.queue = @ \ {r}]
         \/ worker' = [worker EXCEPT !.queue = @ \ {r},
                                     !.pc = IF worker.queue = {r} THEN "idle" ELSE "next"]
      /\ UNCHANGED <<now, marketOk, requests, db, rows, tx, nonceUsed, jobTx, crashes>>
  BY DEF WorkerCheck, chain
<1>3. worker \in Worker /\ r \in Rows /\ r # 0 /\ r <= rows
  BY <1>1, <1>2 DEF TypeOK, RowsUsed, Rows
<1>4. /\ worker' \in Worker
      /\ worker'.queue = worker.queue \ {r}
      /\ \/ worker'.pc = "send" /\ worker'.cur = r
         \/ worker'.pc \in {"idle", "next"} /\ worker'.cur = worker.cur
            /\ (worker'.pc = "next" => worker.queue # {r})
  BY <1>2, <1>3 DEF Worker
<1>5. TypeOK'
  BY <1>1, <1>2, <1>3, <1>4 DEF TypeOK
<1>6. RowsUsed' /\ WorkerBacked'
  BY <1>1, <1>2, <1>3, <1>4 DEF RowsUsed, WorkerBacked
<1> QED
  BY <1>1, <1>2, <1>5, <1>6 DEF IInv, FilledIsBacked, DeliverableIsBacked

(* The current order fails: its status changes and the worker moves on. *)
LEMMA FailStep ==
    ASSUME IInv, worker.cur \in Rows,
           db' = markFailed(worker.cur), worker' = NextOrder,
           UNCHANGED <<now, marketOk, requests, rows, nonceUsed, jobTx, crashes>>,
           tx' \in [TxIds -> Tx],
           \A t \in TxIds : tx[t].status # "none" => tx'[t] = tx[t],
           \A t \in TxIds : tx'[t].status # "none" => tx'[t].row \in Rows /\ tx'[t].row <= rows
    PROVE  IInv'
<1>1. /\ TypeOK /\ RowsUsed /\ WorkerBacked /\ FilledIsBacked /\ DeliverableIsBacked
  BY DEF IInv
<1> DEFINE r == worker.cur
<1>2. r \in Rows /\ r <= rows
  BY <1>1 DEF RowsUsed
<1>3. /\ db' \in [Rows -> Row] /\ db \in [Rows -> Row]
      /\ \A x \in Rows : x # r => db'[x] = db[x]
      /\ db'[r].status = "FAILED" /\ db'[r].sig = db[r].sig
  BY <1>1, <1>2, TableTypes DEF markFailed, TypeOK, Row
<1> HIDE DEF r
<1>4. TypeOK'
  BY <1>1, <1>3, NextOrderType DEF TypeOK
<1>5. RowsUsed'
  <2>1. worker'.queue = worker.queue /\ worker'.cur = 0 /\ 0 <= rows
    BY <1>1, NextOrderType DEF TypeOK
  <2>2. ASSUME NEW x \in Rows, x > rows PROVE db'[x].status = "none" /\ jobTx[x] = 0
    <3>1. x # r
      BY <1>1, <1>2, <2>2 DEF TypeOK, Rows
    <3> QED
      BY <1>1, <1>3, <2>2, <3>1 DEF RowsUsed
  <2>3. ASSUME NEW x \in Rows, x <= rows PROVE db'[x].sig \in Sigs
    <3>1. db'[x].sig = db[x].sig
      BY <1>3
    <3> QED
      BY <1>1, <2>3, <3>1 DEF RowsUsed
  <2> QED
    BY <1>1, <2>1, <2>2, <2>3 DEF RowsUsed
<1>6. WorkerBacked'
  BY <1>1, NextOrderType DEF WorkerBacked
<1>7. FilledIsBacked'
  <2>1. ASSUME NEW x \in Rows, db'[x].status = "FILLED"
        PROVE  db'[x].fillTx # 0 /\ tx'[db'[x].fillTx] = [row |-> x, status |-> "success"]
    <3>1. x # r /\ db'[x] = db[x]
      BY <2>1, <1>3
    <3>2. db[x].fillTx # 0 /\ tx[db[x].fillTx] = [row |-> x, status |-> "success"]
      BY <2>1, <3>1, <1>1 DEF FilledIsBacked
    <3>3. db[x].fillTx \in TxIds
      BY <3>2, <1>3 DEF Row
    <3> QED
      BY <3>1, <3>2, <3>3
  <2> QED
    BY <2>1 DEF FilledIsBacked
<1>8. DeliverableIsBacked'
  <2>1. ASSUME NEW x \in Rows, jobTx[x] # 0
        PROVE  tx'[jobTx[x]] = [row |-> x, status |-> "success"] /\ HasJob(db'[x].sig)
    <3>1. tx[jobTx[x]] = [row |-> x, status |-> "success"] /\ HasJob(db[x].sig) /\ jobTx[x] \in TxIds
      BY <2>1, <1>1 DEF DeliverableIsBacked, TypeOK
    <3>2. db'[x].sig = db[x].sig
      BY <1>3
    <3> QED
      BY <3>1, <3>2
  <2> QED
    BY <2>1 DEF DeliverableIsBacked
<1> QED
  BY <1>4, <1>5, <1>6, <1>7, <1>8 DEF IInv

LEMMA SendStep == ASSUME IInv, NEW t \in TxIds, WorkerSend(t) PROVE IInv'
<1>1. /\ TypeOK /\ RowsUsed /\ WorkerBacked /\ FilledIsBacked /\ DeliverableIsBacked
  BY DEF IInv
<1> DEFINE r == worker.cur
<1>2. /\ worker.pc = "send" /\ tx[t].status = "none"
      /\ tx' = [tx EXCEPT ![t] = [row |-> r, status |-> "mempool"]]
      /\ UNCHANGED <<now, marketOk, requests, rows, nonceUsed, jobTx, crashes>>
  BY DEF WorkerSend, Broadcast, TxIds
<1>3. r \in Rows /\ r <= rows
  BY <1>1, <1>2 DEF TypeOK, RowsUsed, Worker
<1>4. /\ tx \in [TxIds -> Tx] /\ tx' \in [TxIds -> Tx]
      /\ tx'[t] = [row |-> r, status |-> "mempool"]
      /\ \A x \in TxIds : x # t => tx'[x] = tx[x]
      /\ \A x \in TxIds : tx[x].status # "none" => tx'[x] = tx[x]
      /\ \A x \in TxIds : tx'[x].status # "none" => tx'[x].row \in Rows /\ tx'[x].row <= rows
  BY <1>1, <1>2, <1>3 DEF TypeOK, RowsUsed, Tx
<1>5. CASE db' = markFailed(worker.cur) /\ worker' = NextOrder
  BY <1>2, <1>3, <1>4, <1>5, FailStep
<1>6. CASE worker' = [worker EXCEPT !.pc = "wait", !.hash = t] /\ UNCHANGED db
  <2>0. worker \in Worker /\ t # 0
    BY <1>1 DEF TypeOK, TxIds
  <2>1. /\ worker' \in Worker /\ worker'.pc = "wait" /\ worker'.hash = t
        /\ worker'.cur = r /\ worker'.queue = worker.queue /\ t # 0
    BY <2>0, <1>6 DEF Worker
  <2>2. TypeOK'
    BY <1>1, <1>2, <1>3, <1>4, <1>6, <2>1 DEF TypeOK, Rows
  <2>3. RowsUsed' /\ WorkerBacked'
    BY <1>1, <1>2, <1>3, <1>4, <1>6, <2>1 DEF RowsUsed, WorkerBacked
  <2>4. FilledIsBacked' /\ DeliverableIsBacked'
    <3>1. \A x \in Rows : db[x].fillTx \in {0} \cup TxIds /\ jobTx[x] \in {0} \cup TxIds
      BY <1>1 DEF TypeOK, Row
    <3>2. \A x \in TxIds : tx[x].status = "success" => tx'[x] = tx[x]
      BY <1>4
    <3> QED
      BY <1>1, <1>2, <1>6, <3>1, <3>2 DEF FilledIsBacked, DeliverableIsBacked
  <2> QED
    BY <2>2, <2>3, <2>4 DEF IInv
<1> QED
  BY <1>5, <1>6 DEF WorkerSend

LEMMA ReceiptStep == ASSUME IInv, WorkerReceipt PROVE IInv'
<1>1. /\ TypeOK /\ RowsUsed /\ WorkerBacked /\ FilledIsBacked /\ DeliverableIsBacked
  BY DEF IInv
<1> DEFINE r == worker.cur
           t == worker.hash
<1>2. /\ worker.pc = "wait"
      /\ UNCHANGED <<now, marketOk, requests, rows, tx, nonceUsed, jobTx, crashes>>
  BY DEF WorkerReceipt, chain
<1>3. r \in Rows /\ r <= rows /\ t \in TxIds /\ t # 0 /\ tx[t].row = r
  BY <1>1, <1>2 DEF TypeOK, RowsUsed, WorkerBacked, Worker
<1>4. CASE db' = markFailed(worker.cur) /\ worker' = NextOrder
  BY <1>1, <1>2, <1>3, <1>4, FailStep DEF TypeOK, RowsUsed
<1>5. CASE ReceiptSucceeded(t) /\ db' = markFilled(r, t) /\ worker' = AfterFill(r)
  <2>1. tx[t] = [row |-> r, status |-> "success"]
    BY <1>1, <1>3, <1>5 DEF ReceiptSucceeded, TypeOK, Tx
  <2>2. /\ db' \in [Rows -> Row] /\ db \in [Rows -> Row]
        /\ \A x \in Rows : x # r => db'[x] = db[x]
        /\ db'[r].status = "FILLED" /\ db'[r].sig = db[r].sig /\ db'[r].fillTx = t
    <3>1. db \in [Rows -> Row] /\ db' \in [Rows -> Row]
      BY <1>1, <1>3, <1>5, TableTypes DEF TypeOK
    <3> QED
      BY <1>3, <1>5, <3>1 DEF markFilled, Row
  <2>3. /\ worker' \in Worker /\ worker'.queue = worker.queue
        /\ \/ worker'.pc = "deliver" /\ worker'.cur = r /\ worker'.hash = t /\ HasJob(db[r].sig)
           \/ worker'.pc \in {"idle", "next"} /\ worker'.cur = 0
              /\ (worker'.pc = "next" => worker'.queue # {})
    BY <1>1, <1>5, NextOrderType DEF AfterFill, TypeOK, Worker
  <2> HIDE DEF r, t
  <2>4. TypeOK'
    BY <1>1, <1>2, <1>3, <2>2, <2>3 DEF TypeOK, Rows
  <2>5. RowsUsed'
    <3>1. worker'.queue = worker.queue /\ worker'.cur <= rows
      BY <1>1, <1>3, <2>3 DEF TypeOK
    <3>2. ASSUME NEW x \in Rows, x > rows PROVE db'[x].status = "none" /\ jobTx[x] = 0
      <4>1. x # r
        BY <1>1, <1>3, <3>2 DEF TypeOK, Rows
      <4> QED
        BY <1>1, <2>2, <3>2, <4>1 DEF RowsUsed
    <3>3. ASSUME NEW x \in Rows, x <= rows PROVE db'[x].sig \in Sigs
      <4>1. db'[x].sig = db[x].sig
        BY <2>2
      <4> QED
        BY <1>1, <3>3, <4>1 DEF RowsUsed
    <3> QED
      BY <1>1, <1>2, <3>1, <3>2, <3>3 DEF RowsUsed
  <2>6. WorkerBacked'
    BY <1>2, <1>3, <2>1, <2>2, <2>3 DEF WorkerBacked
  <2>7. FilledIsBacked' /\ DeliverableIsBacked'
    BY <1>1, <1>2, <1>3, <2>1, <2>2 DEF FilledIsBacked, DeliverableIsBacked
  <2> QED
    BY <2>4, <2>5, <2>6, <2>7 DEF IInv
<1> QED
  BY <1>4, <1>5 DEF WorkerReceipt

LEMMA ErrorStep == ASSUME IInv, WorkerSendError \/ WorkerReceiptTimeout PROVE IInv'
<1>1. /\ worker.pc \in {"send", "wait"}
      /\ db' = markFailed(worker.cur) /\ worker' = NextOrder
      /\ UNCHANGED <<now, marketOk, requests, rows, tx, nonceUsed, jobTx, crashes>>
  BY DEF WorkerSendError, WorkerReceiptTimeout, chain
<1>2. worker.cur \in Rows
  BY <1>1 DEF IInv, TypeOK, Worker
<1>3. /\ tx' \in [TxIds -> Tx]
      /\ \A t \in TxIds : tx'[t] = tx[t]
      /\ \A t \in TxIds : tx'[t].status # "none" => tx'[t].row \in Rows /\ tx'[t].row <= rows
  BY <1>1 DEF IInv, TypeOK, RowsUsed
<1> QED
  BY <1>1, <1>2, <1>3, FailStep

LEMMA DeliverStep == ASSUME IInv, WorkerDeliver PROVE IInv'
<1>1. /\ TypeOK /\ RowsUsed /\ WorkerBacked /\ FilledIsBacked /\ DeliverableIsBacked
  BY DEF IInv
<1> DEFINE r == worker.cur
           t == worker.hash
<1>2. /\ worker.pc = "deliver" /\ worker' = NextOrder
      /\ UNCHANGED <<now, marketOk, requests, rows, tx, nonceUsed, crashes>>
  BY DEF WorkerDeliver, chain
<1>3. /\ r \in Rows /\ r <= rows /\ t \in TxIds
      /\ tx[t] = [row |-> r, status |-> "success"] /\ HasJob(db[r].sig)
  BY <1>1, <1>2 DEF TypeOK, RowsUsed, WorkerBacked, Worker
<1>4. CASE db' = markFailed(worker.cur) /\ UNCHANGED jobTx
  BY <1>1, <1>2, <1>3, <1>4, FailStep DEF TypeOK, RowsUsed
<1>5. CASE jobTx' = [jobTx EXCEPT ![r] = t] /\ UNCHANGED db
  <2> HIDE DEF r, t
  <2>1. jobTx' \in [Rows -> {0} \cup TxIds]
    BY <1>1, <1>3, <1>5 DEF TypeOK
  <2>2. TypeOK'
    BY <1>1, <1>2, <1>5, <2>1, NextOrderType DEF TypeOK
  <2>3. RowsUsed'
    BY <1>1, <1>2, <1>3, <1>5, NextOrderType, Bounds DEF TypeOK, RowsUsed, Rows
  <2>4. WorkerBacked'
    BY <1>1, <1>2, NextOrderType DEF WorkerBacked
  <2>5. FilledIsBacked' /\ DeliverableIsBacked'
    BY <1>1, <1>2, <1>3, <1>5 DEF TypeOK, FilledIsBacked, DeliverableIsBacked
  <2> QED
    BY <2>2, <2>3, <2>4, <2>5 DEF IInv
<1> QED
  BY <1>4, <1>5 DEF WorkerDeliver

LEMMA MineStep == ASSUME IInv, NEW t \in TxIds, Mine(t) PROVE IInv'
<1>1. /\ TypeOK /\ RowsUsed /\ WorkerBacked /\ FilledIsBacked /\ DeliverableIsBacked
  BY DEF IInv
<1> DEFINE s == db[tx[t].row].sig
<1>2. /\ tx[t].status = "mempool"
      /\ tx' = [tx EXCEPT ![t].status = IF WouldSucceed(s) THEN "success" ELSE "reverted"]
      /\ nonceUsed' = nonceUsed \cup (IF WouldSucceed(s) THEN {NonceOf(s)} ELSE {})
      /\ UNCHANGED <<now, marketOk, requests, db, rows, jobTx, worker, crashes>>
  BY DEF Mine
<1>3. tx[t].row \in Rows /\ s \in Sigs
  BY <1>1, <1>2 DEF RowsUsed
<1>4. /\ tx \in [TxIds -> Tx] /\ tx' \in [TxIds -> Tx]
      /\ tx'[t].row = tx[t].row /\ tx'[t].status \in {"success", "reverted"}
      /\ \A x \in TxIds : x # t => tx'[x] = tx[x]
  BY <1>1, <1>2 DEF TypeOK, Tx
<1>5. nonceUsed' \subseteq {NonceOf(x) : x \in Sigs}
  BY <1>1, <1>2, <1>3 DEF TypeOK
<1>6. TypeOK'
  BY <1>1, <1>2, <1>4, <1>5 DEF TypeOK
<1>7. RowsUsed'
  BY <1>1, <1>2, <1>3, <1>4 DEF RowsUsed
<1>8. WorkerBacked'
  <2>1. worker.pc \in {"wait", "deliver"} => worker.hash \in TxIds
    BY <1>1 DEF TypeOK, Worker
  <2> QED
    BY <1>1, <1>2, <1>4, <2>1 DEF WorkerBacked
<1>9. FilledIsBacked' /\ DeliverableIsBacked'
  <2>1. \A x \in Rows : db[x].fillTx \in {0} \cup TxIds /\ jobTx[x] \in {0} \cup TxIds
    BY <1>1 DEF TypeOK, Row
  <2>2. \A x \in TxIds : tx[x].status = "success" => tx'[x] = tx[x]
    BY <1>2, <1>4
  <2> QED
    BY <1>1, <1>2, <2>1, <2>2 DEF FilledIsBacked, DeliverableIsBacked
<1> QED
  BY <1>6, <1>7, <1>8, <1>9 DEF IInv

LEMMA NextIInv == IInv /\ [Next]_vars => IInv'
<1>1. ASSUME IInv, Next PROVE IInv'
  BY <1>1, EnvironmentStep, InsertStep, TickStep, CheckStep, SendStep, ReceiptStep, ErrorStep,
     DeliverStep, MineStep DEF Next, WorkerStep
<1>2. ASSUME IInv, UNCHANGED vars PROVE IInv'
  BY <1>2 DEF vars, chain, IInv, TypeOK, RowsUsed, WorkerBacked, FilledIsBacked, DeliverableIsBacked
<1> QED
  BY <1>1, <1>2

(* The table, the chain and the worker stay consistent under every fault. *)
THEOREM TypeCorrect == Spec => []TypeOK
<1>1. IInv => TypeOK
  BY DEF IInv
<1> QED
  BY <1>1, InitIInv, NextIInv, PTL DEF Spec

(* An order reported FILLED was filled by the transaction the row names. *)
THEOREM FilledTellsTheTruth == Spec => []FilledIsBacked
<1>1. IInv => FilledIsBacked
  BY DEF IInv
<1> QED
  BY <1>1, InitIInv, NextIInv, PTL DEF Spec

(* A deliverable proves a successful fill of the order its job is about. *)
THEOREM DeliverablesAreBacked == Spec => []DeliverableIsBacked
<1>1. IInv => DeliverableIsBacked
  BY DEF IInv
<1> QED
  BY <1>1, InitIInv, NextIInv, PTL DEF Spec

-----------------------------------------------------------------------------
(* Final statuses.  What the worker has in hand is still pending: rows change   *)
(* status only by the worker's own hand, and never between its read of the      *)
(* queue and its update.                                                        *)

InHandPending ==
    /\ worker.queue \subseteq Pending
    /\ worker.pc \in {"send", "wait"} => worker.cur \in Pending /\ worker.cur \notin worker.queue
    /\ worker.pc = "deliver" => worker.cur \notin worker.queue
    /\ \A r \in Rows : r <= rows => db[r].status # "none"

LEMMA InitInHand == Init => InHandPending
BY Bounds DEF Init, InHandPending, Pending, IdleWorker, Rows

LEMMA InHandStep == ASSUME IInv, InHandPending, [Next]_vars PROVE InHandPending'
<1>1. /\ db \in [Rows -> Row] /\ worker \in Worker /\ rows \in 0..MaxRows
      /\ \A r \in Rows : r > rows => db[r].status = "none"
  BY DEF IInv, TypeOK, RowsUsed
<1>2. CASE UNCHANGED <<db, worker, rows>>
  BY <1>2 DEF InHandPending, Pending
<1>3. ASSUME NEW s \in Sigs, PostInsert(s) PROVE InHandPending'
  <2>1. /\ rows' = rows + 1 /\ rows + 1 \in Rows /\ worker' = worker
        /\ db' = [db EXCEPT ![rows + 1] = [sig |-> s, status |-> "PENDING", fillTx |-> 0]]
    BY <1>1, <1>3, Bounds DEF PostInsert, Rows
  <2>2. Pending \subseteq Pending'
    BY <1>1, <2>1 DEF Pending
  <2>3. \A r \in Rows : r <= rows' => db'[r].status # "none"
    BY <1>1, <2>1 DEF InHandPending, Rows
  <2> QED
    BY <2>1, <2>2, <2>3 DEF InHandPending
<1>4. CASE WorkerTick
  <2> DEFINE q == listPending(expireOld)
  <2>1. /\ worker' = [worker EXCEPT !.queue = q, !.pc = IF q = {} THEN "idle" ELSE "next"]
        /\ db' = expireOld /\ rows' = rows
    BY <1>4 DEF WorkerTick
  <2>2. q \subseteq Pending'
    BY <2>1 DEF listPending, Pending
  <2>3. \A r \in Rows : r <= rows => db'[r].status # "none"
    BY <1>1, <2>1 DEF expireOld, Due, Pending, InHandPending, Row
  <2> HIDE DEF q
  <2>4. worker'.queue = q /\ worker'.pc \in {"idle", "next"}
    BY <1>1, <2>1 DEF Worker
  <2> QED
    BY <2>1, <2>2, <2>3, <2>4 DEF InHandPending
<1>5. ASSUME NEW r \in Rows, WorkerCheck(r) PROVE InHandPending'
  <2>1. /\ r \in worker.queue /\ UNCHANGED <<db, rows>>
        /\ \/ worker' = [worker EXCEPT !.pc = "send", !.cur = r, !.queue = @ \ {r}]
           \/ worker' = [worker EXCEPT !.queue = @ \ {r},
                                       !.pc = IF worker.queue = {r} THEN "idle" ELSE "next"]
    BY <1>5 DEF WorkerCheck
  <2>2. /\ worker'.queue = worker.queue \ {r}
        /\ (worker'.pc = "send" /\ worker'.cur = r) \/ worker'.pc \in {"idle", "next"}
    BY <1>1, <2>1 DEF Worker
  <2> QED
    BY <2>1, <2>2 DEF InHandPending, Pending
<1>6. CASE worker' = NextOrder /\ rows' = rows
           /\ (db' = db \/ (worker.pc \in {"send", "wait", "deliver"} /\ worker.cur \in Rows
                            /\ (db' = markFailed(worker.cur) \/ \E t \in TxIds : db' = markFilled(worker.cur, t))))
  <2>1. worker'.queue = worker.queue /\ worker'.pc \in {"idle", "next"}
    BY <1>6, NextOrderType DEF IInv
  <2>2. \A r \in Rows : (r # worker.cur => db'[r] = db[r])
                        /\ (db'[r].status = "none" => db[r].status = "none")
    BY <1>1, <1>6 DEF markFailed, markFilled, Row
  <2>3. worker.pc \in {"send", "wait", "deliver"} => worker.cur \notin worker.queue
    BY DEF InHandPending
  <2>4. worker.queue \subseteq Pending'
    BY <1>6, <2>2, <2>3 DEF InHandPending, Pending
  <2> QED
    BY <1>6, <2>1, <2>2, <2>4 DEF InHandPending
<1>7. ASSUME NEW t \in TxIds, WorkerSend(t) PROVE InHandPending'
  <2>1. worker.pc = "send" /\ rows' = rows /\ worker.cur \in Rows
    BY <1>7 DEF WorkerSend, IInv, TypeOK, Worker
  <2>2. CASE worker' = [worker EXCEPT !.pc = "wait", !.hash = t] /\ db' = db
    <3>1. worker'.queue = worker.queue /\ worker'.pc = "wait" /\ worker'.cur = worker.cur
      BY <1>1, <2>2 DEF Worker
    <3> QED
      BY <2>1, <2>2, <3>1 DEF InHandPending, Pending
  <2>3. CASE worker' = NextOrder /\ db' = markFailed(worker.cur)
    BY <2>1, <2>3, <1>6
  <2> QED
    BY <1>7, <2>2, <2>3 DEF WorkerSend
<1>8. CASE WorkerReceipt
  <2> DEFINE r == worker.cur
             t == worker.hash
  <2>1. worker.pc = "wait" /\ rows' = rows /\ r \in Rows /\ t \in TxIds
    BY <1>8 DEF WorkerReceipt, IInv, TypeOK, Worker
  <2>2. CASE worker' = NextOrder /\ (db' = markFailed(r) \/ db' = markFilled(r, t))
    BY <2>1, <2>2, <1>6
  <2>3. CASE db' = markFilled(r, t) /\ worker' = [worker EXCEPT !.pc = "deliver"]
    <3>1. worker'.queue = worker.queue /\ worker'.pc = "deliver" /\ worker'.cur = r
      BY <1>1, <2>3 DEF Worker
    <3>2. r \notin worker.queue /\ worker.queue \subseteq Pending
      BY <2>1 DEF InHandPending
    <3>3. \A x \in Rows : (x # r => db'[x] = db[x]) /\ (db'[x].status = "none" => db[x].status = "none")
      BY <1>1, <2>3 DEF markFilled, Row
    <3>4. worker.queue \subseteq Pending'
      BY <3>2, <3>3 DEF Pending
    <3> QED
      BY <2>1, <3>1, <3>2, <3>3, <3>4 DEF InHandPending
  <2> QED
    BY <1>8, <2>2, <2>3 DEF WorkerReceipt, AfterFill
<1>9. CASE WorkerSendError \/ WorkerReceiptTimeout \/ WorkerDeliver
  <2>1. /\ worker.pc \in {"send", "wait", "deliver"} /\ worker' = NextOrder /\ rows' = rows
        /\ db' = db \/ db' = markFailed(worker.cur)
    BY <1>9 DEF WorkerSendError, WorkerReceiptTimeout, WorkerDeliver
  <2>2. worker.cur \in Rows
    BY <2>1 DEF IInv, TypeOK, Worker
  <2> QED
    BY <2>1, <2>2, <1>6
<1>10. CASE Crash
  <2>1. worker' = IdleWorker /\ UNCHANGED <<db, rows>>
    BY <1>10 DEF Crash
  <2> QED
    BY <2>1 DEF IdleWorker, InHandPending
<1>11. CASE UNCHANGED vars \/ (\E s \in Sigs : PostValidate(s)) \/ (\E t \in TxIds : Mine(t)) \/ MarketMove \/ Tick
  <2>1. UNCHANGED <<db, worker, rows>>
    BY <1>11 DEF vars, PostValidate, Mine, MarketMove, Tick
  <2> QED
    BY <2>1, <1>2
<1> QED
  BY <1>3, <1>4, <1>5, <1>7, <1>8, <1>9, <1>10, <1>11 DEF Next, WorkerStep

LEMMA KeeperInvariance == Spec => [](IInv /\ InHandPending)
<1>1. Init => IInv /\ InHandPending
  BY InitIInv, InitInHand
<1>2. IInv /\ InHandPending /\ [Next]_vars => IInv' /\ InHandPending'
  BY NextIInv, InHandStep
<1> QED
  BY <1>1, <1>2, PTL DEF Spec

FinalKept == \A r \in Rows : db[r].status \in Final =>
                db'[r].status = db[r].status \/ (worker.pc = "deliver" /\ worker.cur = r)

LEMMA FinalStep == ASSUME IInv, InHandPending, Next PROVE FinalKept
<1>1. /\ db \in [Rows -> Row] /\ worker \in Worker
      /\ \A r \in Rows : r > rows => db[r].status = "none"
  BY DEF IInv, TypeOK, RowsUsed
<1>2. CASE db' = db
  BY <1>2 DEF FinalKept
<1>3. ASSUME NEW s \in Sigs, PostInsert(s) PROVE FinalKept
  <2>1. rows + 1 > rows
    BY DEF IInv, TypeOK
  <2> QED
    BY <1>1, <1>3, <2>1 DEF PostInsert, FinalKept, Final
<1>4. CASE WorkerTick
  BY <1>1, <1>4 DEF WorkerTick, expireOld, Due, Pending, FinalKept, Final, Row
<1>5. ASSUME worker.pc \in {"send", "wait", "deliver"},
             db' = db \/ db' = markFailed(worker.cur) \/ \E t \in TxIds : db' = markFilled(worker.cur, t)
      PROVE  FinalKept
  <2>1. worker.pc = "deliver" \/ worker.cur \in Pending
    BY <1>5 DEF InHandPending
  <2> QED
    BY <1>1, <1>5, <2>1 DEF FinalKept, Final, Pending, markFailed, markFilled
<1>6. ASSUME WorkerSendError \/ WorkerReceipt \/ WorkerReceiptTimeout \/ WorkerDeliver
             \/ \E t \in TxIds : WorkerSend(t)
      PROVE  FinalKept
  <2>1. worker.pc \in {"send", "wait", "deliver"}
    BY <1>6 DEF WorkerSendError, WorkerReceipt, WorkerReceiptTimeout, WorkerDeliver, WorkerSend
  <2>2. worker.pc = "wait" => worker.hash \in TxIds
    BY <1>1 DEF IInv, TypeOK, Worker
  <2>3. db' = db \/ db' = markFailed(worker.cur) \/ \E t \in TxIds : db' = markFilled(worker.cur, t)
    BY <1>6, <2>2 DEF WorkerSendError, WorkerReceipt, WorkerReceiptTimeout, WorkerDeliver, WorkerSend
  <2> QED
    BY <2>1, <2>3, <1>5
<1>7. CASE (\E s \in Sigs : PostValidate(s)) \/ (\E t \in TxIds : Mine(t)) \/ MarketMove \/ Tick \/ Crash
           \/ \E r \in Rows : WorkerCheck(r)
  <2>1. db' = db
    BY <1>7 DEF PostValidate, Mine, MarketMove, Tick, Crash, WorkerCheck
  <2> QED
    BY <2>1, <1>2
<1> QED
  BY <1>3, <1>4, <1>6, <1>7 DEF Next, WorkerStep

(* A status a client has seen as final changes in one case only, under every    *)
(* combination of faults.                                                       *)
THEOREM FinalStays == Spec => FinalUnlessDeliverableFails
<1>1. IInv /\ InHandPending /\ [Next]_vars => [FinalKept]_vars
  BY FinalStep
<1>2. Spec => [][FinalKept]_vars
  BY <1>1, KeeperInvariance, PTL DEF Spec
<1> QED
  BY <1>2 DEF FinalUnlessDeliverableFails, FinalKept

-----------------------------------------------------------------------------
(* A well behaved environment: answers arrive and the process stays up; chain   *)
(* reads may fail.  Then whatever the keeper broadcast is in its hands or       *)
(* accounted for in the table.                                                  *)

Reliable == Faults \subseteq {"rpc"}

TxAccounted ==
    \A t \in TxIds : tx[t].status # "none" =>
        \/ worker.pc = "wait" /\ worker.hash = t
        \/ tx[t].status = "reverted" /\ db[tx[t].row].status = "FAILED"
        \/ tx[t].status = "success"  /\ db[tx[t].row].status = "FILLED"
NoTxNoRow == \A t \in TxIds : tx[t].status = "none" => tx[t].row = 0
ReliableInv == IInv /\ InHandPending /\ TxAccounted /\ NoTxNoRow

(* A step that leaves the chain and rows that already have an outcome alone.    *)
LEMMA OutcomesKept ==
    ASSUME ReliableInv, tx' = tx,
           worker.pc = "wait" => worker'.pc = "wait" /\ worker'.hash = worker.hash,
           \A r \in Rows : db[r].status \in {"FAILED", "FILLED"} => db'[r].status = db[r].status
    PROVE  TxAccounted' /\ NoTxNoRow'
<1>1. \A t \in TxIds : tx[t].status # "none" => tx[t].row \in Rows
  BY DEF ReliableInv, IInv, RowsUsed
<1> QED
  BY <1>1 DEF ReliableInv, TxAccounted, NoTxNoRow

LEMMA AccountedStep ==
    ASSUME Reliable, ReliableInv, [Next]_vars
    PROVE  TxAccounted' /\ NoTxNoRow'
<1>1. /\ db \in [Rows -> Row] /\ worker \in Worker /\ tx \in [TxIds -> Tx]
      /\ \A r \in Rows : r > rows => db[r].status = "none"
      /\ \A t \in TxIds : tx[t].status # "none" => tx[t].row \in Rows
      /\ "lostAck" \notin Faults /\ "timeout" \notin Faults /\ "submit" \notin Faults /\ "crash" \notin Faults
  BY DEF ReliableInv, IInv, TypeOK, RowsUsed, Reliable
<1>2. CASE UNCHANGED <<tx, db, worker>>
  BY <1>2, OutcomesKept
<1>3. ASSUME NEW s \in Sigs, PostInsert(s) PROVE TxAccounted' /\ NoTxNoRow'
  <2>1. rows + 1 > rows
    BY DEF ReliableInv, IInv, TypeOK
  <2>2. \A r \in Rows : db[r].status \in {"FAILED", "FILLED"} => db'[r].status = db[r].status
    BY <1>1, <1>3, <2>1 DEF PostInsert
  <2> QED
    BY <1>3, <2>2, OutcomesKept DEF PostInsert, chain
<1>4. CASE WorkerTick
  <2>1. \A r \in Rows : db[r].status \in {"FAILED", "FILLED"} => db'[r].status = db[r].status
    BY <1>1, <1>4 DEF WorkerTick, expireOld, Due, Pending
  <2> QED
    BY <1>4, <2>1, OutcomesKept DEF WorkerTick, chain
<1>5. ASSUME NEW r \in Rows, WorkerCheck(r) PROVE TxAccounted' /\ NoTxNoRow'
  BY <1>5, OutcomesKept DEF WorkerCheck, chain
<1>6. CASE WorkerSendError
  <2>1. worker.cur \in Rows /\ db[worker.cur].status = "PENDING"
    BY <1>6 DEF WorkerSendError, ReliableInv, InHandPending, Pending
  <2>2. \A r \in Rows : db[r].status \in {"FAILED", "FILLED"} => db'[r].status = db[r].status
    BY <1>1, <1>6, <2>1 DEF WorkerSendError, markFailed
  <2> QED
    BY <1>6, <2>2, OutcomesKept DEF WorkerSendError, chain
<1>7. CASE WorkerDeliver
  BY <1>1, <1>7, OutcomesKept DEF WorkerDeliver, chain
<1>8. CASE WorkerReceiptTimeout \/ Crash
  BY <1>1, <1>8 DEF WorkerReceiptTimeout, Crash
<1>9. ASSUME NEW t \in TxIds, WorkerSend(t) PROVE TxAccounted' /\ NoTxNoRow'
  <2>1. /\ worker.pc = "send" /\ tx[t].status = "none" /\ db' = db
        /\ tx' = [tx EXCEPT ![t] = [row |-> worker.cur, status |-> "mempool"]]
        /\ worker' = [worker EXCEPT !.pc = "wait", !.hash = t]
    BY <1>1, <1>9 DEF WorkerSend, Broadcast, TxIds
  <2>2. worker'.pc = "wait" /\ worker'.hash = t
    BY <1>1, <2>1 DEF Worker
  <2>3. /\ tx'[t].status = "mempool"
        /\ \A x \in TxIds : x # t => tx'[x] = tx[x]
    BY <1>1, <2>1
  <2>4. TxAccounted'
    BY <2>1, <2>2, <2>3 DEF ReliableInv, TxAccounted
  <2>5. NoTxNoRow'
    BY <2>3 DEF ReliableInv, NoTxNoRow
  <2> QED
    BY <2>4, <2>5
<1>10. CASE WorkerReceipt
  <2> DEFINE r == worker.cur
             t == worker.hash
  <2>1. /\ worker.pc = "wait" /\ tx' = tx /\ t \in TxIds /\ r \in Rows
        /\ tx[t].row = r /\ db[r].status = "PENDING"
    BY <1>1, <1>10 DEF WorkerReceipt, chain, ReliableInv, IInv, TypeOK, WorkerBacked, Worker, InHandPending, Pending
  <2>2. \A x \in Rows : x # r => db'[x] = db[x]
    BY <1>1, <1>10, <2>1 DEF WorkerReceipt, markFilled, markFailed
  <2>3. \/ tx[t].status = "success" /\ db'[r].status = "FILLED"
        \/ tx[t].status = "reverted" /\ db'[r].status = "FAILED"
    BY <1>1, <1>10, <2>1 DEF WorkerReceipt, markFilled, markFailed, ReceiptSucceeded, ReceiptFailed, Row
  <2>4. ASSUME NEW x \in TxIds, tx[x].status # "none"
        PROVE  \/ tx[x].status = "reverted" /\ db'[tx[x].row].status = "FAILED"
               \/ tx[x].status = "success"  /\ db'[tx[x].row].status = "FILLED"
    <3>1. CASE x = t
      BY <2>1, <2>3, <3>1
    <3>2. CASE x # t
      <4>1. \/ tx[x].status = "reverted" /\ db[tx[x].row].status = "FAILED"
            \/ tx[x].status = "success"  /\ db[tx[x].row].status = "FILLED"
        BY <2>4, <3>2 DEF ReliableInv, TxAccounted
      <4>2. tx[x].row \in Rows /\ tx[x].row # r
        BY <1>1, <2>1, <2>4, <4>1
      <4> QED
        BY <2>2, <4>1, <4>2
    <3> QED
      BY <3>1, <3>2
  <2> QED
    BY <2>1, <2>4 DEF TxAccounted, NoTxNoRow, ReliableInv
<1>11. ASSUME NEW t \in TxIds, Mine(t) PROVE TxAccounted' /\ NoTxNoRow'
  <2>1. /\ tx[t].status = "mempool" /\ UNCHANGED <<db, worker>>
        /\ \A x \in TxIds : x # t => tx'[x] = tx[x]
        /\ tx'[t].status \in {"success", "reverted"}
    BY <1>1, <1>11 DEF Mine, Tx
  <2>2. worker.pc = "wait" /\ worker.hash = t
    BY <2>1 DEF ReliableInv, TxAccounted
  <2>3. TxAccounted'
    BY <2>1, <2>2 DEF ReliableInv, TxAccounted
  <2>4. NoTxNoRow'
    BY <2>1 DEF ReliableInv, NoTxNoRow
  <2> QED
    BY <2>3, <2>4
<1>12. CASE UNCHANGED vars \/ (\E s \in Sigs : PostValidate(s)) \/ MarketMove \/ Tick
  <2>1. UNCHANGED <<tx, db, worker>>
    BY <1>12 DEF vars, chain, PostValidate, MarketMove, Tick
  <2> QED
    BY <2>1, <1>2
<1> QED
  BY <1>3, <1>4, <1>5, <1>6, <1>7, <1>8, <1>9, <1>10, <1>11, <1>12 DEF Next, WorkerStep

LEMMA InitReliable == Init => ReliableInv
<1>1. Init => TxAccounted /\ NoTxNoRow
  BY DEF Init, TxAccounted, NoTxNoRow
<1> QED
  BY <1>1, InitIInv, InitInHand DEF ReliableInv

LEMMA ReliableInvariance == ASSUME Reliable PROVE Spec => []ReliableInv
<1>1. Init => ReliableInv
  BY InitReliable
<1>2. ReliableInv /\ [Next]_vars => ReliableInv'
  BY AccountedStep, NextIInv, InHandStep DEF ReliableInv
<1> QED
  BY <1>1, <1>2, PTL DEF Spec

(* While answers arrive and the process stays up, an order reported FAILED or   *)
(* EXPIRED was not filled and cannot be filled any more.                        *)
THEOREM FinalTellsTheTruth == ASSUME Reliable PROVE Spec => []FinalIsTruthful
<1>1. ReliableInv => FinalIsTruthful
  <2> SUFFICES ASSUME ReliableInv, NEW r \in Rows, db[r].status \in {"FAILED", "EXPIRED"},
                      NEW t \in TxIds, tx[t].row = r
               PROVE  tx[t].status = "reverted"
    BY DEF FinalIsTruthful
  <2>1. tx[t].status # "none"
    BY DEF ReliableInv, NoTxNoRow, Rows
  <2>2. ~(worker.pc = "wait" /\ worker.hash = t)
    BY DEF ReliableInv, IInv, WorkerBacked, InHandPending, Pending
  <2> QED
    BY <2>1, <2>2 DEF ReliableInv, TxAccounted
<1> QED
  BY <1>1, ReliableInvariance, PTL

-----------------------------------------------------------------------------
(* The refinement: each step is one of the promised life or none.               *)

state == [r \in Rows |-> Promised(r)]

(* What a row promises follows from its status and whether it was filled.       *)
LEMMA PromiseOf ==
    ASSUME NEW r \in Rows, TypeOK
    PROVE  /\ db[r].status = "none"   => state[r] = "none"
           /\ db[r].status = "FILLED" => state[r] = "filled"
           /\ db[r].status \in {"PENDING", "FAILED", "EXPIRED"} /\ Filled(r) => state[r] = "filledUnreported"
           /\ db[r].status = "PENDING" /\ ~Filled(r) => state[r] = "pending"
           /\ db[r].status \in {"FAILED", "EXPIRED"} /\ ~Filled(r) => state[r] = "givenUp"
BY DEF state, Promised

LEMMA PromiseOfNext ==
    ASSUME NEW r \in Rows, TypeOK'
    PROVE  /\ db'[r].status = "none"   => state'[r] = "none"
           /\ db'[r].status = "FILLED" => state'[r] = "filled"
           /\ db'[r].status \in {"PENDING", "FAILED", "EXPIRED"} /\ Filled(r)' => state'[r] = "filledUnreported"
           /\ db'[r].status = "PENDING" /\ ~Filled(r)' => state'[r] = "pending"
           /\ db'[r].status \in {"FAILED", "EXPIRED"} /\ ~Filled(r)' => state'[r] = "givenUp"
BY DEF state, Promised

(* Rows whose status and fills stay keep their promise.                         *)
LEMMA PromiseKept ==
    ASSUME NEW r \in Rows, TypeOK, TypeOK',
           db'[r].status = db[r].status, Filled(r)' <=> Filled(r)
    PROVE  state'[r] = state[r]
<1>1. db[r].status \in {"none", "PENDING", "FILLED", "FAILED", "EXPIRED"}
  BY DEF TypeOK, Row, Statuses
<1> QED
  BY <1>1, PromiseOf, PromiseOfNext

(* One step of the life of one row.                                             *)
LEMMA OneRow ==
    ASSUME NEW r \in Rows, NEW from, NEW to, state[r] = from, state'[r] = to,
           \A x \in Rows : x # r => state'[x] = state[x]
    PROVE  Lifecycle!Step(r, from, to)
<1>1. state' = [state EXCEPT ![r] = to]
  BY DEF state
<1> QED
  BY <1>1 DEF Lifecycle!Step, state

LEMMA PendingInHand ==
    ASSUME ReliableInv, NEW r \in Rows, db[r].status \in {"PENDING", "none"}, Filled(r)
    PROVE  worker.pc = "wait" /\ worker.cur = r /\ tx[worker.hash].status = "success"
<1>1. PICK t \in TxIds : tx[t].row = r /\ tx[t].status = "success"
  BY DEF Filled
<1>2. worker.pc = "wait" /\ worker.hash = t
  BY <1>1 DEF ReliableInv, TxAccounted
<1> QED
  BY <1>1, <1>2 DEF ReliableInv, IInv, WorkerBacked

LEMMA RefinesStep ==
    ASSUME Reliable, ReliableInv, ReliableInv', [Next]_vars
    PROVE  [Lifecycle!Next]_state
<1>1. /\ db \in [Rows -> Row] /\ worker \in Worker /\ tx \in [TxIds -> Tx]
      /\ \A r \in Rows : r > rows => db[r].status = "none"
      /\ TypeOK /\ TypeOK'
      /\ "lostAck" \notin Faults /\ "timeout" \notin Faults /\ "submit" \notin Faults /\ "crash" \notin Faults
  BY DEF ReliableInv, IInv, TypeOK, RowsUsed, Reliable
<1>2. ASSUME \A r \in Rows : db'[r].status = db[r].status /\ (Filled(r)' <=> Filled(r))
      PROVE  state' = state
  <2>1. \A r \in Rows : state'[r] = state[r]
    BY <1>1, <1>2, PromiseKept
  <2> QED
    BY <2>1 DEF state
<1>3. ASSUME tx' = tx PROVE \A r \in Rows : Filled(r)' <=> Filled(r)
  BY <1>3 DEF Filled
<1>4. ASSUME NEW s \in Sigs, PostInsert(s) PROVE Lifecycle!Next
  <2>0. PICK r \in Rows : r = rows + 1
    BY <1>4, Bounds DEF PostInsert, Rows, ReliableInv, IInv, TypeOK
  <2>1. /\ tx' = tx /\ r \in Rows /\ db[r].status = "none" /\ db'[r].status = "PENDING"
        /\ \A x \in Rows : x # r => db'[x] = db[x]
    BY <1>1, <1>4, <2>0 DEF PostInsert, chain, TypeOK
  <2>2. ~Filled(r) /\ ~Filled(r)'
    BY <1>3, <2>0, <2>1 DEF Filled, ReliableInv, IInv, RowsUsed, TypeOK
  <2>3. state[r] = "none" /\ state'[r] = "pending"
    BY <1>1, <2>1, <2>2, PromiseOf, PromiseOfNext
  <2>4. \A x \in Rows : x # r => state'[x] = state[x]
    BY <1>1, <1>3, <2>1, PromiseKept
  <2>5. Lifecycle!Accept(r)
    BY <2>1, <2>3, <2>4, OneRow DEF Lifecycle!Accept
  <2> QED
    BY <2>1, <2>5 DEF Lifecycle!Next
<1>5. ASSUME NEW S \in SUBSET Rows, tx' = tx,
             \A r \in S : db[r].status = "PENDING" /\ ~Filled(r) /\ db'[r].status \in {"FAILED", "EXPIRED"},
             \A r \in Rows \ S : db'[r].status = db[r].status
      PROVE  Lifecycle!Next \/ state' = state
  <2>1. \A r \in S : state[r] = "pending" /\ state'[r] = "givenUp"
    BY <1>1, <1>3, <1>5, PromiseOf, PromiseOfNext
  <2>2. \A r \in Rows \ S : state'[r] = state[r]
    BY <1>1, <1>3, <1>5, PromiseKept
  <2>3. state' = [r \in Rows |-> IF r \in S THEN "givenUp" ELSE state[r]]
    BY <2>1, <2>2 DEF state
  <2>4. CASE S = {}
    BY <2>3, <2>4 DEF state
  <2>5. CASE S # {}
    <3>1. Lifecycle!GiveUp(S)
      BY <2>1, <2>3, <2>5 DEF Lifecycle!GiveUp, state
    <3> QED
      BY <3>1 DEF Lifecycle!Next
  <2> QED
    BY <2>4, <2>5
<1>6. CASE WorkerTick
  <2>1. worker.pc = "idle" /\ tx' = tx /\ db' = expireOld
    BY <1>6 DEF WorkerTick, chain
  <2>2. Due \in SUBSET Rows
    BY DEF Due, Pending
  <2>3. \A r \in Due : db[r].status = "PENDING" /\ ~Filled(r) /\ db'[r].status = "EXPIRED"
    BY <1>1, <2>1, PendingInHand DEF expireOld, Due, Pending, Row
  <2>4. \A r \in Rows \ Due : db'[r].status = db[r].status
    BY <1>1, <2>1 DEF expireOld
  <2> QED
    BY <2>1, <2>2, <2>3, <2>4, <1>5
<1>7. ASSUME worker.pc \in {"send", "wait"}, worker.pc = "wait" => tx[worker.hash].status # "success",
             tx' = tx, db' = markFailed(worker.cur)
      PROVE  Lifecycle!Next \/ state' = state
  <2>1. worker.cur \in Rows /\ db[worker.cur].status = "PENDING"
    BY <1>7 DEF ReliableInv, InHandPending, Pending
  <2>2. ~Filled(worker.cur)
    BY <1>7, <2>1, PendingInHand
  <2>3. /\ db'[worker.cur].status = "FAILED"
        /\ \A r \in Rows \ {worker.cur} : db'[r].status = db[r].status
    BY <1>1, <1>7, <2>1 DEF markFailed, Row
  <2>4. {worker.cur} \in SUBSET Rows
    BY <2>1
  <2> QED
    BY <2>1, <2>2, <2>3, <2>4, <1>5, <1>7
<1>8. CASE WorkerSendError
  BY <1>7, <1>8 DEF WorkerSendError, chain
<1>9. CASE WorkerReceipt
  <2>0. PICK r \in Rows, t \in TxIds : r = worker.cur /\ t = worker.hash
    BY <1>9 DEF WorkerReceipt, ReliableInv, IInv, TypeOK, Worker
  <2>1. worker.pc = "wait" /\ tx' = tx /\ tx[t].row = r
    BY <2>0, <1>1, <1>9 DEF WorkerReceipt, chain, ReliableInv, IInv, TypeOK, Worker, WorkerBacked
  <2>2. CASE ReceiptFailed(t) /\ db' = markFailed(r)
    BY <1>7, <2>0, <2>1, <2>2 DEF ReceiptFailed
  <2>3. CASE ReceiptSucceeded(t) /\ db' = markFilled(r, t)
    <3>1. /\ db[r].status = "PENDING" /\ db'[r].status = "FILLED"
          /\ \A x \in Rows : x # r => db'[x] = db[x]
      BY <1>1, <2>0, <2>1, <2>3 DEF markFilled, Row, ReliableInv, InHandPending, Pending
    <3>2. Filled(r)
      BY <2>1, <2>3 DEF Filled, ReceiptSucceeded
    <3>3. state[r] = "filledUnreported" /\ state'[r] = "filled"
      BY <1>1, <2>1, <3>1, <3>2, PromiseOf, PromiseOfNext
    <3>4. \A x \in Rows : x # r => state'[x] = state[x]
      BY <1>1, <1>3, <2>1, <3>1, PromiseKept
    <3>5. Lifecycle!Report(r)
      BY <2>1, <3>3, <3>4, OneRow DEF Lifecycle!Report
    <3> QED
      BY <2>1, <3>5 DEF Lifecycle!Next
  <2> QED
    BY <1>9, <2>0, <2>2, <2>3 DEF WorkerReceipt
<1>10. ASSUME NEW t \in TxIds, Mine(t) PROVE Lifecycle!Next \/ state' = state
  <2>0. PICK r \in Rows : r = tx[t].row
    BY <1>10 DEF Mine, ReliableInv, IInv, RowsUsed
  <2>1. /\ tx[t].status = "mempool" /\ UNCHANGED <<db, worker>>
        /\ \A x \in TxIds : x # t => tx'[x] = tx[x]
        /\ tx'[t].row = r /\ tx'[t].status \in {"success", "reverted"}
    BY <1>1, <1>10, <2>0 DEF Mine, Tx
  <2>2. worker.pc = "wait" /\ worker.hash = t /\ worker.cur = r /\ db[r].status = "PENDING"
    BY <2>0, <2>1 DEF ReliableInv, TxAccounted, IInv, WorkerBacked, InHandPending, Pending
  <2>3. ~Filled(r)
    BY <2>1, <2>2, PendingInHand
  <2>4. \A x \in Rows : x # r => (Filled(x)' <=> Filled(x))
    BY <2>0, <2>1 DEF Filled
  <2>5. CASE tx'[t].status = "reverted"
    <3>1. ~Filled(r)'
      BY <2>1, <2>3, <2>5 DEF Filled
    <3> QED
      BY <1>2, <2>1, <2>3, <2>4, <3>1
  <2>6. CASE tx'[t].status = "success"
    <3>1. Filled(r)'
      BY <2>1, <2>6 DEF Filled
    <3>2. db[r].status = "PENDING" /\ db'[r].status = "PENDING" /\ r \in Rows /\ ~Filled(r) /\ Filled(r)'
      BY <2>1, <2>2, <2>3, <3>1
    <3>3. state[r] = "pending"
      BY <1>1, <3>2, PromiseOf
    <3>4. state'[r] = "filledUnreported"
      BY <1>1, <3>2, PromiseOfNext
    <3>5. \A x \in Rows : x # r => state'[x] = state[x]
      BY <1>1, <2>1, <2>4, PromiseKept
    <3>6. Lifecycle!Execute(r)
      BY <3>2, <3>3, <3>4, <3>5, OneRow DEF Lifecycle!Execute
    <3> QED
      BY <3>2, <3>6 DEF Lifecycle!Next
  <2> QED
    BY <2>1, <2>5, <2>6
<1>11. ASSUME NEW t \in TxIds, WorkerSend(t) PROVE state' = state
  <2>1. /\ tx[t].status = "none" /\ db' = db /\ worker.pc = "send"
        /\ tx' = [tx EXCEPT ![t] = [row |-> worker.cur, status |-> "mempool"]]
    BY <1>1, <1>11 DEF WorkerSend, Broadcast, TxIds
  <2>2. tx'[t].status = "mempool" /\ \A x \in TxIds : x # t => tx'[x] = tx[x]
    BY <1>1, <2>1
  <2>3. \A r \in Rows : Filled(r)' <=> Filled(r)
    BY <2>1, <2>2 DEF Filled
  <2> QED
    BY <1>2, <2>1, <2>3
<1>12. CASE \/ UNCHANGED vars \/ (\E s \in Sigs : PostValidate(s)) \/ MarketMove \/ Tick
            \/ WorkerDeliver \/ \E r \in Rows : WorkerCheck(r)
  <2>1. tx' = tx /\ db' = db
    BY <1>1, <1>12 DEF vars, chain, PostValidate, MarketMove, Tick, WorkerDeliver, WorkerCheck
  <2> QED
    BY <1>2, <1>3, <2>1
<1>13. CASE WorkerReceiptTimeout \/ Crash
  BY <1>1, <1>13 DEF WorkerReceiptTimeout, Crash
<1> QED
  BY <1>4, <1>6, <1>8, <1>9, <1>10, <1>11, <1>12, <1>13 DEF Next, WorkerStep

(* In a well behaved environment the keeper implements the promised lifecycle:  *)
(* an order given up is never filled, and none is reported that was not.        *)
THEOREM KeeperKeepsPromise == ASSUME Reliable PROVE Spec => RefinesLifecycle
<1>1. Init => Lifecycle!Init
  <2>1. Init => \A r \in Rows : Promised(r) = "none"
    BY DEF Init, Promised
  <2> QED
    BY <2>1 DEF Lifecycle!Init
<1>2. ReliableInv /\ ReliableInv' /\ [Next]_vars => [Lifecycle!Next]_state
  BY RefinesStep
<1>3. state = [r \in Rows |-> Promised(r)]
  BY DEF state
<1> QED
  BY <1>1, <1>2, <1>3, ReliableInvariance, PTL DEF Spec, RefinesLifecycle, Lifecycle!Spec, state

=============================================================================
