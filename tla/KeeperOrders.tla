---------------------------- MODULE KeeperOrders ----------------------------
(* keeper/src: the order API (server.ts), its SQLite table (db.ts) and the    *)
(* worker loop (worker.ts) that sends executeOrder transactions and records   *)
(* what became of them.  The API's awaits, the worker's awaits, the chain,    *)
(* and crashes of the process interleave.                                     *)
EXTENDS Integers, FiniteSets

CONSTANTS
    Sigs,          \* signed orders users may post, any number of times
    NonceOf(_),    \* the Permit2 nonce an order was signed with
    DeadlineOf(_),
    HasJob(_),     \* is the order linked to an ERC-8183 job
    Faults,        \* what the environment does: "crash", "timeout", "lostAck", "rpc", "submit"
    NoSig,         \* what an unused row holds
    Margin,        \* 30 s, the least time to the deadline the API accepts
    Limit,         \* 25, the rows one tick of the worker reads
    MaxRows, MaxTx, MaxTime, MaxCrashes     \* bounds

Rows  == 1..MaxRows        \* in order of created_at
TxIds == 1..MaxTx
Times == 0..MaxTime
FaultKinds == {"crash", "timeout", "lostAck", "rpc", "submit"}

ASSUME Bounds ==
    /\ MaxRows \in Nat /\ MaxTx \in Nat /\ MaxTime \in Nat /\ MaxCrashes \in Nat
    /\ Margin \in Nat /\ Limit \in Nat \ {0}
    /\ \A s \in Sigs : DeadlineOf(s) \in Nat
    /\ Faults \subseteq FaultKinds
    /\ NoSig \notin Sigs

VARIABLES
    now,
    marketOk,      \* would the swap meet minOut if it executed now
    requests,      \* POSTs validated and waiting for their chain reads
    db,            \* the orders table
    rows,          \* rows inserted so far
    tx,            \* transactions broadcast by the keeper
    nonceUsed,     \* Permit2 nonces spent on chain
    jobTx,         \* deliverable submitted for a row: the fill it proves, or 0
    worker,        \* the worker loop: where it is, what it still has to process
    crashes
vars == <<now, marketOk, requests, db, rows, tx, nonceUsed, jobTx, worker, crashes>>
chain == <<tx, nonceUsed>>

Statuses == {"none", "PENDING", "FILLED", "FAILED", "EXPIRED"}
Final    == {"FILLED", "FAILED", "EXPIRED"}
Row == [sig : Sigs \cup {NoSig}, status : Statuses, fillTx : {0} \cup TxIds]
Tx  == [row : {0} \cup Rows, status : {"none", "mempool", "success", "reverted"}]
Worker == [pc : {"idle", "next", "send", "wait", "deliver"},
           queue : SUBSET Rows, cur : {0} \cup Rows, hash : {0} \cup TxIds]
IdleWorker == [pc |-> "idle", queue |-> {}, cur |-> 0, hash |-> 0]

TypeOK ==
    /\ now \in Times /\ marketOk \in BOOLEAN
    /\ requests \subseteq Sigs
    /\ db \in [Rows -> Row] /\ rows \in 0..MaxRows
    /\ tx \in [TxIds -> Tx]
    /\ nonceUsed \subseteq {NonceOf(s) : s \in Sigs}
    /\ jobTx \in [Rows -> {0} \cup TxIds]
    /\ worker \in Worker /\ crashes \in 0..MaxCrashes
    /\ worker.pc = "next" => worker.queue # {}
    /\ worker.pc \in {"send", "wait", "deliver"} => worker.cur # 0
    /\ worker.pc \in {"wait", "deliver"} => worker.hash # 0

Init ==
    /\ now = 0 /\ marketOk \in BOOLEAN
    /\ requests = {} /\ rows = 0
    /\ db = [r \in Rows |-> [sig |-> NoSig, status |-> "none", fillTx |-> 0]]
    /\ tx = [t \in TxIds |-> [row |-> 0, status |-> "none"]]
    /\ nonceUsed = {}
    /\ jobTx = [r \in Rows |-> 0]
    /\ worker = IdleWorker /\ crashes = 0

Pending == {r \in Rows : db[r].status = "PENDING"}
Due     == {r \in Pending : DeadlineOf(db[r].sig) <= now}

----------------------------------------------------------------------------
(* POST /v1/orders: the deadline is checked before the chain reads are         *)
(* awaited, the row is inserted after them.                                    *)

PostValidate(s) ==
    /\ DeadlineOf(s) > now + Margin
    /\ requests' = requests \cup {s}
    /\ UNCHANGED <<now, marketOk, db, rows, chain, jobTx, worker, crashes>>

PostInsert(s) ==
    /\ s \in requests /\ rows < MaxRows
    /\ requests' = requests \ {s}
    /\ rows' = rows + 1
    /\ db' = [db EXCEPT ![rows + 1] = [sig |-> s, status |-> "PENDING", fillTx |-> 0]]
    /\ UNCHANGED <<now, marketOk, chain, jobTx, worker, crashes>>

----------------------------------------------------------------------------
(* The table's updates, by row and whatever the row's status is *)

markFilled(r, t) == [db EXCEPT ![r].status = "FILLED", ![r].fillTx = t]
markFailed(r)    == [db EXCEPT ![r].status = "FAILED"]
expireNothing    == db
expireAll        == [r \in Rows |-> IF r <= rows /\ DeadlineOf(db[r].sig) <= now
                                    THEN [db[r] EXCEPT !.status = "EXPIRED"] ELSE db[r]]
expireOld        == [r \in Rows |-> IF r \in Due THEN [db[r] EXCEPT !.status = "EXPIRED"] ELSE db[r]]

listPending(d) ==
    LET pending == {r \in Rows : d[r].status = "PENDING"}
    IN  {r \in pending : Cardinality({x \in pending : x < r}) < Limit}

----------------------------------------------------------------------------
(* The worker *)

NextOrderAlways == [worker EXCEPT !.pc = "next", !.cur = 0, !.hash = 0]
NextOrder == [worker EXCEPT !.pc = IF worker.queue = {} THEN "idle" ELSE "next",
                            !.cur = 0, !.hash = 0]

(* One tick expires the overdue rows and reads the oldest pending ones.        *)
WorkerTick ==
    /\ worker.pc = "idle"
    /\ db' = expireOld
    /\ worker' = [worker EXCEPT !.queue = listPending(expireOld),
                                !.pc = IF listPending(expireOld) = {} THEN "idle" ELSE "next"]
    /\ UNCHANGED <<now, marketOk, requests, rows, chain, jobTx, crashes>>

(* feeBps and the rate are read from the chain; the row itself is the one the  *)
(* tick read.  An unreadable rate counts as ready.                             *)
ReadyOrUnknown == marketOk \/ "rpc" \in Faults
WorkerCheck(r) ==
    /\ worker.pc = "next" /\ r \in worker.queue
    /\ \A x \in worker.queue : r <= x
    /\ \/ /\ ReadyOrUnknown
          /\ worker' = [worker EXCEPT !.pc = "send", !.cur = r, !.queue = @ \ {r}]
       \/ /\ ~marketOk \/ "rpc" \in Faults   \* not ready, or feeBps unreadable: next order
          /\ worker' = [worker EXCEPT !.queue = @ \ {r},
                                      !.pc = IF worker.queue = {r} THEN "idle" ELSE "next"]
    /\ UNCHANGED <<now, marketOk, requests, db, rows, chain, jobTx, crashes>>

(* executeOrder as the chain would run it now *)
WouldSucceed(s) ==
    /\ marketOk
    /\ now <= DeadlineOf(s)
    /\ NonceOf(s) \notin nonceUsed

Broadcast(t, r) ==
    /\ \A x \in TxIds : (tx[x].status = "none") = (x >= t)
    /\ tx' = [tx EXCEPT ![t] = [row |-> r, status |-> "mempool"]]

(* sendTransaction estimates the call first, so a call that would revert is an *)
(* error before anything is sent; the answer of a broadcast may also be lost.  *)
WorkerSend(t) ==
    LET r == worker.cur IN
    /\ worker.pc = "send"
    /\ WouldSucceed(db[r].sig)
    /\ Broadcast(t, r)
    /\ \/ /\ worker' = [worker EXCEPT !.pc = "wait", !.hash = t]
          /\ UNCHANGED db
       \/ /\ "lostAck" \in Faults
          /\ db' = markFailed(r)
          /\ worker' = NextOrder
    /\ UNCHANGED <<now, marketOk, requests, rows, nonceUsed, jobTx, crashes>>

WorkerSendError ==
    /\ worker.pc = "send"
    /\ ~WouldSucceed(db[worker.cur].sig) \/ "rpc" \in Faults
    /\ db' = markFailed(worker.cur)
    /\ worker' = NextOrder
    /\ UNCHANGED <<now, marketOk, requests, rows, chain, jobTx, crashes>>

(* waitForTransactionReceipt, and what the receipt says *)
ReceiptAnyStatus(t) == tx[t].status \in {"success", "reverted"}
ReceiptSucceeded(t) == tx[t].status = "success"
ReceiptNotSeen(t)   == tx[t].status \in {"mempool", "reverted"}
ReceiptFailed(t)    == tx[t].status = "reverted"

AfterFillNoJob(r) == NextOrder
AfterFill(r) == IF HasJob(db[r].sig) THEN [worker EXCEPT !.pc = "deliver"] ELSE NextOrder

WorkerReceipt ==
    LET r == worker.cur  t == worker.hash IN
    /\ worker.pc = "wait"
    /\ \/ /\ ReceiptSucceeded(t)
          /\ db' = markFilled(r, t)
          /\ worker' = AfterFill(r)
       \/ /\ ReceiptFailed(t)
          /\ db' = markFailed(r)
          /\ worker' = NextOrder
    /\ UNCHANGED <<now, marketOk, requests, rows, chain, jobTx, crashes>>

WorkerReceiptTimeout ==
    /\ "timeout" \in Faults
    /\ worker.pc = "wait" /\ tx[worker.hash].status = "mempool"
    /\ db' = markFailed(worker.cur)
    /\ worker' = NextOrder
    /\ UNCHANGED <<now, marketOk, requests, rows, chain, jobTx, crashes>>

(* submitDeliverable runs inside the same try as the fill *)
WorkerDeliver ==
    LET r == worker.cur IN
    /\ worker.pc = "deliver"
    /\ \/ /\ jobTx' = [jobTx EXCEPT ![r] = worker.hash]
          /\ UNCHANGED db
       \/ /\ "submit" \in Faults
          /\ db' = markFailed(r)
          /\ UNCHANGED jobTx
    /\ worker' = NextOrder
    /\ UNCHANGED <<now, marketOk, requests, rows, chain, crashes>>

----------------------------------------------------------------------------
(* The chain, time, and the process *)

Mine(t) ==
    LET s == db[tx[t].row].sig IN
    /\ tx[t].status = "mempool"
    /\ tx' = [tx EXCEPT ![t].status = IF WouldSucceed(s) THEN "success" ELSE "reverted"]
    /\ nonceUsed' = nonceUsed \cup (IF WouldSucceed(s) THEN {NonceOf(s)} ELSE {})
    /\ UNCHANGED <<now, marketOk, requests, db, rows, jobTx, worker, crashes>>

MarketMove == marketOk' = ~marketOk
              /\ UNCHANGED <<now, requests, db, rows, chain, jobTx, worker, crashes>>

Tick == now < MaxTime /\ now' = now + 1
        /\ UNCHANGED <<marketOk, requests, db, rows, chain, jobTx, worker, crashes>>

Crash ==
    /\ "crash" \in Faults /\ crashes < MaxCrashes
    /\ crashes' = crashes + 1
    /\ requests' = {} /\ worker' = IdleWorker
    /\ UNCHANGED <<now, marketOk, db, rows, chain, jobTx>>

WorkerStep ==
    \/ WorkerTick \/ WorkerSendError \/ WorkerReceipt \/ WorkerReceiptTimeout \/ WorkerDeliver
    \/ \E r \in Rows : WorkerCheck(r)
    \/ \E t \in TxIds : WorkerSend(t)

Next ==
    \/ \E s \in Sigs : PostValidate(s) \/ PostInsert(s)
    \/ WorkerStep
    \/ \E t \in TxIds : Mine(t)
    \/ MarketMove \/ Tick \/ Crash

Spec == Init /\ [][Next]_vars

(* The loop reschedules itself whatever happens (tick's finally), time passes  *)
(* and the chain includes what is broadcast.                                   *)
Fairness == WF_vars(WorkerStep) /\ WF_vars(Tick) /\ \A t \in TxIds : WF_vars(Mine(t))
FairSpec == Spec /\ Fairness

----------------------------------------------------------------------------
(* Properties *)

Filled(r) == \E t \in TxIds : tx[t].row = r /\ tx[t].status = "success"

(* A row the API reports as FILLED names a transaction of that very order that *)
(* succeeded on chain, whatever crashed or timed out before.                   *)
FilledIsBacked ==
    \A r \in Rows : db[r].status = "FILLED" =>
        db[r].fillTx # 0 /\ tx[db[r].fillTx] = [row |-> r, status |-> "success"]

(* A deliverable proves a fill of the order the job is about.                  *)
DeliverableIsBacked ==
    \A r \in Rows : jobTx[r] # 0 =>
        tx[jobTx[r]] = [row |-> r, status |-> "success"] /\ HasJob(db[r].sig)

(* While the environment is well behaved, a final status tells the truth: a    *)
(* FAILED or EXPIRED order was not filled and can no longer be.                *)
FinalIsTruthful ==
    \A r \in Rows : db[r].status \in {"FAILED", "EXPIRED"} =>
        \A t \in TxIds : tx[t].row = r => tx[t].status = "reverted"

(* What clients poll for (FILLED / FAILED / EXPIRED) is final, over any       *)
(* crashes and retries, with one exception: a deliverable that cannot be       *)
(* submitted turns its FILLED order into a FAILED one (worker.ts 178-188).     *)
FinalUnlessDeliverableFails ==
    [][\A r \in Rows : db[r].status \in Final =>
          db'[r].status = db[r].status \/ (worker.pc = "deliver" /\ worker.cur = r)]_vars

(* Every order accepted is eventually reported FILLED, FAILED or EXPIRED.      *)
EveryOrderSettles ==
    \A r \in Rows : db[r].status = "PENDING" ~> db[r].status \in Final

(* A fill of an order that is linked to a job is followed by its deliverable.  *)
DeliverableFollowsFill ==
    \A r \in Rows : db[r].status = "FILLED" /\ HasJob(db[r].sig) ~> jobTx[r] # 0

(* What the API and the chain tell of a row is the life of an order as users    *)
(* are promised it: while the environment is well behaved the keeper implements *)
(* OrderLifecycle.                                                             *)
Promised(r) ==
    LET status == db[r].status IN
    CASE status = "none"                  -> "none"
      [] status = "FILLED"                -> "filled"
      [] status = "PENDING" /\ ~Filled(r) -> "pending"
      [] status \in {"FAILED", "EXPIRED"} /\ ~Filled(r)          -> "givenUp"
      [] status \in {"PENDING", "FAILED", "EXPIRED"} /\ Filled(r) -> "filledUnreported"
Lifecycle == INSTANCE OrderLifecycle WITH
    Orders <- Rows,
    state  <- [r \in Rows |-> Promised(r)]
RefinesLifecycle == Lifecycle!Spec
=============================================================================
