--------------------------- MODULE SessionTrading ---------------------------
(* One-tap trading with session keys, on top of ArcIntelExecutorV3: the sign     *)
(* server issues keys and stores orders (arc-intel/bot/sign_server.py and        *)
(* store.py); session keepers, one in the bot's loop and one thread started by    *)
(* each order, sign and submit them (arc-intel/execution/session_keeper.py).      *)
EXTENDS ArcIntelExecutorV3

CONSTANTS
    Rows,       \* ids of the preorders table, in the order they are created
    OrderOf,    \* [Rows -> SessionOrders]: the intent and nonce stored with a row
    Keepers, NoKeeper, NoRow, NoKey,
    Looping,    \* the keepers the bot's loop runs in every cycle
    Limit,      \* rows a keeper reads in one run
    MaxFaults   \* bound on failed calls, lost answers, crashes and price moves

ASSUME RowsHaveOrders == Rows \subseteq Nat /\ IsFiniteSet(Rows) /\ OrderOf \in [Rows -> SessionOrders] /\ NoRow \notin Rows
ASSUME FreshNonces == \A r, q \in Rows : OrderOf[r].orderNonce = OrderOf[q].orderNonce => r = q
ASSUME KeeperNames == NoKeeper \notin Keepers /\ NoKey \notin Keys /\ Looping \subseteq Keepers
ASSUME Bounds == Limit \in Nat \ {0} /\ MaxFaults \in Nat

VARIABLES
    issued,     \* the sessions table: who was given a key, for what, when, and if it is active
    rows,       \* the preorders table
    frozen,     \* users whose orders the keeper skips: frozen, or custody paused for all
    keeper,     \* each keeper's run
    sent,       \* transactions broadcast and not yet dealt with by their sender
    quiet,      \* history: rows cancelled unfilled while no keeper had them
    faults
offchain == <<issued, rows, frozen, keeper, sent, quiet, faults>>
tvars == <<v3vars, offchain>>

IssuedKey == [user : Users, grant : Grants \cup {NoGrant}, created : 0..MaxTime,
              status : {"none", "active", "revoked"}]
Row    == [status : {"none", "armed", "executed", "cancelled"}, payload : BOOLEAN]
Run    == [batch : SUBSET Rows, row : Rows \cup {NoRow}, key : Keys \cup {NoKey}, waiting : BOOLEAN]
Tx     == [by : Keepers \cup {NoKeeper}, row : Rows, key : Keys, status : {"pending", "ok", "failed"}]
Resting == [batch |-> {}, row |-> NoRow, key |-> NoKey, waiting |-> FALSE]

TradingTypeOK ==
    /\ TypeOK
    /\ issued \in [Keys -> IssuedKey] /\ rows \in [Rows -> Row]
    /\ frozen \subseteq Users /\ keeper \in [Keepers -> Run]
    /\ sent \subseteq Tx /\ quiet \subseteq Rows /\ faults \in 0..MaxFaults

TradingInit ==
    /\ Init
    /\ issued \in [Keys -> {i \in IssuedKey : i.grant = NoGrant /\ i.created = 0 /\ i.status = "none"}]
    /\ rows = [r \in Rows |-> [status |-> "none", payload |-> FALSE]]
    /\ frozen = {} /\ sent = {} /\ quiet = {} /\ faults = 0
    /\ keeper = [a \in Keepers |-> Resting]

Fault == faults < MaxFaults /\ faults' = faults + 1

----------------------------------------------------------------------------
(* Quotes *)

(* What the server puts into a session the user gave no floor for: the price     *)
(* floor of the whole budget, at a price of Price input units an output unit.    *)
DefaultFloor(maxTotal, price, slippage) == (maxTotal * (100 - slippage)) \div (price * 100)
buy_quote(amountIn, price, slippage)    == (amountIn * (100 - slippage)) \div (price * 100)

----------------------------------------------------------------------------
(* The sign server *)

(* /session/authorize stores a new key as active and returns the transactions    *)
(* the wallet has to send; the wallet may never send them.                       *)
save_session(k, g) ==
    /\ issued[k].status = "none" /\ g.expiry > now
    /\ issued' = [issued EXCEPT ![k].grant = g, ![k].created = now, ![k].status = "active"]
    /\ UNCHANGED <<v3vars, rows, frozen, keeper, sent, quiet, faults>>

Authorize(k) ==
    /\ issued[k].status # "none"
    /\ authorizeSession(issued[k].user, k, issued[k].grant)
    /\ UNCHANGED offchain

revoke_session(k) ==
    /\ issued[k].status # "none"
    /\ issued' = [issued EXCEPT ![k].status = "revoked"]
    /\ UNCHANGED <<v3vars, rows, frozen, keeper, sent, quiet, faults>>

Active(o) ==
    {k \in Keys : /\ issued[k].status = "active" /\ issued[k].user = o.user
                  /\ issued[k].grant.pool = o.pool
                  /\ issued[k].grant.tokenIn = TokenIn(o.pool, o.zeroForOne)}

(* The youngest active session of the user for the pool and token, whether or    *)
(* not its key was authorized on chain and whatever is left of its budget.       *)
get_session(o) == {k \in Active(o) : \A j \in Active(o) : issued[j].created <= issued[k].created}

(* /buy_order and /sell_order: the row and its intent are two commits.           *)
create_preorder(r) ==
    /\ rows[r].status = "none"
    /\ \A q \in Rows : q < r => rows[q].status # "none"
    /\ get_session(OrderOf[r]) # {}
    /\ now <= OrderOf[r].deadline
    /\ rows' = [rows EXCEPT ![r].status = "armed"]
    /\ UNCHANGED <<v3vars, issued, frozen, keeper, sent, quiet, faults>>

save_sig_payload(r) ==
    /\ rows[r].status # "none" /\ ~rows[r].payload
    /\ rows' = [rows EXCEPT ![r].payload = TRUE]
    /\ UNCHANGED <<v3vars, issued, frozen, keeper, sent, quiet, faults>>

Filled(r) == ledger.fills[OrderOf[r].user][OrderOf[r].orderNonce] > 0
HeldBy(a) == keeper[a].batch \cup {keeper[a].row}
Held(r) == (\E a \in Keepers : r \in HeldBy(a)) \/ (\E t \in sent : t.row = r)

cancel_preorder(r) ==
    /\ rows[r].status = "armed"
    /\ rows' = [rows EXCEPT ![r].status = "cancelled"]
    /\ quiet' = IF Held(r) \/ Filled(r) THEN quiet ELSE quiet \cup {r}
    /\ UNCHANGED <<v3vars, issued, frozen, keeper, sent, faults>>

set_frozen(u, yes) ==
    /\ frozen' = IF yes THEN frozen \cup {u} ELSE frozen \ {u}
    /\ UNCHANGED <<v3vars, issued, rows, keeper, sent, quiet, faults>>

----------------------------------------------------------------------------
(* A session keeper: read the armed orders, then for each of them look up the    *)
(* session, sign, send, wait for the receipt and record.                         *)

ArmedPast == {r \in Rows : rows[r].status = "armed" /\ OrderOf[r].deadline < now}
armed_ordersUnfiltered == {r \in Rows : rows[r].status # "none" /\ OrderOf[r].deadline > now}
armed_orders == {r \in Rows : rows[r].status = "armed" /\ OrderOf[r].deadline > now}
FirstOf(S) == {r \in S : Cardinality({q \in S : q < r}) < Limit}

(* An order read before its intent was saved is passed over in this run.         *)
KeeperFetch(a) ==
    /\ keeper[a] = Resting
    /\ keeper' = [keeper EXCEPT ![a].batch = {r \in FirstOf(armed_orders) : rows[r].payload}]
    /\ UNCHANGED <<v3vars, issued, rows, frozen, sent, quiet, faults>>

KeeperPick(a) ==
    /\ keeper[a].row = NoRow
    /\ \E r \in keeper[a].batch :
        LET o == OrderOf[r]  rest == [keeper[a] EXCEPT !.batch = @ \ {r}] IN
        /\ \A q \in keeper[a].batch : r <= q
        /\ \/ /\ o.user \in frozen \/ get_session(o) = {}
              /\ keeper' = [keeper EXCEPT ![a] = rest]
           \/ /\ o.user \notin frozen
              /\ \E k \in get_session(o) :
                    keeper' = [keeper EXCEPT ![a] = [rest EXCEPT !.row = r, !.key = k]]
    /\ UNCHANGED <<v3vars, issued, rows, frozen, sent, quiet, faults>>

Fillable(k, o) ==
    /\ ~paused /\ now <= o.deadline
    /\ InScope(sessions[o.user][k], o)
    /\ _checkPool(o.pool)
    /\ o.orderNonce \notin orderNonceUsed[o.user]
    /\ o.amountIn <= bal[TokenIn(o.pool, o.zeroForOne)][o.user]

Done(a) == [keeper EXCEPT ![a] = [batch |-> @.batch, row |-> NoRow, key |-> NoKey, waiting |-> FALSE]]

(* cast estimates the call, which fails like the call would, and broadcasts it.  *)
KeeperSend(a) ==
    LET r == keeper[a].row  k == keeper[a].key IN
    /\ r # NoRow /\ ~keeper[a].waiting
    /\ \/ /\ Fillable(k, OrderOf[r])
          /\ sent' = sent \cup {[by |-> a, row |-> r, key |-> k, status |-> "pending"]}
          /\ keeper' = [keeper EXCEPT ![a].waiting = TRUE]
          /\ UNCHANGED faults
       \/ /\ (~Fillable(k, OrderOf[r]) /\ UNCHANGED faults) \/ Fault
          /\ keeper' = Done(a)
          /\ UNCHANGED sent
    /\ UNCHANGED <<v3vars, issued, rows, frozen, quiet>>

RecordedIfArmed(r) == IF rows[r].status = "armed" THEN [rows EXCEPT ![r].status = "executed"] ELSE rows
Recorded(r) == [rows EXCEPT ![r].status = "executed"]

AnyReceipt(t) == t.status # "pending"
Receipt(t)    == t.status = "ok"

(* cast exits with an error on a receipt of a reverted transaction.              *)
KeeperReceipt(a) ==
    /\ \E t \in sent :
        /\ t.by = a /\ t.status # "pending"
        /\ rows' = IF Receipt(t) THEN Recorded(t.row) ELSE rows
        /\ sent' = sent \ {t}
    /\ keeper' = Done(a)
    /\ UNCHANGED <<v3vars, issued, frozen, quiet, faults>>

Orphaned(a) == {IF t.by = a THEN [t EXCEPT !.by = NoKeeper] ELSE t : t \in sent}

(* cast gives up waiting: an attempt is counted, the row stays armed, and the     *)
(* transaction may still be mined.                                               *)
KeeperLosesAnswer(a) ==
    /\ keeper[a].waiting /\ Fault
    /\ sent' = Orphaned(a)
    /\ keeper' = Done(a)
    /\ UNCHANGED <<v3vars, issued, rows, frozen, quiet>>

Crash(a) ==
    /\ keeper[a] # Resting /\ Fault
    /\ sent' = Orphaned(a)
    /\ keeper' = [keeper EXCEPT ![a] = Resting]
    /\ UNCHANGED <<v3vars, issued, rows, frozen, quiet>>

----------------------------------------------------------------------------
(* The chain *)

Settle(t, status) ==
    sent' = (sent \ {t}) \cup (IF t.by = NoKeeper THEN {} ELSE {[t EXCEPT !.status = status]})

MineFill(t) ==
    /\ t.status = "pending" /\ Settle(t, "ok")
    /\ Fillable(t.key, OrderOf[t.row]) /\ executeWithSession(t.key, OrderOf[t.row])
    /\ UNCHANGED <<issued, rows, frozen, keeper, quiet, faults>>

(* It reverts when the state changed since the estimate, or the price moved.      *)
MineRevert(t) ==
    /\ t.status = "pending" /\ Settle(t, "failed")
    /\ (~Fillable(t.key, OrderOf[t.row]) /\ UNCHANGED faults) \/ Fault
    /\ UNCHANGED <<v3vars, issued, rows, frozen, keeper, quiet>>

OnChain ==
    \/ \E k \in Keys : issued[k].status # "none" /\ revokeSession(issued[k].user, k)
    \/ \E u \in Users, n \in Nonces : cancelOrder(u, n)
    \/ Tick

Server ==
    \/ \E k \in Keys, g \in Grants : save_session(k, g)
    \/ \E k \in Keys : Authorize(k) \/ revoke_session(k)
    \/ \E r \in Rows : create_preorder(r) \/ save_sig_payload(r) \/ cancel_preorder(r)
    \/ \E u \in Users, b \in BOOLEAN : set_frozen(u, b)

KeeperRun(a)  == KeeperPick(a) \/ KeeperSend(a) \/ KeeperReceipt(a)
Mine(t) == MineFill(t) \/ MineRevert(t)
Mined(a) == \E t \in sent : t.by = a /\ t.status = "pending" /\ (Settle(t, "ok") \/ Settle(t, "failed"))

TradingNext ==
    \/ Server
    \/ OnChain /\ UNCHANGED offchain
    \/ \E a \in Keepers : KeeperFetch(a) \/ KeeperRun(a) \/ KeeperLosesAnswer(a) \/ Crash(a)
    \/ \E t \in sent : Mine(t)

(* The bot's loop starts a run every cycle; a run that was started goes on unless *)
(* its process stops, and a transaction somebody waits for is mined.  Nothing    *)
(* makes users, the wallet or the clock move, or a thread start.                 *)
Fairness ==
    /\ \A a \in Looping : WF_tvars(KeeperFetch(a))
    /\ \A a \in Keepers : WF_tvars(KeeperRun(a)) /\ WF_sent(Mined(a))

TradingSpec == TradingInit /\ [][TradingNext]_tvars /\ Fairness

----------------------------------------------------------------------------
(* Properties *)

(* A row reported executed was filled on chain, although several keepers submit  *)
(* the same row, answers get lost and the user cancels meanwhile.                *)
ExecutedIsFilled == \A r \in Rows : rows[r].status = "executed" => Filled(r)

(* What left a wallet is paid for rows that were filled, each once: keepers take *)
(* no claim on a row, and two of them may submit it.                             *)
PaidFor(u, t) == {r \in Rows : Filled(r) /\ OrderOf[r].user = u
                                /\ TokenIn(OrderOf[r].pool, OrderOf[r].zeroForOne) = t}
PaysOncePerOrder ==
    \A u \in Users, t \in Tokens :
        InitBal[t][u] - bal[t][u] <= TotalOnce({<<r, OrderOf[r].amountIn>> : r \in PaidFor(u, t)})

(* Orders nobody placed, and orders cancelled while no keeper had them, are never *)
(* filled.                                                                       *)
OnlyPlacedOrdersFill ==
    \A r \in Rows : Filled(r) => rows[r].status # "none" /\ rows[r].payload /\ r \notin quiet

(* Until something fails, an order that was filled gets reported executed, also   *)
(* when it was cancelled after a keeper had taken it.                             *)
FilledIsReported ==
    \A r \in Rows : (Filled(r) /\ faults = 0) ~> (rows[r].status = "executed" \/ faults > 0)

(* An order within the caps of the sessions the server would choose, all of them *)
(* authorized and unspent, quoted at the price the session was quoted at.         *)
WithinCaps(s, o) ==
    /\ s.grant # NoGrant /\ ~s.revoked /\ now <= s.grant.expiry
    /\ o.pool = s.grant.pool /\ TokenIn(o.pool, o.zeroForOne) = s.grant.tokenIn
    /\ o.amountIn <= s.grant.maxPerOrder /\ s.spent + o.amountIn <= s.grant.maxTotal

Usable(r) ==
    LET o == OrderOf[r] IN
    /\ rows[r].status = "armed" /\ rows[r].payload /\ now < o.deadline
    /\ ~paused /\ o.user \notin frozen /\ _checkPool(o.pool)
    /\ o.orderNonce \notin orderNonceUsed[o.user]
    /\ o.amountIn <= bal[TokenIn(o.pool, o.zeroForOne)][o.user]
    /\ get_session(o) # {} /\ \A k \in get_session(o) : WithinCaps(sessions[o.user][k], o)

(* "One tap, the keeper signs and sends": such an order does not stay armed while *)
(* nothing stands in its way.                                                    *)
OneTapFills == \A r \in Rows : Usable(r) ~> ~Usable(r)
=============================================================================
