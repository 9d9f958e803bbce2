------------------------------- MODULE Custody -------------------------------
(* The custodial wallet of one chat: the /custody routes of the threaded sign       *)
(* server, the sell button and the security commands of the bot, the automatic      *)
(* sale on a risk alert and the copy engine's purchases, all of which spend from    *)
(* the same key.  A handler reads and checks, broadcasts, then records, each with   *)
(* connections of its own; handlers of several threads interleave and the process   *)
(* may stop between two steps.  A refused request changes nothing and is no step.   *)
EXTENDS Integers, FiniteSets, Totals

CONSTANTS
    Requests,      \* handlers that may run at the same time
    Addresses,     \* withdrawal addresses the user may register
    NoAddress,
    Amounts,
    Cap,           \* the daily limits: [wd |-> withdrawals, td |-> purchases]
    MaxTrade,      \* limit of one purchase
    MaxBalance,    \* limit of the wallet's USDC after a purchase
    Delay,         \* from an address's registration to its first use
    DayLength,
    Funds,         \* USDC the user sends to a new wallet
    MaxTime, MaxCalls, MaxWallets, MaxSecrets, MaxFaults     \* bounds

Days    == 0..(MaxTime \div DayLength)
Kinds   == {"wd", "td"}
Assets  == {"usdc", "tok"}
Wallets == 1..MaxWallets
Spends  == {"withdraw", "buy", "sell", "custsell", "autoprotect", "copybuy", "copysell"}
Swaps   == Spends \ {"withdraw"}
Buys    == {"buy", "copybuy"}

VARIABLES
    now,
    paused,        \* the administrator's switch
    frozen,        \* "it was not me"
    wallet,        \* the custody row: the key the bot holds, or 0
    totp,          \* the stored secret, and whether a code of it was verified
    usable,        \* custody_addrs: when an address may be used, or -1
    total,         \* state keys wd:<chat>:<day> and td:<chat>:<day>
    holdings,      \* is the token listed as held
    position,      \* the tracked quantity of the token
    protect,       \* automatic protection is on
    req,           \* the handlers
    chain,         \* per wallet: USDC, token, next nonce, assets approved for Permit2
    made, secrets, \* keys and secrets generated so far
    calls, faults,
    told, known,   \* wallets and secrets the user was given
    doubled,       \* two creations ran at the same time
    out, lost, blind,   \* spent per day; what no total counts; the most a check missed
    grace          \* handlers that were past their checks at the last freeze or pause
store == <<paused, frozen, wallet, totp, usable, total, holdings, position, protect>>
ghost == <<told, known, doubled, out, lost, blind, grace>>
vars  == <<now, store, req, chain, made, secrets, calls, faults, ghost>>

Steps == {"idle", "create", "secret", "reset", "verified", "checked", "signed", "sent", "adding", "filling"}
Idle == [op |-> "none", step |-> "idle", asset |-> "usdc", amt |-> 0, to |-> NoAddress,
         wallet |-> 0, read |-> 0, nonce |-> 0, day |-> 0]
NewWallet == [usdc |-> 0, tok |-> 0, nonce |-> 0, approved |-> {}]

CustodyTypeOK ==
    /\ now \in 0..MaxTime /\ paused \in BOOLEAN /\ frozen \in BOOLEAN /\ protect \in BOOLEAN
    /\ wallet \in 0..MaxWallets /\ made \in 0..MaxWallets /\ secrets \in 0..MaxSecrets
    /\ totp \in [secret : 0..MaxSecrets, ok : BOOLEAN]
    /\ usable \in [Addresses -> Int]
    /\ total \in [Kinds -> [Days -> Nat]]
    /\ holdings \in BOOLEAN /\ position \in Nat
    /\ req \in [Requests -> [op : Spends \cup {"none", "create", "totp_get", "totp_rotate", "totp_verify"},
                             step : Steps, asset : Assets, amt : Nat, to : Addresses \cup {NoAddress},
                             wallet : 0..MaxWallets, read : Nat, nonce : Nat, day : Days]]
    /\ chain \in [Wallets -> [usdc : Nat, tok : Nat, nonce : Nat, approved : SUBSET Assets]]
    /\ calls \in 0..MaxCalls /\ faults \in 0..MaxFaults
    /\ told \subseteq Wallets /\ known \subseteq 1..MaxSecrets /\ doubled \in BOOLEAN
    /\ out \in [Kinds -> [Days -> Nat]] /\ lost \in [Kinds -> [Days -> Nat]]
    /\ blind \in [Kinds -> [Days -> Nat]] /\ grace \subseteq Requests

Init ==
    /\ now = 0 /\ paused = FALSE /\ frozen = FALSE /\ protect = TRUE
    /\ wallet = 0 /\ made = 0 /\ secrets = 0
    /\ totp = [secret |-> 0, ok |-> FALSE]
    /\ usable = [a \in Addresses |-> -1]
    /\ total = [k \in Kinds |-> [d \in Days |-> 0]]
    /\ holdings = FALSE /\ position = 0
    /\ req = [r \in Requests |-> Idle]
    /\ chain = [w \in Wallets |-> NewWallet]
    /\ calls = 0 /\ faults = 0
    /\ told = {} /\ known = {} /\ doubled = FALSE
    /\ out = total /\ lost = total /\ blind = total /\ grace = {}

----------------------------------------------------------------------------
Today == now \div DayLength
Guards == ~paused /\ ~frozen

(* The user types a code of a secret he was given.                                  *)
TotpOk == totp.secret # 0 /\ totp.secret \in known
custody_addr_usable(a) == usable[a] >= 0 /\ now >= usable[a]

Step(r, s) == req' = [req EXCEPT ![r].step = s]
Done(r) == req' = [req EXCEPT ![r] = Idle] /\ grace' = grace \ {r}

Start(r, fields) ==
    /\ req[r] = Idle /\ calls < MaxCalls
    /\ calls' = calls + 1
    /\ req' = [req EXCEPT ![r] = fields]

(* /custody/create: the check and the row are two connections, the key is made      *)
(* between them.                                                                    *)
Creating == \E q \in Requests : req[q].op = "create"
CreateAgain == Guards
CreateOnce == Guards /\ wallet = 0
CreateCheck(r) ==
    /\ CreateOnce
    /\ Start(r, [Idle EXCEPT !.op = "create", !.step = "create"])
    /\ doubled' = (doubled \/ Creating)
    /\ UNCHANGED <<now, store, chain, made, secrets, faults, told, known, out, lost, blind, grace>>

save_custody(r) ==
    /\ req[r].op = "create" /\ made < MaxWallets
    /\ made' = made + 1 /\ wallet' = made + 1 /\ told' = told \cup {made + 1}
    /\ Done(r)
    /\ UNCHANGED <<now, paused, frozen, totp, usable, total, holdings, position, protect, chain,
                   secrets, calls, faults, known, doubled, out, lost, blind>>

Deposit(w) ==
    /\ w \in told /\ chain[w].usdc = 0 /\ chain[w].tok = 0
    /\ chain' = [chain EXCEPT ![w].usdc = Funds]
    /\ UNCHANGED <<now, store, req, made, secrets, calls, faults, ghost>>

----------------------------------------------------------------------------
(* The second factor.  GET /custody/totp replaces a secret that was never           *)
(* verified, a rotation one that was; secret and flag are two commits, and the      *)
(* user learns the secret from the answer.                                          *)

TotpCheck(r, op) ==
    /\ \/ op = "totp_get" /\ ~totp.ok
       \/ op = "totp_rotate" /\ totp.ok /\ TotpOk
    /\ Start(r, [Idle EXCEPT !.op = op, !.step = "secret"])
    /\ UNCHANGED <<now, store, chain, made, secrets, faults, ghost>>

save_totp(r) ==
    /\ req[r].step = "secret" /\ secrets < MaxSecrets
    /\ secrets' = secrets + 1
    /\ totp' = [totp EXCEPT !.secret = secrets + 1]
    /\ req' = [req EXCEPT ![r].step = "reset", ![r].read = secrets + 1]
    /\ UNCHANGED <<now, paused, frozen, wallet, usable, total, holdings, position, protect, chain,
                   made, calls, faults, ghost>>

set_totp_pending(r) ==
    /\ req[r].step = "reset"
    /\ totp' = [totp EXCEPT !.ok = FALSE]
    /\ known' = known \cup {req[r].read}
    /\ Done(r)
    /\ UNCHANGED <<now, paused, frozen, wallet, usable, total, holdings, position, protect, chain,
                   made, secrets, calls, faults, told, doubled, out, lost, blind>>

TotpVerify(r) ==
    /\ TotpOk
    /\ Start(r, [Idle EXCEPT !.op = "totp_verify", !.step = "verified"])
    /\ UNCHANGED <<now, store, chain, made, secrets, faults, ghost>>

set_totp_confirmed(r) ==
    /\ req[r].step = "verified"
    /\ totp' = [totp EXCEPT !.ok = TRUE]
    /\ Done(r)
    /\ UNCHANGED <<now, paused, frozen, wallet, usable, total, holdings, position, protect, chain,
                   made, secrets, calls, faults, told, known, doubled, out, lost, blind>>

(* /security in the chat stores a first secret and never confirms it.               *)
BotEnroll ==
    /\ totp.secret = 0 /\ secrets < MaxSecrets
    /\ secrets' = secrets + 1
    /\ totp' = [totp EXCEPT !.secret = secrets + 1]
    /\ known' = known \cup {secrets + 1}
    /\ UNCHANGED <<now, paused, frozen, wallet, usable, total, holdings, position, protect, req,
                   chain, made, calls, faults, told, doubled, out, lost, blind, grace>>

(* /custody/address asks for a confirmed secret and an account that is not          *)
(* stopped, /addaddr for a code only; a known address keeps its first date.         *)
add_custody_addr(a) ==
    /\ TotpOk
    /\ usable[a] = -1
    /\ usable' = [usable EXCEPT ![a] = now + Delay]
    /\ UNCHANGED <<now, paused, frozen, wallet, totp, total, holdings, position, protect, req, chain,
                   made, secrets, calls, faults, ghost>>

----------------------------------------------------------------------------
(* Freezing and pausing.  Unfreezing takes a code, confirmed secret or not.         *)
Stop(f, p) ==
    /\ frozen' = f /\ paused' = p
    /\ <<f, p>> # <<frozen, paused>>
    /\ frozen /\ ~f => TotpOk
    /\ grace' = IF (f /\ ~frozen) \/ (p /\ ~paused)
                THEN {r \in Requests : req[r].op \in Spends} ELSE grace
    /\ UNCHANGED <<now, wallet, totp, usable, total, holdings, position, protect, req, chain, made,
                   secrets, calls, faults, told, known, doubled, out, lost, blind>>

SetProtect(on) ==
    /\ protect' = on /\ protect # on
    /\ UNCHANGED <<now, paused, frozen, wallet, totp, usable, total, holdings, position, req, chain,
                   made, secrets, calls, faults, ghost>>

----------------------------------------------------------------------------
(* The checks of the seven ways to spend.                                           *)

Kind(op) == IF op = "withdraw" THEN "wd" ELSE "td"
Counted(q) == q.op = "buy" \/ (q.op = "withdraw" /\ q.asset = "usdc")
Uncounted(k, d) == {q \in Requests : Counted(req[q]) /\ Kind(req[q].op) = k /\ req[q].day = d
                                   /\ req[q].step # "filling"}
SumAmounts(S) == Total([q \in Requests |-> IF q \in S THEN req[q].amt ELSE 0])
Missed(k, d) == SumAmounts(Uncounted(k, d)) + lost[k][d]

DailyLimitAlone(k, n) == n <= Cap[k]
DailyLimit(k, n) == total[k][Today] + n <= Cap[k]

MayWithdraw(asset, n, to) ==
    /\ totp.ok /\ TotpOk
    /\ to \in Addresses /\ custody_addr_usable(to)
    /\ asset = "usdc" => DailyLimit("wd", n)
MayBuy(asset, n) ==
    /\ asset = "usdc"
    /\ n <= MaxTrade /\ DailyLimit("td", n)
    /\ chain[wallet].usdc + n <= MaxBalance
MayCopyBuy(asset) == asset = "usdc"
MayCopySell(asset, n) == asset = "tok" /\ n = chain[wallet].tok
MaySell(asset, n) == asset = "tok" /\ n <= chain[wallet].tok
MayCustsell(asset, n) == asset = "tok" /\ n <= chain[wallet].tok
MayAutoProtect(asset, n) == asset = "tok" /\ protect /\ holdings /\ n = chain[wallet].tok

MaySpend(op, asset, n, to) ==
    /\ Guards /\ wallet # 0
    /\ op # "withdraw" => to = NoAddress
    /\ \/ op = "withdraw" /\ MayWithdraw(asset, n, to)
       \/ op = "buy" /\ MayBuy(asset, n)
       \/ op = "copybuy" /\ MayCopyBuy(asset)
       \/ op = "copysell" /\ MayCopySell(asset, n)
       \/ op = "sell" /\ MaySell(asset, n)
       \/ op = "custsell" /\ MayCustsell(asset, n)
       \/ op = "autoprotect" /\ MayAutoProtect(asset, n)

SpendCheck(r, op, asset, n, to) ==
    /\ n > 0 /\ MaySpend(op, asset, n, to)
    /\ Start(r, [Idle EXCEPT !.op = op, !.step = "checked", !.asset = asset, !.amt = n, !.to = to,
                             !.wallet = wallet, !.day = Today])
    /\ blind' = IF ~Counted([op |-> op, asset |-> asset]) THEN blind
                ELSE [blind EXCEPT ![Kind(op)][Today] =
                        IF @ < Missed(Kind(op), Today) THEN Missed(Kind(op), Today) ELSE @]
    /\ UNCHANGED <<now, store, chain, made, secrets, faults, told, known, doubled, out, lost, grace>>

(* _send: the nonce is the wallet's count of pending transactions; the node takes   *)
(* a transaction only if its nonce is still the next.  A swap of an asset Permit2   *)
(* may not take yet is preceded by its approval.                                    *)
ReadNonce(r) ==
    /\ req[r].step = "checked"
    /\ req' = [req EXCEPT ![r].step = "signed", ![r].nonce = chain[req[r].wallet].nonce]
    /\ UNCHANGED <<now, store, chain, made, secrets, calls, faults, ghost>>

Accepted(r) == req[r].step = "signed" /\ req[r].nonce = chain[req[r].wallet].nonce
Approving(r) == req[r].op \in Swaps /\ req[r].asset \notin chain[req[r].wallet].approved

ensure_permit2_approval(r) ==
    /\ Accepted(r) /\ Approving(r)
    /\ chain' = [chain EXCEPT ![req[r].wallet].nonce = @ + 1,
                              ![req[r].wallet].approved = @ \cup {req[r].asset}]
    /\ Step(r, "checked")
    /\ UNCHANGED <<now, store, made, secrets, calls, faults, ghost>>

(* Whether the transaction succeeds on chain is not waited for.                     *)
Moved(q, c) ==
    LET paid == [c EXCEPT ![q.asset] = @ - q.amt, !.nonce = @ + 1] IN
    IF q.op \notin Swaps THEN paid
    ELSE IF q.asset = "usdc" THEN [paid EXCEPT !.tok = @ + q.amt]
    ELSE [paid EXCEPT !.usdc = @ + q.amt]

Mined(q) ==
    \/ /\ chain[q.wallet][q.asset] >= q.amt
       /\ chain' = [chain EXCEPT ![q.wallet] = Moved(q, @)]
    \/ chain' = [chain EXCEPT ![q.wallet].nonce = @ + 1]

Spent(q) == out' = IF Counted(q) THEN [out EXCEPT ![Kind(q.op)][q.day] = @ + q.amt] ELSE out

Broadcast(r) ==
    /\ Accepted(r) /\ ~Approving(r)
    /\ Mined(req[r]) /\ Spent(req[r])
    /\ Step(r, "sent")
    /\ UNCHANGED <<now, store, made, secrets, calls, faults, told, known, doubled, lost, blind, grace>>

(* The node's answer is lost: a retry of the same bytes is refused as known, and    *)
(* the handler reports a failure.                                                   *)
LoseAnswer(r) ==
    /\ Accepted(r) /\ ~Approving(r) /\ faults < MaxFaults
    /\ Mined(req[r]) /\ Spent(req[r]) /\ faults' = faults + 1
    /\ lost' = IF Counted(req[r]) THEN [lost EXCEPT ![Kind(req[r].op)][req[r].day] = @ + req[r].amt]
               ELSE lost
    /\ Done(r)
    /\ UNCHANGED <<now, store, made, secrets, calls, told, known, doubled, blind>>

Rejected(r) ==
    /\ req[r].step = "signed" /\ ~Accepted(r)
    /\ Done(r)
    /\ UNCHANGED <<now, store, chain, made, secrets, calls, faults, told, known, doubled, out, lost, blind>>

----------------------------------------------------------------------------
(* Recording.  A purchase lists the token, then adds to the day's total, then       *)
(* records the fill; a withdrawal only adds to its total.  The total is read from   *)
(* one day's key and written under the day it is when it is written.                *)
add_holding(r) ==
    IF req[r].op \in Buys THEN holdings' = TRUE ELSE UNCHANGED holdings

ReadTotal(r) ==
    /\ req[r].step = "sent" /\ Counted(req[r])
    /\ add_holding(r)
    /\ req' = [req EXCEPT ![r].step = "adding", ![r].read = total[Kind(req[r].op)][Today]]
    /\ UNCHANGED <<now, paused, frozen, wallet, totp, usable, total, position, protect, chain, made,
                   secrets, calls, faults, ghost>>

(* What the new total does not count: another handler's addition it overwrites, or  *)
(* this amount when the day changed since the check.                                *)
Overwritten(q, k) ==
    LET due == total[k][Today] + (IF q.day = Today THEN q.amt ELSE 0) IN
    [d \in Days |-> (IF d = Today /\ due > q.read + q.amt THEN due - q.read - q.amt ELSE 0)
                    + (IF d = q.day /\ d # Today THEN q.amt ELSE 0)]
WriteTotal(r) ==
    LET q == req[r]
        k == Kind(q.op) IN
    /\ q.step = "adding"
    /\ total' = [total EXCEPT ![k][Today] = q.read + q.amt]
    /\ lost' = [lost EXCEPT ![k] = [d \in Days |-> @[d] + Overwritten(q, k)[d]]]
    /\ IF q.op = "buy"
       THEN /\ req' = [req EXCEPT ![r].step = "filling", ![r].read = 0]
            /\ UNCHANGED grace
       ELSE Done(r)
    /\ UNCHANGED <<now, paused, frozen, wallet, totp, usable, holdings, position, protect, chain, made,
                   secrets, calls, faults, told, known, doubled, out, blind>>

RecordCopy(r) ==
    /\ req[r].step = "sent" /\ req[r].op = "copybuy"
    /\ add_holding(r)
    /\ Step(r, "filling")
    /\ UNCHANGED <<now, paused, frozen, wallet, totp, usable, total, position, protect, chain, made,
                   secrets, calls, faults, ghost>>

(* A sale of more than the tracked quantity is cut to it, one without a position is *)
(* an error that is swallowed.  A copied purchase may switch protection on.         *)
LeftUncut(q) == position - q.amt
Left(q) == IF q.amt > position THEN 0 ELSE position - q.amt
record_fill(r) ==
    LET q == req[r] IN
    /\ q.step = "filling" \/ (q.step = "sent" /\ q.op \in {"sell", "custsell", "copysell"})
    /\ position' = IF q.op \in Buys THEN position + q.amt ELSE Left(q)
    /\ protect' \in (IF q.op = "copybuy" THEN {protect, TRUE} ELSE {protect})
    /\ Done(r)
    /\ UNCHANGED <<now, paused, frozen, wallet, totp, usable, total, holdings, chain, made, secrets,
                   calls, faults, told, known, doubled, out, lost, blind>>

(* The automatic sale and the withdrawal of a token record nothing.                 *)
RecordNothing(r) ==
    /\ req[r].step = "sent"
    /\ req[r].op = "autoprotect" \/ (req[r].op = "withdraw" /\ req[r].asset # "usdc")
    /\ Done(r)
    /\ UNCHANGED <<now, store, chain, made, secrets, calls, faults, told, known, doubled, out, lost, blind>>

(* The process stops: every handler is gone with what it knew.                      *)
Forgotten(k, d) == SumAmounts({q \in Uncounted(k, d) : req[q].step \in {"sent", "adding"}})
Crash ==
    /\ faults < MaxFaults /\ \E r \in Requests : req[r] # Idle
    /\ faults' = faults + 1
    /\ req' = [r \in Requests |-> Idle] /\ grace' = {}
    /\ lost' = [k \in Kinds |-> [d \in Days |-> lost[k][d] + Forgotten(k, d)]]
    /\ UNCHANGED <<now, store, chain, made, secrets, calls, told, known, doubled, out, blind>>

Tick ==
    /\ now < MaxTime /\ now' = now + 1
    /\ UNCHANGED <<store, req, chain, made, secrets, calls, faults, ghost>>

Enroll(r) ==
    \/ \E op \in {"totp_get", "totp_rotate"} : TotpCheck(r, op)
    \/ save_totp(r) \/ set_totp_pending(r) \/ TotpVerify(r) \/ set_totp_confirmed(r)
Spend(r) ==
    \/ \E op \in Spends, asset \in Assets, n \in Amounts, to \in Addresses \cup {NoAddress} :
          SpendCheck(r, op, asset, n, to)
    \/ ReadNonce(r) \/ ensure_permit2_approval(r) \/ Broadcast(r) \/ LoseAnswer(r) \/ Rejected(r)
Record(r) ==
    ReadTotal(r) \/ WriteTotal(r) \/ RecordCopy(r) \/ record_fill(r) \/ RecordNothing(r)

Next ==
    \/ \E r \in Requests : CreateCheck(r) \/ save_custody(r) \/ Enroll(r) \/ Spend(r) \/ Record(r)
    \/ \E w \in Wallets : Deposit(w)
    \/ BotEnroll
    \/ \E a \in Addresses : add_custody_addr(a)
    \/ \E f, p \in BOOLEAN : Stop(f, p)
    \/ \E on \in BOOLEAN : SetProtect(on)
    \/ Crash \/ Tick

Spec == Init /\ [][Next]_vars

----------------------------------------------------------------------------
(* Counted spending on its way that is not out yet.                                 *)
Pending(k, d) == SumAmounts({q \in Uncounted(k, d) : req[q].step \in {"checked", "signed"}})

(* The day's limit is a read, a broadcast and an addition in a thread per request   *)
(* (sign_server 557-573, 609-643): what leaves in a day exceeds it by no more than  *)
(* the amounts that one of the day's checks could not see, because their handlers   *)
(* had not added them yet, or never did.                                            *)
DailyCapsUpToUnseen ==
    \A k \in Kinds, d \in Days : out[k][d] + Pending(k, d) <= Cap[k] + blind[k][d]

(* After "it was not me" or the pause no spend reaches the chain, by any of its   *)
(* ways, but those that were past their checks at that moment.                      *)
FrozenStopsAll ==
    [][\A r \in Requests :
          (req[r].step = "signed" /\ req[r].op \in Spends /\ chain'[req[r].wallet] # chain[req[r].wallet]
              /\ req'[r] # req[r]) => ((~paused /\ ~frozen) \/ r \in grace)]_vars

(* Creation checks for a wallet and stores the new one in two connections: unless   *)
(* two creations overlapped, the key stored is the key of the address the user was  *)
(* given, the one he sent money to.                                                 *)
KeysKept == told \subseteq {wallet} \/ doubled

(* A token the wallet holds is on the list the automatic protection sells from, or  *)
(* its purchase is about to list it, unless a failure came between the two.         *)
BoughtIsWatched ==
    (\E w \in Wallets : chain[w].tok > 0) =>
        holdings \/ faults > 0 \/ \E r \in Requests : req[r].step = "sent" /\ req[r].op \in Buys
=============================================================================
