----------------------------- MODULE EventIndexer -----------------------------
(* The event indexer (indexer/service.py): a tick reads the logs of the next blocks *)
(* from the node, turns each into rows (processor.py) and only then stores the      *)
(* cursor; an error keeps the cursor and reads the same blocks again.  Rows are     *)
(* inserted one commit at a time and ignored when they exist, except the count of a *)
(* wallet's trades, which every reading adds to.                                    *)
EXTENDS Integers, FiniteSets, FiniteSetsExt

CONSTANTS
    Logs,          \* [n, block, kind, pool, wallet]: n is the log's place, its index the key
    Starts,        \* first blocks an operator may ask for
    MaxRange, MaxErrors, MaxIndexFaults

VARIABLES
    tip,                                         \* the node's newest block
    swap_rows, pool_rows, token_rows, event_rows, trade_count, meta_cursor,   \* the database
    ix, at, todo, to, half, errors,              \* the process
    ixfaults, asked, skipped                     \* history

ixVars == <<tip, swap_rows, pool_rows, token_rows, event_rows, trade_count, meta_cursor,
            ix, at, todo, to, half, errors, ixfaults, asked, skipped>>

Kinds   == {"v3_swap", "launchpad", "v4_swap", "pool_init"}
Wallets == {l.wallet : l \in Logs}
Pools   == {l.pool : l \in Logs}
LastBlk == Max({l.block : l \in Logs})
NoWallet == 0      \* data or topics too short to decode
NoCursor == -1
NoToken  == 0

IndexTypeOK ==
    /\ tip \in 0..LastBlk /\ at \in NoCursor..LastBlk /\ to \in 0..LastBlk
    /\ meta_cursor \in NoCursor..LastBlk
    /\ \A r \in swap_rows : r.log \in Logs /\ r.token \in Pools \cup {NoToken} /\ r.from \in 1..LastBlk
    /\ pool_rows \subseteq Pools /\ token_rows \subseteq Logs /\ event_rows \subseteq Logs
    /\ trade_count \in [Wallets -> Nat]
    /\ ix \in {"down", "poll", "process", "health"} /\ todo \subseteq Logs /\ half \in BOOLEAN
    /\ errors \in 0..MaxErrors /\ ixfaults \in 0..MaxIndexFaults

Init ==
    /\ tip = 0 /\ meta_cursor = NoCursor
    /\ swap_rows = {} /\ pool_rows = {} /\ token_rows = {} /\ event_rows = {}
    /\ trade_count = [w \in Wallets |-> 0]
    /\ ix = "down" /\ at = NoCursor /\ todo = {} /\ to = 0 /\ half = FALSE /\ errors = 0
    /\ ixfaults = 0 /\ asked = {} /\ skipped = {}

tables == <<swap_rows, pool_rows, token_rows, event_rows, trade_count>>

NewTip ==
    /\ tip < LastBlk /\ tip' = tip + 1
    /\ UNCHANGED <<tables, meta_cursor, ix, at, todo, to, half, errors, ixfaults, asked, skipped>>

----------------------------------------------------------------------------
(* run: the cursor goes on from the database, or from a later start.             *)
start(first) ==
    LET stored == IF meta_cursor = NoCursor THEN first - 1 ELSE meta_cursor
        from   == Max({stored, first - 1})
    IN /\ ix = "down"
       /\ asked' = asked \cup (meta_cursor + 1)..from
       /\ meta_cursor' = from /\ at' = from
       /\ ix' = "poll" /\ errors' = 0
       /\ UNCHANGED <<tip, tables, todo, to, half, ixfaults, skipped>>

(* A tick reads at most MaxRange blocks above the cursor, and none above the head; *)
(* a log that cannot be read is left out.                                        *)
UptoRange(head) == Min({LastBlk, at + MaxRange})
Upto(head) == Min({head, at + MaxRange})
poll ==
    /\ ix = "poll" /\ tip > at
    /\ \E bad \in SUBSET {l \in Logs : l.block \in (at + 1)..Upto(tip)} :
          /\ Cardinality(bad) <= MaxIndexFaults - ixfaults
          /\ ixfaults' = ixfaults + Cardinality(bad) /\ skipped' = skipped \cup bad
          /\ todo' = {l \in Logs : l.block \in (at + 1)..Upto(tip) /\ l.block <= tip} \ bad
    /\ to' = Upto(tip) /\ ix' = "process" /\ half' = FALSE
    /\ UNCHANGED <<tip, tables, meta_cursor, at, errors, asked>>

(* The order of the list: all swaps of v3 and v2, the launchpads, all swaps of v4,  *)
(* then the pools opened.                                                         *)
Rank(l) == CASE l.kind = "v3_swap" -> 1 [] l.kind = "launchpad" -> 2
             [] l.kind = "v4_swap" -> 3 [] l.kind = "pool_init" -> 4
Comes(l, k) == Rank(l) < Rank(k) \/ (Rank(l) = Rank(k) /\ l.n < k.n)
Current(l) == ix = "process" /\ l \in todo /\ \A k \in todo \ {l} : Comes(l, k)

Has(l) == \E r \in swap_rows : r.log = l
KnownToken(l) == IF l.kind = "v4_swap" /\ l.pool \in pool_rows THEN l.pool ELSE NoToken

(* _process_swap: the row, ignored when it is there, then the wallet.              *)
insert_swap(l) ==
    /\ Current(l) /\ l.kind \in {"v3_swap", "v4_swap"} /\ ~half
    /\ swap_rows' = IF Has(l) THEN swap_rows
                    ELSE swap_rows \cup {[log |-> l, token |-> KnownToken(l), from |-> at + 1]}
    /\ half' = (l.wallet # NoWallet)
    /\ todo' = IF l.wallet = NoWallet THEN todo \ {l} ELSE todo
    /\ UNCHANGED <<tip, pool_rows, token_rows, event_rows, trade_count, meta_cursor, ix, at, to, errors,
                   ixfaults, asked, skipped>>
upsert_wallet(l) ==
    /\ Current(l) /\ l.kind \in {"v3_swap", "v4_swap"} /\ half
    /\ trade_count' = [trade_count EXCEPT ![l.wallet] = @ + 1]
    /\ half' = FALSE /\ todo' = todo \ {l}
    /\ UNCHANGED <<tip, swap_rows, pool_rows, token_rows, event_rows, meta_cursor, ix, at, to, errors,
                   ixfaults, asked, skipped>>

(* _process_launchpad: the token, then the raw event.                             *)
insert_token(l) ==
    /\ Current(l) /\ l.kind = "launchpad" /\ ~half
    /\ token_rows' = token_rows \cup {l} /\ half' = TRUE
    /\ UNCHANGED <<tip, swap_rows, pool_rows, event_rows, trade_count, meta_cursor, ix, at, todo, to, errors,
                   ixfaults, asked, skipped>>
insert_launchpad_event(l) ==
    /\ Current(l) /\ l.kind = "launchpad" /\ half
    /\ event_rows' = event_rows \cup {l} /\ half' = FALSE /\ todo' = todo \ {l}
    /\ UNCHANGED <<tip, swap_rows, pool_rows, token_rows, trade_count, meta_cursor, ix, at, to, errors,
                   ixfaults, asked, skipped>>

insert_pool_v4(l) ==
    /\ Current(l) /\ l.kind = "pool_init"
    /\ pool_rows' = pool_rows \cup {l.pool} /\ todo' = todo \ {l}
    /\ UNCHANGED <<tip, swap_rows, token_rows, event_rows, trade_count, meta_cursor, ix, at, to, half, errors,
                   ixfaults, asked, skipped>>

(* All processed: the cursor is stored, then the health row.                       *)
set_cursor ==
    /\ ix = "process" /\ todo = {}
    /\ meta_cursor' = to /\ ix' = "health"
    /\ UNCHANGED <<tip, tables, at, todo, to, half, errors, ixfaults, asked, skipped>>
record_health ==
    /\ ix = "health"
    /\ at' = to /\ ix' = "poll" /\ errors' = 0
    /\ UNCHANGED <<tip, tables, meta_cursor, todo, to, half, ixfaults, asked, skipped>>
(* stop_when_synced, or the asked number of ticks.                                 *)
stop ==
    /\ ix = "poll" /\ ix' = "down"
    /\ UNCHANGED <<tip, tables, meta_cursor, at, todo, to, half, errors, ixfaults, asked, skipped>>

(* Any exception: the cursor in memory stays, the same blocks are read again, and   *)
(* MaxErrors in a row end the process.                                            *)
source_error ==
    /\ ix \in {"poll", "process", "health"} /\ ixfaults < MaxIndexFaults
    /\ ixfaults' = ixfaults + 1 /\ errors' = errors + 1
    /\ ix' = IF errors + 1 >= MaxErrors THEN "down" ELSE "poll"
    /\ todo' = {} /\ half' = FALSE
    /\ UNCHANGED <<tip, tables, meta_cursor, at, to, asked, skipped>>

Next ==
    \/ NewTip \/ poll \/ set_cursor \/ record_health \/ stop \/ source_error
    \/ \E first \in Starts : start(first)
    \/ \E l \in todo : \/ insert_swap(l) \/ upsert_wallet(l) \/ insert_token(l)
                       \/ insert_launchpad_event(l) \/ insert_pool_v4(l)

Spec == Init /\ [][Next]_ixVars

----------------------------------------------------------------------------
Stored(l) == CASE l.kind \in {"v3_swap", "v4_swap"} -> Has(l)
               [] l.kind = "launchpad" -> l \in token_rows /\ l \in event_rows
               [] l.kind = "pool_init" -> l.pool \in pool_rows

(* Every log of a block the stored cursor has passed is stored, but for one the node *)
(* answered in a form that could not be read, and for blocks a later start jumped.   *)
PassedIsStored ==
    \A l \in Logs : l.block <= meta_cursor => Stored(l) \/ l \in skipped \/ l.block \in asked

(* A swap of v4 is stored without its token only when its pool was opened in the    *)
(* blocks read together with it, or was not indexed: swaps come before pools, and   *)
(* the row is not written again.                                                    *)
TokenMissingOnlyWhenReadTogether ==
    \A r \in swap_rows : (r.log.kind = "v4_swap" /\ r.token = NoToken) =>
        \A l \in Logs : (l.kind = "pool_init" /\ l.pool = r.log.pool)
                            => l.block >= r.from \/ l \in skipped \/ l.block \in asked

(* A wallet's count is at least the number of its stored swaps once their blocks are *)
(* passed, and an error makes each of them count at most once more: the row is       *)
(* ignored when it is read again, the count is not.                                *)
SwapsOf(w) == {r \in swap_rows : r.log.wallet = w}
Passed(r) == r.log.block <= meta_cursor /\ r.log.block \notin asked /\ r.log \notin skipped
CountsFollowSwaps ==
    \A w \in Wallets \ {NoWallet} :
        /\ trade_count[w] >= Cardinality({r \in SwapsOf(w) : Passed(r)})
        /\ trade_count[w] <= Cardinality(SwapsOf(w)) * (1 + ixfaults)

IndexFaithful == PassedIsStored /\ TokenMissingOnlyWhenReadTogether /\ CountsFollowSwaps
=============================================================================
