-------------------------------- MODULE Senders --------------------------------
(* Who sent a swap's transaction (indexer/resolve_senders.py): the event names the    *)
(* router, so workers ask the node, block by block in several passes or transaction   *)
(* by transaction, keep the answer in tx_senders, and copy it to the swaps' trader    *)
(* over ranges of blocks (indexer/pg_storage.py).  Workers share the database; what    *)
(* is there is not written again.                                                   *)
EXTENDS Integers, FiniteSets, FiniteSetsExt

CONSTANTS
    Resolvers,                \* processes
    Txs,                      \* [id, block]: transactions with a swap
    Spans,                    \* ranges of blocks an operator may ask for, as <<first, last>>
    BatchSize, MaxAttempts, MaterializeEvery, Step,
    MaxResolves, MaxResolveFaults

VARIABLES
    swap_txs, tx_senders, resolved_blocks, traders,     \* the database
    worker,                                             \* the processes
    resolves, sfaults, misses, due, owed        \* history

senderVars == <<swap_txs, tx_senders, resolved_blocks, traders, worker,
                resolves, sfaults, misses, due, owed>>

TxBlocks == {t.block : t \in Txs}
Resting == [step |-> "rest", mode |-> "block", wanted |-> {}, pending |-> {}, next |-> {}, asked |-> {}, got |-> {},
            attempt |-> 0, chunks |-> 0, at |-> 0, hi |-> 0, final |-> FALSE]

SendersTypeOK ==
    /\ swap_txs \subseteq Txs /\ traders \subseteq swap_txs /\ resolved_blocks \subseteq TxBlocks
    /\ tx_senders \in [Txs -> {"absent", "null", "known"}]
    /\ \A w \in Resolvers :
          /\ worker[w].step \in {"rest", "ask", "insert", "mark", "materialize", "final"}
          /\ worker[w].attempt \in 0..MaxAttempts /\ worker[w].got \subseteq worker[w].asked
    /\ sfaults \in 0..MaxResolveFaults /\ resolves \in 0..MaxResolves

Init ==
    /\ swap_txs = {} /\ tx_senders = [t \in Txs |-> "absent"] /\ resolved_blocks = {} /\ traders = {}
    /\ worker = [w \in Resolvers |-> Resting]
    /\ resolves = 0 /\ sfaults = 0 /\ misses = [w \in Resolvers |-> [b \in TxBlocks |-> 0]]
    /\ due = [w \in Resolvers |-> {}] /\ owed = {}

senderTables == <<swap_txs, tx_senders, resolved_blocks, traders>>

(* The backfill or the live feed stores a swap.                                     *)
insert_swaps(t) ==
    /\ t \notin swap_txs /\ swap_txs' = swap_txs \cup {t}
    /\ UNCHANGED <<tx_senders, resolved_blocks, traders, worker, resolves, sfaults, misses, due, owed>>

----------------------------------------------------------------------------
(* What is left to do is read once, at the beginning; a limit on it is a shorter span. *)
Lowest(S, n) == {x \in S : Cardinality({y \in S : y < x}) < n}
distinct_swap_blocks_range(lo, hi) == {t.block : t \in swap_txs} \cap (lo..hi)
run_blocks(w, lo, hi, final) ==
    /\ worker[w].step = "rest" /\ resolves < MaxResolves /\ resolves' = resolves + 1
    /\ LET blocks == distinct_swap_blocks_range(lo, hi) \ resolved_blocks IN
       worker' = [worker EXCEPT ![w] = [Resting EXCEPT !.step = "ask", !.final = final,
                                                       !.wanted = blocks, !.pending = blocks]]
    /\ misses' = [misses EXCEPT ![w] = [b \in TxBlocks |-> 0]]
    /\ UNCHANGED <<senderTables, sfaults, due, owed>>
run(w, final) ==
    /\ worker[w].step = "rest" /\ resolves < MaxResolves /\ resolves' = resolves + 1
    /\ worker' = [worker EXCEPT ![w] = [Resting EXCEPT !.step = "ask", !.mode = "tx", !.final = final,
                      !.pending = {t.id : t \in {s \in swap_txs : tx_senders[s] = "absent"}}]]
    /\ UNCHANGED <<senderTables, sfaults, misses, due, owed>>

(* fetch_blocks: the node leaves blocks of a batch out, as it likes; resolve_batch:    *)
(* a transaction it leaves out is a row without a sender.                            *)
ask(w) ==
    /\ worker[w].step = "ask" /\ worker[w].pending # {}
    /\ \E got \in SUBSET Lowest(worker[w].pending, BatchSize) :
          LET all == Lowest(worker[w].pending, BatchSize) IN
          /\ worker' = [worker EXCEPT ![w].step = "insert", ![w].asked = all, ![w].got = got]
          /\ misses' = IF worker[w].mode = "tx" THEN misses
                       ELSE [misses EXCEPT ![w] = [b \in TxBlocks |-> @[b] + IF b \in all \ got THEN 1 ELSE 0]]
    /\ UNCHANGED <<senderTables, resolves, sfaults, due, owed>>

Answered(w, t) == IF worker[w].mode = "tx" THEN t.id \in worker[w].got ELSE t.block \in worker[w].got
NotFound(w, t) == worker[w].mode = "tx" /\ t.id \in worker[w].asked \ worker[w].got
Next1(f) == [f EXCEPT !.step = "ask", !.pending = @ \ f.asked, !.asked = {}, !.got = {}]
insert_tx_senders(w) ==
    /\ worker[w].step = "insert"
    /\ tx_senders' = [t \in Txs |->
           IF tx_senders[t] # "absent" THEN tx_senders[t]
           ELSE IF Answered(w, t) THEN "known" ELSE IF NotFound(w, t) THEN "null" ELSE "absent"]
    /\ worker' = [worker EXCEPT ![w] = IF @.mode = "tx" THEN Next1(@) ELSE [@ EXCEPT !.step = "mark"]]
    /\ UNCHANGED <<swap_txs, resolved_blocks, traders, resolves, sfaults, misses, due, owed>>

(* The blocks that came are marked, the others left for the next pass.                *)
ResolvedOfAll(f) == f.asked
ResolvedOf(f) == f.got
mark_blocks_resolved(w) ==
    /\ worker[w].step = "mark"
    /\ resolved_blocks' = resolved_blocks \cup ResolvedOf(worker[w])
    /\ LET f == [worker[w] EXCEPT !.next = @ \cup (worker[w].asked \ worker[w].got), !.chunks = @ + 1] IN
       worker' = [worker EXCEPT ![w] =
           IF MaterializeEvery > 0 /\ f.chunks % MaterializeEvery = 0 /\ f.got # {}
           THEN [f EXCEPT !.step = "materialize"] ELSE Next1(f)]
    /\ UNCHANGED <<swap_txs, tx_senders, traders, resolves, sfaults, misses, due, owed>>

(* Blocks from lo up to, and without, hi.                                           *)
materialize_traders_range(lo, hi) ==
    traders' = traders \cup {t \in swap_txs : t.block >= lo /\ t.block < hi /\ tx_senders[t] = "known"}
materialize(w) ==
    /\ worker[w].step = "materialize"
    /\ materialize_traders_range(Min(worker[w].asked), Max(worker[w].asked) + 1)
    /\ worker' = [worker EXCEPT ![w] = Next1(@)]
    /\ UNCHANGED <<swap_txs, tx_senders, resolved_blocks, resolves, sfaults, misses, due, owed>>

(* A pass is over; the last one ends in materializing all blocks, unless the worker     *)
(* leaves that to others.                                                           *)
next_pass(w) ==
    /\ worker[w].step = "ask" /\ worker[w].pending = {} /\ worker[w].mode = "block"
    /\ worker[w].next # {} /\ worker[w].attempt + 1 < MaxAttempts
    /\ worker' = [worker EXCEPT ![w].pending = worker[w].next, ![w].next = {}, ![w].attempt = @ + 1, ![w].chunks = 0]
    /\ UNCHANGED <<senderTables, resolves, sfaults, misses, due, owed>>
Over(w) == /\ worker[w].step = "ask" /\ worker[w].pending = {}
           /\ worker[w].mode = "tx" \/ worker[w].next = {} \/ worker[w].attempt + 1 >= MaxAttempts
swap_block_bounds(w) ==
    /\ Over(w)
    /\ IF worker[w].final /\ swap_txs # {}
       THEN /\ worker' = [worker EXCEPT ![w].step = "final", ![w].at = Min({t.block : t \in swap_txs}),
                                        ![w].hi = Max({t.block : t \in swap_txs}) + 1]
            /\ due' = [due EXCEPT ![w] = {t \in swap_txs : tx_senders[t] = "known"}]
       ELSE worker' = [worker EXCEPT ![w] = Resting] /\ UNCHANGED due
    /\ UNCHANGED <<senderTables, resolves, sfaults, misses, owed>>
materialize_traders_batched(w) ==
    /\ worker[w].step = "final" /\ worker[w].at < worker[w].hi
    /\ LET e == Min({worker[w].at + Step, worker[w].hi}) IN
       /\ materialize_traders_range(worker[w].at, e)
       /\ worker' = [worker EXCEPT ![w].at = e]
    /\ UNCHANGED <<swap_txs, tx_senders, resolved_blocks, resolves, sfaults, misses, due, owed>>
close(w) ==
    /\ worker[w].step = "final" /\ worker[w].at >= worker[w].hi
    /\ worker' = [worker EXCEPT ![w] = Resting] /\ owed' = owed \cup due[w]
    /\ UNCHANGED <<senderTables, resolves, sfaults, misses, due>>

(* The node refuses the request eight times, or the process stops.                    *)
worker_stops(w) ==
    /\ worker[w].step # "rest" /\ sfaults < MaxResolveFaults /\ sfaults' = sfaults + 1
    /\ worker' = [worker EXCEPT ![w] = Resting]
    /\ UNCHANGED <<senderTables, resolves, misses, due, owed>>

Next ==
    \/ \E t \in Txs : insert_swaps(t)
    \/ \E w \in Resolvers :
          \/ ask(w) \/ insert_tx_senders(w) \/ mark_blocks_resolved(w) \/ materialize(w) \/ next_pass(w)
          \/ swap_block_bounds(w) \/ materialize_traders_batched(w) \/ close(w) \/ worker_stops(w)
          \/ \E final \in BOOLEAN :
                \/ run(w, final)
                \/ \E span \in Spans : run_blocks(w, span[1], span[2], final)

Spec == Init /\ [][Next]_senderVars

----------------------------------------------------------------------------
(* Every transaction of a block marked resolved has its row, also one whose swap is     *)
(* stored later: its sender is known, but for a row without a sender that a run by       *)
(* transaction has left, which no run asks for or writes again.                       *)
ResolvedIsKnown ==
    \A t \in Txs : t.block \in resolved_blocks => tx_senders[t] # "absent"

(* A run over blocks leaves none of them out: at its end each is resolved, or the node   *)
(* has answered MaxAttempts times without it.                                        *)
RunsConverge ==
    \A w \in Resolvers : (Over(w) /\ worker[w].mode = "block") =>
        \A b \in worker[w].wanted : b \in resolved_blocks \/ misses[w][b] = MaxAttempts

(* What was stored and known before a final materialization has its trader after it,     *)
(* whatever other workers did meanwhile.                                             *)
KnownIsLabelled == owed \subseteq traders

SendersFaithful == ResolvedIsKnown /\ RunsConverge /\ KnownIsLabelled
=============================================================================
