---------------------------- MODULE BlockIngest ----------------------------
(* The data engine of arcai (src/data): a tick reads the blocks after the stored     *)
(* checkpoint one by one, stores each with its transactions, logs and transfer        *)
(* candidates, and makes canonical what is deep enough.  Every statement of the        *)
(* PostgreSQL store is one of its own, so a failed call or a stopped process leaves    *)
(* what was done so far.  The node behind the URL may answer two calls from two forks. *)
EXTENDS Integers, FiniteSets

CONSTANTS
    Blocks,             \* what the node may answer: hash, height, parent, txs, event
    MaxBlock,           \* bound: the highest block of the chain
    BlocksPerTick,      \* maxBlocksPerTick
    Starts,             \* START_BLOCK, NoBlock when it is not set
    Depths              \* OPERATIONAL_CONFIRMATION_DEPTH

VARIABLES
    startBlock, depth,
    blocks,             \* hash -> "none" (not stored), "observed" or "canonical"
    transactions,       \* transaction -> the hash of its row's block and its mark, if stored
    block_logs,         \* hash -> "none", "stored" or "canonical": the event of the block
    candidates,         \* hash -> the same, of the transfer candidate made of that event
    checkpoint,
    ingestor,           \* pc, the height n, the last one of the tick, the block read, the
                        \* block whose logs were read, the heights being confirmed
    first,              \* history: the first height the stream has to store
    mixed,              \* history: heights whose logs came from another fork
    cut                 \* history: heights whose confirmation was cut short
vars == <<startBlock, depth, blocks, transactions, block_logs, candidates, checkpoint, ingestor,
          first, mixed, cut>>

NoBlock == 0
Hashes == {b.hash : b \in Blocks}
TxIds == UNION {b.txs : b \in Blocks}
BlockOf(h) == CHOOSE b \in Blocks : b.hash = h
At(n) == {b \in Blocks : b.height = n}
Canonical(n) == {b \in At(n) : blocks[b.hash] = "canonical"}
Observed(n) == {b \in At(n) : blocks[b.hash] = "observed"}

Idle == [pc |-> "idle", n |-> 0, end |-> 0, block |-> NoBlock, source |-> NoBlock, heights |-> {}]
store == <<blocks, transactions, block_logs, candidates>>
config == <<startBlock, depth>>

Init ==
    /\ startBlock \in Starts /\ depth \in Depths
    /\ blocks = [h \in Hashes |-> "none"]
    /\ transactions = [t \in TxIds |-> [block |-> NoBlock, canonical |-> FALSE]]
    /\ block_logs = [h \in Hashes |-> "none"] /\ candidates = [h \in Hashes |-> "none"]
    /\ checkpoint = NoBlock /\ ingestor = Idle
    /\ first = NoBlock /\ mixed = {} /\ cut = {}

(* runOnce: without a checkpoint and a start block the stream begins after the        *)
(* latest block.                                                                   *)
Prime ==
    /\ ingestor.pc = "idle" /\ checkpoint = NoBlock /\ startBlock = NoBlock
    /\ \E latest \in 1..MaxBlock : checkpoint' = latest /\ first' = latest + 1
    /\ UNCHANGED <<config, store, ingestor, mixed, cut>>
Tick ==
    LET from == IF checkpoint = NoBlock THEN startBlock ELSE checkpoint + 1
    IN  /\ ingestor.pc = "idle" /\ from # NoBlock
        /\ \E latest \in from..MaxBlock :
               LET maxEnd == from + BlocksPerTick - 1
               IN  ingestor' = [ingestor EXCEPT !.pc = "block", !.n = from,
                                                !.end = IF latest < maxEnd THEN latest ELSE maxEnd]
        /\ first' = IF first = NoBlock THEN from ELSE first
        /\ UNCHANGED <<config, store, checkpoint, mixed, cut>>

(* ingestBlock, as far as the two checks of the block that the node answered.  A row    *)
(* that is there already stays as it is.                                            *)
Stored(b) == IF blocks[b.hash] = "none" THEN [blocks EXCEPT ![b.hash] = "observed"] ELSE blocks
Ambiguous(b) ==
    \/ \E o \in Observed(b.height) : o.hash # b.hash
    \/ \E p \in Canonical(b.height - 1) : p.hash # b.parent
GetBlock ==
    /\ ingestor.pc = "block"
    /\ \E b \in At(ingestor.n) :
           /\ blocks' = Stored(b)
           /\ \/ /\ Canonical(b.height) # {}
                 /\ ingestor' = [ingestor EXCEPT !.pc = "checkpoint"]
              \/ /\ Canonical(b.height) = {} /\ Ambiguous(b)
                 /\ ingestor' = Idle
              \/ /\ Canonical(b.height) = {} /\ ~Ambiguous(b)
                 /\ ingestor' = [ingestor EXCEPT !.pc = "txs", !.block = b.hash]
    /\ UNCHANGED <<config, transactions, block_logs, candidates, checkpoint, first, mixed, cut>>

(* A transaction has one row, of the block it was first seen in.  Rows inserted before   *)
(* a failure are inserted again with the rest, so the insertion is one step.            *)
StoreTransactions ==
    /\ ingestor.pc = "txs"
    /\ transactions' =
           [t \in TxIds |->
               IF t \in BlockOf(ingestor.block).txs /\ transactions[t].block = NoBlock
               THEN [block |-> ingestor.block, canonical |-> FALSE] ELSE transactions[t]]
    /\ ingestor' = [ingestor EXCEPT !.pc = "logs"]
    /\ UNCHANGED <<config, blocks, block_logs, candidates, checkpoint, first, mixed, cut>>
(* The logs are asked for by height and stored under the block hash they carry.       *)
Insert(rows, h) ==
    IF BlockOf(h).event /\ rows[h] = "none" THEN [rows EXCEPT ![h] = "stored"] ELSE rows
StoreLogs ==
    /\ ingestor.pc = "logs"
    /\ \E b \in At(ingestor.n) :
           /\ block_logs' = Insert(block_logs, b.hash)
           /\ ingestor' = [ingestor EXCEPT !.pc = "candidates", !.source = b.hash]
           /\ mixed' = IF b.hash = ingestor.block THEN mixed ELSE mixed \cup {b.height}
    /\ UNCHANGED <<config, blocks, transactions, candidates, checkpoint, first, cut>>
StoreCandidates ==
    /\ ingestor.pc = "candidates"
    /\ candidates' = Insert(candidates, ingestor.source)
    /\ ingestor' = [ingestor EXCEPT !.pc = "confirm"]
    /\ UNCHANGED <<config, blocks, transactions, block_logs, checkpoint, first, mixed, cut>>

(* Mutant: the heights that have a canonical block are not left out.                   *)
OnlyObserved(n) == Cardinality(Observed(n)) = 1
(* confirmObservedUpTo: a height with one observed block and no canonical one is made   *)
(* canonical, and then, one statement each, every row of that height.                   *)
Confirmable(n) == Cardinality(Observed(n)) = 1 /\ Canonical(n) = {}
ConfirmBlocks ==
    LET heights == {n \in 1..ingestor.n - depth : Confirmable(n)}
    IN  /\ ingestor.pc = "confirm"
        /\ blocks' = [h \in Hashes |->
                         IF blocks[h] = "observed" /\ BlockOf(h).height \in heights
                         THEN "canonical" ELSE blocks[h]]
        /\ ingestor' = [ingestor EXCEPT !.pc = IF heights = {} THEN "checkpoint" ELSE "mark_txs",
                                        !.heights = heights]
        /\ UNCHANGED <<config, transactions, block_logs, candidates, checkpoint, first, mixed, cut>>
MarkTransactions ==
    /\ ingestor.pc = "mark_txs"
    /\ transactions' =
           [t \in TxIds |->
               IF transactions[t].block = NoBlock THEN transactions[t]
               ELSE [transactions[t] EXCEPT
                        !.canonical = @ \/ BlockOf(transactions[t].block).height \in ingestor.heights]]
    /\ ingestor' = [ingestor EXCEPT !.pc = "mark_logs"]
    /\ UNCHANGED <<config, blocks, block_logs, candidates, checkpoint, first, mixed, cut>>
Marked(rows) ==
    [h \in Hashes |->
        IF rows[h] = "stored" /\ BlockOf(h).height \in ingestor.heights THEN "canonical" ELSE rows[h]]
MarkLogs ==
    /\ ingestor.pc = "mark_logs"
    /\ block_logs' = Marked(block_logs)
    /\ ingestor' = [ingestor EXCEPT !.pc = "mark_candidates"]
    /\ UNCHANGED <<config, blocks, transactions, candidates, checkpoint, first, mixed, cut>>
MarkCandidates ==
    /\ ingestor.pc = "mark_candidates"
    /\ candidates' = Marked(candidates)
    /\ ingestor' = [ingestor EXCEPT !.pc = "checkpoint", !.heights = {}]
    /\ UNCHANGED <<config, blocks, transactions, block_logs, checkpoint, first, mixed, cut>>

SetCheckpoint ==
    /\ ingestor.pc = "checkpoint"
    /\ checkpoint' = ingestor.n
    /\ ingestor' = IF ingestor.n < ingestor.end
                   THEN [Idle EXCEPT !.pc = "block", !.n = ingestor.n + 1, !.end = ingestor.end]
                   ELSE Idle
    /\ UNCHANGED <<config, store, first, mixed, cut>>

(* The block is missing, a call fails for good, or the process stops: the next tick     *)
(* starts after the checkpoint.                                                      *)
Stop ==
    /\ ingestor.pc # "idle"
    /\ ingestor' = Idle /\ cut' = cut \cup ingestor.heights
    /\ UNCHANGED <<config, store, checkpoint, first, mixed>>

Next ==
    \/ Prime \/ Tick \/ GetBlock \/ StoreTransactions \/ StoreLogs \/ StoreCandidates
    \/ ConfirmBlocks \/ MarkTransactions \/ MarkLogs \/ MarkCandidates \/ SetCheckpoint \/ Stop
Spec == Init /\ [][Next]_vars

----------------------------------------------------------------------------
(* The rows and the ingestor's place keep their types.                               *)
IngestTypeOK ==
    /\ blocks \in [Hashes -> {"none", "observed", "canonical"}]
    /\ transactions \in [TxIds -> [block : Hashes \cup {NoBlock}, canonical : BOOLEAN]]
    /\ block_logs \in [Hashes -> {"none", "stored", "canonical"}]
    /\ candidates \in [Hashes -> {"none", "stored", "canonical"}]
    /\ checkpoint \in 0..MaxBlock /\ ingestor.n \in 0..MaxBlock
    /\ ingestor.heights \subseteq 1..MaxBlock

(* Whatever the node answers, a height has one canonical block at most, and without a    *)
(* confirmation depth each one is the child of the one below (getCanonicalBlockAtHeight  *)
(* reads one row with LIMIT 1 and compares with it).  With a depth the block below is    *)
(* not canonical yet when the next one is compared with it.                             *)
OneChain ==
    /\ \A n \in 1..MaxBlock : Cardinality(Canonical(n)) <= 1
    /\ depth = 0 => \A n \in 2..MaxBlock : \A b \in Canonical(n), p \in Canonical(n - 1) :
                        b.parent = p.hash

(* Rows are marked by their height and not by their block (pg-store.ts:234-259): a row    *)
(* marked canonical is of a canonical block all the same, unless its height's logs came    *)
(* from another fork.                                                                *)
MarkedAreCanonical ==
    /\ \A t \in TxIds : transactions[t].canonical => blocks[transactions[t].block] = "canonical"
    /\ \A b \in Blocks :
           /\ "canonical" \in {block_logs[b.hash], candidates[b.hash]}
           /\ b.height \notin mixed
           => blocks[b.hash] = "canonical"

(* What the checkpoint has passed, as deep as configured, has a canonical block with all   *)
(* its rows marked, but for a height whose confirmation was cut short: its block is        *)
(* canonical, so that the next pass takes it for done.  A transaction's row is marked with  *)
(* the block it was first seen in, which may be a lower one of another fork.               *)
PassedIsCanonical ==
    first # NoBlock =>
        \A n \in first..checkpoint - depth : \E b \in Canonical(n) :
            n \notin cut =>
                /\ \A t \in b.txs :
                      \/ transactions[t].canonical
                      \/ \E c \in Blocks : c.hash = transactions[t].block /\ c.height \in cut
                /\ b.event /\ n \notin mixed =>
                       block_logs[b.hash] = "canonical" /\ candidates[b.hash] = "canonical"

(* A height that was seen with two hashes and has no canonical block is never passed:      *)
(* the stream stops there.                                                            *)
AmbiguousStops ==
    \A n \in 1..MaxBlock : Canonical(n) = {} /\ Cardinality(Observed(n)) > 1 => checkpoint < n

(* All of it.                                                                     *)
IngestFaithful == OneChain /\ MarkedAreCanonical /\ PassedIsCanonical /\ AmbiguousStops
=============================================================================
