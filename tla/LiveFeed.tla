------------------------------ MODULE LiveFeed ------------------------------
(* The bot's loop as a feed: one cycle brings new swaps from the chain into     *)
(* Postgres (indexer/ingest.py), turns them into trades ("legs"), applies the   *)
(* legs to the alert state (indexer/stream_alerts.py), queues the alerts, sends *)
(* them to the chats that watch the token, and saves two cursors and the state  *)
(* (bot/telegram.py:738-965).  Every commit is a step of its own: between any   *)
(* two the process may stop, and inside the ingestion an error ends it early.   *)
(* One token and one kind of alert: an alert is known by its block.             *)
EXTENDS Integers, FiniteSets, FiniteSetsExt

CONSTANTS
    Swaps,          \* the swaps of the chain: [n, block, pool], n the log's place
    Chats,
    ScanChunk,      \* blocks of one eth_getLogs call
    Limit,          \* legs read in one cycle
    PerChatCap,     \* messages of one cycle to one chat
    ReadQueue,      \* alerts read from the queue in one cycle
    QueueBlocks,    \* age in blocks at which an alert leaves the queue
    MaxFaults

VARIABLES
    head,                                   \* the chain's newest block
    swaps, pools, scanned, resolved, trader, legs, legs_cursor,        \* Postgres
    cursor, saved, queue, delivered, since, watch,                     \* SQLite and state.pkl
    pc, run, mem,                                                      \* the process
    faults, fault, late, cutoff, torn, redone, acted, sent             \* history

chainVars == <<head, swaps, pools, scanned, resolved, trader, legs, legs_cursor>>
botVars   == <<cursor, saved, queue, delivered, since, watch>>
ownVars   == <<pc, run, mem>>
history   == <<faults, fault, late, cutoff, torn, redone, acted, sent>>
feedVars  == <<chainVars, botVars, ownVars, history>>

Blocks   == {s.block : s \in Swaps}
TopBlock == Max(Blocks)
AllPools == {s.pool : s \in Swaps}
Opened(p) == Min({s.block : s \in {t \in Swaps : t.pool = p}})   \* its Initialize event
Newest(S) == Max({0} \cup {s.block : s \in S})

Faults    == {"gap", "unresolved", "abort", "crash", "unsent", "unanswered"}
NoPickle  == [s \in Swaps |-> -1]
NoneTaken == [s \in Swaps |-> 0]
Idle == [start |-> 0, goal |-> 0, from |-> 0, todo |-> {}, next |-> 0, taken |-> {},
         left |-> [c \in Chats |-> {}], n |-> [c \in Chats |-> 0], at |-> 0, to |-> 0]

FeedTypeOK ==
    /\ head \in 0..TopBlock /\ scanned \in 0..TopBlock /\ legs_cursor \in 0..TopBlock
    /\ swaps \subseteq Swaps /\ trader \subseteq swaps /\ pools \subseteq AllPools
    /\ resolved \subseteq Blocks /\ cursor \in 0..TopBlock
    /\ legs \in [Swaps -> 0..(1 + MaxFaults)] /\ \A s \in Swaps : mem[s] \in 0..legs[s]
    /\ queue \subseteq Blocks /\ delivered \subseteq Chats \X Blocks
    /\ \A c \in Chats : since[c] \in 0..TopBlock /\ run.n[c] \in 0..PerChatCap
    /\ \A c \in Chats : run.left[c] \subseteq queue
    /\ fault \subseteq Faults /\ faults \in 0..MaxFaults

Init ==
    /\ head = 0 /\ scanned = 0 /\ legs_cursor = 0 /\ cursor = 0
    /\ swaps = {} /\ pools = {} /\ resolved = {} /\ trader = {} /\ queue = {} /\ delivered = {}
    /\ legs = NoneTaken /\ mem = NoneTaken /\ saved = NoPickle
    /\ since = [c \in Chats |-> 0] /\ watch = [c \in Chats |-> FALSE]
    /\ pc = "start" /\ run = Idle
    /\ faults = 0 /\ fault = {} /\ late = {} /\ cutoff = {} /\ torn = {} /\ redone = {}
    /\ acted = NoneTaken /\ sent = [c \in Chats |-> [b \in Blocks |-> 0]]

Note(f) == faults < MaxFaults /\ faults' = faults + 1 /\ fault' = fault \cup {f}
NoFault == UNCHANGED <<faults, fault>>
NoteIf(bad, f) == IF bad THEN Note(f) ELSE NoFault

----------------------------------------------------------------------------
(* The world: a block, a chat that starts or stops watching the token.          *)
NewBlock ==
    /\ head < TopBlock /\ head' = head + 1
    /\ UNCHANGED <<swaps, pools, scanned, resolved, trader, legs, legs_cursor, botVars, ownVars, history>>

(* The first token sets the block from which alerts are sent; later ones keep it. *)
add_token(c) ==
    /\ ~watch[c]
    /\ watch' = [watch EXCEPT ![c] = TRUE]
    /\ since' = [since EXCEPT ![c] = IF @ = 0 THEN cursor ELSE @]
    /\ UNCHANGED <<chainVars, cursor, saved, queue, delivered, ownVars, history>>
remove_token(c) ==
    /\ watch[c]
    /\ watch' = [watch EXCEPT ![c] = FALSE]
    /\ UNCHANGED <<chainVars, cursor, saved, queue, delivered, since, ownVars, history>>

----------------------------------------------------------------------------
(* ingest_new: the blocks to look at start at the newest stored swap.           *)
ingest_new ==
    /\ pc = "start"
    /\ run' = [Idle EXCEPT !.start = Newest(swaps), !.goal = head]
    /\ pc' = "scan"
    /\ UNCHANGED <<chainVars, botVars, mem, history>>

(* One chunk of backfill_v4_run.  A range of pools or swaps that cannot be read  *)
(* becomes a row of data_gaps that nothing reads again, and counts as empty.     *)
Chunk == (scanned + 1)..Min({scanned + ScanChunk, run.goal})
backfill_v4_run ==
    /\ pc = "scan"
    /\ \/ /\ scanned >= run.goal
          /\ pc' = "resolve" /\ NoFault
          /\ UNCHANGED <<swaps, pools, scanned>>
       \/ /\ scanned < run.goal
          /\ \E poolGap, swapGap \in BOOLEAN :
                /\ pools' = pools \cup (IF poolGap THEN {} ELSE {p \in AllPools : Opened(p) \in Chunk})
                /\ swaps' = swaps \cup (IF swapGap THEN {} ELSE {s \in Swaps : s.block \in Chunk})
                /\ NoteIf(poolGap \/ swapGap, "gap")
          /\ scanned' = Max(Chunk)
          /\ UNCHANGED pc
    /\ UNCHANGED <<head, resolved, trader, legs, legs_cursor, botVars, run, mem, late, cutoff, torn, redone, acted, sent>>

(* run_blocks asks three times for the blocks whose senders are unknown; what    *)
(* the node leaves out stays unresolved.                                        *)
Pending == {s.block : s \in {t \in swaps : t.block \in run.start..run.goal}} \ resolved
run_blocks ==
    /\ pc = "resolve"
    /\ \E got \in SUBSET Pending :
          /\ resolved' = resolved \cup got
          /\ NoteIf(got # Pending, "unresolved")
    /\ pc' = "label"
    /\ UNCHANGED <<head, swaps, pools, scanned, trader, legs, legs_cursor, botVars, run, mem, late, cutoff, torn, redone, acted, sent>>

(* append_legs_pg without its cursor starts after the newest leg, or before the  *)
(* oldest swap.                                                                 *)
AppendFrom ==
    IF legs_cursor > 0 THEN legs_cursor
    ELSE IF \E s \in Swaps : legs[s] > 0 THEN Newest({s \in Swaps : legs[s] > 0})
    ELSE Min({TopBlock} \cup {s.block : s \in swaps}) - 1
materialize_traders ==
    /\ pc = "label"
    /\ trader' = trader \cup {s \in swaps : s.block \in (run.start..run.goal) \cap resolved}
    /\ run' = [run EXCEPT !.from = AppendFrom, !.todo = pools]
    /\ pc' = "append"
    /\ UNCHANGED <<head, swaps, pools, scanned, resolved, legs, legs_cursor, botVars, mem, history>>

(* Legs are inserted pool by pool, each in a transaction of its own; the cursor   *)
(* follows after the last.                                                      *)
RowsBelow(p) == {s \in trader : s.pool = p /\ s.block > run.from /\ s.block < run.goal}
Rows(p) == {s \in trader : s.pool = p /\ s.block > run.from /\ s.block <= run.goal}
append_legs(p) ==
    /\ pc = "append" /\ p \in run.todo
    /\ legs' = [s \in Swaps |-> legs[s] + IF s \in Rows(p) THEN 1 ELSE 0]
    /\ run' = [run EXCEPT !.todo = @ \ {p}]
    /\ late' = late \cup {s \in Rows(p) : s.block <= cursor}
    /\ UNCHANGED <<head, swaps, pools, scanned, resolved, trader, legs_cursor, botVars, pc, mem, faults, fault, cutoff, torn, redone, acted, sent>>
append_done ==
    /\ pc = "append" /\ run.todo = {}
    /\ legs_cursor' = run.goal /\ pc' = "read"
    /\ UNCHANGED <<head, swaps, pools, scanned, resolved, trader, legs, botVars, run, mem, history>>

(* safe_call: an error of the node or the database ends the ingestion, and the   *)
(* cycle goes on with what is stored.                                           *)
ingest_fails ==
    /\ pc \in {"scan", "resolve", "label", "append"} /\ Note("abort")
    /\ pc' = "read"
    /\ UNCHANGED <<chainVars, botVars, run, mem, late, cutoff, torn, redone, acted, sent>>

----------------------------------------------------------------------------
(* fetch_new_legs and apply_legs: at most Limit rows above the cursor, ordered    *)
(* by block and place.                                                          *)
AsBefore(t, s) == t.block < s.block \/ (t.block = s.block /\ t.n < s.n)
Before(s)  == MapThenSumSet(LAMBDA t : legs[t], {t \in Swaps : t.block > cursor /\ AsBefore(t, s)})
Taken(s)   == IF s.block <= cursor THEN 0 ELSE Max({0, Min({legs[s], Limit - Before(s)})})
Full       == MapThenSumSet(Taken, Swaps) >= Limit
TakenNewest == Newest({s \in Swaps : Taken(s) > 0})
NextCursor == IF TakenNewest = 0 THEN cursor
              ELSE IF Full THEN TakenNewest ELSE Newest({s \in Swaps : legs[s] > 0})

apply_legs ==
    /\ pc = "read"
    /\ mem' = [s \in Swaps |-> mem[s] + Taken(s)]
    /\ acted' = [s \in Swaps |-> acted[s] + Taken(s)]    \* autoprotect and preorders see the alerts
    /\ cutoff' = cutoff \cup {s \in Swaps : s.block > cursor /\ legs[s] > Taken(s)
                                            /\ s.block = TakenNewest}
    /\ run' = [run EXCEPT !.next = NextCursor, !.taken = {s.block : s \in {t \in Swaps : Taken(t) > 0}}]
    /\ pc' = "queue"
    /\ UNCHANGED <<chainVars, botVars, faults, fault, late, torn, redone, sent>>

(* The queue has one row for an alert; the oldest are read, delivered or not.    *)
Front(q) == {b \in q : Cardinality({a \in q : a < b}) < ReadQueue}
Wanted(c, q) == {b \in Front(q) : watch[c] /\ b > since[c] /\ <<c, b>> \notin delivered}
enqueue_alert_many ==
    /\ pc = "queue"
    /\ queue' = queue \cup run.taken
    /\ run' = [run EXCEPT !.left = [c \in Chats |-> Wanted(c, queue')]]
    /\ pc' = "send"
    /\ UNCHANGED <<chainVars, cursor, saved, delivered, since, watch, mem, history>>

(* dispatch: the message leaves, then the delivery is stored.                    *)
Next1(c) == Min(run.left[c])
send(c) ==
    /\ pc = "send" /\ run.left[c] # {}
    /\ sent' = [sent EXCEPT ![c][Next1(c)] = @ + 1]
    /\ run' = [run EXCEPT !.at = Next1(c), !.to = c]
    /\ pc' = "mark"
    /\ UNCHANGED <<chainVars, botVars, mem, faults, fault, late, cutoff, torn, redone, acted>>
LeftAfter(c, b) == IF run.n[c] + 1 >= PerChatCap THEN {} ELSE run.left[c] \ {b}
mark_delivered ==
    /\ pc = "mark"
    /\ delivered' = delivered \cup {<<run.to, run.at>>}
    /\ run' = [run EXCEPT !.left[run.to] = LeftAfter(run.to, run.at), !.n[run.to] = @ + 1]
    /\ pc' = "send"
    /\ UNCHANGED <<chainVars, cursor, saved, queue, since, watch, mem, history>>
(* A send that raises is tried again in the next cycle, also when only its answer *)
(* was lost.                                                                    *)
send_fails(c) ==
    /\ pc = "send" /\ run.left[c] # {}
    /\ \E arrives \in BOOLEAN :
          /\ Note(IF arrives THEN "unanswered" ELSE "unsent")
          /\ sent' = [sent EXCEPT ![c][Next1(c)] = IF arrives THEN @ + 1 ELSE @]
    /\ run' = [run EXCEPT !.left[c] = @ \ {Next1(c)}]
    /\ UNCHANGED <<chainVars, botVars, pc, mem, late, cutoff, torn, redone, acted>>

(* The end of the cycle: the cursor, the queue's oldest rows, then state.pkl.    *)
save_cursor ==
    /\ pc = "send" /\ \A c \in Chats : run.left[c] = {}
    /\ cursor' = run.next
    /\ queue' = {b \in queue : b >= run.next - QueueBlocks}
    /\ pc' = "persist"
    /\ UNCHANGED <<chainVars, saved, delivered, since, watch, run, mem, history>>
save_state ==
    /\ pc = "persist"
    /\ saved' = mem /\ pc' = "start" /\ run' = Idle
    /\ UNCHANGED <<chainVars, cursor, queue, delivered, since, watch, mem, history>>

(* A restart takes the state of state.pkl and the cursor of SQLite; without the   *)
(* file it rebuilds the state from the legs up to the cursor.                   *)
Restored == IF saved # NoPickle THEN saved
            ELSE [s \in Swaps |-> IF s.block <= cursor THEN legs[s] ELSE 0]
crash ==
    /\ pc # "start" /\ Note("crash")
    /\ mem' = Restored /\ pc' = "start" /\ run' = Idle
    /\ torn' = torn \cup {s \in Swaps : pc = "persist" /\ Restored[s] # mem[s]}
    /\ redone' = redone \cup {s \in Swaps : /\ pc \in {"queue", "send", "mark"}
                                            /\ s.block > cursor /\ mem[s] > 0}
    /\ UNCHANGED <<chainVars, botVars, late, cutoff, acted, sent>>

Next ==
    \/ NewBlock \/ ingest_new \/ backfill_v4_run \/ run_blocks \/ materialize_traders
    \/ append_done \/ ingest_fails \/ apply_legs \/ enqueue_alert_many \/ mark_delivered
    \/ save_cursor \/ save_state \/ crash
    \/ \E p \in AllPools : append_legs(p)
    \/ \E c \in Chats : add_token(c) \/ remove_token(c) \/ send(c) \/ send_fails(c)

Spec == Init /\ [][Next]_feedVars

----------------------------------------------------------------------------
Interrupted == fault \cap {"abort", "crash"} # {}

(* Once the cursor of the indexer has passed a swap it is a leg exactly once; it   *)
(* is missing only after unread logs, a block the node did not return or an        *)
(* ingestion that broke off, and there twice only after one that broke off.        *)
SwapsBecomeLegs ==
    \A s \in Swaps :
        /\ legs[s] > 1 => Interrupted
        /\ (pc = "start" /\ s.block <= legs_cursor /\ legs[s] = 0)
              => Interrupted \/ fault \cap {"gap", "unresolved"} # {}

(* Every leg the alert cursor has passed is in the alert state as often as in the  *)
(* table, but for legs that came after the cursor, legs beyond the limit in the    *)
(* last block of a batch, and a crash between the saved cursor and the saved state. *)
PassedLegsApplied ==
    pc = "start" =>
        \A s \in Swaps : s.block <= cursor => mem[s] = legs[s] \/ s \in late \cup cutoff \cup torn

(* What a leg sets off (sales of the automatic protection, preorders) happens once, *)
(* but for a crash before the cursor was saved; and a chat reads an alert once, but *)
(* for a crash or a lost answer between the message and its mark.                   *)
ActedOnce == \A s \in Swaps : acted[s] > legs[s] => s \in redone
ReadOnce  == \A c \in Chats, b \in Blocks : sent[c][b] > 1 => fault \cap {"crash", "unanswered"} # {}

FeedFaithful == SwapsBecomeLegs /\ PassedLegsApplied /\ ActedOnce /\ ReadOnce
=============================================================================
