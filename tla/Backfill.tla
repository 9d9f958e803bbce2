------------------------------- MODULE Backfill -------------------------------
(* The backfill (indexer/backfill.py): an operator has a mode read a range of blocks  *)
(* from the node, chunk by chunk, each topic in turn; a range with too many logs is   *)
(* halved, an error is tried again, and what stays unread becomes a row of data_gaps. *)
(* The rows of a chunk are committed, then the cursor of the run's job.  The bot's    *)
(* loop reads the liquidity table for removals (indexer/alerts.py, bot/telegram.py:     *)
(* 884-893) and is the only other reader here.  One run at a time.                   *)
EXTENDS Integers, FiniteSets, Sequences, FiniteSetsExt

CONSTANTS
    History,                            \* the chain's logs [n, block, topic, pool, delta]
    Jobs, FirstBlocks, EndBlocks,       \* what an operator may ask for
    ChunkBlocks, MinSize, MaxRetries,
    MaxResults,                         \* logs the node returns at most
    FirstHeight,                        \* the chain's newest block at the beginning
    MaxFills, MaxNodeFaults

VARIABLES
    height,                             \* the chain's newest block
    stored_logs, job_cursor, data_gaps, liq_cursor, rug_alerts,   \* the databases
    filler, found,                      \* the run and the bot's loop
    runs_of, nfaults, beyond, behind, unfunded, forgotten         \* history

fillVars == <<height, stored_logs, job_cursor, data_gaps, liq_cursor, rug_alerts, filler, found,
              runs_of, nfaults, beyond, behind, unfunded, forgotten>>

LastHeight == Max({l.block : l \in History})
NoCursor == -1
NoJob == "transfers"                  \* its gaps have a name, its progress none

(* The topics a mode reads, in order; only "transfers" keeps no cursor.              *)
Topics(mode) == CASE mode = "v4" -> <<"pool", "swap", "donate">>
                  [] mode = "launchpad" -> <<"created", "opened">>
                  [] mode = "liquidity" -> <<"liq">>
                  [] mode = "transfers" -> <<"transfer">>
Modes == {"v4", "launchpad", "liquidity", "transfers"}
Reasons == {"result_limit", "rate_limit"}
Off == [step |-> "off", mode |-> "v4", job |-> NoJob, end |-> 0, lo |-> 1, topic |-> 1,
        todo |-> <<>>, attempt |-> 0, got |-> {}, unsaved |-> <<>>]

BackfillTypeOK ==
    /\ height \in 0..LastHeight /\ stored_logs \subseteq History
    /\ job_cursor \in [Jobs -> NoCursor..LastHeight] /\ liq_cursor \in 0..LastHeight
    /\ \A g \in data_gaps : g.job \in Jobs \cup {NoJob} /\ g.lo <= g.hi /\ g.reason \in Reasons
    /\ rug_alerts \subseteq stored_logs /\ found \subseteq stored_logs
    /\ filler.step \in {"off", "read", "store"} /\ filler.mode \in Modes
    /\ filler.attempt \in 0..MaxRetries /\ filler.got \subseteq History
    /\ nfaults \in 0..MaxNodeFaults

Init ==
    /\ height = FirstHeight /\ stored_logs = {} /\ job_cursor = [j \in Jobs |-> NoCursor] /\ data_gaps = {}
    /\ liq_cursor = 0 /\ rug_alerts = {} /\ filler = Off /\ found = {}
    /\ runs_of = <<>> /\ nfaults = 0 /\ beyond = {} /\ behind = {} /\ unfunded = {} /\ forgotten = {}

tables == <<stored_logs, job_cursor, data_gaps>>
alerting == <<liq_cursor, rug_alerts, found, unfunded, forgotten>>

NewHeight ==
    /\ height < LastHeight /\ height' = height + 1
    /\ UNCHANGED <<tables, alerting, filler, runs_of, nfaults, beyond, behind>>

----------------------------------------------------------------------------
(* A chunk from lo on: its first topic is to be read.                               *)
ChunkEnd(f) == Min({f.lo + ChunkBlocks - 1, f.end})
Chunk(f) == [f EXCEPT !.step = "read", !.topic = 1, !.todo = <<<<f.lo, ChunkEnd(f)>>>>,
                      !.attempt = 0, !.got = {}, !.unsaved = <<>>]
Begin(f) == IF f.lo > f.end THEN Off ELSE Chunk(f)

(* main: a job goes on after its cursor, whatever mode and range set it.            *)
main(mode, job, first, end) ==
    /\ filler.step = "off" /\ Len(runs_of) < MaxFills
    /\ (mode = "transfers") <=> (job = NoJob)
    /\ LET cur == IF job = NoJob THEN NoCursor ELSE job_cursor[job] IN
       filler' = Begin([Off EXCEPT !.mode = mode, !.job = job, !.end = end,
                                   !.lo = IF cur = NoCursor THEN first ELSE cur + 1])
    /\ runs_of' = Append(runs_of, [mode |-> mode, job |-> job, first |-> first,
                                   fresh |-> job # NoJob /\ job_cursor[job] = NoCursor])
    /\ UNCHANGED <<height, tables, alerting, nfaults, beyond, behind>>

(* _fetch_topic_logs: the ranges of the topic still to be read, the next one first.  *)
Topic == Topics(filler.mode)[filler.topic]
Asked == Head(filler.todo)
LogsIn(lo, hi) == {l \in History : l.topic = Topic /\ l.block \in lo..hi /\ l.block <= height}
TooMany == Cardinality(LogsIn(Asked[1], Asked[2])) > MaxResults
Width == Asked[2] - Asked[1] + 1
Reading == filler.step = "read" /\ filler.todo # <<>>

(* The rows of launchpads are stored when a topic is read, others when all are.      *)
LastTopic(f) == f.topic = Len(Topics(f.mode))
AfterTopic(f) ==
    IF f.mode = "launchpad" THEN [f EXCEPT !.step = "store", !.unsaved = <<Topics(f.mode)[f.topic]>>]
    ELSE IF LastTopic(f) THEN [f EXCEPT !.step = "store", !.unsaved = Topics(f.mode)]
    ELSE [f EXCEPT !.topic = @ + 1, !.todo = <<<<f.lo, ChunkEnd(f)>>>>]
Done(f) ==
    LET g == [f EXCEPT !.todo = Tail(@), !.attempt = 0] IN IF g.todo = <<>> THEN AfterTopic(g) ELSE g

(* The node answers: with what it has, also for blocks it does not have yet.         *)
answer ==
    /\ Reading /\ ~TooMany
    /\ filler' = Done([filler EXCEPT !.got = @ \cup LogsIn(Asked[1], Asked[2])])
    /\ beyond' = beyond \cup {<<Topic, b>> : b \in {c \in Asked[1]..Asked[2] : c > height}}
    /\ UNCHANGED <<height, tables, alerting, runs_of, nfaults, behind>>

(* Too many logs: two halves, each from its first attempt, down to MinSize blocks.    *)
LowerHalf(lo, hi) == <<<<lo, (lo + hi) \div 2>>>>
Halves(lo, hi) == LET mid == (lo + hi) \div 2 IN <<<<lo, mid>>, <<mid + 1, hi>>>>
split ==
    /\ Reading /\ TooMany /\ Width > MinSize
    /\ filler' = [filler EXCEPT !.todo = Halves(Asked[1], Asked[2]) \o Tail(@), !.attempt = 0]
    /\ UNCHANGED <<height, tables, alerting, runs_of, nfaults, beyond, behind>>
(* A gap does not say of which of the mode's topics it is.                           *)
insert_gap(reason) ==
    /\ data_gaps' = data_gaps \cup {[job |-> filler.job, lo |-> Asked[1], hi |-> Asked[2], reason |-> reason]}
    /\ filler' = Done(filler)
too_dense ==
    /\ Reading /\ TooMany /\ Width <= MinSize
    /\ insert_gap("result_limit")
    /\ UNCHANGED <<height, stored_logs, job_cursor, alerting, runs_of, nfaults, beyond, behind>>

(* Any other error, and a refusal whose text has a 403 or a 429 in it: the same range  *)
(* again, and a gap when the attempts are used up.                                  *)
retry ==
    /\ Reading /\ nfaults < MaxNodeFaults /\ nfaults' = nfaults + 1
    /\ filler.attempt < MaxRetries
    /\ filler' = [filler EXCEPT !.attempt = @ + 1]
    /\ UNCHANGED <<height, tables, alerting, runs_of, beyond, behind>>
give_up ==
    /\ Reading /\ nfaults < MaxNodeFaults /\ nfaults' = nfaults + 1
    /\ filler.attempt >= MaxRetries
    /\ insert_gap("rate_limit")
    /\ UNCHANGED <<height, stored_logs, job_cursor, alerting, runs_of, beyond, behind>>

(* One commit: all rows of a topic, or one event of a launchpad; rows that exist stay. *)
Batch ==
    LET own == {l \in filler.got : l.topic = Head(filler.unsaved)} IN
    IF filler.mode # "launchpad" THEN own
    ELSE {l \in own \ stored_logs : \A k \in own \ stored_logs : l.n <= k.n}
Saved(f, batch) ==
    IF f.mode = "launchpad" /\ batch # {} THEN f
    ELSE IF f.mode = "launchpad" /\ ~LastTopic(f)
    THEN [f EXCEPT !.step = "read", !.topic = @ + 1, !.todo = <<<<f.lo, ChunkEnd(f)>>>>, !.unsaved = <<>>]
    ELSE [f EXCEPT !.unsaved = Tail(@)]
insert_rows ==
    /\ filler.step = "store" /\ filler.unsaved # <<>>
    /\ stored_logs' = stored_logs \cup Batch
    /\ behind' = behind \cup {l \in Batch \ stored_logs : l.block <= liq_cursor}
    /\ filler' = Saved(filler, Batch)
    /\ UNCHANGED <<height, job_cursor, data_gaps, alerting, runs_of, nfaults, beyond>>

(* All is stored: the cursor, and the next chunk.                                   *)
set_meta ==
    /\ filler.step = "store" /\ filler.unsaved = <<>>
    /\ job_cursor' = IF filler.job = NoJob THEN job_cursor
                     ELSE [job_cursor EXCEPT ![filler.job] = ChunkEnd(filler)]
    /\ filler' = Begin([filler EXCEPT !.lo = ChunkEnd(filler) + 1])
    /\ UNCHANGED <<height, stored_logs, data_gaps, alerting, runs_of, nfaults, beyond, behind>>

run_stops ==
    /\ filler.step # "off" /\ nfaults < MaxNodeFaults /\ nfaults' = nfaults + 1
    /\ filler' = Off
    /\ UNCHANGED <<height, tables, alerting, runs_of, beyond, behind>>

----------------------------------------------------------------------------
(* The bot's loop.  A removal is significant if it took half of all that was ever      *)
(* added to the pool, as far as it is stored.                                       *)
Added(pool) == MapThenSumSet(LAMBDA l : l.delta, {l \in stored_logs : l.topic = "liq" /\ l.pool = pool /\ l.delta > 0})
Removals == {l \in stored_logs : l.topic = "liq" /\ l.delta < 0}
Significant(l) == Added(l.pool) > 0 /\ 2 * (-l.delta) >= Added(l.pool)
liquidity_removal_alerts == {l \in Removals : l.block > liq_cursor /\ Significant(l)}

(* The cursor is stored with the newest alert, before any of them is queued.          *)
scan_liquidity ==
    /\ found = {} /\ liquidity_removal_alerts # {}
    /\ found' = liquidity_removal_alerts
    /\ liq_cursor' = Max({l.block : l \in found'})
    /\ unfunded' = unfunded \cup {l \in Removals : l.block <= liq_cursor' /\ Added(l.pool) = 0}
    /\ UNCHANGED <<height, tables, rug_alerts, filler, runs_of, nfaults, beyond, behind, forgotten>>
enqueue_alert_many ==
    /\ found # {}
    /\ rug_alerts' = rug_alerts \cup found /\ found' = {}
    /\ UNCHANGED <<height, tables, liq_cursor, filler, runs_of, nfaults, beyond, behind, unfunded, forgotten>>
bot_stops ==
    /\ found # {} /\ nfaults < MaxNodeFaults /\ nfaults' = nfaults + 1
    /\ forgotten' = forgotten \cup found /\ found' = {}
    /\ UNCHANGED <<height, tables, liq_cursor, rug_alerts, filler, runs_of, beyond, behind, unfunded>>

Next ==
    \/ NewHeight \/ answer \/ split \/ too_dense \/ retry \/ give_up \/ insert_rows \/ set_meta
    \/ run_stops \/ scan_liquidity \/ enqueue_alert_many \/ bot_stops
    \/ \E mode \in Modes, job \in Jobs \cup {NoJob}, first \in FirstBlocks, end \in EndBlocks :
          main(mode, job, first, end)

Spec == Init /\ [][Next]_fillVars

----------------------------------------------------------------------------
Noted(l, job) == \E g \in data_gaps : g.job = job /\ l.block \in g.lo..g.hi
RunsOf(job) == {i \in DOMAIN runs_of : runs_of[i].job = job}
FirstRun(job) == runs_of[Max({i \in RunsOf(job) : runs_of[i].fresh})]    \* it set the first cursor
OneMode(job) == \A i, j \in RunsOf(job) : runs_of[i].mode = runs_of[j].mode

(* A job's cursor tells what was read: from the first block of its first run, every log *)
(* of its mode is stored or in a gap of the job, unless it was asked for before the     *)
(* chain had it.  It holds for a job that always had the same mode; the command's       *)
(* default gives all modes one job (backfill.py:250).                               *)
CursorTellsWhatIsRead ==
    \A job \in Jobs : (RunsOf(job) # {} /\ OneMode(job)) =>
        LET run == FirstRun(job) IN
        \A l \in History :
            (\E k \in DOMAIN Topics(run.mode) : l.topic = Topics(run.mode)[k])
            /\ l.block \in run.first..job_cursor[job]
               => l \in stored_logs \/ Noted(l, job) \/ <<l.topic, l.block>> \in beyond

(* Only a range of at most MinSize blocks is given up for its many logs, and any other   *)
(* only after MaxRetries + 1 errors.                                                *)
GapsAreForced ==
    \A g \in data_gaps :
        IF g.reason = "result_limit"
        THEN /\ g.hi - g.lo < MinSize
             /\ \E t \in {l.topic : l \in History} :
                   Cardinality({l \in History : l.topic = t /\ l.block \in g.lo..g.hi}) > MaxResults
        ELSE nfaults > MaxRetries

(* A stored removal the alert cursor has passed was alerted if it took half of the pool,  *)
(* unless it was stored after the cursor had passed it, the pool had nothing stored then, *)
(* or the bot stopped between the cursor and the queue.                              *)
RemovalsAreAlerted ==
    \A l \in Removals : (l.block <= liq_cursor /\ Significant(l)) =>
        l \in rug_alerts \cup found \cup forgotten \cup behind \cup unfunded

(* An alert is true of the chain when one job has read the liquidity from the first block *)
(* on and nothing was left out: the removal took half of what was added before.         *)
NothingLeftOut ==
    /\ data_gaps = {} /\ beyond = {}
    /\ \E job \in Jobs : \A i \in DOMAIN runs_of :
          /\ runs_of[i].mode = "liquidity" <=> runs_of[i].job = job
          /\ runs_of[i].fresh /\ runs_of[i].job = job => runs_of[i].first <= 1
AlertsAreTrue ==
    NothingLeftOut => \A l \in rug_alerts :
        2 * (-l.delta) >= MapThenSumSet(LAMBDA k : k.delta,
            {k \in History : k.topic = "liq" /\ k.pool = l.pool /\ k.delta > 0 /\ k.n < l.n})

BackfillFaithful == CursorTellsWhatIsRead /\ GapsAreForced /\ RemovalsAreAlerted /\ AlertsAreTrue
=============================================================================
