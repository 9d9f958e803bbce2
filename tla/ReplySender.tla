---------------------------- MODULE ReplySender ----------------------------
(* Answers to commands and buttons: the poller handles updates in their order and  *)
(* queues the answers, a few threads take them from the queue and send them, each   *)
(* with its own hangs, and sends once more what Telegram put off                     *)
(* (bot/sender.py, bot/commands.py:948-1243, bot/telegram.py:643, 776-792, 992).     *)
(* Telegram is external; texts, keyboards and the length of a pause are left out.    *)
EXTENDS Integers, Sequences, FiniteSets, FiniteSetsExt, SequencesExt

CONSTANTS
    Scripts,        \* what the answers may be: sequences of [screen, edit, html, bad]
    SendWorkers,
    MaxMishaps

VARIABLES
    replies,                \* the answers to this run's updates
    next_up, kept_offset,   \* updates handled, and the stored offset
    jobs, sending,          \* the queue, and what each thread does
    screen,                 \* the edit each screen shows
    mishaps, tally, again, swept, raced, ahead      \* history

replyVars == <<replies, next_up, kept_offset, jobs, sending, screen, mishaps, tally, again, swept, raced, ahead>>

Answers  == 1..Len(replies)
Screens  == {replies[n].screen : n \in Answers}
Outcomes == {"shown", "unanswered", "unreachable", "limited", "refused"}
Free     == [step |-> "get", n |-> 0]
Edits(c) == {n \in Answers : replies[n].edit /\ replies[n].screen = c}
InFlight == {sending[w].n : w \in SendWorkers} \ {0}
Open     == InFlight \cup ToSet(jobs)

ReplyTypeOK ==
    /\ kept_offset \in 0..next_up /\ next_up \in 0..Len(replies) /\ ToSet(jobs) \subseteq Answers
    /\ \A w \in SendWorkers :
         /\ sending[w].step \in {"get", "first", "plain", "pause", "again", "again_plain"}
         /\ sending[w].step = "get" <=> sending[w].n = 0
    /\ \A c \in Screens : screen[c] \in {0} \cup Edits(c)
    /\ again \cup swept \subseteq Answers /\ raced \subseteq Screens

Init ==
    /\ replies \in Scripts
    /\ next_up = 0 /\ kept_offset = 0 /\ jobs = <<>> /\ sending = [w \in SendWorkers |-> Free]
    /\ screen = [c \in Screens |-> 0]
    /\ mishaps = 0 /\ tally = [n \in Answers |-> [o \in Outcomes |-> 0]]
    /\ again = {} /\ swept = {} /\ raced = {} /\ ahead = 0

Mishap == mishaps < MaxMishaps /\ mishaps' = mishaps + 1

----------------------------------------------------------------------------
(* The poller: an update's answer is queued; the offset is stored after the batch.   *)
handle ==
    /\ next_up < Len(replies) /\ next_up' = next_up + 1 /\ jobs' = Append(jobs, next_up + 1)
    /\ UNCHANGED <<kept_offset, sending, screen, mishaps, tally, again, swept, raced, ahead>>
save_offset ==
    /\ kept_offset # next_up /\ kept_offset' = next_up
    /\ UNCHANGED <<next_up, jobs, sending, screen, mishaps, tally, again, swept, raced, ahead>>
(* An error that leaves poll_once: the loop polls the same updates once more.         *)
Unsaved == (kept_offset + 1)..next_up
poll_fails ==
    /\ Mishap /\ next_up' = kept_offset /\ again' = again \cup Unsaved
    /\ UNCHANGED <<kept_offset, jobs, sending, screen, tally, swept, raced, ahead>>
(* The bot stops, by close() or otherwise: the threads are daemons, nobody waits for   *)
(* the queue.                                                                     *)
stop ==
    /\ Mishap /\ next_up' = kept_offset /\ again' = again \cup Unsaved
    /\ swept' = swept \cup (Open \ Unsaved) /\ jobs' = <<>> /\ sending' = [w \in SendWorkers |-> Free]
    /\ UNCHANGED <<kept_offset, screen, tally, raced, ahead>>

----------------------------------------------------------------------------
(* A thread: take the oldest answer, send it, and act on what Telegram says.        *)
get(w) ==
    /\ sending[w].step = "get" /\ jobs # <<>>
    /\ LET n == Head(jobs)
           c == replies[n].screen
       IN  /\ sending' = [sending EXCEPT ![w] = [step |-> "first", n |-> n]]
           /\ raced' = IF n \in Edits(c) /\ InFlight \cap Edits(c) # {} THEN raced \cup {c} ELSE raced
    /\ jobs' = Tail(jobs)
    /\ UNCHANGED <<next_up, kept_offset, screen, mishaps, tally, again, swept, ahead>>

(* What may come back: an answer with faulty HTML is refused whenever it arrives.    *)
Formatted(j) == replies[j.n].html /\ j.step \in {"first", "again"}
Faulty(j)    == Formatted(j) /\ replies[j.n].bad
Possible(j)  == IF Faulty(j) THEN {"unreachable", "limited", "refused"} ELSE Outcomes
Arrives(o)   == o \in {"shown", "unanswered"}

(* _do sends an answer again without its HTML when no HTTP status came back; a status  *)
(* goes to _run, which knows 429 only, and only the first time.                      *)
OnceMore(j) == IF j.step = "first" THEN "plain" ELSE "again_plain"
AfterDropped(j, o) ==
    IF o \in {"unanswered", "unreachable"} /\ Formatted(j) /\ ~replies[j.n].edit
    THEN [j EXCEPT !.step = OnceMore(j)] ELSE Free
After(j, o) ==
    IF o \in {"unanswered", "unreachable"} /\ Formatted(j) /\ ~replies[j.n].edit
    THEN [j EXCEPT !.step = OnceMore(j)]
    ELSE IF o = "limited" /\ j.step \in {"first", "plain"} THEN [j EXCEPT !.step = "pause"]
    ELSE Free

do(w) ==
    /\ sending[w].step \in {"first", "plain", "again", "again_plain"}
    /\ LET j == sending[w]
           c == replies[j.n].screen
       IN  \E o \in Possible(j) :
              /\ IF o = "shown" \/ (o = "refused" /\ Faulty(j)) THEN UNCHANGED mishaps ELSE Mishap
              /\ sending' = [sending EXCEPT ![w] = After(j, o)]
              /\ tally' = [tally EXCEPT ![j.n][o] = @ + 1]
              /\ screen' = IF Arrives(o) /\ replies[j.n].edit THEN [screen EXCEPT ![c] = j.n] ELSE screen
              /\ ahead' = IF Arrives(o) /\ again = {}
                          THEN Max({ahead, Cardinality({m \in Open : m < j.n})}) ELSE ahead
    /\ UNCHANGED <<next_up, kept_offset, jobs, again, swept, raced>>
(* Retry-After is over.                                                            *)
resume(w) ==
    /\ sending[w].step = "pause" /\ sending' = [sending EXCEPT ![w].step = "again"]
    /\ UNCHANGED <<next_up, kept_offset, jobs, screen, mishaps, tally, again, swept, raced, ahead>>

Next ==
    /\ \/ handle \/ save_offset \/ poll_fails \/ stop
       \/ \E w \in SendWorkers : get(w) \/ do(w) \/ resume(w)
    /\ UNCHANGED replies

----------------------------------------------------------------------------
Times(n) == tally[n]["shown"] + tally[n]["unanswered"]
Plain(n) == replies[n].edit \/ ~replies[n].html

(* An answer is read twice only when its update was handled again, or when it had     *)
(* HTML and Telegram's word was lost.                                             *)
ReadOnce ==
    \A n \in Answers : Times(n) > 1 => n \in again \/ (~Plain(n) /\ tally[n]["unanswered"] > 0)

(* An answer that is done with and was not read was refused, was dropped by a stop, or  *)
(* failed twice; one failure is enough without a status for what has no HTML to shed. *)
NoneLost ==
    \A n \in 1..next_up \ Open :
        Times(n) = 0 =>
            \/ n \in swept \/ tally[n]["refused"] > 0
            \/ tally[n]["unreachable"] + tally[n]["limited"] >= 2
            \/ Plain(n) /\ tally[n]["unreachable"] > 0

(* Threads pass each other: fewer answers than there are other threads can be behind  *)
(* one that was queued later.                                                      *)
FewOvertaken == ahead < Cardinality(SendWorkers)

(* A screen shows its newest edit, unless two edits of it were sent at one time.      *)
NewestShown ==
    \A c \in Screens \ raced :
        again = {} => screen[c] = Max({0} \cup {n \in Edits(c) : Times(n) > 0})

RepliesFaithful == ReadOnce /\ NoneLost /\ FewOvertaken /\ NewestShown
=============================================================================
