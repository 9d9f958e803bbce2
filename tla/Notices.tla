------------------------------ MODULE Notices ------------------------------
(* What the bot's threads send of their own accord: the watcher of bridged deposits  *)
(* polls a wallet's balance and tells its owner of an increase (bot/bridge.py), and    *)
(* all threads wait at one throttle, which has no lock (bot/throttle.py,              *)
(* bot/telegram.py:641, 825, 844).  The chain, its node and the threads' schedule are *)
(* external; the texts are left out.                                              *)
EXTENDS Integers, FiniteSets, FiniteSetsExt

CONSTANTS
    Owner,                      \* the chat whose wallet is watched
    Recipients,                 \* all chats
    OtherSenders,               \* the loop, the copy engine
    GlobalPause, ChatPause,     \* ticks between two messages, and between two to one chat
    MinNotify, MaxCredits, MaxSpends, MaxStumbles, MaxTicks

VARIABLES
    balance, baseline, watcher,             \* the wallet, the stored balance, the watcher
    clock_tick, last_global, last_chat, waits,    \* the throttle and who is in it
    credits_seen, spent, said, small,       \* history: sums
    stumbles, misread, unsaid, passed, hasty

noticeVars == <<balance, baseline, watcher, clock_tick, last_global, last_chat, waits, credits_seen,
                spent, said, small, stumbles, misread, unsaid, passed, hasty>>

Unknown == -1
Senders == OtherSenders \cup {"bridge"}
Asleep  == [step |-> "sleep", read |-> 0, news |-> 0]
Out     == [in |-> FALSE, chat |-> Owner, from |-> 0, until |-> 0]
Never   == -(GlobalPause + ChatPause)

NoticesTypeOK ==
    /\ balance \in Nat /\ baseline \in Nat \cup {Unknown} /\ clock_tick \in 0..MaxTicks
    /\ watcher.step \in {"sleep", "compare", "pause", "send"} /\ watcher.read \in Nat /\ watcher.news \in Nat
    /\ \A s \in Senders : waits[s].until >= waits[s].from /\ waits[s].chat \in Recipients
    /\ last_global <= clock_tick /\ \A c \in Recipients : last_chat[c] <= clock_tick

Init ==
    /\ balance = 1 /\ baseline = Unknown /\ watcher = Asleep
    /\ clock_tick = 0 /\ last_global = Never /\ last_chat = [c \in Recipients |-> Never]
    /\ waits = [s \in Senders |-> Out]
    /\ credits_seen = 0 /\ spent = 0 /\ said = 0 /\ small = 0
    /\ stumbles = 0 /\ misread = FALSE /\ unsaid = 0 /\ passed = {} /\ hasty = FALSE

throttleVars == <<last_global, last_chat, waits, passed, hasty>>
Stumble == stumbles < MaxStumbles /\ stumbles' = stumbles + 1

----------------------------------------------------------------------------
(* The wallet: USDC comes in, bridged or from a sale, and is spent.                  *)
Credit ==
    /\ \E n \in 1..(MaxCredits - credits_seen) :
          /\ balance' = balance + n
          /\ credits_seen' = credits_seen + n
    /\ UNCHANGED <<baseline, watcher, clock_tick, throttleVars, spent, said, small, stumbles, misread, unsaid>>
Spend ==
    /\ balance > 0 /\ spent < MaxSpends
    /\ balance' = balance - 1 /\ spent' = spent + 1
    /\ UNCHANGED <<baseline, watcher, clock_tick, throttleVars, credits_seen, said, small, stumbles, misread, unsaid>>
Tick ==
    /\ clock_tick < MaxTicks /\ clock_tick' = clock_tick + 1
    /\ UNCHANGED <<balance, baseline, watcher, throttleVars, credits_seen, spent, said, small, stumbles, misread, unsaid>>

----------------------------------------------------------------------------
(* The watcher.  A node that does not answer is a balance of zero.                    *)
erc20_balance ==
    /\ watcher.step = "sleep"
    /\ \/ /\ watcher' = [Asleep EXCEPT !.step = "compare", !.read = balance]
          /\ UNCHANGED <<stumbles, misread>>
       \/ /\ Stumble /\ misread' = TRUE
          /\ watcher' = [Asleep EXCEPT !.step = "compare"]
    /\ IF baseline = Unknown THEN credits_seen' = 0 /\ spent' = 0 ELSE UNCHANGED <<credits_seen, spent>>
    /\ UNCHANGED <<balance, baseline, clock_tick, throttleVars, said, small, unsaid>>
deposit_delta(old, new) == Max({0, new - old})
poll_deposits ==
    /\ watcher.step = "compare"
    /\ LET news == IF baseline = Unknown THEN 0 ELSE deposit_delta(baseline, watcher.read)
       IN  /\ watcher' = IF news >= MinNotify THEN [Asleep EXCEPT !.step = "pause", !.news = news]
                         ELSE Asleep
           /\ small' = IF news < MinNotify THEN small + news ELSE small
    /\ baseline' = watcher.read
    /\ UNCHANGED <<balance, clock_tick, throttleVars, credits_seen, spent, said, stumbles, misread, unsaid>>
(* The balance is stored before the message: one that fails is not sent again.         *)
tell ==
    /\ watcher.step = "send" /\ watcher' = Asleep
    /\ \/ said' = said + watcher.news /\ UNCHANGED <<stumbles, unsaid>>
       \/ Stumble /\ unsaid' = unsaid + watcher.news /\ UNCHANGED said
    /\ UNCHANGED <<balance, baseline, clock_tick, throttleVars, credits_seen, spent, small, misread>>
(* The process stops: the throttle starts afresh, the stored balance stays.            *)
crash ==
    /\ watcher # Asleep /\ Stumble
    /\ watcher' = Asleep /\ unsaid' = unsaid + watcher.news
    /\ last_global' = Never /\ last_chat' = [c \in Recipients |-> Never]
    /\ waits' = [s \in Senders |-> Out] /\ passed' = {}
    /\ UNCHANGED <<balance, baseline, clock_tick, credits_seen, spent, said, small, misread, hasty>>

----------------------------------------------------------------------------
(* Throttle.wait: how long to sleep is computed from the times last given out; after   *)
(* the sleep the time is given out without another look.                            *)
UntilGlobal(c) == Max({clock_tick, last_global + GlobalPause})
Until(c) == Max({clock_tick, last_global + GlobalPause, last_chat[c] + ChatPause})
Turn(s, c) == s # "bridge" \/ (watcher.step = "pause" /\ c = Owner)
wait(s, c) ==
    /\ ~waits[s].in /\ Turn(s, c)
    /\ waits' = [waits EXCEPT ![s] = [in |-> TRUE, chat |-> c, from |-> clock_tick, until |-> Until(c)]]
    /\ passed' = passed \ {s}
    /\ UNCHANGED <<balance, baseline, watcher, clock_tick, last_global, last_chat, credits_seen, spent,
                   said, small, stumbles, misread, unsaid, hasty>>
Given(r) == IF r.until > r.from THEN clock_tick ELSE r.from
give(s) ==
    /\ waits[s].in /\ clock_tick >= waits[s].until
    /\ LET r == waits[s]
       IN  /\ last_global' = Given(r) /\ last_chat' = [last_chat EXCEPT ![r.chat] = Given(r)]
           /\ hasty' = (hasty \/ (s \notin passed /\ \/ Given(r) < last_global + GlobalPause
                                                     \/ Given(r) < last_chat[r.chat] + ChatPause))
    /\ passed' = passed \cup {t \in Senders \ {s} : waits[t].in}
    /\ waits' = [waits EXCEPT ![s] = Out]
    /\ watcher' = IF s = "bridge" THEN [watcher EXCEPT !.step = "send"] ELSE watcher
    /\ UNCHANGED <<balance, baseline, clock_tick, credits_seen, spent, said, small, stumbles, misread, unsaid>>

Next ==
    \/ Credit \/ Spend \/ Tick \/ erc20_balance \/ poll_deposits \/ tell \/ crash
    \/ \E s \in Senders : give(s) \/ \E c \in Recipients : wait(s, c)

----------------------------------------------------------------------------
(* The times the throttle gives out keep their pauses, unless another thread was given *)
(* one while this one waited.                                                     *)
PausesKept == ~hasty

(* An owner is told of no more than came in, unless a balance could not be read.       *)
ToldIsCredited == ~misread => said <= credits_seen

(* Of what came in nothing goes untold but what was spent before the watcher looked,    *)
(* increases too small to tell, and a message that failed or a stop swallowed.        *)
CreditsTold ==
    watcher = Asleep /\ baseline # Unknown =>
        said + small + unsaid + deposit_delta(baseline, balance) + spent >= credits_seen

NoticesFaithful == PausesKept /\ ToldIsCredited /\ CreditsTold
=============================================================================
