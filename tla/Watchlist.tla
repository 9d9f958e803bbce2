------------------------------- MODULE Watchlist -------------------------------
(* What one chat watches, and the three who change it: the command thread          *)
(* (commands.py: poll_once), the wallet worker (wallet_track.py: scan_wallets) and   *)
(* the fills of the signing server (store.py: record_fill).  Each has a database     *)
(* connection of its own; the list of tokens is read, changed and written back in    *)
(* two steps.  Updates of Telegram are numbered from 1.                              *)
EXTENDS Integers, Sequences, FiniteSets, FiniteSetsExt

CONSTANTS
    Tokens,
    MAX_TOKENS,                       \* tokens a user may subscribe by hand
    MaxUpdates, MaxEvents             \* commands; trades and faults

VARIABLES
    tokens, auto_subs, linked, tg_offset,      \* the database
    open_position,                         \* tokens the bot wallet holds
    inbox,                                     \* commands sent so far
    bot, scan, fill, passing,                  \* the three threads; a scan of the link's under way
    changes, ufaults,
    handled, backlog, wanted, clobbered, crossed, leftover, dropped      \* history

watchVars == <<tokens, auto_subs, linked, passing, tg_offset, open_position, inbox, bot, scan, fill, changes,
               ufaults, handled, backlog, wanted, clobbered, crossed, leftover, dropped>>

Commands == [name : {"subscribe", "subscribe_recent", "unsubscribe"}, token : Tokens]
            \cup [name : {"unlink_wallet"}, token : {0}]
Away == [step |-> "rest", token |-> 0, list |-> {}]
NoPoll == [step |-> "rest", token |-> 0, list |-> {}, at |-> 0, upto |-> 0, left |-> {}]
Updates == 1..MaxUpdates
MayHappen == changes + ufaults < MaxEvents

WatchlistTypeOK ==
    /\ tokens \subseteq Tokens /\ auto_subs \subseteq Tokens /\ linked \in BOOLEAN /\ passing \in BOOLEAN
    /\ open_position \subseteq Tokens
    /\ \A u \in 1..Len(inbox) : inbox[u] \in Commands
    /\ tg_offset \in 0..Len(inbox) /\ bot.at <= bot.upto /\ bot.upto <= Len(inbox)
    /\ \A p \in {bot, scan, fill} : p.list \subseteq Tokens /\ p.token \in Tokens \cup {0}
    /\ handled \in [Updates -> Nat] /\ changes + ufaults \in 0..MaxEvents

(* A chat that linked a wallet and does not hold or watch anything yet.             *)
Init ==
    /\ tokens = {} /\ auto_subs = {} /\ linked = TRUE /\ passing = FALSE /\ tg_offset = 0
    /\ open_position = {} /\ inbox = <<>>
    /\ bot = NoPoll /\ scan = Away /\ fill = Away
    /\ changes = 0 /\ ufaults = 0
    /\ handled = [u \in Updates |-> 0] /\ backlog = {} /\ wanted = {}
    /\ clobbered = {} /\ crossed = {} /\ leftover = {} /\ dropped = {}

----------------------------------------------------------------------------
(* The user sends a command; one that comes while others are carried out is not seen  *)
(* before the next poll, as if it came after them.                                  *)
Send(c) ==
    /\ bot.step \in {"rest", "poll"} /\ Len(inbox) < MaxUpdates /\ inbox' = Append(inbox, c)
    /\ UNCHANGED <<tokens, auto_subs, linked, passing, tg_offset, open_position, bot, scan, fill,
                   changes, ufaults, handled, backlog, wanted, clobbered, dropped>>
(* What a write of list puts into the table, against what its author meant; only the  *)
(* user's own command for a token makes good what an earlier write lost.             *)
Write(list, meant, own) ==
    /\ tokens' = list
    /\ clobbered' = (clobbered \ own) \cup SymDiff(list, meant)

----------------------------------------------------------------------------
(* poll_once.  As long as no offset is stored, what waits is skipped.               *)
skip_backlog ==
    /\ bot.step = "rest" /\ bot' = [NoPoll EXCEPT !.step = "poll"]
    /\ tg_offset' = IF tg_offset = 0 THEN Len(inbox) ELSE tg_offset
    /\ backlog' = IF tg_offset = 0 THEN backlog \cup 1..Len(inbox) ELSE backlog
    /\ UNCHANGED <<tokens, auto_subs, linked, passing, open_position, inbox, scan, fill, changes,
                   ufaults, handled, wanted, clobbered, dropped>>
get_updates ==
    /\ bot.step = "poll"
    /\ bot' = [bot EXCEPT !.step = "next", !.at = tg_offset, !.upto = Len(inbox)]
    /\ UNCHANGED <<tokens, auto_subs, linked, passing, tg_offset, open_position, inbox, scan, fill,
                   changes, ufaults, handled, backlog, wanted, clobbered, dropped>>
save_offset ==
    /\ bot.step = "next" /\ bot.at = bot.upto
    /\ tg_offset' = bot.upto /\ bot' = NoPoll
    /\ UNCHANGED <<tokens, auto_subs, linked, passing, open_position, inbox, scan, fill, changes,
                   ufaults, handled, backlog, wanted, clobbered, dropped>>

Cmd == inbox[bot.at + 1]
Doing(name) == bot.at < bot.upto /\ Cmd.name = name
Adding == Doing("subscribe") \/ Doing("subscribe_recent")
Done == [bot EXCEPT !.step = "next", !.token = 0, !.list = {}, !.left = {}, !.at = @ + 1]
Answered == handled' = [handled EXCEPT ![bot.at + 1] = @ + 1]

(* add_token and remove_token: the list is read ...                                 *)
read_list ==
    /\ bot.step = "next" /\ (Adding \/ Doing("unsubscribe"))
    /\ bot' = [bot EXCEPT !.step = "write", !.token = Cmd.token, !.list = tokens]
    /\ UNCHANGED <<tokens, auto_subs, linked, passing, tg_offset, open_position, inbox, scan, fill,
                   changes, ufaults, handled, backlog, wanted, clobbered, dropped>>

(* ... and refused when it is full, or written back with the token; only /subscribe  *)
(* goes on to make the subscription one by hand.                                    *)
Refused == bot.token \notin bot.list /\ Cardinality(bot.list) >= MAX_TOKENS
add_token ==
    /\ bot.step = "write" /\ Adding
    /\ IF Refused \/ bot.token \in bot.list THEN UNCHANGED <<tokens, clobbered>>
       ELSE Write(bot.list \cup {bot.token}, tokens \cup {bot.token}, {bot.token})
    /\ IF Doing("subscribe") /\ ~Refused
       THEN /\ bot' = [bot EXCEPT !.step = "promote"]
            /\ UNCHANGED <<handled, wanted>>
       ELSE /\ bot' = Done /\ Answered
            /\ wanted' = IF Refused \/ bot.token \in bot.list THEN wanted ELSE wanted \cup {bot.token}
    /\ dropped' = IF Refused \/ bot.token \in bot.list THEN dropped ELSE dropped \ {bot.token}
    /\ UNCHANGED <<auto_subs, linked, passing, tg_offset, open_position, inbox, scan, fill, changes,
                   ufaults, backlog>>
promote_to_manual ==
    /\ bot.step = "promote"
    /\ auto_subs' = auto_subs \ {bot.token}
    /\ wanted' = wanted \cup {bot.token}
    /\ bot' = Done /\ Answered
    /\ UNCHANGED <<tokens, linked, passing, tg_offset, open_position, inbox, scan, fill, changes,
                   ufaults, backlog, clobbered, dropped>>
(* /unsubscribe leaves the mark of an automatic subscription.                       *)
remove_token ==
    /\ bot.step = "write" /\ Doing("unsubscribe")
    /\ IF bot.token \in bot.list
       THEN /\ Write(bot.list \ {bot.token}, tokens \ {bot.token}, {bot.token})
            /\ wanted' = wanted \ {bot.token} /\ dropped' = dropped \cup {bot.token}
       ELSE UNCHANGED <<tokens, clobbered, wanted, dropped>>
    /\ bot' = Done /\ Answered
    /\ UNCHANGED <<auto_subs, linked, passing, tg_offset, open_position, inbox, scan, fill, changes,
                   ufaults, backlog>>

(* unlink_wallet: every automatic subscription, one by one, then their marks and the *)
(* link in one commit.                                                              *)
unlink_list ==
    /\ bot.step = "next" /\ Doing("unlink_wallet")
    /\ bot' = [bot EXCEPT !.step = "unlink", !.left = auto_subs]
    /\ UNCHANGED <<tokens, auto_subs, linked, passing, tg_offset, open_position, inbox, scan, fill,
                   changes, ufaults, handled, backlog, wanted, clobbered, dropped>>
unlink_read(t) ==
    /\ bot.step = "unlink" /\ t \in bot.left
    /\ bot' = [bot EXCEPT !.step = "unlinkWrite", !.token = t, !.list = tokens, !.left = @ \ {t}]
    /\ UNCHANGED <<tokens, auto_subs, linked, passing, tg_offset, open_position, inbox, scan, fill,
                   changes, ufaults, handled, backlog, wanted, clobbered, dropped>>
unlink_write ==
    /\ bot.step = "unlinkWrite"
    /\ IF bot.token \in bot.list THEN Write(bot.list \ {bot.token}, tokens \ {bot.token}, {})
       ELSE UNCHANGED <<tokens, clobbered>>
    /\ dropped' = dropped \cup {bot.token}
    /\ bot' = [bot EXCEPT !.step = "unlink", !.token = 0, !.list = {}]
    /\ UNCHANGED <<auto_subs, linked, passing, tg_offset, open_position, inbox, scan, fill, changes,
                   ufaults, handled, backlog, wanted>>
unlink_wallet ==
    /\ bot.step = "unlink" /\ bot.left = {}
    /\ auto_subs' = {} /\ linked' = FALSE /\ passing' \in BOOLEAN
    /\ bot' = Done /\ Answered
    /\ UNCHANGED <<tokens, tg_offset, open_position, inbox, scan, fill, changes, ufaults, backlog,
                   wanted, clobbered, dropped>>

(* The poll raises or the process stops: the offset was not stored.                 *)
poll_fails ==
    /\ bot.step # "rest" /\ MayHappen /\ ufaults' = ufaults + 1
    /\ bot' = NoPoll
    /\ UNCHANGED <<tokens, auto_subs, linked, passing, tg_offset, open_position, inbox, scan, fill,
                   changes, handled, backlog, wanted, clobbered, dropped>>

(* An exception in a command is answered with a message: what was written stays, the *)
(* rest is left out, and the update counts as carried out.                          *)
command_fails ==
    /\ bot.step \notin {"rest", "poll"} /\ bot.at < bot.upto
    /\ MayHappen /\ ufaults' = ufaults + 1
    /\ bot' = Done /\ Answered
    /\ UNCHANGED <<tokens, auto_subs, linked, passing, tg_offset, open_position, inbox, scan, fill,
                   changes, backlog, wanted, clobbered, dropped>>

----------------------------------------------------------------------------
(* add_auto_sub and remove_auto_sub, by a thread that saw t held or not: the list is   *)
(* read, for a removal only if the mark is there (is_auto_sub), and written later.    *)
Followed(t) == [step |-> "add", token |-> t, list |-> tokens]
UnfollowedAlways(t) == [step |-> "remove", token |-> t, list |-> tokens]
Unfollowed(t) == IF t \in auto_subs THEN [step |-> "remove", token |-> t, list |-> tokens] ELSE Away
Automatic(p, p2) ==
    \/ /\ p.step = "held" /\ p2 = Followed(p.token)
       /\ UNCHANGED <<tokens, auto_subs, clobbered, dropped>>
    \/ /\ p.step = "sold" /\ p2 = Unfollowed(p.token)
       /\ UNCHANGED <<tokens, auto_subs, clobbered, dropped>>
    \/ /\ p.step = "add"
       /\ IF p.token \in p.list
          THEN /\ p2 = Away /\ UNCHANGED <<tokens, clobbered, dropped>>
          ELSE /\ Write(p.list \cup {p.token}, tokens \cup {p.token}, {})
               /\ p2 = [p EXCEPT !.step = "mark", !.list = {}]
               /\ dropped' = dropped \ {p.token}
       /\ UNCHANGED auto_subs
    \/ /\ p.step = "mark"
       /\ auto_subs' = auto_subs \cup {p.token} /\ p2 = Away
       /\ UNCHANGED <<tokens, clobbered, dropped>>
    \/ /\ p.step = "remove"
       /\ IF p.token \in p.list THEN Write(p.list \ {p.token}, tokens \ {p.token}, {})
          ELSE UNCHANGED <<tokens, clobbered>>
       /\ dropped' = dropped \cup {p.token}
       /\ p2 = [p EXCEPT !.step = "unmark", !.list = {}]
       /\ UNCHANGED auto_subs
    \/ /\ p.step = "unmark"
       /\ auto_subs' = auto_subs \ {p.token} /\ p2 = Away
       /\ UNCHANGED <<tokens, clobbered, dropped>>

(* scan_wallets asks for the balance of each token of the linked wallet, which may    *)
(* have traded anywhere.                                                            *)
look(t) ==
    /\ scan.step = "rest" /\ (linked \/ passing)
    /\ MayHappen /\ changes' = changes + 1
    /\ scan' \in {Followed(t), Unfollowed(t)}
    /\ UNCHANGED <<tokens, auto_subs, linked, passing, tg_offset, open_position, inbox, bot, fill,
                   ufaults, handled, backlog, wanted, clobbered, dropped>>
scan_wallets ==
    /\ Automatic(scan, scan')
    /\ UNCHANGED <<linked, passing, tg_offset, open_position, inbox, bot, fill, changes, ufaults,
                   handled, backlog, wanted>>

(* record_fill: the position is committed, then the subscription follows it.        *)
record_fill(t) ==
    /\ fill.step = "rest" /\ MayHappen /\ changes' = changes + 1
    /\ open_position' = SymDiff(open_position, {t})
    /\ fill' = [Away EXCEPT !.step = IF t \in open_position THEN "sold" ELSE "held", !.token = t]
    /\ UNCHANGED <<tokens, auto_subs, linked, passing, tg_offset, inbox, bot, scan, ufaults,
                   handled, backlog, wanted, clobbered, dropped>>
follow_fill ==
    /\ Automatic(fill, fill')
    /\ UNCHANGED <<linked, passing, tg_offset, open_position, inbox, bot, scan, changes, ufaults,
                   handled, backlog, wanted>>

(* What follows a fill may fail without anyone noticing.                            *)
follow_fails ==
    /\ fill.step # "rest" /\ MayHappen /\ ufaults' = ufaults + 1
    /\ fill' = Away /\ dropped' = dropped \cup {fill.token}
    /\ UNCHANGED <<tokens, auto_subs, linked, passing, tg_offset, open_position, inbox, bot, scan,
                   changes, handled, backlog, wanted, clobbered>>

Poll ==
    \/ skip_backlog \/ get_updates \/ save_offset \/ read_list \/ add_token \/ remove_token
    \/ unlink_list \/ unlink_write \/ unlink_wallet \/ poll_fails \/ command_fails
    \/ \E t \in Tokens : unlink_read(t)
Step ==
    \/ \E c \in Commands : Send(c)
    \/ \E t \in Tokens : look(t) \/ record_fill(t)
    \/ Poll \/ scan_wallets \/ follow_fill \/ follow_fails

(* Two of the three that work on one token at the same time.                         *)
Meets(b, s, f) == {t \in Tokens : \/ t \in b.left \cup {b.token} /\ t \in {s.token, f.token}
                                  \/ t = s.token /\ t = f.token}
Next ==
    /\ \/ Step /\ leftover' = leftover \cup (auto_subs' \ tokens')
       \/ promote_to_manual /\ leftover' = leftover \ {bot.token}
    /\ crossed' = crossed \cup Meets(bot', scan', fill')
Spec == Init /\ [][Next]_watchVars

----------------------------------------------------------------------------
(* A subscription by hand stays until the user ends it, but for a write of a list    *)
(* that another thread had changed, a removal or a mark of the same token under way   *)
(* with the command, and a token added by /subscribe_recent on which /unsubscribe     *)
(* had left the mark.                                                               *)
ManualStays == wanted \subseteq tokens \cup clobbered \cup crossed \cup leftover

(* A token of an open position is watched, but for a user who ended it, a linked      *)
(* wallet that sold it, a lost write, and a fill not yet followed.                    *)
HeldIsWatched ==
    open_position \subseteq tokens \cup clobbered \cup dropped \cup {fill.token}

(* A command is carried out once, and again only when its poll broke off; none before *)
(* the stored offset was left out but the ones skipped before an offset was stored.   *)
CommandsOnce ==
    /\ ufaults = 0 => \A u \in Updates : handled[u] <= 1
    /\ \A u \in 1..tg_offset : handled[u] > 0 \/ u \in backlog

WatchlistFaithful == ManualStays /\ HeldIsWatched /\ CommandsOnce
=============================================================================
