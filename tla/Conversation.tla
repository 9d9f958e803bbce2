------------------------------ MODULE Conversation ------------------------------
(* What one chat tells the bot by buttons and by bare answers (commands.py:           *)
(* _handle_callback, command_reply_rich), while the mini-app (sign_server.py) and the   *)
(* copy engine write some of the same settings.  A question leaves a note that the next  *)
(* message is its answer.  Updates are handled in order; the offset is stored after     *)
(* the whole batch.                                                                 *)
EXTENDS Integers, Sequences, FiniteSets, SequencesExt

CONSTANTS
    AlertKinds,                                  \* kinds of alerts, ALL_KINDS
    MaxPosts, MaxTroubles                   \* updates; crashes, failures and the others' writes

VARIABLES
    note, kinds, copy_settings, autoprotect,         \* the database
    posts, offset, poller,                           \* the updates, and the poll
    webapp, copier,                                  \* the mini-app's request, the engine's pass
    troubles,
    did, applied, failed, meant, tangled, chosen, forced      \* history

chatVars == <<note, kinds, copy_settings, autoprotect, posts, offset, poller, webapp, copier, troubles,
              did, applied, failed, meant, tangled, chosen, forced>>
Ghosts == <<did, applied, failed, meant, tangled, chosen, forced>>

CopyQuestions == {"wallet", "size"}
Questions == CopyQuestions \cup {"amount", "connect"}
Switches  == {"guard", "autoprotect"}
Answers   == {"address", "number", "command"}      \* a command, typed or by its button
Posts     == Questions \cup Switches \cup AlertKinds \cup {"buy"} \cup Answers
RowWrites == {"guard", "size"}                     \* what is written by set_copy_settings
Effect(q) == CASE q = "wallet" -> "follow" [] q = "size" -> "size" [] q = "amount" -> "buy"
               [] q = "connect" -> "link" [] OTHER -> "none"
Fits(q, a) == \/ a = "address" /\ q \in {"wallet", "connect"}
              \/ a = "number" /\ q \in {"size", "amount"}
P == 1..MaxPosts
NoRow   == [size |-> 0, guard |-> TRUE]
Resting == [step |-> "rest", at |-> 0, upto |-> 0, does |-> "", value |-> FALSE, row |-> NoRow]
Quiet   == [step |-> "rest", row |-> NoRow]

ConversationTypeOK ==
    /\ note \in [copy : CopyQuestions \cup {""}, amount : BOOLEAN, wallet : BOOLEAN]
    /\ kinds \subseteq AlertKinds \cup {"none"} /\ copy_settings \in [size : 0..2, guard : BOOLEAN]
    /\ \A i \in 1..Len(posts) : posts[i] \in Posts
    /\ offset \in 0..Len(posts) /\ poller.at <= poller.upto
    /\ poller.step \in {"rest", "next", "row", "write"} /\ webapp.step \in {"rest", "write"}
    /\ troubles \in 0..MaxTroubles /\ applied \in [P -> Nat]

Init ==
    /\ note = [copy |-> "", amount |-> FALSE, wallet |-> FALSE] /\ kinds = {} /\ autoprotect = TRUE
    /\ copy_settings = [size |-> 0, guard |-> TRUE]
    /\ posts = <<>> /\ offset = 0 /\ poller = Resting /\ webapp = Quiet /\ copier = "rest" /\ troubles = 0
    /\ did = [u \in P |-> ""] /\ applied = [u \in P |-> 0] /\ failed = {}
    /\ meant = copy_settings /\ tangled = FALSE /\ chosen = TRUE /\ forced = FALSE

----------------------------------------------------------------------------
Send(p) ==
    /\ Len(posts) < MaxPosts /\ poller.step = "rest" /\ posts' = Append(posts, p)
    /\ UNCHANGED <<note, kinds, copy_settings, autoprotect, offset, poller, webapp, copier, troubles, Ghosts>>
get_updates ==
    /\ poller.step = "rest" /\ offset < Len(posts)
    /\ poller' = [Resting EXCEPT !.step = "next", !.at = offset, !.upto = Len(posts)]
    /\ UNCHANGED <<note, kinds, copy_settings, autoprotect, posts, offset, webapp, copier, troubles, Ghosts>>
save_offset ==
    /\ poller.step = "next" /\ poller.at = poller.upto
    /\ offset' = poller.upto /\ poller' = Resting
    /\ UNCHANGED <<note, kinds, copy_settings, autoprotect, posts, webapp, copier, troubles, Ghosts>>

Current == poller.at + 1
Post == posts[Current]
Handling == poller.step = "next" /\ poller.at < poller.upto
Done == [poller EXCEPT !.step = "next", !.at = @ + 1, !.does = "", !.value = FALSE, !.row = NoRow]
First(e) == did' = IF did[Current] = "" THEN [did EXCEPT ![Current] = e] ELSE did
Applied == applied' = [applied EXCEPT ![Current] = @ + 1]

(* A question's note replaces the one of its kind.                                   *)
Ask ==
    /\ Handling /\ Post \in Questions
    /\ note' = CASE Post \in CopyQuestions -> [note EXCEPT !.copy = Post]
                 [] Post = "amount" -> [note EXCEPT !.amount = TRUE]
                 [] Post = "connect" -> [note EXCEPT !.wallet = TRUE]
    /\ poller' = Done /\ First("asked") /\ Applied
    /\ UNCHANGED <<kinds, copy_settings, autoprotect, posts, offset, webapp, copier, troubles, failed, meant,
                   tangled, chosen, forced>>

(* _toggle_kind: nothing stored stands for all kinds, "none" for none of them.        *)
_enabled_kinds == IF kinds = {} THEN AlertKinds ELSE kinds \ {"none"}
Stored(enabled) == IF enabled = AlertKinds THEN {} ELSE IF enabled = {} THEN {"none"} ELSE enabled
_toggle_kind ==
    /\ Handling /\ Post \in AlertKinds
    /\ kinds' = Stored(IF Post \in _enabled_kinds THEN _enabled_kinds \ {Post} ELSE _enabled_kinds \cup {Post})
    /\ poller' = Done /\ First("kind") /\ Applied
    /\ UNCHANGED <<note, copy_settings, autoprotect, posts, offset, webapp, copier, troubles, failed, meant,
                   tangled, chosen, forced>>

(* A switch is read and will be written the other way; a button that buys, buys.       *)
Press ==
    /\ Handling /\ Post \in Switches \cup {"buy"}
    /\ poller' = [poller EXCEPT !.step = IF Post = "guard" THEN "row" ELSE "write", !.does = Post,
                                !.value = ~(IF Post = "guard" THEN copy_settings.guard ELSE autoprotect)]
    /\ First(Post)
    /\ UNCHANGED <<note, kinds, copy_settings, autoprotect, posts, offset, webapp, copier, troubles, applied,
                   failed, meant, tangled, chosen, forced>>

(* A message answers the copy question that is noted, whatever it says; a number answers  *)
(* the question of an amount, an address the one of a wallet.  The note goes first.     *)
Routed == IF note.copy # "" THEN IF Fits(note.copy, Post) THEN Effect(note.copy) ELSE "none"
          ELSE IF Post = "number" /\ note.amount THEN "buy"
          ELSE IF Post = "address" /\ note.wallet THEN "link" ELSE "none"
ClearedCopyOnly == [note EXCEPT !.copy = ""]
Cleared == IF note.copy # "" THEN [note EXCEPT !.copy = ""]
           ELSE [note EXCEPT !.amount = @ /\ Routed # "buy", !.wallet = @ /\ Routed # "link"]
Message ==
    /\ Handling /\ Post \in Answers
    /\ note' = Cleared /\ First(Routed)
    /\ poller' = IF Routed = "none" THEN Done
                 ELSE [poller EXCEPT !.step = IF Routed = "size" THEN "row" ELSE "write", !.does = Routed]
    /\ UNCHANGED <<kinds, copy_settings, autoprotect, posts, offset, webapp, copier, troubles, applied, failed,
                   meant, tangled, chosen, forced>>

(* set_copy_settings: the row is read ...                                             *)
read_row ==
    /\ poller.step = "row"
    /\ poller' = [poller EXCEPT !.step = "write", !.row = copy_settings]
    /\ tangled' = (tangled \/ webapp.step = "write")
    /\ UNCHANGED <<note, kinds, copy_settings, autoprotect, posts, offset, webapp, copier, troubles, did, applied,
                   failed, meant, chosen, forced>>
(* ... and written back whole.                                                       *)
Rewrite(row) == IF poller.does = "guard" THEN [row EXCEPT !.guard = poller.value] ELSE [row EXCEPT !.size = 1]
apply ==
    /\ poller.step = "write"
    /\ IF poller.does \in RowWrites
       THEN copy_settings' = Rewrite(poller.row) /\ meant' = Rewrite(meant)
       ELSE UNCHANGED <<copy_settings, meant>>
    /\ IF poller.does = "autoprotect"
       THEN autoprotect' = poller.value /\ chosen' = poller.value /\ forced' = FALSE
       ELSE UNCHANGED <<autoprotect, chosen, forced>>
    /\ poller' = Done /\ Applied
    /\ UNCHANGED <<note, kinds, posts, offset, webapp, copier, troubles, did, failed, tangled>>

(* An exception is answered with a message; a stop leaves the offset where it was.       *)
command_fails ==
    /\ poller.step \in {"row", "write"} /\ troubles < MaxTroubles /\ troubles' = troubles + 1
    /\ poller' = Done /\ failed' = failed \cup {Current}
    /\ UNCHANGED <<note, kinds, copy_settings, autoprotect, posts, offset, webapp, copier, did, applied, meant,
                   tangled, chosen, forced>>
crash ==
    /\ poller.step # "rest" /\ troubles < MaxTroubles /\ troubles' = troubles + 1
    /\ poller' = Resting
    /\ failed' = IF poller.step \in {"row", "write"} THEN failed \cup {Current} ELSE failed
    /\ UNCHANGED <<note, kinds, copy_settings, autoprotect, posts, offset, webapp, copier, did, applied, meant,
                   tangled, chosen, forced>>

----------------------------------------------------------------------------
(* POST /copy/settings, and the engine: a copied purchase turns the protection on if     *)
(* the settings its pass read ask for it.                                           *)
copy_settings_read ==
    /\ webapp.step = "rest" /\ troubles < MaxTroubles /\ troubles' = troubles + 1
    /\ webapp' = [step |-> "write", row |-> copy_settings]
    /\ tangled' = (tangled \/ (poller.step = "write" /\ poller.does \in RowWrites))
    /\ UNCHANGED <<note, kinds, copy_settings, autoprotect, posts, offset, poller, copier, did, applied, failed,
                   meant, chosen, forced>>
copy_settings_write ==
    /\ webapp.step = "write"
    /\ copy_settings' = [webapp.row EXCEPT !.size = 2] /\ meant' = [meant EXCEPT !.size = 2]
    /\ webapp' = Quiet
    /\ UNCHANGED <<note, kinds, autoprotect, posts, offset, poller, copier, troubles, did, applied, failed,
                   tangled, chosen, forced>>
start_pass ==
    /\ copier = "rest" /\ troubles < MaxTroubles /\ troubles' = troubles + 1
    /\ copier' = IF copy_settings.guard THEN "guarded" ELSE "plain"
    /\ UNCHANGED <<note, kinds, copy_settings, autoprotect, posts, offset, poller, webapp, Ghosts>>
copied_buy ==
    /\ copier # "rest" /\ copier' = "rest"
    /\ autoprotect' = (autoprotect \/ copier = "guarded") /\ forced' = (forced \/ copier = "guarded")
    /\ UNCHANGED <<note, kinds, copy_settings, posts, offset, poller, webapp, troubles, did, applied, failed,
                   meant, tangled, chosen>>

Next ==
    \/ \E p \in Posts : Send(p)
    \/ get_updates \/ save_offset \/ Ask \/ _toggle_kind \/ Press \/ Message \/ read_row \/ apply
    \/ command_fails \/ crash \/ copy_settings_read \/ copy_settings_write \/ start_pass \/ copied_buy

Spec == Init /\ [][Next]_chatVars

----------------------------------------------------------------------------
Handled == {u \in 1..Len(posts) : did[u] # ""}
(* An answer right after its question is taken for it, whatever else is still open, but   *)
(* for an older copy question, which takes the next message.                         *)
OlderCopyQuestion(u) ==
    \E v \in 1..(u - 2) : posts[v] \in CopyQuestions /\ \A x \in v..(u - 1) : posts[x] \notin Answers
AnswersMeetTheirQuestions ==
    \A u \in Handled \ {1} :
        Fits(posts[u - 1], posts[u]) =>
            \/ did[u] = Effect(posts[u - 1])
            \/ posts[u - 1] \notin CopyQuestions /\ OlderCopyQuestion(u)

(* A message does something only as the answer to a question that asks for such a one,     *)
(* and a question has one answer each time it is asked: a batch that is handled again     *)
(* carries out its buttons again, its answers only as far as it asks again.             *)
Times(what) == FoldLeft(LAMBDA n, u : IF posts[u] \in what THEN n + applied[u] ELSE n, 0, [u \in 1..Len(posts) |-> u])
OneAnswerEach ==
    \A a \in {"address", "number"} : Times({a}) <= Times({q \in Questions : Fits(q, a)})

(* Nothing that was handled is left undone, but what failed between its steps.            *)
NothingSkipped ==
    \A u \in 1..offset : did[u] = "none" \/ applied[u] > 0 \/ u \in failed

(* The kinds that are delivered (telegram.py: matches) are those pressed an even number   *)
(* of times, also when all or none of them are left.                                 *)
KindsAddUp == \A k \in AlertKinds : (kinds = {} \/ k \in kinds) <=> Times({k}) % 2 = 0

(* The copy settings have what was last written to each, but for two writers of the row    *)
(* at once; the protection is as the user chose, or on by a purchase copied since.       *)
SettingsKept ==
    /\ copy_settings = meant \/ tangled
    /\ autoprotect = chosen \/ (forced /\ autoprotect)

ConversationFaithful == /\ AnswersMeetTheirQuestions /\ OneAnswerEach
                        /\ NothingSkipped /\ KindsAddUp /\ SettingsKept
=============================================================================
