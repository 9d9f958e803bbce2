--------------------------- MODULE MCKeeperOrders ---------------------------
(* Small instances of KeeperOrders.                                           *)
EXTENDS KeeperOrders

CONSTANTS a, b, c
(* a and b were signed with one nonce; c expires earlier and has no job *)
MCNonceOf(s)    == IF s = c THEN 2 ELSE 1
MCDeadlineOf(s) == IF s = c THEN 1 ELSE 2
MCHasJob(s)     == s = a
=============================================================================
