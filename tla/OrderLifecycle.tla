--------------------------- MODULE OrderLifecycle ---------------------------
(* What the order keeper promises its users, without workers, transactions or *)
(* failures: an order is pending until it is filled on chain and reported so, *)
(* or until it is given up, and one that was given up is never filled.        *)
CONSTANTS Orders
VARIABLES
    state      \* of each order: what the API reports and whether it is filled

States == {"none", "pending", "filledUnreported", "filled", "givenUp"}

Init == state = [o \in Orders |-> "none"]

Step(o, from, to) == state[o] = from /\ state' = [state EXCEPT ![o] = to]

Accept(o) == Step(o, "none", "pending")
Execute(o) == Step(o, "pending", "filledUnreported")
Report(o) == Step(o, "filledUnreported", "filled")

(* Overdue orders are given up together. *)
GiveUp(S) ==
    /\ S # {} /\ \A o \in S : state[o] = "pending"
    /\ state' = [o \in Orders |-> IF o \in S THEN "givenUp" ELSE state[o]]

Next == \/ \E o \in Orders : Accept(o) \/ Execute(o) \/ Report(o)
        \/ \E S \in SUBSET Orders : GiveUp(S)

Spec == Init /\ [][Next]_state

(* Every accepted order is eventually reported or given up. *)
Settles == \A o \in Orders : state[o] = "pending" ~> state[o] \in {"filled", "givenUp"}
=============================================================================
