-------------------------- MODULE MCOrderExecutor --------------------------
(* Small instances of OrderExecutor: limit orders, and DCA intents.           *)
EXTENDS OrderExecutor

CONSTANTS u1, u2, usdc, eurc, other

Order(u, out, amount, minOut, nonce, deadline) ==
    [owner |-> u, tokenIn |-> usdc, tokenOut |-> out, amount |-> amount,
     minOut |-> minOut, nonce |-> nonce, deadline |-> deadline]

(* two orders of u1 share a nonce; u2's order expires first *)
MCOrders == {Order(u1, eurc, 2, 1, 1, 1), Order(u1, other, 1, 1, 1, 2),
             Order(u1, eurc, 2, 2, 2, 2), Order(u2, eurc, 2, 1, 1, 1)}
NoOrders == {}

(* a second permit on the same token replaces what is left of the first *)
MCPermits == {[owner |-> u1, token |-> usdc, amount |-> 3, expiration |-> 0, nonce |-> 0],
              [owner |-> u1, token |-> usdc, amount |-> 2, expiration |-> 1, nonce |-> 1]}
MCIntents == {[owner |-> u1, tokenIn |-> usdc, tokenOut |-> eurc,
               maxAmountIn |-> 3, minRate |-> 1, deadline |-> 1]}
NoDca == {}

MCBal == [t \in Tokens |-> [a \in Accounts |->
            CASE a \in Users /\ t = usdc -> 6
              [] a \in Targets /\ t = eurc -> 4
              [] a \in Targets /\ t = other -> 2
              [] OTHER -> 0]]
=============================================================================
