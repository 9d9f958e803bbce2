-------------------------- MODULE MCSessionTrading --------------------------
(* A small instance of SessionTrading: one user, two keys and one order for two   *)
(* keepers (for the default floor: one key and one keeper).                      *)
EXTENDS SessionTrading, TLC

CONSTANTS u1, usdc, tok, plain

MCPoolKey == plain :> [currency0 |-> usdc, currency1 |-> tok, hooks |-> NoHook]
Buy(amountIn, minOut, nonce, deadline) ==
    [user |-> u1, pool |-> plain, zeroForOne |-> TRUE, amountIn |-> amountIn,
     minOut |-> minOut, recipient |-> u1, orderNonce |-> nonce, deadline |-> deadline]
Scope(perOrder, total, floor, expiry) ==
    [pool |-> plain, tokenIn |-> usdc, maxPerOrder |-> perOrder, maxTotal |-> total,
     minOutFloor |-> floor, expiry |-> expiry]

MCBal == usdc :> [u \in Users |-> 4] @@ tok :> [u \in Users |-> 0]

(* With a floor the user chose for a single order.                               *)
MCOrderOf == [r \in Rows |-> Buy(1, 1, r, 1)]
MCOrders == {MCOrderOf[r] : r \in DOMAIN MCOrderOf}
MCGrants == {Scope(1, 2, 1, 1)}

(* With the server's defaults: 25 an order, 50 in all, 15% slippage on the       *)
(* session and 1% on the order; a unit is 12.5 USDC and buys one unit.           *)
DefaultOrderOf == [r \in Rows |-> Buy(2, buy_quote(2, 1, 1), r, 1)]
DefaultOrders == {DefaultOrderOf[r] : r \in DOMAIN DefaultOrderOf}
DefaultGrants == {Scope(2, 4, DefaultFloor(4, 1, 15), 1)}
=============================================================================
