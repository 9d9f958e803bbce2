------------------------ MODULE MCArcIntelExecutorV3 ------------------------
(* A small instance of ArcIntelExecutorV3: a user, two pools of one pair, two   *)
(* signed orders of which one shares its nonce with a session order.            *)
EXTENDS ArcIntelExecutorV3, TLC

CONSTANTS u1, usdc, tok, plain, hooked, launchpad

MCPoolKey == plain :> [currency0 |-> usdc, currency1 |-> tok, hooks |-> NoHook]
          @@ hooked :> [currency0 |-> usdc, currency1 |-> tok, hooks |-> launchpad]

Signed(token, amount, permitNonce, pool, z, minOut, nonce, deadline) ==
    [user |-> u1, token |-> token, amount |-> amount, permitNonce |-> permitNonce, pool |-> pool,
     zeroForOne |-> z, minOut |-> minOut, recipient |-> u1, orderNonce |-> nonce, deadline |-> deadline]
BySession(pool, z, amountIn, minOut, nonce, deadline) ==
    [user |-> u1, pool |-> pool, zeroForOne |-> z, amountIn |-> amountIn,
     minOut |-> minOut, recipient |-> u1, orderNonce |-> nonce, deadline |-> deadline]
Scope(pool, tokenIn, perOrder, total, floor, expiry) ==
    [pool |-> pool, tokenIn |-> tokenIn, maxPerOrder |-> perOrder, maxTotal |-> total,
     minOutFloor |-> floor, expiry |-> expiry]

MCSigned == {Signed(usdc, 2, 1, plain, TRUE, 1, 1, 1), Signed(tok, 1, 2, hooked, FALSE, 1, 2, 0)}
MCSession == {BySession(plain, TRUE, 2, 1, 2, 1), BySession(plain, TRUE, 1, 1, 3, 1),
              BySession(plain, FALSE, 1, 1, 4, 1)}
MCGrants == {Scope(plain, usdc, 2, 2, 1, 1), Scope(plain, tok, 1, 1, 1, 1)}
MCBal == usdc :> [u \in Users |-> 5] @@ tok :> [u \in Users |-> 3]
=============================================================================
