----------------------------- MODULE MCGateway -----------------------------
(* A gateway with two requests in flight; its owner may grant or withdraw  *)
(* it, and its one user may revoke his session.                            *)
EXTENDS Gateway, TLC

CONSTANTS o, g, u, t, r, c, q1, q2

SmallAccounts == {o, g, u}

SmallSessions ==
    {[gateway |-> g, user |-> u, identity |-> "wallet",
      expiresAt |-> 1, nonce |-> 0, gatewayEpoch |-> 1]}

Counts == 1..Cardinality(Request)
Requests == Permutations(Request)
=============================================================================
