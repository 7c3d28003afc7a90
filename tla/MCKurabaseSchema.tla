------------------------- MODULE MCKurabaseSchema -------------------------
(* The contract with an owner and a developer who may replace each other,  *)
(* one gateway, an identity authority the constructor names, the gateway   *)
(* again where it may be asked to be an authority, and one user who holds  *)
(* a wallet session and a session attested by the authority, both for the  *)
(* gateway's first grant.  One plan writes a row, one the catalog.         *)
EXTENDS KurabaseSchema

CONSTANTS o, d, g, a, u, t, r, c, x

SmallAccounts == {o, d, g, a, u}

SmallSessions ==
    {[gateway |-> g, user |-> u, identity |-> "wallet",
      expiresAt |-> 1, nonce |-> 0, gatewayEpoch |-> 1],
     [gateway |-> g, user |-> u, identity |-> "attested",
      expiresAt |-> 1, nonce |-> 1, gatewayEpoch |-> 1]}

Op(kind, table, row, column, data) ==
    [kind |-> kind, table |-> table, row |-> row, column |-> column, data |-> data]

SmallPlans ==
    {<<Op(INSERT_ROW, t, r, ZeroKey, EmptyData), Op(SET_CELL, t, r, c, x)>>,
     <<Op(PUT_CATALOG, ZeroKey, ZeroKey, c, x)>>}
=============================================================================
