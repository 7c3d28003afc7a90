------------------------ MODULE MCMaterializedCache ------------------------
(* Four requests of an administrator and a user, two writes, two changes   *)
(* of the schema.                                                          *)
EXTENDS MaterializedCache, TLC

CONSTANTS user, q1, q2, q3, q4

Requests == Permutations(Request)
=============================================================================
