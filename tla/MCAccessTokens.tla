---- MODULE MCAccessTokens ----
(***************************************************************************)
(* A model-checking instance of AccessTokens.                              *)
(***************************************************************************)
EXTENDS AccessTokens, TLC

CONSTANTS t1, other

KindOf == [t \in Tokens |-> IF t = other THEN "foreign" ELSE "session"]

Symmetry == Permutations(Proxied) \cup Permutations(Verified) \cup Permutations(Tokens \ {other})
====
