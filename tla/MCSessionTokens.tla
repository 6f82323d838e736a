---- MODULE MCSessionTokens ----
(***************************************************************************)
(* Model-checking instances of SessionTokens: one user per session.        *)
(***************************************************************************)
EXTENDS SessionTokens, TLC

CONSTANTS alice, bob, staff, s1, s2

UserOf == [s \in Sessions |->
    IF s = s1 THEN [username |-> alice, roles |-> {staff}]
    ELSE [username |-> bob, roles |-> {}]]

StaffOnly == [allow |-> {staff}, deny |-> {}]
AnyoneButBob == [allow |-> {"ANONYMOUS"}, deny |-> {bob}]

OP(rotates, retires, slow, loses, bound) ==
    [rotates |-> rotates, retires |-> retires, slow |-> slow, loses |-> loses,
     revokes |-> FALSE, bound |-> bound]

\* An OP whose refresh tokens can be used once, within the age of the cache lock.
Rotating == {OP(TRUE, TRUE, FALSE, FALSE, MaxGen)}

\* That one, and slow ones that lose answers: with one refresh token for good, or
\* (the one of the integration tests) a further one at each use.
Racing == Rotating \cup {OP(FALSE, FALSE, TRUE, TRUE, 1), OP(TRUE, FALSE, TRUE, TRUE, 1)}

\* A slow one that loses answers and retires the refresh tokens nevertheless, and one
\* that revokes them and is out of order otherwise.
Unreliable == {OP(TRUE, TRUE, TRUE, TRUE, MaxGen),
               [OP(FALSE, FALSE, FALSE, FALSE, 0) EXCEPT !.revokes = TRUE]}

Symmetry == Permutations(Requests)
====
