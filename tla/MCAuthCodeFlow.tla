---- MODULE MCAuthCodeFlow ----
(***************************************************************************)
(* Model-checking instances of AuthCodeFlow.  The request ids bound the    *)
(* number of requests of a behaviour.                                      *)
(***************************************************************************)
EXTENDS AuthCodeFlow, TLC

\* Free request ids, browsers and codes are interchangeable.
Symmetry == Permutations(RequestIds) \cup Permutations(Browsers)
              \cup Permutations(Codes)
====
