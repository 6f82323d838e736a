---- MODULE MCGlob ----
(***************************************************************************)
(* Model-checking instances of Glob: the character classes.                *)
(***************************************************************************)
EXTENDS Glob

\* The class [^a]: it does not match "/" although it does not list it.
OneClass == [class \in {"[^a]"} |-> [chars |-> {"a"}, inverted |-> TRUE]]
====
