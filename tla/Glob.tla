---- MODULE Glob ----
(***************************************************************************)
(* globMatch of utils.ts: the loop that matches the path or branch pattern *)
(* of an access rule, with its one backup position for the last star.  One *)
(* action is one turn of the loop.                                         *)
(*                                                                         *)
(* A glob is a sequence of tokens: a literal character (escaped or not),   *)
(* "?", "*", or the name of a character class, whose characters between    *)
(* the brackets are a parameter.  An unterminated class or a final         *)
(* backslash is left out.                                                  *)
(***************************************************************************)
EXTENDS Integers, Sequences

CONSTANTS
    Chars,      \* the characters of texts but "/"
    ClassOf,    \* character classes: their characters, and whether inverted
    MaxGlob,    \* bound: tokens of a glob
    MaxText     \* bound: characters of a text

Text == Chars \cup {"/"}
Wildcards == {"?", "*"}
Classes == DOMAIN ClassOf
Tokens == Text \cup Wildcards \cup Classes

ASSUME TextAssumption == "/" \notin Chars /\ Text \cap Wildcards = {}
ASSUME ClassesAssumption ==
    /\ ClassOf \in [Classes -> [chars : SUBSET Text, inverted : BOOLEAN]]
    /\ Classes \cap (Text \cup Wildcards) = {}
ASSUME BoundsAssumption == MaxGlob \in Nat /\ MaxText \in Nat

SeqOf(S, n) == UNION {[1 .. m -> S] : m \in 0 .. n}

VARIABLES
    glob, text,     \* the parameters
    gi, ti,         \* tokens of glob, characters of text behind the loop
    gibak, tibak,   \* where to go back to: behind the last star, -1 if none
    result          \* "none" while the loop runs, then what it returns

Results == {"none", "true", "false"}

vars == <<glob, text, gi, ti, gibak, tibak, result>>

TypeOK ==
    /\ glob \in Seq(Tokens) /\ text \in Seq(Text)
    /\ gi \in 0 .. Len(glob) /\ ti \in 0 .. Len(text)
    /\ gibak \in -1 .. Len(glob) /\ tibak \in -1 .. Len(text)
    /\ result \in Results

Init ==
    /\ glob \in SeqOf(Tokens, MaxGlob) /\ text \in SeqOf(Text, MaxText)
    /\ gi = 0 /\ ti = 0 /\ gibak = -1 /\ tibak = -1
    /\ result = "none"

-----------------------------------------------------------------------------
\* The token matches the character: no wildcard and no class takes "/".
Accepts(token, char) ==
    \/ token \in Text /\ token = char
    \/ token = "?" /\ char # "/"
    \/ /\ token \in Classes
       /\ char # "/"
       /\ (char \in ClassOf[token].chars) # ClassOf[token].inverted

\* The loop goes on.
Looping == result = "none" /\ ti < Len(text)
AtStar == gi < Len(glob) /\ glob[gi + 1] = "*"
AtMatch == gi < Len(glob) /\ Accepts(glob[gi + 1], text[ti + 1])

\* Mutant: the first star is the one to go back to.
BackupAtStar_First ==
    /\ gi' = gi + 1
    /\ gibak' = IF gibak = -1 THEN gi + 1 ELSE gibak
    /\ tibak' = IF gibak = -1 THEN ti ELSE tibak

\* A new star is the one to go back to: earlier ones are final.
BackupAtStar ==
    /\ gi' = gi + 1
    /\ gibak' = gi + 1
    /\ tibak' = ti

Star == Looping /\ AtStar /\ BackupAtStar /\ UNCHANGED <<glob, text, ti, result>>

Match ==
    /\ Looping /\ ~AtStar /\ AtMatch
    /\ gi' = gi + 1 /\ ti' = ti + 1
    /\ UNCHANGED <<glob, text, gibak, tibak, result>>

Mismatch == Looping /\ ~AtStar /\ ~AtMatch

\* Mutant: a star takes "/".
CanBacktrack_OverSlash == gibak >= 0

\* The last star takes one character more, but no "/".
CanBacktrack == gibak >= 0 /\ text[tibak + 1] # "/"

\* Mutant: the star takes no more than it had.
BackToStar_InPlace == tibak' = tibak /\ ti' = tibak /\ gi' = gibak

BackToStar == tibak' = tibak + 1 /\ ti' = tibak + 1 /\ gi' = gibak

Backtrack ==
    /\ Mismatch /\ CanBacktrack
    /\ BackToStar
    /\ UNCHANGED <<glob, text, gibak, result>>

\* The glob's last token was "/", and so was the text's last character.
AfterSlash == gi > 0 /\ ti > 0 /\ glob[gi] = "/" /\ text[ti] = "/"

\* Whatever is left of the glob are stars.
OnlyStarsLeft == \A i \in gi + 1 .. Len(glob) : glob[i] = "*"

Return(value) ==
    result' = value /\ UNCHANGED <<glob, text, gi, ti, gibak, tibak>>

\* The end of the text, or of the loop by "treat trailing / in glob as /**".
Finish ==
    /\ \/ result = "none" /\ ti = Len(text)
       \/ Mismatch /\ ~CanBacktrack /\ AfterSlash
    /\ Return(IF OnlyStarsLeft THEN "true" ELSE "false")

Fail == Mismatch /\ ~CanBacktrack /\ ~AfterSlash /\ Return("false")

Next == Star \/ Match \/ Backtrack \/ Finish \/ Fail

\* The function runs to its end.
Spec == Init /\ [][Next]_vars /\ WF_vars(Next)

-----------------------------------------------------------------------------
(* Properties *)

\* What a glob g means, without an algorithm: a text t is cut into one piece per
\* token.  cut[i] is where the piece of the token i ends, cut[0] = 0.
Piece(token, t, from, to) ==
    \/ token = "*" /\ from <= to /\ \A i \in from + 1 .. to : t[i] # "/"
    \/ token # "*" /\ to = from + 1 /\ Accepts(token, t[to])

\* The ways to cut a beginning of t by the first n tokens of g.
Cuts(g, t, n) == {cut \in [0 .. n -> 0 .. Len(t)] :
    /\ cut[0] = 0
    /\ \A i \in 1 .. n : Piece(g[i], t, cut[i - 1], cut[i])
    /\ \A i, j \in 0 .. n : i <= j => cut[i] <= cut[j]}

\* The first n tokens of g describe the first end characters of t.
Describes(g, t, n, end) == \E cut \in Cuts(g, t, n) : cut[n] = end

EndsWithSlash(g) == Len(g) > 0 /\ g[Len(g)] = "/"

Exact == Describes(glob, text, Len(glob), Len(text))

\* A glob that ends with "/" stands for everything below as well.
Below == EndsWithSlash(glob) /\ Cuts(glob, text, Len(glob)) # {}

\* No text matches that the glob does not describe: no star or class crosses a
\* "/", and the text goes on only behind a final "/" (a wrong match grants the
\* rule's users access to a page the rule is not about).
MatchesAreReal == result = "true" => Exact \/ Below

\* A text the glob describes is found although only the last star is tried
\* again; for a glob without a star, its subpages are found too.
NoneMissed == result = "false" =>
    /\ ~Exact
    /\ (\A i \in 1 .. Len(glob) : glob[i] # "*") => ~Below

\* No position is come back to: each turn ends the loop, finds a later star, gives the last
\* star more of the text, or goes on in the glob.  Within the glob and the text that can go
\* on for so many turns only; text and glob are taken from requests and site configs.
NeverRepeats == [][
    \/ result' # "none"
    \/ gibak' > gibak
    \/ gibak' = gibak /\ tibak' > tibak
    \/ gibak' = gibak /\ tibak' = tibak /\ gi' > gi]_vars

\* The loop ends, however often it goes back to a star.
Terminates == <>(result # "none")

====
