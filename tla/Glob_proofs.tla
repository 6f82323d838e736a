---- MODULE Glob_proofs ----
(***************************************************************************)
(* globMatch returns no wrong match, for globs and texts of any length     *)
(* over any characters and classes.                                        *)
(***************************************************************************)
EXTENDS Glob, SequenceTheorems, TLAPS

\* What the loop has behind it is described, and so is what it would go back to,
\* which ends with a star.
LoopInv ==
    /\ Describes(glob, text, gi, ti)
    /\ gibak >= 0 => /\ gibak > 0 /\ glob[gibak] = "*"
                     /\ 0 <= tibak /\ tibak <= ti
                     /\ Describes(glob, text, gibak, tibak)
    /\ gibak <= gi

IInv == TypeOK /\ LoopInv /\ MatchesAreReal

-----------------------------------------------------------------------------
(* Descriptions *)

LEMMA PieceGrows ==
    ASSUME NEW token, NEW t, NEW from \in Int, NEW to \in Int,
           Piece(token, t, from, to)
    PROVE  from <= to
  BY DEF Piece

\* One more token takes one more piece of the text.
LEMMA Extend ==
    ASSUME NEW g \in Seq(Tokens), NEW t \in Seq(Text),
           NEW n \in 0 .. Len(g) - 1,
           NEW from \in 0 .. Len(t), NEW to \in 0 .. Len(t),
           Describes(g, t, n, from), Piece(g[n + 1], t, from, to)
    PROVE  Describes(g, t, n + 1, to)
<1>1. PICK cut \in Cuts(g, t, n) : cut[n] = from
  BY DEF Describes
<1>. DEFINE longer == [i \in 0 .. n + 1 |-> IF i <= n THEN cut[i] ELSE to]
<1>2. /\ cut \in [0 .. n -> 0 .. Len(t)] /\ cut[0] = 0
      /\ \A i, j \in 0 .. n : i <= j => cut[i] <= cut[j]
  BY DEF Cuts
<1>3. longer \in [0 .. n + 1 -> 0 .. Len(t)] /\ longer[0] = 0
  BY <1>2
<1>0. \A i, j \in 0 .. n + 1 : i <= j => longer[i] <= longer[j]
  BY <1>1, <1>2, PieceGrows
<1>4. ASSUME NEW i \in 1 .. n + 1
      PROVE  Piece(g[i], t, longer[i - 1], longer[i])
  <2>1. CASE i <= n
    <3>1. Piece(g[i], t, cut[i - 1], cut[i])
      BY <2>1 DEF Cuts
    <3>2. longer[i - 1] = cut[i - 1] /\ longer[i] = cut[i]
      BY <2>1
    <3>. QED
      BY <3>1, <3>2
  <2>2. CASE i = n + 1
    <3>1. longer[i - 1] = from /\ longer[i] = to
      BY <1>1, <2>2
    <3>. QED
      BY <2>2, <3>1
  <2>. QED
    BY <2>1, <2>2
<1>5. longer \in Cuts(g, t, n + 1)
  BY <1>0, <1>3, <1>4 DEF Cuts
<1>6. longer[n + 1] = to
  OBVIOUS
<1>. QED
  BY <1>5, <1>6 DEF Describes

\* A star at the end takes one character more, unless it is "/".
LEMMA Stretch ==
    ASSUME NEW g \in Seq(Tokens), NEW t \in Seq(Text),
           NEW n \in 1 .. Len(g), NEW end \in 0 .. Len(t) - 1,
           Describes(g, t, n, end), g[n] = "*", t[end + 1] # "/"
    PROVE  Describes(g, t, n, end + 1)
<1>1. PICK cut \in Cuts(g, t, n) : cut[n] = end
  BY DEF Describes
<1>2. /\ cut \in [0 .. n -> 0 .. Len(t)] /\ cut[0] = 0
      /\ \A i, j \in 0 .. n : i <= j => cut[i] <= cut[j]
      /\ \A i \in 1 .. n : Piece(g[i], t, cut[i - 1], cut[i])
  BY DEF Cuts
<1>. DEFINE longer == [cut EXCEPT ![n] = end + 1]
<1>3. longer \in [0 .. n -> 0 .. Len(t)] /\ longer[0] = 0
  BY <1>2
<1>0. \A i, j \in 0 .. n : i <= j => longer[i] <= longer[j]
  BY <1>1, <1>2
<1>4. ASSUME NEW i \in 1 .. n
      PROVE  Piece(g[i], t, longer[i - 1], longer[i])
  <2>1. CASE i < n
    BY <1>2, <2>1
  <2>2. CASE i = n
    <3>1. Piece("*", t, cut[n - 1], end)
      BY <1>1, <1>2
    <3>2. cut[n - 1] \in 0 .. Len(t)
      BY <1>2
    <3>3. Piece("*", t, cut[n - 1], end + 1)
      BY <3>1, <3>2 DEF Piece
    <3>4. longer[i - 1] = cut[n - 1] /\ longer[i] = end + 1
      BY <1>2, <2>2
    <3>. QED
      BY <2>2, <3>3, <3>4
  <2>. QED
    BY <2>1, <2>2
<1>5. longer \in Cuts(g, t, n)
  BY <1>0, <1>3, <1>4 DEF Cuts
<1>6. longer[n] = end + 1
  BY <1>2
<1>. QED
  BY <1>5, <1>6 DEF Describes

\* Stars match nothing: they may follow.
LEMMA StarsFollow ==
    ASSUME NEW g \in Seq(Tokens), NEW t \in Seq(Text),
           NEW n \in 0 .. Len(g), NEW end \in 0 .. Len(t),
           Describes(g, t, n, end),
           \A i \in n + 1 .. Len(g) : g[i] = "*"
    PROVE  Describes(g, t, Len(g), end)
<1>1. PICK cut \in Cuts(g, t, n) : cut[n] = end
  BY DEF Describes
<1>2. /\ cut \in [0 .. n -> 0 .. Len(t)] /\ cut[0] = 0
      /\ \A i, j \in 0 .. n : i <= j => cut[i] <= cut[j]
      /\ \A i \in 1 .. n : Piece(g[i], t, cut[i - 1], cut[i])
  BY DEF Cuts
<1>. DEFINE longer == [i \in 0 .. Len(g) |-> IF i <= n THEN cut[i] ELSE end]
<1>3. Len(g) \in Nat
  OBVIOUS
<1>4. longer \in [0 .. Len(g) -> 0 .. Len(t)] /\ longer[0] = 0
  BY <1>2, <1>3
<1>0. \A i, j \in 0 .. Len(g) : i <= j => longer[i] <= longer[j]
  BY <1>1, <1>2, <1>3
<1>5. ASSUME NEW i \in 1 .. Len(g)
      PROVE  Piece(g[i], t, longer[i - 1], longer[i])
  <2>1. CASE i <= n
    <3>1. longer[i - 1] = cut[i - 1] /\ longer[i] = cut[i]
      BY <1>3, <2>1
    <3>. QED
      BY <1>2, <2>1, <3>1
  <2>2. CASE i > n
    <3>1. longer[i - 1] = end /\ longer[i] = end
      BY <1>1, <1>3, <2>2
    <3>2. g[i] = "*"
      BY <1>3, <2>2
    <3>. QED
      BY <3>1, <3>2 DEF Piece
  <2>. QED
    BY <1>3, <2>1, <2>2
<1>6. longer[Len(g)] = end
  BY <1>1, <1>3
<1>. QED
  BY <1>0, <1>4, <1>5, <1>6 DEF Describes, Cuts

-----------------------------------------------------------------------------
(* The invariant *)

LEMMA SeqOfSeq ==
    ASSUME NEW S, NEW n \in Nat, NEW s \in SeqOf(S, n)
    PROVE  s \in Seq(S)
<1>1. PICK m \in 0 .. n : s \in [1 .. m -> S]
  BY DEF SeqOf
<1>. QED
  BY <1>1, SeqDef

LEMMA InitIInv == Init => IInv
<1>. SUFFICES ASSUME Init PROVE IInv
  OBVIOUS
<1>1. glob \in Seq(Tokens) /\ text \in Seq(Text)
  BY SeqOfSeq, BoundsAssumption DEF Init
<1>2. TypeOK
  BY <1>1 DEF Init, TypeOK, Results
<1>3. [i \in 0 .. 0 |-> 0] \in Cuts(glob, text, 0)
  BY <1>1 DEF Cuts
<1>4. Describes(glob, text, 0, 0)
  BY <1>3 DEF Describes
<1>. QED
  BY <1>2, <1>4 DEF Init, IInv, LoopInv, MatchesAreReal

LEMMA NextIInv == IInv /\ [Next]_vars => IInv'
<1>. SUFFICES ASSUME IInv, [Next]_vars PROVE IInv'
  OBVIOUS
<1>. USE DEF IInv
<1>1. /\ Len(glob) \in Nat /\ Len(text) \in Nat
      /\ gi \in Int /\ ti \in Int /\ gibak \in Int /\ tibak \in Int
  BY DEF TypeOK
<1>2. CASE Star
  <2>1. Piece(glob[gi + 1], text, ti, ti)
    BY <1>1, <1>2 DEF Star, AtStar, Piece
  <2>2. Describes(glob, text, gi + 1, ti)
    BY <1>1, <1>2, <2>1, Extend DEF Star, AtStar, LoopInv, TypeOK
  <2>3. TypeOK'
    BY <1>1, <1>2 DEF Star, AtStar, BackupAtStar, TypeOK
  <2>4. LoopInv'
    BY <1>1, <1>2, <2>2
    DEF Star, AtStar, BackupAtStar, LoopInv, TypeOK
  <2>. QED
    BY <1>2, <2>3, <2>4 DEF Star, Looping, MatchesAreReal
<1>3. CASE Match
  <2>1. Piece(glob[gi + 1], text, ti, ti + 1)
    BY <1>1, <1>3 DEF Match, AtStar, AtMatch, Piece
  <2>2. Describes(glob, text, gi + 1, ti + 1)
    BY <1>1, <1>3, <2>1, Extend DEF Match, Looping, AtMatch, LoopInv, TypeOK
  <2>3. TypeOK'
    BY <1>1, <1>3 DEF Match, AtMatch, Looping, TypeOK
  <2>4. LoopInv'
    BY <1>1, <1>3, <2>2
    DEF Match, LoopInv, TypeOK
  <2>. QED
    BY <1>3, <2>3, <2>4 DEF Match, Looping, MatchesAreReal
<1>4. CASE Backtrack
  <2>1. /\ gibak \in 1 .. Len(glob) /\ tibak \in 0 .. Len(text) - 1
        /\ glob[gibak] = "*" /\ text[tibak + 1] # "/"
        /\ Describes(glob, text, gibak, tibak)
    BY <1>1, <1>4
    DEF Backtrack, Mismatch, Looping, CanBacktrack, LoopInv, TypeOK
  <2>2. Describes(glob, text, gibak, tibak + 1)
    BY <2>1, Stretch DEF TypeOK
  <2>3. TypeOK'
    BY <1>1, <1>4, <2>1 DEF Backtrack, BackToStar, TypeOK
  <2>4. LoopInv'
    BY <1>1, <1>4, <2>1, <2>2
    DEF Backtrack, BackToStar, LoopInv
  <2>. QED
    BY <1>4, <2>3, <2>4 DEF Backtrack, Mismatch, Looping, MatchesAreReal
<1>5. ASSUME NEW value \in {"true", "false"}, Return(value),
             value = "true" => Exact \/ Below
      PROVE  IInv'
  <2>1. TypeOK' /\ LoopInv'
    BY <1>5
    DEF Return, TypeOK, Results, LoopInv
  <2>2. MatchesAreReal'
    BY <1>5
    DEF Return, MatchesAreReal, Exact, Below
  <2>. QED
    BY <2>1, <2>2
<1>6. CASE Finish
  <2>1. ASSUME OnlyStarsLeft PROVE Exact \/ Below
    <3>1. Describes(glob, text, Len(glob), ti)
      BY <1>1, <2>1, StarsFollow DEF OnlyStarsLeft, LoopInv, TypeOK
    <3>2. CASE ti = Len(text)
      BY <3>1, <3>2 DEF Describes, Exact
    <3>3. CASE Mismatch /\ AfterSlash
      <4>1. gi = Len(glob)
        BY <1>1, <2>1, <3>3 DEF OnlyStarsLeft, Mismatch, AtStar, TypeOK
      <4>. QED
        BY <1>1, <3>1, <3>3, <4>1
        DEF AfterSlash, Describes, Below, EndsWithSlash
    <3>. QED
      BY <1>6, <3>2, <3>3 DEF Finish
  <2>. QED
    BY <1>5, <1>6, <2>1 DEF Finish
<1>7. CASE Fail
  BY <1>5, <1>7 DEF Fail
<1>8. CASE UNCHANGED vars
  BY <1>8 DEF vars, TypeOK, LoopInv, MatchesAreReal, Exact, Below
<1>. QED
  BY <1>2, <1>3, <1>4, <1>6, <1>7, <1>8 DEF Next

-----------------------------------------------------------------------------
(* No text is missed. *)

\* The ways to cut a beginning of the text by the whole glob.
FullCuts == Cuts(glob, text, Len(glob))

\* The last star takes as many characters in cut as in the loop, or more; in the
\* latter case there is no "/" on the way.
Ahead(cut) ==
    /\ cut[gi] - ti = cut[gibak] - tibak
    /\ cut[gi] >= ti
    /\ cut[gi] > ti => \A p \in tibak + 1 .. cut[gi] : text[p] # "/"

\* Before the first star there is no choice; later, if the glob describes the
\* text, the loop has not yet gone past some way to cut it.
NotPassed ==
    /\ gibak = -1 => \A cut \in FullCuts : cut[gi] = ti
    /\ gibak >= 0 /\ Exact =>
         \E cut \in FullCuts : cut[Len(glob)] = Len(text) /\ Ahead(cut)

CInv == IInv /\ NotPassed /\ NoneMissed

\* A cut goes forward and stays within the text.
LEMMA CutFacts ==
    ASSUME NEW g \in Seq(Tokens), NEW t \in Seq(Text),
           NEW cut \in Cuts(g, t, Len(g)), NEW n \in 0 .. Len(g)
    PROVE  /\ cut[n] \in 0 .. Len(t) /\ cut[n] <= cut[Len(g)]
           /\ n < Len(g) =>
                /\ cut[n + 1] \in 0 .. Len(t) /\ cut[n] <= cut[n + 1]
                /\ Piece(g[n + 1], t, cut[n], cut[n + 1])
<1>1. Len(g) \in Nat
  OBVIOUS
<1>2. /\ cut \in [0 .. Len(g) -> 0 .. Len(t)]
      /\ \A i, j \in 0 .. Len(g) : i <= j => cut[i] <= cut[j]
      /\ \A i \in 1 .. Len(g) : Piece(g[i], t, cut[i - 1], cut[i])
  BY DEF Cuts
<1>3. n \in Int /\ 0 <= n /\ n <= Len(g)
  BY <1>1
<1>4. cut[n] \in 0 .. Len(t) /\ cut[n] <= cut[Len(g)]
  BY <1>1, <1>2, <1>3
<1>5. ASSUME n < Len(g)
      PROVE  /\ cut[n + 1] \in 0 .. Len(t) /\ cut[n] <= cut[n + 1]
             /\ Piece(g[n + 1], t, cut[n], cut[n + 1])
  <2>1. n + 1 \in 1 .. Len(g) /\ n + 1 \in 0 .. Len(g) /\ (n + 1) - 1 = n
    BY <1>1, <1>3, <1>5
  <2>2. Piece(g[n + 1], t, cut[(n + 1) - 1], cut[n + 1])
    BY <1>2, <2>1
  <2>3. cut[n + 1] \in 0 .. Len(t) /\ cut[n] <= cut[n + 1]
    BY <1>2, <1>3, <2>1
  <2>. QED
    BY <2>1, <2>2, <2>3
<1>. QED
  BY <1>4, <1>5

\* A literal matches itself only, and "/" is matched by the literal only.
LEMMA TokenSlash ==
    ASSUME NEW token, NEW char, Accepts(token, char)
    PROVE  token = "/" <=> char = "/"
  BY TextAssumption, ClassesAssumption DEF Accepts, Text, Wildcards

\* The token behind a mismatch cannot continue a cut that is where the loop is.
LEMMA MismatchStops ==
    ASSUME TypeOK, Mismatch, NEW cut \in FullCuts, cut[gi] = ti
    PROVE  gi = Len(glob) /\ cut[Len(glob)] # Len(text)
<1>1. ASSUME gi < Len(glob) PROVE FALSE
  <2>1. Piece(glob[gi + 1], text, ti, cut[gi + 1])
    BY <1>1, CutFacts DEF FullCuts, TypeOK
  <2>2. glob[gi + 1] # "*"
    BY <1>1 DEF Mismatch, AtStar
  <2>3. Accepts(glob[gi + 1], text[ti + 1])
    BY <2>1, <2>2 DEF Piece
  <2>. QED
    BY <1>1, <2>3 DEF Mismatch, AtMatch
<1>2. gi = Len(glob)
  BY <1>1 DEF TypeOK
<1>. QED
  BY <1>2 DEF Mismatch, Looping

\* At the end of the text a cut that is there can go on by stars only.
LEMMA EndStops ==
    ASSUME TypeOK, NEW cut \in FullCuts, cut[gi] = Len(text)
    PROVE  OnlyStarsLeft
<1>. SUFFICES ASSUME NEW i \in gi + 1 .. Len(glob) PROVE glob[i] = "*"
  BY DEF OnlyStarsLeft
<1>0. Len(glob) \in Nat /\ Len(text) \in Nat /\ gi \in 0 .. Len(glob)
  BY DEF TypeOK
<1>1. i - 1 \in 0 .. Len(glob) /\ gi <= i - 1 /\ i - 1 < Len(glob) /\ (i - 1) + 1 = i
  BY <1>0
<1>2. /\ cut \in [0 .. Len(glob) -> 0 .. Len(text)]
      /\ \A k, j \in 0 .. Len(glob) : k <= j => cut[k] <= cut[j]
  BY DEF FullCuts, Cuts
<1>3. cut[i - 1] \in 0 .. Len(text) /\ cut[gi] <= cut[i - 1]
  BY <1>0, <1>1, <1>2
<1>4. /\ cut[(i - 1) + 1] \in 0 .. Len(text)
      /\ Piece(glob[(i - 1) + 1], text, cut[i - 1], cut[(i - 1) + 1])
  BY <1>1, CutFacts DEF FullCuts, TypeOK
<1>5. cut[i - 1] = Len(text)
  BY <1>0, <1>3
<1>6. cut[i] \in 0 .. Len(text) /\ Piece(glob[i], text, Len(text), cut[i])
  BY <1>1, <1>4, <1>5
<1>. QED
  BY <1>0, <1>6 DEF Piece

\* A new star: the pieces behind the old one have the same lengths in both cuts.
LEMMA StarNotPassed ==
    ASSUME CInv, Star PROVE NotPassed'
<1>. USE DEF CInv, IInv
<1>1. /\ Len(glob) \in Nat /\ Len(text) \in Nat
      /\ gi \in 0 .. Len(glob) - 1 /\ ti \in 0 .. Len(text)
      /\ gibak \in Int /\ tibak \in Int /\ glob[gi + 1] = "*"
  BY DEF Star, AtStar, TypeOK
<1>2. /\ glob' = glob /\ text' = text /\ ti' = ti /\ gi' = gi + 1
      /\ gibak' = gi + 1 /\ tibak' = ti
  BY DEF Star, BackupAtStar
<1>. SUFFICES ASSUME Exact
              PROVE  \E cut \in FullCuts :
                       /\ cut[Len(glob)] = Len(text)
                       /\ cut[gi + 1] >= ti
                       /\ \A p \in ti + 1 .. cut[gi + 1] : text[p] # "/"
  BY <1>1, <1>2, Zenon, SMT DEF NotPassed, Ahead, Exact, FullCuts
<1>3. PICK cut \in FullCuts :
           /\ cut[Len(glob)] = Len(text) /\ cut[gi] >= ti
           /\ \A p \in ti + 1 .. cut[gi] : text[p] # "/"
  <2>1. CASE gibak = -1
    <3>1. PICK cut \in FullCuts : cut[Len(glob)] = Len(text)
      BY DEF Exact, Describes, FullCuts
    <3>2. cut[gi] = ti
      BY <2>1, <3>1 DEF NotPassed
    <3>. QED
      BY <1>1, <3>1, <3>2
  <2>2. CASE gibak # -1
    <3>1. gibak >= 0
      BY <2>2 DEF TypeOK
    <3>2. PICK cut \in FullCuts : cut[Len(glob)] = Len(text) /\ Ahead(cut)
      BY <3>1 DEF NotPassed
    <3>3. tibak <= ti
      BY <3>1 DEF LoopInv
    <3>4. cut[gi] \in Int
      BY <1>1, CutFacts DEF FullCuts, TypeOK
    <3>. QED
      BY <1>1, <3>2, <3>3, <3>4 DEF Ahead
  <2>. QED
    BY <2>1, <2>2
<1>4. /\ cut[gi] \in Int /\ cut[gi + 1] \in Int /\ cut[gi] <= cut[gi + 1]
      /\ Piece("*", text, cut[gi], cut[gi + 1])
  BY <1>1, CutFacts DEF FullCuts, TypeOK
<1>5. \A p \in ti + 1 .. cut[gi + 1] : text[p] # "/"
  BY <1>1, <1>3, <1>4 DEF Piece
<1>. QED
  BY <1>1, <1>3, <1>4, <1>5

\* A token that matches is cut off alike.
LEMMA MatchNotPassed ==
    ASSUME CInv, Match PROVE NotPassed'
<1>. USE DEF CInv, IInv
<1>1. /\ Len(glob) \in Nat /\ Len(text) \in Nat
      /\ gi \in 0 .. Len(glob) - 1 /\ ti \in 0 .. Len(text) - 1
      /\ gibak \in Int /\ tibak \in Int
      /\ glob[gi + 1] # "*" /\ Accepts(glob[gi + 1], text[ti + 1])
  BY DEF Match, Looping, AtStar, AtMatch, TypeOK
<1>2. /\ glob' = glob /\ text' = text /\ ti' = ti + 1 /\ gi' = gi + 1
      /\ gibak' = gibak /\ tibak' = tibak
  BY DEF Match
<1>3. ASSUME NEW cut \in FullCuts
      PROVE  /\ cut[gi] \in Int /\ cut[gi + 1] = cut[gi] + 1
             /\ Accepts(glob[gi + 1], text[cut[gi] + 1])
  <2>1. /\ cut[gi] \in Int
        /\ Piece(glob[gi + 1], text, cut[gi], cut[gi + 1])
    BY <1>1, CutFacts DEF FullCuts, TypeOK
  <2>. QED
    BY <1>1, <2>1 DEF Piece
<1>4. ASSUME gibak = -1, NEW cut \in FullCuts PROVE cut[gi + 1] = ti + 1
  BY <1>1, <1>3, <1>4 DEF NotPassed
<1>5. ASSUME gibak >= 0, NEW cut \in FullCuts, Ahead(cut)
      PROVE  /\ cut[gi + 1] - (ti + 1) = cut[gibak] - tibak
             /\ cut[gi + 1] >= ti + 1
             /\ cut[gi + 1] > ti + 1
                  => \A p \in tibak + 1 .. cut[gi + 1] : text[p] # "/"
  <2>1. cut[gibak] \in Int
    BY <1>5, CutFacts DEF FullCuts, TypeOK
  <2>2. ASSUME cut[gi] > ti PROVE text[cut[gi] + 1] # "/"
    <3>1. text[ti + 1] # "/"
      BY <1>1, <1>3, <1>5, <2>2 DEF Ahead, LoopInv
    <3>2. glob[gi + 1] # "/"
      BY <1>1, <3>1, TokenSlash
    <3>. QED
      BY <1>3, <3>2, TokenSlash
  <2>3. cut[gi] \in Int /\ cut[gi + 1] = cut[gi] + 1
    BY <1>3, <1>5
  <2>4. ASSUME cut[gi] > ti, NEW p \in tibak + 1 .. cut[gi] + 1
        PROVE  text[p] # "/"
    <3>1. CASE p = cut[gi] + 1
      BY <2>2, <2>4, <3>1
    <3>2. CASE p # cut[gi] + 1
      BY <1>1, <1>5, <2>3, <2>4, <3>2 DEF Ahead
    <3>. QED
      BY <3>1, <3>2
  <2>. QED
    BY <1>1, <1>5, <2>1, <2>3, <2>4 DEF Ahead
<1>. QED
  BY <1>2, <1>4, <1>5 DEF NotPassed, Ahead, Exact, FullCuts

\* Behind a mismatch an exact cut is ahead of the loop, and its star takes the
\* next character, which is no "/".
LEMMA MismatchAhead ==
    ASSUME CInv, Mismatch, gibak >= 0, NEW cut \in FullCuts,
           cut[Len(glob)] = Len(text), Ahead(cut)
    PROVE  cut[gi] > ti /\ text[tibak + 1] # "/"
<1>. USE DEF CInv, IInv
<1>1. ti \in Int /\ tibak \in Int /\ tibak <= ti
  BY DEF TypeOK, LoopInv
<1>2. cut[gi] \in Int
  BY CutFacts DEF FullCuts, TypeOK
<1>3. cut[gi] # ti
  BY MismatchStops
<1>4. cut[gi] > ti
  BY <1>1, <1>2, <1>3 DEF Ahead
<1>5. tibak + 1 \in tibak + 1 .. cut[gi]
  BY <1>1, <1>2, <1>4
<1>. QED
  BY <1>4, <1>5 DEF Ahead

\* Going back: the mismatch leaves only cuts that are strictly ahead.
LEMMA BacktrackNotPassed ==
    ASSUME CInv, Backtrack PROVE NotPassed'
<1>. USE DEF CInv, IInv
<1>1. /\ gibak \in 0 .. Len(glob) /\ tibak \in Int /\ ti \in Int
      /\ Mismatch /\ tibak <= ti
  BY DEF Backtrack, CanBacktrack, TypeOK, LoopInv
<1>2. /\ glob' = glob /\ text' = text /\ ti' = tibak + 1 /\ gi' = gibak
      /\ gibak' = gibak /\ tibak' = tibak + 1
  BY DEF Backtrack, BackToStar
<1>3. ASSUME NEW cut \in FullCuts, cut[Len(glob)] = Len(text), Ahead(cut)
      PROVE  /\ cut[gibak] - (tibak + 1) = cut[gibak] - (tibak + 1)
             /\ cut[gibak] >= tibak + 1
             /\ \A p \in tibak + 2 .. cut[gibak] : text[p] # "/"
  <2>1. cut[gi] \in Int /\ cut[gibak] \in Int
    BY <1>1, CutFacts DEF FullCuts, TypeOK
  <2>2. cut[gi] > ti
    BY <1>1, <1>3, MismatchAhead
  <2>3. cut[gibak] >= tibak + 1 /\ cut[gibak] <= cut[gi]
    BY <1>1, <1>3, <2>1, <2>2 DEF Ahead
  <2>. QED
    BY <1>1, <1>3, <2>1, <2>2, <2>3 DEF Ahead
<1>4. ASSUME Exact
      PROVE  \E cut \in FullCuts : cut[Len(glob)] = Len(text) /\ Ahead(cut)
  BY <1>1, <1>4 DEF NotPassed
<1>. QED
  BY <1>1, <1>2, <1>3, <1>4 DEF NotPassed, Ahead, Exact, FullCuts

\* The loop gives up, or leaves some of the glob, only for texts the glob does
\* not describe.
LEMMA EndNoneMissed ==
    ASSUME CInv, Finish \/ Fail PROVE NoneMissed'
<1>. USE DEF CInv, IInv
<1>. SUFFICES ASSUME Fail \/ (Finish /\ ~OnlyStarsLeft)
              PROVE  /\ ~Exact
                     /\ (\A i \in 1 .. Len(glob) : glob[i] # "*") => ~Below
  BY DEF NoneMissed, Exact, Below, Finish, Fail, Return
<1>1. /\ Len(glob) \in Nat /\ Len(text) \in Nat /\ gi \in 0 .. Len(glob)
      /\ ti \in 0 .. Len(text) /\ gibak \in -1 .. Len(glob)
  BY DEF TypeOK
<1>2. \/ ti = Len(text) /\ ~OnlyStarsLeft
      \/ Mismatch /\ ~CanBacktrack /\ (AfterSlash => ~OnlyStarsLeft)
  BY DEF Finish, Fail
<1>3. ASSUME gibak = -1, NEW cut \in FullCuts
      PROVE  cut[Len(glob)] # Len(text) /\ ~Below
  <2>1. cut[gi] = ti
    BY <1>3 DEF NotPassed
  <2>2. ~(ti = Len(text) /\ ~OnlyStarsLeft)
    BY <1>3, <2>1, EndStops
  <2>3. Mismatch /\ (AfterSlash => ~OnlyStarsLeft)
    BY <1>2, <2>2
  <2>4. gi = Len(glob) /\ cut[Len(glob)] # Len(text)
    BY <1>3, <2>1, <2>3, MismatchStops
  <2>5. OnlyStarsLeft
    BY <1>1, <2>4 DEF OnlyStarsLeft
  <2>6. ASSUME Below PROVE FALSE
    <3>1. Len(glob) > 0 /\ glob[Len(glob)] = "/"
      BY <2>6 DEF Below, EndsWithSlash
    <3>2. PICK n \in 0 .. Len(glob) - 1 : n + 1 = Len(glob)
      BY <1>1, <3>1
    <3>3. /\ cut[n] \in Int /\ cut[n] >= 0
          /\ Piece("/", text, cut[n], cut[Len(glob)])
      BY <1>1, <3>1, <3>2, CutFacts DEF FullCuts, TypeOK
    <3>4. ti > 0 /\ text[ti] = "/"
      BY <1>1, <2>1, <2>4, <3>3, TokenSlash DEF Piece
    <3>. QED
      BY <2>3, <2>4, <2>5, <3>1, <3>4 DEF AfterSlash
  <2>. QED
    BY <2>4, <2>6
<1>4. ASSUME gibak >= 0, Exact PROVE FALSE
  <2>1. PICK cut \in FullCuts : cut[Len(glob)] = Len(text) /\ Ahead(cut)
    BY <1>4 DEF NotPassed
  <2>2. CASE ti = Len(text) /\ ~OnlyStarsLeft
    <3>1. cut[gi] = Len(text)
      BY <1>1, <2>1, <2>2, CutFacts DEF Ahead, FullCuts, TypeOK
    <3>. QED
      BY <2>2, <3>1, EndStops
  <2>3. CASE Mismatch /\ ~CanBacktrack
    BY <1>4, <2>1, <2>3, MismatchAhead DEF CanBacktrack
  <2>. QED
    BY <1>2, <2>2, <2>3
<1>5. ASSUME gibak >= 0 PROVE \E i \in 1 .. Len(glob) : glob[i] = "*"
  BY <1>1, <1>5 DEF LoopInv
<1>6. CASE gibak = -1
  <2>1. ASSUME Exact PROVE FALSE
    BY <1>3, <1>6, <2>1 DEF Exact, Describes, FullCuts
  <2>2. ASSUME Below PROVE FALSE
    BY <1>3, <1>6, <2>2 DEF Below, FullCuts
  <2>. QED
    BY <2>1, <2>2
<1>. QED
  BY <1>1, <1>4, <1>5, <1>6

LEMMA InitCInv == Init => CInv
<1>. SUFFICES ASSUME Init PROVE NotPassed /\ NoneMissed
  BY InitIInv DEF CInv
<1>1. \A cut \in FullCuts : cut[0] = 0
  BY DEF FullCuts, Cuts
<1>. QED
  BY <1>1 DEF Init, NotPassed, NoneMissed

LEMMA NextCInv == CInv /\ [Next]_vars => CInv'
<1>. SUFFICES ASSUME CInv, [Next]_vars PROVE CInv'
  OBVIOUS
<1>1. IInv'
  BY NextIInv DEF CInv
<1>2. CASE Star
  BY <1>1, <1>2, StarNotPassed DEF CInv, NoneMissed, Star, Looping
<1>3. CASE Match
  BY <1>1, <1>3, MatchNotPassed DEF CInv, NoneMissed, Match, Looping
<1>4. CASE Backtrack
  BY <1>1, <1>4, BacktrackNotPassed
  DEF CInv, NoneMissed, Backtrack, Mismatch, Looping
<1>5. CASE Finish \/ Fail
  <2>1. NotPassed'
    BY <1>5
    DEF CInv, NotPassed, Finish, Fail, Return, Exact, FullCuts, Ahead
  <2>. QED
    BY <1>1, <1>5, <2>1, EndNoneMissed DEF CInv
<1>6. CASE UNCHANGED vars
  BY <1>1, <1>6
  DEF CInv, vars, NotPassed, NoneMissed, Exact, Below, FullCuts, Ahead
<1>. QED
  BY <1>2, <1>3, <1>4, <1>5, <1>6 DEF Next

-----------------------------------------------------------------------------
\* The positions stay inside the glob and the text.
THEOREM TypeCorrect == Spec => []TypeOK
<1>1. IInv => TypeOK
  BY DEF IInv
<1>. QED
  BY <1>1, InitIInv, NextIInv, PTL DEF Spec

\* Whatever the glob and the text, globMatch is true only for a text the glob
\* describes, or for one below a text described by a glob with a trailing slash.
THEOREM MatchesAreRealHolds == Spec => []MatchesAreReal
<1>1. IInv => MatchesAreReal
  BY DEF IInv
<1>. QED
  BY <1>1, InitIInv, NextIInv, PTL DEF Spec

\* Whatever the glob and the text, globMatch is false only for a text the glob
\* does not describe; for a glob without a star, also not below it.
THEOREM NoneMissedHolds == Spec => []NoneMissed
<1>1. CInv => NoneMissed
  BY DEF CInv
<1>. QED
  BY <1>1, InitCInv, NextCInv, PTL DEF Spec

\* Whatever the glob and the text, globMatch never comes back to a position, so that its
\* loop ends after finitely many turns.
THEOREM NeverRepeatsHolds == Spec => NeverRepeats
<1>. DEFINE Onward == \/ result' # "none"
                      \/ gibak' > gibak
                      \/ gibak' = gibak /\ tibak' > tibak
                      \/ gibak' = gibak /\ tibak' = tibak /\ gi' > gi
<1>1. ASSUME IInv, Next PROVE Onward
  <2>1. /\ gi \in Int /\ ti \in Int /\ gibak \in Int /\ tibak \in Int /\ gibak <= gi
    BY <1>1 DEF IInv, TypeOK, LoopInv
  <2>2. CASE Star
    BY <2>1, <2>2 DEF Star, BackupAtStar
  <2>3. CASE Match
    BY <2>1, <2>3 DEF Match
  <2>4. CASE Backtrack
    BY <2>1, <2>4 DEF Backtrack, BackToStar
  <2>5. CASE Finish \/ Fail
    BY <2>5 DEF Finish, Fail, Return
  <2>. QED
    BY <1>1, <2>2, <2>3, <2>4, <2>5 DEF Next
<1>2. IInv /\ [Next]_vars => [Onward]_vars
  BY <1>1
<1>. QED
  BY <1>2, InitIInv, NextIInv, PTL DEF Spec, NeverRepeats
====
