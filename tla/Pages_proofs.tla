---- MODULE Pages_proofs ----
(***************************************************************************)
(* Theorems about Pages, for any sites, branches, rules and requests of    *)
(* any length.                                                             *)
(***************************************************************************)
EXTENDS Pages, SequenceTheorems, FiniteSetTheorems, WellFoundedInduction, TLAPS

-----------------------------------------------------------------------------
(* Least elements, the induction of this module *)

\* The initial segments of a set of numbers, ordered by inclusion, have a least one.
LEMMA LeastNat ==
    ASSUME NEW T, T \subseteq Nat, T # {}
    PROVE  \E m \in T : \A n \in T : m <= n
<1>. DEFINE Initial == {1 .. n : n \in T}
<1>1. Initial \subseteq FiniteSubsetsOf(Nat) /\ Initial # {}
  <2>1. ASSUME NEW n \in T PROVE 1 .. n \in FiniteSubsetsOf(Nat)
    <3>1. IsFiniteSet(1 .. n) /\ 1 .. n \in SUBSET Nat
      BY FS_Interval
    <3>. QED
      BY <3>1 DEF FiniteSubsetsOf
  <2>. QED
    BY <2>1
<1>2. PICK least \in Initial : \A other \in Initial : <<other, least>> \notin StrictSubsetOrdering(Nat)
  <2>. HIDE DEF Initial
  <2>. QED
    BY <1>1, WFMin, FS_StrictSubsetOrderingWellFounded
<1>3. PICK m \in T : least = 1 .. m
  BY <1>2
<1>4. ASSUME NEW n \in T, n < m PROVE FALSE
  <2>1. 1 .. n \in Initial /\ <<1 .. n, 1 .. m>> \notin StrictSubsetOrdering(Nat)
    BY <1>2, <1>3
  <2>2. (1 .. n) \subseteq (1 .. m) /\ (1 .. m) \subseteq Nat
    BY <1>4
  <2>3. m \in 1 .. m /\ m \notin 1 .. n
    BY <1>4
  <2>. QED
    BY <2>1, <2>2, <2>3 DEF StrictSubsetOrdering
<1>. QED
  BY <1>4

LEMMA MinAs ==
    ASSUME NEW T, T \subseteq Nat, T # {}
    PROVE  Min(T) \in T /\ \A n \in T : Min(T) <= n
  BY LeastNat DEF Min

-----------------------------------------------------------------------------
(* Counting the elements of a set of numbers *)

Upto(A, i) == {j \in A : j <= i}
Count(A, i) == Cardinality(Upto(A, i))

LEMMA UptoMember ==
    ASSUME NEW A, NEW i, NEW j
    PROVE  j \in Upto(A, i) <=> (j \in A /\ j <= i)
  BY Zenon DEF Upto

LEMMA CountTypes ==
    ASSUME NEW len \in Nat, NEW A \in SUBSET (1 .. len)
    PROVE  /\ IsFiniteSet(A) /\ Cardinality(A) \in Nat
           /\ \A i : IsFiniteSet(Upto(A, i))
           /\ \A i : Count(A, i) \in Nat /\ Count(A, i) <= Cardinality(A)
<1>1. IsFiniteSet(1 .. len)
  BY FS_Interval
<1>2. IsFiniteSet(A)
  BY <1>1, FS_Subset
<1>3. \A i : Upto(A, i) \subseteq A
  BY DEF Upto
<1>. QED
  BY <1>2, <1>3, FS_Subset, FS_CardinalityType DEF Count

\* One more index counts for one, if it is in the set.
LEMMA CountStep ==
    ASSUME NEW len \in Nat, NEW A \in SUBSET (1 .. len), NEW i \in 1 .. len
    PROVE  Count(A, i) = IF i \in A THEN Count(A, i - 1) + 1 ELSE Count(A, i - 1)
<1>. \A j \in A : j \in Int
  OBVIOUS
<1>1. IsFiniteSet(Upto(A, i - 1)) /\ Count(A, i - 1) \in Nat
  BY CountTypes
<1>2. CASE i \in A
  <2>1. \A j \in A : j <= i <=> (j <= i - 1 \/ j = i)
    OBVIOUS
  <2>2. \A j : j \in Upto(A, i) <=> j \in Upto(A, i - 1) \cup {i}
    <3>1. i <= i
      OBVIOUS
    <3>. QED
      BY <1>2, <2>1, <3>1, UptoMember, Zenon
  <2>3. Upto(A, i) = Upto(A, i - 1) \cup {i}
    BY <2>2, Zenon
  <2>4. i \notin Upto(A, i - 1)
    <3>1. ~(i <= i - 1)
      OBVIOUS
    <3>. QED
      BY <3>1, UptoMember, Zenon
  <2>. QED
    BY <1>1, <1>2, <2>3, <2>4, FS_AddElement DEF Count
<1>3. CASE i \notin A
  <2>1. \A j \in A : j <= i <=> j <= i - 1
    BY <1>3
  <2>2. \A j : j \in Upto(A, i) <=> j \in Upto(A, i - 1)
    BY <1>3, <2>1, UptoMember, Zenon
  <2>3. Upto(A, i) = Upto(A, i - 1)
    BY <2>2, Zenon
  <2>. QED
    BY <1>1, <1>3, <2>3 DEF Count
<1>. QED
  BY <1>2, <1>3

\* Counting further counts no less.
LEMMA CountGrows ==
    ASSUME NEW len \in Nat, NEW A \in SUBSET (1 .. len), NEW i \in Int, NEW j \in Int, i <= j
    PROVE  Count(A, i) <= Count(A, j)
<1>. \A k \in A : k \in Int
  OBVIOUS
<1>1. \A k \in A : k <= i => k <= j
  OBVIOUS
<1>2. Upto(A, i) \subseteq Upto(A, j)
  BY <1>1, UptoMember, Zenon
<1>. QED
  BY <1>2, CountTypes, FS_Subset DEF Count

\* Nothing is counted before the first index, everything up to the last.
LEMMA CountEnds ==
    ASSUME NEW len \in Nat, NEW A \in SUBSET (1 .. len)
    PROVE  Count(A, 0) = 0 /\ Count(A, len) = Cardinality(A)
<1>. \A j \in A : j \in Int /\ 1 <= j /\ j <= len
  OBVIOUS
<1>1. Upto(A, 0) = {}
  <2>1. \A j \in A : ~(j <= 0)
    OBVIOUS
  <2>2. \A j : j \notin Upto(A, 0)
    BY <2>1, UptoMember, Zenon
  <2>. QED
    BY <2>2, Zenon
<1>2. Upto(A, len) = A
  BY DEF Upto
<1>. QED
  BY <1>1, <1>2, FS_EmptySet DEF Count

\* Each number of elements is reached at one of them, and at no other.
LEMMA NthElement ==
    ASSUME NEW len \in Nat, NEW A \in SUBSET (1 .. len), NEW n \in 1 .. Cardinality(A)
    PROVE  \E i \in A : Count(A, i) = n
<1>. DEFINE enough == {i \in 1 .. len : Count(A, i) >= n}
<1>1. Cardinality(A) \in Nat
  BY CountTypes
<1>2. n \in Nat /\ n > 0
  BY <1>1
<1>3. \A i : Count(A, i) \in Nat
  BY CountTypes
<1>4. Count(A, 0) = 0 /\ Count(A, len) >= n
  BY <1>1, CountEnds
<1>5. len # 0
  BY <1>2, <1>4
<1>6. PICK i \in enough : \A j \in enough : i <= j
  <2>1. enough # {} /\ enough \subseteq Nat
    BY <1>4, <1>5
  <2>. HIDE DEF enough
  <2>. QED
    BY <2>1, LeastNat
<1>7. i \in 1 .. len /\ Count(A, i) >= n
  BY <1>6
<1>8. Count(A, i - 1) < n
  <2>1. CASE i = 1
    BY <1>2, <1>4, <2>1
  <2>2. CASE i # 1
    <3>1. i - 1 \in 1 .. len /\ ~(i <= i - 1)
      BY <1>7, <2>2
    <3>2. ~(Count(A, i - 1) >= n)
      BY <1>6, <3>1
    <3>. QED
      BY <1>2, <1>3, <3>2
  <2>. QED
    BY <2>1, <2>2
<1>9. Count(A, i) = IF i \in A THEN Count(A, i - 1) + 1 ELSE Count(A, i - 1)
  BY <1>7, CountStep
<1>10. Count(A, i) \in Nat /\ Count(A, i - 1) \in Nat
  BY <1>3
<1>. QED
  BY <1>2, <1>7, <1>8, <1>9, <1>10

\* No two elements have the same rank.
LEMMA ElementsDiffer ==
    ASSUME NEW len \in Nat, NEW A \in SUBSET (1 .. len), NEW i \in A, NEW j \in A,
           Count(A, i) = Count(A, j)
    PROVE  i = j
<1>1. ASSUME NEW k \in A, NEW l \in A, k < l
      PROVE  Count(A, k) < Count(A, l)
  <2>1. k \in 1 .. len /\ l \in 1 .. len
    OBVIOUS
  <2>2. Count(A, l) = Count(A, l - 1) + 1
    BY <2>1, CountStep
  <2>3. k \in Int /\ l - 1 \in Int /\ k <= l - 1
    BY <1>1, <2>1
  <2>4. Count(A, k) <= Count(A, l - 1)
    BY <2>3, CountGrows
  <2>5. Count(A, k) \in Nat /\ Count(A, l - 1) \in Nat
    BY CountTypes
  <2>. QED
    BY <2>2, <2>4, <2>5
<1>2. i \in 1 .. len /\ j \in 1 .. len
  OBVIOUS
<1>3. Count(A, i) \in Nat /\ Count(A, j) \in Nat
  BY CountTypes
<1>. QED
  BY <1>1, <1>2, <1>3

Nth(A, n) == CHOOSE i \in A : Count(A, i) = n

\* The nth element of a set is the one of rank n, and only that.
LEMMA NthIs ==
    ASSUME NEW len \in Nat, NEW A \in SUBSET (1 .. len)
    PROVE  /\ \A n \in 1 .. Cardinality(A) : Nth(A, n) \in A /\ Count(A, Nth(A, n)) = n
           /\ \A i \in A : Nth(A, Count(A, i)) = i /\ Count(A, i) \in 1 .. Cardinality(A)
<1>1. ASSUME NEW n \in 1 .. Cardinality(A)
      PROVE  Nth(A, n) \in A /\ Count(A, Nth(A, n)) = n
  BY NthElement, Zenon DEF Nth
<1>2. ASSUME NEW i \in A
      PROVE  Nth(A, Count(A, i)) = i /\ Count(A, i) \in 1 .. Cardinality(A)
  <2>1. i \in 1 .. len
    OBVIOUS
  <2>2. Count(A, i) = Count(A, i - 1) + 1
    BY <2>1, CountStep
  <2>3. Count(A, i) \in Nat /\ Count(A, i - 1) \in Nat /\ Count(A, i) <= Cardinality(A)
        /\ Cardinality(A) \in Nat
    BY CountTypes
  <2>4. Count(A, i) \in 1 .. Cardinality(A)
    BY <2>2, <2>3
  <2>5. Nth(A, Count(A, i)) \in A /\ Count(A, Nth(A, Count(A, i))) = Count(A, i)
    BY <1>1, <2>4
  <2>. QED
    BY <2>4, <2>5, ElementsDiffer
<1>. QED
  BY <1>1, <1>2

\* A new largest element is the last that is counted.
LEMMA CountMore ==
    ASSUME NEW len \in Nat, NEW A \in SUBSET (1 .. len)
    PROVE  /\ A \cup {len + 1} \in SUBSET (1 .. (len + 1))
           /\ Cardinality(A \cup {len + 1}) = Cardinality(A) + 1
           /\ \A i \in A : Count(A \cup {len + 1}, i) = Count(A, i)
           /\ Count(A \cup {len + 1}, len + 1) = Cardinality(A) + 1
<1>. DEFINE B == A \cup {len + 1}
<1>1. B \in SUBSET (1 .. (len + 1)) /\ len + 1 \in Nat
  OBVIOUS
<1>2. len + 1 \notin A
  OBVIOUS
<1>3. Cardinality(B) = Cardinality(A) + 1
  BY <1>2, CountTypes, FS_AddElement
<1>4. ASSUME NEW i \in A PROVE Count(B, i) = Count(A, i)
  <2>1. ~(len + 1 <= i)
    OBVIOUS
  <2>2. \A j : j \in Upto(B, i) <=> j \in Upto(A, i)
    BY <2>1, UptoMember, Zenon
  <2>3. Upto(B, i) = Upto(A, i)
    BY <2>2, Zenon
  <2>. QED
    BY <2>3 DEF Count
<1>5. Count(B, len + 1) = Cardinality(A) + 1
  <2>. HIDE DEF B
  <2>. QED
    BY <1>1, <1>3, CountEnds
<1>. QED
  BY <1>1, <1>3, <1>4, <1>5

-----------------------------------------------------------------------------
(* The directory a path leads to *)

Named(path) == {i \in DOMAIN path : path[i] # ""}

\* DirOf is the path at its named segments, in their order.
LEMMA DirIs ==
    ASSUME NEW path
    PROVE  DirOf(path) = [n \in 1 .. Cardinality(Named(path)) |-> path[Nth(Named(path), n)]]
  BY DEF DirOf, Named, Nth, Count, Upto

LEMMA NamedType ==
    ASSUME NEW S, NEW path \in Seq(S)
    PROVE  /\ Len(path) \in Nat
           /\ Named(path) \in SUBSET (1 .. Len(path))
           /\ \A i : i \in Named(path) <=> i \in 1 .. Len(path) /\ path[i] # ""
<1>1. DOMAIN path = 1 .. Len(path) /\ Len(path) \in Nat
  BY LenProperties
<1>. QED
  BY <1>1, Zenon DEF Named

\* The names of the directory are the path's nonempty segments.
LEMMA DirNames ==
    ASSUME NEW S, NEW path \in Seq(S)
    PROVE  /\ DirOf(path) \in Seq(S)
           /\ Len(DirOf(path)) = Cardinality(Named(path))
           /\ \A n \in 1 .. Len(DirOf(path)) : \E i \in Named(path) :
                Count(Named(path), i) = n /\ DirOf(path)[n] = path[i]
           /\ \A i \in Named(path) : /\ Count(Named(path), i) \in 1 .. Len(DirOf(path))
                                     /\ DirOf(path)[Count(Named(path), i)] = path[i]
<1>. DEFINE A == Named(path)
<1>1. A \in SUBSET (1 .. Len(path)) /\ Len(path) \in Nat
  BY NamedType
<1>2. Cardinality(A) \in Nat
  BY <1>1, CountTypes
<1>3. /\ \A n \in 1 .. Cardinality(A) : Nth(A, n) \in A /\ Count(A, Nth(A, n)) = n
      /\ \A i \in A : Nth(A, Count(A, i)) = i /\ Count(A, i) \in 1 .. Cardinality(A)
  <2>. HIDE DEF A
  <2>. QED
    BY <1>1, NthIs
<1>4. DirOf(path) = [n \in 1 .. Cardinality(A) |-> path[Nth(A, n)]]
  BY DirIs
<1>5. \A i \in A : path[i] \in S
  BY <1>1, ElementOfSeq
<1>. HIDE DEF A
<1>6. DirOf(path) \in Seq(S) /\ Len(DirOf(path)) = Cardinality(A)
  <2>1. DirOf(path) \in [1 .. Cardinality(A) -> S]
    BY <1>3, <1>4, <1>5
  <2>. QED
    BY <1>2, <2>1
<1>7. ASSUME NEW n \in 1 .. Cardinality(A)
      PROVE  \E i \in A : Count(A, i) = n /\ DirOf(path)[n] = path[i]
  BY <1>3, <1>4
<1>8. ASSUME NEW i \in A
      PROVE  Count(A, i) \in 1 .. Cardinality(A) /\ DirOf(path)[Count(A, i)] = path[i]
  BY <1>3, <1>4
<1>. QED
  BY <1>6, <1>7, <1>8 DEF A

LEMMA Appended ==
    ASSUME NEW S, NEW seq \in Seq(S), NEW x \in S
    PROVE  /\ Append(seq, x) \in Seq(S) /\ Len(Append(seq, x)) = Len(seq) + 1
           /\ \A i \in 1 .. Len(seq) : Append(seq, x)[i] = seq[i]
           /\ Append(seq, x)[Len(seq) + 1] = x
  OBVIOUS

LEMMA Joined ==
    ASSUME NEW S, NEW front \in Seq(S), NEW back \in Seq(S)
    PROVE  /\ front \o back \in Seq(S) /\ Len(front \o back) = Len(front) + Len(back)
           /\ \A i \in 1 .. Len(front) : (front \o back)[i] = front[i]
           /\ \A i \in 1 .. Len(back) : (front \o back)[Len(front) + i] = back[i]
  OBVIOUS

LEMMA OneMore ==
    ASSUME NEW k \in Nat
    PROVE  \A i : i \in 1 .. (k + 1) <=> (i \in 1 .. k \/ i = k + 1)
<1>1. ASSUME NEW i \in 1 .. (k + 1) PROVE i \in 1 .. k \/ i = k + 1
  OBVIOUS
<1>2. ASSUME NEW i \in 1 .. k PROVE i \in 1 .. (k + 1)
  OBVIOUS
<1>3. k + 1 \in 1 .. (k + 1)
  OBVIOUS
<1>. QED
  BY <1>1, <1>2, <1>3, Zenon

\* One more segment, not an empty one, is one more name.
LEMMA DirAppend ==
    ASSUME NEW S, NEW path \in Seq(S), NEW x \in S, x # ""
    PROVE  DirOf(Append(path, x)) = Append(DirOf(path), x)
<1>. DEFINE longer == Append(path, x)
            A == Named(path)
            B == Named(longer)
            len == Len(path)
<1>1. /\ longer \in Seq(S) /\ Len(longer) = len + 1 /\ longer[len + 1] = x
      /\ \A i \in 1 .. len : longer[i] = path[i]
  <2>1. longer \in Seq(S) /\ Len(longer) = len + 1
    BY Appended, Zenon
  <2>2. longer[len + 1] = x
    BY Appended, Zenon
  <2>3. ASSUME NEW i \in 1 .. len PROVE longer[i] = path[i]
    BY Appended
  <2>. QED
    BY <2>1, <2>2, <2>3
<1>2. len \in Nat /\ A \in SUBSET (1 .. len)
  BY NamedType
<1>3. B = A \cup {len + 1}
  <2>1. \A i : i \in A <=> i \in 1 .. len /\ path[i] # ""
    BY NamedType
  <2>2. \A i : i \in B <=> i \in 1 .. (len + 1) /\ longer[i] # ""
    BY <1>1, NamedType
  <2>3. \A i : i \in 1 .. (len + 1) <=> (i \in 1 .. len \/ i = len + 1)
    <3>. HIDE DEF len
    <3>. QED
      BY <1>2, OneMore
  <2>4. \A i : i \in B <=> i \in A \cup {len + 1}
    <3>. HIDE DEF A, B, longer
    <3>. QED
      BY <1>1, <2>1, <2>2, <2>3, Zenon
  <2>. HIDE DEF A, B
  <2>. QED
    BY <2>4, Zenon
<1>4. /\ Cardinality(B) = Cardinality(A) + 1
      /\ \A i \in A : Count(B, i) = Count(A, i)
      /\ Count(B, len + 1) = Cardinality(A) + 1
  <2>. HIDE DEF A, B, len
  <2>. QED
    BY <1>2, <1>3, CountMore
<1>5. /\ DirOf(path) \in Seq(S) /\ Len(DirOf(path)) = Cardinality(A)
      /\ \A n \in 1 .. Cardinality(A) : \E i \in A : Count(A, i) = n /\ DirOf(path)[n] = path[i]
  BY DirNames
<1>6. /\ DirOf(longer) \in Seq(S) /\ Len(DirOf(longer)) = Cardinality(B)
      /\ \A i \in B : DirOf(longer)[Count(B, i)] = longer[i]
  BY <1>1, DirNames
<1>7. /\ Append(DirOf(path), x) \in Seq(S)
      /\ Len(Append(DirOf(path), x)) = Cardinality(A) + 1
      /\ \A n \in 1 .. Cardinality(A) : Append(DirOf(path), x)[n] = DirOf(path)[n]
      /\ Append(DirOf(path), x)[Cardinality(A) + 1] = x
  <2>1. \A dir \in Seq(S) :
          /\ Append(dir, x) \in Seq(S) /\ Len(Append(dir, x)) = Len(dir) + 1
          /\ \A i \in 1 .. Len(dir) : Append(dir, x)[i] = dir[i]
          /\ Append(dir, x)[Len(dir) + 1] = x
    BY Appended, Zenon
  <2>. HIDE DEF A
  <2>. QED
    BY <1>5, <2>1, Zenon
<1>8. Cardinality(A) \in Nat
  BY <1>2, CountTypes
<1>. HIDE DEF A, B, longer, len
<1>9. ASSUME NEW n \in 1 .. (Cardinality(A) + 1)
      PROVE  DirOf(longer)[n] = Append(DirOf(path), x)[n]
  <2>1. CASE n \in 1 .. Cardinality(A)
    <3>1. PICK i \in A : Count(A, i) = n /\ DirOf(path)[n] = path[i]
      BY <1>5, <2>1
    <3>2. i \in B /\ Count(B, i) = n /\ i \in 1 .. len
      BY <1>2, <1>3, <1>4, <3>1
    <3>3. DirOf(longer)[n] = longer[i]
      BY <1>6, <3>2
    <3>. QED
      BY <1>1, <1>7, <2>1, <3>1, <3>2, <3>3
  <2>2. CASE n = Cardinality(A) + 1
    <3>1. len + 1 \in B
      BY <1>3
    <3>2. DirOf(longer)[n] = longer[len + 1]
      BY <1>4, <1>6, <2>2, <3>1
    <3>. QED
      BY <1>1, <1>7, <2>2, <3>2
  <2>3. n \in 1 .. Cardinality(A) \/ n = Cardinality(A) + 1
    BY <1>8, OneMore
  <2>. QED
    BY <2>1, <2>2, <2>3, Zenon
<1>10. Len(DirOf(longer)) = Cardinality(A) + 1
  BY <1>4, <1>6
<1>11. DirOf(longer) = Append(DirOf(path), x)
  BY <1>6, <1>7, <1>9, <1>10, SeqEqual
<1>. QED
  BY <1>11 DEF longer

-----------------------------------------------------------------------------
(* The site of a request *)

Level(path, k) == SubSeq(path, 1, k)
Rest(path, k) == SubSeq(path, k + 1, Len(path))

LEMMA PathType ==
    ASSUME NEW req \in Requests
    PROVE  /\ req.path \in Seq(Segments) /\ Len(req.path) \in Nat
           /\ Len(req.path) >= 1 /\ Len(req.path) <= MaxSegments
<1>1. req.path \in Paths
  BY DEF Requests
<1>2. PICK n \in 1 .. MaxSegments : req.path \in [1 .. n -> Segments]
  BY <1>1 DEF Paths
<1>3. MaxSegments \in Nat
  BY SegmentsAssumption
<1>4. n \in Nat /\ n >= 1 /\ n <= MaxSegments
  BY <1>3
<1>5. req.path \in Seq(Segments) /\ Len(req.path) = n
  BY <1>2, <1>4
<1>. QED
  BY <1>4, <1>5

LEMMA PathsAre ==
    ASSUME NEW path \in Seq(Segments), Len(path) >= 1, Len(path) <= MaxSegments
    PROVE  path \in Paths
<1>1. MaxSegments \in Nat
  BY SegmentsAssumption
<1>2. path \in [1 .. Len(path) -> Segments]
  BY LenProperties
<1>3. Len(path) \in 1 .. MaxSegments
  BY <1>1
<1>. QED
  BY <1>2, <1>3 DEF Paths

LEMMA Levels ==
    ASSUME NEW S, NEW path \in Seq(S), NEW k \in 0 .. Len(path)
    PROVE  /\ Level(path, k) \in Seq(S) /\ Len(Level(path, k)) = k
           /\ \A i \in 1 .. k : Level(path, k)[i] = path[i]
           /\ Rest(path, k) \in Seq(S) /\ Len(Rest(path, k)) = Len(path) - k
           /\ \A i \in 1 .. (Len(path) - k) : Rest(path, k)[i] = path[k + i]
  BY DEF Level, Rest

LEMMA LevelUp ==
    ASSUME NEW S, NEW path \in Seq(S), NEW k \in 1 .. Len(path)
    PROVE  /\ Level(path, k) = Append(Level(path, k - 1), path[k])
           /\ Front(Level(path, k)) = Level(path, k - 1)
           /\ Last(Level(path, k)) = path[k]
<1>1. k - 1 \in 0 .. Len(path) /\ k \in 0 .. Len(path) /\ path[k] \in S
  OBVIOUS
<1>2. Level(path, k) = Append(Level(path, k - 1), path[k])
  BY <1>1 DEF Level
<1>3. Len(Level(path, k)) = k
  BY <1>1 DEF Level
<1>4. Last(Level(path, k)) = path[k]
  BY <1>1 DEF Level, Last
<1>5. SubSeq(Level(path, k), 1, k - 1) = Level(path, k - 1)
  BY <1>1 DEF Level
<1>. QED
  BY <1>2, <1>3, <1>4, <1>5 DEF Front

\* Where the search of a request from a level on may find a site: at one of the path's
\* levels, or at the root site of one.
At(path, depth, site) ==
    site = Level(path, depth)
      \/ (depth < MaxDepth /\ site = Append(Level(path, depth), RootSite))

Located(path, minDepth, site) ==
    /\ DirOf(site) \in SiteDirs
    /\ \E depth \in 0 .. MaxDepth :
         minDepth <= depth /\ depth <= Len(path) /\ At(path, depth, site)

\* How far the two loops of findSiteRootUri reach.
LEMMA DepthsReach ==
    ASSUME NEW req \in Requests, NEW minDepth \in Nat
    PROVE  /\ \A depth \in SiteDepths(req, minDepth) :
                depth \in 0 .. MaxDepth /\ minDepth <= depth /\ depth <= Len(req.path)
           /\ \A depth \in RootSiteDepths(req, minDepth) :
                depth \in 0 .. MaxDepth /\ minDepth <= depth /\ depth <= Len(req.path)
                  /\ depth < MaxDepth
<1>1. Len(req.path) \in Nat /\ MaxDepth \in Nat /\ MaxDepth # 0
  BY PathType, DepthAssumption
<1>. DEFINE near == Min({Len(req.path), MaxDepth})
<1>2. near \in {Len(req.path), MaxDepth} /\ near <= Len(req.path) /\ near <= MaxDepth
  <2>1. \A T : T = {Len(req.path), MaxDepth} =>
          Min(T) \in T /\ Min(T) <= Len(req.path) /\ Min(T) <= MaxDepth
    BY <1>1, MinAs
  <2>. QED
    BY <2>1
<1>3. Subdirs(req) = 1 + near
  BY DEF Subdirs
<1>4. Subdirs(req) \in Nat /\ Subdirs(req) <= Len(req.path) + 1 /\ Subdirs(req) <= MaxDepth + 1
  <2>. HIDE DEF near
  <2>. QED
    BY <1>1, <1>2, <1>3
<1>. DEFINE far == Min({Subdirs(req), MaxDepth - 1})
<1>5. far \in Int /\ far <= Subdirs(req) /\ far <= MaxDepth - 1
  <2>1. \A T : T = {Subdirs(req), MaxDepth - 1} =>
          Min(T) \in T /\ Min(T) <= Subdirs(req) /\ Min(T) <= MaxDepth - 1
    <3>1. MaxDepth - 1 \in Nat
      BY <1>1
    <3>2. {Subdirs(req), MaxDepth - 1} \subseteq Nat
      BY <1>4, <3>1
    <3>. QED
      BY <3>2, MinAs
  <2>. QED
    BY <1>1, <1>4, <2>1
<1>6. SiteDepths(req, minDepth) = minDepth .. (Subdirs(req) - 1)
  BY DEF SiteDepths
<1>7. RootSiteDepths(req, minDepth) = minDepth .. (far - 1)
  BY DEF RootSiteDepths
<1>. HIDE DEF near, far
<1>. QED
  BY <1>1, <1>4, <1>5, <1>6, <1>7

\* Whatever is on the disk, what the search returns is a site at one of its depths.
LEMMA FoundLocated ==
    ASSUME NEW req \in Requests, NEW disk, NEW minDepth \in Nat,
           FindSiteRootUri(req, disk, minDepth) # None
    PROVE  Located(req.path, minDepth, FindSiteRootUri(req, disk, minDepth))
<1>. DEFINE isSite(dir) == dir \in SiteDirs /\ disk[dir] # None
            found == {depth \in SiteDepths(req, minDepth) :
                IsDir(req, depth) /\ isSite(DirOf(Prefix(req, depth)))}
            foundRoot == {depth \in RootSiteDepths(req, minDepth) :
                IsDir(req, depth) /\ isSite(DirOf(Prefix(req, depth)) \o <<RootSite>>)}
            site == FindSiteRootUri(req, disk, minDepth)
            Known == Segments \cup {RootSite}
<1>1. site = CASE found # {} -> Prefix(req, Min(found))
              [] found = {} /\ foundRoot # {} -> Prefix(req, Min(foundRoot)) \o <<RootSite>>
              [] OTHER -> None
  BY Zenon DEF FindSiteRootUri
<1>2. found \subseteq Nat /\ foundRoot \subseteq Nat
  BY DepthsReach
<1>3. CASE found # {}
  <2>1. Min(found) \in found
    <3>. HIDE DEF found
    <3>. QED
      BY <1>2, <1>3, MinAs
  <2>2. PICK depth \in SiteDepths(req, minDepth) :
          depth = Min(found) /\ DirOf(Prefix(req, depth)) \in SiteDirs
    BY <2>1
  <2>3. depth \in 0 .. MaxDepth /\ minDepth <= depth /\ depth <= Len(req.path)
    BY DepthsReach
  <2>4. site = Level(req.path, depth)
    <3>. HIDE DEF found, foundRoot, site
    <3>. QED
      BY <1>1, <1>3, <2>2 DEF Prefix, Level
  <2>5. DirOf(site) \in SiteDirs
    BY <2>2, <2>4 DEF Prefix, Level
  <2>6. Located(req.path, minDepth, site)
    <3>. HIDE DEF site
    <3>. QED
      BY <2>3, <2>4, <2>5 DEF Located, At
  <2>. QED
    BY <2>6
<1>4. CASE found = {} /\ foundRoot # {}
  <2>1. Min(foundRoot) \in foundRoot
    <3>. HIDE DEF foundRoot
    <3>. QED
      BY <1>2, <1>4, MinAs
  <2>2. PICK depth \in RootSiteDepths(req, minDepth) :
          depth = Min(foundRoot) /\ DirOf(Prefix(req, depth)) \o <<RootSite>> \in SiteDirs
    BY <2>1
  <2>3. /\ depth \in 0 .. MaxDepth /\ minDepth <= depth /\ depth <= Len(req.path)
        /\ depth < MaxDepth
    BY DepthsReach
  <2>4. site = Level(req.path, depth) \o <<RootSite>>
    <3>. HIDE DEF found, foundRoot, site
    <3>. QED
      BY <1>1, <1>4, <2>2 DEF Prefix, Level
  <2>5. req.path \in Seq(Known) /\ RootSite \in Known /\ Len(req.path) \in Nat /\ RootSite # ""
    <3>1. req.path \in Seq(Segments) /\ Segments \subseteq Known
      BY PathType
    <3>2. req.path \in Seq(Known)
      BY <3>1, SeqMonotonic
    <3>. QED
      BY <3>2, PathType DEF RootSite
  <2>. HIDE DEF Known
  <2>6. depth \in 0 .. Len(req.path)
    <3>1. MaxDepth \in Nat /\ Len(req.path) \in Nat
      BY <2>5, DepthAssumption
    <3>. QED
      BY <2>3, <3>1
  <2>7. Level(req.path, depth) \in Seq(Known)
    BY <2>5, <2>6, Levels
  <2>8. site = Append(Level(req.path, depth), RootSite)
    <3>. HIDE DEF site
    <3>. QED
      BY <2>4, <2>5, <2>7, AppendIsConcat
  <2>9. DirOf(site) = Append(DirOf(Level(req.path, depth)), RootSite)
    BY <2>5, <2>7, <2>8, DirAppend
  <2>10. DirOf(site) = DirOf(Prefix(req, depth)) \o <<RootSite>>
    <3>1. DirOf(Level(req.path, depth)) \in Seq(Known)
      BY <2>7, DirNames
    <3>2. Prefix(req, depth) = Level(req.path, depth)
      BY DEF Prefix, Level
    <3>. HIDE DEF site
    <3>. QED
      BY <2>5, <2>9, <3>1, <3>2, AppendIsConcat
  <2>11. DirOf(site) \in SiteDirs
    BY <2>2, <2>10
  <2>12. Located(req.path, minDepth, site)
    <3>. HIDE DEF site
    <3>. QED
      BY <2>3, <2>8, <2>11 DEF Located, At
  <2>. QED
    BY <2>12
<1>5. CASE found = {} /\ foundRoot = {}
  <2>. HIDE DEF found, foundRoot
  <2>1. site = None
    BY <1>1, <1>5
  <2>. QED
    BY <2>1
<1>. QED
  BY <1>3, <1>4, <1>5

\* The part of the site that is in the request: its first segments, up to the site, or up
\* to the root site, whether the request names that or not.
Parted(path, site, k) ==
    /\ SitePrefix(site) = Level(path, k)
    /\ \/ site = Level(path, k)
       \/ site = Append(Level(path, k), RootSite)

\* The part of a site that is in the request is its first k segments.
LEMMA SiteParts ==
    ASSUME NEW path \in Seq(Segments), NEW depth \in 0 .. Len(path), NEW site,
           At(path, depth, site)
    PROVE  \E k \in 0 .. Len(path) : Parted(path, site, k)
<1>. DEFINE Known == Segments \cup {RootSite}
<1>1. path \in Seq(Known) /\ RootSite \in Known /\ Len(path) \in Nat
  BY SeqMonotonic
<1>. HIDE DEF Known
<1>2. Level(path, depth) \in Seq(Known) /\ Len(Level(path, depth)) = depth
  BY <1>1, Levels
<1>3. CASE site = Append(Level(path, depth), RootSite)
  <2>. DEFINE level == Level(path, depth)
  <2>1. Append(level, RootSite) \in Seq(Known) /\ Append(level, RootSite) # <<>>
        /\ Last(Append(level, RootSite)) = RootSite
        /\ Front(Append(level, RootSite)) = level
    <3>. HIDE DEF level
    <3>1. level \in Seq(Known)
      BY <1>2 DEF level
    <3>. QED
      BY <1>1, <3>1 DEF Front, Last
  <2>2. SitePrefix(site) = level
    <3>. HIDE DEF level
    <3>. QED
      BY <1>3, <2>1 DEF SitePrefix, level
  <2>. QED
    BY <1>3, <2>2 DEF Parted
<1>4. CASE site = Level(path, depth)
  <2>1. CASE site # <<>> /\ Last(site) = RootSite
    <3>1. depth \in 1 .. Len(path)
      BY <1>1, <1>2, <1>4, <2>1
    <3>2. /\ site = Append(Level(path, depth - 1), path[depth])
          /\ Front(site) = Level(path, depth - 1)
          /\ Last(site) = path[depth]
      BY <1>1, <1>4, <3>1, LevelUp
    <3>3. site = Append(Level(path, depth - 1), RootSite)
      BY <2>1, <3>2
    <3>4. SitePrefix(site) = Level(path, depth - 1)
      BY <2>1, <3>2 DEF SitePrefix
    <3>5. depth - 1 \in 0 .. Len(path)
      BY <3>1
    <3>. QED
      BY <3>3, <3>4, <3>5 DEF Parted
  <2>2. CASE ~(site # <<>> /\ Last(site) = RootSite)
    <3>1. SitePrefix(site) = site
      BY <2>2 DEF SitePrefix
    <3>. QED
      BY <1>4, <3>1 DEF Parted
  <2>. QED
    BY <2>1, <2>2
<1>. QED
  BY <1>3, <1>4 DEF At

\* What is behind a site is a page, or a branch and a page.
Divided(rest, s) ==
    \/ rest = <<>> /\ s.branch = DefaultBranch /\ s.page = <<"">>
    \/ rest # <<>> /\ NamesBranch(rest) /\ s.branch = BranchOf[rest[1]] /\ s.page = Tail(rest)
    \/ rest # <<>> /\ ~NamesBranch(rest) /\ s.branch = DefaultBranch /\ s.page = rest

\* splitUriToBranchAndPagePath divides what is left behind them.
LEMMA SplitDivides ==
    ASSUME NEW req \in Requests, NEW site, NEW k \in 0 .. Len(req.path),
           Parted(req.path, site, k)
    PROVE  Divided(Rest(req.path, k), SplitUri(req, site))
<1>1. SubSeq(req.path, Len(SitePrefix(site)) + 1, Len(req.path)) = Rest(req.path, k)
  <2>1. req.path \in Seq(Segments)
    BY PathType
  <2>2. SitePrefix(site) = Level(req.path, k)
    BY DEF Parted
  <2>3. Len(Level(req.path, k)) = k
    BY <2>1, Levels
  <2>. QED
    BY <2>2, <2>3 DEF Rest
<1>2. ~NamesBranch(<<"">>)
  BY SegmentsAssumption DEF NamesBranch
<1>3. PICK rest : rest = Rest(req.path, k)
  OBVIOUS
<1>4. PICK page : page = IF rest = <<>> THEN <<"">> ELSE rest
  OBVIOUS
<1>5. SplitUri(req, site) = IF NamesBranch(page)
        THEN [branch |-> BranchOf[page[1]], page |-> Tail(page)]
        ELSE [branch |-> DefaultBranch, page |-> page]
  BY <1>1, <1>3, <1>4, Zenon DEF SplitUri
<1>6. PICK s : s = SplitUri(req, site)
  OBVIOUS
<1>7. NamesBranch(page) => s.branch = BranchOf[page[1]] /\ s.page = Tail(page)
  BY <1>5, <1>6
<1>8. ~NamesBranch(page) => s.branch = DefaultBranch /\ s.page = page
  BY <1>5, <1>6
<1>9. Divided(rest, s)
  <2>1. CASE rest = <<>>
    BY <1>2, <1>4, <1>8, <2>1, Zenon DEF Divided
  <2>2. CASE rest # <<>>
    BY <1>4, <1>7, <1>8, <2>2, Zenon DEF Divided
  <2>. QED
    BY <2>1, <2>2
<1>. QED
  BY <1>3, <1>6, <1>9

LEMMA OneSegment ==
    ASSUME NEW S, NEW x \in S
    PROVE  <<x>> \in Seq(S) /\ Len(<<x>>) = 1 /\ Last(<<x>>) = x /\ <<x>> # <<>>
  BY DEF Last

LEMMA FrontOf ==
    ASSUME NEW S, NEW seq \in Seq(S), seq # <<>>
    PROVE  /\ Front(seq) \in Seq(S) /\ Len(Front(seq)) = Len(seq) - 1
           /\ seq = Append(Front(seq), Last(seq))
<1>1. PICK front \in Seq(S), last \in S : seq = Append(front, last)
  BY SequenceEmptyOrAppend
<1>2. Front(seq) = front /\ Last(seq) = last /\ Len(seq) = Len(front) + 1
  BY <1>1 DEF Front, Last
<1>. QED
  BY <1>1, <1>2

LEMMA TailOf ==
    ASSUME NEW S, NEW seq \in Seq(S), Len(seq) > 1
    PROVE  /\ Tail(seq) \in Seq(S) /\ Tail(seq) # <<>> /\ Len(Tail(seq)) = Len(seq) - 1
           /\ Last(Tail(seq)) = Last(seq)
<1>1. seq # <<>>
  OBVIOUS
<1>2. Tail(seq) \in Seq(S) /\ Len(Tail(seq)) = Len(seq) - 1
      /\ \A i \in 1 .. Len(Tail(seq)) : Tail(seq)[i] = seq[i + 1]
  BY <1>1, HeadTailProperties
<1>3. Len(seq) \in Nat
  OBVIOUS
<1>4. Tail(seq)[Len(seq) - 1] = seq[Len(seq)]
  BY <1>2, <1>3
<1>5. \A n \in Nat : n > 1 => n - 1 # 0
  OBVIOUS
<1>6. Tail(seq) # <<>>
  <2>1. Len(<<>>) = 0
    BY EmptySeq
  <2>2. Len(Tail(seq)) # 0
    BY <1>2, <1>3, <1>5, Zenon
  <2>. QED
    BY <2>1, <2>2, Zenon
<1>7. Last(Tail(seq)) = Last(seq)
  BY <1>2, <1>4 DEF Last
<1>. QED
  BY <1>2, <1>6, <1>7

LEMMA DividedType ==
    ASSUME NEW rest \in Seq(Segments), Len(rest) <= MaxSegments, MaxSegments >= 1,
           NEW s, Divided(rest, s)
    PROVE  /\ s.branch \in Branches /\ s.page \in Paths
           /\ s.page \in Seq(Segments) /\ s.page # <<>>
           /\ Last(s.page) = IF rest = <<>> THEN "" ELSE Last(rest)
<1>1. "" \in Segments /\ DefaultBranch \in Branches
  BY SegmentsAssumption, BranchAssumption
<1>2. MaxSegments \in Nat /\ Len(rest) \in Nat
  <2>1. MaxSegments \in Nat
    BY SegmentsAssumption
  <2>2. Len(rest) \in Nat
    OBVIOUS
  <2>. QED
    BY <2>1, <2>2
<1>3. CASE rest = <<>> /\ s.branch = DefaultBranch /\ s.page = <<"">>
  <2>1. <<"">> \in Seq(Segments) /\ Len(<<"">>) = 1 /\ Last(<<"">>) = "" /\ <<"">> # <<>>
    BY <1>1, OneSegment, Zenon
  <2>2. s.page \in Seq(Segments) /\ Len(s.page) = 1 /\ Last(s.page) = "" /\ s.page # <<>>
    BY <1>3, <2>1, Zenon
  <2>3. s.page \in Paths
    <3>1. Len(s.page) >= 1 /\ Len(s.page) <= MaxSegments
      <4>1. Len(s.page) = 1
        BY <2>2, Zenon
      <4>. QED
        BY <1>2, <4>1
    <3>. QED
      BY <2>2, <3>1, PathsAre
  <2>. QED
    BY <1>1, <1>3, <2>2, <2>3, Zenon
<1>4. CASE rest # <<>> /\ NamesBranch(rest) /\ s.branch = BranchOf[rest[1]] /\ s.page = Tail(rest)
  <2>1. Len(rest) > 1 /\ rest[1] \in DOMAIN BranchOf
    BY <1>4 DEF NamesBranch
  <2>2. s.branch \in Branches
    BY <1>4, <2>1 DEF Branches
  <2>3. /\ Tail(rest) \in Seq(Segments) /\ Tail(rest) # <<>> /\ Len(Tail(rest)) = Len(rest) - 1
        /\ Last(Tail(rest)) = Last(rest)
    BY <2>1, TailOf
  <2>4. Len(Tail(rest)) >= 1 /\ Len(Tail(rest)) <= MaxSegments
    BY <1>2, <2>1, <2>3
  <2>5. Tail(rest) \in Paths
    BY <2>3, <2>4, PathsAre
  <2>. QED
    BY <1>4, <2>2, <2>3, <2>5, Zenon
<1>5. CASE rest # <<>> /\ ~NamesBranch(rest) /\ s.branch = DefaultBranch /\ s.page = rest
  <2>1. Len(rest) >= 1
    BY <1>5
  <2>2. rest \in Paths
    BY <2>1, PathsAre
  <2>. QED
    BY <1>1, <1>5, <2>2, Zenon
<1>. QED
  BY <1>3, <1>4, <1>5, Zenon DEF Divided

-----------------------------------------------------------------------------
(* The rule of a page *)

\* The rule that is found is the site's first one for the page, among those of the first entry
\* for the branch.
IsRuleFor(access, branch, page, i, j, found) ==
    /\ branch \in access[i].branches
    /\ \A before \in 1 .. i - 1 : branch \notin access[before].branches
    /\ page \in access[i].rules[j].pages
    /\ \A before \in 1 .. j - 1 : page \notin access[i].rules[before].pages
    /\ found = [allow |-> access[i].rules[j].allow, deny |-> access[i].rules[j].deny]

LEMMA FirstIs ==
    ASSUME NEW list, NEW matching, matching \subseteq Nat, FirstOf(list, matching) # None
    PROVE  \E i \in matching : /\ FirstOf(list, matching) = list[i]
                              /\ \A before \in 1 .. i - 1 : before \notin matching
<1>1. matching # {}
  BY DEF FirstOf
<1>2. PICK first : first = Min(matching)
  OBVIOUS
<1>3. first \in matching /\ \A n \in matching : first <= n
  BY <1>1, <1>2, MinAs
<1>4. \A before \in 1 .. first - 1 : before \notin matching
  BY <1>3
<1>. QED
  BY <1>1, <1>2, <1>3, <1>4 DEF FirstOf

\* resolveAccessRule returns a rule of the site for this branch and page, or the policy.
LEMMA RuleFound ==
    ASSUME NEW access \in Seq(BranchRules), NEW branch, NEW page
    PROVE  \/ ResolveAccessRule(access, branch, page) = Fallback
           \/ \E i \in DOMAIN access : \E j \in DOMAIN access[i].rules :
                IsRuleFor(access, branch, page, i, j, ResolveAccessRule(access, branch, page))
<1>1. PICK entries : entries = {i \in DOMAIN access : branch \in access[i].branches}
  OBVIOUS
<1>2. PICK entry : entry = FirstOf(access, entries)
  OBVIOUS
<1>3. PICK matching : matching = {j \in DOMAIN entry.rules : page \in entry.rules[j].pages}
  OBVIOUS
<1>4. PICK found : found = FirstOf(entry.rules, matching)
  OBVIOUS
<1>5. ResolveAccessRule(access, branch, page) =
        IF entry = None THEN Fallback
        ELSE IF found = None THEN Fallback
        ELSE [allow |-> found.allow, deny |-> found.deny]
  BY <1>1, <1>2, <1>3, <1>4, Zenon DEF ResolveAccessRule
<1>6. CASE entry # None /\ found # None
  <2>1. entries \subseteq Nat
    BY <1>1
  <2>2. PICK i \in entries : entry = access[i] /\ \A before \in 1 .. i - 1 : before \notin entries
    BY <1>2, <1>6, <2>1, FirstIs
  <2>3. /\ i \in DOMAIN access /\ branch \in access[i].branches
        /\ \A before \in 1 .. i - 1 : branch \notin access[before].branches
    BY <1>1, <2>2
  <2>4. entry.rules \in Seq(PageRule)
    <3>1. access[i] \in BranchRules
      BY <2>3
    <3>. QED
      BY <2>2, <3>1 DEF BranchRules
  <2>5. matching \subseteq Nat
    BY <1>3, <2>4
  <2>6. PICK j \in matching : /\ found = entry.rules[j]
                              /\ \A before \in 1 .. j - 1 : before \notin matching
    BY <1>4, <1>6, <2>5, FirstIs
  <2>7. /\ j \in DOMAIN entry.rules /\ page \in entry.rules[j].pages
        /\ \A before \in 1 .. j - 1 : page \notin entry.rules[before].pages
    BY <1>3, <2>4, <2>6
  <2>8. ResolveAccessRule(access, branch, page) = [allow |-> found.allow, deny |-> found.deny]
    BY <1>5, <1>6
  <2>9. IsRuleFor(access, branch, page, i, j, ResolveAccessRule(access, branch, page))
    BY <2>2, <2>3, <2>6, <2>7, <2>8 DEF IsRuleFor
  <2>10. j \in DOMAIN access[i].rules
    BY <2>2, <2>7
  <2>. QED
    BY <2>3, <2>9, <2>10
<1>7. CASE entry = None \/ found = None
  BY <1>5, <1>7
<1>. QED
  BY <1>6, <1>7

LEMMA FallbackType ==
    Fallback \in AccessRule(Names)
  BY PolicyAssumption DEF Fallback, AccessRule, BasicRoles

LEMMA RuleType ==
    ASSUME NEW access \in Seq(BranchRules), NEW branch, NEW page
    PROVE  ResolveAccessRule(access, branch, page) \in AccessRule(Names)
<1>1. ASSUME NEW i \in DOMAIN access, NEW j \in DOMAIN access[i].rules, NEW found,
             IsRuleFor(access, branch, page, i, j, found)
      PROVE  found \in AccessRule(Names)
  <2>1. access[i] \in BranchRules
    OBVIOUS
  <2>2. access[i].rules \in Seq(PageRule)
    BY <2>1 DEF BranchRules
  <2>3. access[i].rules[j] \in PageRule
    BY <2>2
  <2>4. access[i].rules[j].allow \in SUBSET (Names \cup BasicRoles)
        /\ access[i].rules[j].deny \in SUBSET (Names \cup BasicRoles)
    BY <2>3 DEF PageRule
  <2>. QED
    BY <1>1, <2>4 DEF IsRuleFor, AccessRule
<1>. QED
  BY <1>1, FallbackType, RuleFound

-----------------------------------------------------------------------------
(* The inductive invariant *)

\* What auth_pages read, and made of it, for a site that the search may have found.
Chosen(req, minDepth, site, readOf, s, found) ==
    /\ Located(req.path, minDepth, site)
    /\ readOf.dir = DirOf(site) /\ readOf.config \in Configs
    /\ s = SplitUri(req, site)
    /\ found = ResolveAccessRule(AccessOf[readOf.config], s.branch, s.page)

\* The site that auth_pages took: nothing moves on the disk while it awaits the user.
Judged == Chosen(request, server.minDepth, AuthorizedSite, read, split, rule)
NotJudged == read = None /\ split = None /\ rule = None

LetIn == \/ user \in Principals /\ IsAllowed(user, rule)
         \/ user = None /\ IsAnonymousAllowed(rule)

Typed ==
    /\ sites \in [SiteDirs -> Configs \cup {None}]
    /\ server \in Deployments
    /\ request \in Requests
    /\ pc \in {"start", "mapped", "deciding", "done"}
    /\ user \in Principals \cup {None}
    /\ status \in {0, 204, 401, 403, 404, 500}

\* The document is from the site in the variable, or from one that is nowhere kept.
Mapped ==
    /\ pc = "start" => siteVar = None /\ document = None
    /\ siteVar # None => server.declared /\ Located(request.path, server.minDepth, siteVar)
    /\ document # None /\ server.declared
         => siteVar # None /\ document = DocumentUri(request, siteVar)

Answered ==
    /\ pc \in {"start", "mapped"} => NotJudged
    /\ pc # "done" => user = None /\ status = 0
    /\ pc = "deciding" => Judged
    /\ NotJudged \/ Judged
    /\ status = 204 => Judged /\ LetIn

IInv == Typed /\ Mapped /\ Answered

LEMMA InitIInv == Init => IInv
  BY DEF Init, IInv, Typed, Mapped, Answered, NotJudged

LEMMA NextIInv == IInv /\ [Next]_vars => IInv'
<1>. SUFFICES ASSUME IInv, [Next]_vars PROVE IInv'
  OBVIOUS
<1>. USE DEF IInv
<1>0. server.minDepth \in Nat /\ request \in Requests
  BY DepthAssumption DEF Typed
<1>1. CASE MapDocument
  <2>1. Typed'
    BY <1>1 DEF MapDocument, Typed
  <2>2. Mapped'
    <3>1. siteVar' # None => /\ server.declared
                             /\ Located(request.path, server.minDepth, siteVar')
      BY <1>0, <1>1, FoundLocated DEF MapDocument
    <3>2. document' # None /\ server.declared
            => siteVar' # None /\ document' = DocumentUri(request, siteVar')
      BY <1>1 DEF MapDocument
    <3>3. request' = request /\ server' = server /\ pc' = "mapped"
      BY <1>1 DEF MapDocument
    <3>. QED
      BY <3>1, <3>2, <3>3 DEF Mapped
  <2>3. Answered'
    BY <1>1 DEF MapDocument, Answered, NotJudged
  <2>. QED
    BY <2>1, <2>2, <2>3
<1>2. CASE AuthorizeNoSite
  <2>1. Typed'
    BY <1>2 DEF AuthorizeNoSite, Typed
  <2>2. Mapped'
    BY <1>2 DEF AuthorizeNoSite, Mapped
  <2>3. Answered'
    BY <1>2 DEF AuthorizeNoSite, Answered, NotJudged
  <2>. QED
    BY <2>1, <2>2, <2>3
<1>3. CASE AuthorizePage
  <2>1. Typed'
    BY <1>3 DEF AuthorizePage, Typed
  <2>2. Mapped'
    BY <1>3 DEF AuthorizePage, Mapped
  <2>3. PICK site : /\ site = AuthorizedSite /\ site # None
                    /\ sites[DirOf(site)] # None
                    /\ read' = [dir |-> DirOf(site), config |-> sites[DirOf(site)]]
                    /\ split' = SplitUri(request, site)
                    /\ rule' = ResolveAccessRule(AccessOf[sites[DirOf(site)]],
                                                 SplitUri(request, site).branch,
                                                 SplitUri(request, site).page)
    BY <1>3 DEF AuthorizePage
  <2>4. Located(request.path, server.minDepth, site)
    BY <1>0, <2>3, FoundLocated DEF AuthorizedSite, Mapped
  <2>5. read'.dir = DirOf(site) /\ read'.config = sites[DirOf(site)]
    BY <2>3
  <2>6. sites[DirOf(site)] \in Configs
    BY <2>3, <2>4 DEF Typed, Located
  <2>7. Chosen(request, server.minDepth, site, read', split', rule')
    BY <2>3, <2>4, <2>5, <2>6 DEF Chosen
  <2>8. request' = request /\ server' = server /\ pc' = "deciding"
        /\ AuthorizedSite' = AuthorizedSite /\ user' = user /\ status' = status /\ pc # "done"
    BY <1>3 DEF AuthorizePage, AuthorizedSite
  <2>9. Judged'
    BY <2>3, <2>7, <2>8 DEF Judged
  <2>10. Answered'
    BY <2>8, <2>9 DEF Answered
  <2>. QED
    BY <2>1, <2>2, <2>10
<1>4. ASSUME NEW principal \in Principals, Decide(principal) PROVE IInv'
  <2>1. Typed'
    BY <1>4 DEF Decide, Typed
  <2>2. Mapped'
    BY <1>4 DEF Decide, Mapped
  <2>3. Judged'
    BY <1>4 DEF Decide, Judged, Answered, AuthorizedSite
  <2>4. status' = 204 => LetIn'
    BY <1>4 DEF Decide, LetIn
  <2>5. Answered'
    BY <1>4, <2>3, <2>4 DEF Decide, Answered
  <2>. QED
    BY <2>1, <2>2, <2>5
<1>5. CASE DecideAnonymous
  <2>1. Typed'
    BY <1>5 DEF DecideAnonymous, Typed
  <2>2. Mapped'
    BY <1>5 DEF DecideAnonymous, Mapped
  <2>3. Judged'
    BY <1>5 DEF DecideAnonymous, Judged, Answered, AuthorizedSite
  <2>4. status' = 204 => LetIn'
    BY <1>5 DEF DecideAnonymous, LetIn, Answered
  <2>5. Answered'
    BY <1>5, <2>3, <2>4 DEF DecideAnonymous, Answered
  <2>. QED
    BY <2>1, <2>2, <2>5
<1>6. ASSUME NEW dir \in SiteDirs, NEW config \in Configs \cup {None}, Publish(dir, config)
      PROVE  IInv'
  <2>1. Typed'
    BY <1>6 DEF Publish, Typed
  <2>2. Mapped'
    BY <1>6 DEF Publish, Mapped
  <2>3. Answered'
    BY <1>6 DEF Publish, Answered, NotJudged
  <2>. QED
    BY <2>1, <2>2, <2>3
<1>7. CASE UNCHANGED vars
  BY <1>7 DEF vars, Typed, Mapped, Answered, NotJudged, Judged, LetIn, AuthorizedSite
<1>. QED
  BY <1>1, <1>2, <1>3, <1>4, <1>5, <1>6, <1>7 DEF Next

\* The invariant holds in every behaviour.
LEMMA Invariant == Spec => []IInv
  BY InitIInv, NextIInv, PTL DEF Spec

-----------------------------------------------------------------------------
(* What follows for the requests *)

\* Site, branch, page and rule of a judged request, by its segments.
LEMMA ChosenParts ==
    ASSUME NEW req \in Requests, NEW minDepth \in Nat, NEW site, NEW readOf, NEW s, NEW found,
           Chosen(req, minDepth, site, readOf, s, found)
    PROVE  \E k \in 0 .. Len(req.path) :
             Parted(req.path, site, k) /\ Divided(Rest(req.path, k), s)
<1>1. req.path \in Seq(Segments) /\ Len(req.path) \in Nat /\ MaxDepth \in Nat
  BY PathType, DepthAssumption
<1>2. PICK depth \in 0 .. MaxDepth : depth <= Len(req.path) /\ At(req.path, depth, site)
  BY DEF Chosen, Located
<1>3. depth \in 0 .. Len(req.path)
  BY <1>1, <1>2
<1>4. PICK k \in 0 .. Len(req.path) : Parted(req.path, site, k)
  BY <1>1, <1>2, <1>3, SiteParts
<1>5. Divided(Rest(req.path, k), SplitUri(req, site))
  BY <1>4, SplitDivides
<1>. QED
  BY <1>4, <1>5 DEF Chosen

LEMMA RestType ==
    ASSUME NEW req \in Requests, NEW k \in 0 .. Len(req.path)
    PROVE  /\ Rest(req.path, k) \in Seq(Segments) /\ Len(Rest(req.path, k)) <= MaxSegments
           /\ MaxSegments >= 1
           /\ Rest(req.path, k) # <<>> => Last(Rest(req.path, k)) = Last(req.path)
<1>1. /\ req.path \in Seq(Segments) /\ Len(req.path) \in Nat
      /\ Len(req.path) >= 1 /\ Len(req.path) <= MaxSegments
  BY PathType
<1>2. MaxSegments \in Nat
  BY SegmentsAssumption
<1>3. /\ Rest(req.path, k) \in Seq(Segments) /\ Len(Rest(req.path, k)) = Len(req.path) - k
      /\ \A i \in 1 .. (Len(req.path) - k) : Rest(req.path, k)[i] = req.path[k + i]
  BY <1>1, Levels
<1>4. Len(req.path) - k <= MaxSegments /\ MaxSegments >= 1
  BY <1>1, <1>2
<1>5. ASSUME Rest(req.path, k) # <<>>
      PROVE  Last(Rest(req.path, k)) = Last(req.path)
  <2>1. Len(Rest(req.path, k)) # 0
    BY <1>3, <1>5
  <2>2. Len(req.path) - k \in 1 .. (Len(req.path) - k) /\ k + (Len(req.path) - k) = Len(req.path)
    BY <1>1, <1>3, <2>1
  <2>3. Rest(req.path, k)[Len(req.path) - k] = req.path[Len(req.path)]
    BY <1>3, <2>2
  <2>. QED
    BY <1>3, <2>3 DEF Last
<1>. QED
  BY <1>3, <1>4, <1>5

LEMMA ChosenType ==
    ASSUME NEW req \in Requests, NEW minDepth \in Nat, NEW site, NEW readOf, NEW s, NEW found,
           Chosen(req, minDepth, site, readOf, s, found)
    PROVE  /\ s.branch \in Branches /\ s.page \in Paths
           /\ s.page \in Seq(Segments) /\ s.page # <<>>
           /\ Last(req.path) = "" => Last(s.page) = ""
           /\ AccessOf[readOf.config] \in Seq(BranchRules)
           /\ found \in AccessRule(Names)
<1>1. PICK k \in 0 .. Len(req.path) : Divided(Rest(req.path, k), s)
  BY ChosenParts
<1>2. /\ Rest(req.path, k) \in Seq(Segments) /\ Len(Rest(req.path, k)) <= MaxSegments
      /\ MaxSegments >= 1
      /\ Rest(req.path, k) # <<>> => Last(Rest(req.path, k)) = Last(req.path)
  BY RestType
<1>3. /\ s.branch \in Branches /\ s.page \in Paths
      /\ s.page \in Seq(Segments) /\ s.page # <<>>
      /\ Last(s.page) = IF Rest(req.path, k) = <<>> THEN "" ELSE Last(Rest(req.path, k))
  BY <1>1, <1>2, DividedType
<1>4. AccessOf[readOf.config] \in Seq(BranchRules)
  BY ConfigsAssumption DEF Chosen
<1>5. found \in AccessRule(Names)
  BY <1>4, RuleType DEF Chosen
<1>. QED
  BY <1>2, <1>3, <1>4, <1>5

\* Variables keep their types; in particular every request is split into a branch that
\* exists and a page that is a path.
THEOREM TypeCorrect == Spec => []TypeOK
<1>1. IInv => TypeOK
  <2>. SUFFICES ASSUME IInv PROVE TypeOK
    OBVIOUS
  <2>1. Typed /\ Mapped /\ (NotJudged \/ Judged) /\ server.minDepth \in Nat /\ request \in Requests
    BY DepthAssumption DEF IInv, Answered, Typed
  <2>2. siteVar = None \/ DirOf(siteVar) \in SiteDirs
    BY <2>1 DEF Mapped, Located
  <2>3. CASE NotJudged
    BY <2>1, <2>2, <2>3 DEF NotJudged, Typed, TypeOK
  <2>4. CASE Judged
    <3>1. split.branch \in Branches /\ split.page \in Paths /\ rule \in AccessRule(Names)
      BY <2>1, <2>4, ChosenType DEF Judged
    <3>. QED
      BY <2>1, <2>2, <3>1 DEF Typed, TypeOK
  <2>. QED
    BY <2>1, <2>3, <2>4
<1>. QED
  BY <1>1, Invariant, PTL

\* The policy DENY lets nobody in.
LEMMA NobodyUnderFallback ==
    ASSUME Policy = "DENY", NEW principal
    PROVE  ~IsAllowed(principal, Fallback) /\ ~IsAnonymousAllowed(Fallback)
  BY DEF Fallback, IsAllowed, IsAnonymousAllowed

\* Under the policy DENY nobody gets a page but by the first rule about it, of the site's first
\* entry for its branch.
THEOREM ServedByARuleHolds == Spec => []ServedByARule
<1>1. IInv => ServedByARule
  <2>. SUFFICES ASSUME IInv, status = 204, Policy = "DENY" PROVE ServedByARule
    BY DEF ServedByARule
  <2>1. Judged /\ LetIn /\ server.minDepth \in Nat /\ request \in Requests
    BY DepthAssumption DEF IInv, Answered, Typed
  <2>2. PICK access : access = AccessOf[read.config]
    OBVIOUS
  <2>3. access \in Seq(BranchRules)
    BY <2>1, <2>2, ChosenType DEF Judged
  <2>4. rule = ResolveAccessRule(access, split.branch, split.page)
    BY <2>1, <2>2 DEF Judged, Chosen
  <2>5. rule # Fallback
    BY <2>1, NobodyUnderFallback DEF LetIn
  <2>6. PICK i \in DOMAIN access : \E j \in DOMAIN access[i].rules :
          IsRuleFor(access, split.branch, split.page, i, j, rule)
    BY <2>3, <2>4, <2>5, RuleFound
  <2>7. PICK j \in DOMAIN access[i].rules :
          IsRuleFor(access, split.branch, split.page, i, j, rule)
    BY <2>6
  <2>8. PICK r : r = access[i].rules[j]
    OBVIOUS
  <2>9. /\ split.branch \in access[i].branches
        /\ \A before \in 1 .. i - 1 : split.branch \notin access[before].branches
        /\ split.page \in r.pages
        /\ \A before \in 1 .. j - 1 : split.page \notin access[i].rules[before].pages
    BY <2>7, <2>8 DEF IsRuleFor
  <2>10. rule.allow = r.allow /\ rule.deny = r.deny
    BY <2>7, <2>8 DEF IsRuleFor
  <2>11. IF user = None THEN "ANONYMOUS" \in r.allow \ r.deny
         ELSE Identities(user) \cap r.deny = {}
                /\ r.allow \cap (Identities(user) \cup BasicRoles) # {}
    <3>1. CASE user = None
      <4>1. IsAnonymousAllowed(rule)
        BY <2>1, <3>1, PrincipalsAssumption DEF LetIn
      <4>. QED
        BY <2>10, <3>1, <4>1 DEF IsAnonymousAllowed
    <3>2. CASE user # None
      <4>1. IsAllowed(user, rule)
        BY <2>1, <3>2 DEF LetIn
      <4>2. Identities(user) \cap r.deny = {}
        BY <2>10, <4>1, Zenon DEF IsAllowed
      <4>3. r.allow \cap (Identities(user) \cup BasicRoles) # {}
        <5>1. \/ BasicRoles \cap r.allow # {}
              \/ Identities(user) \cap r.allow # {}
          BY <2>10, <4>1, Zenon DEF IsAllowed
        <5>. QED
          BY <5>1
      <4>. QED
        BY <3>2, <4>2, <4>3
    <3>. QED
      BY <3>1, <3>2
  <2>. QED
    BY <2>2, <2>8, <2>9, <2>11, Zenon DEF ServedByARule
<1>. QED
  BY <1>1, Invariant, PTL

\* The directory of a site is the one that its part of the request leads to, or the root
\* site in it.
LEMMA PartedDir ==
    ASSUME NEW path \in Seq(Segments), NEW k \in 0 .. Len(path), NEW site,
           Parted(path, site, k)
    PROVE  DirOf(site) \in {DirOf(Level(path, k)), DirOf(Level(path, k)) \o <<RootSite>>}
<1>. DEFINE Known == Segments \cup {RootSite}
<1>1. path \in Seq(Known) /\ RootSite \in Known
  BY SeqMonotonic
<1>2. RootSite # ""
  BY DEF RootSite
<1>. HIDE DEF Known
<1>3. Level(path, k) \in Seq(Known)
  BY <1>1, Levels
<1>4. CASE site = Level(path, k)
  BY <1>4
<1>5. CASE site = Append(Level(path, k), RootSite)
  <2>1. DirOf(site) = Append(DirOf(Level(path, k)), RootSite)
    BY <1>1, <1>2, <1>3, <1>5, DirAppend
  <2>2. DirOf(Level(path, k)) \in Seq(Known)
    BY <1>3, DirNames
  <2>3. DirOf(site) = DirOf(Level(path, k)) \o <<RootSite>>
    BY <1>1, <2>1, <2>2, AppendIsConcat
  <2>. QED
    BY <2>3
<1>. QED
  BY <1>4, <1>5 DEF Parted

\* A request is split into a site, a branch and a page that together are its path.
THEOREM SplitLosesNothingHolds == Spec => []SplitLosesNothing
<1>1. IInv => SplitLosesNothing
  <2>. SUFFICES ASSUME IInv, split # None PROVE SplitLosesNothing
    BY DEF SplitLosesNothing
  <2>1. Judged /\ server.minDepth \in Nat /\ request \in Requests
    BY DepthAssumption DEF IInv, Answered, Typed, NotJudged
  <2>2. PICK site : Chosen(request, server.minDepth, site, read, split, rule)
    BY <2>1 DEF Judged
  <2>3. PICK k \in 0 .. Len(request.path) :
          Parted(request.path, site, k) /\ Divided(Rest(request.path, k), split)
    BY <2>1, <2>2, ChosenParts
  <2>4. read.dir \in {DirOf(Level(request.path, k)),
                      DirOf(Level(request.path, k)) \o <<RootSite>>}
    BY <2>1, <2>2, <2>3, PartedDir, PathType DEF Chosen
  <2>5. PICK rest : rest = Rest(request.path, k)
    OBVIOUS
  <2>6. LET named == rest # <<>> /\ rest[1] \in DOMAIN BranchOf /\ Len(rest) > 1
        IN  CASE rest = <<>> -> split.page = <<"">> /\ split.branch = DefaultBranch
              [] named -> split.page = Tail(rest) /\ split.branch = BranchOf[rest[1]]
              [] OTHER -> split.page = rest /\ split.branch = DefaultBranch
    <3>1. Divided(rest, split)
      BY <2>3, <2>5
    <3>2. CASE rest = <<>>
      BY <3>1, <3>2 DEF Divided
    <3>3. CASE rest # <<>> /\ NamesBranch(rest)
      BY <3>1, <3>3 DEF Divided, NamesBranch
    <3>4. CASE rest # <<>> /\ ~NamesBranch(rest)
      BY <3>1, <3>4 DEF Divided, NamesBranch
    <3>. QED
      BY <3>2, <3>3, <3>4
  <2>. QED
    BY <2>4, <2>5, <2>6 DEF SplitLosesNothing, Level, Rest
<1>. QED
  BY <1>1, Invariant, PTL

-----------------------------------------------------------------------------
(* How deep the directory of a site is *)

\* Numbers up to a depth that are not among some are among the others.
LEMMA CountTheOthers ==
    ASSUME NEW depth \in Nat, NEW len \in Nat, NEW A \in SUBSET (1 .. depth),
           NEW X \in SUBSET (1 .. len), (1 .. depth) \ A \subseteq X
    PROVE  /\ Cardinality(A) \in Nat /\ Cardinality(A) <= depth /\ Cardinality(X) \in Nat
           /\ depth <= Cardinality(A) + Cardinality(X)
           /\ A \cap X # {} => depth + 1 <= Cardinality(A) + Cardinality(X)
<1>. DEFINE others == (1 .. depth) \ A
<1>1. IsFiniteSet(1 .. depth) /\ Cardinality(1 .. depth) = depth
  <2>1. Cardinality(1 .. depth) = IF 1 > depth THEN 0 ELSE depth - 1 + 1
    BY FS_Interval
  <2>. QED
    BY <2>1, FS_Interval
<1>2. IsFiniteSet(X) /\ Cardinality(X) \in Nat /\ Cardinality(A) \in Nat
  BY CountTypes
<1>3. Cardinality(A) <= depth
  BY <1>1, FS_Subset
<1>4. (1 .. depth) \cap A = A
  OBVIOUS
<1>5. IsFiniteSet(others) /\ Cardinality(others) = depth - Cardinality(A)
  <2>1. /\ IsFiniteSet(others)
        /\ Cardinality(others) = Cardinality(1 .. depth) - Cardinality((1 .. depth) \cap A)
    BY <1>1, FS_Difference, Zenon
  <2>. QED
    BY <1>1, <1>4, <2>1, Zenon
<1>6. Cardinality(others) <= Cardinality(X)
  BY <1>2, FS_Subset
<1>7. ASSUME NEW i \in A \cap X
      PROVE  Cardinality(others) + 1 <= Cardinality(X)
  <2>1. i \notin others /\ others \cup {i} \subseteq X
    OBVIOUS
  <2>. HIDE DEF others
  <2>2. Cardinality(others \cup {i}) = Cardinality(others) + 1
    BY <1>5, <2>1, FS_AddElement
  <2>3. Cardinality(others \cup {i}) <= Cardinality(X)
    BY <1>2, <2>1, FS_Subset
  <2>. QED
    BY <2>2, <2>3
<1>. HIDE DEF others
<1>8. depth <= Cardinality(A) + Cardinality(X)
  BY <1>2, <1>5, <1>6
<1>9. ASSUME A \cap X # {}
      PROVE  depth + 1 <= Cardinality(A) + Cardinality(X)
  <2>1. Cardinality(others) + 1 <= Cardinality(X)
    BY <1>7, <1>9, Zenon
  <2>. QED
    BY <1>2, <1>5, <2>1
<1>. QED
  BY <1>2, <1>3, <1>8, <1>9

\* The segments of a request that are no names of a directory, or that name a root site.
Extra(path) == {i \in DOMAIN path : path[i] \in {"", RootSite}}

\* What a level's directory lacks in names the request has in such segments.
LEMMA LevelNames ==
    ASSUME NEW path \in Seq(Segments), NEW depth \in 0 .. Len(path)
    PROVE  LET dir == DirOf(Level(path, depth))
           IN  /\ dir \in Seq(Segments) /\ Len(dir) \in Nat /\ Len(dir) <= depth
               /\ Cardinality(Extra(path)) \in Nat
               /\ depth <= Len(dir) + Cardinality(Extra(path))
               /\ dir # <<>> /\ Last(dir) = RootSite =>
                    depth + 1 <= Len(dir) + Cardinality(Extra(path))
<1>. DEFINE level == Level(path, depth)
            dir == DirOf(level)
            A == Named(level)
            X == Extra(path)
<1>1. Len(path) \in Nat /\ depth \in Nat /\ depth <= Len(path)
  OBVIOUS
<1>2. level \in Seq(Segments) /\ Len(level) = depth /\ \A i \in 1 .. depth : level[i] = path[i]
  BY Levels
<1>3. A \in SUBSET (1 .. depth) /\ \A i : i \in A <=> (i \in 1 .. depth /\ level[i] # "")
  <2>. HIDE DEF level
  <2>. QED
    BY <1>2, NamedType
<1>4. \A i : i \in X <=> (i \in 1 .. Len(path) /\ path[i] \in {"", RootSite})
  BY LenProperties, Zenon DEF Extra
<1>5. \A i \in 1 .. depth : i \in 1 .. Len(path)
  BY <1>1
<1>6. X \in SUBSET (1 .. Len(path)) /\ (1 .. depth) \ A \subseteq X
  <2>. HIDE DEF A, X, level
  <2>1. X \in SUBSET (1 .. Len(path))
    BY <1>4, Zenon
  <2>2. \A i \in 1 .. depth : i \notin A => i \in X
    BY <1>2, <1>3, <1>4, <1>5, Zenon
  <2>. QED
    BY <2>1, <2>2, Zenon
<1>7. /\ dir \in Seq(Segments) /\ Len(dir) = Cardinality(A)
      /\ \A n \in 1 .. Len(dir) : \E i \in A : dir[n] = level[i]
  BY <1>2, DirNames
<1>8. /\ Cardinality(A) \in Nat /\ Cardinality(A) <= depth /\ Cardinality(X) \in Nat
      /\ depth <= Cardinality(A) + Cardinality(X)
      /\ A \cap X # {} => depth + 1 <= Cardinality(A) + Cardinality(X)
  <2>. HIDE DEF A, X
  <2>. QED
    BY <1>1, <1>3, <1>6, CountTheOthers
<1>9. ASSUME dir # <<>>, Last(dir) = RootSite PROVE A \cap X # {}
  <2>. HIDE DEF A, X, level, dir
  <2>1. Len(dir) \in 1 .. Len(dir)
    BY <1>7, <1>9
  <2>2. PICK i \in A : dir[Len(dir)] = level[i]
    BY <1>7, <2>1
  <2>3. i \in 1 .. depth /\ level[i] = RootSite
    BY <1>3, <1>9, <2>2 DEF Last
  <2>4. i \in X
    BY <1>2, <1>4, <1>5, <2>3, Zenon
  <2>. QED
    BY <2>4
<1>10. /\ dir \in Seq(Segments) /\ Len(dir) \in Nat /\ Len(dir) <= depth
       /\ Cardinality(X) \in Nat
       /\ depth <= Len(dir) + Cardinality(X)
       /\ dir # <<>> /\ Last(dir) = RootSite => depth + 1 <= Len(dir) + Cardinality(X)
  <2>. HIDE DEF A, X, dir
  <2>. QED
    BY <1>7, <1>8, <1>9
<1>. QED
  BY <1>10

\* The site is no deeper than it may be, and no nearer to the root than it may be, if
\* every segment of the request counts as a level.
THEOREM DepthsRespectedHolds == Spec => []DepthsRespected
<1>1. IInv => DepthsRespected
  <2>. SUFFICES ASSUME IInv, read # None PROVE DepthsRespected
    BY DEF DepthsRespected
  <2>1. Judged /\ server.minDepth \in Nat /\ request \in Requests
    BY DepthAssumption DEF IInv, Answered, Typed, NotJudged
  <2>2. PICK site : Chosen(request, server.minDepth, site, read, split, rule)
    BY <2>1 DEF Judged
  <2>3. PICK path : path = request.path
    OBVIOUS
  <2>4. path \in Seq(Segments) /\ Len(path) \in Nat /\ MaxDepth \in Nat
    BY <2>1, <2>3, PathType, DepthAssumption
  <2>5. PICK depth \in 0 .. MaxDepth :
          server.minDepth <= depth /\ depth <= Len(path) /\ At(path, depth, site)
    BY <2>2, <2>3 DEF Chosen, Located
  <2>6. depth \in 0 .. Len(path) /\ depth \in Nat /\ depth <= MaxDepth
    BY <2>4, <2>5
  <2>7. PICK dir : dir = DirOf(Level(path, depth))
    OBVIOUS
  <2>8. PICK extra : extra = Cardinality(Extra(path))
    OBVIOUS
  <2>9. /\ dir \in Seq(Segments) /\ Len(dir) \in Nat /\ Len(dir) <= depth
        /\ extra \in Nat
        /\ depth <= Len(dir) + extra
        /\ dir # <<>> /\ Last(dir) = RootSite => depth + 1 <= Len(dir) + extra
    BY <2>4, <2>6, <2>7, <2>8, LevelNames
  <2>10. Len(read.dir) <= MaxDepth /\ Len(SitePrefix(read.dir)) + extra >= server.minDepth
    <3>1. CASE site = Level(path, depth)
      <4>1. read.dir = dir
        BY <2>2, <2>7, <3>1 DEF Chosen
      <4>2. CASE dir # <<>> /\ Last(dir) = RootSite
        <5>1. SitePrefix(dir) = Front(dir)
          BY <4>2 DEF SitePrefix
        <5>2. Len(Front(dir)) = Len(dir) - 1
          BY <2>9, <4>2, FrontOf
        <5>. QED
          BY <2>1, <2>4, <2>5, <2>6, <2>9, <4>1, <4>2, <5>1, <5>2
      <4>3. CASE ~(dir # <<>> /\ Last(dir) = RootSite)
        <5>1. SitePrefix(dir) = dir
          BY <4>3 DEF SitePrefix
        <5>. QED
          BY <2>1, <2>4, <2>5, <2>6, <2>9, <4>1, <5>1
      <4>. QED
        BY <4>2, <4>3
    <3>2. CASE depth < MaxDepth /\ site = Append(Level(path, depth), RootSite)
      <4>1. PICK known : known = Segments \cup {RootSite}
        OBVIOUS
      <4>2. RootSite \in known /\ RootSite # "" /\ path \in Seq(known)
        BY <2>4, <4>1, SeqMonotonic DEF RootSite
      <4>3. Level(path, depth) \in Seq(known)
        BY <2>6, <4>2, Levels
      <4>4. DirOf(site) = Append(dir, RootSite) /\ dir \in Seq(known)
        BY <2>7, <3>2, <4>2, <4>3, DirAppend, DirNames
      <4>5. read.dir = Append(dir, RootSite)
        BY <2>2, <4>4 DEF Chosen
      <4>6. PICK longer : longer = Append(dir, RootSite)
        OBVIOUS
      <4>7. /\ longer \in Seq(known) /\ Len(longer) = Len(dir) + 1
            /\ longer[Len(dir) + 1] = RootSite
            /\ \A i \in 1 .. Len(dir) : longer[i] = dir[i]
        BY <4>2, <4>4, <4>6, Appended
      <4>8. Last(longer) = RootSite /\ longer # <<>>
        BY <2>9, <4>7 DEF Last
      <4>9. Len(SitePrefix(longer)) = Len(dir)
        <5>1. SitePrefix(longer) = Front(longer)
          BY <4>8 DEF SitePrefix
        <5>2. Len(Front(longer)) = Len(longer) - 1
          BY <2>9, <4>7 DEF Front
        <5>. QED
          BY <2>9, <4>7, <5>1, <5>2
      <4>. QED
        BY <2>1, <2>4, <2>5, <2>6, <2>9, <3>2, <4>5, <4>6, <4>7, <4>9
    <3>. QED
      BY <2>5, <3>1, <3>2 DEF At
  <2>. QED
    BY <2>3, <2>8, <2>10, Zenon DEF DepthsRespected, Extra
<1>. QED
  BY <1>1, Invariant, PTL

-----------------------------------------------------------------------------
(* Whose a document is *)

NoneIn(path, kind) == \A i \in 1 .. Len(path) : path[i] \notin kind
Around(front, x, back) == front \o <<x>> \o back
IsAround(doc, at, front, x, back) ==
    doc[at] = x /\ SubSeq(doc, 1, at - 1) = front /\ SubSeq(doc, at + 1, Len(doc)) = back
FirstIn(doc, kind) == Min({i \in DOMAIN doc : doc[i] \in kind})

\* What is in front of the first segment of a kind, and what is behind it.
LEMMA AroundFirst ==
    ASSUME NEW S, NEW front \in Seq(S), NEW x \in S, NEW back \in Seq(S), NEW kind, x \in kind,
           NoneIn(front, kind)
    PROVE  IsAround(Around(front, x, back), FirstIn(Around(front, x, back), kind), front, x, back)
<1>. DEFINE doc == Around(front, x, back)
            at == FirstIn(doc, kind)
<1>1. PICK n \in Nat : n = Len(front)
  OBVIOUS
<1>2. PICK m \in Nat : m = Len(back)
  OBVIOUS
<1>3. PICK middle \in Seq(S) : middle = Append(front, x) /\ middle = front \o <<x>>
  BY Appended, AppendIsConcat
<1>4. /\ Len(middle) = n + 1 /\ middle[n + 1] = x
      /\ \A i \in 1 .. n : middle[i] = front[i]
  BY <1>1, <1>3, Appended
<1>5. /\ doc \in Seq(S) /\ Len(doc) = n + 1 + m
      /\ \A i \in 1 .. (n + 1) : doc[i] = middle[i]
      /\ \A i \in 1 .. m : doc[n + 1 + i] = back[i]
  <2>1. doc = middle \o back
    BY <1>3 DEF Around
  <2>. HIDE DEF doc
  <2>2. /\ doc \in Seq(S) /\ Len(doc) = Len(middle) + Len(back)
        /\ \A i \in 1 .. Len(middle) : doc[i] = middle[i]
        /\ \A i \in 1 .. Len(back) : doc[Len(middle) + i] = back[i]
    <3>1. doc \in Seq(S) /\ Len(doc) = Len(middle) + Len(back)
      <4>1. middle \o back \in Seq(S) /\ Len(middle \o back) = Len(middle) + Len(back)
        BY ConcatProperties
      <4>. QED
        BY <2>1, <4>1, Zenon
    <3>2. ASSUME NEW i \in 1 .. Len(middle) PROVE doc[i] = middle[i]
      BY <2>1, Joined
    <3>3. ASSUME NEW i \in 1 .. Len(back) PROVE doc[Len(middle) + i] = back[i]
      BY <2>1, Joined
    <3>. QED
      BY <3>1, <3>2, <3>3
  <2>. QED
    BY <1>2, <1>4, <2>2
<1>. HIDE DEF doc
<1>6. doc[n + 1] = x /\ \A i \in 1 .. n : doc[i] = front[i]
  <2>1. n + 1 \in 1 .. (n + 1) /\ \A i \in 1 .. n : i \in 1 .. (n + 1)
    OBVIOUS
  <2>. QED
    BY <1>4, <1>5, <2>1
<1>7. at = n + 1
  <2>1. PICK T : T = {i \in DOMAIN doc : doc[i] \in kind}
    OBVIOUS
  <2>2. DOMAIN doc = 1 .. (n + 1 + m)
    BY <1>5
  <2>3. T \subseteq Nat /\ n + 1 \in T
    BY <1>6, <2>1, <2>2
  <2>4. Min(T) \in T /\ Min(T) <= n + 1
    BY <2>3, MinAs
  <2>5. ASSUME NEW i \in 1 .. n PROVE i \notin T
    BY <1>1, <1>6, <2>1 DEF NoneIn
  <2>6. at = Min(T)
    BY <2>1 DEF FirstIn
  <2>7. at \in T /\ at <= n + 1
    BY <2>4, <2>6
  <2>8. at \in 1 .. (n + 1 + m) /\ at \notin 1 .. n
    BY <2>1, <2>2, <2>5, <2>7
  <2>9. \A i \in 1 .. (n + 1 + m) : i <= n + 1 /\ i \notin 1 .. n => i = n + 1
    OBVIOUS
  <2>. QED
    BY <2>7, <2>8, <2>9, Zenon
<1>8. SubSeq(doc, 1, n) = front
  <2>1. SubSeq(doc, 1, n) \in Seq(S) /\ Len(SubSeq(doc, 1, n)) = n
        /\ \A i \in 1 .. n : SubSeq(doc, 1, n)[i] = doc[i]
    BY <1>5
  <2>. QED
    BY <1>1, <1>6, <2>1, SeqEqual
<1>9. SubSeq(doc, n + 2, n + 1 + m) = back
  <2>1. PICK end : end = SubSeq(doc, n + 2, n + 1 + m)
    OBVIOUS
  <2>2. end \in Seq(S) /\ Len(end) = m /\ \A i \in 1 .. m : end[i] = doc[n + 1 + i]
    BY <1>5, <2>1
  <2>3. end = back
    BY <1>2, <1>5, <2>2, SeqEqual
  <2>. QED
    BY <2>1, <2>3
<1>. HIDE DEF at
<1>10. (n + 1) - 1 = n /\ (n + 1) + 1 = n + 2
  OBVIOUS
<1>. QED
  BY <1>5, <1>6, <1>7, <1>8, <1>9, <1>10, Zenon DEF IsAround, doc, at

\* No segment of a site names a branch.
LEMMA SiteHasNoBranch ==
    ASSUME NEW S, NEW site \in Seq(S), DirOf(site) \in SiteDirs
    PROVE  \A i \in 1 .. Len(site) : site[i] \notin DOMAIN BranchOf
<1>. SUFFICES ASSUME NEW i \in 1 .. Len(site) PROVE site[i] \notin DOMAIN BranchOf
  OBVIOUS
<1>1. CASE site[i] = ""
  BY <1>1, SegmentsAssumption
<1>2. CASE site[i] # ""
  <2>1. i \in Named(site)
    BY <1>2, NamedType
  <2>2. PICK n \in 1 .. Len(DirOf(site)) : DirOf(site)[n] = site[i]
    BY <2>1, DirNames
  <2>3. PICK free : free = (Segments \cup {RootSite}) \ ({""} \cup DOMAIN BranchOf)
    OBVIOUS
  <2>4. DirOf(site) \in Seq(free)
    BY <2>3, DirsAssumption
  <2>5. DirOf(site)[n] \in free
    BY <2>2, <2>4, ElementOfSeq
  <2>. QED
    BY <2>2, <2>3, <2>5
<1>. QED
  BY <1>1, <1>2

LEMMA AtSegmentIs ==
    ASSUME NEW branch \in Branches
    PROVE  AtSegment(branch) \in DOMAIN BranchOf /\ BranchOf[AtSegment(branch)] = branch
<1>1. \E s \in DOMAIN BranchOf : BranchOf[s] = branch
  BY DEF Branches
<1>. QED
  BY <1>1 DEF AtSegment

\* The last segment of a page can be put back.
LEMMA IndexOf ==
    ASSUME NEW S, NEW page \in Seq(S), page # <<>>, NEW index \in S
    PROVE  LET indexed == Front(page) \o <<index>>
           IN  indexed \in Seq(S) /\ Front(indexed) \o <<Last(page)>> = page
<1>1. PICK front \in Seq(S), last \in S : page = Append(front, last)
  BY SequenceEmptyOrAppend
<1>2. Front(page) = front /\ Last(page) = last
  BY <1>1 DEF Front, Last
<1>3. PICK indexed : indexed = Append(front, index)
  OBVIOUS
<1>4. indexed \in Seq(S) /\ Front(indexed) = front
  BY <1>3 DEF Front
<1>5. Front(page) \o <<index>> = indexed
  BY <1>2, <1>3, AppendIsConcat
<1>6. front \o <<last>> = page
  BY <1>1, AppendIsConcat
<1>. QED
  BY <1>2, <1>4, <1>5, <1>6

LEMMA SiteType ==
    ASSUME NEW req \in Requests, NEW minDepth, NEW site, Located(req.path, minDepth, site)
    PROVE  site \in Seq(Segments \cup {RootSite})
<1>1. PICK known : known = Segments \cup {RootSite}
  OBVIOUS
<1>2. req.path \in Seq(known) /\ RootSite \in known /\ Len(req.path) \in Nat
  BY <1>1, PathType, SeqMonotonic
<1>3. MaxDepth \in Nat
  BY DepthAssumption
<1>4. PICK depth \in 0 .. MaxDepth : depth <= Len(req.path) /\ At(req.path, depth, site)
  BY DEF Located
<1>5. depth \in 0 .. Len(req.path)
  BY <1>2, <1>3, <1>4
<1>6. Level(req.path, depth) \in Seq(known)
  BY <1>2, <1>5, Levels
<1>7. Append(Level(req.path, depth), RootSite) \in Seq(known)
  BY <1>2, <1>6, Appended
<1>. QED
  BY <1>1, <1>4, <1>6, <1>7 DEF At

\* The owner of the document that a request is mapped to is the site it was found in, with
\* the branch and the page the request was split into.
LEMMA OwnerIs ==
    ASSUME Typed, NEW site, Located(request.path, server.minDepth, site),
           NEW readOf, NEW found, Chosen(request, server.minDepth, site, readOf, split, found),
           NEW doc, doc = DocumentUri(request, site)
    PROVE  /\ Owner(doc).dir = DirOf(site)
           /\ Owner(doc).branch = split.branch /\ Owner(doc).page = split.page
<1>1. request \in Requests /\ server.minDepth \in Nat
  BY DepthAssumption DEF Typed
<1>2. PICK names : names = Segments \cup {RootSite} \cup {"index.html"}
  OBVIOUS
<1>3. site \in Seq(names) /\ "index.html" \in names
  <2>1. PICK least : least = server.minDepth
    OBVIOUS
  <2>2. Located(request.path, least, site)
    BY <2>1
  <2>3. site \in Seq(Segments \cup {RootSite})
    BY <1>1, <2>2, SiteType
  <2>. QED
    BY <1>2, <2>3, SeqMonotonic
<1>4. /\ split.branch \in Branches /\ split.page \in Seq(names) /\ split.page # <<>>
      /\ Last(request.path) = "" => Last(split.page) = ""
  <2>1. /\ split.branch \in Branches /\ split.page \in Seq(Segments) /\ split.page # <<>>
        /\ Last(request.path) = "" => Last(split.page) = ""
    BY <1>1, ChosenType
  <2>2. Segments \subseteq names
    BY <1>2
  <2>. QED
    BY <2>1, <2>2, SeqMonotonic
<1>5. PICK x : x = AtSegment(split.branch)
  OBVIOUS
<1>6. x \in DOMAIN BranchOf /\ BranchOf[x] = split.branch /\ x \in names
  BY <1>2, <1>4, <1>5, AtSegmentIs, SegmentsAssumption
<1>7. PICK back : back = IF EndsWithSlash(request) THEN Front(split.page) \o <<"index.html">>
                         ELSE split.page
  OBVIOUS
<1>8. doc = site \o <<x>> \o back
  <2>1. split = SplitUri(request, site)
    BY DEF Chosen
  <2>. QED
    BY <1>5, <1>7, <2>1, Zenon DEF DocumentUri
<1>9. back \in Seq(names)
  BY <1>3, <1>4, <1>7, IndexOf
<1>10. \A i \in 1 .. Len(site) : site[i] \notin DOMAIN BranchOf
  BY <1>3, SiteHasNoBranch DEF Located
<1>11. PICK at : at = Min({i \in DOMAIN doc : doc[i] \in DOMAIN BranchOf})
  OBVIOUS
<1>12. doc[at] = x /\ SubSeq(doc, 1, at - 1) = site /\ SubSeq(doc, at + 1, Len(doc)) = back
  <2>1. PICK kind : kind = DOMAIN BranchOf
    OBVIOUS
  <2>2. x \in kind /\ NoneIn(site, kind) /\ doc = Around(site, x, back)
    BY <1>6, <1>8, <1>10, <2>1, Zenon DEF NoneIn, Around
  <2>3. at = FirstIn(doc, kind)
    BY <1>11, <2>1, Zenon DEF FirstIn
  <2>. QED
    <3>1. IsAround(Around(site, x, back), FirstIn(Around(site, x, back), kind), site, x, back)
      BY <1>3, <1>6, <1>9, <2>2, AroundFirst
    <3>2. IsAround(doc, at, site, x, back)
      BY <2>2, <2>3, <3>1, Zenon
    <3>. QED
      BY <3>2, Zenon DEF IsAround
<1>13. Owner(doc) = [dir |-> DirOf(site), branch |-> split.branch,
                     page |-> IF EndsWithSlash(request) THEN Front(back) \o <<"">> ELSE back]
  <2>1. Owner(doc) =
          [dir |-> DirOf(SubSeq(doc, 1, at - 1)), branch |-> BranchOf[doc[at]],
           page |-> IF EndsWithSlash(request)
                    THEN Front(SubSeq(doc, at + 1, Len(doc))) \o <<"">>
                    ELSE SubSeq(doc, at + 1, Len(doc))]
    BY <1>11, Zenon DEF Owner
  <2>. QED
    BY <1>6, <1>12, <2>1, Zenon
<1>14. (IF EndsWithSlash(request) THEN Front(back) \o <<"">> ELSE back) = split.page
  <2>1. CASE EndsWithSlash(request)
    <3>1. Last(split.page) = ""
      BY <1>4, <2>1 DEF EndsWithSlash
    <3>2. back = Front(split.page) \o <<"index.html">>
      BY <1>7, <2>1
    <3>3. Front(back) \o <<Last(split.page)>> = split.page
      BY <1>3, <1>4, <3>2, IndexOf
    <3>. QED
      BY <2>1, <3>1, <3>3
  <2>2. CASE ~EndsWithSlash(request)
    BY <1>7, <2>2
  <2>. QED
    BY <2>1, <2>2
<1>15. Owner(doc) = [dir |-> DirOf(site), branch |-> split.branch, page |-> split.page]
  BY <1>13, <1>14, Zenon
<1>. QED
  BY <1>15

\* Who gets a document gets it under the rule of the document's own site for its own branch
\* and page: with the variable declared, whatever happens on the disk between the handlers;
\* without, unless that makes auth_pages find another site.
THEOREM ServedUnderItsRuleHolds == Spec => []ServedUnderItsRule
<1>1. IInv => ServedUnderItsRule
  <2>. SUFFICES ASSUME IInv, status = 204, document # None, server.declared \/ StillFound
                PROVE  ServedUnderItsRule
    BY DEF ServedUnderItsRule
  <2>1. Typed /\ Mapped /\ Judged
    BY DEF IInv, Answered
  <2>2. PICK site : site = AuthorizedSite
    OBVIOUS
  <2>3. document = DocumentUri(request, site)
    <3>1. CASE server.declared
      BY <2>1, <2>2, <3>1 DEF Mapped, AuthorizedSite
    <3>2. CASE ~server.declared
      <4>1. siteVar = None
        BY <2>1, <3>2 DEF Mapped
      <4>. QED
        BY <2>2, <3>2, <4>1 DEF StillFound, AuthorizedSite
    <3>. QED
      BY <3>1, <3>2
  <2>4. Chosen(request, server.minDepth, site, read, split, rule)
    BY <2>1, <2>2 DEF Judged
  <2>5. /\ Owner(document).dir = DirOf(site)
        /\ Owner(document).branch = split.branch /\ Owner(document).page = split.page
    BY <2>1, <2>3, <2>4, OwnerIs DEF Chosen
  <2>6. read.dir = DirOf(site)
        /\ rule = ResolveAccessRule(AccessOf[read.config], split.branch, split.page)
    BY <2>4 DEF Chosen
  <2>. QED
    BY <2>5, <2>6 DEF ServedUnderItsRule
<1>. QED
  BY <1>1, Invariant, PTL
====
