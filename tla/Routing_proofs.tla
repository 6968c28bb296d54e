--------------------------- MODULE Routing_proofs ---------------------------
(***************************************************************************)
(* Proofs about the two things that decide where a package goes without    *)
(* keeping any state: the order of versions, which says what is newest     *)
(* and what is superseded, and the routing of a package to its feed dirs.  *)
(*                                                                         *)
(* The loops of compareVersion are recursive functions here.  That they    *)
(* have values, and what these are, is shown by induction on what is left  *)
(* of the two strings, with the least counterexample as the principle.     *)
(***************************************************************************)
EXTENDS Routing, Versions, FiniteSetTheorems, WellFoundedInduction, TLAPS

\* Every set of numbers that is not empty has a least one.
LEMMA LeastNumber ==
  ASSUME NEW T \in SUBSET Nat, T # {}
  PROVE  \E n \in T : \A m \in T : n <= m
<1> DEFINE R == OpToRel(<, Nat)
<1>1. PICK n \in T : \A m \in T : ~(<<m, n>> \in R)
  <2>1. IsWellFoundedOn(R, Nat)
    BY NatLessThanWellFounded
  <2> HIDE DEF R
  <2>. QED
    BY <2>1, WFMin
<1>2. \A m \in T : ~(m < n)
  BY <1>1 DEF OpToRel
<1> HIDE DEF R
<1>. QED
  BY <1>2

-----------------------------------------------------------------------------
(* Sequences of integers, as if they went on with zeros for ever.          *)

Positions == Nat \ {0}

\* Past both ends two sequences are the same.
LEMMA AtFacts ==
  ASSUME NEW k \in Seq(Int), NEW l \in Seq(Int), NEW i \in Positions
  PROVE  /\ At(k, i) \in Int
         /\ At(k, i) # At(l, i) => i \in 1..(Len(k) + Len(l))
<1>1. Len(k) \in Nat /\ Len(l) \in Nat
  OBVIOUS
<1>2. \A n \in 1..Len(k) : k[n] \in Int
  OBVIOUS
<1>3. CASE i \in 1..Len(k)
  BY <1>1, <1>2, <1>3 DEF At, Positions
<1>4. CASE i \notin 1..Len(k) /\ i \in 1..Len(l)
  BY <1>1, <1>4 DEF At, Positions
<1>5. CASE i \notin 1..Len(k) /\ i \notin 1..Len(l)
  BY <1>5 DEF At
<1>. QED
  BY <1>3, <1>4, <1>5

\* Precedes and Same without the bound on the positions.
LEMMA PrecedesUnbounded ==
  ASSUME NEW k \in Seq(Int), NEW l \in Seq(Int)
  PROVE  Precedes(k, l) <=> \E i \in Positions :
            /\ At(k, i) < At(l, i)
            /\ \A j \in 1..(i - 1) : At(k, j) = At(l, j)
<1>1. Len(k) \in Nat /\ Len(l) \in Nat
  OBVIOUS
<1>2. \A i \in 1..(Len(k) + Len(l)) : i \in Positions
  BY <1>1 DEF Positions
<1>3. \A i \in Positions : At(k, i) < At(l, i) => i \in 1..(Len(k) + Len(l))
  <2> SUFFICES ASSUME NEW i \in Positions, At(k, i) < At(l, i)
               PROVE  i \in 1..(Len(k) + Len(l))
    OBVIOUS
  <2>1. At(k, i) \in Int /\ At(l, i) \in Int
    BY AtFacts
  <2>2. At(k, i) # At(l, i)
    BY <2>1
  <2>. QED
    BY <2>2, AtFacts
<1>. QED
  BY <1>2, <1>3 DEF Precedes

\* Keys are the same when they agree at every position, also past their ends.
LEMMA SameUnbounded ==
  ASSUME NEW k \in Seq(Int), NEW l \in Seq(Int)
  PROVE  Same(k, l) <=> \A i \in Positions : At(k, i) = At(l, i)
<1>1. Len(k) \in Nat /\ Len(l) \in Nat
  OBVIOUS
<1>2. \A i \in 1..(Len(k) + Len(l)) : i \in Positions
  BY <1>1 DEF Positions
<1>3. \A i \in Positions : At(k, i) # At(l, i) => i \in 1..(Len(k) + Len(l))
  BY AtFacts
<1>. QED
  BY <1>2, <1>3 DEF Same

\* Of two sequences one precedes the other, or they are the same.
LEMMA Trichotomy ==
  ASSUME NEW k \in Seq(Int), NEW l \in Seq(Int)
  PROVE  Precedes(k, l) \/ Precedes(l, k) \/ Same(k, l)
<1> DEFINE T == {i \in Positions : At(k, i) # At(l, i)}
<1>1. CASE T = {}
  BY <1>1, SameUnbounded
<1>2. CASE T # {}
  <2>1. T \in SUBSET Nat
    BY DEF Positions
  <2>2. PICK n \in T : \A m \in T : n <= m
    BY <1>2, <2>1, LeastNumber
  <2>3. \A j \in 1..(n - 1) : j \in Positions /\ j \notin T
    BY <2>1, <2>2 DEF Positions
  <2>4. \A j \in 1..(n - 1) : At(k, j) = At(l, j)
    BY <2>3
  <2>5. At(k, n) < At(l, n) \/ At(l, n) < At(k, n)
    BY <2>2, AtFacts
  <2>. QED
    BY <2>2, <2>4, <2>5, PrecedesUnbounded
<1>. QED
  BY <1>1, <1>2

\* Keys that are the same do not precede each other.
LEMMA PrecedesIrreflexive ==
  ASSUME NEW k \in Seq(Int), NEW l \in Seq(Int), Same(k, l)
  PROVE  ~Precedes(k, l)
BY AtFacts, SameUnbounded, PrecedesUnbounded

\* Precedence of keys is transitive.
LEMMA PrecedesTransitive ==
  ASSUME NEW k \in Seq(Int), NEW l \in Seq(Int), NEW m \in Seq(Int),
         Precedes(k, l), Precedes(l, m)
  PROVE  Precedes(k, m)
<1>1. PICK i \in Positions : /\ At(k, i) < At(l, i)
                             /\ \A n \in 1..(i - 1) : At(k, n) = At(l, n)
  BY PrecedesUnbounded
<1>2. PICK j \in Positions : /\ At(l, j) < At(m, j)
                             /\ \A n \in 1..(j - 1) : At(l, n) = At(m, n)
  BY PrecedesUnbounded
<1> DEFINE h == IF i <= j THEN i ELSE j
<1>3. h \in Positions /\ h <= i /\ h <= j /\ (h = i \/ h = j)
  BY DEF Positions
<1>4. \A n \in Positions : At(k, n) \in Int /\ At(l, n) \in Int /\ At(m, n) \in Int
  BY AtFacts
<1>5. \A n \in 1..(h - 1) : n \in 1..(i - 1) /\ n \in 1..(j - 1)
  BY <1>3 DEF Positions
<1>6. \A n \in 1..(h - 1) : At(k, n) = At(m, n)
  BY <1>1, <1>2, <1>5
<1>7. At(k, h) < At(m, h)
  <2>1. At(k, h) <= At(l, h) /\ At(l, h) <= At(m, h)
    <3>1. CASE h = i /\ h = j
      BY <1>1, <1>2, <1>4, <3>1
    <3>2. CASE h = i /\ h < j
      <4>1. h \in 1..(j - 1)
        BY <3>2 DEF Positions
      <4>. QED
        BY <1>1, <1>2, <1>4, <3>2, <4>1
    <3>3. CASE h = j /\ h < i
      <4>1. h \in 1..(i - 1)
        BY <3>3 DEF Positions
      <4>. QED
        BY <1>1, <1>2, <1>4, <3>3, <4>1
    <3>. QED
      BY <1>3, <3>1, <3>2, <3>3 DEF Positions
  <2>2. At(k, h) # At(l, h) \/ At(l, h) # At(m, h)
    BY <1>1, <1>2, <1>3, <1>4
  <2>. QED
    BY <1>3, <1>4, <2>1, <2>2
<1>. QED
  BY <1>3, <1>6, <1>7, PrecedesUnbounded

\* Same sequences precede the same.
LEMMA PrecedesSame ==
  ASSUME NEW k \in Seq(Int), NEW l \in Seq(Int), NEW m \in Seq(Int), Same(k, l)
  PROVE  /\ Same(l, k)
         /\ Same(l, m) => Same(k, m)
         /\ Precedes(k, m) <=> Precedes(l, m)
         /\ Precedes(m, k) <=> Precedes(m, l)
<1>1. \A i \in Positions : At(k, i) = At(l, i)
  BY SameUnbounded
<1>2. \A i \in Positions : \A j \in 1..(i - 1) : j \in Positions
  BY DEF Positions
<1>. QED
  BY <1>1, <1>2, SameUnbounded, PrecedesUnbounded

-----------------------------------------------------------------------------
(* Versions, as the three sequences of Keys.                               *)

VersionKeys == [1..3 -> Seq(Int)]

\* Versions that compareVersion cannot tell apart, as "1.0", "01.0", "1.0-0".
Alike(x, y) == \A n \in 1..3 : Same(x[n], y[n])

\* Newest and oldest are well defined for whatever versions there are: of two
\* versions one is before the other or they compare as equal, never both; and
\* being before, and comparing as equal, carry over (the sort of placeSlot,
\* the comparison of supersededFile and the best of expandIPKURL rely on it).
THEOREM VersionsAreOrdered ==
  ASSUME NEW x \in VersionKeys, NEW y \in VersionKeys, NEW z \in VersionKeys
  PROVE  /\ Before(x, y) \/ Before(y, x) \/ Alike(x, y)
         /\ ~(Before(x, y) /\ Alike(x, y))
         /\ Before(x, y) /\ Before(y, z) => Before(x, z)
         /\ Alike(x, y) => (Before(x, z) <=> Before(y, z))
<1>0. \A n \in 1..3 : x[n] \in Seq(Int) /\ y[n] \in Seq(Int) /\ z[n] \in Seq(Int)
  BY DEF VersionKeys
<1>1. \A n \in 1..3 : /\ Precedes(x[n], y[n]) \/ Precedes(y[n], x[n]) \/ Same(x[n], y[n])
                      /\ Same(x[n], y[n]) => ~Precedes(x[n], y[n])
  BY <1>0, Trichotomy, PrecedesIrreflexive
<1>2. \A n \in 1..3 : /\ Precedes(x[n], y[n]) /\ Precedes(y[n], z[n]) => Precedes(x[n], z[n])
                      /\ Precedes(x[n], y[n]) /\ Same(y[n], z[n]) => Precedes(x[n], z[n])
                      /\ Same(x[n], y[n]) => (Precedes(x[n], z[n]) <=> Precedes(y[n], z[n]))
                      /\ Same(x[n], y[n]) => (Same(x[n], z[n]) <=> Same(y[n], z[n]))
                      /\ Same(x[n], y[n]) => Same(y[n], x[n])
  BY <1>0, PrecedesTransitive, PrecedesSame
<1>3. \A a, b : Before(a, b) <=>
        \/ Precedes(a[1], b[1])
        \/ Same(a[1], b[1]) /\ Precedes(a[2], b[2])
        \/ Same(a[1], b[1]) /\ Same(a[2], b[2]) /\ Precedes(a[3], b[3])
  BY DEF Before
<1>. QED
  BY <1>1, <1>2, <1>3 DEF Alike

-----------------------------------------------------------------------------
(* Induction, and functions defined by recursion.                          *)

\* What holds of 0 and of every successor holds of all.
LEMMA Induction ==
  ASSUME NEW T, 0 \in T, \A n \in Nat : n \in T => n + 1 \in T
  PROVE  \A n \in Nat : n \in T
<1> SUFFICES ASSUME Nat \ T # {} PROVE FALSE
  OBVIOUS
<1>1. PICK n \in Nat \ T : \A m \in Nat \ T : n <= m
  BY LeastNumber
<1>2. n # 0 /\ n - 1 \in Nat
  BY <1>1
<1>3. n - 1 \in T
  BY <1>1, <1>2
<1>. QED
  BY <1>1, <1>2, <1>3

\* The value that G gives to an element depends on the values at elements of a
\* smaller measure only; measures are below N.
Recursive(D, V, m, N, G) ==
  /\ V # {} /\ m \in [D -> Nat] /\ N \in Nat /\ \A x \in D : m[x] < N
  /\ G \in [D \X [D -> V] -> V]
  /\ \A x \in D : \A f, g \in [D -> V] :
       (\A y \in D : m[y] < m[x] => f[y] = g[y]) => G[<<x, f>>] = G[<<x, g>>]

\* Such a recursion has a solution.
LEMMA Recursion ==
  ASSUME NEW D, NEW V, NEW m, NEW N, NEW G, Recursive(D, V, m, N, G)
  PROVE  \E h \in [D -> V] : \A x \in D : h[x] = G[<<x, h>>]
<1> USE DEF Recursive
<1> DEFINE Solves(h, n) == \A x \in D : m[x] < n => h[x] = G[<<x, h>>]
           T == {n \in Nat : \E h \in [D -> V] : Solves(h, n)}
<1>1. 0 \in T
  <2>1. PICK v \in V : TRUE
    OBVIOUS
  <2>2. [x \in D |-> v] \in [D -> V]
    OBVIOUS
  <2>3. Solves([x \in D |-> v], 0)
    OBVIOUS
  <2>. QED
    BY <2>2, <2>3
<1>0. \A k, n \in Nat : k < n + 1 => k = n \/ k < n
  OBVIOUS
<1>2. \A n \in Nat : n \in T => n + 1 \in T
  <2> SUFFICES ASSUME NEW n \in Nat, n \in T PROVE n + 1 \in T
    OBVIOUS
  <2>0. PICK h \in [D -> V] : Solves(h, n)
    OBVIOUS
  <2> DEFINE g == [x \in D |-> IF m[x] = n THEN G[<<x, h>>] ELSE h[x]]
  <2>1. g \in [D -> V]
    <3> SUFFICES ASSUME NEW x \in D PROVE g[x] \in V
      OBVIOUS
    <3>1. <<x, h>> \in D \X [D -> V]
      OBVIOUS
    <3>. QED
      BY <3>1
  <2>2. \A x \in D : m[x] < n + 1 => g[x] = G[<<x, g>>]
    <3> SUFFICES ASSUME NEW x \in D, m[x] < n + 1 PROVE g[x] = G[<<x, g>>]
      OBVIOUS
    <3>0. m[x] \in Nat /\ \A y \in D : m[y] \in Nat
      OBVIOUS
    <3>1. \A y \in D : m[y] < m[x] => h[y] = g[y]
      BY <3>0
    <3>2. G[<<x, h>>] = G[<<x, g>>]
      BY <2>1, <3>1
    <3>3. m[x] = n \/ m[x] < n
      BY <1>0, <3>0, Zenon
    <3>4. g[x] = IF m[x] = n THEN G[<<x, h>>] ELSE h[x]
      OBVIOUS
    <3>5. m[x] < n => h[x] = G[<<x, h>>]
      BY <2>0
    <3> HIDE DEF g
    <3>. QED
      BY <3>2, <3>3, <3>4, <3>5
  <2>3. n + 1 \in Nat
    OBVIOUS
  <2>4. \E f \in [D -> V] : Solves(f, n + 1)
    <3> HIDE DEF g
    <3>. QED
      BY <2>1, <2>2, Zenon
  <2>. QED
    BY <2>3, <2>4
<1> HIDE DEF T
<1>3. N \in T
  BY <1>1, <1>2, Induction
<1>. QED
  BY <1>3 DEF T

-----------------------------------------------------------------------------
(* What the code takes a version apart with.                               *)

\* A set of positions that is not empty has a last one.
LEMMA LastPosition ==
  ASSUME NEW n \in Nat, NEW S \in SUBSET (1..n), S # {}
  PROVE  \E x \in S : \A y \in S : x >= y
<1> DEFINE T == {n - x : x \in S}
<1>1. T \in SUBSET Nat /\ T # {}
  <2>1. \A x \in S : x \in 1..n /\ n - x \in Nat
    OBVIOUS
  <2>. QED
    BY <2>1
<1>2. PICK t \in T : \A u \in T : t <= u
  <2> HIDE DEF T
  <2>. QED
    BY <1>1, LeastNumber
<1>3. PICK x \in S : t = n - x
  BY <1>2
<1>4. \A y \in S : n - x <= n - y
  BY <1>2, <1>3
<1>. QED
  BY <1>3, <1>4

\* Where a run of digits ends.
LEMMA DigitsEndFacts ==
  ASSUME NEW s \in Seq(Nat), NEW i \in 1..(Len(s) + 1)
  PROVE  /\ DigitsEnd(s, i) \in i..(Len(s) + 1)
         /\ ~isOther(s, DigitsEnd(s, i)) => DigitsEnd(s, i) = Len(s) + 1
         /\ \A k \in i..(DigitsEnd(s, i) - 1) : k \in 1..Len(s) /\ isDigit(s[k])
         /\ i <= Len(s) /\ isDigit(s[i]) => DigitsEnd(s, i) > i
<1> DEFINE T == {j \in i..(Len(s) + 1) : j <= Len(s) => ~isDigit(s[j])}
<1>1. T \in SUBSET Nat /\ Len(s) + 1 \in T
  OBVIOUS
<1>2. PICK j \in T : \A k \in T : j <= k
  <2> HIDE DEF T
  <2>. QED
    BY <1>1, LeastNumber
<1>3. \A k \in i..(j - 1) : isDigit(s[k])
  <2> SUFFICES ASSUME NEW k \in i..(j - 1) PROVE isDigit(s[k])
    OBVIOUS
  <2>1. k \notin T
    BY <1>2
  <2>. QED
    BY <1>2, <2>1
<1>4. /\ DigitsEnd(s, i) \in i..(Len(s) + 1)
      /\ DigitsEnd(s, i) <= Len(s) => ~isDigit(s[DigitsEnd(s, i)])
      /\ \A k \in i..(DigitsEnd(s, i) - 1) : isDigit(s[k])
  BY <1>2, <1>3 DEF DigitsEnd
<1> DEFINE e == DigitsEnd(s, i)
<1>5. Len(s) \in Nat /\ i \in Nat /\ i >= 1
  OBVIOUS
<1>6. ~isOther(s, e) => e = Len(s) + 1
  BY <1>4, <1>5 DEF isOther
<1> HIDE DEF e
<1>7. \A k \in i..(e - 1) : k \in 1..Len(s)
  BY <1>4, <1>5 DEF e
<1>8. i <= Len(s) /\ isDigit(s[i]) => e > i
  BY <1>4, <1>5 DEF e
<1>. QED
  BY <1>4, <1>6, <1>7, <1>8 DEF e

\* Where a run of other characters ends: the end is the only such position.
LEMMA OthersEndFacts ==
  ASSUME NEW s \in Seq(Nat), NEW i \in 1..(Len(s) + 1)
  PROVE  /\ OthersEnd(s, i) \in i..(Len(s) + 1)
         /\ ~isOther(s, OthersEnd(s, i))
         /\ \A k \in i..(OthersEnd(s, i) - 1) : k \in 1..Len(s) /\ isOther(s, k)
         /\ ~isOther(s, i) => OthersEnd(s, i) = i
         /\ isOther(s, i) => i + 1 \in 1..(Len(s) + 1) /\ OthersEnd(s, i) = OthersEnd(s, i + 1)
<1> DEFINE Ends(h, j) == ~isOther(s, j) /\ \A k \in h..(j - 1) : isOther(s, k)
<1>1. ASSUME NEW h \in 1..(Len(s) + 1)
      PROVE  OthersEnd(s, h) \in h..(Len(s) + 1) /\ Ends(h, OthersEnd(s, h))
  <2> DEFINE T == {j \in h..(Len(s) + 1) : ~isOther(s, j)}
  <2>1. T \in SUBSET Nat /\ Len(s) + 1 \in T
    BY DEF isOther
  <2>2. PICK j \in T : \A k \in T : j <= k
    <3> HIDE DEF T
    <3>. QED
      BY <2>1, LeastNumber
  <2>3. \A k \in h..(j - 1) : isOther(s, k)
    <3> SUFFICES ASSUME NEW k \in h..(j - 1) PROVE isOther(s, k)
      OBVIOUS
    <3>1. k \notin T
      BY <2>2
    <3>. QED
      BY <2>2, <3>1
  <2>. QED
    BY <2>2, <2>3 DEF OthersEnd
<1>2. ASSUME NEW h \in 1..(Len(s) + 1), NEW j \in h..(Len(s) + 1), Ends(h, j)
      PROVE  OthersEnd(s, h) = j
  <2>1. OthersEnd(s, h) \in h..(Len(s) + 1) /\ Ends(h, OthersEnd(s, h))
    BY <1>1
  <2>2. ~(OthersEnd(s, h) < j) /\ ~(j < OthersEnd(s, h))
    BY <1>2, <2>1
  <2>. QED
    BY <2>1, <2>2
<1>3. ~isOther(s, i) => OthersEnd(s, i) = i
  BY <1>2
<1>4. ASSUME isOther(s, i)
      PROVE  i + 1 \in 1..(Len(s) + 1) /\ OthersEnd(s, i) = OthersEnd(s, i + 1)
  <2>1. i + 1 \in 1..(Len(s) + 1)
    BY <1>4 DEF isOther
  <2>2. /\ OthersEnd(s, i + 1) \in (i + 1)..(Len(s) + 1)
        /\ Ends(i + 1, OthersEnd(s, i + 1))
    BY <1>1, <2>1
  <2>3. Ends(i, OthersEnd(s, i + 1))
    BY <1>4, <2>2
  <2>. QED
    BY <1>2, <2>1, <2>2, <2>3
<1>. QED
  BY <1>1, <1>3, <1>4 DEF isOther

\* There are n positions up to n.
LEMMA Counting ==
  ASSUME NEW n \in Nat
  PROVE  IsFiniteSet(1..n) /\ Cardinality(1..n) = n
BY FS_Interval

\* Digits have a value, and none the value 0.
LEMMA ValueFacts ==
  ASSUME NEW s \in Seq(Nat), \A k \in 1..Len(s) : isDigit(s[k])
  PROVE  Value(s) \in Nat /\ (s = <<>> => Value(s) = 0)
<1> DEFINE P == DOMAIN s
           D == SUBSET P
           last(t) == Max(t)
           rest(t) == t \ {last(t)}
           step(f, t) == IF t = {} THEN 0 ELSE 10 * f[rest(t)] + (s[last(t)] - 48)
           m == [t \in D |-> Cardinality(t)]
           G == [p \in D \X [D -> Nat] |-> step(p[2], p[1])]
<1>1. Value(s) = (CHOOSE f : f = [t \in D |-> step(f, t)])[P]
  BY DEF Value, FoldLeft, MapThenFoldSet
<1>2. Len(s) \in Nat /\ P = 1..Len(s) /\ P \in D
  OBVIOUS
<1>3. ASSUME NEW t \in D
      PROVE  IsFiniteSet(t) /\ Cardinality(t) \in Nat /\ Cardinality(t) <= Len(s)
  <2>1. IsFiniteSet(1..Len(s)) /\ Cardinality(1..Len(s)) = Len(s)
    BY <1>2, Counting
  <2>2. IsFiniteSet(t) /\ Cardinality(t) <= Cardinality(1..Len(s))
    BY <1>2, <2>1, FS_Subset
  <2>. QED
    BY <2>1, <2>2, FS_CardinalityType
<1>4. ASSUME NEW t \in D, t # {}
      PROVE  last(t) \in P /\ s[last(t)] - 48 \in Nat /\ rest(t) \in D
  <2>1. \E x \in t : \A y \in t : x >= y
    BY <1>2, <1>4, LastPosition
  <2>2. last(t) \in t
    BY <2>1 DEF Max
  <2>3. s[last(t)] \in 48..57
    BY <1>2, <2>2 DEF isDigit
  <2>4. rest(t) \in D /\ last(t) \in P
    <3>1. t \subseteq P
      OBVIOUS
    <3> HIDE DEF last, P
    <3>. QED
      BY <2>2, <3>1
  <2> HIDE DEF last, rest, D, P
  <2>5. s[last(t)] - 48 \in Nat
    BY <2>3
  <2>. QED
    BY <2>4, <2>5
<1>5. ASSUME NEW t \in D, t # {}
      PROVE  Cardinality(rest(t)) = Cardinality(t) - 1
  <2>1. \E x \in t : \A y \in t : x >= y
    BY <1>2, <1>5, LastPosition
  <2>2. last(t) \in t
    BY <2>1 DEF Max
  <2> HIDE DEF last
  <2>. QED
    BY <1>3, <2>2, FS_RemoveElement
<1> HIDE DEF last, rest, P, D
<1>6. \A f \in [D -> Nat] : \A t \in D : step(f, t) \in Nat
  BY <1>4
<1>7. \E h : h = [t \in D |-> step(h, t)]
  <2>1. m \in [D -> Nat] /\ Len(s) + 1 \in Nat /\ \A t \in D : m[t] < Len(s) + 1
    BY <1>2, <1>3
  <2>2. /\ G \in [D \X [D -> Nat] -> Nat]
        /\ \A t \in D : \A f \in [D -> Nat] : G[<<t, f>>] = step(f, t)
    <3> HIDE DEF step
    <3>. QED
      BY <1>6
  <2>3. ASSUME NEW t \in D, NEW f \in [D -> Nat], NEW g \in [D -> Nat],
               \A u \in D : m[u] < m[t] => f[u] = g[u]
        PROVE  G[<<t, f>>] = G[<<t, g>>]
    <3>1. CASE t = {}
      <4>1. step(f, t) = 0 /\ step(g, t) = 0
        BY <3>1
      <4> HIDE DEF step, G
      <4>. QED
        BY <2>2, <4>1
    <3>2. CASE t # {}
      <4>0. rest(t) \in D
        BY <1>4, <3>2
      <4>1. m[rest(t)] < m[t]
        <5>1. m[rest(t)] = Cardinality(rest(t)) /\ m[t] = Cardinality(t)
          BY <4>0
        <5>2. Cardinality(rest(t)) = Cardinality(t) - 1 /\ Cardinality(t) \in Nat
          BY <1>3, <1>5, <3>2
        <5> HIDE DEF m, step, G
        <5>. QED
          BY <5>1, <5>2
      <4>2. f[rest(t)] = g[rest(t)]
        BY <2>3, <4>0, <4>1
      <4>. QED
        BY <2>2, <4>2
    <3>. QED
      BY <3>1, <3>2
  <2>4. PICK h \in [D -> Nat] : \A t \in D : h[t] = G[<<t, h>>]
    <3> HIDE DEF m, G, step
    <3>1. Nat # {} /\ G \in [D \X [D -> Nat] -> Nat]
      BY <2>2
    <3>2. Recursive(D, Nat, m, Len(s) + 1, G)
      BY <2>1, <2>3, <3>1 DEF Recursive
    <3>. QED
      BY <3>2, Recursion
  <2>5. h = [t \in D |-> step(h, t)]
    <3> HIDE DEF G, step
    <3>. QED
      BY <2>2, <2>4
  <2>. QED
    BY <2>5
<1> DEFINE v == CHOOSE f : f = [t \in D |-> step(f, t)]
<1>8. v = [t \in D |-> step(v, t)]
  BY <1>7
<1> HIDE DEF v
<1>9. \A t \in D : v[t] = step(v, t)
  BY <1>8
<1>10. \A n \in Nat : \A t \in D : Cardinality(t) <= n => v[t] \in Nat
  <2> DEFINE T == {n \in Nat : \A t \in D : Cardinality(t) <= n => v[t] \in Nat}
  <2>1. 0 \in T
    <3>1. ASSUME NEW t \in D, Cardinality(t) <= 0 PROVE v[t] \in Nat
      <4>1. t = {}
        BY <1>3, <3>1, FS_EmptySet
      <4>. QED
        BY <1>9, <4>1
    <3>. QED
      BY <3>1
  <2>2. ASSUME NEW n \in Nat, n \in T PROVE n + 1 \in T
    <3>1. ASSUME NEW t \in D, Cardinality(t) <= n + 1 PROVE v[t] \in Nat
      <4>1. CASE t = {}
        BY <1>9, <4>1
      <4>2. CASE t # {}
        <5>1. rest(t) \in D /\ Cardinality(rest(t)) <= n
          BY <1>3, <1>4, <1>5, <3>1, <4>2
        <5>2. v[rest(t)] \in Nat
          BY <2>2, <5>1
        <5>3. v[t] = 10 * v[rest(t)] + (s[last(t)] - 48)
          BY <1>9, <4>2
        <5>4. s[last(t)] - 48 \in Nat
          BY <1>4, <4>2
        <5> DEFINE p == v[rest(t)]
                   q == s[last(t)] - 48
        <5> HIDE DEF step, T, p, q
        <5>5. p \in Nat /\ q \in Nat => 10 * p + q \in Nat
          OBVIOUS
        <5>. QED
          BY <5>2, <5>3, <5>4, <5>5 DEF p, q
      <4>. QED
        BY <4>1, <4>2
    <3>. QED
      BY <3>1
  <2> HIDE DEF T
  <2>3. \A n \in Nat : n \in T
    BY <2>1, <2>2, Induction
  <2>. QED
    BY <2>3 DEF T
<1>11. Value(s) = v[P]
  BY <1>1 DEF v
<1>12. Value(s) \in Nat
  BY <1>2, <1>3, <1>10, <1>11
<1>13. s = <<>> => P = {}
  BY <1>2
<1>14. s = <<>> => Value(s) = 0
  BY <1>2, <1>9, <1>11, <1>13
<1>. QED
  BY <1>12, <1>14

\* A number that does not parse counts as 0, which is an int as well.
LEMMA AtoiType ==
  ASSUME NEW s
  PROVE  Atoi(s) \in Int
<1> DEFINE digits == IF s # <<>> /\ s[1] \in {Dash, Plus} THEN Tail(s) ELSE s
           n == IF s # <<>> /\ s[1] \in {Dash, Plus} /\ s[1] = Dash
                THEN -Value(digits) ELSE Value(digits)
           fits == digits # <<>> /\ \A i \in DOMAIN digits : isDigit(digits[i])
<1>1. Atoi(s) = IF fits /\ n \in (-MaxInt - 1)..MaxInt THEN n ELSE 0
  BY Zenon DEF Atoi
<1> HIDE DEF n, fits
<1>2. n \in (-MaxInt - 1)..MaxInt => n \in Int
  BY MaxIntAssumption
<1>. QED
  BY <1>1, <1>2

\* What atoiZero returns is an int, and the value of digits that fit.
LEMMA AtoiFacts ==
  ASSUME NEW s \in Seq(Nat)
  PROVE  /\ Atoi(s) \in Int
         /\ (\A k \in 1..Len(s) : isDigit(s[k])) /\ Value(s) <= MaxInt
              => Atoi(s) = Value(s)
<1>1. Atoi(s) \in Int
  BY AtoiType
<1>2. ASSUME \A k \in 1..Len(s) : isDigit(s[k]), Value(s) <= MaxInt
      PROVE  Atoi(s) = Value(s)
  <2>1. Value(s) \in Nat /\ (s = <<>> => Value(s) = 0)
    BY <1>2, ValueFacts
  <2>2. CASE s = <<>>
    BY <2>1, <2>2 DEF Atoi
  <2>3. CASE s # <<>>
    <3>1. s[1] \notin {Dash, Plus}
      <4>1. 1 \in 1..Len(s)
        BY <2>3
      <4>2. s[1] \in 48..57
        BY <1>2, <4>1 DEF isDigit
      <4>. QED
        BY <4>2 DEF Dash, Plus
    <3>2. Value(s) \in (-MaxInt - 1)..MaxInt
      BY <1>2, <2>1, MaxIntAssumption
    <3>3. \A i \in DOMAIN s : isDigit(s[i])
      BY <1>2
    <3>. QED
      BY <2>3, <3>1, <3>2, <3>3, Zenon DEF Atoi
  <2>. QED
    BY <2>2, <2>3
<1>. QED
  BY <1>1, <1>2

-----------------------------------------------------------------------------
(* Keys, whatever the runs of digits count for.                            *)

\* The positions of a version and its end.
Places(s) == 1..(Len(s) + 1)

Run(s, i) == [k \in 1..(OthersEnd(s, i) - i) |-> order(s[i + k - 1])]

\* After the others at i and the digits that follow.
After(s, i) == DigitsEnd(s, OthersEnd(s, i))

\* f[i] is the key of s from i on, if the digits that begin at j count for num[j].
KeyAt(f, s, num, i) ==
  IF i > Len(s) THEN <<>>
  ELSE Run(s, i) \o <<0, num[OthersEnd(s, i)]>> \o f[After(s, i)]

IsKey(f, s, num) == \A i \in Places(s) : f[i] = KeyAt(f, s, num, i)

Values(s)  == [j \in Places(s) |-> Value(Digits(s, j))]
Numbers(s) == [j \in Places(s) |-> Atoi(Digits(s, j))]

\* Of characters, the order is known.
LEMMA OrderFacts ==
  ASSUME NEW c \in Nat
  PROVE  /\ order(c) \in Int /\ order(c) # 0
         /\ order(c) = CASE c = Tilde -> -1 [] isAlpha(c) -> c [] OTHER -> 256 + c
BY DEF order, End, Tilde, isAlpha

\* A key, turn by turn.
LEMMA KeyTurn ==
  ASSUME NEW f, NEW s, NEW num, NEW i
  PROVE  /\ i > Len(s) => KeyAt(f, s, num, i) = <<>>
         /\ ~(i > Len(s)) => KeyAt(f, s, num, i) =
              Run(s, i) \o <<0, num[OthersEnd(s, i)]>> \o f[After(s, i)]
BY Zenon DEF KeyAt

\* Every turn gets on.
LEMMA TurnFacts ==
  ASSUME NEW s \in Seq(Nat), NEW i \in Places(s)
  PROVE  /\ Len(s) \in Nat /\ Places(s) \in SUBSET Nat
         /\ OthersEnd(s, i) \in Places(s) /\ OthersEnd(s, i) >= i
         /\ After(s, i) \in Places(s) /\ After(s, i) >= i
         /\ ~(i > Len(s)) => After(s, i) > i
         /\ Run(s, i) \in Seq(Int) /\ Len(Run(s, i)) = OthersEnd(s, i) - i
<1> DEFINE j == OthersEnd(s, i)
<1>0. Len(s) \in Nat /\ \A k \in Places(s) : k \in Nat
  BY DEF Places
<1>1. /\ j \in i..(Len(s) + 1) /\ ~isOther(s, j)
      /\ \A k \in i..(j - 1) : k \in 1..Len(s) /\ isOther(s, k)
  BY OthersEndFacts DEF Places
<1>2. j \in Places(s)
  BY <1>0, <1>1 DEF Places
<1>3. /\ After(s, i) \in j..(Len(s) + 1)
      /\ j <= Len(s) /\ isDigit(s[j]) => After(s, i) > j
  BY <1>2, DigitsEndFacts DEF Places, After
<1>4. ~(i > Len(s)) => After(s, i) > i
  BY <1>0, <1>1, <1>3 DEF isOther
<1>5. \A k \in 1..(j - i) : order(s[i + k - 1]) \in Int
  <2> SUFFICES ASSUME NEW k \in 1..(j - i) PROVE order(s[i + k - 1]) \in Int
    OBVIOUS
  <2>1. i + k - 1 \in i..(j - 1)
    BY <1>0, <1>1
  <2>2. s[i + k - 1] \in Nat
    BY <1>1, <2>1
  <2>. QED
    BY <2>2, OrderFacts
<1>6. j - i \in Nat
  BY <1>0, <1>1
<1>7. Run(s, i) \in Seq(Int) /\ Len(Run(s, i)) = j - i
  BY <1>5, <1>6 DEF Run
<1>. QED
  BY <1>0, <1>1, <1>2, <1>3, <1>4, <1>7 DEF Places

\* A key is made of numbers.
LEMMA KeyType ==
  ASSUME NEW s \in Seq(Nat), NEW num \in [Places(s) -> Int], NEW f, IsKey(f, s, num),
         NEW i \in Places(s)
  PROVE  f[i] \in Seq(Int)
<1> DEFINE T == {d \in Nat : \A k \in Places(s) : k + d > Len(s) => f[k] \in Seq(Int)}
<1>0. Len(s) \in Nat /\ \A k \in Places(s) : k \in Nat /\ k <= Len(s) + 1
  BY DEF Places
<1>5. ASSUME NEW k \in Places(s), k > Len(s) PROVE f[k] = <<>>
  <2>1. f[k] = KeyAt(f, s, num, k)
    BY DEF IsKey
  <2>2. KeyAt(f, s, num, k) = <<>>
    BY <1>5 DEF KeyAt
  <2>. QED
    BY <2>1, <2>2
<1>1. 0 \in T
  <2>1. <<>> \in Seq(Int) /\ \A k \in Places(s) : k + 0 = k
    BY <1>0
  <2>. QED
    BY <1>5, <2>1
<1>2. ASSUME NEW d \in Nat, d \in T PROVE d + 1 \in T
  <2> SUFFICES ASSUME NEW k \in Places(s), k + (d + 1) > Len(s) PROVE f[k] \in Seq(Int)
    OBVIOUS
  <2>1. CASE k > Len(s)
    <3>1. f[k] = <<>>
      BY <1>5, <2>1
    <3>. QED
      BY <3>1
  <2>2. CASE ~(k > Len(s))
    <3>1. /\ OthersEnd(s, k) \in Places(s) /\ After(s, k) \in Places(s)
          /\ After(s, k) > k /\ Run(s, k) \in Seq(Int)
      BY <2>2, TurnFacts
    <3>2. f[After(s, k)] \in Seq(Int)
      <4>1. \A x \in Places(s) : x + d > Len(s) => f[x] \in Seq(Int)
        BY <1>2
      <4> DEFINE a == After(s, k)
      <4> HIDE DEF T, a
      <4>2. a + d > Len(s)
        <5>1. a \in Nat /\ k \in Nat /\ a > k
          BY <1>0, <3>1 DEF a
        <5>. QED
          BY <1>0, <5>1
      <4>. QED
        BY <3>1, <4>1, <4>2 DEF a
    <3>3. <<0, num[OthersEnd(s, k)]>> \in Seq(Int)
      BY <3>1
    <3>4. f[k] = Run(s, k) \o <<0, num[OthersEnd(s, k)]>> \o f[After(s, k)]
      <4>1. f[k] = KeyAt(f, s, num, k)
        BY DEF IsKey
      <4>2. KeyAt(f, s, num, k) = Run(s, k) \o <<0, num[OthersEnd(s, k)]>> \o f[After(s, k)]
        BY <2>2, KeyTurn
      <4>. QED
        BY <4>1, <4>2
    <3>. QED
      BY <3>1, <3>2, <3>3, <3>4
  <2>. QED
    BY <1>0, <2>1, <2>2
<1> HIDE DEF T
<1>3. Len(s) \in T
  BY <1>0, <1>1, <1>2, Induction
<1>4. i + Len(s) > Len(s)
  BY <1>0 DEF Places
<1>. QED
  BY <1>3, <1>4 DEF T

\* There is one.
LEMMA KeyExists ==
  ASSUME NEW s \in Seq(Nat), NEW num \in [Places(s) -> Int]
  PROVE  \E f : f = [i \in Places(s) |-> KeyAt(f, s, num, i)]
<1> DEFINE D == Places(s)
           V == Seq(Int)
           m == [i \in D |-> Len(s) + 1 - i]
           G == [p \in D \X [D -> V] |-> KeyAt(p[2], s, num, p[1])]
<1>0. Len(s) \in Nat /\ \A i \in D : i \in Nat /\ Len(s) + 1 - i \in Nat
  BY DEF Places
<1>1. \A i \in D : \A f \in [D -> V] : KeyAt(f, s, num, i) \in V
  <2> SUFFICES ASSUME NEW i \in D, NEW f \in [D -> V] PROVE KeyAt(f, s, num, i) \in V
    OBVIOUS
  <2>1. CASE i > Len(s)
    BY <2>1 DEF KeyAt
  <2>2. CASE ~(i > Len(s))
    <3>1. /\ OthersEnd(s, i) \in D /\ After(s, i) \in D /\ Run(s, i) \in Seq(Int)
      BY TurnFacts
    <3>2. <<0, num[OthersEnd(s, i)]>> \in Seq(Int) /\ f[After(s, i)] \in Seq(Int)
      BY <3>1
    <3>3. KeyAt(f, s, num, i) = Run(s, i) \o <<0, num[OthersEnd(s, i)]>> \o f[After(s, i)]
      BY <2>2, KeyTurn
    <3>. QED
      BY <3>1, <3>2, <3>3
  <2>. QED
    BY <1>0, <2>1, <2>2
<1>2. G \in [D \X [D -> V] -> V] /\ \A i \in D, f \in [D -> V] : G[<<i, f>>] = KeyAt(f, s, num, i)
  <2> HIDE DEF D, V
  <2>. QED
    BY <1>1
<1>3. ASSUME NEW i \in D, NEW f \in [D -> V], NEW g \in [D -> V],
             \A k \in D : m[k] < m[i] => f[k] = g[k]
      PROVE  G[<<i, f>>] = G[<<i, g>>]
  <2>1. CASE i > Len(s)
    BY <1>2, <2>1 DEF KeyAt
  <2>2. CASE ~(i > Len(s))
    <3>1. After(s, i) \in D /\ After(s, i) > i
      BY <2>2, TurnFacts
    <3>2. m[After(s, i)] < m[i]
      <4>1. m[After(s, i)] = Len(s) + 1 - After(s, i) /\ m[i] = Len(s) + 1 - i
        BY <3>1
      <4> HIDE DEF m, G, V
      <4>. QED
        BY <1>0, <3>1, <4>1
    <3>3. f[After(s, i)] = g[After(s, i)]
      BY <1>3, <3>1, <3>2
    <3>. QED
      BY <1>2, <3>3 DEF KeyAt
  <2>. QED
    BY <1>0, <2>1, <2>2
<1>4. Recursive(D, V, m, Len(s) + 2, G)
  <2>1. m \in [D -> Nat] /\ \A i \in D : m[i] < Len(s) + 2
    BY <1>0
  <2>2. V # {} /\ Len(s) + 2 \in Nat
    <3>1. <<>> \in Seq(Int)
      OBVIOUS
    <3>2. V # {}
      BY <3>1, Zenon
    <3>. QED
      BY <1>0, <3>2
  <2> HIDE DEF D, V, m, G
  <2>. QED
    BY <1>2, <1>3, <2>1, <2>2 DEF Recursive
<1>5. PICK h \in [D -> V] : \A i \in D : h[i] = G[<<i, h>>]
  <2> HIDE DEF D, V, m, G
  <2>. QED
    BY <1>4, Recursion
<1> HIDE DEF D, V, G
<1>6. h = [i \in D |-> KeyAt(h, s, num, i)]
  BY <1>2, <1>5
<1>. QED
  BY <1>6 DEF D

\* The key of a version, as it is documented, is the one for the values.
LEMMA KeyIsKey ==
  ASSUME NEW s \in Seq(Nat), Values(s) \in [Places(s) -> Int]
  PROVE  \E f : IsKey(f, s, Values(s)) /\ Key(s) = f[1]
<1> DEFINE P == Places(s)
           as(s1, i) == [k \in 1..(OthersEnd(s1, i) - i) |->
                           LET c == s1[i + k - 1]
                           IN  CASE c = Tilde -> -1 [] isAlpha(c) -> c [] OTHER -> 256 + c]
           step(f, i) == IF i > Len(s) THEN <<>>
                         ELSE as(s, i) \o <<0, Value(Digits(s, OthersEnd(s, i)))>>
                                       \o f[DigitsEnd(s, OthersEnd(s, i))]
           v == CHOOSE f : f = [i \in P |-> step(f, i)]
<1>1. Key(s) = v[1]
  BY DEF Key, Places
<1>2. \A i \in P : as(s, i) = Run(s, i)
  <2> SUFFICES ASSUME NEW i \in P PROVE as(s, i) = Run(s, i)
    OBVIOUS
  <2>1. \A k \in 1..(OthersEnd(s, i) - i) : s[i + k - 1] \in Nat
    <3> SUFFICES ASSUME NEW k \in 1..(OthersEnd(s, i) - i) PROVE s[i + k - 1] \in Nat
      OBVIOUS
    <3>1. OthersEnd(s, i) \in i..(Len(s) + 1) /\ i \in Nat /\ i >= 1 /\ Len(s) \in Nat
      BY OthersEndFacts DEF Places
    <3>2. i + k - 1 \in 1..Len(s)
      BY <3>1
    <3>. QED
      BY <3>2
  <2>2. \A k \in 1..(OthersEnd(s, i) - i) : order(s[i + k - 1]) =
          CASE s[i + k - 1] = Tilde -> -1 [] isAlpha(s[i + k - 1]) -> s[i + k - 1]
            [] OTHER -> 256 + s[i + k - 1]
    BY <2>1, OrderFacts
  <2>. QED
    BY <2>2 DEF Run
<1>3. \A f : \A i \in P : step(f, i) = KeyAt(f, s, Values(s), i)
  <2> SUFFICES ASSUME NEW f, NEW i \in P PROVE step(f, i) = KeyAt(f, s, Values(s), i)
    OBVIOUS
  <2>1. Values(s)[OthersEnd(s, i)] = Value(Digits(s, OthersEnd(s, i)))
    BY TurnFacts DEF Values
  <2>2. as(s, i) = Run(s, i)
    BY <1>2
  <2> HIDE DEF as
  <2>. QED
    BY <2>1, <2>2 DEF KeyAt, After
<1>4. PICK h : h = [i \in P |-> KeyAt(h, s, Values(s), i)]
  BY KeyExists
<1> HIDE DEF step, P
<1>5. h = [i \in P |-> step(h, i)]
  <2>1. [i \in P |-> KeyAt(h, s, Values(s), i)] = [i \in P |-> step(h, i)]
    BY <1>3
  <2>. QED
    BY <1>4, <2>1
<1>6. v = [i \in P |-> step(v, i)]
  BY <1>5
<1> HIDE DEF v
<1>7. \A i \in P : v[i] = KeyAt(v, s, Values(s), i)
  BY <1>3, <1>6
<1>. QED
  BY <1>1, <1>7 DEF IsKey, P

\* Two sequences, one after the other.
LEMMA ConcatFacts ==
  ASSUME NEW a \in Seq(Int), NEW c \in Seq(Int)
  PROVE  /\ a \o c \in Seq(Int) /\ Len(a \o c) = Len(a) + Len(c)
         /\ \A i \in 1..(Len(a) + Len(c)) :
              (a \o c)[i] = IF i <= Len(a) THEN a[i] ELSE c[i - Len(a)]
OBVIOUS

\* So at every position, also past the end.
LEMMA AtConcat ==
  ASSUME NEW a \in Seq(Int), NEW c \in Seq(Int), NEW k \in Positions
  PROVE  At(a \o c, k) = IF k <= Len(a) THEN a[k] ELSE At(c, k - Len(a))
<1> DEFINE s == a \o c
           m == Len(a)
           n == Len(c)
<1>1. Len(s) = m + n /\ m \in Nat /\ n \in Nat /\ k \in Nat /\ k >= 1
  BY DEF Positions
<1>2. \A i \in 1..(m + n) : s[i] = IF i <= m THEN a[i] ELSE c[i - m]
  BY ConcatFacts
<1>3. /\ At(s, k) = IF k \in 1..Len(s) THEN s[k] ELSE 0
      /\ At(c, k - m) = IF k - m \in 1..n THEN c[k - m] ELSE 0
  BY DEF At
<1>4. At(s, k) = IF k <= m THEN a[k] ELSE At(c, k - m)
  <2> HIDE DEF s, m, n
  <2>1. CASE k <= m
    BY <1>1, <1>2, <1>3, <2>1
  <2>2. CASE ~(k <= m)
    <3>1. k \in 1..(m + n) <=> k - m \in 1..n
      BY <1>1, <2>2
    <3>. QED
      BY <1>1, <1>2, <1>3, <2>2, <3>1
  <2>. QED
    BY <2>1, <2>2
<1>. QED
  BY <1>4

\* w is made like the key of a turn: m numbers, 0, a number, and the rest.
IsTurn(w, a, m, x, c) ==
  /\ a \in Seq(Int) /\ x \in Int /\ c \in Seq(Int)
  /\ w = a \o <<0, x>> \o c /\ m = Len(a)

\* The three parts of such a key, position by position.
LEMMA AtTurn ==
  ASSUME NEW w, NEW a, NEW m, NEW x, NEW c, IsTurn(w, a, m, x, c), NEW k \in Positions
  PROVE  /\ k <= m => At(w, k) = a[k]
         /\ k = m + 1 => At(w, k) = 0
         /\ k = m + 2 => At(w, k) = x
         /\ k > m + 2 => At(w, k) = At(c, k - m - 2)
<1> DEFINE z == <<0, x>>
           b == a \o z
<1>0. /\ a \in Seq(Int) /\ x \in Int /\ c \in Seq(Int)
      /\ w = b \o c /\ m = Len(a)
  BY DEF IsTurn
<1>1. z \in Seq(Int) /\ Len(z) = 2 /\ z[1] = 0 /\ z[2] = x
  BY <1>0
<1>2. b \in Seq(Int) /\ Len(b) = m + 2
  <2> HIDE DEF z
  <2>1. (a \o z) \in Seq(Int) /\ Len(a \o z) = Len(a) + Len(z)
    BY <1>0, <1>1, ConcatFacts, Zenon
  <2>. QED
    BY <1>0, <1>1, <2>1, Zenon
<1>3. \A i \in 1..(m + 2) : b[i] = IF i <= m THEN a[i] ELSE z[i - m]
  <2> HIDE DEF z
  <2>1. \A i \in 1..(Len(a) + Len(z)) : (a \o z)[i] = IF i <= Len(a) THEN a[i] ELSE z[i - Len(a)]
    BY <1>0, <1>1, ConcatFacts, Zenon
  <2>. QED
    BY <1>0, <1>1, <2>1, Zenon
<1>4. At(w, k) = IF k <= m + 2 THEN b[k] ELSE At(c, k - (m + 2))
  <2> HIDE DEF b
  <2>1. At(b \o c, k) = IF k <= Len(b) THEN b[k] ELSE At(c, k - Len(b))
    BY <1>0, <1>2, AtConcat
  <2>. QED
    BY <1>0, <1>2, <2>1, Zenon
<1>5. m \in Nat /\ k \in Nat /\ k >= 1
  BY <1>0 DEF Positions
<1>6. /\ k <= m => At(w, k) = a[k]
      /\ k = m + 1 => At(w, k) = z[1]
      /\ k = m + 2 => At(w, k) = z[2]
      /\ k > m + 2 => At(w, k) = At(c, k - m - 2)
  <2> HIDE DEF b, z
  <2>0. k <= m + 2 => k \in 1..(m + 2)
    BY <1>5
  <2>1. k <= m + 2 => At(w, k) = IF k <= m THEN a[k] ELSE z[k - m]
    BY <1>3, <1>4, <2>0, Zenon
  <2>2. /\ k <= m => k <= m + 2
        /\ k = m + 1 => k <= m + 2 /\ ~(k <= m) /\ k - m = 1
        /\ k = m + 2 => k <= m + 2 /\ ~(k <= m) /\ k - m = 2
        /\ k > m + 2 => ~(k <= m + 2) /\ k - (m + 2) = k - m - 2
    BY <1>5
  <2>3. k > m + 2 => At(w, k) = At(c, k - m - 2)
    BY <1>4, <2>2
  <2>. QED
    BY <2>1, <2>2, <2>3
<1>. QED
  BY <1>1, <1>6

\* f has the keys of s from every place on, num what its runs of digits count for.
Keyed(f, s, num) ==
  /\ s \in Seq(Nat) /\ num \in [Places(s) -> Int] /\ num[Len(s) + 1] = 0
  /\ IsKey(f, s, num)

\* Before a digit, or at the end, a key has 0 and what the digits count for.
LEMMA KeyAtDigits ==
  ASSUME NEW f, NEW s, NEW num, Keyed(f, s, num), NEW i \in Places(s), ~isOther(s, i)
  PROVE  /\ DigitsEnd(s, i) \in Places(s)
         /\ ~(i > Len(s)) => DigitsEnd(s, i) > i
         /\ At(f[i], 1) = 0 /\ At(f[i], 2) = num[i]
         /\ \A k \in Positions : At(f[i], k + 2) = At(f[DigitsEnd(s, i)], k)
<1> DEFINE n == DigitsEnd(s, i)
<1>0. /\ s \in Seq(Nat) /\ num \in [Places(s) -> Int] /\ num[Len(s) + 1] = 0
      /\ IsKey(f, s, num)
  BY DEF Keyed
<1>1. OthersEnd(s, i) = i /\ Len(s) \in Nat /\ i \in Nat /\ i <= Len(s) + 1
  BY <1>0, OthersEndFacts DEF Places
<1>2. After(s, i) = n
  BY <1>1 DEF After
<1>3. n \in Places(s) /\ n >= i /\ (~(i > Len(s)) => n > i)
  BY <1>0, <1>2, TurnFacts
<1>4. CASE i > Len(s)
  <2>1. i = Len(s) + 1 /\ n = i
    BY <1>0, <1>1, <1>3, <1>4 DEF Places
  <2>2. f[i] = <<>>
    <3>1. f[i] = KeyAt(f, s, num, i)
      BY <1>0 DEF IsKey
    <3>. QED
      BY <1>4, <3>1, KeyTurn
  <2>3. \A k : At(<<>>, k) = 0
    <3>1. Len(<<>>) = 0
      OBVIOUS
    <3>. QED
      BY <1>0, <3>1 DEF At
  <2>. QED
    BY <1>0, <1>3, <1>4, <2>1, <2>2, <2>3
<1>5. CASE ~(i > Len(s))
  <2>1. f[i] = Run(s, i) \o <<0, num[i]>> \o f[n]
    <3>1. f[i] = KeyAt(f, s, num, i)
      BY <1>0 DEF IsKey
    <3>2. KeyAt(f, s, num, i) = Run(s, i) \o <<0, num[OthersEnd(s, i)]>> \o f[After(s, i)]
      BY <1>5, KeyTurn
    <3>. QED
      BY <1>1, <1>2, <3>1, <3>2
  <2>2. Run(s, i) \in Seq(Int) /\ Len(Run(s, i)) = 0
    BY <1>0, <1>1, TurnFacts
  <2>3. f[n] \in Seq(Int) /\ num[i] \in Int
    BY <1>0, <1>3, KeyType
  <2>4. \A k \in Positions : /\ k = 0 + 1 => At(f[i], k) = 0
                             /\ k = 0 + 2 => At(f[i], k) = num[i]
                             /\ k > 0 + 2 => At(f[i], k) = At(f[n], k - 0 - 2)
    <3> SUFFICES ASSUME NEW k \in Positions
                 PROVE  /\ k = 0 + 1 => At(f[i], k) = 0
                        /\ k = 0 + 2 => At(f[i], k) = num[i]
                        /\ k > 0 + 2 => At(f[i], k) = At(f[n], k - 0 - 2)
      OBVIOUS
    <3>1. IsTurn(f[i], Run(s, i), 0, num[i], f[n])
      BY <2>1, <2>2, <2>3 DEF IsTurn
    <3>. QED
      BY <3>1, AtTurn
  <2>5. At(f[i], 1) = 0 /\ At(f[i], 2) = num[i]
    BY <2>4 DEF Positions
  <2>6. \A k \in Positions : k + 2 \in Positions /\ k + 2 > 0 + 2 /\ (k + 2) - 0 - 2 = k
    BY DEF Positions
  <2>7. \A k \in Positions : At(f[i], k + 2) = At(f[n], k)
    BY <2>4, <2>6
  <2>. QED
    BY <1>3, <2>5, <2>7
<1>. QED
  BY <1>4, <1>5

\* Before another character, a key has its order, and goes on with the next.
LEMMA KeyAtOther ==
  ASSUME NEW f, NEW s, NEW num, Keyed(f, s, num), NEW i \in Places(s), isOther(s, i)
  PROVE  /\ i + 1 \in Places(s)
         /\ At(f[i], 1) = order(s[i])
         /\ \A k \in Positions : At(f[i], k + 1) = At(f[i + 1], k)
<1> DEFINE j == OthersEnd(s, i)
           n == After(s, i)
           m == j - i
           x == num[j]
<1>0. /\ s \in Seq(Nat) /\ num \in [Places(s) -> Int] /\ num[Len(s) + 1] = 0
      /\ IsKey(f, s, num)
  BY DEF Keyed
<1>1. Len(s) \in Nat /\ i \in Nat /\ ~(i > Len(s)) /\ i >= 1
  BY <1>0 DEF isOther, Places
<1>2. i + 1 \in Places(s) /\ OthersEnd(s, i + 1) = j
  BY <1>0, OthersEndFacts DEF Places
<1>3. j \in Places(s) /\ j >= i + 1 /\ n \in Places(s) /\ n >= i + 1
  BY <1>0, <1>2, TurnFacts DEF After
<1>4. Run(s, i) \in Seq(Int) /\ Len(Run(s, i)) = m /\ m \in Nat /\ m >= 1
  <2>1. j \in Nat /\ j - i >= 1 /\ j - i \in Nat
    BY <1>0, <1>1, <1>3 DEF Places
  <2>. QED
    BY <1>0, <2>1, TurnFacts
<1>5. f[n] \in Seq(Int) /\ x \in Int /\ f[i + 1] \in Seq(Int)
  BY <1>0, <1>2, <1>3, KeyType
<1>6. f[i] = Run(s, i) \o <<0, x>> \o f[n]
  <2>1. f[i] = KeyAt(f, s, num, i)
    BY <1>0 DEF IsKey
  <2>. QED
    BY <1>1, <2>1, KeyTurn
<1>7. \A k \in Positions : /\ k <= m => At(f[i], k) = Run(s, i)[k]
                           /\ k = m + 1 => At(f[i], k) = 0
                           /\ k = m + 2 => At(f[i], k) = x
                           /\ k > m + 2 => At(f[i], k) = At(f[n], k - m - 2)
  <2> SUFFICES ASSUME NEW k \in Positions
               PROVE  /\ k <= m => At(f[i], k) = Run(s, i)[k]
                      /\ k = m + 1 => At(f[i], k) = 0
                      /\ k = m + 2 => At(f[i], k) = x
                      /\ k > m + 2 => At(f[i], k) = At(f[n], k - m - 2)
    OBVIOUS
  <2>1. IsTurn(f[i], Run(s, i), m, x, f[n])
    BY <1>4, <1>5, <1>6 DEF IsTurn
  <2> HIDE DEF m, x, n
  <2>. QED
    BY <2>1, AtTurn
<1>8. \A k \in 1..m : Run(s, i)[k] = order(s[i + k - 1])
  BY DEF Run
<1>9. At(f[i], 1) = order(s[i])
  <2>1. 1 \in Positions /\ 1 <= m /\ 1 \in 1..m /\ i + 1 - 1 = i
    BY <1>1, <1>4 DEF Positions
  <2>. QED
    BY <1>7, <1>8, <2>1
<1>10. ASSUME NEW k \in Positions PROVE At(f[i], k + 1) = At(f[i + 1], k)
  <2>0. k \in Nat /\ k >= 1 /\ k + 1 \in Positions
    BY DEF Positions
  <2>1. CASE i + 1 > Len(s)
    <3>1. i + 1 = Len(s) + 1 /\ j = Len(s) + 1 /\ n = Len(s) + 1 /\ m = 1
      BY <1>0, <1>1, <1>2, <1>3, <2>1 DEF Places
    <3>2. f[i + 1] = <<>>
      <4>1. f[i + 1] = KeyAt(f, s, num, i + 1)
        BY <1>0, <1>2 DEF IsKey
      <4>. QED
        BY <2>1, <4>1, KeyTurn
    <3>3. \A p : At(<<>>, p) = 0
      <4>1. Len(<<>>) = 0
        OBVIOUS
      <4>. QED
        BY <4>1 DEF At
    <3>4. f[n] = <<>> /\ x = 0
      BY <1>0, <3>1, <3>2
    <3>5. k + 1 = m + 1 \/ k + 1 = m + 2 \/ k + 1 > m + 2
      BY <2>0, <3>1
    <3> HIDE DEF n, m, x, j
    <3>. QED
      BY <1>7, <2>0, <3>2, <3>3, <3>4, <3>5
  <2>2. CASE ~(i + 1 > Len(s))
    <3>1. After(s, i + 1) = n
      BY <1>0, <1>2 DEF After
    <3>2. f[i + 1] = Run(s, i + 1) \o <<0, x>> \o f[n]
      <4>1. f[i + 1] = KeyAt(f, s, num, i + 1)
        BY <1>0, <1>2 DEF IsKey
      <4>2. KeyAt(f, s, num, i + 1) = Run(s, i + 1) \o <<0, num[OthersEnd(s, i + 1)]>>
                                        \o f[After(s, i + 1)]
        BY <2>2, KeyTurn
      <4>. QED
        BY <1>2, <3>1, <4>1, <4>2
    <3>3. Run(s, i + 1) \in Seq(Int) /\ Len(Run(s, i + 1)) = m - 1
      <4>1. Len(Run(s, i + 1)) = OthersEnd(s, i + 1) - (i + 1) /\ Run(s, i + 1) \in Seq(Int)
        BY <1>0, <1>2, TurnFacts
      <4>2. j - (i + 1) = m - 1
        BY <1>0, <1>1, <1>3 DEF Places
      <4>. QED
        BY <1>2, <4>1, <4>2
    <3>4. /\ k <= m - 1 => At(f[i + 1], k) = Run(s, i + 1)[k]
          /\ k = m - 1 + 1 => At(f[i + 1], k) = 0
          /\ k = m - 1 + 2 => At(f[i + 1], k) = x
          /\ k > m - 1 + 2 => At(f[i + 1], k) = At(f[n], k - (m - 1) - 2)
      <4>1. IsTurn(f[i + 1], Run(s, i + 1), m - 1, x, f[n])
        BY <1>5, <3>2, <3>3 DEF IsTurn
      <4> HIDE DEF m, x, n
      <4>. QED
        BY <4>1, AtTurn
    <3>5. CASE k <= m - 1
      <4>1. k + 1 \in 1..m /\ k \in 1..(m - 1) /\ i + (k + 1) - 1 = i + 1 + k - 1
        BY <1>1, <1>4, <2>0, <3>5
      <4>2. Run(s, i + 1)[k] = order(s[i + 1 + k - 1])
        <5>1. k \in 1..(OthersEnd(s, i + 1) - (i + 1))
          BY <1>1, <1>2, <1>3, <4>1 DEF Places
        <5>. QED
          BY <5>1 DEF Run
      <4>3. k + 1 <= m
        BY <1>4, <2>0, <3>5
      <4>. QED
        BY <1>7, <1>8, <2>0, <3>4, <3>5, <4>1, <4>2, <4>3
    <3>6. CASE ~(k <= m - 1)
      <4>1. \/ k + 1 = m + 1 /\ k = m - 1 + 1
            \/ k + 1 = m + 2 /\ k = m - 1 + 2
            \/ k + 1 > m + 2 /\ k > m - 1 + 2 /\ (k + 1) - m - 2 = k - (m - 1) - 2
        <5> HIDE DEF m
        <5>. QED
          BY <1>4, <2>0, <3>6
      <4> HIDE DEF m, x, n
      <4>. QED
        BY <1>7, <2>0, <3>4, <4>1
    <3>. QED
      BY <3>5, <3>6
  <2>. QED
    BY <2>1, <2>2
<1>. QED
  BY <1>2, <1>9, <1>10

-----------------------------------------------------------------------------
(* Comparing two parts turn by turn compares their keys.                   *)

\* The comparison of two keys, as compareVersion gives it.
Compared(k, l) == IF Precedes(k, l) THEN -1 ELSE IF Precedes(l, k) THEN 1 ELSE 0

\* The first number of a key is the weight that cmpPart gives the place.
LEMMA WeightFacts ==
  ASSUME NEW f, NEW s, NEW num, Keyed(f, s, num), NEW i \in Places(s)
  PROVE  /\ f[i] \in Seq(Int)
         /\ weightAt(s, i) \in Int /\ weightAt(s, i) = At(f[i], 1)
         /\ isOther(s, i) <=> weightAt(s, i) # 0
<1>1. s \in Seq(Nat) /\ num \in [Places(s) -> Int] /\ num[Len(s) + 1] = 0 /\ IsKey(f, s, num)
  BY DEF Keyed
<1>2. f[i] \in Seq(Int)
  BY <1>1, KeyType
<1>3. CASE isOther(s, i)
  <2>1. weightAt(s, i) = order(s[i])
    BY <1>3 DEF weightAt
  <2>2. s[i] \in Nat
    BY <1>1, <1>3 DEF isOther, Places
  <2>3. At(f[i], 1) = order(s[i])
    BY <1>3, KeyAtOther
  <2>. QED
    BY <1>2, <1>3, <2>1, <2>2, <2>3, OrderFacts
<1>4. CASE ~isOther(s, i)
  <2>1. weightAt(s, i) = 0
    BY <1>4 DEF weightAt, order, End, Tilde, isAlpha
  <2>2. At(f[i], 1) = 0
    BY <1>4, KeyAtDigits
  <2>. QED
    BY <1>2, <1>4, <2>1, <2>2
<1>. QED
  BY <1>3, <1>4

\* The first numbers that differ decide.
LEMMA FirstDecides ==
  ASSUME NEW k \in Seq(Int), NEW l \in Seq(Int), NEW d \in Positions,
         \A p \in 1..(d - 1) : At(k, p) = At(l, p), At(k, d) # At(l, d)
  PROVE  /\ Compared(k, l) = Sign(At(k, d), At(l, d))
         /\ Sign(At(k, d), At(l, d)) # 0
<1>1. At(k, d) \in Int /\ At(l, d) \in Int
  BY AtFacts
<1>2. CASE At(k, d) < At(l, d)
  <2>1. Precedes(k, l)
    BY <1>2, PrecedesUnbounded
  <2>. QED
    BY <1>2, <2>1 DEF Compared, Sign
<1>3. CASE At(l, d) < At(k, d)
  <2>1. Precedes(l, k)
    BY <1>3, PrecedesUnbounded
  <2>2. ~Precedes(k, l)
    <3> SUFFICES ASSUME NEW i \in Positions, At(k, i) < At(l, i),
                        \A j \in 1..(i - 1) : At(k, j) = At(l, j)
                 PROVE  FALSE
      BY PrecedesUnbounded
    <3>1. At(k, i) \in Int /\ At(l, i) \in Int
      BY AtFacts
    <3>2. i < d \/ i = d \/ d < i
      BY DEF Positions
    <3>3. ~(i < d)
      <4> SUFFICES ASSUME i < d PROVE FALSE
        OBVIOUS
      <4>1. i \in 1..(d - 1)
        BY DEF Positions
      <4>. QED
        BY <3>1, <4>1
    <3>4. ~(d < i)
      <4> SUFFICES ASSUME d < i PROVE FALSE
        OBVIOUS
      <4>1. d \in 1..(i - 1)
        BY DEF Positions
      <4>. QED
        BY <4>1
    <3>. QED
      BY <1>1, <1>3, <3>2, <3>3, <3>4
  <2>. QED
    BY <1>1, <1>3, <2>1, <2>2 DEF Compared, Sign
<1>. QED
  BY <1>1, <1>2, <1>3

\* k and l agree on d numbers and go on as k2 and l2.
Shifted(k, l, d, k2, l2) ==
  /\ k \in Seq(Int) /\ l \in Seq(Int) /\ k2 \in Seq(Int) /\ l2 \in Seq(Int) /\ d \in Nat
  /\ \A p \in 1..d : At(k, p) = At(l, p)
  /\ \A p \in Positions : At(k, p + d) = At(k2, p) /\ At(l, p + d) = At(l2, p)

\* Numbers that agree leave the decision to the rest.
LEMMA RestPrecedes ==
  ASSUME NEW k, NEW l, NEW d, NEW k2, NEW l2, Shifted(k, l, d, k2, l2)
  PROVE  Precedes(k, l) <=> Precedes(k2, l2)
<1>3. k \in Seq(Int) /\ l \in Seq(Int) /\ k2 \in Seq(Int) /\ l2 \in Seq(Int)
  BY DEF Shifted
<1>4. /\ Precedes(k, l) <=> \E i \in Positions :
            At(k, i) < At(l, i) /\ \A j \in 1..(i - 1) : At(k, j) = At(l, j)
      /\ Precedes(k2, l2) <=> \E i \in Positions :
            At(k2, i) < At(l2, i) /\ \A j \in 1..(i - 1) : At(k2, j) = At(l2, j)
  BY <1>3, PrecedesUnbounded
<1> USE DEF Shifted
<1>0. \A p \in Positions : p \in Nat /\ p >= 1 /\ p + d \in Positions
  BY DEF Positions
<1>1. ASSUME NEW i \in Positions, At(k, i) < At(l, i), \A j \in 1..(i - 1) : At(k, j) = At(l, j)
      PROVE  Precedes(k2, l2)
  <2>0. At(k, i) # At(l, i)
    <3>1. At(k, i) \in Int /\ At(l, i) \in Int
      BY AtFacts
    <3>. QED
      BY <1>1, <3>1
  <2>1. ~(i <= d)
    <3>1. i <= d => i \in 1..d
      BY <1>0
    <3>. QED
      BY <2>0, <3>1
  <2>2. i - d \in Positions /\ (i - d) + d = i
    BY <1>0, <2>1 DEF Positions
  <2>3. At(k2, i - d) < At(l2, i - d)
    BY <1>1, <2>2
  <2>4. \A j \in 1..(i - d - 1) : At(k2, j) = At(l2, j)
    <3> SUFFICES ASSUME NEW j \in 1..(i - d - 1) PROVE At(k2, j) = At(l2, j)
      OBVIOUS
    <3>1. j \in Positions /\ j + d \in 1..(i - 1)
      BY <1>0, <2>1 DEF Positions
    <3>. QED
      BY <1>1, <3>1
  <2>. QED
    BY <2>2, <2>3, <2>4, <1>4
<1>2. ASSUME NEW i \in Positions, At(k2, i) < At(l2, i), \A j \in 1..(i - 1) : At(k2, j) = At(l2, j)
      PROVE  Precedes(k, l)
  <2> DEFINE e == i + d
  <2>1. e \in Positions /\ At(k, e) < At(l, e)
    BY <1>0, <1>2
  <2>2. \A j \in 1..(e - 1) : At(k, j) = At(l, j)
    <3> SUFFICES ASSUME NEW j \in 1..(e - 1) PROVE At(k, j) = At(l, j)
      OBVIOUS
    <3>1. j <= d => j \in 1..d
      BY <1>0
    <3>2. ~(j <= d) => j - d \in 1..(i - 1) /\ j - d \in Positions /\ (j - d) + d = j
      BY <1>0 DEF Positions
    <3>. QED
      BY <1>2, <3>1, <3>2
  <2> HIDE DEF Shifted, e
  <2>. QED
    BY <1>4, <2>1, <2>2
<1> HIDE DEF Shifted
<1>. QED
  BY <1>1, <1>2, <1>4

\* So the comparison goes on with the rest.
LEMMA RestDecides ==
  ASSUME NEW k, NEW l, NEW d, NEW k2, NEW l2, Shifted(k, l, d, k2, l2)
  PROVE  Compared(k, l) = Compared(k2, l2)
<1>1. Shifted(l, k, d, l2, k2)
  BY DEF Shifted
<1>. QED
  BY <1>1, RestPrecedes DEF Compared

\* cmpPart's turn at i and j, if the turns after it give what c says.
Turn(c, left, right, i, j) ==
  IF i > Len(left) /\ j > Len(right) THEN 0
  ELSE IF isOther(left, i) \/ isOther(right, j)
  THEN LET w == Sign(weightAt(left, i), weightAt(right, j))
       IN  IF w # 0 THEN w
           ELSE c[<<IF isOther(left, i) THEN i + 1 ELSE i,
                    IF isOther(right, j) THEN j + 1 ELSE j>>]
  ELSE LET w == Sign(Numbers(left)[i], Numbers(right)[j])
       IN  IF w # 0 THEN w ELSE c[<<DigitsEnd(left, i), DigitsEnd(right, j)>>]

\* What is left of two parts.
Left(s, t, i, j) == (Len(s) + 1 - i) + (Len(t) + 1 - j)

\* A turn that compares what follows it by its keys compares its own.
LEMMA TurnCompares ==
  ASSUME NEW s, NEW t, NEW f, NEW g,
         Keyed(f, s, Numbers(s)), Keyed(g, t, Numbers(t)),
         NEW i \in Places(s), NEW j \in Places(t), NEW c,
         \A m \in Places(s), n \in Places(t) :
            Left(s, t, m, n) < Left(s, t, i, j) => c[<<m, n>>] = Compared(f[m], g[n])
  PROVE  Turn(c, s, t, i, j) = Compared(f[i], g[j])
<1>0. /\ s \in Seq(Nat) /\ t \in Seq(Nat) /\ Len(s) \in Nat /\ Len(t) \in Nat
      /\ i \in Nat /\ j \in Nat /\ i <= Len(s) + 1 /\ j <= Len(t) + 1
  BY DEF Keyed, Places
<1>1. /\ IsKey(f, s, Numbers(s)) /\ Numbers(s) \in [Places(s) -> Int] /\ Numbers(s)[Len(s) + 1] = 0
      /\ IsKey(g, t, Numbers(t)) /\ Numbers(t) \in [Places(t) -> Int] /\ Numbers(t)[Len(t) + 1] = 0
  BY DEF Keyed
<1>2. /\ f[i] \in Seq(Int) /\ weightAt(s, i) \in Int /\ weightAt(s, i) = At(f[i], 1)
      /\ isOther(s, i) <=> weightAt(s, i) # 0
  BY WeightFacts
<1>3. /\ g[j] \in Seq(Int) /\ weightAt(t, j) \in Int /\ weightAt(t, j) = At(g[j], 1)
      /\ isOther(t, j) <=> weightAt(t, j) # 0
  BY WeightFacts
<1>4. \A p \in 1..0 : At(f[i], p) = At(g[j], p)
  OBVIOUS
<1>5. CASE i > Len(s) /\ j > Len(t)
  <2>1. f[i] = <<>> /\ g[j] = <<>>
    <3>1. f[i] = KeyAt(f, s, Numbers(s), i) /\ g[j] = KeyAt(g, t, Numbers(t), j)
      BY <1>1 DEF IsKey
    <3>2. KeyAt(f, s, Numbers(s), i) = <<>>
      BY <1>5, KeyTurn
    <3>3. KeyAt(g, t, Numbers(t), j) = <<>>
      BY <1>5, KeyTurn
    <3>. QED
      BY <3>1, <3>2, <3>3
  <2>2. ~Precedes(<<>>, <<>>)
    BY DEF Precedes, At
  <2>3. Compared(f[i], g[j]) = 0
    BY <2>1, <2>2 DEF Compared
  <2>. QED
    BY <1>5, <2>3 DEF Turn
<1>6. CASE ~(i > Len(s) /\ j > Len(t)) /\ (isOther(s, i) \/ isOther(t, j))
  <2> DEFINE w == Sign(weightAt(s, i), weightAt(t, j))
  <2>1. Turn(c, s, t, i, j) = IF w # 0 THEN w
                              ELSE c[<<IF isOther(s, i) THEN i + 1 ELSE i,
                                       IF isOther(t, j) THEN j + 1 ELSE j>>]
    BY <1>6 DEF Turn
  <2>2. CASE weightAt(s, i) # weightAt(t, j)
    <3>1. /\ Compared(f[i], g[j]) = Sign(At(f[i], 1), At(g[j], 1))
          /\ Sign(At(f[i], 1), At(g[j], 1)) # 0
      <4>1. 1 \in Positions /\ 1 - 1 = 0 /\ At(f[i], 1) # At(g[j], 1)
        BY <1>2, <1>3, <2>2 DEF Positions
      <4>. QED
        BY <1>2, <1>3, <1>4, <4>1, FirstDecides
    <3>. QED
      BY <1>2, <1>3, <2>1, <3>1
  <2>3. CASE weightAt(s, i) = weightAt(t, j)
    <3>1. isOther(s, i) /\ isOther(t, j)
      BY <1>2, <1>3, <1>6, <2>3
    <3>2. w = 0
      BY <1>2, <2>3 DEF Sign
    <3>3. i + 1 \in Places(s) /\ \A k \in Positions : At(f[i], k + 1) = At(f[i + 1], k)
      BY <3>1, KeyAtOther
    <3>9. j + 1 \in Places(t) /\ \A k \in Positions : At(g[j], k + 1) = At(g[j + 1], k)
      BY <3>1, KeyAtOther
    <3>4. Left(s, t, i + 1, j + 1) < Left(s, t, i, j)
      BY <1>0 DEF Left
    <3>5. c[<<i + 1, j + 1>>] = Compared(f[i + 1], g[j + 1])
      BY <3>3, <3>4, <3>9
    <3>6. f[i + 1] \in Seq(Int) /\ g[j + 1] \in Seq(Int)
      BY <3>3, <3>9, WeightFacts
    <3>7. Shifted(f[i], g[j], 1, f[i + 1], g[j + 1])
      <4>1. \A p \in 1..1 : At(f[i], p) = At(g[j], p)
        BY <1>2, <1>3, <2>3
      <4>. QED
        BY <1>2, <1>3, <3>3, <3>6, <3>9, <4>1 DEF Shifted
    <3>8. Compared(f[i], g[j]) = Compared(f[i + 1], g[j + 1])
      BY <3>7, RestDecides
    <3> HIDE DEF w
    <3>. QED
      BY <2>1, <3>1, <3>2, <3>5, <3>8
  <2>. QED
    BY <2>2, <2>3
<1>7. CASE ~(i > Len(s) /\ j > Len(t)) /\ ~isOther(s, i) /\ ~isOther(t, j)
  <2> DEFINE x == Numbers(s)[i]
             y == Numbers(t)[j]
             w == Sign(x, y)
             m == DigitsEnd(s, i)
             n == DigitsEnd(t, j)
  <2>1. Turn(c, s, t, i, j) = IF w # 0 THEN w ELSE c[<<m, n>>]
    BY <1>7 DEF Turn
  <2>2. /\ m \in Places(s) /\ (~(i > Len(s)) => m > i)
        /\ At(f[i], 1) = 0 /\ At(f[i], 2) = x
        /\ \A k \in Positions : At(f[i], k + 2) = At(f[m], k)
    BY <1>7, KeyAtDigits
  <2>3. /\ n \in Places(t) /\ (~(j > Len(t)) => n > j)
        /\ At(g[j], 1) = 0 /\ At(g[j], 2) = y
        /\ \A k \in Positions : At(g[j], k + 2) = At(g[n], k)
    BY <1>7, KeyAtDigits
  <2>4. x \in Int /\ y \in Int
    BY <1>1
  <2>5. CASE x # y
    <3>1. /\ Compared(f[i], g[j]) = Sign(At(f[i], 2), At(g[j], 2))
          /\ Sign(At(f[i], 2), At(g[j], 2)) # 0
      <4>1. 2 \in Positions /\ \A p \in 1..(2 - 1) : p = 1
        BY DEF Positions
      <4>2. At(f[i], 2) # At(g[j], 2)
        BY <2>2, <2>3, <2>5
      <4>3. \A p \in 1..(2 - 1) : At(f[i], p) = At(g[j], p)
        BY <2>2, <2>3, <4>1
      <4>. QED
        BY <1>2, <1>3, <4>1, <4>2, <4>3, FirstDecides
    <3>2. Compared(f[i], g[j]) = w /\ w # 0
      BY <2>2, <2>3, <3>1
    <3> HIDE DEF w
    <3>. QED
      BY <2>1, <3>2
  <2>6. CASE x = y
    <3>1. w = 0
      BY <2>4, <2>6 DEF Sign
    <3>2. Left(s, t, m, n) < Left(s, t, i, j)
      <4>1. /\ m \in Nat /\ n \in Nat /\ m >= i /\ n >= j /\ (m > i \/ n > j)
        <5>1. /\ i > Len(s) => i = Len(s) + 1
              /\ j > Len(t) => j = Len(t) + 1
          BY <1>0
        <5>2. m \in i..(Len(s) + 1) /\ n \in j..(Len(t) + 1)
          BY <1>0, DigitsEndFacts DEF Places
        <5> HIDE DEF m, n
        <5>. QED
          BY <1>0, <1>7, <2>2, <2>3, <5>2
      <4> HIDE DEF m, n
      <4>. QED
        BY <1>0, <4>1 DEF Left
    <3>3. c[<<m, n>>] = Compared(f[m], g[n])
      <4> HIDE DEF m, n
      <4>. QED
        BY <2>2, <2>3, <3>2
    <3>4. f[m] \in Seq(Int) /\ g[n] \in Seq(Int)
      <4> HIDE DEF m, n
      <4>. QED
        BY <2>2, <2>3, WeightFacts
    <3>5. Shifted(f[i], g[j], 2, f[m], g[n])
      <4>1. \A p \in 1..2 : p = 1 \/ p = 2
        OBVIOUS
      <4>2. \A p \in 1..2 : At(f[i], p) = At(g[j], p)
        BY <2>2, <2>3, <2>6, <4>1
      <4> HIDE DEF m, n
      <4>. QED
        BY <1>2, <1>3, <2>2, <2>3, <3>4, <4>2 DEF Shifted
    <3>6. Compared(f[i], g[j]) = Compared(f[m], g[n])
      BY <3>5, RestDecides
    <3> HIDE DEF w
    <3>. QED
      BY <2>1, <3>1, <3>3, <3>6
  <2>. QED
    BY <2>5, <2>6
<1>. QED
  BY <1>5, <1>6, <1>7

\* What a run of digits counts for, for cmpPart and for the documented order.
LEMMA NumbersFacts ==
  ASSUME NEW s \in Seq(Nat)
  PROVE  /\ Numbers(s) \in [Places(s) -> Int] /\ Numbers(s)[Len(s) + 1] = 0
         /\ Values(s) \in [Places(s) -> Int]
         /\ \A i \in Places(s) : Digits(s, i) \in Seq(Nat)
<1>1. ASSUME NEW i \in Places(s)
      PROVE  /\ Digits(s, i) \in Seq(Nat) /\ Len(Digits(s, i)) = DigitsEnd(s, i) - i
             /\ Value(Digits(s, i)) \in Int
  <2>1. /\ DigitsEnd(s, i) \in i..(Len(s) + 1) /\ Len(s) \in Nat /\ i \in Nat /\ i >= 1
        /\ \A k \in i..(DigitsEnd(s, i) - 1) : k \in 1..Len(s) /\ isDigit(s[k])
    BY DigitsEndFacts DEF Places
  <2> DEFINE n == DigitsEnd(s, i)
  <2>2. n \in Nat /\ n - 1 <= Len(s) /\ n - i \in Nat /\ (n - 1) - i + 1 = n - i
    BY <2>1
  <2> HIDE DEF n
  <2>3. SubSeq(s, i, n - 1) = [k \in 1..((n - 1) - i + 1) |-> s[i + k - 1]]
    BY <2>1, <2>2
  <2>4. Digits(s, i) = [k \in 1..(n - i) |-> s[i + k - 1]]
    BY <2>2, <2>3 DEF Digits, n
  <2>5. \A k \in 1..(n - i) : s[i + k - 1] \in Nat /\ isDigit(s[i + k - 1])
    <3> SUFFICES ASSUME NEW k \in 1..(n - i)
                 PROVE  s[i + k - 1] \in Nat /\ isDigit(s[i + k - 1])
      OBVIOUS
    <3>1. i + k - 1 \in i..(n - 1)
      BY <2>1, <2>2
    <3>2. i + k - 1 \in 1..Len(s) /\ isDigit(s[i + k - 1])
      BY <2>1, <3>1 DEF n
    <3>. QED
      BY <3>2
  <2>6. Digits(s, i) \in Seq(Nat) /\ Len(Digits(s, i)) = n - i
    BY <2>2, <2>4, <2>5
  <2>7. \A k \in 1..Len(Digits(s, i)) : isDigit(Digits(s, i)[k])
    BY <2>4, <2>5, <2>6
  <2>8. Value(Digits(s, i)) \in Nat
    BY <2>6, <2>7, ValueFacts
  <2>. QED
    BY <2>6, <2>8 DEF n
<1>2. \A i \in Places(s) : Atoi(Digits(s, i)) \in Int
  BY <1>1, AtoiFacts
<1>3. Len(s) + 1 \in Places(s) /\ Len(s) \in Nat
  BY DEF Places
<1>4. Atoi(Digits(s, Len(s) + 1)) = 0
  <2>1. DigitsEnd(s, Len(s) + 1) = Len(s) + 1
    BY <1>3, DigitsEndFacts DEF Places
  <2>2. Len(Digits(s, Len(s) + 1)) = 0 /\ Digits(s, Len(s) + 1) \in Seq(Nat)
    BY <1>1, <1>3, <2>1
  <2>3. Digits(s, Len(s) + 1) = <<>>
    BY <2>2
  <2>. QED
    BY <2>3 DEF Atoi
<1>. QED
  BY <1>1, <1>2, <1>3, <1>4 DEF Numbers, Values

\* There is a key for cmpPart's numbers, and cmpPart compares by it.
LEMMA ReadingExists ==
  ASSUME NEW s \in Seq(Nat)
  PROVE  \E f : Keyed(f, s, Numbers(s))
<1>1. Numbers(s) \in [Places(s) -> Int] /\ Numbers(s)[Len(s) + 1] = 0
  BY NumbersFacts
<1>2. PICK f : f = [i \in Places(s) |-> KeyAt(f, s, Numbers(s), i)]
  BY <1>1, KeyExists
<1>3. \A i \in Places(s) : f[i] = KeyAt(f, s, Numbers(s), i)
  BY <1>2
<1>. QED
  BY <1>1, <1>3 DEF Keyed, IsKey

\* The turns have a result.
LEMMA TurnsExist ==
  ASSUME NEW s \in Seq(Nat), NEW t \in Seq(Nat)
  PROVE  \E c : c = [p \in Places(s) \X Places(t) |-> Turn(c, s, t, p[1], p[2])]
<1> DEFINE D == Places(s) \X Places(t)
           V == {-1, 0, 1}
           m == [p \in D |-> Left(s, t, p[1], p[2])]
           N == Len(s) + Len(t) + 1
           G == [q \in D \X [D -> V] |-> Turn(q[2], s, t, q[1][1], q[1][2])]
<1>0. /\ Len(s) \in Nat /\ Len(t) \in Nat /\ Places(s) \in SUBSET Nat /\ Places(t) \in SUBSET Nat
      /\ \A i \in Places(s) : i >= 1 /\ i <= Len(s) + 1
      /\ \A j \in Places(t) : j >= 1 /\ j <= Len(t) + 1
  BY DEF Places
<1>1. \A x, y : Sign(x, y) \in V
  BY DEF Sign
<1>2. ASSUME NEW i \in Places(s), NEW j \in Places(t), ~(i > Len(s) /\ j > Len(t))
      PROVE  /\ isOther(s, i) => i + 1 \in Places(s)
             /\ isOther(t, j) => j + 1 \in Places(t)
             /\ DigitsEnd(s, i) \in Places(s) /\ DigitsEnd(s, i) >= i
             /\ DigitsEnd(t, j) \in Places(t) /\ DigitsEnd(t, j) >= j
             /\ ~isOther(s, i) /\ ~isOther(t, j) =>
                  DigitsEnd(s, i) > i \/ DigitsEnd(t, j) > j
  <2>1. /\ DigitsEnd(s, i) \in i..(Len(s) + 1)
        /\ i <= Len(s) /\ isDigit(s[i]) => DigitsEnd(s, i) > i
    BY DigitsEndFacts DEF Places
  <2>2. /\ DigitsEnd(t, j) \in j..(Len(t) + 1)
        /\ j <= Len(t) /\ isDigit(t[j]) => DigitsEnd(t, j) > j
    BY DigitsEndFacts DEF Places
  <2>. QED
    BY <1>0, <1>2, <2>1, <2>2 DEF isOther, Places
<1> DEFINE NextTurns(i, j) ==
      {q \in D : Left(s, t, q[1], q[2]) < Left(s, t, i, j)}
<1>3. ASSUME NEW i \in Places(s), NEW j \in Places(t), ~(i > Len(s) /\ j > Len(t))
      PROVE  /\ isOther(s, i) \/ isOther(t, j) =>
                  <<IF isOther(s, i) THEN i + 1 ELSE i,
                    IF isOther(t, j) THEN j + 1 ELSE j>> \in NextTurns(i, j)
             /\ ~isOther(s, i) /\ ~isOther(t, j) =>
                  <<DigitsEnd(s, i), DigitsEnd(t, j)>> \in NextTurns(i, j)
  <2>1. ASSUME NEW x \in Places(s), NEW y \in Places(t), x >= i, y >= j, x > i \/ y > j
        PROVE  <<x, y>> \in NextTurns(i, j)
    <3>1. x \in Nat /\ y \in Nat /\ i \in Nat /\ j \in Nat
      BY <1>0
    <3>2. Left(s, t, x, y) < Left(s, t, i, j)
      BY <1>0, <2>1, <3>1 DEF Left
    <3>3. <<x, y>> \in D
      OBVIOUS
    <3> HIDE DEF D
    <3>. QED
      BY <3>2, <3>3
  <2> HIDE DEF NextTurns
  <2>2. /\ isOther(s, i) => i + 1 \in Places(s)
        /\ isOther(t, j) => j + 1 \in Places(t)
        /\ i \in Nat /\ j \in Nat
    BY <1>0, <1>2, <1>3
  <2>3. CASE isOther(s, i) /\ isOther(t, j)
    BY <2>1, <2>2, <2>3
  <2>4. CASE isOther(s, i) /\ ~isOther(t, j)
    BY <2>1, <2>2, <2>4
  <2>5. CASE ~isOther(s, i) /\ isOther(t, j)
    BY <2>1, <2>2, <2>5
  <2>6. CASE ~isOther(s, i) /\ ~isOther(t, j)
    BY <1>2, <1>3, <2>1, <2>6
  <2>. QED
    BY <2>3, <2>4, <2>5, <2>6
<1>4. ASSUME NEW i \in Places(s), NEW j \in Places(t), NEW c \in [D -> V]
      PROVE  Turn(c, s, t, i, j) \in V
  <2>1. \A q \in NextTurns(i, j) : c[q] \in V
    OBVIOUS
  <2> HIDE DEF NextTurns, D, V
  <2>2. 0 \in V
    BY DEF V
  <2>. QED
    BY <1>1, <1>3, <2>1, <2>2 DEF Turn
<1>5. ASSUME NEW i \in Places(s), NEW j \in Places(t), NEW c, NEW d,
             \A q \in NextTurns(i, j) : c[q] = d[q]
      PROVE  Turn(c, s, t, i, j) = Turn(d, s, t, i, j)
  <2> HIDE DEF NextTurns
  <2>. QED
    BY <1>3, <1>5 DEF Turn
<1>6. /\ m \in [D -> Nat] /\ N \in Nat /\ \A p \in D : m[p] < N
  <2>1. ASSUME NEW i \in Places(s), NEW j \in Places(t)
        PROVE  Left(s, t, i, j) \in Nat /\ Left(s, t, i, j) < N
    BY <1>0 DEF Left
  <2>. QED
    BY <2>1
<1>7. /\ G \in [D \X [D -> V] -> V]
      /\ \A p \in D : \A c \in [D -> V] : G[<<p, c>>] = Turn(c, s, t, p[1], p[2])
  <2> HIDE DEF V
  <2>1. \A p \in D : p[1] \in Places(s) /\ p[2] \in Places(t)
    OBVIOUS
  <2>2. \A p \in D, c \in [D -> V] : Turn(c, s, t, p[1], p[2]) \in V
    BY <1>4, <2>1
  <2> HIDE DEF D
  <2>. QED
    BY <2>2
<1>8. ASSUME NEW p \in D, NEW c \in [D -> V], NEW d \in [D -> V],
             \A q \in D : m[q] < m[p] => c[q] = d[q]
      PROVE  G[<<p, c>>] = G[<<p, d>>]
  <2>1. p[1] \in Places(s) /\ p[2] \in Places(t)
    OBVIOUS
  <2>2. \A q \in NextTurns(p[1], p[2]) : c[q] = d[q]
    BY <1>8
  <2>3. Turn(c, s, t, p[1], p[2]) = Turn(d, s, t, p[1], p[2])
    <3> HIDE DEF NextTurns, m
    <3>. QED
      BY <1>5, <2>1, <2>2
  <2> HIDE DEF D, V, G
  <2>. QED
    BY <1>7, <2>3
<1>9. V # {}
  OBVIOUS
<1> HIDE DEF D, V, m, N, G, NextTurns
<1>10. Recursive(D, V, m, N, G)
  BY <1>6, <1>7, <1>8, <1>9 DEF Recursive
<1>11. PICK h \in [D -> V] : \A p \in D : h[p] = G[<<p, h>>]
  BY <1>10, Recursion
<1>12. h = [p \in D |-> Turn(h, s, t, p[1], p[2])]
  BY <1>7, <1>11
<1>. QED
  BY <1>12 DEF D

\* cmpPart compares two parts by their keys, with its own numbers in them.
LEMMA PartsByKeys ==
  ASSUME NEW s, NEW t, NEW f, NEW g, Keyed(f, s, Numbers(s)), Keyed(g, t, Numbers(t))
  PROVE  cmpPart(s, t) = Compared(f[1], g[1])
<1> DEFINE D == Places(s) \X Places(t)
           next(s1, i) == IF isOther(s1, i) THEN i + 1 ELSE i
           step(c, p) ==
             LET i == p[1]
                 j == p[2]
             IN  IF i > Len(s) /\ j > Len(t) THEN 0
                 ELSE IF isOther(s, i) \/ isOther(t, j)
                 THEN LET w == Sign(weightAt(s, i), weightAt(t, j))
                      IN  IF w # 0 THEN w ELSE c[<<next(s, i), next(t, j)>>]
                 ELSE LET w == Sign(Atoi(Digits(s, i)), Atoi(Digits(t, j)))
                      IN  IF w # 0 THEN w
                          ELSE c[<<DigitsEnd(s, i), DigitsEnd(t, j)>>]
           c == CHOOSE d : d = [p \in D |-> step(d, p)]
<1>0. /\ s \in Seq(Nat) /\ t \in Seq(Nat)
  BY DEF Keyed
<1>1. cmpPart(s, t) = c[<<1, 1>>]
  BY DEF cmpPart, Places
<1>2. \A d : \A p \in D : step(d, p) = Turn(d, s, t, p[1], p[2])
  BY DEF Turn, Numbers
<1>3. PICK h : h = [p \in D |-> Turn(h, s, t, p[1], p[2])]
  BY <1>0, TurnsExist
<1> HIDE DEF step, D
<1>4. h = [p \in D |-> step(h, p)]
  <2>1. [p \in D |-> Turn(h, s, t, p[1], p[2])] = [p \in D |-> step(h, p)]
    BY <1>2
  <2>. QED
    BY <1>3, <2>1
<1>5. c = [p \in D |-> step(c, p)]
  BY <1>4
<1> HIDE DEF c
<1>6. \A p \in D : c[p] = Turn(c, s, t, p[1], p[2])
  BY <1>2, <1>5
<1>7. \A i \in Places(s), j \in Places(t) : c[<<i, j>>] = Turn(c, s, t, i, j)
  BY <1>6 DEF D
<1> DEFINE T == {n \in Nat : \A i \in Places(s), j \in Places(t) :
                   Left(s, t, i, j) < n => c[<<i, j>>] = Compared(f[i], g[j])}
<1>8. \A i \in Places(s), j \in Places(t) :
        Left(s, t, i, j) \in Nat /\ Left(s, t, i, j) < Len(s) + Len(t) + 1
  BY <1>0 DEF Left, Places
<1>9. 0 \in T
  BY <1>8
<1>10. ASSUME NEW n \in Nat, n \in T PROVE n + 1 \in T
  <2> SUFFICES ASSUME NEW i \in Places(s), NEW j \in Places(t), Left(s, t, i, j) < n + 1
               PROVE  c[<<i, j>>] = Compared(f[i], g[j])
    OBVIOUS
  <2>1. \A x \in Places(s), y \in Places(t) :
          Left(s, t, x, y) < Left(s, t, i, j) => c[<<x, y>>] = Compared(f[x], g[y])
    <3> SUFFICES ASSUME NEW x \in Places(s), NEW y \in Places(t),
                        Left(s, t, x, y) < Left(s, t, i, j)
                 PROVE  c[<<x, y>>] = Compared(f[x], g[y])
      OBVIOUS
    <3>1. Left(s, t, x, y) < n
      BY <1>8
    <3>. QED
      BY <1>10, <3>1
  <2>2. Turn(c, s, t, i, j) = Compared(f[i], g[j])
    <3> HIDE DEF T
    <3>. QED
      BY <2>1, TurnCompares
  <2>. QED
    BY <1>7, <2>2
<1> HIDE DEF T
<1>11. \A n \in Nat : n \in T
  BY <1>9, <1>10, Induction
<1>12. Len(s) + Len(t) + 1 \in Nat /\ 1 \in Places(s) /\ 1 \in Places(t)
  BY <1>0 DEF Places
<1>13. c[<<1, 1>>] = Compared(f[1], g[1])
  BY <1>8, <1>11, <1>12 DEF T
<1>. QED
  BY <1>1, <1>13

-----------------------------------------------------------------------------
(* Comparing versions compares their three keys.                           *)

\* The key of a part with cmpPart's numbers in it, 0 where one overflows.
Reading(s)  == (CHOOSE h : Keyed(h, s, Numbers(s)))[1]
Readings(v) == LET x == splitVersion(v)
               IN  <<<<x.epoch>>, Reading(x.upstream), Reading(x.revision)>>

\* cmpPart compares readings.
LEMMA ReadingFacts ==
  ASSUME NEW s \in Seq(Nat), NEW t \in Seq(Nat)
  PROVE  Reading(s) \in Seq(Int) /\ cmpPart(s, t) = Compared(Reading(s), Reading(t))
<1> DEFINE f == CHOOSE h : Keyed(h, s, Numbers(s))
           g == CHOOSE h : Keyed(h, t, Numbers(t))
<1>1. Keyed(f, s, Numbers(s)) /\ Keyed(g, t, Numbers(t))
  BY ReadingExists
<1>2. Reading(s) = f[1] /\ Reading(t) = g[1]
  BY DEF Reading
<1>3. 1 \in Places(s)
  BY DEF Places
<1> HIDE DEF f, g
<1>4. f[1] \in Seq(Int)
  BY <1>1, <1>3, WeightFacts
<1>5. cmpPart(s, t) = Compared(f[1], g[1])
  BY <1>1, PartsByKeys
<1>. QED
  BY <1>2, <1>4, <1>5

\* The documented keys do as well where no number overflows.
LEMMA KeyFacts ==
  ASSUME NEW s \in Seq(Nat), Values(s) = Numbers(s)
  PROVE  \E f : Keyed(f, s, Numbers(s)) /\ Key(s) = f[1] /\ Key(s) \in Seq(Int)
<1>1. PICK f : IsKey(f, s, Numbers(s)) /\ Key(s) = f[1]
  BY NumbersFacts, KeyIsKey
<1>2. Keyed(f, s, Numbers(s))
  BY <1>1, NumbersFacts DEF Keyed
<1>3. 1 \in Places(s)
  BY DEF Places
<1>4. f[1] \in Seq(Int)
  BY <1>2, <1>3, WeightFacts
<1>. QED
  BY <1>1, <1>2, <1>4

\* Then cmpPart compares the documented keys.
LEMMA KeysCompare ==
  ASSUME NEW s \in Seq(Nat), Values(s) = Numbers(s),
         NEW t \in Seq(Nat), Values(t) = Numbers(t)
  PROVE  Key(s) \in Seq(Int) /\ cmpPart(s, t) = Compared(Key(s), Key(t))
<1>1. PICK f : Keyed(f, s, Numbers(s)) /\ Key(s) = f[1] /\ Key(s) \in Seq(Int)
  BY KeyFacts
<1>2. PICK g : Keyed(g, t, Numbers(t)) /\ Key(t) = g[1]
  BY KeyFacts
<1>3. cmpPart(s, t) = Compared(f[1], g[1])
  BY <1>1, <1>2, PartsByKeys
<1>. QED
  BY <1>1, <1>2, <1>3

\* What a comparison of keys says.
LEMMA ComparedFacts ==
  ASSUME NEW k \in Seq(Int), NEW l \in Seq(Int)
  PROVE  /\ Compared(k, l) = -1 <=> Precedes(k, l)
         /\ Compared(k, l) = 1 <=> Precedes(l, k)
         /\ Compared(k, l) = 0 <=> Same(k, l)
         /\ Compared(k, l) \in {-1, 0, 1}
<1>1. Precedes(k, l) \/ Precedes(l, k) \/ Same(k, l)
  BY Trichotomy
<1>2. ~(Precedes(k, l) /\ Precedes(l, k))
  <2>1. Precedes(k, l) /\ Precedes(l, k) => Precedes(k, k)
    BY PrecedesTransitive
  <2>2. Same(k, k)
    BY DEF Same
  <2>. QED
    BY <2>1, <2>2, PrecedesIrreflexive
<1>3. Same(k, l) => ~Precedes(k, l) /\ ~Precedes(l, k)
  BY PrecedesIrreflexive, PrecedesSame
<1>. QED
  BY <1>1, <1>2, <1>3 DEF Compared

\* Epochs compare as numbers.
LEMMA EpochsCompare ==
  ASSUME NEW e \in Int, NEW h \in Int
  PROVE  <<e>> \in Seq(Int) /\ Compared(<<e>>, <<h>>) = Sign(e, h)
<1>1. <<e>> \in Seq(Int) /\ <<h>> \in Seq(Int)
  OBVIOUS
<1>2. At(<<e>>, 1) = e /\ At(<<h>>, 1) = h
  BY DEF At
<1>3. CASE e = h
  <2>1. Same(<<e>>, <<h>>)
    BY <1>3 DEF Same
  <2>2. Sign(e, h) = 0
    BY <1>3 DEF Sign
  <2>. QED
    BY <1>1, <2>1, <2>2, ComparedFacts
<1>4. CASE e # h
  <2>1. 1 \in Positions /\ \A p \in 1..(1 - 1) : At(<<e>>, p) = At(<<h>>, p)
    BY DEF Positions
  <2>2. At(<<e>>, 1) # At(<<h>>, 1)
    BY <1>2, <1>4
  <2> DEFINE k == <<e>>
             l == <<h>>
  <2> HIDE DEF k, l
  <2>3. Compared(k, l) = Sign(At(k, 1), At(l, 1))
    BY <1>1, <2>1, <2>2, FirstDecides DEF k, l
  <2>. QED
    BY <1>1, <1>2, <2>3 DEF k, l
<1>. QED
  BY <1>1, <1>3, <1>4

\* What compareVersion is on versions as three keys.
LexCompared(x, y) ==
  IF Compared(x[1], y[1]) # 0 THEN Compared(x[1], y[1])
  ELSE IF Compared(x[2], y[2]) # 0 THEN Compared(x[2], y[2])
  ELSE Compared(x[3], y[3])

\* That is what Before says of them.
LEMMA LexIsBefore ==
  ASSUME NEW x \in VersionKeys, NEW y \in VersionKeys
  PROVE  /\ LexCompared(x, y) = IF Before(x, y) THEN -1 ELSE IF Before(y, x) THEN 1 ELSE 0
         /\ Before(x, y) <=> LexCompared(x, y) = -1
         /\ Before(y, x) <=> LexCompared(x, y) = 1
         /\ Alike(x, y) <=> LexCompared(x, y) = 0
<1>1. \A n \in 1..3 : /\ Compared(x[n], y[n]) = -1 <=> Precedes(x[n], y[n])
                      /\ Compared(x[n], y[n]) = 1 <=> Precedes(y[n], x[n])
                      /\ Compared(x[n], y[n]) = 0 <=> Same(x[n], y[n])
                      /\ Compared(x[n], y[n]) \in {-1, 0, 1}
                      /\ Same(x[n], y[n]) <=> Same(y[n], x[n])
  BY ComparedFacts, PrecedesSame DEF VersionKeys
<1>2. \A a, b : Before(a, b) <=>
        \/ Precedes(a[1], b[1])
        \/ Same(a[1], b[1]) /\ Precedes(a[2], b[2])
        \/ Same(a[1], b[1]) /\ Same(a[2], b[2]) /\ Precedes(a[3], b[3])
  BY DEF Before
<1>3. Alike(x, y) <=> Same(x[1], y[1]) /\ Same(x[2], y[2]) /\ Same(x[3], y[3])
  BY DEF Alike
<1>. QED
  BY <1>1, <1>2, <1>3 DEF LexCompared

\* s stands in v from some place on.
IsPart(s, v) ==
  /\ s \in Seq(Nat)
  /\ \E d \in Nat : d + Len(s) <= Len(v) /\ \A k \in 1..Len(s) : s[k] = v[d + k]

\* The pieces of a sequence, and of its pieces, are parts of it.
LEMMA PieceIsPart ==
  ASSUME NEW v \in Seq(Nat), NEW s, IsPart(s, v),
         NEW i \in 1..(Len(s) + 1), NEW n \in (i - 1)..Len(s)
  PROVE  IsPart(SubSeq(s, i, n), v) /\ Len(SubSeq(s, i, n)) = n - i + 1
<1>1. PICK d \in Nat : d + Len(s) <= Len(v) /\ \A k \in 1..Len(s) : s[k] = v[d + k]
  BY DEF IsPart
<1>2. s \in Seq(Nat) /\ Len(s) \in Nat /\ Len(v) \in Nat
  BY DEF IsPart
<1> DEFINE w == SubSeq(s, i, n)
<1>3. n - i + 1 \in Nat
  BY <1>2
<1>4. w = [k \in 1..(n - i + 1) |-> s[i + k - 1]]
  BY <1>2
<1>5. \A k \in 1..(n - i + 1) : i + k - 1 \in 1..Len(s) /\ d + (i + k - 1) = (d + i - 1) + k
  BY <1>1, <1>2
<1>6. \A k \in 1..(n - i + 1) : s[i + k - 1] \in Nat
  BY <1>2, <1>5
<1>7. w \in Seq(Nat) /\ Len(w) = n - i + 1
  BY <1>3, <1>4, <1>6
<1>8. \A k \in 1..Len(w) : w[k] = v[(d + i - 1) + k]
  <2> SUFFICES ASSUME NEW k \in 1..(n - i + 1) PROVE w[k] = v[(d + i - 1) + k]
    BY <1>7
  <2>1. w[k] = s[i + k - 1]
    BY <1>4
  <2>2. s[i + k - 1] = v[d + (i + k - 1)]
    BY <1>1, <1>5
  <2> HIDE DEF w
  <2>. QED
    BY <1>5, <2>1, <2>2
<1>9. d + i - 1 \in Nat /\ d + i - 1 + Len(w) <= Len(v)
  <2> HIDE DEF w
  <2>. QED
    BY <1>1, <1>2, <1>7
<1> HIDE DEF w
<1>10. IsPart(w, v)
  BY <1>7, <1>8, <1>9 DEF IsPart
<1>. QED
  BY <1>7, <1>10 DEF w

\* The parts of a version are parts of it.
LEMMA SplitFacts ==
  ASSUME NEW v \in Seq(Nat)
  PROVE  /\ splitVersion(v).epoch \in Int
         /\ IsPart(splitVersion(v).upstream, v)
         /\ IsPart(splitVersion(v).revision, v)
<1> DEFINE I == {i \in 1..Len(v) : v[i] = Colon}
           colon == IF I # {} THEN Min(I) ELSE 0
           rest == SubSeq(v, colon + 1, Len(v))
           J == {i \in 1..Len(rest) : rest[i] = Dash}
           dash == IF J # {} THEN Max(J) ELSE 0
<1>0. splitVersion(v) =
        [epoch    |-> Atoi(SubSeq(v, 1, colon - 1)),
         upstream |-> IF dash = 0 THEN rest ELSE SubSeq(rest, 1, dash - 1),
         revision |-> IF dash = 0 THEN <<>> ELSE SubSeq(rest, dash + 1, Len(rest))]
  BY DEF splitVersion, SelectInSeq, SelectLastInSeq
<1>1. Len(v) \in Nat /\ IsPart(v, v)
  <2>1. Len(v) \in Nat /\ 0 \in Nat /\ 0 + Len(v) <= Len(v) /\ \A k \in 1..Len(v) : 0 + k = k
    OBVIOUS
  <2>. QED
    BY <2>1 DEF IsPart
<1>2. colon \in 0..Len(v)
  <2>1. CASE I = {}
    BY <1>1, <2>1
  <2>2. CASE I # {}
    <3>1. I \in SUBSET Nat
      OBVIOUS
    <3>2. \E i \in I : \A j \in I : i <= j
      <4> HIDE DEF I
      <4>. QED
        BY <2>2, <3>1, LeastNumber
    <3>3. colon \in I
      BY <2>2, <3>2 DEF Min
    <3>. QED
      BY <3>3
  <2>. QED
    BY <2>1, <2>2
<1> HIDE DEF colon
<1>3. IsPart(rest, v)
  <2>1. colon + 1 \in 1..(Len(v) + 1) /\ Len(v) \in (colon + 1 - 1)..Len(v)
    BY <1>1, <1>2
  <2>. QED
    BY <1>1, <2>1, PieceIsPart
<1>4. rest \in Seq(Nat) /\ Len(rest) \in Nat
  <2>1. rest \in Seq(Nat)
    BY <1>3 DEF IsPart
  <2> HIDE DEF rest
  <2>. QED
    BY <2>1
<1> HIDE DEF rest
<1>5. dash \in 0..Len(rest)
  <2>1. CASE J = {}
    BY <1>4, <2>1
  <2>2. CASE J # {}
    <3>1. J \in SUBSET (1..Len(rest))
      OBVIOUS
    <3>2. \E i \in J : \A j \in J : i >= j
      <4> HIDE DEF J
      <4>. QED
        BY <1>4, <2>2, <3>1, LastPosition
    <3>3. dash \in J
      BY <2>2, <3>2 DEF Max
    <3>. QED
      BY <3>3
  <2>. QED
    BY <2>1, <2>2
<1> HIDE DEF dash
<1>6. Atoi(SubSeq(v, 1, colon - 1)) \in Int
  BY AtoiType
<1>7. IsPart(IF dash = 0 THEN rest ELSE SubSeq(rest, 1, dash - 1), v)
  <2>1. CASE dash = 0
    BY <1>3, <2>1
  <2>2. CASE dash # 0
    <3>1. 1 \in 1..(Len(rest) + 1) /\ dash - 1 \in (1 - 1)..Len(rest)
      BY <1>4, <1>5, <2>2
    <3>. QED
      BY <1>3, <2>2, <3>1, PieceIsPart
  <2>. QED
    BY <2>1, <2>2
<1>8. IsPart(IF dash = 0 THEN <<>> ELSE SubSeq(rest, dash + 1, Len(rest)), v)
  <2>1. CASE dash = 0
    <3>1. <<>> \in Seq(Nat) /\ Len(<<>>) = 0 /\ 0 \in Nat /\ 0 + 0 <= Len(v)
      BY <1>1
    <3>2. IsPart(<<>>, v)
      BY <3>1 DEF IsPart
    <3>. QED
      BY <2>1, <3>2
  <2>2. CASE dash # 0
    <3>1. dash + 1 \in 1..(Len(rest) + 1) /\ Len(rest) \in (dash + 1 - 1)..Len(rest)
      BY <1>4, <1>5
    <3>. QED
      BY <1>3, <2>2, <3>1, PieceIsPart
  <2>. QED
    BY <2>1, <2>2
<1>. QED
  BY <1>0, <1>6, <1>7, <1>8

\* In a version without an overflow every run of digits counts for its value.
LEMMA NoOverflow ==
  ASSUME NEW v \in Seq(Nat), ~Overflows(v), NEW s, IsPart(s, v)
  PROVE  Values(s) = Numbers(s)
<1>0. s \in Seq(Nat) /\ Len(s) \in Nat /\ Len(v) \in Nat
  BY DEF IsPart
<1> SUFFICES ASSUME NEW i \in Places(s)
             PROVE  Atoi(Digits(s, i)) = Value(Digits(s, i))
  BY DEF Values, Numbers
<1> DEFINE n == DigitsEnd(s, i) - 1
           w == Digits(s, i)
<1>1. /\ n \in (i - 1)..Len(s) /\ i \in Nat /\ i >= 1
      /\ \A k \in i..n : k \in 1..Len(s) /\ isDigit(s[k])
  <2>1. i \in 1..(Len(s) + 1)
    BY DEF Places
  <2>2. /\ DigitsEnd(s, i) \in i..(Len(s) + 1)
        /\ \A k \in i..n : k \in 1..Len(s) /\ isDigit(s[k])
    BY <1>0, <2>1, DigitsEndFacts
  <2>3. n \in (i - 1)..Len(s) /\ i \in Nat /\ i >= 1
    BY <1>0, <2>1, <2>2
  <2>. QED
    BY <2>2, <2>3
<1> HIDE DEF n
<1>2. w = SubSeq(s, i, n)
  BY DEF Digits, n
<1>3. IsPart(w, v) /\ Len(w) = n - i + 1
  BY <1>1, <1>2, PieceIsPart DEF Places
<1>4. w \in Seq(Nat)
  BY <1>3 DEF IsPart
<1>5. \A k \in 1..Len(w) : isDigit(w[k])
  <2> SUFFICES ASSUME NEW k \in 1..(n - i + 1) PROVE isDigit(w[k])
    BY <1>3
  <2>1. w[k] = s[i + k - 1]
    BY <1>0, <1>1, <1>2
  <2>2. i + k - 1 \in i..n
    BY <1>1
  <2>. QED
    BY <1>1, <2>1, <2>2
<1> HIDE DEF w
<1>6. Value(w) \in Nat /\ (w = <<>> => Value(w) = 0)
  BY <1>4, <1>5, ValueFacts
<1>7. Value(w) <= MaxInt
  <2>1. CASE Len(w) = 0
    <3>1. w = <<>>
      BY <1>4, <2>1
    <3>. QED
      BY <1>6, <3>1, MaxIntAssumption
  <2>2. CASE Len(w) # 0
    <3>1. PICK d \in Nat : d + Len(w) <= Len(v) /\ \A k \in 1..Len(w) : w[k] = v[d + k]
      BY <1>3 DEF IsPart
    <3> DEFINE a == d + 1
               b == d + Len(w)
    <3>2. Len(w) \in Nat /\ a \in 1..Len(v) /\ b \in 1..Len(v) /\ a <= b /\ b - a + 1 = Len(w)
      BY <1>0, <1>4, <2>2, <3>1
    <3>3. SubSeq(v, a, b) = [k \in 1..(b - a + 1) |-> v[a + k - 1]]
      <4> HIDE DEF a, b
      <4>. QED
        BY <1>0, <3>2
    <3>4. w = [k \in 1..Len(w) |-> w[k]]
      BY <1>4
    <3>5. \A k \in 1..Len(w) : v[a + k - 1] = w[k]
      <4>1. \A k \in 1..Len(w) : a + k - 1 = d + k
        BY <3>2
      <4>. QED
        BY <3>1, <4>1
    <3>6. SubSeq(v, a, b) = w
      <4> HIDE DEF a, b
      <4>. QED
        BY <3>2, <3>3, <3>4, <3>5
    <3>7. \A k \in a..b : isDigit(v[k])
      <4> SUFFICES ASSUME NEW k \in a..b PROVE isDigit(v[k])
        OBVIOUS
      <4>1. k - d \in 1..Len(w) /\ d + (k - d) = k
        BY <3>2
      <4>. QED
        BY <1>5, <3>1, <4>1
    <3> HIDE DEF a, b
    <3>8. a \in DOMAIN v /\ b \in DOMAIN v
      BY <3>2
    <3>9. ~(Value(SubSeq(v, a, b)) > MaxInt)
      BY <3>2, <3>7, <3>8 DEF Overflows
    <3>. QED
      BY <1>6, <3>6, <3>9, MaxIntAssumption
  <2>. QED
    BY <2>1, <2>2
<1>. QED
  BY <1>4, <1>5, <1>7, AtoiFacts DEF w

\* Whatever keys cmpPart compares upstream versions and revisions by,
\* compareVersion compares versions by them.
LEMMA CompareIsLex ==
  ASSUME NEW a \in Seq(Nat), NEW b \in Seq(Nat),
         NEW k \in Seq(Int), NEW l \in Seq(Int), NEW m \in Seq(Int), NEW n \in Seq(Int),
         cmpPart(splitVersion(a).upstream, splitVersion(b).upstream) = Compared(k, l),
         cmpPart(splitVersion(a).revision, splitVersion(b).revision) = Compared(m, n)
  PROVE  /\ <<<<splitVersion(a).epoch>>, k, m>> \in VersionKeys
         /\ compareVersion(a, b) = LexCompared(<<<<splitVersion(a).epoch>>, k, m>>,
                                               <<<<splitVersion(b).epoch>>, l, n>>)
<1> DEFINE e == splitVersion(a).epoch
           h == splitVersion(b).epoch
<1>1. e \in Int /\ h \in Int
  BY SplitFacts
<1>2. compareVersion(a, b) = IF e # h THEN Sign(e, h)
                             ELSE IF Compared(k, l) # 0 THEN Compared(k, l)
                             ELSE Compared(m, n)
  BY DEF compareVersion
<1> HIDE DEF e, h
<1>3. <<e>> \in Seq(Int) /\ Compared(<<e>>, <<h>>) = Sign(e, h)
  BY <1>1, EpochsCompare
<1>4. Sign(e, h) # 0 <=> e # h
  BY <1>1 DEF Sign
<1>5. <<<<e>>, k, m>> \in VersionKeys
  <2> DEFINE y == <<e>>
  <2>1. y \in Seq(Int)
    BY <1>3
  <2> HIDE DEF y
  <2>2. <<y, k, m>> \in [1..3 -> Seq(Int)]
    BY <2>1
  <2>. QED
    BY <2>2 DEF VersionKeys, y
<1>6. LexCompared(<<<<e>>, k, m>>, <<<<h>>, l, n>>) =
        IF Compared(<<e>>, <<h>>) # 0 THEN Compared(<<e>>, <<h>>)
        ELSE IF Compared(k, l) # 0 THEN Compared(k, l)
        ELSE Compared(m, n)
  BY DEF LexCompared
<1>7. compareVersion(a, b) = LexCompared(<<<<e>>, k, m>>, <<<<h>>, l, n>>)
  BY <1>2, <1>3, <1>4, <1>6
<1>. QED
  BY <1>5, <1>7 DEF e, h

\* Any two versions compare as their readings do.
LEMMA CompareByReadings ==
  ASSUME NEW a \in Seq(Nat), NEW b \in Seq(Nat)
  PROVE  /\ Readings(a) \in VersionKeys
         /\ compareVersion(a, b) = LexCompared(Readings(a), Readings(b))
<1> DEFINE x == splitVersion(a)
           y == splitVersion(b)
<1>1. /\ x.upstream \in Seq(Nat) /\ x.revision \in Seq(Nat)
      /\ y.upstream \in Seq(Nat) /\ y.revision \in Seq(Nat)
  BY SplitFacts DEF IsPart
<1>2. /\ Reading(x.upstream) \in Seq(Int) /\ Reading(y.upstream) \in Seq(Int)
      /\ Reading(x.revision) \in Seq(Int) /\ Reading(y.revision) \in Seq(Int)
  BY <1>1, ReadingFacts
<1>3. /\ cmpPart(x.upstream, y.upstream) = Compared(Reading(x.upstream), Reading(y.upstream))
      /\ cmpPart(x.revision, y.revision) = Compared(Reading(x.revision), Reading(y.revision))
  BY <1>1, ReadingFacts
<1>. QED
  BY <1>2, <1>3, CompareIsLex DEF Readings

\* Two versions in which no number overflows compare as their keys do.
LEMMA CompareByKeys ==
  ASSUME NEW a \in Seq(Nat), ~Overflows(a), NEW b \in Seq(Nat), ~Overflows(b)
  PROVE  /\ Keys(a) \in VersionKeys
         /\ compareVersion(a, b) = LexCompared(Keys(a), Keys(b))
<1> DEFINE x == splitVersion(a)
           y == splitVersion(b)
<1>1. /\ IsPart(x.upstream, a) /\ IsPart(x.revision, a)
      /\ IsPart(y.upstream, b) /\ IsPart(y.revision, b)
  BY SplitFacts
<1>2. /\ x.upstream \in Seq(Nat) /\ x.revision \in Seq(Nat)
      /\ y.upstream \in Seq(Nat) /\ y.revision \in Seq(Nat)
  BY <1>1 DEF IsPart
<1>3. /\ Values(x.upstream) = Numbers(x.upstream) /\ Values(x.revision) = Numbers(x.revision)
      /\ Values(y.upstream) = Numbers(y.upstream) /\ Values(y.revision) = Numbers(y.revision)
  BY <1>1, NoOverflow
<1>4. /\ Key(x.upstream) \in Seq(Int) /\ Key(y.upstream) \in Seq(Int)
      /\ Key(x.revision) \in Seq(Int) /\ Key(y.revision) \in Seq(Int)
  BY <1>2, <1>3, KeysCompare
<1>5. /\ cmpPart(x.upstream, y.upstream) = Compared(Key(x.upstream), Key(y.upstream))
      /\ cmpPart(x.revision, y.revision) = Compared(Key(x.revision), Key(y.revision))
  BY <1>2, <1>3, KeysCompare
<1>. QED
  BY <1>4, <1>5, CompareIsLex DEF Keys

\* compareVersion, the loops of cmpPart and all, computes the documented order,
\* for versions of every length and runs of digits of every length that fits.
THEOREM CompareCorrect ==
  [](versions = <<>> \/ versions \in Seq(Nat) \X Seq(Nat)) => []ComparesAsDocumented
<1>1. ASSUME versions = <<>> \/ versions \in Seq(Nat) \X Seq(Nat)
      PROVE  ComparesAsDocumented
  <2> SUFFICES ASSUME versions # <<>>, ~Overflows(versions[1]), ~Overflows(versions[2])
               PROVE  compareVersion(versions[1], versions[2]) =
                        IF Before(Keys(versions[1]), Keys(versions[2])) THEN -1
                        ELSE IF Before(Keys(versions[2]), Keys(versions[1])) THEN 1 ELSE 0
    BY DEF ComparesAsDocumented
  <2>1. versions[1] \in Seq(Nat) /\ versions[2] \in Seq(Nat)
    BY <1>1
  <2>2. Keys(versions[1]) \in VersionKeys /\ Keys(versions[2]) \in VersionKeys
    BY <2>1, CompareByKeys
  <2>3. compareVersion(versions[1], versions[2]) =
          LexCompared(Keys(versions[1]), Keys(versions[2]))
    BY <2>1, CompareByKeys
  <2>. QED
    BY <2>2, <2>3, LexIsBefore
<1>. QED
  BY <1>1, PTL

\* Versions are ordered the same way from either side, and what is older than
\* an older one is older: also those with a number that overflows, which
\* compareVersion puts in the wrong place, but always in the same.
THEOREM CompareIsAnOrder ==
  ASSUME NEW a \in Seq(Nat), NEW b \in Seq(Nat), NEW c \in Seq(Nat)
  PROVE  /\ compareVersion(a, b) \in {-1, 0, 1}
         /\ compareVersion(b, a) = -compareVersion(a, b)
         /\ compareVersion(a, b) = -1 /\ compareVersion(b, c) = -1 => compareVersion(a, c) = -1
         /\ compareVersion(a, b) = 0 => compareVersion(a, c) = compareVersion(b, c)
<1> DEFINE x == Readings(a)
           y == Readings(b)
           z == Readings(c)
<1>1. /\ x \in VersionKeys /\ y \in VersionKeys /\ z \in VersionKeys
      /\ compareVersion(a, b) = LexCompared(x, y) /\ compareVersion(b, a) = LexCompared(y, x)
      /\ compareVersion(a, c) = LexCompared(x, z) /\ compareVersion(b, c) = LexCompared(y, z)
  BY CompareByReadings
<1> HIDE DEF x, y, z
<1>2. \A p, q \in VersionKeys :
        /\ LexCompared(p, q) = IF Before(p, q) THEN -1 ELSE IF Before(q, p) THEN 1 ELSE 0
        /\ Before(p, q) <=> LexCompared(p, q) = -1
        /\ Before(q, p) <=> LexCompared(p, q) = 1
        /\ Alike(p, q) <=> LexCompared(p, q) = 0
  BY LexIsBefore
<1>3. /\ Before(x, y) /\ Before(y, z) => Before(x, z)
      /\ Alike(x, y) => (Before(x, z) <=> Before(y, z))
  BY <1>1, VersionsAreOrdered
<1>4. Alike(x, y) => (Before(z, x) <=> Before(z, y))
  <2> SUFFICES ASSUME Alike(x, y) PROVE Before(z, x) <=> Before(z, y)
    OBVIOUS
  <2>1. /\ Before(z, x) \/ Before(x, z) \/ Alike(z, x)
        /\ Before(z, y) \/ Before(y, z) \/ Alike(z, y)
    BY <1>1, VersionsAreOrdered
  <2>2. Alike(z, x) <=> Alike(z, y)
    <3>1. \A n \in 1..3 : x[n] \in Seq(Int) /\ y[n] \in Seq(Int) /\ z[n] \in Seq(Int)
      BY <1>1 DEF VersionKeys
    <3>2. \A n \in 1..3 : Same(z[n], x[n]) <=> Same(z[n], y[n])
      BY <3>1, PrecedesSame DEF Alike
    <3>. QED
      BY <3>2 DEF Alike
  <2>3. ~(Before(x, z) /\ Before(z, x)) /\ ~(Before(y, z) /\ Before(z, y))
    BY <1>1, <1>2
  <2>4. ~(Alike(z, x) /\ (Before(x, z) \/ Before(z, x)))
    BY <1>1, <1>2
  <2>5. ~(Alike(z, y) /\ (Before(y, z) \/ Before(z, y)))
    BY <1>1, <1>2
  <2>. QED
    BY <1>3, <2>1, <2>2, <2>3, <2>4, <2>5
<1>. QED
  BY <1>1, <1>2, <1>3, <1>4

\* So whatever finite set of versions a build meets, its versions have ranks,
\* numbers that compare as compareVersion does.
THEOREM RanksExist ==
  ASSUME NEW S \in SUBSET Seq(Nat), IsFiniteSet(S)
  PROVE  \E rank \in [S -> Nat] :
            \A a, b \in S : compareVersion(a, b) = Sign(rank[a], rank[b])
<1> DEFINE Older(a) == {w \in S : compareVersion(w, a) = -1}
           rank == [a \in S |-> Cardinality(Older(a))]
<1>0. \A a \in S : a \in Seq(Nat)
  OBVIOUS
<1>1. \A a \in S : IsFiniteSet(Older(a)) /\ Cardinality(Older(a)) \in Nat
  <2> SUFFICES ASSUME NEW a \in S
               PROVE  IsFiniteSet(Older(a)) /\ Cardinality(Older(a)) \in Nat
    OBVIOUS
  <2>1. Older(a) \in SUBSET S
    OBVIOUS
  <2> HIDE DEF Older
  <2>. QED
    BY <2>1, FS_Subset, FS_CardinalityType
<1>2. ASSUME NEW a \in S, NEW b \in S, compareVersion(a, b) = -1
      PROVE  rank[a] < rank[b]
  <2>1. a \in Older(b)
    BY <1>2
  <2>2. Older(a) \subseteq Older(b)
    <3> SUFFICES ASSUME NEW w \in S, compareVersion(w, a) = -1
                 PROVE  compareVersion(w, b) = -1
      OBVIOUS
    <3>. QED
      BY <1>0, <1>2, CompareIsAnOrder
  <2>3. a \notin Older(a)
    <3>1. compareVersion(a, a) = -compareVersion(a, a) /\ compareVersion(a, a) \in {-1, 0, 1}
      BY <1>0, CompareIsAnOrder
    <3>. QED
      BY <3>1
  <2>4. Cardinality(Older(a)) <= Cardinality(Older(b) \ {a})
    <3>1. Older(a) \subseteq Older(b) \ {a}
      BY <2>2, <2>3
    <3>2. IsFiniteSet(Older(b) \ {a})
      BY <1>1, <2>1, FS_RemoveElement
    <3> HIDE DEF Older
    <3>. QED
      BY <3>1, <3>2, FS_Subset
  <2>5. Cardinality(Older(b) \ {a}) = Cardinality(Older(b)) - 1
    <3> HIDE DEF Older
    <3>. QED
      BY <1>1, <2>1, FS_RemoveElement
  <2> HIDE DEF Older
  <2>. QED
    BY <1>1, <2>4, <2>5
<1>3. ASSUME NEW a \in S, NEW b \in S, compareVersion(a, b) = 0
      PROVE  rank[a] = rank[b]
  <2>1. \A w \in S : compareVersion(w, a) = -1 <=> compareVersion(w, b) = -1
    <3> SUFFICES ASSUME NEW w \in S
                 PROVE  compareVersion(w, a) = -1 <=> compareVersion(w, b) = -1
      OBVIOUS
    <3>1. compareVersion(a, w) = compareVersion(b, w)
      BY <1>0, <1>3, CompareIsAnOrder
    <3>2. /\ compareVersion(w, a) = -compareVersion(a, w)
          /\ compareVersion(w, b) = -compareVersion(b, w)
      BY <1>0, CompareIsAnOrder
    <3>. QED
      BY <3>1, <3>2
  <2>2. Older(a) = Older(b)
    BY <2>1
  <2> HIDE DEF Older
  <2>. QED
    BY <2>2
<1>4. rank \in [S -> Nat]
  <2> HIDE DEF Older
  <2>. QED
    BY <1>1
<1> HIDE DEF rank
<1>5. ASSUME NEW a \in S, NEW b \in S
      PROVE  compareVersion(a, b) = Sign(rank[a], rank[b])
  <2>1. /\ compareVersion(a, b) \in {-1, 0, 1}
        /\ compareVersion(a, b) = 1 => compareVersion(b, a) = -1
    BY <1>0, CompareIsAnOrder
  <2>2. rank[a] \in Nat /\ rank[b] \in Nat
    BY <1>4
  <2>3. CASE compareVersion(a, b) = -1
    BY <1>2, <2>2, <2>3 DEF Sign
  <2>4. CASE compareVersion(a, b) = 0
    BY <1>3, <2>2, <2>4 DEF Sign
  <2>5. CASE compareVersion(a, b) = 1
    BY <1>2, <2>1, <2>2, <2>5 DEF Sign
  <2>. QED
    BY <2>1, <2>3, <2>4, <2>5
<1>. QED
  BY <1>4, <1>5

-----------------------------------------------------------------------------
(* Routing.                                                                *)

\* Of finitely many releases of a branch one is the newest.
LEMMA NewestExists ==
  ASSUME NEW S, IsFiniteSet(S), S # {}, \A v \in S : v[2] \in Nat
  PROVE  \E v \in S : \A w \in S : w[2] <= v[2]
<1> DEFINE Bad == {T \in SUBSET S : T # {} /\ ~\E v \in T : \A w \in T : w[2] <= v[2]}
           Sizes == {Cardinality(T) : T \in Bad}
<1> SUFFICES Bad = {}
  OBVIOUS
<1> SUFFICES ASSUME Bad # {} PROVE FALSE
  OBVIOUS
<1>1. \A T \in SUBSET S : IsFiniteSet(T) /\ Cardinality(T) \in Nat
  BY FS_Subset, FS_CardinalityType
<1>2. PICK n \in Sizes : \A m \in Sizes : n <= m
  <2>1. Sizes \in SUBSET Nat /\ Sizes # {}
    BY <1>1
  <2> HIDE DEF Sizes
  <2>. QED
    BY <2>1, LeastNumber
<1>3. PICK T \in Bad : Cardinality(T) = n
  BY <1>2
<1>4. PICK x \in T : TRUE
  BY <1>3
<1> DEFINE rest == T \ {x}
<1>5. IsFiniteSet(rest) /\ Cardinality(rest) = Cardinality(T) - 1
  BY <1>1, <1>3, <1>4, FS_RemoveElement
<1>6. rest \notin Bad
  <2> SUFFICES ASSUME rest \in Bad PROVE FALSE
    OBVIOUS
  <2>1. n <= Cardinality(rest)
    BY <1>2
  <2>2. n \in Nat /\ Cardinality(rest) = n - 1
    BY <1>1, <1>3, <1>5
  <2> HIDE DEF Bad, Sizes, rest
  <2>. QED
    BY <2>1, <2>2
<1>7. CASE rest = {}
  <2>1. \A w \in T : w = x
    BY <1>7
  <2>. QED
    BY <1>3, <1>4, <2>1
<1>8. CASE rest # {}
  <2>1. PICK v \in rest : \A w \in rest : w[2] <= v[2]
    BY <1>3, <1>6, <1>8
  <2>2. x[2] \in Nat /\ v[2] \in Nat /\ \A w \in T : w = x \/ w \in rest
    BY <1>3, <1>4, <2>1
  <2>3. CASE x[2] <= v[2]
    BY <1>3, <2>1, <2>2, <2>3
  <2>4. CASE v[2] <= x[2]
    <3>1. \A w \in rest : w[2] \in Nat
      BY <1>3
    <3>2. \A w \in T : w[2] <= x[2]
      BY <2>1, <2>2, <2>4, <3>1
    <3>. QED
      BY <1>3, <1>4, <3>2
  <2>. QED
    BY <2>2, <2>3, <2>4
<1>. QED
  BY <1>7, <1>8

\* The default release of a branch is one of the branch.
LEMMA DefaultRelease ==
  ASSUME NEW b \in branches
  PROVE  releaseBranch(defaultRelease(b)) = b
<1>1. CASE KmodVersion # None /\ releaseBranch(KmodVersion) = b
  BY <1>1 DEF defaultRelease
<1>2. CASE ~(KmodVersion # None /\ releaseBranch(KmodVersion) = b)
  <2>1. /\ IsFiniteSet(releasesOf(b)) /\ releasesOf(b) # {}
        /\ \A v \in releasesOf(b) : v[2] \in Nat
    BY RoutingAssumption, FS_Subset DEF releasesOf, branches
  <2>2. \E v \in releasesOf(b) : \A w \in releasesOf(b) : w[2] <= v[2]
    BY <2>1, NewestExists
  <2>3. defaultRelease(b) \in releasesOf(b)
    BY <1>2, <2>2 DEF defaultRelease
  <2>. QED
    BY <2>3 DEF releasesOf
<1>. QED
  BY <1>1, <1>2

\* What is known of a package on its way.
RouteInv ==
  /\ item \in Items
  /\ phase = "ruledOut" => ~fileNameAllowed(item)
  /\ phase = "routed" => dirs = Destinations(item)

\* Every step keeps it.
THEOREM RouteInvariance == Spec => []RouteInv
<1>1. Init => RouteInv
  BY DEF Init, RouteInv
<1>2. RouteInv /\ [Next]_routeVars => RouteInv'
  <2> SUFFICES ASSUME RouteInv, [Next]_routeVars PROVE RouteInv'
    OBVIOUS
  <2>1. CASE NotFetched
    BY <2>1 DEF NotFetched, RouteInv, fileNameAllowed, TargetOf
  <2>2. CASE Fetch \/ Skip
    BY <2>2 DEF Fetch, Skip, RouteInv
  <2>3. CASE Route
    BY <2>3 DEF Route, RouteInv, Destinations, DirArches, realArches
  <2>4. CASE UNCHANGED routeVars
    BY <2>4 DEF routeVars, RouteInv, fileNameAllowed, TargetOf,
                Destinations, DirArches, realArches
  <2>. QED
    BY <2>1, <2>2, <2>3, <2>4 DEF Next
<1>. QED
  BY <1>1, <1>2, PTL DEF Spec

\* What is not downloaded would not have been kept: the name and the listing
\* of a package rule out nothing that its metadata would let through, if the
\* name spells the architecture before a target as parse does.
THEOREM NameFilterCorrect == Spec => []NameFilterIsSound
<1>1. RouteInv => NameFilterIsSound
  <2> SUFFICES ASSUME RouteInv, Kept(item),
                      Truthful(item.name.arch, item.arch),
                      Truthful(item.knownArch, item.arch),
                      \/ item.name.target = None \/ item.sourceTarget # None
                      \/ item.name.arch = archOf(item)
               PROVE  fileNameAllowed(item)
    BY DEF NameFilterIsSound, RouteInv
  <2>1. item.format \in SourceFormats(item)
    <3>1. PICK b \in branchesFor(item.format) : Pin(item) \in {None, b}
      BY DEF Kept, packageBranches
    <3>2. b \in branches /\ branchFormat(b) = item.format
      BY DEF branchesFor
    <3>. QED
      BY <3>1, <3>2 DEF SourceFormats, formats
  <2>2. archFilter # {} =>
          item.arch \in archFilter \cup {archAll, archNoarch}
    BY DEF Kept, archOf
  <2>3. archFilter # {} /\ item.knownArch # None
          => item.knownArch \in archFilter \cup {archAll, archNoarch}
    BY <2>2 DEF Truthful
  <2>4. archFilter # {} => item.name.arch \in archFilter \cup {archAll, archNoarch, None}
    BY <2>2 DEF Truthful
  <2>5. targetAllowed(TargetOf(item, item.name.arch), targetFilter)
    <3>1. CASE item.sourceTarget # None \/ item.name.arch = archOf(item)
      BY <3>1 DEF Kept, TargetOf
    <3>2. CASE item.sourceTarget = None /\ item.name.target = None
      BY <3>2 DEF TargetOf, detectTarget, targetAllowed
    <3>. QED
      BY <3>1, <3>2
  <2>. QED
    BY <2>1, <2>3, <2>4, <2>5 DEF fileNameAllowed
<1>. QED
  BY <1>1, RouteInvariance, PTL

-----------------------------------------------------------------------------
(* Whom a routed package is offered to.                                    *)

\* A package of one target and release: in the dirs of that release, or of the
\* default release of each of its branches.
ForTarget(i) ==
  TargetOf(i, archOf(i)) # None /\ (i.kmod \/ sourceRelease(i) # None)

\* The dirs of such a package.
LEMMA TargetDirs ==
  ASSUME NEW i, ForTarget(i), NEW d
  PROVE  d \in Destinations(i) <=>
           \E b \in packageBranches(i) :
             LET in == <<IF sourceRelease(i) # None THEN sourceRelease(i)
                         ELSE defaultRelease(b), TargetOf(i, archOf(i))>>
             IN  d = IF i.kmod /\ i.vermagic # None
                     THEN <<"kmods", in, i.vermagic>> ELSE <<"target", in>>
<1>1. DirArches(i) # {}
  BY DEF DirArches
<1>. QED
  BY <1>1 DEF Destinations, relativeDir, ForTarget

\* The dirs of any other.
LEMMA BranchDirs ==
  ASSUME NEW i, ~ForTarget(i), NEW d
  PROVE  d \in Destinations(i) <=>
           \E b \in packageBranches(i), a \in DirArches(i) : d = <<"branch", b, a>>
BY DEF Destinations, relativeDir, ForTarget

\* Whom a package with a target suits finds it in the dir of its own release
\* and target, and nobody else does.
LEMMA TargetOffered ==
  ASSUME NEW i \in Items, ForTarget(i), dirs = Destinations(i), NEW r \in Routers
  PROVE  dirs \cap FeedsOf(r) # {} <=> Suits(i, r)
<1> DEFINE target  == TargetOf(i, archOf(i))
           branch  == releaseBranch(r.release)
           release == sourceRelease(i)
           at(b)   == IF release # None THEN release ELSE defaultRelease(b)
           in(b)   == <<at(b), target>>
           here    == <<r.release, r.target>>
           own     == <<"branch", branch, r.arch>>
           all     == <<"branch", branch, archAll>>
           exact   == i.kmod /\ i.vermagic # None
           dir(b)  == IF exact THEN <<"kmods", in(b), i.vermagic>> ELSE <<"target", in(b)>>
<1>1. \A d : d \in dirs <=> \E b \in packageBranches(i) : d = dir(b)
  BY TargetDirs
<1>2. \A d : d \in FeedsOf(r) <=> \/ d = IF own \in dirs THEN own ELSE all
                                  \/ d = <<"kmods", here, r.kernel>>
                                  \/ d = <<"target", here>>
  BY DEF FeedsOf
<1>3. \A b : dir(b)[1] \in {"kmods", "target"}
  OBVIOUS
<1>4. \A b : dir(b) \in FeedsOf(r) <=>
               /\ r.release = at(b) /\ r.target = target
               /\ exact => i.vermagic = r.kernel
  <2> SUFFICES ASSUME NEW b
               PROVE  dir(b) \in FeedsOf(r) <=>
                        /\ r.release = at(b) /\ r.target = target
                        /\ exact => i.vermagic = r.kernel
    OBVIOUS
  <2>1. dir(b) # own /\ dir(b) # all
    <3>1. own[1] = "branch" /\ all[1] = "branch"
      OBVIOUS
    <3>. QED
      BY <1>3, <3>1
  <2>2. dir(b) \in FeedsOf(r) <=> \/ dir(b) = <<"kmods", here, r.kernel>>
                                  \/ dir(b) = <<"target", here>>
    BY <1>2, <2>1
  <2>3. CASE exact
    <3>1. dir(b) = <<"kmods", in(b), i.vermagic>>
      BY <2>3
    <3>2. dir(b) # <<"target", here>>
      BY <3>1
    <3>. QED
      BY <2>2, <2>3, <3>1, <3>2
  <2>4. CASE ~exact
    <3>1. dir(b) = <<"target", in(b)>>
      BY <2>4
    <3>2. dir(b) # <<"kmods", here, r.kernel>>
      BY <3>1
    <3>. QED
      BY <2>2, <2>4, <3>1, <3>2
  <2>. QED
    BY <2>3, <2>4
<1>5. dirs \cap FeedsOf(r) # {} <=>
        \E b \in packageBranches(i) : /\ r.release = at(b) /\ r.target = target
                                      /\ exact => i.vermagic = r.kernel
  <2>1. dirs \cap FeedsOf(r) # {} <=> \E d \in dirs : d \in FeedsOf(r)
    OBVIOUS
  <2>2. dirs \cap FeedsOf(r) # {} <=> \E b \in packageBranches(i) : dir(b) \in FeedsOf(r)
    <3> HIDE DEF dir
    <3>. QED
      BY <1>1, <2>1
  <2> HIDE DEF dir, at, exact, target
  <2>. QED
    BY <1>4, <2>2
<1>6. \A b : b \in packageBranches(i) <=>
        b \in branches /\ branchFormat(b) = i.format /\ Pin(i) \in {None, b}
  BY DEF packageBranches, branchesFor
<1>7. Suits(i, r) <=>
        /\ branchFormat(branch) = i.format
        /\ Pin(i) \in {None, branch}
        /\ r.target = target
        /\ r.release \in {release, defaultRelease(branch)}
        /\ release # None => r.release = release
        /\ i.kmod => i.vermagic \in {None, r.kernel}
  BY DEF Suits, ForTarget
<1>8. branch \in branches /\ branch # None /\ r.release # None
  BY RoutingAssumption DEF branches, releaseBranch
<1>9. \A b \in branches : r.release = at(b) =>
        \/ release = None /\ b = branch
        \/ release # None /\ r.release = release
  BY DefaultRelease
<1>10. release # None => Pin(i) = releaseBranch(release)
  BY DEF Pin
<1> HIDE DEF target, release, branch, at, dir, in, here, own, all
<1>11. ASSUME Suits(i, r)
       PROVE  branch \in packageBranches(i) /\ r.release = at(branch)
  <2>1. branch \in packageBranches(i)
    BY <1>6, <1>7, <1>8, <1>11
  <2>2. r.release \in {release, defaultRelease(branch)} /\ (release # None => r.release = release)
    BY <1>7, <1>11
  <2>. QED
    BY <1>8, <2>1, <2>2 DEF at
<1>12. ASSUME NEW b \in packageBranches(i), r.release = at(b), r.target = target,
              exact => i.vermagic = r.kernel
       PROVE  Suits(i, r)
  <2>1. CASE release = None /\ b = branch
    BY <1>6, <1>7, <1>12, <2>1 DEF at
  <2>2. CASE release # None /\ r.release = release
    <3>1. Pin(i) = branch
      BY <1>10, <2>2 DEF branch
    <3>2. b = branch \/ Pin(i) = None
      BY <1>6, <1>12, <3>1
    <3>3. branchFormat(branch) = i.format
      BY <1>6, <1>7, <1>12, <3>1, <3>2, <1>8
    <3>. QED
      BY <1>7, <1>12, <2>2, <3>1, <3>3
  <2>. QED
    BY <1>6, <1>9, <1>12, <2>1, <2>2
<1>. QED
  BY <1>5, <1>7, <1>11, <1>12

\* Whom any other package suits finds it under the router's architecture, or
\* under all/ when there is nothing for that.
LEMMA BranchOffered ==
  ASSUME NEW i \in Items, ~ForTarget(i), dirs = Destinations(i), NEW r \in Routers,
         realArches(i) = {} \/ r.arch \in realArches(i)
  PROVE  dirs \cap FeedsOf(r) # {} <=> Suits(i, r)
<1> DEFINE branch == releaseBranch(r.release)
           own    == <<"branch", branch, r.arch>>
           all    == <<"branch", branch, archAll>>
           here   == <<r.release, r.target>>
<1>1. \A d : d \in dirs <=> \E b \in packageBranches(i), a \in DirArches(i) :
                              d = <<"branch", b, a>>
  BY BranchDirs
<1>2. <<"kmods", here, r.kernel>> \notin dirs /\ <<"target", here>> \notin dirs
  BY <1>1
<1>3. dirs \cap FeedsOf(r) # {} <=> own \in dirs \/ all \in dirs
  BY <1>2 DEF FeedsOf
<1>4. \A a : <<"branch", branch, a>> \in dirs <=>
               branch \in packageBranches(i) /\ a \in DirArches(i)
  BY <1>1
<1>5. branch \in packageBranches(i) <=>
        branchFormat(branch) = i.format /\ Pin(i) \in {None, branch}
  BY RoutingAssumption DEF packageBranches, branchesFor, branches
<1>6. r.arch \in DirArches(i) \/ archAll \in DirArches(i) <=> archOf(i) \in {r.arch, archAll}
  <2>1. r.arch # archAll
    BY RoutingAssumption
  <2>2. CASE archOf(i) = archAll
    BY <2>2 DEF DirArches
  <2>3. CASE archOf(i) # archAll
    BY <2>1, <2>3 DEF DirArches
  <2>. QED
    BY <2>2, <2>3
<1>7. Suits(i, r) <=> /\ branchFormat(branch) = i.format
                      /\ Pin(i) \in {None, branch}
                      /\ archOf(i) \in {r.arch, archAll}
  BY DEF Suits, ForTarget
<1>. QED
  BY <1>3, <1>4, <1>5, <1>6, <1>7

\* A package is offered to exactly the routers it is for: for any releases,
\* architectures, targets, filters and settings of sources.
THEOREM OfferedCorrect == Spec => []OfferedIffSuitable
<1>1. RouteInv => OfferedIffSuitable
  BY TargetOffered, BranchOffered DEF RouteInv, OfferedIffSuitable
<1>. QED
  BY <1>1, RouteInvariance, PTL
=============================================================================
