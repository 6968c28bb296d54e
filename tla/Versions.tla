------------------------------ MODULE Versions ------------------------------
(***************************************************************************)
(* The order of package versions (version.go): Debian's, as opkg has it.   *)
(* A version is a sequence of characters, a character its ASCII code.      *)
(* compareVersion follows the code; Before, at the end, says what order it *)
(* is meant to be.                                                         *)
(***************************************************************************)
EXTENDS Integers, SequencesExt

CONSTANT MaxInt  \* the largest int strconv.Atoi returns

ASSUME MaxIntAssumption == MaxInt \in Nat

isDigit(c) == c \in 48..57
isAlpha(c) == c \in 65..90 \cup 97..122

Colon == 58
Dash  == 45
Plus  == 43
Tilde == 126
End   == -1  \* the end of the string, or a digit, seen from a run of others

Sign(a, b) == IF a < b THEN -1 ELSE IF a > b THEN 1 ELSE 0

\* The weight of a character outside numbers.
TildeIsNothing(c) ==
    CASE c \in {End, Tilde} -> 0
      [] isAlpha(c)         -> c
      [] OTHER              -> c + 256

order(c) ==
    CASE c = End    -> 0
      [] c = Tilde  -> -1
      [] isAlpha(c) -> c
      [] OTHER      -> c + 256

Value(digits) == FoldLeft(LAMBDA n, c : 10 * n + (c - 48), 0, digits)

\* strconv.Atoi, or 0 for what it cannot parse: no digits, other characters,
\* or a number that does not fit.
Atoi(s) ==
    LET signed == s # <<>> /\ s[1] \in {Dash, Plus}
        digits == IF signed THEN Tail(s) ELSE s
        n      == IF signed /\ s[1] = Dash THEN -Value(digits) ELSE Value(digits)
    IN  IF /\ digits # <<>>
           /\ \A i \in DOMAIN digits : isDigit(digits[i])
           /\ n \in (-MaxInt - 1)..MaxInt
        THEN n ELSE 0

\* The parts of a version: the epoch before the first colon, the revision
\* after the last dash of what follows.
splitVersion(v) ==
    LET colon == SelectInSeq(v, LAMBDA c : c = Colon)
        rest  == SubSeq(v, colon + 1, Len(v))
        dash  == SelectLastInSeq(rest, LAMBDA c : c = Dash)
    IN  [epoch    |-> Atoi(SubSeq(v, 1, colon - 1)),
         upstream |-> IF dash = 0 THEN rest ELSE SubSeq(rest, 1, dash - 1),
         revision |-> IF dash = 0 THEN <<>> ELSE SubSeq(rest, dash + 1, Len(rest))]

\* Whether there is a character other than a digit at i, and what it weighs.
isOther(s, i)  == i <= Len(s) /\ ~isDigit(s[i])
weightAt(s, i) == order(IF isOther(s, i) THEN s[i] ELSE End)

\* The first position from i on that is not a digit.
DigitsEnd(s, i) ==
    CHOOSE j \in i..(Len(s) + 1) :
        /\ j <= Len(s) => ~isDigit(s[j])
        /\ \A k \in i..(j - 1) : isDigit(s[k])

\* The run of digits that begins at i.
Digits(s, i) == SubSeq(s, i, DigitsEnd(s, i) - 1)

\* Two parts are compared in turns: a run of other characters, one by one,
\* then a number.
cmpPart(left, right) ==
    LET next(s, i) == IF isOther(s, i) THEN i + 1 ELSE i
        cmp[p \in (1..(Len(left) + 1)) \X (1..(Len(right) + 1))] ==
          LET i == p[1]
              j == p[2]
          IN  IF i > Len(left) /\ j > Len(right) THEN 0
              ELSE IF isOther(left, i) \/ isOther(right, j)
              THEN LET c == Sign(weightAt(left, i), weightAt(right, j))
                   IN  IF c # 0 THEN c ELSE cmp[<<next(left, i), next(right, j)>>]
              ELSE LET c == Sign(Atoi(Digits(left, i)), Atoi(Digits(right, j)))
                   IN  IF c # 0 THEN c
                       ELSE cmp[<<DigitsEnd(left, i), DigitsEnd(right, j)>>]
    IN  cmp[<<1, 1>>]

compareVersion(a, b) ==
    LET x == splitVersion(a)
        y == splitVersion(b)
        upstream == cmpPart(x.upstream, y.upstream)
    IN  IF x.epoch # y.epoch THEN Sign(x.epoch, y.epoch)
        ELSE IF upstream # 0 THEN upstream
        ELSE cmpPart(x.revision, y.revision)

-----------------------------------------------------------------------------
(* The order that this is meant to be.                                     *)

\* The first position from i on that is a digit or the end.
OthersEnd(s, i) ==
    CHOOSE j \in i..(Len(s) + 1) :
        /\ ~isOther(s, j)
        /\ \A k \in i..(j - 1) : isOther(s, k)

\* Numbers are compared by their value.
Key(s) ==
    LET from[i \in 1..(Len(s) + 1)] ==
          IF i > Len(s) THEN <<>>
          ELSE LET j == OthersEnd(s, i)
               IN  [k \in 1..(j - i) |->
                      LET c == s[i + k - 1]
                      IN  CASE c = Tilde -> -1 [] isAlpha(c) -> c
                            [] OTHER -> 256 + c]
                   \o <<0, Value(Digits(s, j))>> \o from[DigitsEnd(s, j)]
    IN  from[1]

\* A version as three sequences of numbers.
Keys(v) == LET x == splitVersion(v)
           IN  <<<<x.epoch>>, Key(x.upstream), Key(x.revision)>>

\* Sequences of integers compare as if they went on with zeros for ever.
At(k, i)       == IF i \in 1..Len(k) THEN k[i] ELSE 0
Same(k, l)     == \A i \in 1..(Len(k) + Len(l)) : At(k, i) = At(l, i)
Precedes(k, l) ==
    \E i \in 1..(Len(k) + Len(l)) :
        /\ At(k, i) < At(l, i)
        /\ \A j \in 1..(i - 1) : At(k, j) = At(l, j)

\* The first of the three that differs decides.
Before(x, y) ==
    \E n \in 1..3 : /\ Precedes(x[n], y[n])
                    /\ \A m \in 1..(n - 1) : Same(x[m], y[m])

Overflows(v) ==
    \E i, j \in DOMAIN v :
        /\ i <= j /\ \A k \in i..j : isDigit(v[k])
        /\ Value(SubSeq(v, i, j)) > MaxInt
-----------------------------------------------------------------------------
VARIABLE versions  \* the two that are being compared; <<>> when none are

\* compareVersion orders versions as its documentation says: numbers by their
\* value, "~" before everything and even the end, letters before the rest, an
\* epoch above all and the revision last.  That is so as long as no number
\* overflows; one that does counts as 0.
ComparesAsDocumented ==
    versions # <<>> =>
        LET a == versions[1]
            b == versions[2]
        IN  ~Overflows(a) /\ ~Overflows(b) =>
                compareVersion(a, b) = IF Before(Keys(a), Keys(b)) THEN -1
                                       ELSE IF Before(Keys(b), Keys(a)) THEN 1 ELSE 0
=============================================================================
