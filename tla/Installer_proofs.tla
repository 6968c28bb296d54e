-------------------------- MODULE Installer_proofs --------------------------
(***************************************************************************)
(* What add.sh does to a router's feed list, however often it runs, is     *)
(* interrupted, and whatever the user adds in between: lines of the user   *)
(* stay, what a run leaves is one block in the order of its script, and a  *)
(* run that nothing disturbs lists what the server has for the router.     *)
(***************************************************************************)
EXTENDS Installer, FiniteSetTheorems, TLAPS

\* The kinds of lines there are.
LEMMA LineFacts ==
    /\ Begin \in Lines /\ End \in Lines
    /\ Begin.kind = "begin" /\ End.kind = "end"
    /\ \A x \in UserLines : User(x) \in Lines
    /\ \A x : User(x).kind = "user" /\ User(x).of = x
    /\ \A s \in Servers : \A dir \in s.dirs : Src(dir) \in Lines
    /\ \A dir : Src(dir).kind = "feed" /\ Src(dir).of = dir
    /\ \A l \in Lines :
         /\ l.kind \in {"begin", "end", "feed", "old", "user"}
         /\ l.kind = "begin" => l = Begin
         /\ l.kind = "end" => l = End
<1>1. Begin.kind = "begin" /\ End.kind = "end"
  BY DEF Begin, End
<1>2. \A x : User(x).kind = "user" /\ User(x).of = x
  BY DEF User
<1>3. \A dir : Src(dir).kind = "feed" /\ Src(dir).of = dir
  BY DEF Src
<1>4. Begin \in Lines /\ End \in Lines
  BY DEF Lines
<1>5. \A x \in UserLines : User(x) \in Lines
  BY Zenon DEF Lines
<1>6. \A s \in Servers : \A dir \in s.dirs : Src(dir) \in Lines
  BY Zenon DEF Lines
<1>7. ASSUME NEW l \in Lines
      PROVE  \/ l = Begin \/ l = End
             \/ \E x : l = Src(x)
             \/ \E x : l = User(x)
             \/ l.kind \in {"old", "user"}
  BY InstallerAssumption, Zenon DEF Lines
<1>. QED
  BY <1>1, <1>2, <1>3, <1>4, <1>5, <1>6, <1>7

-----------------------------------------------------------------------------
(* Lists that lines are taken from or added to.                            *)

\* Removing lines keeps the others, and adds none.
LEMMA WithoutFacts ==
    ASSUME NEW T, NEW c \in Seq(T), NEW gone
    PROVE  /\ Without(c, gone) \in Seq(T)
           /\ \A k \in DOMAIN Without(c, gone) :
                \E i \in DOMAIN c \ gone : Without(c, gone)[k] = c[i]
           /\ \A i \in DOMAIN c \ gone :
                \E k \in DOMAIN Without(c, gone) : Without(c, gone)[k] = c[i]
<1> DEFINE stay == DOMAIN c \ gone
           upto(i) == {j \in stay : j <= i}
           n == Cardinality(stay)
           rank == [i \in stay |-> Cardinality(upto(i))]
           line(k) == CHOOSE i \in stay : Cardinality(upto(i)) = k
<1>1. stay \subseteq 1..Len(c) /\ Len(c) \in Nat
  OBVIOUS
<1>. HIDE DEF stay
<1>2. IsFiniteSet(stay) /\ n \in Nat
  <2>1. IsFiniteSet(1..Len(c))
    BY <1>1, FS_Interval
  <2>2. IsFiniteSet(stay)
    BY <1>1, <2>1, FS_Subset
  <2>. QED
    BY <2>2, FS_CardinalityType
<1>3. ASSUME NEW i \in stay
      PROVE  /\ IsFiniteSet(upto(i)) /\ Cardinality(upto(i)) \in 1..n
             /\ i \in upto(i) /\ upto(i) \subseteq stay
  <2>1. upto(i) \subseteq stay /\ i \in upto(i)
    BY <1>1
  <2>2. IsFiniteSet(upto(i)) /\ Cardinality(upto(i)) <= n
    BY <1>2, <2>1, FS_Subset
  <2>3. Cardinality(upto(i)) \in Nat /\ Cardinality(upto(i)) # 0
    BY <2>1, <2>2, FS_CardinalityType, FS_EmptySet
  <2>. QED
    BY <1>2, <2>1, <2>2, <2>3
<1>4. ASSUME NEW i \in stay, NEW j \in stay, i < j
      PROVE  Cardinality(upto(i)) # Cardinality(upto(j))
  <2>0. \A m \in stay : m \in Int
    BY <1>1
  <2>1. upto(i) \subseteq upto(j)
    BY <1>4, <2>0
  <2>2. j \notin upto(i) /\ j \in upto(j)
    BY <1>1, <1>4
  <2>. QED
    BY <1>3, <2>1, <2>2, FS_Subset
<1>5. \A i, j \in stay : rank[i] = rank[j] => i = j
  <2> SUFFICES ASSUME NEW i \in stay, NEW j \in stay, i # j
               PROVE  Cardinality(upto(i)) # Cardinality(upto(j))
    OBVIOUS
  <2>1. i < j \/ j < i
    BY <1>1
  <2>. QED
    BY <1>4, <2>1
<1>6. rank \in [stay -> 1..n]
  BY <1>3
<1>7. rank \in Injection(stay, 1..n)
  <2> HIDE DEF rank
  <2>. QED
    BY <1>5, <1>6 DEF Injection, IsInjective
<1>8. IsFiniteSet(1..n) /\ Cardinality(1..n) = n
  BY <1>2, FS_Interval
<1>9. rank \in Surjection(stay, 1..n)
  <2> HIDE DEF rank
  <2>. QED
    BY <1>7, <1>8, FS_Injection
<1>10. ASSUME NEW k \in 1..n
       PROVE  line(k) \in stay
  <2>1. PICK i \in stay : rank[i] = k
    BY <1>9 DEF Surjection
  <2>2. Cardinality(upto(i)) = k
    BY <2>1
  <2>. QED
    BY <2>2
<1>11. \A i \in stay : line(Cardinality(upto(i))) = i
  <2> SUFFICES ASSUME NEW i \in stay PROVE line(Cardinality(upto(i))) = i
    OBVIOUS
  <2>1. /\ line(Cardinality(upto(i))) \in stay
        /\ Cardinality(upto(line(Cardinality(upto(i))))) = Cardinality(upto(i))
    OBVIOUS
  <2>. QED
    BY <1>5, <2>1
<1>12. Without(c, gone) = [k \in 1..n |-> c[line(k)]]
  BY DEF Without, stay
<1>13. \A i \in stay : c[i] \in T
  BY <1>1
<1>. HIDE DEF line
<1>14. Without(c, gone) \in [1..n -> T]
  BY <1>10, <1>12, <1>13
<1>15. Without(c, gone) \in Seq(T)
  BY <1>2, <1>14
<1>16. \A k \in 1..n : line(k) \in stay /\ Without(c, gone)[k] = c[line(k)]
  BY <1>10, <1>12
<1>17. \A i \in stay : Cardinality(upto(i)) \in 1..n
                      /\ Without(c, gone)[Cardinality(upto(i))] = c[i]
  BY <1>3, <1>11, <1>16
<1>18. DOMAIN Without(c, gone) = 1..n
  BY <1>12
<1>. HIDE DEF n, upto
<1>. QED
  BY <1>15, <1>16, <1>17, <1>18 DEF stay

\* A line that is added is the last one.
LEMMA AppendFacts ==
    ASSUME NEW T, NEW c \in Seq(T), NEW l \in T
    PROVE  /\ Append(c, l) \in Seq(T)
           /\ DOMAIN Append(c, l) = 1..(Len(c) + 1) /\ DOMAIN c = 1..Len(c)
           /\ Len(c) \in Nat /\ Len(Append(c, l)) = Len(c) + 1
           /\ Append(c, l)[Len(c) + 1] = l
           /\ \A i \in 1..Len(c) : Append(c, l)[i] = c[i]
OBVIOUS

\* The lines of c are those of e, from the first or from the second line on, and
\* there is one other line.
Shifted(c, e, d, new) ==
    /\ c \in Seq(Lines) /\ e \in Seq(Lines) /\ d \in {0, 1}
    /\ DOMAIN c = 1..Len(c) /\ Len(c) \in Nat
    /\ DOMAIN e = 1..(Len(c) + 1) /\ Len(e) = Len(c) + 1
    /\ \A i \in 1..Len(c) : e[i + d] = c[i]
    /\ e[IF d = 1 THEN 1 ELSE Len(c) + 1] = new

\* So it is after a line was added below or above.
LEMMA AddedFacts ==
    ASSUME NEW c \in Seq(Lines), NEW l \in Lines
    PROVE  Shifted(c, Append(c, l), 0, l) /\ Shifted(c, <<l>> \o c, 1, l)
<1>1. Shifted(c, Append(c, l), 0, l)
  BY DEF Shifted
<1>2. Shifted(c, <<l>> \o c, 1, l)
  <2>1. /\ <<l>> \o c \in Seq(Lines) /\ Len(<<l>> \o c) = Len(c) + 1 /\ Len(c) \in Nat
        /\ (<<l>> \o c)[1] = l
    OBVIOUS
  <2>2. \A i \in 1..Len(c) : (<<l>> \o c)[i + 1] = c[i]
    OBVIOUS
  <2>3. DOMAIN (<<l>> \o c) = 1..(Len(c) + 1)
    OBVIOUS
  <2>. QED
    BY <2>1, <2>2, <2>3 DEF Shifted
<1>. QED
  BY <1>1, <1>2

\* Lines stay in or out of blocks when others are added that open none.
LEMMA SameBlock ==
    ASSUME NEW c, NEW e, NEW d, NEW l, Shifted(c, e, d, l),
           d = 1 => l.kind # "begin", NEW i \in 1..Len(c)
    PROVE  InBlock(e, i + d) <=> InBlock(c, i)
<1>. SUFFICES ASSUME NEW k, k = i + d PROVE InBlock(e, k) <=> InBlock(c, i)
  OBVIOUS
<1>0. i \in Int /\ d \in {0, 1} /\ k \in Int /\ Len(c) \in Nat
  BY DEF Shifted
<1>1. ASSUME InBlock(c, i) PROVE InBlock(e, k)
  <2>1. PICK b \in 1..i : c[b].kind = "begin" /\ \A j \in b..(i - 1) : c[j].kind # "end"
    BY <1>1 DEF InBlock
  <2>2. e[b + d].kind = "begin" /\ b + d \in 1..k
    BY <1>0, <2>1 DEF Shifted
  <2>3. ASSUME NEW j \in (b + d)..(k - 1) PROVE e[j].kind # "end"
    <3>1. j - d \in b..(i - 1) /\ j - d \in 1..Len(c) /\ (j - d) + d = j
      BY <1>0
    <3>. QED
      BY <2>1, <3>1 DEF Shifted
  <2>. QED
    BY <2>2, <2>3 DEF InBlock
<1>2. ASSUME InBlock(e, k) PROVE InBlock(c, i)
  <2>1. PICK b \in 1..k : e[b].kind = "begin" /\ \A j \in b..(k - 1) : e[j].kind # "end"
    BY <1>2 DEF InBlock
  <2>2. b - d \in 1..i /\ (b - d) + d = b
    BY <1>0, <2>1 DEF Shifted
  <2>3. c[b - d].kind = "begin"
    BY <1>0, <2>1, <2>2 DEF Shifted
  <2>4. ASSUME NEW j \in (b - d)..(i - 1) PROVE c[j].kind # "end"
    <3>1. j + d \in b..(k - 1) /\ j \in 1..Len(c)
      BY <1>0, <2>2
    <3>. QED
      BY <2>1, <3>1 DEF Shifted
  <2>. QED
    BY <2>2, <2>3, <2>4 DEF InBlock
<1>. QED
  BY <1>1, <1>2

-----------------------------------------------------------------------------
(* What a script asks for.                                                 *)

\* The script is one that was generated.
ScriptOK ==
    /\ script.release \in Releases
    /\ script.feeds \in Seq(Range(script.feeds)) /\ IsInjective(script.feeds)
    /\ script.key \in Keys \cup {None}

\* Every script is generated as one that is right.
LEMMA ScriptFacts ==
    ASSUME server \in Servers, NEW r \in Releases, script' = Script(r)
    PROVE  ScriptOK' /\ script'.kernel = kernel /\ script'.release = r
           /\ script'.key = server.key /\ script'.feeds = server.feeds[r[1]]
BY InstallerAssumption DEF Script, ScriptOK

Feeds == Len(script.feeds)

\* The last place is that of the release's target packages.
Places == IF script.kernel = None THEN Feeds + 1 ELSE Feeds + 2

\* A sequence is one of what is in it.
LEMMA OwnRange ==
    ASSUME NEW T, NEW s \in Seq(T)
    PROVE  s \in Seq(Range(s)) /\ Range(s) \subseteq T
<1>1. s \in [1..Len(s) -> Range(s)] /\ Len(s) \in Nat
  BY DEF Range
<1>. QED
  BY <1>1 DEF Range

\* The dirs of each place.
LEMMA WantedFacts ==
    ASSUME ScriptOK
    PROVE  LET r == script.release
               w == Wanted(script)
           IN  /\ Feeds \in Nat /\ Len(w) = Places /\ DOMAIN w = 1..Places
               /\ w \in Seq(Range(w))
               /\ \A i \in 1..Feeds :
                    w[i] = <<ArchDir(r[1], script.feeds[i]), AllDir(r[1], script.feeds[i])>>
               /\ script.kernel # None => w[Feeds + 1] = <<KmodsDir(r, script.kernel)>>
               /\ w[Places] = <<TargetsDir(r)>>
<1> DEFINE r == script.release
           pair(f) == <<ArchDir(r[1], f), AllDir(r[1], f)>>
           kmods == <<KmodsDir(r, script.kernel)>>
           targets == <<TargetsDir(r)>>
           T == {pair(f) : f \in Range(script.feeds)} \cup {kmods, targets}
           p == [i \in DOMAIN script.feeds |-> pair(script.feeds[i])]
           q == IF script.kernel = None THEN <<>> ELSE <<kmods>>
<1>1. script.feeds \in Seq(Range(script.feeds))
  BY DEF ScriptOK
<1>2. Feeds \in Nat /\ DOMAIN script.feeds = 1..Feeds
  BY <1>1 DEF Feeds
<1>3. \A i \in 1..Feeds : script.feeds[i] \in Range(script.feeds)
  BY <1>2 DEF Range
<1>4. Wanted(script) = p \o q \o <<targets>>
  BY DEF Wanted
<1>. HIDE DEF pair, kmods, targets
<1>5. p \in [1..Feeds -> T]
  BY <1>2, <1>3
<1>6. p \in Seq(T) /\ Len(p) = Feeds
  BY <1>2, <1>5
<1>7. q \in Seq(T) /\ targets \in T
  <2>1. kmods \in T /\ targets \in T
    OBVIOUS
  <2>. HIDE DEF T
  <2>. QED
    BY <2>1
<1>8. Len(q) = Places - 1 - Feeds /\ Places \in Nat
  BY <1>2 DEF Places
<1>9. \A i \in 1..Feeds : p[i] = pair(script.feeds[i])
  BY <1>2
<1>10. script.kernel # None => q[1] = kmods /\ Len(q) = 1 /\ Places = Feeds + 2
  BY DEF Places
<1>. HIDE DEF p, q, T
<1> DEFINE all == p \o q \o <<targets>>
<1>11. /\ Len(all) = Len(p) + Len(q) + 1 /\ DOMAIN all = 1..(Len(p) + Len(q) + 1)
       /\ all[Len(p) + Len(q) + 1] = targets
       /\ \A i \in 1..Len(p) : all[i] = p[i]
       /\ Len(q) > 0 => all[Len(p) + 1] = q[1]
  <2>1. ASSUME NEW a \in Seq(T), NEW b \in Seq(T), NEW x \in T
        PROVE  LET s == a \o b \o <<x>>
               IN  /\ Len(s) = Len(a) + Len(b) + 1 /\ DOMAIN s = 1..(Len(a) + Len(b) + 1)
                   /\ s[Len(a) + Len(b) + 1] = x
                   /\ \A i \in 1..Len(a) : s[i] = a[i]
                   /\ Len(b) > 0 => s[Len(a) + 1] = b[1]
    OBVIOUS
  <2>. QED
    BY <1>6, <1>7, <2>1, Zenon
<1>111. all \in Seq(Range(all))
  <2>1. ASSUME NEW a \in Seq(T), NEW b \in Seq(T), NEW x \in T
        PROVE  a \o b \o <<x>> \in Seq(T)
    OBVIOUS
  <2>2. all \in Seq(T)
    BY <1>6, <1>7, <2>1, Zenon
  <2>. QED
    BY <2>2, OwnRange, Zenon
<1>. HIDE DEF all
<1>12. /\ Len(all) = Places /\ DOMAIN all = 1..Places /\ all[Places] = targets
       /\ \A i \in 1..Feeds : all[i] = p[i]
       /\ script.kernel # None => all[Feeds + 1] = q[1]
  BY <1>2, <1>6, <1>8, <1>10, <1>11
<1>13. Wanted(script) = all
  BY <1>4 DEF all
<1>. QED
  BY <1>2, <1>9, <1>10, <1>111, <1>12, <1>13 DEF pair, kmods, targets

\* What a sequence of one has in it.
LEMMA RangeOfOne == ASSUME NEW a PROVE Range(<<a>>) = {a} /\ Len(<<a>>) = 1
BY DEF Range

\* And of two.
LEMMA RangeOfTwo ==
    ASSUME NEW a, NEW b
    PROVE  Range(<<a, b>>) = {a, b} /\ Len(<<a, b>>) = 2 /\ Tail(<<a, b>>) = <<b>>
BY DEF Range

\* A dir has one place.
LEMMA PlacedOnce ==
    ASSUME ScriptOK, NEW i \in DOMAIN Wanted(script), NEW j \in DOMAIN Wanted(script),
           NEW dir \in Range(Wanted(script)[i]), dir \in Range(Wanted(script)[j])
    PROVE  i = j
<1> DEFINE r == script.release
           w == Wanted(script)
<1>1. ASSUME NEW k \in DOMAIN w, dir \in Range(w[k])
      PROVE  \/ /\ k \in 1..Feeds
                /\ dir \in {ArchDir(r[1], script.feeds[k]), AllDir(r[1], script.feeds[k])}
             \/ /\ script.kernel # None /\ k = Feeds + 1 /\ dir = KmodsDir(r, script.kernel)
             \/ /\ k = Places /\ dir = TargetsDir(r)
  <2>1. k \in 1..Places /\ Feeds \in Nat
    BY <1>1, WantedFacts
  <2>2. CASE k \in 1..Feeds
    BY <1>1, <2>2, WantedFacts, RangeOfTwo
  <2>3. CASE k = Feeds + 1 /\ script.kernel # None
    BY <1>1, <2>3, WantedFacts, RangeOfOne
  <2>4. CASE k = Places
    BY <1>1, <2>4, WantedFacts, RangeOfOne
  <2>. QED
    BY <2>1, <2>2, <2>3, <2>4 DEF Places
<1>2. \A k, l \in 1..Feeds : script.feeds[k] = script.feeds[l] => k = l
  BY WantedFacts DEF ScriptOK, IsInjective, Feeds
<1>3. \A f, g : ArchDir(r[1], f) # AllDir(r[1], g)
  BY DEF ArchDir, AllDir
<1>4. \A f, g : \/ f = g
                \/ /\ ArchDir(r[1], f) # ArchDir(r[1], g)
                   /\ AllDir(r[1], f) # AllDir(r[1], g)
  BY DEF ArchDir, AllDir
<1>5. \A f : /\ KmodsDir(r, script.kernel) \notin {ArchDir(r[1], f), AllDir(r[1], f)}
             /\ TargetsDir(r) \notin {ArchDir(r[1], f), AllDir(r[1], f)}
  BY DEF KmodsDir, TargetsDir, ArchDir, AllDir
<1>6. KmodsDir(r, script.kernel) # TargetsDir(r)
  BY DEF KmodsDir, TargetsDir
<1>. HIDE DEF r, w
<1>. QED
  BY <1>1, <1>2, <1>3, <1>4, <1>5, <1>6 DEF w

-----------------------------------------------------------------------------
(* The lines of the list.                                                  *)

\* What was added outside of a block is there and still outside; the script's
\* lines are inside, but for what old versions wrote for opkg; and the block
\* that is being written is open.
LinesInv ==
    /\ \A x \in kept : \E i \in 1..Len(conf) : conf[i] = User(x) /\ ~InBlock(conf, i)
    /\ \A i \in 1..Len(conf) : conf[i].kind \in {"end", "feed"} => InBlock(conf, i)
    /\ format = "apk" => \A i \in 1..Len(conf) : conf[i].kind # "old"
    /\ pc = "probe" =>
         \E b \in 1..Len(conf) : /\ conf[b].kind = "begin"
                                 /\ \A j \in b..Len(conf) : conf[j].kind # "end"

\* The steps that leave the list alone.
Elsewhere ==
    \/ Rebuild \/ Upgrade \/ Interrupt \/ Start \/ InstallKey \/ NoKey
    \/ RemoveFails \/ NoFeed \/ ProbeFails \/ Update \/ UpdateFails
    \/ UNCHANGED installVars

\* They leave the list and what is known of it.
LEMMA ElsewhereFacts ==
    ASSUME Elsewhere
    PROVE  UNCHANGED <<conf, kept, format>> /\ (pc' = "probe" => pc = "probe")
<1>1. CASE Rebuild \/ Upgrade \/ Interrupt
  BY <1>1 DEF Rebuild, Upgrade, Interrupt, Change, Stopped, routerVars
<1>2. CASE Start \/ InstallKey \/ NoKey
  BY <1>2 DEF Start, InstallKey, NoKey, routerVars
<1>3. CASE RemoveFails \/ NoFeed \/ ProbeFails
  BY <1>3 DEF RemoveFails, NoFeed, ProbeFails, routerVars
<1>4. CASE Update \/ UpdateFails
  BY <1>4 DEF Update, UpdateFails, Stopped, routerVars
<1>5. CASE UNCHANGED installVars
  BY <1>5 DEF installVars, routerVars, scriptVars
<1>. QED
  BY <1>1, <1>2, <1>3, <1>4, <1>5 DEF Elsewhere

\* What the user adds goes above all, outside of every block, or below.
LEMMA AddUserLineFacts ==
    ASSUME conf \in Seq(Lines), AddUserLine
    PROVE  /\ UNCHANGED <<format, server, kernel, keys, scriptVars, changes, faults>>
           /\ \E x \in UserLines, d \in {0, 1} :
                /\ Shifted(conf, conf', d, User(x))
                /\ kept' \in {kept, kept \cup {x}}
                /\ kept' # kept /\ d = 0 => ~InBlock(conf', Len(conf'))
<1>1. PICK x \in UserLines :
         \/ /\ conf' = <<User(x)>> \o conf
            /\ kept' = kept \cup {x}
            /\ UNCHANGED <<format, server, kernel, keys, scriptVars, changes, faults>>
         \/ /\ conf' = Append(conf, User(x))
            /\ kept' = IF InBlock(conf', Len(conf')) THEN kept ELSE kept \cup {x}
            /\ UNCHANGED <<format, server, kernel, keys, scriptVars, changes, faults>>
  BY DEF AddUserLine
<1>2. User(x) \in Lines
  BY LineFacts
<1>3. CASE conf' = <<User(x)>> \o conf /\ kept' = kept \cup {x}
  <2>1. Shifted(conf, conf', 1, User(x))
    BY <1>2, <1>3, AddedFacts
  <2>. QED
    BY <1>1, <1>3, <2>1
<1>4. CASE /\ conf' = Append(conf, User(x))
           /\ kept' = IF InBlock(conf', Len(conf')) THEN kept ELSE kept \cup {x}
  <2>1. Shifted(conf, conf', 0, User(x))
    BY <1>2, <1>4, AddedFacts
  <2>. QED
    BY <1>1, <1>4, <2>1
<1>. QED
  BY <1>1, <1>3, <1>4

\* Only lines of the user are left outside of blocks.
LEMMA RemoveFacts ==
    ASSUME conf \in Seq(Lines), LinesInv, RemoveBlock, format \in {"ipk", "apk"}
    PROVE  /\ conf' \in Seq(Lines)
           /\ \A k \in 1..Len(conf') : conf'[k].kind = "user"
           /\ \A i \in 1..Len(conf) : conf[i].kind = "user" /\ ~InBlock(conf, i) =>
                \E k \in 1..Len(conf') : conf'[k] = conf[i]
<1>1. conf' = Without(conf, Removed(conf))
  BY DEF RemoveBlock
<1>2. /\ conf' \in Seq(Lines)
      /\ \A k \in DOMAIN conf' : \E i \in DOMAIN conf \ Removed(conf) : conf'[k] = conf[i]
      /\ \A i \in DOMAIN conf \ Removed(conf) : \E k \in DOMAIN conf' : conf'[k] = conf[i]
  BY <1>1, WithoutFacts
<1>3. DOMAIN conf = 1..Len(conf) /\ DOMAIN conf' = 1..Len(conf')
      /\ \A i \in 1..Len(conf) : conf[i] \in Lines
  BY <1>2
<1>4. ASSUME NEW i \in DOMAIN conf \ Removed(conf) PROVE conf[i].kind = "user"
  <2>1. /\ ~InBlock(conf, i)
        /\ format = "ipk" => conf[i].kind \notin {"begin", "end", "old"}
    BY <1>4 DEF Removed
  <2>2. conf[i].kind # "begin"
    <3>1. conf[i].kind = "begin" => InBlock(conf, i)
      BY <1>3 DEF InBlock
    <3>. QED
      BY <2>1, <3>1
  <2>3. conf[i].kind \notin {"end", "feed"}
    BY <1>3, <2>1 DEF LinesInv
  <2>4. conf[i].kind # "old"
    BY <1>3, <2>1 DEF LinesInv
  <2>. QED
    BY <1>3, <2>2, <2>3, <2>4, LineFacts
<1>5. ASSUME NEW i \in 1..Len(conf), conf[i].kind = "user", ~InBlock(conf, i)
      PROVE  \E k \in 1..Len(conf') : conf'[k] = conf[i]
  <2>1. i \in DOMAIN conf \ Removed(conf)
    BY <1>3, <1>5 DEF Removed
  <2>. QED
    BY <1>2, <1>3, <2>1
<1>6. ASSUME NEW k \in 1..Len(conf') PROVE conf'[k].kind = "user"
  <2>1. PICK i \in DOMAIN conf \ Removed(conf) : conf'[k] = conf[i]
    BY <1>2, <1>3
  <2>. QED
    BY <1>4, <2>1
<1>. QED
  BY <1>2, <1>5, <1>6

\* Where no block is opened there is none.
LEMMA NoBlock ==
    ASSUME NEW c, NEW i, \A k \in 1..i : c[k].kind # "begin" PROVE ~InBlock(c, i)
BY DEF InBlock

\* The lines that the script writes.
Writes ==
    \/ BeginBlock \/ AddFeed \/ EndBlock

\* Each writes its line at the end.
LEMMA WritesFacts ==
    ASSUME conf \in Seq(Lines), server \in Servers, Writes
    PROVE  /\ UNCHANGED <<kept, format, server, kernel, keys, script, quiet, removed, bounds>>
           /\ \/ BeginBlock /\ Shifted(conf, conf', 0, Begin) /\ pc = "begin" /\ pc' = "probe"
              \/ /\ AddFeed /\ Shifted(conf, conf', 0, Src(Head(Head(todo))))
                 /\ Head(Head(todo)) \in server.dirs /\ pc = "probe" /\ pc' = "probe"
              \/ EndBlock /\ Shifted(conf, conf', 0, End) /\ pc = "probe" /\ pc' = "update"
<1>1. CASE BeginBlock
  BY <1>1, LineFacts, AddedFacts DEF BeginBlock
<1>2. CASE AddFeed
  <2>1. Src(Head(Head(todo))) \in Lines
    BY <1>2, LineFacts DEF AddFeed
  <2>. QED
    BY <1>2, <2>1, AddedFacts DEF AddFeed
<1>3. CASE EndBlock
  BY <1>3, LineFacts, AddedFacts DEF EndBlock
<1>. QED
  BY <1>1, <1>2, <1>3 DEF Writes

\* Every step keeps what is said of the lines.
LEMMA LinesStep ==
    ASSUME TypeOK, LinesInv, [Next]_installVars PROVE LinesInv'
<1>1. CASE Elsewhere
  BY <1>1, ElsewhereFacts DEF LinesInv
<1>2. CASE AddUserLine
  <2>1. PICK x \in UserLines, d \in {0, 1} :
           /\ Shifted(conf, conf', d, User(x))
           /\ kept' \in {kept, kept \cup {x}}
           /\ kept' # kept /\ d = 0 => ~InBlock(conf', Len(conf'))
    BY <1>2, AddUserLineFacts DEF TypeOK
  <2>2. UNCHANGED <<format, pc>>
    BY <1>2, AddUserLineFacts DEF TypeOK, scriptVars
  <2>3. \A i \in 1..Len(conf) : /\ i + d \in 1..Len(conf') /\ conf'[i + d] = conf[i]
                                /\ InBlock(conf', i + d) <=> InBlock(conf, i)
    <3> SUFFICES ASSUME NEW i \in 1..Len(conf)
                 PROVE  /\ i + d \in 1..Len(conf') /\ conf'[i + d] = conf[i]
                        /\ InBlock(conf', i + d) <=> InBlock(conf, i)
      OBVIOUS
    <3>1. i + d \in 1..Len(conf') /\ conf'[i + d] = conf[i]
      BY <2>1 DEF Shifted
    <3>2. User(x).kind # "begin"
      BY LineFacts
    <3>3. InBlock(conf', i + d) <=> InBlock(conf, i)
      BY <2>1, <3>2, SameBlock
    <3>. QED
      BY <3>1, <3>3
  <2>4. PICK n \in 1..Len(conf') :
           /\ conf'[n] = User(x) /\ n = IF d = 1 THEN 1 ELSE Len(conf')
           /\ \A k \in 1..Len(conf') : k = n \/ \E i \in 1..Len(conf) : k = i + d
    <3>1. CASE d = 1
      <4>1. \A k \in 1..Len(conf') : k = 1 \/ (k - 1 \in 1..Len(conf) /\ k = (k - 1) + d)
        BY <2>1, <3>1 DEF Shifted
      <4>. QED
        BY <2>1, <3>1, <4>1 DEF Shifted
    <3>2. CASE d = 0
      <4>1. \A k \in 1..Len(conf') : k = Len(conf') \/ (k \in 1..Len(conf) /\ k = k + d)
        BY <2>1, <3>2 DEF Shifted
      <4>. QED
        BY <2>1, <3>2, <4>1 DEF Shifted
    <3>. QED
      BY <3>1, <3>2
  <2>5. ASSUME NEW y \in kept'
        PROVE  \E k \in 1..Len(conf') : conf'[k] = User(y) /\ ~InBlock(conf', k)
    <3>1. CASE y \in kept
      BY <2>3, <3>1 DEF LinesInv
    <3>2. CASE y = x /\ kept' # kept
      <4>1. d = 1 => ~InBlock(conf', 1)
        BY <2>4, LineFacts DEF InBlock
      <4>. QED
        BY <2>1, <2>4, <3>2, <4>1
    <3>3. y \notin kept => y = x /\ kept' # kept
      BY <2>1, <2>5
    <3>. QED
      BY <3>1, <3>2, <3>3
  <2>6. \A k \in 1..Len(conf') : conf'[k].kind \in {"end", "feed"} => InBlock(conf', k)
    <3> SUFFICES ASSUME NEW k \in 1..Len(conf'), conf'[k].kind \in {"end", "feed"}
                 PROVE  InBlock(conf', k)
      OBVIOUS
    <3>1. k # n
      BY <2>4, LineFacts
    <3>2. PICK i \in 1..Len(conf) : k = i + d
      BY <2>4, <3>1
    <3>3. InBlock(conf, i)
      BY <2>3, <3>2 DEF LinesInv
    <3>4. InBlock(conf', i + d)
      BY <2>3, <3>3
    <3>. QED
      BY <3>2, <3>4, Zenon
  <2>7. format' = "apk" => \A k \in 1..Len(conf') : conf'[k].kind # "old"
    <3> SUFFICES ASSUME format' = "apk", NEW k \in 1..Len(conf')
                 PROVE  conf'[k].kind # "old"
      OBVIOUS
    <3>1. CASE k = n
      BY <2>4, <3>1, LineFacts
    <3>2. CASE k # n
      <4>1. PICK i \in 1..Len(conf) : k = i + d
        BY <2>4, <3>2
      <4>2. conf[i].kind # "old"
        BY <2>2 DEF LinesInv
      <4>. QED
        BY <2>3, <4>1, <4>2
    <3>. QED
      BY <3>1, <3>2
  <2>8. ASSUME pc' = "probe"
        PROVE  \E b \in 1..Len(conf') : /\ conf'[b].kind = "begin"
                                        /\ \A j \in b..Len(conf') : conf'[j].kind # "end"
    <3>1. PICK b \in 1..Len(conf) : /\ conf[b].kind = "begin"
                                    /\ \A j \in b..Len(conf) : conf[j].kind # "end"
      BY <2>2, <2>8 DEF LinesInv
    <3>2. b + d \in 1..Len(conf') /\ conf'[b + d].kind = "begin"
      BY <2>3, <3>1
    <3>3. ASSUME NEW j \in (b + d)..Len(conf') PROVE conf'[j].kind # "end"
      <4>1. j \in 1..Len(conf')
        BY <2>1, <3>1
      <4>2. CASE j = n
        BY <2>4, <4>2, LineFacts
      <4>3. CASE j # n
        <5>1. PICK i \in 1..Len(conf) : j = i + d
          BY <2>4, <4>1, <4>3
        <5>2. i \in b..Len(conf)
          BY <2>1, <5>1
        <5>. QED
          BY <2>3, <3>1, <5>1, <5>2
      <4>. QED
        BY <4>2, <4>3
    <3>. QED
      BY <3>2, <3>3
  <2>. QED
    BY <2>5, <2>6, <2>7, <2>8 DEF LinesInv
<1>3. CASE RemoveBlock
  <2>1. /\ \A k \in 1..Len(conf') : conf'[k].kind = "user"
        /\ \A i \in 1..Len(conf) : conf[i].kind = "user" /\ ~InBlock(conf, i) =>
             \E k \in 1..Len(conf') : conf'[k] = conf[i]
    BY <1>3, RemoveFacts DEF TypeOK
  <2>2. kept' = kept /\ pc' # "probe" /\ conf' \in Seq(Lines)
    BY <1>3, RemoveFacts DEF RemoveBlock, TypeOK
  <2>3. \A k \in 1..Len(conf') : ~InBlock(conf', k)
    <3>1. Len(conf') \in Nat
      BY <2>2
    <3>. QED
      BY <2>1, <3>1, NoBlock
  <2>4. \A x : User(x).kind = "user"
    BY LineFacts
  <2>5. ASSUME NEW x \in kept
        PROVE  \E k \in 1..Len(conf') : conf'[k] = User(x) /\ ~InBlock(conf', k)
    <3>1. PICK i \in 1..Len(conf) : conf[i] = User(x) /\ ~InBlock(conf, i)
      BY DEF LinesInv
    <3>. QED
      BY <2>1, <2>3, <2>4, <3>1
  <2>. QED
    BY <2>1, <2>2, <2>5 DEF LinesInv
<1>4. CASE Writes
  <2>1. PICK l : /\ Shifted(conf, conf', 0, l) /\ UNCHANGED <<kept, format>>
                 /\ l.kind \in {"begin", "feed", "end"}
                 /\ l.kind # "begin" => pc = "probe"
                 /\ pc' = "probe" => l.kind \in {"begin", "feed"}
                 /\ l.kind = "begin" \/ pc = "probe"
    BY <1>4, WritesFacts, LineFacts DEF TypeOK
  <2>2. \A i \in 1..Len(conf) : /\ i \in 1..Len(conf') /\ conf'[i] = conf[i]
                                /\ InBlock(conf', i) <=> InBlock(conf, i)
    <3>1. \A i \in 1..Len(conf) : i + 0 = i /\ i \in 1..Len(conf')
      BY <2>1 DEF Shifted
    <3>2. \A i \in 1..Len(conf) : InBlock(conf', i + 0) <=> InBlock(conf, i)
      BY <2>1, SameBlock
    <3>. QED
      BY <2>1, <3>1, <3>2 DEF Shifted
  <2>3. /\ Len(conf) \in Nat /\ Len(conf') = Len(conf) + 1
        /\ conf'[Len(conf) + 1] = l
        /\ \A k \in 1..Len(conf') : k \in 1..Len(conf) \/ k = Len(conf) + 1
    BY <2>1 DEF Shifted
  <2>4. pc = "probe" => InBlock(conf', Len(conf) + 1)
    <3>1. SUFFICES ASSUME pc = "probe",
                          NEW b \in 1..Len(conf), conf[b].kind = "begin",
                          \A j \in b..Len(conf) : conf[j].kind # "end"
                   PROVE  InBlock(conf', Len(conf) + 1)
      BY DEF LinesInv
    <3>2. /\ b \in 1..(Len(conf) + 1) /\ conf'[b].kind = "begin"
          /\ \A j \in b..(Len(conf) + 1 - 1) : conf'[j].kind # "end"
      BY <2>2, <2>3, <3>1
    <3>. QED
      BY <3>2 DEF InBlock
  <2>5. ASSUME pc' = "probe"
        PROVE  \E b \in 1..Len(conf') : /\ conf'[b].kind = "begin"
                                        /\ \A j \in b..Len(conf') : conf'[j].kind # "end"
    <3>1. CASE l.kind = "begin"
      <4>1. \A j \in (Len(conf) + 1)..Len(conf') : j = Len(conf) + 1
        BY <2>3
      <4>. QED
        BY <2>3, <3>1, <4>1
    <3>2. CASE l.kind = "feed"
      <4>1. PICK b \in 1..Len(conf) : /\ conf[b].kind = "begin"
                                      /\ \A j \in b..Len(conf) : conf[j].kind # "end"
        BY <2>1, <3>2 DEF LinesInv
      <4>2. \A j \in b..Len(conf') :
              (j \in b..Len(conf) /\ j \in 1..Len(conf)) \/ j = Len(conf) + 1
        BY <2>3
      <4>. QED
        BY <2>2, <2>3, <3>2, <4>1, <4>2
    <3>. QED
      BY <2>1, <2>5, <3>1, <3>2
  <2>6. \A k \in 1..Len(conf') : conf'[k].kind \in {"end", "feed"} => InBlock(conf', k)
    BY <2>1, <2>2, <2>3, <2>4 DEF LinesInv
  <2>7. format' = "apk" => \A k \in 1..Len(conf') : conf'[k].kind # "old"
    BY <2>1, <2>2, <2>3 DEF LinesInv
  <2>8. \A x \in kept' : \E k \in 1..Len(conf') : conf'[k] = User(x) /\ ~InBlock(conf', k)
    BY <2>1, <2>2 DEF LinesInv
  <2>. QED
    BY <2>5, <2>6, <2>7, <2>8 DEF LinesInv
<1>. QED
  BY <1>1, <1>2, <1>3, <1>4 DEF Next, Elsewhere, Writes

-----------------------------------------------------------------------------
(* The run.                                                                *)

\* The places that the script is through with.
Asked == Len(Wanted(script)) - Len(todo)

Entries == Range(Wanted(script)) \cup {Tail(w) : w \in Range(Wanted(script))}

\* What is still to be asked for is the rest of what the script wants, of the
\* first place perhaps only the second dir.
TodoInv ==
    pc = "probe" =>
        /\ todo \in Seq(Entries) /\ Asked \in 0..Len(Wanted(script))
        /\ \A j \in 2..Len(todo) : todo[j] = Wanted(script)[Asked + j]
        /\ todo # <<>> =>
             LET w == Wanted(script)[Asked + 1]
             IN  todo[1] = w \/ (Len(w) = 2 /\ todo[1] = Tail(w))

\* A place has one dir or two.
LEMMA PlaceFacts ==
    ASSUME ScriptOK, NEW k \in 1..Places
    PROVE  LET w == Wanted(script)[k]
           IN  \/ Len(w) = 1 /\ w = <<w[1]>> /\ Range(w) = {w[1]}
               \/ /\ Len(w) = 2 /\ w = <<w[1], w[2]>> /\ Range(w) = {w[1], w[2]}
                  /\ Tail(w) = <<w[2]>> /\ w[1] # w[2]
<1>1. Feeds \in Nat
  BY WantedFacts
<1>2. CASE k \in 1..Feeds
  <2> DEFINE a == ArchDir(script.release[1], script.feeds[k])
             b == AllDir(script.release[1], script.feeds[k])
  <2>1. Wanted(script)[k] = <<a, b>>
    BY <1>2, WantedFacts
  <2>2. a # b
    BY DEF ArchDir, AllDir
  <2>. HIDE DEF a, b
  <2>. QED
    BY <2>1, <2>2, RangeOfTwo
<1>3. CASE k = Places
  <2> DEFINE a == TargetsDir(script.release)
  <2>1. Wanted(script)[k] = <<a>>
    BY <1>3, WantedFacts
  <2>. HIDE DEF a
  <2>. QED
    BY <2>1, RangeOfOne
<1>4. CASE script.kernel # None /\ k = Feeds + 1
  <2> DEFINE a == KmodsDir(script.release, script.kernel)
  <2>1. Wanted(script)[k] = <<a>>
    BY <1>4, WantedFacts
  <2>. HIDE DEF a
  <2>. QED
    BY <2>1, RangeOfOne
<1>. QED
  BY <1>1, <1>2, <1>3, <1>4 DEF Places

\* A place that was found, or has no other dir, is done.
LEMMA TodoTail ==
    ASSUME ScriptOK, TodoInv, pc = "probe", todo # <<>>, script' = script,
           todo' = Tail(todo)
    PROVE  TodoInv' /\ Asked' = Asked + 1 /\ Asked + 1 \in 1..Places
<1> DEFINE W == Wanted(script)
<1>1. /\ todo \in Seq(Entries) /\ Asked \in 0..Len(W)
      /\ \A j \in 2..Len(todo) : todo[j] = W[Asked + j]
  BY DEF TodoInv
<1>2. Len(W) = Places /\ Len(W) \in Nat /\ DOMAIN W = 1..Places
  BY WantedFacts DEF Places
<1>3. Wanted(script)' = W
  BY Zenon
<1>. HIDE DEF W
<1>4. /\ Len(todo) \in Nat \ {0} /\ Tail(todo) \in Seq(Entries)
      /\ Len(Tail(todo)) = Len(todo) - 1
      /\ \A j \in 1..Len(Tail(todo)) : Tail(todo)[j] = todo[j + 1]
  BY <1>1
<1>5. Asked = Len(W) - Len(todo)
  BY DEF Asked, W
<1>6. Asked' = Len(W) - Len(Tail(todo))
  BY <1>3 DEF Asked
<1>7. Asked' = Asked + 1 /\ Asked' \in 0..Len(W)
  BY <1>1, <1>2, <1>4, <1>5, <1>6
<1>8. \A j \in 1..Len(Tail(todo)) : Tail(todo)[j] = W[Asked' + j]
  <2> SUFFICES ASSUME NEW j \in 1..Len(Tail(todo)) PROVE Tail(todo)[j] = W[Asked' + j]
    OBVIOUS
  <2>1. j + 1 \in 2..Len(todo) /\ Asked + (j + 1) = Asked' + j
    BY <1>2, <1>4, <1>5, <1>7
  <2>. QED
    BY <1>1, <1>4, <2>1
<1>9. Entries' = Entries
  BY <1>3 DEF Entries, W
<1>10. Tail(todo) # <<>> => Tail(todo)[1] = W[Asked' + 1]
  BY <1>4, <1>8
<1>11. \A j \in 2..Len(Tail(todo)) : Tail(todo)[j] = W[Asked' + j]
  BY <1>4, <1>8
<1>. QED
  BY <1>2, <1>3, <1>4, <1>7, <1>9, <1>10, <1>11 DEF TodoInv

\* Of a place that has another dir that one is next.
LEMMA TodoSecond ==
    ASSUME ScriptOK, TodoInv, pc = "probe", todo # <<>>, script' = script,
           Len(Head(todo)) > 1, todo' = <<Tail(Head(todo))>> \o Tail(todo)
    PROVE  /\ TodoInv' /\ Asked' = Asked /\ Asked + 1 \in 1..Places
           /\ Head(todo) = Wanted(script)[Asked + 1]
           /\ todo'[1] = Tail(Head(todo)) /\ todo' # <<>>
<1> DEFINE W == Wanted(script)
<1>1. /\ todo \in Seq(Entries) /\ Asked \in 0..Len(W)
      /\ \A j \in 2..Len(todo) : todo[j] = W[Asked + j]
      /\ todo[1] = W[Asked + 1] \/ (Len(W[Asked + 1]) = 2 /\ todo[1] = Tail(W[Asked + 1]))
  BY DEF TodoInv
<1>2. Len(W) = Places /\ Len(W) \in Nat /\ DOMAIN W = 1..Places
  BY WantedFacts DEF Places
<1>3. Wanted(script)' = W
  BY Zenon
<1>. HIDE DEF W
<1>4. /\ Len(todo) \in Nat \ {0} /\ Tail(todo) \in Seq(Entries)
      /\ Len(Tail(todo)) = Len(todo) - 1 /\ Head(todo) = todo[1]
      /\ \A j \in 1..Len(Tail(todo)) : Tail(todo)[j] = todo[j + 1]
  BY <1>1
<1>5. Asked = Len(W) - Len(todo)
  BY DEF Asked, W
<1>6. Asked + 1 \in 1..Places
  BY <1>1, <1>2, <1>4, <1>5
<1>7. Head(todo) = W[Asked + 1] /\ Len(W[Asked + 1]) = 2
  <2>1. \/ Len(W[Asked + 1]) = 1
        \/ Len(W[Asked + 1]) = 2 /\ Tail(W[Asked + 1]) = <<W[Asked + 1][2]>>
    BY <1>6, PlaceFacts DEF W
  <2>2. Len(<<W[Asked + 1][2]>>) = 1
    BY RangeOfOne
  <2>3. Len(todo[1]) > 1
    BY <1>4, Zenon
  <2>4. todo[1] # Tail(W[Asked + 1]) \/ Len(W[Asked + 1]) # 2
    <3>1. 1 # 2 /\ \A n : n = 1 => ~(n > 1)
      OBVIOUS
    <3>. QED
      BY <2>1, <2>2, <2>3, <3>1, Zenon
  <2>5. todo[1] = W[Asked + 1]
    BY <1>1, <2>4, Zenon
  <2>6. Len(W[Asked + 1]) # 1
    <3>1. \A n : n = 1 => ~(n > 1)
      OBVIOUS
    <3>. QED
      BY <2>3, <2>5, <3>1, Zenon
  <2>. QED
    BY <1>4, <2>1, <2>5, <2>6, Zenon
<1>8. Tail(Head(todo)) \in Entries
  <2>1. W[Asked + 1] \in Range(W)
    BY <1>2, <1>6 DEF Range
  <2>. QED
    BY <1>7, <2>1 DEF Entries, W
<1>. DEFINE new == <<Tail(Head(todo))>> \o Tail(todo)
<1>9. /\ new \in Seq(Entries) /\ Len(new) = Len(todo) /\ new[1] = Tail(Head(todo))
      /\ \A j \in 2..Len(new) : new[j] = todo[j]
  <2>1. ASSUME NEW x \in Entries, NEW q \in Seq(Entries)
        PROVE  /\ <<x>> \o q \in Seq(Entries) /\ Len(<<x>> \o q) = Len(q) + 1
               /\ (<<x>> \o q)[1] = x
               /\ \A j \in 2..(Len(q) + 1) : (<<x>> \o q)[j] = q[j - 1]
    OBVIOUS
  <2>2. /\ new \in Seq(Entries) /\ Len(new) = Len(Tail(todo)) + 1
        /\ new[1] = Tail(Head(todo))
        /\ \A j \in 2..(Len(Tail(todo)) + 1) : new[j] = Tail(todo)[j - 1]
    BY <1>4, <1>8, <2>1, Zenon
  <2>. HIDE DEF new
  <2>3. \A j \in 2..Len(todo) : j - 1 \in 1..Len(Tail(todo)) /\ (j - 1) + 1 = j
    BY <1>4
  <2>. QED
    BY <1>4, <2>2, <2>3
<1>10. Entries' = Entries
  BY <1>3 DEF Entries, W
<1>. HIDE DEF new
<1>11. todo' = new
  BY DEF new
<1>12. Asked' = Asked
  BY <1>3, <1>5, <1>9, <1>11 DEF Asked
<1>13. new # <<>>
  BY <1>4, <1>9
<1>. QED
  BY <1>1, <1>3, <1>6, <1>7, <1>9, <1>10, <1>11, <1>12, <1>13 DEF TodoInv, W

\* Before the probing nothing is left to do; an undisturbed run is one of the
\* server's present script, has removed the block and then has the key.
RunInv ==
    /\ ScriptOK
    /\ pc # "probe" => todo = <<>>
    /\ quiet => pc # "idle" /\ script = Script(script.release)
    /\ quiet /\ pc \notin {"key", "clean"} => removed
    /\ quiet /\ pc # "key" /\ server.key # None => keys[KeyName(server.key)] = server.key

\* Generated scripts are those of one of the servers.
LEMMA ServerFacts == ASSUME TypeOK PROVE server \in Servers /\ server.key \in Keys \cup {None}
BY InstallerAssumption DEF TypeOK

\* The run and what it has to do, at every step.
LEMMA RunStep ==
    ASSUME TypeOK, RunInv, TodoInv, [Next]_installVars
    PROVE  RunInv' /\ TodoInv'
<1>0. ASSUME UNCHANGED <<script, todo>>, pc' = "probe" => pc = "probe"
      PROVE  TodoInv'
  <2>1. Wanted(script)' = Wanted(script)
    BY <1>0, Zenon
  <2>2. Asked' = Asked /\ Entries' = Entries
    BY <1>0, <2>1 DEF Asked, Entries
  <2>. QED
    BY <1>0, <2>1, <2>2 DEF TodoInv
<1>00. ASSUME pc' # "probe" PROVE TodoInv'
  BY <1>00 DEF TodoInv
<1>000. ASSUME UNCHANGED script PROVE ScriptOK'
  BY <1>000 DEF ScriptOK, RunInv
<1>1. CASE Rebuild \/ Upgrade
  <2>1. UNCHANGED <<script, todo, pc>> /\ ~quiet'
    BY <1>1 DEF Rebuild, Upgrade, Change
  <2>. QED
    BY <1>0, <1>000, <2>1 DEF RunInv
<1>2. CASE AddUserLine
  <2>1. UNCHANGED <<script, todo, pc, quiet, removed, server, keys, format, kernel>>
    BY <1>2, AddUserLineFacts DEF TypeOK, scriptVars
  <2>. QED
    BY <1>0, <1>000, <2>1 DEF RunInv, Script, KeyName
<1>3. CASE Interrupt
  BY <1>3, <1>00, <1>000 DEF Interrupt, Stopped, Fault, RunInv
<1>4. CASE Start
  <2>1. PICK r \in Releases : script' = Script(r)
    BY <1>4 DEF Start
  <2>2. ScriptOK'
    BY <2>1, ServerFacts, ScriptFacts
  <2>3. script'.release = r
    BY <2>1, ServerFacts, ScriptFacts
  <2>4. /\ pc' = "key" /\ todo' = <<>> /\ UNCHANGED <<server, kernel>>
    BY <1>4 DEF Start, RunInv, Ended, routerVars
  <2>. QED
    BY <1>00, <2>1, <2>2, <2>3, <2>4 DEF RunInv, Script
<1>5. CASE InstallKey
  <2>1. /\ pc = "key" /\ pc' = "clean"
        /\ UNCHANGED <<format, server, kernel, script, todo, quiet, removed>>
        /\ keys' = IF script.key = None \/ server.key = None THEN keys
                   ELSE [keys EXCEPT ![KeyName(script.key)] = server.key]
    BY <1>5 DEF InstallKey
  <2>2. quiet => script.key = server.key
    BY DEF RunInv, Script
  <2>3. quiet /\ server.key # None => keys'[KeyName(server.key)] = server.key
    <3>1. KeyName(server.key) \in Keys \cup {None}
      BY ServerFacts DEF KeyName
    <3>. QED
      BY <2>1, <2>2, <3>1 DEF TypeOK
  <2>. QED
    BY <1>00, <1>000, <2>1, <2>3 DEF RunInv, Script, KeyName
<1>6. CASE NoKey
  BY <1>6, <1>00, <1>000 DEF NoKey, Fault, RunInv
<1>7. CASE RemoveBlock
  BY <1>7, <1>00, <1>000 DEF RemoveBlock, RunInv, Script, KeyName
<1>8. CASE RemoveFails
  BY <1>8, <1>00, <1>000 DEF RemoveFails, Fault, RunInv
<1>9. CASE BeginBlock
  <2>1. /\ pc = "begin" /\ pc' = "probe" /\ todo' = Wanted(script)
        /\ UNCHANGED <<format, server, kernel, keys, script, quiet, removed>>
    BY <1>9 DEF BeginBlock
  <2>2. RunInv'
    BY <1>000, <2>1 DEF RunInv, Script, KeyName
  <2>3. TodoInv'
    <3> DEFINE W == Wanted(script)
    <3>1. Len(W) = Places /\ Len(W) \in Nat /\ DOMAIN W = 1..Places
      BY WantedFacts DEF RunInv, Places
    <3>2. Wanted(script)' = W
      BY <2>1, Zenon
    <3>3. Entries' = Range(W) \cup {Tail(w) : w \in Range(W)}
      BY <3>2 DEF Entries
    <3>4. W \in Seq(Entries')
      <4>1. W \in Seq(Range(W))
        BY WantedFacts DEF RunInv
      <4>. HIDE DEF W
      <4>. QED
        BY <3>3, <4>1
    <3>. HIDE DEF W
    <3>5. Asked' = 0
      BY <2>1, <3>1, <3>2 DEF Asked, W
    <3>. QED
      BY <2>1, <3>1, <3>2, <3>4, <3>5 DEF TodoInv, W
  <2>. QED
    BY <2>2, <2>3
<1>10. CASE AddFeed
  <2>1. TodoInv'
    BY <1>10, TodoTail DEF AddFeed, RunInv
  <2>. QED
    BY <1>10, <1>000, <2>1 DEF AddFeed, RunInv, Script, KeyName
<1>11. CASE NoFeed \/ ProbeFails
  <2>1. /\ pc = "probe" /\ pc' = "probe" /\ todo # <<>> /\ NextFeed
        /\ UNCHANGED <<format, server, kernel, keys, script, removed>>
        /\ quiet' => quiet
    BY <1>11 DEF NoFeed, ProbeFails, Fault, routerVars
  <2>2. TodoInv'
    BY <2>1, TodoTail, TodoSecond DEF NextFeed, RunInv
  <2>. QED
    BY <1>000, <2>1, <2>2 DEF RunInv, Script, KeyName
<1>12. CASE EndBlock
  BY <1>12, <1>00, <1>000 DEF EndBlock, RunInv, Script, KeyName
<1>13. CASE Update
  BY <1>13, <1>00, <1>000 DEF Update, Stopped, RunInv, Script, KeyName, routerVars
<1>14. CASE UpdateFails
  <2>1. /\ pc = "update" /\ pc' = "failed" /\ todo' = <<>>
        /\ quiet' => quiet
        /\ UNCHANGED <<format, server, kernel, keys, script, removed>>
    <3>1. quiet' => quiet
      BY <1>14 DEF UpdateFails, Fault
    <3>2. /\ pc = "update" /\ pc' = "failed" /\ todo' = <<>>
          /\ UNCHANGED <<format, server, kernel, keys, script, removed>>
      BY <1>14 DEF UpdateFails, Stopped, routerVars
    <3>. QED
      BY <3>1, <3>2
  <2>. QED
    BY <1>00, <1>000, <2>1 DEF RunInv, Script, KeyName
<1>15. CASE UNCHANGED installVars
  <2>1. UNCHANGED <<script, todo, pc, quiet, removed, server, keys, format, kernel>>
    BY <1>15 DEF installVars, routerVars, scriptVars
  <2>. QED
    BY <1>0, <1>000, <2>1 DEF RunInv, Script, KeyName
<1>. QED
  BY <1>1, <1>2, <1>3, <1>4, <1>5, <1>6, <1>7, <1>8, <1>9, <1>10, <1>11, <1>12, <1>13,
     <1>14, <1>15 DEF Next

\* The counters stay within their bounds.
LEMMA CounterFacts ==
    ASSUME TypeOK
    PROVE  /\ runs < MaxRuns => runs + 1 \in 0..MaxRuns
           /\ Change => changes' \in 0..MaxChanges /\ quiet' \in BOOLEAN
           /\ Fault => faults' \in 0..MaxFaults /\ quiet' \in BOOLEAN
<1>1. runs < MaxRuns => runs + 1 \in 0..MaxRuns
  BY InstallerAssumption DEF TypeOK
<1>2. changes < MaxChanges => changes + 1 \in 0..MaxChanges
  BY InstallerAssumption DEF TypeOK
<1>3. faults < MaxFaults => faults + 1 \in 0..MaxFaults
  BY InstallerAssumption DEF TypeOK
<1>. QED
  BY <1>1, <1>2, <1>3 DEF Change, Fault

\* Types, at every step.
LEMMA TypeStep ==
    ASSUME TypeOK, LinesInv, RunInv, [Next]_installVars PROVE TypeOK'
<1>1. CASE Rebuild
  <2>1. /\ server' \in Servers /\ changes' \in 0..MaxChanges /\ quiet' \in BOOLEAN
    BY <1>1, CounterFacts DEF Rebuild
  <2>2. UNCHANGED <<format, routerVars, script, pc, todo, removed, runs, faults>>
    BY <1>1 DEF Rebuild
  <2>. QED
    BY <2>1, <2>2 DEF TypeOK, routerVars
<1>2. CASE Upgrade
  <2>1. /\ kernel' \in Kernels \cup {None}
        /\ changes' \in 0..MaxChanges /\ quiet' \in BOOLEAN
    BY <1>2, CounterFacts DEF Upgrade
  <2>2. UNCHANGED <<format, server, keys, conf, kept, script, pc, todo, removed,
                    runs, faults>>
    BY <1>2 DEF Upgrade
  <2>. QED
    BY <2>1, <2>2 DEF TypeOK
<1>3. CASE AddUserLine
  <2>1. conf' \in Seq(Lines) /\ kept' \subseteq UserLines
    BY <1>3, AddUserLineFacts DEF TypeOK, Shifted
  <2>2. UNCHANGED <<format, server, kernel, keys, scriptVars, changes, faults>>
    BY <1>3, AddUserLineFacts DEF TypeOK
  <2>. QED
    BY <2>1, <2>2 DEF TypeOK, scriptVars
<1>4. CASE Interrupt
  <2>1. /\ pc' = "idle" /\ todo' = <<>> /\ faults' \in 0..MaxFaults /\ quiet' \in BOOLEAN
    BY <1>4, CounterFacts DEF Interrupt, Stopped
  <2>2. UNCHANGED <<format, server, routerVars, script, removed, runs, changes>>
    BY <1>4 DEF Interrupt
  <2>. QED
    BY <2>1, <2>2 DEF TypeOK, routerVars, Steps
<1>5. CASE Start
  <2>1. script'.release \in Releases
    BY <1>5, ServerFacts, ScriptFacts DEF Start
  <2>2. /\ pc' = "key" /\ quiet' \in BOOLEAN /\ removed' \in BOOLEAN
        /\ runs' \in 0..MaxRuns
    BY <1>5, CounterFacts DEF Start
  <2>3. UNCHANGED <<format, server, routerVars, todo, changes, faults>>
    BY <1>5 DEF Start
  <2>. QED
    BY <2>1, <2>2, <2>3 DEF TypeOK, routerVars, Steps, Ended
<1>6. CASE InstallKey
  <2>1. keys' \in [Keys \cup {None} -> Keys \cup {None}] /\ pc' = "clean"
    BY <1>6, ServerFacts DEF InstallKey, TypeOK
  <2>2. UNCHANGED <<format, server, kernel, conf, kept, script, todo, quiet, removed, bounds>>
    BY <1>6 DEF InstallKey
  <2>. QED
    BY <2>1, <2>2 DEF TypeOK, Steps, bounds, Ended
<1>7. CASE NoKey
  <2>1. keys' \in [Keys \cup {None} -> Keys \cup {None}] /\ pc' = "clean"
    BY <1>7 DEF NoKey, TypeOK
  <2>2. faults' \in 0..MaxFaults /\ quiet' \in BOOLEAN
    BY <1>7, CounterFacts DEF NoKey
  <2>3. UNCHANGED <<format, server, kernel, conf, kept, script, todo, removed, runs, changes>>
    BY <1>7 DEF NoKey
  <2>. QED
    BY <2>1, <2>2, <2>3 DEF TypeOK, Steps, Ended
<1>8. CASE RemoveBlock
  <2>1. conf' \in Seq(Lines)
    BY <1>8, RemoveFacts DEF TypeOK
  <2>2. /\ pc' = "begin" /\ removed' = TRUE
        /\ UNCHANGED <<format, server, kernel, keys, kept, script, todo, quiet, bounds>>
    BY <1>8 DEF RemoveBlock
  <2>. QED
    BY <2>1, <2>2 DEF TypeOK, Steps, bounds, Ended
<1>9. CASE RemoveFails
  <2>1. pc' = "begin" /\ faults' \in 0..MaxFaults /\ quiet' \in BOOLEAN
    BY <1>9, CounterFacts DEF RemoveFails
  <2>2. UNCHANGED <<format, server, routerVars, script, todo, removed, runs, changes>>
    BY <1>9 DEF RemoveFails
  <2>. QED
    BY <2>1, <2>2 DEF TypeOK, routerVars, Steps, Ended
<1>10. CASE Writes
  <2>1. conf' \in Seq(Lines) /\ pc' \in Steps \ Ended
    BY <1>10, WritesFacts DEF TypeOK, Shifted, Steps, Ended
  <2>2. UNCHANGED <<kept, format, server, kernel, keys, script, quiet, removed, bounds>>
    BY <1>10, WritesFacts DEF TypeOK
  <2>. QED
    BY <2>1, <2>2 DEF TypeOK, bounds
<1>11. CASE NoFeed
  <2>1. /\ pc = "probe" /\ pc' = "probe"
        /\ UNCHANGED <<format, server, routerVars, script, quiet, removed, bounds>>
    BY <1>11 DEF NoFeed
  <2>. QED
    BY <2>1 DEF TypeOK, routerVars, Ended, bounds
<1>12. CASE ProbeFails
  <2>1. pc = "probe" /\ pc' = "probe" /\ faults' \in 0..MaxFaults /\ quiet' \in BOOLEAN
    BY <1>12, CounterFacts DEF ProbeFails
  <2>2. UNCHANGED <<format, server, routerVars, script, removed, runs, changes>>
    BY <1>12 DEF ProbeFails
  <2>. QED
    BY <2>1, <2>2 DEF TypeOK, routerVars, Ended
<1>13. CASE Update
  <2>1. /\ pc' = "done" /\ todo' = <<>>
        /\ UNCHANGED <<format, server, routerVars, script, quiet, removed, bounds>>
    BY <1>13 DEF Update, Stopped
  <2>. QED
    BY <2>1 DEF TypeOK, routerVars, Steps, bounds
<1>14. CASE UpdateFails
  <2>1. pc' = "failed" /\ todo' = <<>>
    BY <1>14 DEF UpdateFails, Stopped
  <2>2. faults' \in 0..MaxFaults /\ quiet' \in BOOLEAN
    <3>1. CASE UNCHANGED <<quiet, faults>>
      BY <3>1 DEF TypeOK
    <3>2. CASE Fault
      BY <3>2, CounterFacts
    <3>. QED
      BY <1>14, <3>1, <3>2 DEF UpdateFails
  <2>3. UNCHANGED <<format, server, routerVars, script, removed, runs, changes>>
    BY <1>14 DEF UpdateFails
  <2>. QED
    BY <2>1, <2>2, <2>3 DEF TypeOK, routerVars, Steps
<1>15. CASE UNCHANGED installVars
  <2>1. UNCHANGED <<format, server, routerVars, scriptVars, changes, faults>>
    BY <1>15 DEF installVars
  <2>. QED
    BY <2>1 DEF routerVars, scriptVars, TypeOK
<1>. QED
  BY <1>1, <1>2, <1>3, <1>4, <1>5, <1>6, <1>7, <1>8, <1>9, <1>10, <1>11, <1>12, <1>13,
     <1>14, <1>15 DEF Next, Writes

-----------------------------------------------------------------------------
(* The block that a run writes, of a list c for the script with places w.  *)

\* The places of a dir.
At(w, dir) == {i \in DOMAIN w : dir \in Range(w[i])}

\* The lines that are not the user's.
NotUsers(c) == {i \in DOMAIN c : c[i].kind # "user"}

\* The feeds at the places is of the list, in the order of the script.
Ordered(c, w, is) ==
    /\ \A i \in is : c[i].kind = "feed" /\ At(w, c[i].of) # {}
    /\ \A i, j \in is : i < j => \A x \in At(w, c[i].of), y \in At(w, c[j].of) : x < y

\* All that is managed is one block with feeds of the first n places, open or
\* closed.
OpenBlock(c, w, n) ==
    \E b \in NotUsers(c) :
        /\ c[b] = Begin
        /\ NotUsers(c) \subseteq b..Len(c)
        /\ Ordered(c, w, NotUsers(c) \ {b})
        /\ \A i \in NotUsers(c) \ {b} : \A x \in At(w, c[i].of) : x <= n

ClosedBlock(c, w) ==
    \E b, e \in NotUsers(c) :
        /\ c[b] = Begin /\ c[e] = End
        /\ NotUsers(c) \subseteq b..e
        /\ Ordered(c, w, NotUsers(c) \ {b, e})

\* The dirs that are listed.
ListedIn(c) == {c[i].of : i \in {j \in DOMAIN c : c[j].kind \in {"feed", "old"}}}

\* What is added moves nothing past another line, and is managed or not.
LEMMA ShiftedManaged ==
    ASSUME NEW c, NEW e, NEW d, NEW l, Shifted(c, e, d, l)
    PROVE  /\ \A i \in NotUsers(c) : /\ i \in 1..Len(c) /\ i + d \in NotUsers(e)
                                     /\ e[i + d] = c[i]
           /\ \A k \in NotUsers(e) :
                \/ k - d \in NotUsers(c) /\ e[k] = c[k - d]
                \/ l.kind # "user" /\ e[k] = l /\ k = IF d = 1 THEN 1 ELSE Len(c) + 1
           /\ NotUsers(e) \subseteq 1..Len(e)
           /\ d \in {0, 1} /\ Len(c) \in Nat /\ Len(e) = Len(c) + 1
<1>1. ASSUME NEW i \in NotUsers(c)
      PROVE  i \in 1..Len(c) /\ i + d \in NotUsers(e) /\ e[i + d] = c[i]
  <2>1. i \in 1..Len(c) /\ c[i].kind # "user" /\ e[i + d] = c[i]
    BY DEF NotUsers, Shifted
  <2>2. i + d \in DOMAIN e
    BY <2>1 DEF Shifted
  <2>. QED
    BY <2>1, <2>2 DEF NotUsers
<1>2. ASSUME NEW k \in NotUsers(e)
      PROVE  \/ k - d \in NotUsers(c) /\ e[k] = c[k - d]
             \/ l.kind # "user" /\ e[k] = l /\ k = IF d = 1 THEN 1 ELSE Len(c) + 1
  <2>1. k \in 1..(Len(c) + 1) /\ d \in {0, 1} /\ Len(c) \in Nat
    BY DEF NotUsers, Shifted
  <2>2. CASE k = IF d = 1 THEN 1 ELSE Len(c) + 1
    BY <2>2 DEF NotUsers, Shifted
  <2>3. CASE k # IF d = 1 THEN 1 ELSE Len(c) + 1
    <3>1. k - d \in 1..Len(c) /\ (k - d) + d = k
      BY <2>1, <2>3
    <3>2. e[(k - d) + d] = c[k - d]
      BY <3>1 DEF Shifted
    <3>3. e[k] = c[k - d]
      BY <3>1, <3>2
    <3>. QED
      BY <3>1, <3>3 DEF NotUsers, Shifted
  <2>. QED
    BY <2>2, <2>3
<1>3. /\ NotUsers(e) \subseteq 1..Len(e)
      /\ d \in {0, 1} /\ Len(c) \in Nat /\ Len(e) = Len(c) + 1
  BY DEF NotUsers, Shifted
<1>. QED
  BY <1>1, <1>2, <1>3

\* The dirs listed are those before, and that of a line for a feed.
LEMMA ShiftedListed ==
    ASSUME NEW c, NEW e, NEW d, NEW l, Shifted(c, e, d, l)
    PROVE  ListedIn(e) = ListedIn(c)
                         \cup (IF l.kind \in {"feed", "old"} THEN {l.of} ELSE {})
<1>1. ASSUME NEW i \in 1..Len(c) PROVE i + d \in DOMAIN e /\ e[i + d] = c[i]
  BY DEF Shifted
<1>2. ASSUME NEW k \in DOMAIN e PROVE e[k] = l \/ \E i \in 1..Len(c) : e[k] = c[i]
  <2>1. k \in 1..(Len(c) + 1) /\ d \in {0, 1} /\ Len(c) \in Nat
    BY DEF Shifted
  <2>2. CASE k = IF d = 1 THEN 1 ELSE Len(c) + 1
    BY <2>2 DEF Shifted
  <2>3. CASE k # IF d = 1 THEN 1 ELSE Len(c) + 1
    <3>1. k - d \in 1..Len(c) /\ (k - d) + d = k
      BY <2>1, <2>3
    <3>. QED
      BY <1>1, <3>1
  <2>. QED
    BY <2>2, <2>3
<1>3. DOMAIN c = 1..Len(c)
  BY DEF Shifted
<1>4. \E k \in DOMAIN e : e[k] = l
  BY DEF Shifted
<1>. QED
  BY <1>1, <1>2, <1>3, <1>4 DEF ListedIn

\* The order of feeds stays when lines are added around them.
LEMMA ShiftedOrder ==
    ASSUME NEW c, NEW e, NEW d \in {0, 1}, NEW w, NEW is, NEW ks, ks \subseteq Int,
           Ordered(c, w, is), \A k \in ks : k - d \in is /\ e[k] = c[k - d]
    PROVE  Ordered(e, w, ks)
<1>1. \A k \in ks : e[k].kind = "feed" /\ At(w, e[k].of) # {}
  BY DEF Ordered
<1>2. ASSUME NEW i \in ks, NEW j \in ks, i < j,
             NEW x \in At(w, e[i].of), NEW y \in At(w, e[j].of)
      PROVE  x < y
  <2>1. i \in Int /\ j \in Int
    BY Zenon
  <2>2. i - d < j - d
    BY <1>2, <2>1
  <2>. QED
    BY <1>2, <2>2 DEF Ordered
<1>. QED
  BY <1>1, <1>2 DEF Ordered

\* A line of the user leaves the block what it was.
LEMMA BlockAndUser ==
    ASSUME NEW c, NEW e, NEW d, NEW l, NEW w, NEW n,
           Shifted(c, e, d, l), l.kind = "user"
    PROVE  /\ NotUsers(c) = {} => NotUsers(e) = {}
           /\ OpenBlock(c, w, n) => OpenBlock(e, w, n)
           /\ ClosedBlock(c, w) => ClosedBlock(e, w)
<1>1. \A i \in NotUsers(c) : i \in 1..Len(c) /\ i + d \in NotUsers(e) /\ e[i + d] = c[i]
  BY ShiftedManaged
<1>2. \A k \in NotUsers(e) : k - d \in NotUsers(c) /\ e[k] = c[k - d]
  BY ShiftedManaged
<1>3. /\ NotUsers(e) \subseteq 1..Len(e) /\ NotUsers(e) \subseteq Int
      /\ d \in {0, 1} /\ Len(e) \in Nat
  BY ShiftedManaged
<1>4. ASSUME OpenBlock(c, w, n) PROVE OpenBlock(e, w, n)
  <2>1. PICK b \in NotUsers(c) :
           /\ c[b] = Begin
           /\ NotUsers(c) \subseteq b..Len(c)
           /\ Ordered(c, w, NotUsers(c) \ {b})
           /\ \A i \in NotUsers(c) \ {b} : \A x \in At(w, c[i].of) : x <= n
    BY <1>4 DEF OpenBlock
  <2>2. b + d \in NotUsers(e) /\ e[b + d] = Begin /\ b \in Int
    BY <1>1, <2>1
  <2>3. ASSUME NEW k \in NotUsers(e) PROVE k \in (b + d)..Len(e)
    <3>1. k - d >= b /\ k \in 1..Len(e)
      BY <1>2, <1>3, <2>1
    <3>. QED
      BY <1>3, <2>2, <3>1
  <2>4. \A k \in NotUsers(e) \ {b + d} : k - d \in NotUsers(c) \ {b} /\ e[k] = c[k - d]
    BY <1>2, <1>3, <2>2
  <2>5. Ordered(e, w, NotUsers(e) \ {b + d})
    <3> DEFINE is == NotUsers(c) \ {b}
               ks == NotUsers(e) \ {b + d}
    <3>1. /\ ks \subseteq Int /\ Ordered(c, w, is)
          /\ \A k \in ks : k - d \in is /\ e[k] = c[k - d]
      BY <1>3, <2>1, <2>4
    <3>. HIDE DEF is, ks
    <3>2. Ordered(e, w, ks)
      BY <1>3, <3>1, ShiftedOrder
    <3>. QED
      BY <3>2 DEF ks
  <2>6. \A k \in NotUsers(e) \ {b + d} : \A x \in At(w, e[k].of) : x <= n
    BY <2>1, <2>4
  <2>. QED
    BY <2>2, <2>3, <2>5, <2>6 DEF OpenBlock
<1>5. ASSUME ClosedBlock(c, w) PROVE ClosedBlock(e, w)
  <2>1. PICK b \in NotUsers(c), f \in NotUsers(c) :
           /\ c[b] = Begin /\ c[f] = End
           /\ NotUsers(c) \subseteq b..f
           /\ Ordered(c, w, NotUsers(c) \ {b, f})
    BY <1>5 DEF ClosedBlock
  <2>2. /\ b + d \in NotUsers(e) /\ e[b + d] = Begin /\ b \in Int
        /\ f + d \in NotUsers(e) /\ e[f + d] = End /\ f \in Int
    BY <1>1, <2>1
  <2>3. ASSUME NEW k \in NotUsers(e) PROVE k \in (b + d)..(f + d)
    <3>1. k - d \in b..f /\ k \in Int
      BY <1>2, <1>3, <2>1
    <3>. QED
      BY <1>3, <2>2, <3>1
  <2>4. \A k \in NotUsers(e) \ {b + d, f + d} :
           k - d \in NotUsers(c) \ {b, f} /\ e[k] = c[k - d]
    BY <1>2, <1>3, <2>2
  <2>5. Ordered(e, w, NotUsers(e) \ {b + d, f + d})
    <3> DEFINE is == NotUsers(c) \ {b, f}
               ks == NotUsers(e) \ {b + d, f + d}
    <3>1. /\ ks \subseteq Int /\ Ordered(c, w, is)
          /\ \A k \in ks : k - d \in is /\ e[k] = c[k - d]
      BY <1>3, <2>1, <2>4
    <3>. HIDE DEF is, ks
    <3>2. Ordered(e, w, ks)
      BY <1>3, <3>1, ShiftedOrder
    <3>. QED
      BY <3>2 DEF ks
  <2>. QED
    BY <2>2, <2>3, <2>5 DEF ClosedBlock
<1>6. ASSUME NotUsers(c) = {} PROVE NotUsers(e) = {}
  BY <1>2, <1>6
<1>. QED
  BY <1>4, <1>5, <1>6

\* A block is opened below the lines of the user.
LEMMA BlockOpened ==
    ASSUME NEW c, NEW e, NEW w, Shifted(c, e, 0, Begin), NotUsers(c) = {}
    PROVE  OpenBlock(e, w, 0)
<1>1. Len(e) \in Nat /\ Len(e) = Len(c) + 1 /\ e[Len(e)] = Begin /\ DOMAIN e = 1..Len(e)
  BY DEF Shifted
<1>2. Len(e) \in NotUsers(e)
  BY <1>1, LineFacts DEF NotUsers
<1>3. \A k \in NotUsers(e) : k = Len(e)
  BY <1>1, ShiftedManaged
<1>4. NotUsers(e) \ {Len(e)} = {} /\ NotUsers(e) \subseteq Len(e)..Len(e)
  BY <1>1, <1>3
<1>5. Ordered(e, w, {})
  BY DEF Ordered
<1>. QED
  BY <1>1, <1>2, <1>4, <1>5 DEF OpenBlock

\* The feed of the next place goes below those of the earlier ones.
LEMMA BlockGrows ==
    ASSUME NEW c, NEW e, NEW w, NEW n \in Nat, NEW dir, Shifted(c, e, 0, Src(dir)),
           At(w, dir) = {n + 1}, DOMAIN w \subseteq Int, OpenBlock(c, w, n)
    PROVE  OpenBlock(e, w, n + 1)
<1>1. PICK b \in NotUsers(c) :
         /\ c[b] = Begin
         /\ NotUsers(c) \subseteq b..Len(c)
         /\ Ordered(c, w, NotUsers(c) \ {b})
         /\ \A i \in NotUsers(c) \ {b} : \A x \in At(w, c[i].of) : x <= n
  BY DEF OpenBlock
<1> DEFINE last == Len(c) + 1
<1>2. Len(c) \in Nat /\ Len(e) = last /\ e[last] = Src(dir) /\ NotUsers(e) \subseteq 1..last
  <2>1. Len(c) \in Nat /\ Len(e) = last /\ e[last] = Src(dir)
    BY DEF Shifted
  <2>2. NotUsers(e) \subseteq 1..Len(e)
    BY ShiftedManaged
  <2>. QED
    BY <2>1, <2>2
<1>3. \A i \in NotUsers(c) : i \in 1..Len(c) /\ i \in NotUsers(e) /\ e[i] = c[i]
  <2>1. \A i \in NotUsers(c) : i \in 1..Len(c) /\ i + 0 \in NotUsers(e) /\ e[i + 0] = c[i]
    BY ShiftedManaged
  <2>. QED
    BY <2>1
<1>4. \A k \in NotUsers(e) : k = last \/ (k \in NotUsers(c) /\ k \in 1..Len(c) /\ e[k] = c[k])
  <2>1. ASSUME NEW k \in NotUsers(e)
        PROVE  k = last \/ (k - 0 \in NotUsers(c) /\ e[k] = c[k - 0])
    BY ShiftedManaged
  <2>2. \A k \in NotUsers(e) : k - 0 = k
    BY <1>2
  <2>. QED
    BY <1>3, <2>1, <2>2
<1>5. Src(dir).kind = "feed" /\ Src(dir).of = dir
  BY LineFacts
<1>. HIDE DEF last
<1>6. ASSUME NEW i \in NotUsers(e) \ {b}
      PROVE  /\ e[i].kind = "feed" /\ At(w, e[i].of) # {}
             /\ \A x \in At(w, e[i].of) : x <= n + 1
  <2>1. CASE i = last
    <3>1. e[i] = Src(dir)
      BY <1>2, <2>1
    <3>2. e[i].kind = "feed" /\ At(w, e[i].of) = {n + 1}
      BY <1>5, <3>1
    <3>. QED
      BY <3>2
  <2>2. CASE i # last
    <3>1. i \in NotUsers(c) \ {b} /\ e[i] = c[i]
      BY <1>4, <2>2
    <3>2. /\ e[i].kind = "feed" /\ At(w, e[i].of) # {}
          /\ \A x \in At(w, e[i].of) : x <= n /\ x \in Int
      BY <1>1, <3>1 DEF Ordered, At
    <3>. QED
      BY <3>2
  <2>. QED
    BY <2>1, <2>2
<1>7. ASSUME NEW i \in NotUsers(e) \ {b}, NEW j \in NotUsers(e) \ {b}, i < j,
             NEW x \in At(w, e[i].of), NEW y \in At(w, e[j].of)
      PROVE  x < y
  <2>1. i # last
    BY <1>2, <1>7 DEF last
  <2>2. i \in NotUsers(c) \ {b} /\ e[i] = c[i]
    BY <1>4, <2>1
  <2>3. CASE j = last
    <3>1. y = n + 1
      BY <1>2, <1>5, <2>3
    <3>2. x <= n /\ x \in Int
      BY <1>1, <2>2 DEF At
    <3>. QED
      BY <3>1, <3>2
  <2>4. CASE j # last
    <3>1. j \in NotUsers(c) \ {b} /\ e[j] = c[j]
      BY <1>4, <2>4
    <3>. QED
      BY <1>1, <1>7, <2>2, <3>1 DEF Ordered
  <2>. QED
    BY <2>3, <2>4
<1>8. NotUsers(e) \subseteq b..Len(e)
  <2>1. b \in 1..Len(c)
    BY <1>3
  <2>2. ASSUME NEW k \in NotUsers(e) PROVE k \in b..Len(e)
    <3>1. CASE k = last
      BY <1>2, <2>1, <3>1 DEF last
    <3>2. CASE k # last
      BY <1>1, <1>2, <1>4, <3>2 DEF last
    <3>. QED
      BY <3>1, <3>2
  <2>. QED
    BY <2>2
<1>9. b \in NotUsers(e) /\ e[b] = Begin
  BY <1>1, <1>3
<1>10. Ordered(e, w, NotUsers(e) \ {b})
  BY <1>6, <1>7 DEF Ordered
<1>. QED
  BY <1>6, <1>8, <1>9, <1>10 DEF OpenBlock

\* The places passed without a feed leave the block what it was.
LEMMA BlockStays ==
    ASSUME NEW c, NEW w, NEW n \in Nat, DOMAIN w \subseteq Int, OpenBlock(c, w, n)
    PROVE  OpenBlock(c, w, n + 1)
<1>1. PICK b \in NotUsers(c) :
         /\ c[b] = Begin
         /\ NotUsers(c) \subseteq b..Len(c)
         /\ Ordered(c, w, NotUsers(c) \ {b})
         /\ \A i \in NotUsers(c) \ {b} : \A x \in At(w, c[i].of) : x <= n
  BY DEF OpenBlock
<1>2. ASSUME NEW i \in NotUsers(c) \ {b}, NEW x \in At(w, c[i].of) PROVE x <= n + 1
  <2>1. x <= n /\ x \in Int
    BY <1>1 DEF At
  <2>. QED
    BY <2>1
<1>. QED
  BY <1>1, <1>2 DEF OpenBlock

\* The end of the block is the last line.
LEMMA BlockClosed ==
    ASSUME NEW c, NEW e, NEW w, NEW n, Shifted(c, e, 0, End), OpenBlock(c, w, n)
    PROVE  ClosedBlock(e, w)
<1>1. PICK b \in NotUsers(c) :
         /\ c[b] = Begin
         /\ NotUsers(c) \subseteq b..Len(c)
         /\ Ordered(c, w, NotUsers(c) \ {b})
  BY DEF OpenBlock
<1>2. /\ Len(c) \in Nat /\ Len(e) = Len(c) + 1 /\ e[Len(e)] = End /\ DOMAIN e = 1..Len(e)
      /\ NotUsers(e) \subseteq 1..Len(e)
  <2>1. /\ Len(c) \in Nat /\ Len(e) = Len(c) + 1 /\ e[Len(c) + 1] = End
        /\ DOMAIN e = 1..(Len(c) + 1)
    BY DEF Shifted
  <2>2. NotUsers(e) \subseteq 1..Len(e)
    BY ShiftedManaged
  <2>. QED
    BY <2>1, <2>2
<1>3. Len(e) \in NotUsers(e)
  BY <1>2, LineFacts DEF NotUsers
<1>4. b \in NotUsers(e) /\ e[b] = Begin /\ b \in 1..Len(c)
  <2>1. b + 0 \in NotUsers(e) /\ e[b + 0] = c[b] /\ b \in 1..Len(c)
    BY ShiftedManaged
  <2>. QED
    BY <1>1, <2>1
<1>5. \A k \in NotUsers(e) \ {Len(e)} : k - 0 \in NotUsers(c) /\ e[k] = c[k - 0] /\ k - 0 = k
  BY <1>2, ShiftedManaged
<1>6. Ordered(e, w, NotUsers(e) \ {b, Len(e)})
  <2>1. \A k \in NotUsers(e) \ {b, Len(e)} : k - 0 \in NotUsers(c) \ {b} /\ e[k] = c[k - 0]
    BY <1>5
  <2>2. NotUsers(e) \ {b, Len(e)} \subseteq Int
    BY <1>2
  <2>. QED
    BY <1>1, <2>1, <2>2, ShiftedOrder
<1>7. NotUsers(e) \subseteq b..Len(e)
  <2>1. ASSUME NEW k \in NotUsers(e), k # Len(e) PROVE k >= b
    BY <1>1, <1>5, <2>1
  <2>. QED
    BY <1>2, <1>4, <2>1
<1>. QED
  BY <1>2, <1>3, <1>4, <1>6, <1>7 DEF ClosedBlock

-----------------------------------------------------------------------------
(* What the run writes.                                                    *)

\* Once the block of an earlier run is gone, all that is managed is the one
\* that this run writes.
BlockInv ==
    /\ pc \in {"key", "clean"} => ~removed
    /\ pc = "begin" /\ removed => NotUsers(conf) = {}
    /\ pc = "probe" /\ removed => OpenBlock(conf, Wanted(script), Asked)
    /\ pc \in {"update", "done", "failed"} /\ removed => ClosedBlock(conf, Wanted(script))

\* The dir that is listed for the place i of w, where there are dirs.
Chosen(w, dirs, i) ==
    {dir \in Range(w[i]) : dir \in dirs /\ (dir = w[i][1] \/ w[i][1] \notin dirs)}

ChosenOf(w, dirs, n) == UNION {Chosen(w, dirs, i) : i \in 1..n}

\* A run that nothing disturbs has listed what there is for the places it is
\* through with, and asks for a second dir only where there is no first.
ListsInv ==
    /\ quiet /\ pc = "probe" =>
         /\ ListedIn(conf) = ChosenOf(Wanted(script), server.dirs, Asked)
         /\ todo # <<>> /\ todo[1] # Wanted(script)[Asked + 1] =>
              Wanted(script)[Asked + 1][1] \notin server.dirs
    /\ quiet /\ pc \in {"update", "done", "failed"} =>
         ListedIn(conf) = ChosenOf(Wanted(script), server.dirs, Places)
    /\ QuietRunUpdates

InstallInv ==
    TypeOK /\ LinesInv /\ RunInv /\ TodoInv /\ BlockInv /\ ListsInv

\* What is asked for next is a dir of the next place: the first, or the second.
LEMMA NextFacts ==
    ASSUME RunInv, TodoInv, pc = "probe", todo # <<>>
    PROVE  LET w == Wanted(script)[Asked + 1]
               dir == Head(Head(todo))
           IN  /\ Asked \in Nat /\ Asked + 1 \in 1..Places /\ Head(todo) = todo[1]
               /\ dir \in Range(w) /\ At(Wanted(script), dir) = {Asked + 1}
               /\ \/ /\ todo[1] = w /\ dir = w[1]
                     /\ \/ Len(Head(todo)) = 1 /\ Range(w) = {w[1]}
                        \/ Len(Head(todo)) = 2 /\ Range(w) = {w[1], w[2]}
                  \/ /\ todo[1] # w /\ dir = w[2] /\ w[1] # w[2]
                     /\ Len(Head(todo)) = 1 /\ Range(w) = {w[1], w[2]}
<1> DEFINE W == Wanted(script)
           w == W[Asked + 1]
           dir == Head(Head(todo))
<1>1. /\ todo \in Seq(Entries) /\ Asked \in 0..Len(W)
      /\ todo[1] = w \/ (Len(w) = 2 /\ todo[1] = Tail(w))
  BY DEF TodoInv
<1>2. ScriptOK
  BY DEF RunInv
<1>3. Len(W) = Places /\ Len(W) \in Nat /\ DOMAIN W = 1..Places
  BY <1>2, WantedFacts DEF Places
<1>4. Asked = Len(W) - Len(todo)
  BY DEF Asked
<1>. HIDE DEF W
<1>5. Len(todo) \in Nat \ {0} /\ Head(todo) = todo[1]
  BY <1>1
<1>6. Asked \in Nat /\ Asked + 1 \in 1..Places
  BY <1>1, <1>3, <1>4, <1>5
<1>7. \/ Len(w) = 1 /\ w = <<w[1]>> /\ Range(w) = {w[1]}
      \/ /\ Len(w) = 2 /\ w = <<w[1], w[2]>> /\ Range(w) = {w[1], w[2]}
         /\ Tail(w) = <<w[2]>> /\ w[1] # w[2]
  BY <1>2, <1>6, PlaceFacts DEF W
<1>8. \A a : Head(<<a>>) = a /\ Len(<<a>>) = 1
  OBVIOUS
<1>9. \A a, b : Head(<<a, b>>) = a /\ Len(<<a, b>>) = 2 /\ <<a, b>> # <<b>> /\ 1 # 2
  OBVIOUS
<1>. HIDE DEF w
<1>10. \/ /\ todo[1] = w /\ dir = w[1]
          /\ \/ Len(Head(todo)) = 1 /\ Range(w) = {w[1]}
             \/ Len(Head(todo)) = 2 /\ Range(w) = {w[1], w[2]}
       \/ /\ todo[1] # w /\ dir = w[2] /\ w[1] # w[2]
          /\ Len(Head(todo)) = 1 /\ Range(w) = {w[1], w[2]}
  <2>1. CASE todo[1] = w /\ Len(w) = 1
    BY <1>5, <1>7, <1>8, <1>9, <2>1, Zenon
  <2>2. CASE todo[1] = w /\ Len(w) = 2
    <3>1. w = <<w[1], w[2]>> /\ Range(w) = {w[1], w[2]}
      BY <1>7, <1>9, <2>2, Zenon
    <3>2. Head(w) = w[1]
      BY <1>9, <3>1, Zenon
    <3>. QED
      BY <1>5, <2>2, <3>1, <3>2, Zenon
  <2>3. CASE todo[1] = Tail(w) /\ Len(w) = 2
    <3>1. /\ w = <<w[1], w[2]>> /\ Range(w) = {w[1], w[2]}
          /\ Tail(w) = <<w[2]>> /\ w[1] # w[2]
      BY <1>7, <1>9, <2>3, Zenon
    <3>2. Head(todo) = <<w[2]>> /\ Len(Head(todo)) = 1 /\ dir = w[2]
      BY <1>5, <1>8, <2>3, <3>1, Zenon
    <3>3. todo[1] # w
      BY <1>9, <2>3, <3>1, Zenon
    <3>. QED
      BY <3>1, <3>2, <3>3, Zenon
  <2>. QED
    BY <1>1, <1>7, <2>1, <2>2, <2>3, Zenon
<1>11. dir \in Range(w)
  BY <1>10
<1>12. At(W, dir) = {Asked + 1}
  <2>1. Asked + 1 \in At(W, dir)
    BY <1>3, <1>6, <1>11 DEF At, w
  <2>2. ASSUME NEW j \in At(W, dir) PROVE j = Asked + 1
    BY <1>2, <1>3, <1>6, <1>11, PlacedOnce DEF At, w, W
  <2>. QED
    BY <2>1, <2>2
<1>. QED
  BY <1>5, <1>6, <1>10, <1>11, <1>12 DEF w, W

\* Of a script that stays what it is the places do too.
LEMMA SameScript ==
    ASSUME script' = script
    PROVE  Wanted(script)' = Wanted(script) /\ Places' = Places
<1>1. Wanted(script)' = Wanted(script)
  BY Zenon
<1>. QED
  BY <1>1 DEF Places, Feeds

\* A step that neither writes nor goes on with the block leaves it what it is.
LEMMA BlockKept ==
    ASSUME BlockInv, UNCHANGED <<script, pc, todo, removed>>,
           \/ UNCHANGED conf
           \/ \E d, l : Shifted(conf, conf', d, l) /\ l.kind = "user"
    PROVE  BlockInv'
<1>1. Wanted(script)' = Wanted(script) /\ Asked' = Asked
  BY SameScript DEF Asked
<1>2. CASE UNCHANGED conf
  BY <1>1, <1>2 DEF BlockInv
<1>3. ASSUME NEW d, NEW l, Shifted(conf, conf', d, l) /\ l.kind = "user"
      PROVE  BlockInv'
  <2>1. NotUsers(conf) = {} => NotUsers(conf') = {}
    BY <1>3, BlockAndUser
  <2>2. OpenBlock(conf, Wanted(script), Asked) => OpenBlock(conf', Wanted(script), Asked)
    BY <1>3, BlockAndUser
  <2>3. ClosedBlock(conf, Wanted(script)) => ClosedBlock(conf', Wanted(script))
    BY <1>3, BlockAndUser
  <2>. QED
    BY <1>1, <2>1, <2>2, <2>3 DEF BlockInv
<1>. QED
  BY <1>2, <1>3

\* The block, at every step.
LEMMA BlockStep ==
    ASSUME TypeOK, LinesInv, RunInv, TodoInv, BlockInv, [Next]_installVars
    PROVE  BlockInv'
<1>1. CASE Rebuild \/ Upgrade
  <2>1. UNCHANGED <<script, pc, todo, removed, conf>>
    BY <1>1 DEF Rebuild, Upgrade, routerVars
  <2>. QED
    BY <2>1, BlockKept
<1>2. CASE AddUserLine
  <2>1. UNCHANGED <<script, pc, todo, removed>>
    BY <1>2, AddUserLineFacts DEF TypeOK, scriptVars
  <2>2. \E d, l : Shifted(conf, conf', d, l) /\ l.kind = "user"
    BY <1>2, AddUserLineFacts, LineFacts DEF TypeOK
  <2>. QED
    BY <2>1, <2>2, BlockKept
<1>3. CASE Interrupt
  BY <1>3 DEF Interrupt, Stopped, BlockInv
<1>4. CASE Start
  BY <1>4 DEF Start, BlockInv
<1>5. CASE InstallKey \/ NoKey
  BY <1>5 DEF InstallKey, NoKey, BlockInv
<1>6. CASE RemoveBlock
  <2>1. \A k \in 1..Len(conf') : conf'[k].kind = "user"
    BY <1>6, RemoveFacts DEF TypeOK
  <2>2. DOMAIN conf' = 1..Len(conf')
    BY <1>6, RemoveFacts DEF TypeOK
  <2>3. pc' = "begin" /\ NotUsers(conf') = {}
    BY <1>6, <2>1, <2>2 DEF RemoveBlock, NotUsers
  <2>. QED
    BY <2>3 DEF BlockInv
<1>7. CASE RemoveFails
  BY <1>7 DEF RemoveFails, BlockInv
<1>8. CASE BeginBlock
  <2>1. /\ Shifted(conf, conf', 0, Begin) /\ pc = "begin" /\ pc' = "probe"
        /\ removed' = removed /\ script' = script /\ todo' = Wanted(script)
    BY <1>8, AddedFacts, LineFacts DEF BeginBlock, TypeOK
  <2>2. Wanted(script)' = Wanted(script) /\ Asked' = 0
    <3>1. Len(Wanted(script)) \in Nat
      BY WantedFacts DEF RunInv, Places
    <3>2. Wanted(script)' = Wanted(script)
      BY <2>1, SameScript
    <3>. QED
      BY <2>1, <3>1, <3>2 DEF Asked
  <2>3. removed => OpenBlock(conf', Wanted(script), 0)
    BY <2>1, BlockOpened DEF BlockInv
  <2>. QED
    BY <2>1, <2>2, <2>3 DEF BlockInv
<1>9. CASE AddFeed
  <2>1. /\ Shifted(conf, conf', 0, Src(Head(Head(todo)))) /\ pc = "probe" /\ pc' = "probe"
        /\ removed' = removed /\ script' = script
        /\ todo # <<>> /\ todo' = Tail(todo)
    <3>1. Src(Head(Head(todo))) \in Lines
      BY <1>9, LineFacts DEF AddFeed, TypeOK
    <3>. QED
      BY <1>9, <3>1, AddedFacts DEF AddFeed, TypeOK
  <2>2. Wanted(script)' = Wanted(script) /\ Asked' = Asked + 1
    BY <2>1, SameScript, TodoTail DEF RunInv
  <2>3. Asked \in Nat /\ At(Wanted(script), Head(Head(todo))) = {Asked + 1}
    BY <2>1, NextFacts
  <2>4. DOMAIN Wanted(script) \subseteq Int
    BY WantedFacts DEF RunInv, Places
  <2>5. removed => OpenBlock(conf, Wanted(script), Asked)
    BY <2>1 DEF BlockInv
  <2>6. removed => OpenBlock(conf', Wanted(script), Asked + 1)
    BY <2>1, <2>3, <2>4, <2>5, BlockGrows
  <2>. QED
    BY <2>1, <2>2, <2>6 DEF BlockInv
<1>10. CASE NoFeed \/ ProbeFails
  <2>1. /\ pc = "probe" /\ pc' = "probe" /\ todo # <<>> /\ NextFeed
        /\ UNCHANGED <<conf, script, removed>>
    BY <1>10 DEF NoFeed, ProbeFails, routerVars
  <2>2. Wanted(script)' = Wanted(script) /\ Asked' \in {Asked, Asked + 1}
    BY <2>1, SameScript, TodoTail, TodoSecond DEF RunInv, NextFeed
  <2>3. Asked \in Nat /\ DOMAIN Wanted(script) \subseteq Int
    BY <2>1, NextFacts, WantedFacts DEF RunInv, Places
  <2>4. removed => OpenBlock(conf, Wanted(script), Asked)
    BY <2>1 DEF BlockInv
  <2>5. removed => OpenBlock(conf, Wanted(script), Asked')
    BY <2>2, <2>3, <2>4, BlockStays
  <2>. QED
    BY <2>1, <2>2, <2>5 DEF BlockInv
<1>11. CASE EndBlock
  <2>1. /\ Shifted(conf, conf', 0, End) /\ pc = "probe" /\ pc' = "update"
        /\ removed' = removed /\ script' = script
    BY <1>11, AddedFacts, LineFacts DEF EndBlock, TypeOK
  <2>2. Wanted(script)' = Wanted(script)
    BY <2>1, SameScript
  <2>3. removed => ClosedBlock(conf', Wanted(script))
    BY <2>1, BlockClosed DEF BlockInv
  <2>. QED
    BY <2>1, <2>2, <2>3 DEF BlockInv
<1>12. CASE Update \/ UpdateFails
  <2>1. pc = "update" /\ pc' \in {"done", "failed"} /\ UNCHANGED <<conf, script, removed>>
    BY <1>12 DEF Update, UpdateFails, Stopped, routerVars
  <2>2. Wanted(script)' = Wanted(script)
    BY <2>1, SameScript
  <2>. QED
    BY <2>1, <2>2 DEF BlockInv
<1>13. CASE UNCHANGED installVars
  <2>1. UNCHANGED <<script, pc, todo, removed, conf>>
    BY <1>13 DEF installVars, routerVars, scriptVars
  <2>. QED
    BY <2>1, BlockKept
<1>. QED
  BY <1>1, <1>2, <1>3, <1>4, <1>5, <1>6, <1>7, <1>8, <1>9, <1>10, <1>11, <1>12, <1>13
     DEF Next

\* What is listed for one more place.
LEMMA ChosenFacts ==
    ASSUME NEW w, NEW dirs
    PROVE  /\ ChosenOf(w, dirs, 0) = {}
           /\ \A n \in Nat :
                /\ ChosenOf(w, dirs, n + 1) = ChosenOf(w, dirs, n) \cup Chosen(w, dirs, n + 1)
                /\ ChosenOf(w, dirs, n) \subseteq dirs
<1>1. ChosenOf(w, dirs, 0) = {}
  BY DEF ChosenOf
<1>2. ASSUME NEW n \in Nat
      PROVE  ChosenOf(w, dirs, n + 1) = ChosenOf(w, dirs, n) \cup Chosen(w, dirs, n + 1)
  <2>1. 1..(n + 1) = (1..n) \cup {n + 1}
    OBVIOUS
  <2>. QED
    BY <2>1 DEF ChosenOf
<1>3. ASSUME NEW n \in Nat PROVE ChosenOf(w, dirs, n) \subseteq dirs
  BY DEF ChosenOf, Chosen
<1>. QED
  BY <1>1, <1>2, <1>3

\* What is listed, at every step.
LEMMA ListsStep ==
    ASSUME TypeOK, LinesInv, RunInv, TodoInv, BlockInv, ListsInv, [Next]_installVars
    PROVE  ListsInv'
<1> DEFINE W == Wanted(script)
           dirs == server.dirs
<1>0. ASSUME ~quiet' PROVE ListsInv'
  BY <1>0 DEF ListsInv, QuietRunUpdates
<1>00. ASSUME pc' \in {"key", "clean", "begin"} PROVE ListsInv'
  BY <1>00 DEF ListsInv, QuietRunUpdates
<1>1. CASE Rebuild \/ Upgrade \/ Interrupt \/ NoKey \/ RemoveFails \/ ProbeFails
  BY <1>0, <1>1 DEF Rebuild, Upgrade, Interrupt, NoKey, RemoveFails, ProbeFails, Change,
     Fault
<1>2. CASE Start \/ InstallKey \/ RemoveBlock
  BY <1>00, <1>2 DEF Start, InstallKey, RemoveBlock
<1>3. CASE AddUserLine
  <2>1. UNCHANGED <<script, pc, todo, removed, quiet, server>>
    BY <1>3, AddUserLineFacts DEF TypeOK, scriptVars
  <2>2. PICK d, x : Shifted(conf, conf', d, User(x))
    BY <1>3, AddUserLineFacts DEF TypeOK
  <2>3. ListedIn(conf') = ListedIn(conf)
    <3>1. User(x).kind \notin {"feed", "old"}
      BY LineFacts
    <3>. QED
      BY <2>2, <3>1, ShiftedListed
  <2>4. Wanted(script)' = Wanted(script) /\ Asked' = Asked /\ Places' = Places
    BY <2>1, SameScript DEF Asked
  <2>. QED
    BY <2>1, <2>3, <2>4 DEF ListsInv, QuietRunUpdates
<1>4. CASE BeginBlock
  <2>1. /\ Shifted(conf, conf', 0, Begin) /\ pc = "begin" /\ pc' = "probe"
        /\ todo' = Wanted(script) /\ UNCHANGED <<script, quiet, server, removed>>
    BY <1>4, AddedFacts, LineFacts DEF BeginBlock, TypeOK
  <2>2. Wanted(script)' = Wanted(script) /\ Asked' = 0
    <3>1. Len(Wanted(script)) \in Nat
      BY WantedFacts DEF RunInv, Places
    <3>2. Wanted(script)' = Wanted(script)
      BY <2>1, SameScript
    <3>. QED
      BY <2>1, <3>1, <3>2 DEF Asked
  <2>3. quiet => ListedIn(conf) = {}
    <3>1. quiet => NotUsers(conf) = {}
      BY <2>1 DEF RunInv, BlockInv
    <3>. QED
      BY <3>1 DEF NotUsers, ListedIn
  <2>4. ListedIn(conf') = ListedIn(conf)
    <3>1. Begin.kind \notin {"feed", "old"}
      BY LineFacts
    <3>. QED
      BY <2>1, <3>1, ShiftedListed
  <2>5. quiet => ListedIn(conf') = ChosenOf(W, dirs, 0)
    BY <2>3, <2>4, ChosenFacts
  <2>6. todo'[1] = Wanted(script)[0 + 1]
    BY <2>1
  <2>. QED
    BY <2>1, <2>2, <2>5, <2>6 DEF ListsInv, QuietRunUpdates
<1>5. CASE AddFeed
  <2> DEFINE dir == Head(Head(todo))
             w == W[Asked + 1]
  <2>1. /\ Shifted(conf, conf', 0, Src(dir)) /\ pc = "probe" /\ pc' = "probe"
        /\ UNCHANGED <<script, quiet, server>> /\ dir \in dirs
        /\ todo # <<>> /\ todo' = Tail(todo)
    <3>1. Src(dir) \in Lines
      BY <1>5, LineFacts DEF AddFeed, TypeOK
    <3>. QED
      BY <1>5, <3>1, AddedFacts DEF AddFeed, TypeOK
  <2>2. Wanted(script)' = Wanted(script) /\ Asked' = Asked + 1 /\ TodoInv'
    BY <2>1, SameScript, TodoTail DEF RunInv
  <2>3. ListedIn(conf') = ListedIn(conf) \cup {dir}
    BY <2>1, ShiftedListed, LineFacts
  <2>4. quiet => Chosen(W, dirs, Asked + 1) = {dir}
    <3>1. /\ dir \in Range(w)
          /\ \/ todo[1] = w /\ dir = w[1]
             \/ todo[1] # w /\ dir = w[2] /\ w[1] # w[2] /\ Range(w) = {w[1], w[2]}
      BY <2>1, NextFacts
    <3>2. quiet => (todo[1] # w => w[1] \notin dirs)
      BY <2>1 DEF ListsInv
    <3>3. Chosen(W, dirs, Asked + 1)
          = {x \in Range(w) : x \in dirs /\ (x = w[1] \/ w[1] \notin dirs)}
      BY DEF Chosen
    <3>. HIDE DEF w, dir, dirs, W
    <3>. QED
      BY <2>1, <3>1, <3>2, <3>3
  <2>5. Asked \in Nat
    BY <2>1, NextFacts
  <2>6. quiet => ListedIn(conf') = ChosenOf(W, dirs, Asked + 1)
    <3>1. quiet => ListedIn(conf) = ChosenOf(W, dirs, Asked)
      BY <2>1 DEF ListsInv
    <3>2. ChosenOf(W, dirs, Asked + 1) = ChosenOf(W, dirs, Asked) \cup Chosen(W, dirs, Asked + 1)
      BY <2>5, ChosenFacts, Zenon
    <3>. HIDE DEF W, dirs, dir
    <3>. QED
      BY <2>3, <2>4, <3>1, <3>2
  <2>7. todo' # <<>> => todo'[1] = Wanted(script)[Asked' + 1]
    <3>1. todo \in Seq(Entries) /\ \A j \in 2..Len(todo) : todo[j] = Wanted(script)[Asked + j]
      BY <2>1 DEF TodoInv
    <3>2. Tail(todo) # <<>> => 2 \in 2..Len(todo) /\ Tail(todo)[1] = todo[2]
      BY <2>1, <3>1
    <3>3. Asked' + 1 = Asked + 2
      BY <2>2, <2>5
    <3>. QED
      BY <2>1, <3>1, <3>2, <3>3
  <2>8. pc' \notin {"update", "done", "failed"}
    BY <2>1
  <2>. QED
    BY <2>1, <2>2, <2>6, <2>7, <2>8 DEF ListsInv, QuietRunUpdates
<1>6. CASE NoFeed
  <2> DEFINE dir == Head(Head(todo))
             w == W[Asked + 1]
  <2>1. /\ pc = "probe" /\ pc' = "probe" /\ todo # <<>> /\ dir \notin dirs /\ NextFeed
        /\ UNCHANGED <<script, quiet, server, conf>>
    BY <1>6 DEF NoFeed, routerVars
  <2>2. Wanted(script)' = Wanted(script)
    BY <2>1, SameScript
  <2>3. quiet => /\ ListedIn(conf) = ChosenOf(W, dirs, Asked)
                 /\ todo[1] # w => w[1] \notin dirs
    BY <2>1 DEF ListsInv
  <2>4. /\ Asked \in Nat
        /\ \/ /\ todo[1] = w /\ dir = w[1]
              /\ \/ Len(Head(todo)) = 1 /\ Range(w) = {w[1]}
                 \/ Len(Head(todo)) = 2
           \/ /\ todo[1] # w /\ dir = w[2]
              /\ Len(Head(todo)) = 1 /\ Range(w) = {w[1], w[2]}
    BY <2>1, NextFacts
  <2>5. CASE Len(Head(todo)) > 1
    <3>1. Asked' = Asked
      BY <2>1, <2>5, TodoSecond DEF RunInv, NextFeed
    <3>2. w[1] \notin dirs
      <4>1. ~(1 > 1)
        OBVIOUS
      <4>2. todo[1] = w /\ dir = w[1]
        BY <2>4, <2>5, <4>1, Zenon
      <4>. QED
        BY <2>1, <4>2, Zenon
    <3>. HIDE DEF dir
    <3>. QED
      BY <2>1, <2>2, <2>3, <3>1, <3>2 DEF ListsInv, QuietRunUpdates
  <2>6. CASE ~(Len(Head(todo)) > 1)
    <3>1. todo' = Tail(todo) /\ Asked' = Asked + 1
      BY <2>1, <2>6, TodoTail DEF RunInv, NextFeed
    <3>2. quiet => \A x \in Range(w) : x \notin dirs
      <4>1. 2 > 1
        OBVIOUS
      <4>2. \/ dir = w[1] /\ Range(w) = {w[1]}
            \/ todo[1] # w /\ dir = w[2] /\ Range(w) = {w[1], w[2]}
        BY <2>4, <2>6, <4>1, Zenon
      <4>3. dir \notin dirs /\ (quiet => (todo[1] # w => w[1] \notin dirs))
        BY <2>1, <2>3, Zenon
      <4>. HIDE DEF w, dir, dirs, W
      <4>. QED
        BY <4>2, <4>3
    <3>3. quiet => Chosen(W, dirs, Asked + 1) = {}
      BY <3>2 DEF Chosen
    <3>4. quiet => ListedIn(conf) = ChosenOf(W, dirs, Asked + 1)
      <4>1. ChosenOf(W, dirs, Asked + 1)
            = ChosenOf(W, dirs, Asked) \cup Chosen(W, dirs, Asked + 1)
        BY <2>4, ChosenFacts, Zenon
      <4>. QED
        BY <2>3, <3>3, <4>1
    <3>5. todo' # <<>> => todo'[1] = Wanted(script)[Asked' + 1]
      <4>1. todo \in Seq(Entries) /\ \A j \in 2..Len(todo) : todo[j] = Wanted(script)[Asked + j]
        BY <2>1 DEF TodoInv
      <4>2. Tail(todo) # <<>> => 2 \in 2..Len(todo) /\ Tail(todo)[1] = todo[2]
        BY <2>1, <4>1
      <4>3. Asked' + 1 = Asked + 2
        BY <2>4, <3>1
      <4>. QED
        BY <3>1, <4>1, <4>2, <4>3
    <3>. QED
      BY <2>1, <2>2, <3>1, <3>4, <3>5 DEF ListsInv, QuietRunUpdates
  <2>. QED
    BY <2>5, <2>6
<1>7. CASE EndBlock
  <2>1. /\ Shifted(conf, conf', 0, End) /\ pc = "probe" /\ pc' = "update"
        /\ todo = <<>> /\ UNCHANGED <<script, quiet, server>>
    BY <1>7, AddedFacts, LineFacts DEF EndBlock, TypeOK
  <2>2. Wanted(script)' = Wanted(script) /\ Places' = Places
    BY <2>1, SameScript
  <2>3. Asked = Places
    <3>1. Len(Wanted(script)) = Places /\ Places \in Nat /\ Len(todo) = 0
      BY <2>1, WantedFacts DEF RunInv, Places
    <3>. QED
      BY <3>1 DEF Asked
  <2>4. ListedIn(conf') = ListedIn(conf)
    <3>1. End.kind \notin {"feed", "old"}
      BY LineFacts
    <3>. QED
      BY <2>1, <3>1, ShiftedListed
  <2>. QED
    BY <2>1, <2>2, <2>3, <2>4 DEF ListsInv, QuietRunUpdates
<1>8. CASE Update
  <2>1. pc = "update" /\ pc' = "done" /\ UNCHANGED <<script, quiet, server, conf>>
    BY <1>8 DEF Update, Stopped, routerVars
  <2>2. Wanted(script)' = Wanted(script) /\ Places' = Places
    BY <2>1, SameScript
  <2>. QED
    BY <2>1, <2>2 DEF ListsInv, QuietRunUpdates
<1>9. CASE UpdateFails
  <2>1. pc = "update" /\ pc' = "failed" /\ UNCHANGED <<script, server, conf>>
    BY <1>9 DEF UpdateFails, Stopped, routerVars
  <2>2. Wanted(script)' = Wanted(script) /\ Places' = Places
    BY <2>1, SameScript
  <2>3. ~quiet' \/ (quiet' = quiet /\ ~Updatable)
    BY <1>9 DEF UpdateFails, Fault
  <2>4. quiet => ListedIn(conf) = ChosenOf(W, dirs, Places)
    BY <2>1 DEF ListsInv
  <2>5. quiet => Listed \subseteq dirs
    <3>1. Places \in Nat
      BY WantedFacts DEF RunInv, Places
    <3>2. Listed = ListedIn(conf)
      BY DEF Listed, ListedIn
    <3>. QED
      BY <2>4, <3>1, <3>2, ChosenFacts
  <2>6. quiet /\ server.key # None => Trusted
    <3>1. SUFFICES ASSUME quiet, server.key # None PROVE Trusted
      OBVIOUS
    <3>2. keys[KeyName(server.key)] = server.key
      BY <2>1, <3>1 DEF RunInv
    <3>3. format \in {"ipk", "apk"} /\ None \in DOMAIN keys
      BY DEF TypeOK
    <3>. QED
      BY <3>1, <3>2, <3>3 DEF Trusted, KeyName
  <2>7. ~(quiet' /\ server.key # None)
    BY <2>3, <2>5, <2>6 DEF Updatable
  <2>8. QuietRunUpdates'
    BY <2>1, <2>7 DEF QuietRunUpdates
  <2>. QED
    BY <2>1, <2>2, <2>3, <2>4, <2>8 DEF ListsInv
<1>10. CASE UNCHANGED installVars
  <2>1. UNCHANGED <<script, pc, todo, quiet, server, conf>>
    BY <1>10 DEF installVars, routerVars, scriptVars
  <2>2. Wanted(script)' = Wanted(script) /\ Places' = Places /\ Asked' = Asked
    BY <2>1, SameScript DEF Asked
  <2>. QED
    BY <2>1, <2>2 DEF ListsInv, QuietRunUpdates
<1>. QED
  BY <1>1, <1>2, <1>3, <1>4, <1>5, <1>6, <1>7, <1>8, <1>9, <1>10 DEF Next

-----------------------------------------------------------------------------
(* The theorems.                                                           *)

\* A router that the script has not run on.
LEMMA InstallInit == Init => InstallInv
<1>. SUFFICES ASSUME Init PROVE InstallInv
  OBVIOUS
<1>1. PICK r \in Releases : script = Script(r)
  BY DEF Init
<1>2. server \in Servers /\ server.key \in Keys \cup {None}
  BY InstallerAssumption DEF Init
<1>3. /\ script.release = r /\ script.feeds = server.feeds[r[1]] /\ script.key = server.key
  BY <1>1 DEF Script
<1>4. ScriptOK
  BY <1>2, <1>3, InstallerAssumption DEF ScriptOK
<1>5. conf \in InitLists /\ conf \in Seq(Range(conf)) /\ \A l \in Range(conf) : l.kind \in {"old", "user"}
  BY InstallerAssumption DEF Init
<1>6. conf \in Seq(Lines)
  <2>1. Range(conf) \subseteq Lines
    BY <1>5, Zenon DEF Lines
  <2>. QED
    BY <1>5, <2>1
<1>7. TypeOK
  <2>1. /\ runs \in 0..MaxRuns /\ changes \in 0..MaxChanges /\ faults \in 0..MaxFaults
    BY InstallerAssumption DEF Init
  <2>2. keys \in [Keys \cup {None} -> Keys \cup {None}]
    BY DEF Init
  <2>3. /\ format \in {"ipk", "apk"} /\ kernel \in Kernels \cup {None}
        /\ pc = "idle" /\ todo = <<>> /\ kept = {} /\ quiet = FALSE /\ removed = FALSE
    BY DEF Init
  <2>. QED
    BY <1>2, <1>3, <1>6, <2>1, <2>2, <2>3 DEF TypeOK, Steps
<1>8. LinesInv
  <2>1. \A i \in 1..Len(conf) : conf[i].kind \in {"old", "user"}
    BY <1>5 DEF Range
  <2>2. format = "apk" => \A i \in 1..Len(conf) : conf[i].kind # "old"
    BY <1>5 DEF Init
  <2>3. kept = {} /\ pc = "idle"
    BY DEF Init
  <2>. QED
    BY <2>1, <2>2, <2>3 DEF LinesInv
<1>9. RunInv /\ TodoInv /\ BlockInv /\ ListsInv
  <2>1. pc = "idle" /\ todo = <<>> /\ quiet = FALSE /\ removed = FALSE
    BY DEF Init
  <2>. QED
    BY <1>4, <2>1 DEF RunInv, TodoInv, BlockInv, ListsInv, QuietRunUpdates
<1>. QED
  BY <1>7, <1>8, <1>9 DEF InstallInv

\* Whatever happens to the server, the router and the list between two steps
\* of add.sh, all that is said of them stays true.
THEOREM InstallInvariance == Spec => []InstallInv
<1>1. Init => InstallInv
  BY InstallInit
<1>2. InstallInv /\ [Next]_installVars => InstallInv'
  <2>. SUFFICES ASSUME InstallInv, [Next]_installVars PROVE InstallInv'
    OBVIOUS
  <2>1. TypeOK /\ LinesInv /\ RunInv /\ TodoInv /\ BlockInv /\ ListsInv
    BY DEF InstallInv
  <2>2. TypeOK'
    BY <2>1, TypeStep
  <2>3. LinesInv'
    BY <2>1, LinesStep
  <2>4. RunInv' /\ TodoInv'
    BY <2>1, RunStep
  <2>5. BlockInv'
    BY <2>1, BlockStep
  <2>6. ListsInv'
    BY <2>1, ListsStep
  <2>. QED
    BY <2>2, <2>3, <2>4, <2>5, <2>6 DEF InstallInv
<1>. QED
  BY <1>1, <1>2, PTL DEF Spec

\* The state is of its type, at every step of the script and around it.
THEOREM InstallTypeCorrect == Spec => []TypeOK
<1>1. InstallInv => TypeOK
  BY DEF InstallInv
<1>. QED
  BY <1>1, InstallInvariance, PTL

\* However often add.sh is run, repeated and cut short, it takes no line away
\* that the user added outside of its blocks.
THEOREM UserLinesStayCorrect == Spec => []UserLinesStay
<1>1. InstallInv => UserLinesStay
  <2>. SUFFICES ASSUME InstallInv PROVE UserLinesStay
    OBVIOUS
  <2>1. DOMAIN conf = 1..Len(conf)
    BY DEF InstallInv, TypeOK
  <2>2. \A x \in kept : \E i \in 1..Len(conf) : conf[i] = User(x)
    BY DEF InstallInv, LinesInv
  <2>. QED
    BY <2>1, <2>2, LineFacts DEF UserLinesStay
<1>. QED
  BY <1>1, InstallInvariance, PTL

\* A run of add.sh that could rewrite the list leaves one block, whatever blocks
\* and parts of blocks it found, with one line at most for each feed, in order.
THEOREM OneBlockCorrect == Spec => []OneBlockOfThisRun
<1>1. InstallInv => OneBlockOfThisRun
  <2>. SUFFICES ASSUME InstallInv, pc \in {"update", "done", "failed"}, removed
                PROVE  \E b, e \in Managed :
                         /\ conf[b] = Begin /\ conf[e] = End
                         /\ Managed \subseteq b..e
                         /\ InOrder(Managed \ {b, e})
    BY DEF OneBlockOfThisRun
  <2>1. Managed = NotUsers(conf)
    BY DEF Managed, NotUsers
  <2>2. ClosedBlock(conf, Wanted(script))
    BY DEF InstallInv, BlockInv
  <2>3. \A dir : Placed(dir) = At(Wanted(script), dir)
    BY DEF Placed, At
  <2>4. \A is : Ordered(conf, Wanted(script), is) => InOrder(is)
    BY <2>3 DEF Ordered, InOrder
  <2>. QED
    BY <2>1, <2>2, <2>4 DEF ClosedBlock
<1>. QED
  BY <1>1, InstallInvariance, PTL

\* What is listed for a place with one dir.
LEMMA ChosenOne ==
    ASSUME NEW w, NEW dirs, NEW i, NEW a, w[i] = <<a>>
    PROVE  Chosen(w, dirs, i) = dirs \cap {a}
<1>1. <<a>>[1] = a /\ Range(<<a>>) = {a}
  BY RangeOfOne
<1>2. w[i][1] = a /\ Range(w[i]) = {a}
  BY <1>1, Zenon
<1>. QED
  BY <1>2 DEF Chosen

\* With two, the second only where the first is not there.
LEMMA ChosenTwo ==
    ASSUME NEW w, NEW dirs, NEW i, NEW a, NEW b, w[i] = <<a, b>>, a # b
    PROVE  Chosen(w, dirs, i) = dirs \cap ({a} \cup {x \in {b} : a \notin dirs})
<1>1. <<a, b>>[1] = a /\ Range(<<a, b>>) = {a, b}
  BY RangeOfTwo
<1>2. w[i][1] = a /\ Range(w[i]) = {a, b}
  BY <1>1, Zenon
<1>. QED
  BY <1>2 DEF Chosen

\* What is listed for all the places of a script that is the server's.
LEMMA ListedForAll ==
    ASSUME ScriptOK, script = Script(script.release)
    PROVE  LET r == script.release
               feeds == Range(server.feeds[r[1]])
               arch(f) == ArchDir(r[1], f)
           IN  ChosenOf(Wanted(script), server.dirs, Places)
               = server.dirs \cap
                   ({arch(f) : f \in feeds}
                    \cup {AllDir(r[1], f) : f \in {g \in feeds : arch(g) \notin server.dirs}}
                    \cup {KmodsDir(r, k) : k \in {kernel} \ {None}}
                    \cup {TargetsDir(r)})
<1> DEFINE r == script.release
           fs == script.feeds
           W == Wanted(script)
           dirs == server.dirs
           arch(f) == ArchDir(r[1], f)
           all(f) == AllDir(r[1], f)
           kmods == {KmodsDir(r, k) : k \in {kernel} \ {None}}
<1>1. script.kernel = kernel /\ server.feeds[r[1]] = fs
  BY DEF Script
<1>2. /\ Feeds \in Nat /\ DOMAIN W = 1..Places
      /\ \A i \in 1..Feeds : W[i] = <<arch(fs[i]), all(fs[i])>>
      /\ kernel # None => W[Feeds + 1] = <<KmodsDir(r, kernel)>>
      /\ W[Places] = <<TargetsDir(r)>>
  BY <1>1, WantedFacts
<1>3. Range(fs) = {fs[i] : i \in 1..Feeds}
  BY DEF ScriptOK, Feeds, Range
<1>4. ASSUME NEW i \in 1..Feeds
      PROVE  Chosen(W, dirs, i)
             = dirs \cap ({arch(fs[i])} \cup {x \in {all(fs[i])} : arch(fs[i]) \notin dirs})
  <2>1. W[i] = <<arch(fs[i]), all(fs[i])>>
    BY <1>2
  <2>2. arch(fs[i]) # all(fs[i])
    BY DEF ArchDir, AllDir
  <2>. HIDE DEF arch, all, W, dirs
  <2>. QED
    BY <2>1, <2>2, ChosenTwo
<1>5. kernel # None => Chosen(W, dirs, Feeds + 1) = dirs \cap {KmodsDir(r, kernel)}
  <2> DEFINE a == KmodsDir(r, kernel)
  <2>1. kernel # None => W[Feeds + 1] = <<a>>
    BY <1>2
  <2>. HIDE DEF W, dirs, a
  <2>2. kernel # None => Chosen(W, dirs, Feeds + 1) = dirs \cap {a}
    BY <2>1, ChosenOne
  <2>. QED
    BY <2>2 DEF a
<1>6. Chosen(W, dirs, Places) = dirs \cap {TargetsDir(r)}
  <2> DEFINE a == TargetsDir(r)
  <2>1. W[Places] = <<a>>
    BY <1>2
  <2>. HIDE DEF W, dirs, a
  <2>2. Chosen(W, dirs, Places) = dirs \cap {a}
    BY <2>1, ChosenOne
  <2>. QED
    BY <2>2 DEF a
<1>7. /\ \A i \in 1..Places : \/ i \in 1..Feeds \/ i = Places
                              \/ kernel # None /\ i = Feeds + 1
      /\ \A i \in 1..Feeds : i \in 1..Places
      /\ Places \in 1..Places
      /\ kernel # None => Feeds + 1 \in 1..Places
  BY <1>1, <1>2 DEF Places
<1>8. kmods = IF kernel = None THEN {} ELSE {KmodsDir(r, kernel)}
  OBVIOUS
<1>9. ChosenOf(W, dirs, Places)
      = (UNION {Chosen(W, dirs, i) : i \in 1..Feeds})
        \cup (dirs \cap kmods) \cup (dirs \cap {TargetsDir(r)})
  <2> DEFINE ch(i) == Chosen(W, dirs, i)
             at(i) == {x \in ch(i) : kernel # None}
  <2>1. at(Feeds + 1) = dirs \cap kmods
    <3>. HIDE DEF W, dirs, r, kmods
    <3>. QED
      BY <1>5, <1>8
  <2>2. ch(Places) = dirs \cap {TargetsDir(r)}
    BY <1>6
  <2>. HIDE DEF ch
  <2>3. UNION {ch(i) : i \in 1..Places}
        = (UNION {ch(i) : i \in 1..Feeds}) \cup at(Feeds + 1) \cup ch(Places)
    BY <1>7
  <2>. HIDE DEF at
  <2>4. UNION {ch(i) : i \in 1..Places}
        = (UNION {ch(i) : i \in 1..Feeds}) \cup (dirs \cap kmods) \cup (dirs \cap {TargetsDir(r)})
    BY <2>1, <2>2, <2>3, Zenon
  <2>. QED
    BY <2>4, Zenon DEF ChosenOf, ch
<1>10. UNION {Chosen(W, dirs, i) : i \in 1..Feeds}
       = dirs \cap ({arch(f) : f \in Range(fs)}
                    \cup {all(f) : f \in {g \in Range(fs) : arch(g) \notin dirs}})
  <2>. HIDE DEF W, dirs, arch, all, fs
  <2>. QED
    BY <1>3, <1>4
<1>11. ChosenOf(W, dirs, Places)
       = dirs \cap ({arch(f) : f \in Range(fs)}
                    \cup {all(f) : f \in {g \in Range(fs) : arch(g) \notin dirs}}
                    \cup kmods \cup {TargetsDir(r)})
  <2> DEFINE A == {arch(f) : f \in Range(fs)}
             B == {all(f) : f \in {g \in Range(fs) : arch(g) \notin dirs}}
             U == UNION {Chosen(W, dirs, i) : i \in 1..Feeds}
             c == ChosenOf(W, dirs, Places)
             t == {TargetsDir(r)}
  <2>1. c = U \cup (dirs \cap kmods) \cup (dirs \cap t) /\ U = dirs \cap (A \cup B)
    BY <1>9, <1>10, Zenon
  <2>. HIDE DEF A, B, U, c, t, kmods, dirs
  <2>2. c = dirs \cap (A \cup B \cup kmods \cup t)
    BY <2>1
  <2>. QED
    BY <2>2 DEF A, B, c, t
<1>. QED
  BY <1>1, <1>11

\* A run of add.sh that nothing disturbs lists exactly what the server has for
\* this router.
THEOREM QuietRunListsAllCorrect == Spec => []QuietRunListsAll
<1>1. InstallInv => QuietRunListsAll
  <2>. SUFFICES ASSUME InstallInv, pc \in {"update", "done", "failed"}, quiet
                PROVE  QuietRunListsAll
    BY DEF QuietRunListsAll
  <2>1. ScriptOK /\ script = Script(script.release)
    BY DEF InstallInv, RunInv
  <2>2. Listed = ChosenOf(Wanted(script), server.dirs, Places)
    BY DEF InstallInv, ListsInv, Listed, ListedIn
  <2>. QED
    BY <2>1, <2>2, ListedForAll, Zenon DEF QuietRunListsAll
<1>. QED
  BY <1>1, InstallInvariance, PTL

\* After such a run against a signed server the router's update does not fail.
THEOREM QuietRunUpdatesCorrect == Spec => []QuietRunUpdates
<1>1. InstallInv => QuietRunUpdates
  BY DEF InstallInv, ListsInv
<1>. QED
  BY <1>1, InstallInvariance, PTL
=============================================================================
