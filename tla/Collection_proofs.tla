------------------------- MODULE Collection_proofs -------------------------
(***************************************************************************)
(* What the build gets from the cache agrees with the listings of the run, *)
(* stays as it was handed out, and outlives the clean-up, for any sources, *)
(* URLs, contents and metadata.  Collecting sources request by request     *)
(* implements the cache, so all of it holds of the collection as well.     *)
(***************************************************************************)
EXTENDS Collection, FiniteSetTheorems, TLAPS

\* Whether a content agrees depends on the listing of that source only.
LEMMA AgreesSame ==
    ASSUME NEW s \in Sources, NEW u \in Urls, NEW c, listed'[s][u] = listed[s][u]
    PROVE  Agrees(s, u, c)' = Agrees(s, u, c)
BY DEF Agrees

\* Nor does whether one source's get replaces what another was handed.
LEMMA ReplacesSame ==
    ASSUME NEW t \in Sources, NEW s \in Sources, NEW u \in Urls,
           listed'[t][u] = listed[t][u], got'[s][u] = got[s][u],
           opts'.refresh = opts.refresh
    PROVE  Replaces(t, s, u)' = Replaces(t, s, u)
BY AgreesSame DEF Replaces

\* The constants that a run starts and ends with.
LEMMA Constants ==
    /\ AnyUrl \in Urls /\ AnySource \in Sources
    /\ None \in [Sources -> [Urls -> Contents \cup {Absent}]]
    /\ None \in [Sources -> [Urls -> Body \cup {Absent}]]
    /\ NoOpts \in [refresh: BOOLEAN, partly: BOOLEAN]
    /\ \A s \in Sources, u \in Urls : None[s][u] = Absent
BY CacheAssumption DEF AnyUrl, AnySource, None, NoUrls, NoOpts, Body

\* A table of sources and URLs, one entry or one row of which is changed.
LEMMA NewEntry ==
    ASSUME NEW T, NEW f \in [Sources -> [Urls -> T]],
           NEW s \in Sources, NEW u \in Urls, NEW v \in T,
           NEW g, g = [f EXCEPT ![s][u] = v]
    PROVE  /\ g \in [Sources -> [Urls -> T]]
           /\ \A t \in Sources, w \in Urls :
                g[t][w] = IF t = s /\ w = u THEN v ELSE f[t][w]
<1>1. DEFINE row == [f[s] EXCEPT ![u] = v]
<1>2. row \in [Urls -> T] /\ \A w \in Urls : row[w] = IF w = u THEN v ELSE f[s][w]
  OBVIOUS
<1>3. g = [f EXCEPT ![s] = row]
  OBVIOUS
<1>. HIDE DEF row
<1>. QED
  BY <1>2, <1>3

\* Replacing the row of one source leaves those of the others.
LEMMA NewRow ==
    ASSUME NEW T, NEW f \in [Sources -> [Urls -> T]],
           NEW s \in Sources, NEW r \in [Urls -> T],
           NEW g, g = [f EXCEPT ![s] = r]
    PROVE  /\ g \in [Sources -> [Urls -> T]]
           /\ \A t \in Sources : g[t] = IF t = s THEN r ELSE f[t]
OBVIOUS

\* What handing out changes, and what giving up does.
LEMMA HandOutFacts ==
    ASSUME TypeOK, NEW u \in Urls, HandOut(u)
    PROVE  /\ got' \in [Sources -> [Urls -> Body \cup {Absent}]]
           /\ \A t \in Sources, w \in Urls :
                got'[t][w] = IF t = source /\ w = u THEN file[u] ELSE got[t][w]
           /\ PackageOf[source][u] \in Packages
           /\ \A p \in Packages :
                built'[p] = IF source \in Repacked /\ p = PackageOf[source][u]
                            THEN file[u] ELSE built[p]
           /\ built' \in [Packages -> Body \cup {Partial, Absent}]
           /\ marked' \subseteq Packages
<1>1. /\ got \in [Sources -> [Urls -> Body \cup {Absent}]] /\ source \in Sources
      /\ file[u] \in Body \cup {Absent} /\ got' = [got EXCEPT ![source][u] = file[u]]
      /\ built \in [Packages -> Body \cup {Partial, Absent}] /\ marked \subseteq Packages
  BY DEF HandOut, TypeOK
<1>2. PackageOf[source][u] \in Packages
  <2>1. PackageOf \in [Sources -> [Urls -> Packages]]
    BY CacheAssumption
  <2>2. source \in Sources
    BY <1>1
  <2>3. PackageOf[source] \in [Urls -> Packages]
    BY <2>1, <2>2
  <2>. QED
    BY <2>3
<1>3. \/ built' = [built EXCEPT ![PackageOf[source][u]] = file[u]] /\ source \in Repacked
         /\ marked' = marked \cup {PackageOf[source][u]}
      \/ built' = built /\ source \notin Repacked /\ marked' = marked
  BY DEF HandOut
<1>4. /\ got' \in [Sources -> [Urls -> Body \cup {Absent}]]
      /\ \A t \in Sources, w \in Urls :
           got'[t][w] = IF t = source /\ w = u THEN file[u] ELSE got[t][w]
  BY <1>1, NewEntry
<1>5. /\ \A p \in Packages :
           built'[p] = IF source \in Repacked /\ p = PackageOf[source][u]
                       THEN file[u] ELSE built[p]
      /\ built' \in [Packages -> Body \cup {Partial, Absent}]
      /\ marked' \subseteq Packages
  <2>. DEFINE p0 == PackageOf[source][u]
              v0 == file[u]
  <2>1. /\ p0 \in Packages /\ v0 \in Body \cup {Absent}
        /\ \/ built' = [built EXCEPT ![p0] = v0] /\ source \in Repacked
              /\ marked' = marked \cup {p0}
           \/ built' = built /\ source \notin Repacked /\ marked' = marked
    BY <1>1, <1>2, <1>3
  <2>. HIDE DEF p0, v0
  <2>2. /\ \A p \in Packages :
             built'[p] = IF source \in Repacked /\ p = p0 THEN v0 ELSE built[p]
        /\ built' \in [Packages -> Body \cup {Partial, Absent}]
        /\ marked' \subseteq Packages
    BY <1>1, <2>1
  <2>. QED
    BY <2>2 DEF p0, v0
<1>. QED
  BY <1>2, <1>4, <1>5

\* What giving a file up changes: it hands nothing out, and a source that drops its files is noted.
LEMMA MissingFacts ==
    ASSUME TypeOK, Missing
    PROVE  /\ pc' = "next" /\ UNCHANGED <<listVars, url, attempt>>
           /\ todo' \subseteq todo
           /\ got' \in [Sources -> [Urls -> Body \cup {Absent}]]
           /\ \A t \in Sources, w \in Urls : got'[t][w] \in {Absent, got[t][w]}
           /\ opts' \in [refresh: BOOLEAN, partly: BOOLEAN]
           /\ opts'.refresh = opts.refresh
           /\ opts'.partly \/ (todo' = todo /\ opts' = opts)
<1>1. /\ got \in [Sources -> [Urls -> Body \cup {Absent}]] /\ source \in Sources
      /\ opts \in [refresh: BOOLEAN, partly: BOOLEAN]
  BY DEF TypeOK
<1>2. CASE DropSource
  <2>1. NoUrls \in [Urls -> Body \cup {Absent}] /\ \A w \in Urls : NoUrls[w] = Absent
    BY DEF NoUrls
  <2>2. /\ got' \in [Sources -> [Urls -> Body \cup {Absent}]]
        /\ \A t \in Sources : got'[t] = IF t = source THEN NoUrls ELSE got[t]
    BY <1>1, <1>2, <2>1, NewRow DEF DropSource
  <2>3. /\ opts' \in [refresh: BOOLEAN, partly: BOOLEAN]
        /\ opts'.refresh = opts.refresh /\ opts'.partly
    BY <1>1, <1>2 DEF DropSource
  <2>4. \A t \in Sources, w \in Urls : got'[t][w] \in {Absent, got[t][w]}
    BY <2>1, <2>2
  <2>5. todo' = {}
    BY <1>2 DEF DropSource
  <2>6. pc' = "next" /\ UNCHANGED <<listVars, url, attempt>>
    BY DEF Missing
  <2>. QED
    BY <2>2, <2>3, <2>4, <2>5, <2>6
<1>3. CASE DropFile
  BY <1>1, <1>3 DEF Missing, DropFile
<1>. QED
  BY <1>2, <1>3 DEF Missing

\* A build that fails touches its own package only, and costs the source all.
LEMMA CannotBuildFacts ==
    ASSUME TypeOK, NEW u \in Urls, CannotBuild(u)
    PROVE  /\ built' \in [Packages -> Body \cup {Partial, Absent}]
           /\ marked' \subseteq Packages
           /\ source \in Repacked /\ source \in Sources
           /\ \A p \in Packages : p # PackageOf[source][u] => built'[p] = built[p]
           /\ \A w \in Urls : got'[source][w] = Absent
<1>1. /\ source \in Repacked /\ source \in Sources /\ DropSource
      /\ built \in [Packages -> Body \cup {Partial, Absent}] /\ marked \subseteq Packages
      /\ got \in [Sources -> [Urls -> Body \cup {Absent}]]
  BY DEF CannotBuild, Missing, DropFile, TypeOK
<1>2. PackageOf[source][u] \in Packages
  <2>1. PackageOf \in [Sources -> [Urls -> Packages]]
    BY CacheAssumption
  <2>2. PackageOf[source] \in [Urls -> Packages]
    BY <1>1, <2>1
  <2>. QED
    BY <2>2
<1>3. \A w \in Urls : got'[source][w] = Absent
  BY <1>1 DEF DropSource, NoUrls
<1>4. \/ UNCHANGED <<built, marked>>
      \/ /\ \E b \in {built[PackageOf[source][u]], Partial} :
              built' = [built EXCEPT ![PackageOf[source][u]] = b]
         /\ marked' = marked \cup {PackageOf[source][u]}
  BY DEF CannotBuild
<1>. DEFINE p0 == PackageOf[source][u]
<1>5. p0 \in Packages
  BY <1>2
<1>6. \/ UNCHANGED <<built, marked>>
      \/ /\ \E b \in {built[p0], Partial} : built' = [built EXCEPT ![p0] = b]
         /\ marked' = marked \cup {p0}
  BY <1>4
<1>. HIDE DEF p0
<1>7. /\ built' \in [Packages -> Body \cup {Partial, Absent}]
      /\ marked' \subseteq Packages
      /\ \A p \in Packages : p # p0 => built'[p] = built[p]
  BY <1>1, <1>5, <1>6
<1>. QED
  BY <1>1, <1>3, <1>7 DEF p0

\* Types.
LEMMA TypeStep ==
    ASSUME TypeOK, [Next]_cacheVars PROVE TypeOK'
<1>. USE CacheAssumption DEF TypeOK
<1>1. CASE StartRun
  BY <1>1 DEF StartRun, diskVars, Phases
<1>2. ASSUME NEW u \in Urls, Publish(u) PROVE TypeOK'
  BY <1>2 DEF Publish, runVars, listVars
<1>3. ASSUME NEW s \in Sources, ListSource(s) PROVE TypeOK'
  <2>1. PICK l \in [Urls -> Contents \cup {Absent}] :
           /\ listed' = [listed EXCEPT ![s] = l]
           /\ todo' = {u \in Urls : l[u] # Absent}
    BY <1>3 DEF ListSource
  <2>2. source' = s /\ listed'[s] = l
    BY <1>3, <2>1 DEF ListSource
  <2>3. todo' \subseteq {u \in Urls : listed'[source'][u] # Absent}
    BY <2>1, <2>2
  <2>4. listed' \in [Sources -> [Urls -> Contents \cup {Absent}]]
    BY <2>1
  <2>. QED
    BY <1>3, <2>3, <2>4 DEF ListSource, diskVars
<1>4. ASSUME NEW s \in Sources, ListFails(s) PROVE TypeOK'
  BY <1>4 DEF ListFails, diskVars
<1>6. ASSUME NEW u \in Urls, Reuse(u) PROVE TypeOK'
  BY <1>6, HandOutFacts DEF Reuse, listVars
<1>7. ASSUME NEW u \in Urls, Request(u) PROVE TypeOK'
  BY <1>7 DEF Request, diskVars, listVars, Phases
<1>8. CASE TryAgain
  BY <1>8 DEF TryAgain, MayRetry, diskVars, listVars
<1>10. CASE RequestFails
  <2>1. Missing /\ UNCHANGED <<upstream, file, tmp, built, used, marked, fetched>>
    BY <1>10 DEF RequestFails, diskVars
  <2>. QED
    BY <2>1, MissingFacts DEF listVars, Phases
<1>18. CASE CopyFails
  <2>1. Missing /\ UNCHANGED <<upstream, file, built, used, marked, fetched>>
        /\ tmp' \in [Urls -> Body \cup {Partial, Absent}]
    BY <1>18 DEF CopyFails
  <2>. QED
    BY <2>1, MissingFacts DEF listVars, Phases
<1>11. CASE Answered
  BY <1>11 DEF Answered, runVars, listVars, Phases
<1>12. CASE Copied
  BY <1>12 DEF Copied, Renamed, Body, listVars, Phases
<1>13. CASE Accept
  BY <1>13, HandOutFacts DEF Accept, listVars, Phases
<1>14. CASE Reject
  BY <1>14, MissingFacts DEF Reject, listVars, Phases
<1>19. ASSUME NEW u \in Urls, CannotBuild(u) PROVE TypeOK'
  <2>1. Missing /\ UNCHANGED <<upstream, file, tmp, fetched>> /\ used' = used \cup {u}
    BY <1>19 DEF CannotBuild
  <2>2. /\ built' \in [Packages -> Body \cup {Partial, Absent}]
        /\ marked' \subseteq Packages
    BY <1>19, CannotBuildFacts
  <2>. QED
    BY <2>1, <2>2, MissingFacts DEF listVars, Phases
<1>15. CASE EndGets
  BY <1>15 DEF EndGets, diskVars, runVars, listVars, Phases
<1>16. CASE Gc \/ GcStops \/ NoGc \/ Kill
  BY <1>16, Constants DEF Gc, GcStops, NoGc, Kill, Forget, diskVars, NoUrls, Phases
<1>17. CASE UNCHANGED cacheVars
  BY <1>17 DEF cacheVars, diskVars, runVars, listVars
<1>. QED
  BY <1>1, <1>2, <1>3, <1>4, <1>6, <1>7, <1>8, <1>10, <1>11, <1>12, <1>13,
     <1>14, <1>15, <1>16, <1>17, <1>18, <1>19 DEF Next, Lists, Step

-----------------------------------------------------------------------------
\* The first run has got nothing.
LEMMA InitInv ==
    ASSUME Init PROVE IInv
<1>1. TypeOK
  BY CacheAssumption, Constants DEF Init, TypeOK, NoUrls, Phases
<1>2. GotOnce /\ Contradicted /\ MarkedWhenListed
  BY Constants DEF Init, GotOnce, Contradicted, MarkedWhenListed
<1>3. Delivered
  BY Constants, CacheAssumption, <1>1
  DEF Init, TypeOK, Delivered, HandedOutMatches, RefreshDownloads, StaysAsHandedOut,
      BuiltOfOwn
<1>. QED
  BY <1>1, <1>2, <1>3 DEF IInv

\* Nothing is delivered to a build that has got nothing ...
LEMMA NothingDelivered ==
    ASSUME got' = None, Repacked \subseteq Sources PROVE Delivered'
BY Constants
DEF Delivered, HandedOutMatches, RefreshDownloads, StaysAsHandedOut, BuiltOfOwn

\* ... and what is delivered remains so when less of it is collected.
LEMMA LessDelivered ==
    ASSUME Delivered, UNCHANGED <<file, built, listed>>, fetched \subseteq fetched',
           opts'.refresh = opts.refresh,
           \A s \in Sources, u \in Urls : got'[s][u] \in {Absent, got[s][u]}
    PROVE  Delivered'
<1>1. HandedOutMatches'
  BY AgreesSame DEF Delivered, HandedOutMatches
<1>2. RefreshDownloads'
  BY DEF Delivered, RefreshDownloads
<1>3. StaysAsHandedOut'
  <2>. SUFFICES ASSUME NEW s \in Sources, NEW u \in Urls,
                       got'[s][u] # Absent, file[u] # got[s][u]
                PROVE  \E t \in Sources : Replaces(t, s, u)'
    BY DEF StaysAsHandedOut
  <2>1. PICK t \in Sources : Replaces(t, s, u)
    BY DEF Delivered, StaysAsHandedOut
  <2>2. got'[s][u] = got[s][u]
    OBVIOUS
  <2>. QED
    BY <2>1, <2>2, ReplacesSame
<1>4. BuiltOfOwn'
  <2>1. Repacked \subseteq Sources
    BY CacheAssumption
  <2>. QED
    BY <2>1 DEF Delivered, BuiltOfOwn
<1>. QED
  BY <1>1, <1>2, <1>3, <1>4 DEF Delivered

\* Handing out an entry that agrees.
LEMMA HandOutDelivered ==
    ASSUME TypeOK, Delivered, NEW u \in Urls, HandOut(u), Matches(u, file[u]),
           UNCHANGED <<file, listed, opts, fetched>>,
           listed[source][u] # Absent, opts.refresh => u \in fetched
    PROVE  Delivered'
<1>0. source \in Sources /\ Repacked \subseteq Sources
  BY CacheAssumption DEF TypeOK
<1>1. \A t \in Sources, w \in Urls :
        got'[t][w] = IF t = source /\ w = u THEN file[u] ELSE got[t][w]
  BY HandOutFacts
<1>2. HandedOutMatches'
  <2>. SUFFICES ASSUME NEW t \in Sources, NEW w \in Urls, got'[t][w] # Absent
                PROVE  Agrees(t, w, got'[t][w])
    BY AgreesSame DEF HandedOutMatches
  <2>. QED
    BY <1>1 DEF Delivered, HandedOutMatches, Matches
<1>3. RefreshDownloads'
  BY <1>1 DEF Delivered, RefreshDownloads
<1>4. StaysAsHandedOut'
  <2>. SUFFICES ASSUME NEW t \in Sources, NEW w \in Urls,
                       got'[t][w] # Absent, file[w] # got'[t][w]
                PROVE  \E r \in Sources : Replaces(r, t, w)'
    BY DEF StaysAsHandedOut
  <2>1. got'[t][w] = got[t][w]
    BY <1>1
  <2>2. PICK r \in Sources : Replaces(r, t, w)
    BY <2>1 DEF Delivered, StaysAsHandedOut
  <2>. QED
    BY <2>1, <2>2, ReplacesSame
<1>5. BuiltOfOwn'
  <2>. SUFFICES ASSUME NEW t \in Repacked, NEW w \in Urls, got'[t][w] # Absent,
                       built'[PackageOf[t][w]] # got'[t][w]
                PROVE  \E r \in Repacked, v \in Urls :
                         /\ <<r, v>> # <<t, w>> /\ listed[r][v] # Absent
                         /\ PackageOf[r][v] = PackageOf[t][w]
    BY DEF BuiltOfOwn
  <2>0. PackageOf[t][w] \in Packages
    <3>1. PackageOf \in [Sources -> [Urls -> Packages]]
      BY CacheAssumption
    <3>2. PackageOf[t] \in [Urls -> Packages]
      BY <3>1, <1>0
    <3>. QED
      BY <3>2
  <2>1. built'[PackageOf[t][w]] =
          IF source \in Repacked /\ PackageOf[t][w] = PackageOf[source][u]
          THEN file[u] ELSE built[PackageOf[t][w]]
    BY <2>0, HandOutFacts
  <2>2. <<t, w>> # <<source, u>> \/ t \notin Sources
    BY <1>1, <2>1
  <2>3. got'[t][w] = got[t][w]
    BY <1>0, <1>1, <2>2
  <2>4. CASE source \in Repacked /\ PackageOf[t][w] = PackageOf[source][u]
    BY <1>0, <2>2, <2>4
  <2>5. CASE ~(source \in Repacked /\ PackageOf[t][w] = PackageOf[source][u])
    BY <2>1, <2>3, <2>5 DEF Delivered, BuiltOfOwn
  <2>. QED
    BY <2>4, <2>5
<1>. QED
  BY <1>2, <1>3, <1>4, <1>5 DEF Delivered

\* A build that fails: its source loses what it had, others share the package.
LEMMA CannotBuildDelivered ==
    ASSUME TypeOK, Delivered, GotOnce, NEW u \in Urls, CannotBuild(u)
    PROVE  Delivered'
<1>1. /\ UNCHANGED <<file, listed, fetched>> /\ Missing
      /\ listed[source][u] # Absent
  BY DEF CannotBuild, TypeOK, GotOnce, Missing, listVars
<1>2. /\ opts'.refresh = opts.refresh
      /\ \A t \in Sources, w \in Urls : got'[t][w] \in {Absent, got[t][w]}
  BY <1>1, MissingFacts
<1>3. /\ source \in Repacked /\ Repacked \subseteq Sources
      /\ \A p \in Packages : p # PackageOf[source][u] => built'[p] = built[p]
      /\ \A w \in Urls : got'[source][w] = Absent
  BY CannotBuildFacts, CacheAssumption
<1>4. HandedOutMatches' /\ RefreshDownloads'
  BY <1>1, <1>2, AgreesSame DEF Delivered, HandedOutMatches, RefreshDownloads
<1>5. StaysAsHandedOut'
  <2>. SUFFICES ASSUME NEW s \in Sources, NEW w \in Urls,
                       got'[s][w] # Absent, file[w] # got[s][w]
                PROVE  \E t \in Sources : Replaces(t, s, w)'
    BY <1>1, <1>2 DEF StaysAsHandedOut
  <2>1. PICK t \in Sources : Replaces(t, s, w)
    BY <1>2 DEF Delivered, StaysAsHandedOut
  <2>2. got'[s][w] = got[s][w]
    BY <1>2
  <2>. QED
    BY <1>1, <1>2, <2>1, <2>2, ReplacesSame
<1>6. BuiltOfOwn'
  <2>. SUFFICES ASSUME NEW t \in Repacked, NEW w \in Urls, got'[t][w] # Absent,
                       built'[PackageOf[t][w]] # got'[t][w]
                PROVE  \E r \in Repacked, v \in Urls :
                         /\ <<r, v>> # <<t, w>> /\ listed[r][v] # Absent
                         /\ PackageOf[r][v] = PackageOf[t][w]
    BY <1>1 DEF BuiltOfOwn
  <2>1. t # source /\ got'[t][w] = got[t][w] /\ t \in Sources
    BY <1>2, <1>3
  <2>2. PackageOf[t][w] \in Packages
    <3>1. PackageOf \in [Sources -> [Urls -> Packages]]
      BY CacheAssumption
    <3>2. PackageOf[t] \in [Urls -> Packages]
      BY <2>1, <3>1
    <3>. QED
      BY <3>2
  <2>3. CASE PackageOf[t][w] = PackageOf[source][u]
    BY <1>1, <1>3, <2>1, <2>3
  <2>4. CASE PackageOf[t][w] # PackageOf[source][u]
    <3>1. built[PackageOf[t][w]] # got[t][w]
      BY <1>3, <2>1, <2>2, <2>4
    <3>. QED
      BY <2>1, <3>1 DEF Delivered, BuiltOfOwn
  <2>. QED
    BY <2>3, <2>4
<1>. QED
  BY <1>4, <1>5, <1>6 DEF Delivered

\* A listing of a source of which nothing was got yet.
LEMMA ListDelivered ==
    ASSUME TypeOK, GotOnce, Delivered, NEW s \in left,
           NEW l \in [Urls -> Contents \cup {Absent}],
           listed' = [listed EXCEPT ![s] = l],
           UNCHANGED <<file, built, got, opts, fetched>>
    PROVE  Delivered'
<1>0. s \in Sources /\ Repacked \subseteq Sources
  BY CacheAssumption DEF TypeOK
<1>1. \A t \in Sources : listed'[t] = IF t = s THEN l ELSE listed[t]
  BY DEF TypeOK
<1>2. \A u \in Urls : listed[s][u] = Absent /\ got[s][u] = Absent
  BY <1>0 DEF GotOnce, NoUrls
<1>3. HandedOutMatches'
  BY <1>1, <1>2, AgreesSame DEF Delivered, HandedOutMatches
<1>4. RefreshDownloads'
  BY DEF Delivered, RefreshDownloads
<1>5. StaysAsHandedOut'
  <2>. SUFFICES ASSUME NEW t \in Sources, NEW u \in Urls,
                       got[t][u] # Absent, file[u] # got[t][u]
                PROVE  \E r \in Sources : Replaces(r, t, u)'
    BY DEF StaysAsHandedOut
  <2>1. PICK r \in Sources : Replaces(r, t, u)
    BY DEF Delivered, StaysAsHandedOut
  <2>2. listed'[r] = listed[r]
    BY <1>1, <1>2, <2>1 DEF Replaces
  <2>. QED
    BY <2>1, <2>2, ReplacesSame
<1>6. BuiltOfOwn'
  <2>. SUFFICES ASSUME NEW t \in Repacked, NEW u \in Urls, got[t][u] # Absent,
                       built[PackageOf[t][u]] # got[t][u]
                PROVE  \E r \in Repacked, v \in Urls :
                         /\ <<r, v>> # <<t, u>> /\ listed'[r][v] # Absent
                         /\ PackageOf[r][v] = PackageOf[t][u]
    BY DEF BuiltOfOwn
  <2>1. PICK r \in Repacked, v \in Urls :
          /\ <<r, v>> # <<t, u>> /\ listed[r][v] # Absent
          /\ PackageOf[r][v] = PackageOf[t][u]
    BY DEF Delivered, BuiltOfOwn
  <2>2. listed'[r] = listed[r]
    BY <1>0, <1>1, <1>2, <2>1
  <2>. QED
    BY <2>1, <2>2
<1>. QED
  BY <1>3, <1>4, <1>5, <1>6 DEF Delivered

\* Replacing or removing an entry that the source at work contradicts.
LEMMA ReplaceDelivered ==
    ASSUME TypeOK, Delivered, listed[source][url] # Absent, got[source][url] = Absent,
           opts.refresh \/ file[url] = Absent \/ ~Matches(url, file[url]),
           NEW c, file' = [file EXCEPT ![url] = c],
           UNCHANGED <<built, listed>>, fetched \subseteq fetched',
           opts'.refresh = opts.refresh,
           \A s \in Sources, u \in Urls : got'[s][u] \in {Absent, got[s][u]}
    PROVE  Delivered'
<1>0. source \in Sources /\ url \in Urls /\ Repacked \subseteq Sources
      /\ \A u \in Urls : u # url => file'[u] = file[u]
  BY CacheAssumption DEF TypeOK
<1>1. HandedOutMatches'
  BY AgreesSame DEF Delivered, HandedOutMatches
<1>2. RefreshDownloads'
  BY DEF Delivered, RefreshDownloads
<1>3. StaysAsHandedOut'
  <2>. SUFFICES ASSUME NEW s \in Sources, NEW u \in Urls,
                       got'[s][u] # Absent, file'[u] # got[s][u]
                PROVE  \E t \in Sources : Replaces(t, s, u)'
    BY DEF StaysAsHandedOut
  <2>0. got'[s][u] = got[s][u]
    OBVIOUS
  <2>1. \E t \in Sources : Replaces(t, s, u)
    <3>1. CASE file[u] # got[s][u]
      BY <2>0, <3>1 DEF Delivered, StaysAsHandedOut
    <3>2. CASE file[u] = got[s][u]
      <4>1. u = url /\ s # source
        BY <1>0, <2>0, <3>2
      <4>2. opts.refresh \/ ~Agrees(source, u, got[s][u])
        BY <2>0, <3>2, <4>1 DEF Matches
      <4>3. Replaces(source, s, u)
        BY <4>1, <4>2 DEF Replaces
      <4>. QED
        BY <1>0, <4>3
    <3>. QED
      BY <3>1, <3>2
  <2>. QED
    BY <2>0, <2>1, ReplacesSame
<1>4. BuiltOfOwn'
  BY <1>0 DEF Delivered, BuiltOfOwn
<1>. QED
  BY <1>1, <1>2, <1>3, <1>4 DEF Delivered

-----------------------------------------------------------------------------
\* A new listing, of a source that had none.
LEMMA ListFacts ==
    ASSUME TypeOK, NEW s \in Sources, ListSource(s)
    PROVE  \E l \in [Urls -> Contents \cup {Absent}] :
              /\ listed' = [listed EXCEPT ![s] = l]
              /\ \A t \in Sources : listed'[t] = IF t = s THEN l ELSE listed[t]
              /\ todo' = {u \in Urls : l[u] # Absent}
              /\ source' = s /\ left' = left \ {s} /\ s \in left /\ todo = {}
<1>1. PICK l \in [Urls -> Contents \cup {Absent}] :
        /\ listed' = [listed EXCEPT ![s] = l]
        /\ todo' = {u \in Urls : l[u] # Absent}
  BY DEF ListSource
<1>2. \A t \in Sources : listed'[t] = IF t = s THEN l ELSE listed[t]
  BY <1>1, NewRow DEF TypeOK
<1>. QED
  BY <1>1, <1>2 DEF ListSource

\* What a source gave up on, it gives up as a whole.
LEMMA MissingGotOnce ==
    ASSUME TypeOK, GotOnce, Missing PROVE GotOnce'
<1>1. /\ UNCHANGED <<left, source, listed>> /\ pc' = "next" /\ todo' \subseteq todo
      /\ \A t \in Sources, w \in Urls : got'[t][w] \in {Absent, got[t][w]}
  BY MissingFacts DEF listVars
<1>2. source \in Sources /\ todo \subseteq Urls
  BY DEF TypeOK
<1>. QED
  BY <1>1, <1>2 DEF GotOnce

\* Giving a file up takes no mark away that the rest of the run relies on.
LEMMA MissingMarked ==
    ASSUME TypeOK, MarkedWhenListed, Missing, pc # "idle", used \subseteq used'
    PROVE  MarkedWhenListed'
<1>1. /\ UNCHANGED <<left, source, listed>> /\ pc' = "next"
      /\ opts'.partly \/ (todo' = todo /\ opts' = opts)
  BY MissingFacts DEF listVars
<1>. QED
  BY <1>1 DEF MarkedWhenListed

\* Handing out a URL that was still to do keeps it once per source.
LEMMA HandOutGotOnce ==
    ASSUME TypeOK, GotOnce, NEW u \in Urls, HandOut(u), listed[source][u] # Absent,
           u \notin todo', todo' \subseteq todo, pc' = "next",
           UNCHANGED <<listVars, url>>
    PROVE  GotOnce'
<1>1. \A t \in Sources, w \in Urls :
        got'[t][w] = IF t = source /\ w = u THEN file[u] ELSE got[t][w]
  BY HandOutFacts
<1>2. source \in Sources /\ todo \subseteq Urls
  BY DEF TypeOK
<1>. QED
  BY <1>1, <1>2 DEF GotOnce, listVars

\* No step gets a URL twice for one source.
LEMMA GotOnceStep ==
    ASSUME TypeOK, GotOnce, [Next]_cacheVars PROVE GotOnce'
<1>0. /\ source \in Sources /\ url \in Urls /\ todo \subseteq Urls
      /\ \A u \in todo : listed[source][u] # Absent
      /\ left \subseteq Sources
  BY DEF TypeOK
<1>1. CASE StartRun
  <2>1. UNCHANGED <<source, listed, todo, got>> /\ pc = "idle" /\ pc' = "next"
    BY <1>1 DEF StartRun
  <2>2. \A s \in Sources : listed[s] = NoUrls
    BY <2>1 DEF GotOnce, None
  <2>3. left' \subseteq Sources
    BY <1>1, CacheAssumption DEF StartRun
  <2>. QED
    BY <2>1, <2>2, <2>3 DEF GotOnce
<1>2. ASSUME NEW u \in Urls, Publish(u) PROVE GotOnce'
  BY <1>2 DEF Publish, GotOnce, runVars, listVars
<1>3. ASSUME NEW s \in Sources, ListSource(s) PROVE GotOnce'
  <2>1. PICK l \in [Urls -> Contents \cup {Absent}] :
          /\ \A t \in Sources : listed'[t] = IF t = s THEN l ELSE listed[t]
          /\ source' = s /\ left' = left \ {s} /\ s \in left
          /\ todo' = {u \in Urls : l[u] # Absent}
    BY <1>3, ListFacts
  <2>2. got' = got /\ pc' = "next"
    BY <1>3 DEF ListSource
  <2>3. \A u \in Urls : listed[s][u] = Absent /\ got[s][u] = Absent
    BY <2>1 DEF GotOnce, NoUrls
  <2>4. \A t \in left' : listed'[t] = NoUrls
    BY <1>0, <2>1 DEF GotOnce
  <2>5. \A t \in Sources, u \in Urls : got'[t][u] # Absent => listed'[t][u] # Absent
    BY <2>1, <2>2, <2>3 DEF GotOnce
  <2>6. \A u \in todo' : got'[source'][u] = Absent
    BY <2>1, <2>2, <2>3
  <2>. QED
    BY <2>2, <2>4, <2>5, <2>6 DEF GotOnce
<1>4. ASSUME NEW s \in Sources, ListFails(s) PROVE GotOnce'
  BY <1>4 DEF ListFails, GotOnce
<1>5. ASSUME NEW u \in Urls, Reuse(u) PROVE GotOnce'
  <2>1. /\ HandOut(u) /\ u \in todo /\ todo' = todo \ {u} /\ pc' = "next"
        /\ UNCHANGED <<listVars, url>>
    BY <1>5 DEF Reuse
  <2>. QED
    BY <1>0, <2>1, HandOutGotOnce
<1>6. ASSUME NEW u \in Urls, Request(u) PROVE GotOnce'
  BY <1>0, <1>6 DEF Request, GotOnce, listVars
<1>7. CASE TryAgain
  BY <1>7 DEF TryAgain, GotOnce, listVars
<1>8. CASE RequestFails \/ CopyFails \/ Reject \/ \E u \in Urls : CannotBuild(u)
  BY <1>8, MissingGotOnce DEF RequestFails, CopyFails, Reject, CannotBuild
<1>9. CASE Answered
  BY <1>9 DEF Answered, GotOnce, runVars, listVars
<1>10. CASE Copied
  BY <1>10 DEF Copied, Renamed, GotOnce, listVars
<1>11. CASE Accept
  <2>1. /\ HandOut(url) /\ url \notin todo /\ todo' = todo /\ pc' = "next"
        /\ UNCHANGED <<listVars, url>> /\ listed[source][url] # Absent
    BY <1>11 DEF Accept, GotOnce
  <2>. QED
    BY <1>0, <2>1, HandOutGotOnce
<1>12. CASE EndGets
  BY <1>12 DEF EndGets, GotOnce, runVars, listVars
<1>13. CASE Gc \/ GcStops \/ NoGc \/ Kill
  BY <1>13, Constants DEF Gc, GcStops, NoGc, Kill, Forget, GotOnce
<1>14. CASE UNCHANGED cacheVars
  BY <1>14 DEF cacheVars, runVars, listVars, GotOnce
<1>. QED
  BY <1>1, <1>2, <1>3, <1>4, <1>5, <1>6, <1>7, <1>8, <1>9, <1>10, <1>11,
     <1>12, <1>13, <1>14 DEF Next, Lists, Step

\* A cached file is only asked for again when its listing contradicts it, or on --refresh.
LEMMA ContradictedStep ==
    ASSUME TypeOK, Contradicted, [Next]_cacheVars PROVE Contradicted'
<1>1. CASE StartRun \/ Lists
  BY <1>1 DEF StartRun, Lists, ListSource, ListFails, Contradicted
<1>2. ASSUME NEW u \in Urls, Publish(u) \/ Reuse(u) PROVE Contradicted'
  BY <1>2 DEF Publish, Reuse, Contradicted, Matches, Agrees, runVars, listVars
<1>3. ASSUME NEW u \in Urls, Request(u) PROVE Contradicted'
  BY <1>3 DEF Request, Reusable, Contradicted, Matches, Agrees, listVars, diskVars
<1>4. CASE TryAgain \/ Answered
  BY <1>4 DEF TryAgain, Answered, Contradicted, Matches, Agrees, diskVars, runVars,
              listVars
<1>5. CASE RequestFails \/ CopyFails \/ Reject \/ \E u \in Urls : CannotBuild(u)
  BY <1>5 DEF RequestFails, CopyFails, Reject, CannotBuild, Missing, Contradicted
<1>6. CASE Copied \/ Accept \/ EndGets
  BY <1>6 DEF Copied, Renamed, Accept, EndGets, Contradicted
<1>7. CASE Gc \/ GcStops \/ NoGc \/ Kill
  BY <1>7 DEF Gc, GcStops, NoGc, Kill, Forget, Contradicted
<1>8. CASE UNCHANGED cacheVars
  BY <1>8 DEF cacheVars, diskVars, runVars, listVars, Contradicted, Matches, Agrees
<1>. QED
  BY <1>1, <1>2, <1>3, <1>4, <1>5, <1>6, <1>7, <1>8 DEF Next, Step

\* Entries are marked before they are asked for, whatever the step.
LEMMA MarkedStep ==
    ASSUME TypeOK, GotOnce, MarkedWhenListed, [Next]_cacheVars
    PROVE  MarkedWhenListed'
<1>0. source \in Sources /\ opts \in [refresh: BOOLEAN, partly: BOOLEAN]
  BY DEF TypeOK
<1>1. CASE StartRun
  <2>1. \A s \in Sources, u \in Urls : listed'[s][u] = Absent
    BY <1>1, Constants DEF StartRun, GotOnce
  <2>. QED
    BY <1>1, <2>1 DEF StartRun, MarkedWhenListed
<1>2. ASSUME NEW u \in Urls, Publish(u) PROVE MarkedWhenListed'
  BY <1>2 DEF Publish, MarkedWhenListed, runVars, listVars
<1>3. ASSUME NEW s \in Sources, ListSource(s) PROVE MarkedWhenListed'
  <2>1. PICK l \in [Urls -> Contents \cup {Absent}] :
          /\ \A t \in Sources : listed'[t] = IF t = s THEN l ELSE listed[t]
          /\ source' = s /\ todo = {}
          /\ todo' = {u \in Urls : l[u] # Absent}
    BY <1>3, ListFacts
  <2>2. UNCHANGED <<opts, used>> /\ pc' = "next"
    BY <1>3 DEF ListSource
  <2>. QED
    BY <2>1, <2>2 DEF MarkedWhenListed
<1>4. ASSUME NEW s \in Sources, ListFails(s) PROVE MarkedWhenListed'
  <2>1. opts'.partly /\ pc' = "next"
    BY <1>0, <1>4 DEF ListFails
  <2>. QED
    BY <2>1 DEF MarkedWhenListed
<1>5. ASSUME NEW u \in Urls, Reuse(u) PROVE MarkedWhenListed'
  BY <1>5 DEF Reuse, MarkedWhenListed, listVars
<1>6. ASSUME NEW u \in Urls, Request(u) PROVE MarkedWhenListed'
  BY <1>6 DEF Request, MarkedWhenListed, listVars
<1>7. CASE TryAgain \/ Answered
  BY <1>7 DEF TryAgain, Answered, MarkedWhenListed, listVars, runVars
<1>8. CASE RequestFails \/ CopyFails \/ Reject \/ \E u \in Urls : CannotBuild(u)
  BY <1>8, MissingMarked DEF RequestFails, CopyFails, Reject, CannotBuild
<1>9. CASE Copied \/ Accept
  BY <1>9 DEF Copied, Renamed, Accept, MarkedWhenListed, listVars
<1>10. CASE EndGets
  BY <1>10 DEF EndGets, MarkedWhenListed, listVars, runVars
<1>11. CASE Gc \/ GcStops \/ NoGc \/ Kill
  BY <1>11, Constants DEF Gc, GcStops, NoGc, Kill, Forget, MarkedWhenListed
<1>12. CASE UNCHANGED cacheVars
  BY <1>12 DEF cacheVars, MarkedWhenListed, listVars, runVars
<1>. QED
  BY <1>1, <1>2, <1>3, <1>4, <1>5, <1>6, <1>7, <1>8, <1>9, <1>10, <1>11, <1>12
  DEF Next, Lists, Step

\* What was delivered stays as it was delivered.
LEMMA DeliveredStep ==
    ASSUME IInv, [Next]_cacheVars PROVE Delivered'
<1>. USE DEF IInv
<1>0. /\ source \in Sources /\ url \in Urls /\ todo \subseteq Urls
      /\ opts \in [refresh: BOOLEAN, partly: BOOLEAN]
      /\ Repacked \subseteq Sources
      /\ \A u \in todo : listed[source][u] # Absent
  BY CacheAssumption DEF TypeOK
<1>1. CASE StartRun
  BY <1>1, NothingDelivered, CacheAssumption DEF StartRun, GotOnce
<1>2. ASSUME NEW u \in Urls, Publish(u) \/ Request(u) PROVE Delivered'
  BY <1>2, LessDelivered DEF Publish, Request, runVars, listVars, diskVars
<1>3. ASSUME NEW s \in Sources, ListSource(s) PROVE Delivered'
  BY <1>3, ListFacts, ListDelivered DEF ListSource, diskVars
<1>4. ASSUME NEW s \in Sources, ListFails(s) PROVE Delivered'
  <2>1. opts'.refresh = opts.refresh /\ UNCHANGED <<file, built, listed, got, fetched>>
    BY <1>0, <1>4 DEF ListFails, diskVars
  <2>. QED
    BY <2>1, LessDelivered
<1>5. ASSUME NEW u \in Urls, Reuse(u) PROVE Delivered'
  <2>1. /\ HandOut(u) /\ u \in todo /\ Matches(u, file[u]) /\ ~opts.refresh
        /\ UNCHANGED <<file, listed, opts, fetched>>
    BY <1>5 DEF Reuse, Reusable, listVars
  <2>. QED
    BY <1>0, <2>1, HandOutDelivered
<1>6. CASE TryAgain \/ Answered \/ EndGets
  BY <1>6, LessDelivered
  DEF TryAgain, Answered, EndGets, diskVars, runVars, listVars
<1>7. CASE RequestFails \/ CopyFails
  <2>1. Missing /\ UNCHANGED <<file, built, fetched>>
    BY <1>7 DEF RequestFails, CopyFails, diskVars
  <2>2. /\ \A t \in Sources, w \in Urls : got'[t][w] \in {Absent, got[t][w]}
        /\ opts'.refresh = opts.refresh /\ listed' = listed
    BY <2>1, MissingFacts DEF listVars
  <2>. QED
    BY <2>1, <2>2, LessDelivered
<1>8. CASE Copied
  <2>1. PICK c \in ({upstream[url]} \ {Absent}) \cup {Cut} : Renamed(c)
    BY <1>8 DEF Copied
  <2>2. /\ file' = [file EXCEPT ![url] = c] /\ fetched \subseteq fetched'
        /\ UNCHANGED <<built, listed, opts, got>>
    BY <1>8, <2>1 DEF Copied, Renamed, listVars
  <2>3. /\ listed[source][url] # Absent /\ got[source][url] = Absent
        /\ opts.refresh \/ file[url] = Absent \/ ~Matches(url, file[url])
    BY <1>8 DEF Copied, GotOnce, Contradicted
  <2>. QED
    BY <2>2, <2>3, ReplaceDelivered
<1>9. CASE Accept
  <2>1. /\ HandOut(url) /\ Matches(url, file[url]) /\ url \in fetched
        /\ UNCHANGED <<file, listed, opts, fetched>> /\ listed[source][url] # Absent
    BY <1>9 DEF Accept, Checked, GotOnce, listVars
  <2>. QED
    BY <1>0, <2>1, HandOutDelivered
<1>10. CASE Reject
  <2>1. /\ Missing /\ UNCHANGED <<built, fetched>>
        /\ file' = [file EXCEPT ![url] = Absent]
        /\ listed[source][url] # Absent /\ ~Matches(url, file[url])
        /\ got[source][url] = Absent
    BY <1>10 DEF Reject, Checked, GotOnce
  <2>2. /\ \A t \in Sources, w \in Urls : got'[t][w] \in {Absent, got[t][w]}
        /\ opts'.refresh = opts.refresh /\ listed' = listed
    BY <2>1, MissingFacts DEF listVars
  <2>. QED
    BY <2>1, <2>2, ReplaceDelivered
<1>13. ASSUME NEW u \in Urls, CannotBuild(u) PROVE Delivered'
  BY <1>13, CannotBuildDelivered
<1>11. CASE Gc \/ GcStops \/ NoGc \/ Kill
  BY <1>11, NothingDelivered, CacheAssumption DEF Gc, GcStops, NoGc, Kill, Forget
<1>12. CASE UNCHANGED cacheVars
  BY <1>12, LessDelivered DEF cacheVars, diskVars, runVars, listVars
<1>. QED
  BY <1>1, <1>2, <1>3, <1>4, <1>5, <1>6, <1>7, <1>8, <1>9, <1>10, <1>11, <1>12,
     <1>13 DEF Next, Lists, Step

-----------------------------------------------------------------------------
\* The inductive invariant of the cache: types, every URL got once by a source
\* and marked, and what the build is given.
THEOREM CacheInvariance == Spec => []IInv
<1>1. Init => IInv
  BY InitInv
<1>2. IInv /\ [Next]_cacheVars => IInv'
  BY TypeStep, GotOnceStep, ContradictedStep, MarkedStep, DeliveredStep DEF IInv
<1>. QED
  BY <1>1, <1>2, PTL DEF Spec

\* Entries, listings, requests and what was delivered keep their types
\* (download.go, collectPackages).
THEOREM CacheTypeCorrect == Spec => []TypeOK
<1>1. IInv => TypeOK
  BY DEF IInv
<1>. QED
  BY <1>1, CacheInvariance, PTL

\* get never hands out what disagrees with the listing of its run (get,
\* cachedMismatch).
THEOREM HandedOutCorrect == Spec => []HandedOutMatches
<1>1. IInv => HandedOutMatches
  BY DEF IInv, Delivered
<1>. QED
  BY <1>1, CacheInvariance, PTL

\* With --refresh everything handed out was downloaded by the run (get).
THEOREM RefreshCorrect == Spec => []RefreshDownloads
<1>1. IInv => RefreshDownloads
  BY DEF IInv, Delivered
<1>. QED
  BY <1>1, CacheInvariance, PTL

\* Sources that list the same URL do not disturb each other, as long as none
\* contradicts what another was handed and the run is no --refresh (get).
THEOREM SharedUrlsStay == Spec => []StaysAsHandedOut
<1>1. IInv => StaysAsHandedOut
  BY DEF IInv, Delivered
<1>. QED
  BY <1>1, CacheInvariance, PTL

\* A repacked package is built of its own source's file, unless two sources
\* build packages of the same name, version and architecture (packageAs).
THEOREM PackagesAreOwn == Spec => []BuiltOfOwn
<1>1. IInv => BuiltOfOwn
  BY DEF IInv, Delivered
<1>. QED
  BY <1>1, CacheInvariance, PTL

\* No run's clean-up drops an entry that a source still resolves to (gc).
THEOREM CleanupCorrect == Spec => OutageKeepsEntry
<1>1. ASSUME IInv, [Next]_cacheVars, pc = "gc", NEW s \in Sources, NEW u \in Urls,
             listed[s][u] # Absent
      PROVE  file'[u] = file[u]
  <2>1. u \in used \/ opts.partly
    BY <1>1 DEF IInv, MarkedWhenListed
  <2>2. CASE Gc
    BY <1>1, <2>1, <2>2 DEF Gc, Unused, IInv, TypeOK
  <2>4. CASE GcStops
    BY <1>1, <2>1, <2>4 DEF GcStops, Unused, IInv, TypeOK
  <2>3. CASE ~Gc /\ ~GcStops
    BY <1>1, <2>3
    DEF Next, StartRun, Lists, ListSource, ListFails, Step, Reuse, Request, TryAgain,
        RequestFails, Answered, CopyFails, Copied, Accept, Reject, EndGets, NoGc,
        Kill, Publish, CannotBuild, cacheVars, diskVars
  <2>. QED
    BY <2>2, <2>3, <2>4
<1>2. IInv /\ [Next]_cacheVars
        => [pc = "gc" => \A s \in Sources, u \in Urls :
              listed[s][u] # Absent => file'[u] = file[u]]_cacheVars
  BY <1>1
<1>. QED
  BY <1>2, CacheInvariance, PTL DEF Spec, OutageKeepsEntry
-----------------------------------------------------------------------------
(* The collection.                                                         *)

AskingOK == asking \in Sources \cup {NoSource}

\* What is asked is a source.
LEMMA AskingStep ==
    ASSUME AskingOK, [CollectNext]_collectVars PROVE AskingOK'
<1>1. CASE \E u \in Urls : Change(u)
  BY <1>1 DEF Change, AskingOK, askVars
<1>2. CASE \E s \in Sources : Ask(s)
  BY <1>2 DEF Ask, AskingOK
<1>3. CASE Start \/ Cached
  BY <1>3 DEF Start, Cached, AskingOK, askVars
<1>4. ASSUME NEW us, NEW next, Answer(us, next) PROVE AskingOK'
  BY <1>4 DEF Answer, AskingOK
<1>5. CASE Release \/ Page \/ Directory \/ Index \/ NoIndex \/ Html \/ Resolved
  BY <1>4, <1>5 DEF Release, Page, Directory, Index, NoIndex, Html, Resolved
<1>6. CASE Pattern
  BY <1>4, <1>6 DEF Pattern
<1>7. CASE Listed \/ SourceFails \/ Killed
  BY <1>7 DEF Listed, SourceFails, Killed, AskingOK
<1>8. CASE UNCHANGED collectVars
  BY <1>8 DEF collectVars, askVars, AskingOK
<1>. QED
  BY <1>1, <1>2, <1>3, <1>5, <1>6, <1>7, <1>8 DEF CollectNext

\* Every step is a step of the cache, or changes nothing of it.
LEMMA StepMaps ==
    ASSUME AskingOK, [CollectNext]_collectVars PROVE [Next]_cacheVars
<1>1. CASE \E u \in Urls : Change(u)
  BY <1>1 DEF Change, Next
<1>2. CASE \E s \in Sources : Ask(s)
  BY <1>2 DEF Ask
<1>3. CASE Start
  BY <1>3 DEF Start, Next
<1>4. ASSUME NEW us, NEW next, Answer(us, next) PROVE UNCHANGED cacheVars
  BY <1>4 DEF Answer
<1>5. CASE Release \/ Page \/ Directory \/ Index \/ NoIndex \/ Html \/ Resolved
  BY <1>4, <1>5 DEF Release, Page, Directory, Index, NoIndex, Html, Resolved
<1>6. CASE Pattern
  BY <1>4, <1>6 DEF Pattern
<1>7. CASE Listed
  BY <1>7 DEF Listed, AskingOK, Next, Lists
<1>8. CASE SourceFails
  BY <1>8 DEF SourceFails, NothingOf, AskingOK, Next, Lists
<1>9. CASE Cached
  BY <1>9 DEF Cached, Next
<1>10. CASE Killed
  BY <1>10 DEF Killed, Next
<1>11. CASE UNCHANGED collectVars
  BY <1>11 DEF collectVars
<1>. QED
  BY <1>1, <1>2, <1>3, <1>5, <1>6, <1>7, <1>8, <1>9, <1>10, <1>11 DEF CollectNext

\* collectPackages and the listings of sources.go implement the cache with its
\* one-step listings.
THEOREM CollectionImplementsCache == CollectSpec => CacheSpec
<1>1. CollectInit => Init /\ AskingOK
  BY DEF CollectInit, AskingOK
<1>2. AskingOK /\ [CollectNext]_collectVars => AskingOK' /\ [Next]_cacheVars
  BY AskingStep, StepMaps
<1>. QED
  BY <1>1, <1>2, PTL DEF CollectSpec, CacheSpec, Spec

\* So what is collected agrees with the listings it was collected by, however
\* these came about.
THEOREM CollectionDelivers == CollectSpec => [](HandedOutMatches /\ StaysAsHandedOut)
BY CollectionImplementsCache, HandedOutCorrect, SharedUrlsStay, PTL DEF CacheSpec

-----------------------------------------------------------------------------
(* Nothing that is there throughout is missed.                             *)

\* A file with a place on a page that is still to be read, in a directory that
\* is or will be asked for, or named by what is asked for next.
ToCome(s, u) ==
    /\ Kind[s] = "github" =>
         \E page \in Nat :
            /\ pending = <<page>>
            /\ page # 0 => Cardinality(Earlier(s, u)) >= (page - 1) * perPage
    /\ Kind[s] = "github_dir" =>
         /\ pending \in Seq(Dirs)
         /\ \A ds \in SUBSET Dirs :
              Closed(ds) /\ Range(pending) \subseteq ds => DirOf[u] \in ds
    /\ Kind[s] \notin {"github", "github_dir"} => pending \in Seq(Nat) \ {<<>>}

\* What is due is listed, or its source is still to be listed and has found it
\* or will.
OnTheWay(s, u) ==
    \/ listed[s][u] # Absent
    \/ /\ s \in left
       /\ asking = s => found[u] # Absent \/ ToCome(s, u)

CollectInv ==
    /\ order \in TotalOrder(Published)
    /\ found \in [Urls -> Contents \cup {Absent}]
    /\ asking # NoSource => asking \in left /\ pc = "next" /\ todo = {}
    /\ pc = "gc" => left = {}
    /\ \A d \in due :
         /\ d \in Sources \X Urls
         /\ d[2] \in Due(d[1])
         /\ opts.partly \/ shifted \/ OnTheWay(d[1], d[2])

\* An asset that was uploaded earlier has a lower place in the list.
LEMMA LowerPlace ==
    ASSUME order \in TotalOrder(Published), NEW s \in Sources,
           NEW u \in Present(s), NEW v \in Present(s), <<v, u>> \in order
    PROVE  /\ IsFiniteSet(Earlier(s, u))
           /\ Cardinality(Earlier(s, u)) \in Nat
           /\ Cardinality(Earlier(s, v)) \in Nat
           /\ Cardinality(Earlier(s, v)) < Cardinality(Earlier(s, u))
<1>1. IsFiniteSet(Earlier(s, u))
  <2>1. Earlier(s, u) \in SUBSET Urls
    BY DEF Earlier, Present, Published
  <2>. QED
    BY <2>1, FS_Subset, CollectionAssumption
<1>2. Earlier(s, v) \subseteq Earlier(s, u)
  BY DEF Earlier, Present, TotalOrder
<1>3. v \in Earlier(s, u) /\ v \notin Earlier(s, v)
  BY DEF Earlier, Present, TotalOrder
<1>4. IsFiniteSet(Earlier(s, v))
  BY <1>1, <1>2, FS_Subset
<1>5. Cardinality(Earlier(s, u)) \in Nat /\ Cardinality(Earlier(s, v)) \in Nat
  BY <1>1, <1>4, FS_CardinalityType
<1>6. /\ Cardinality(Earlier(s, v)) <= Cardinality(Earlier(s, u))
      /\ Cardinality(Earlier(s, v)) # Cardinality(Earlier(s, u))
  BY <1>1, <1>2, <1>3, FS_Subset
<1>. QED
  BY <1>1, <1>5, <1>6

\* No place below an asset's is empty.
LEMMA PlacesAreTaken ==
    ASSUME order \in TotalOrder(Published), NEW s \in Sources, NEW u \in Present(s),
           NEW i \in 0..(Cardinality(Earlier(s, u)) - 1)
    PROVE  \E v \in Present(s) : Cardinality(Earlier(s, v)) = i
<1> DEFINE E == Earlier(s, u)
           n == Cardinality(E)
           f == [v \in E |-> Cardinality(Earlier(s, v))]
<1>1. IsFiniteSet(E)
  <2>1. E \in SUBSET Urls
    BY DEF Earlier, Present, Published
  <2>. QED
    BY <2>1, FS_Subset, CollectionAssumption
<1>2. n \in Nat
  BY <1>1, FS_CardinalityType
<1>3. \A v \in E : v \in Present(s) /\ <<v, u>> \in order
  BY DEF Earlier
<1>4. \A v \in E : Cardinality(Earlier(s, v)) \in 0..(n - 1)
  <2> SUFFICES ASSUME NEW v \in E PROVE Cardinality(Earlier(s, v)) \in 0..(n - 1)
    OBVIOUS
  <2>1. Cardinality(Earlier(s, v)) \in Nat /\ Cardinality(Earlier(s, v)) < n
    BY <1>3, LowerPlace
  <2>. QED
    BY <1>2, <2>1
<1>5. \A v, w \in E : v # w => f[v] # f[w]
  <2> SUFFICES ASSUME NEW v \in E, NEW w \in E, v # w
               PROVE  Cardinality(Earlier(s, v)) # Cardinality(Earlier(s, w))
    OBVIOUS
  <2>1. v \in Present(s) /\ w \in Present(s)
    BY <1>3
  <2>2. <<v, w>> \in order \/ <<w, v>> \in order
    BY <2>1 DEF Present, TotalOrder
  <2>. QED
    BY <2>1, <2>2, LowerPlace
<1>6. f \in Injection(E, 0..(n - 1))
  <2>1. f \in [E -> 0..(n - 1)]
    BY <1>4
  <2> HIDE DEF f
  <2>. QED
    BY <1>5, <2>1 DEF Injection, IsInjective
<1>7. IsFiniteSet(0..(n - 1)) /\ Cardinality(0..(n - 1)) = n
  BY <1>2, FS_Interval
<1>8. f \in Surjection(E, 0..(n - 1))
  <2> HIDE DEF f
  <2>. QED
    BY <1>6, <1>7, FS_Injection
<1>9. PICK v \in E : f[v] = i
  BY <1>8 DEF Surjection
<1>. QED
  BY <1>3, <1>9

\* Before a later asset's page, pages are full.
LEMMA PageIsFull ==
    ASSUME order \in TotalOrder(Published), NEW s \in Sources, NEW u \in Present(s),
           NEW page \in Nat \ {0},
           Cardinality(Earlier(s, u)) >= page * perPage
    PROVE  ~(Cardinality(OnPage(s, page)) < perPage)
<1> DEFINE P == OnPage(s, page)
           lo == (page - 1) * perPage
           I == lo..(lo + perPage - 1)
           g == [i \in I |-> CHOOSE v \in P : Cardinality(Earlier(s, v)) = i]
<1>1. lo \in Nat /\ perPage \in Nat \ {0} /\ page * perPage = lo + perPage
  BY CollectionAssumption
<1>2. IsFiniteSet(P) /\ IsFiniteSet(Earlier(s, u))
  <2>1. P \in SUBSET Urls /\ Earlier(s, u) \in SUBSET Urls
    BY DEF OnPage, Earlier, Present, Published
  <2>. QED
    BY <2>1, FS_Subset, CollectionAssumption
<1>3. Cardinality(P) \in Nat /\ Cardinality(Earlier(s, u)) \in Nat
  BY <1>2, FS_CardinalityType
<1>. HIDE DEF lo
<1>4. ASSUME NEW i \in I
      PROVE  \E v \in P : Cardinality(Earlier(s, v)) = i
  <2>1. i \in 0..(Cardinality(Earlier(s, u)) - 1)
    BY <1>1, <1>3
  <2>2. PICK v \in Present(s) : Cardinality(Earlier(s, v)) = i
    BY <2>1, PlacesAreTaken
  <2>3. v \in P
    BY <1>1, <2>2 DEF OnPage, lo
  <2>. QED
    BY <2>2, <2>3
<1>5. g \in Injection(I, P)
  <2>1. \A i \in I : g[i] \in P /\ Cardinality(Earlier(s, g[i])) = i
    BY <1>4
  <2>. QED
    BY <2>1 DEF Injection, IsInjective
<1>6. Cardinality(I) <= Cardinality(P)
  <2> HIDE DEF g
  <2>. QED
    BY <1>2, <1>5, FS_Injection
<1>7. Cardinality(I) = perPage
  BY <1>1, FS_Interval
<1>. QED
  BY <1>1, <1>3, <1>6, <1>7

\* What the cache's invariant says of the run's listings.
ListInv ==
    /\ left \subseteq Sources
    /\ listed \in [Sources -> [Urls -> Contents \cup {Absent}]]
    /\ upstream \in [Urls -> Contents \cup {Absent}]
    /\ \A s \in left, u \in Urls : listed[s][u] = Absent

\* It is part of what CacheInvariance says.
LEMMA ListInvHolds == ASSUME IInv PROVE ListInv
BY DEF IInv, TypeOK, GotOnce, NoUrls, ListInv

\* What is due depends on what is published.
LEMMA SameDue ==
    ASSUME upstream' = upstream, NEW s
    PROVE  Due(s)' = Due(s) /\ Present(s)' = Present(s)
BY DEF Due, Present, Published

\* So does what is to come, and on the requests that are still to be made.
LEMMA SameToCome ==
    ASSUME UNCHANGED <<upstream, order, pending>>, NEW s, NEW u, ToCome(s, u)
    PROVE  ToCome(s, u)'
<1>1. Earlier(s, u)' = Earlier(s, u)
  BY SameDue DEF Earlier
<1>. QED
  BY <1>1 DEF ToCome

\* An answer names what was due of its source, or it is still to come.
LEMMA AnswerKeeps ==
    ASSUME ListInv, CollectInv, NEW us, NEW next, Answer(us, next),
           NEW s \in Sources, asking = s,
           ASSUME NEW u \in Due(s), ToCome(s, u)
           PROVE  u \in us \/ ToCome(s, u)'
    PROVE  CollectInv'
<1>1. /\ UNCHANGED <<cacheVars, order, asking, due, shifted>>
      /\ found' = [u \in Urls |-> IF u \in us THEN Described(u) ELSE found[u]]
  BY DEF Answer
<1>2. UNCHANGED <<upstream, listed, left, pc, todo, opts>>
  BY <1>1 DEF cacheVars, diskVars, runVars, listVars
<1>3. \A u \in Urls : Described(u) \in Contents
  BY CollectionAssumption DEF Described, AnyContent, ListInv
<1>4. Absent \notin Contents
  BY CacheAssumption DEF Body
<1>5. found' \in [Urls -> Contents \cup {Absent}]
  BY <1>1, <1>3 DEF CollectInv
<1>6. order' \in TotalOrder(Published)'
  BY <1>1, <1>2 DEF CollectInv, TotalOrder, Published
<1>7. ASSUME NEW d \in due
      PROVE  /\ d \in Sources \X Urls
             /\ d[2] \in Due(d[1])'
             /\ opts'.partly \/ shifted' \/ OnTheWay(d[1], d[2])'
  <2>1. d \in Sources \X Urls /\ d[2] \in Due(d[1])
    BY DEF CollectInv
  <2>2. d[2] \in Due(d[1])'
    BY <1>2, <2>1, SameDue
  <2>3. CASE opts.partly \/ shifted \/ listed[d[1]][d[2]] # Absent \/ asking # d[1]
    BY <1>1, <1>2, <2>1, <2>2, <2>3 DEF CollectInv, OnTheWay
  <2>4. CASE found[d[2]] # Absent
    BY <1>1, <1>2, <1>3, <1>4, <2>1, <2>2, <2>4 DEF CollectInv, OnTheWay
  <2>5. CASE ToCome(d[1], d[2]) /\ asking = d[1]
    <3>. d[1] = s
      BY <2>5
    <3>1. d[2] \in us \/ ToCome(d[1], d[2])'
      BY <2>1, <2>5
    <3>2. found'[d[2]] # Absent \/ ToCome(d[1], d[2])'
      BY <1>1, <1>3, <1>4, <2>1, <3>1
    <3>. QED
      BY <1>1, <1>2, <2>1, <2>2, <3>2 DEF CollectInv, OnTheWay
  <2>. QED
    BY <2>1, <2>3, <2>4, <2>5 DEF CollectInv, OnTheWay
<1>. QED
  BY <1>1, <1>2, <1>5, <1>6, <1>7 DEF CollectInv

\* What is due is there, and under its source's name.
LEMMA DueIsPresent ==
    ASSUME NEW s, NEW u \in Due(s) PROVE u \in Present(s)
BY DEF Due

\* The pages of a release (githubReleaseAssets).
LEMMA PagesKeep ==
    ASSUME ListInv, CollectInv, Release \/ Page PROVE CollectInv'
<1>1. PICK s \in Sources : asking = s /\ Kind[s] = "github"
  BY CollectionAssumption DEF Release, Page, Asking, CollectInv, ListInv
<1>2. CASE Release
  <2>1. Answer({}, <<1>>) /\ Head(pending) = 0
    BY <1>2 DEF Release
  <2>2. ASSUME NEW u \in Due(s), ToCome(s, u)
        PROVE  ToCome(s, u)'
    <3>1. Cardinality(Earlier(s, u)) \in Nat
      <4>1. Earlier(s, u) \in SUBSET Urls
        BY DEF Earlier, Present, Published
      <4>. QED
        BY <4>1, FS_Subset, FS_CardinalityType, CollectionAssumption
    <3>2. pending' = <<1>> /\ UNCHANGED <<upstream, order>>
      BY <2>1 DEF Answer, cacheVars, diskVars
    <3>3. Earlier(s, u)' = Earlier(s, u)
      BY <3>2, SameDue DEF Earlier
    <3>4. Cardinality(Earlier(s, u)) >= (1 - 1) * perPage
      BY <3>1, CollectionAssumption
    <3>. QED
      BY <1>1, <3>2, <3>3, <3>4 DEF ToCome
  <2>. QED
    BY <1>1, <2>1, <2>2, AnswerKeeps
<1>3. CASE Page
  <2> DEFINE page == Head(pending)
             assets == OnPage(s, page)
  <2>1. Answer(assets, NextPage(assets, page)) /\ page # 0
    BY <1>1, <1>3 DEF Page
  <2>2. ASSUME NEW u \in Due(s), ToCome(s, u), u \notin assets
        PROVE  ToCome(s, u)'
    <3>1. u \in Present(s)
      BY DueIsPresent
    <3>2. Cardinality(Earlier(s, u)) \in Nat
      <4>1. Earlier(s, u) \in SUBSET Urls
        BY DEF Earlier, Present, Published
      <4>. QED
        BY <4>1, FS_Subset, FS_CardinalityType, CollectionAssumption
    <3>3. /\ page \in Nat \ {0}
          /\ Cardinality(Earlier(s, u)) >= (page - 1) * perPage
      BY <1>1, <2>1, <2>2 DEF ToCome
    <3>4. (page - 1) * perPage \in Nat /\ page * perPage \in Nat
      <4> HIDE DEF page
      <4>. QED
        BY <3>3, CollectionAssumption
    <3>5. Cardinality(Earlier(s, u)) >= page * perPage
      <4> HIDE DEF page
      <4>. QED
        BY <2>2, <3>1, <3>2, <3>3, <3>4 DEF OnPage
    <3>6. ~(Cardinality(assets) < perPage)
      <4> HIDE DEF page
      <4>. QED
        BY <1>1, <3>1, <3>3, <3>5, PageIsFull DEF CollectInv
    <3>7. pending' = <<page + 1>> /\ UNCHANGED <<upstream, order>>
      BY <2>1, <3>6 DEF Answer, NextPage, cacheVars, diskVars
    <3>8. Earlier(s, u)' = Earlier(s, u)
      BY <3>7, SameDue DEF Earlier
    <3>9. (page + 1) - 1 = page /\ page + 1 \in Nat
      BY <3>3
    <3>10. /\ pending' = <<page + 1>>
           /\ Cardinality(Earlier(s, u)') >= ((page + 1) - 1) * perPage
      BY <3>5, <3>7, <3>8, <3>9
    <3>. QED
      BY <1>1, <3>7, <3>9, <3>10 DEF ToCome
  <2>. QED
    <3> HIDE DEF assets, page
    <3>. QED
      BY <1>1, <2>1, <2>2, AnswerKeeps
<1>. QED
  BY <1>2, <1>3

\* What is in a sequence that is not empty.
LEMMA RangeHead ==
    ASSUME NEW T, NEW p \in Seq(T), p # <<>>
    PROVE  /\ Head(p) \in T /\ Tail(p) \in Seq(T)
           /\ Range(p) = {Head(p)} \cup Range(Tail(p))
<1>1. Head(p) \in T /\ Tail(p) \in Seq(T)
  OBVIOUS
<1>2. ASSUME NEW i \in DOMAIN p
      PROVE  p[i] = Head(p) \/ \E j \in DOMAIN Tail(p) : p[i] = Tail(p)[j]
  <2>1. i = 1 \/ (i - 1 \in DOMAIN Tail(p) /\ Tail(p)[i - 1] = p[i])
    OBVIOUS
  <2>. QED
    BY <2>1
<1>3. \A j \in DOMAIN Tail(p) : j + 1 \in DOMAIN p /\ Tail(p)[j] = p[j + 1]
  OBVIOUS
<1>4. 1 \in DOMAIN p /\ p[1] = Head(p)
  OBVIOUS
<1>5. Range(p) \subseteq {Head(p)} \cup Range(Tail(p))
  BY <1>2, Zenon DEF Range
<1>6. Range(Tail(p)) \subseteq Range(p)
  BY <1>3, Zenon DEF Range
<1>7. Head(p) \in Range(p)
  BY <1>4, Zenon DEF Range
<1>. QED
  BY <1>1, <1>5, <1>6, <1>7

\* What is in two sequences.
LEMMA RangeConcat ==
    ASSUME NEW T, NEW p \in Seq(T), NEW q \in Seq(T)
    PROVE  p \o q \in Seq(T) /\ Range(p \o q) = Range(p) \cup Range(q)
<1>1. p \o q \in Seq(T)
  OBVIOUS
<1>2. ASSUME NEW i \in DOMAIN (p \o q)
      PROVE  (p \o q)[i] \in Range(p) \cup Range(q)
  <2>1. \/ i \in DOMAIN p /\ (p \o q)[i] = p[i]
        \/ i - Len(p) \in DOMAIN q /\ (p \o q)[i] = q[i - Len(p)]
    OBVIOUS
  <2>. QED
    BY <2>1, Zenon DEF Range
<1>3. \A i \in DOMAIN p : i \in DOMAIN (p \o q) /\ (p \o q)[i] = p[i]
  OBVIOUS
<1>4. \A i \in DOMAIN q : i + Len(p) \in DOMAIN (p \o q) /\ (p \o q)[i + Len(p)] = q[i]
  OBVIOUS
<1>5. Range(p \o q) \subseteq Range(p) \cup Range(q)
  BY <1>2, Zenon DEF Range
<1>6. Range(p) \subseteq Range(p \o q)
  BY <1>3, Zenon DEF Range
<1>7. Range(q) \subseteq Range(p \o q)
  BY <1>4, Zenon DEF Range
<1>. QED
  BY <1>1, <1>5, <1>6, <1>7

\* The directories of a repository (githubDirURLs): one and all those below it
\* are asked for.
LEMMA DirectoryKeeps ==
    ASSUME ListInv, CollectInv, Directory PROVE CollectInv'
<1> DEFINE us == {u \in Present(asking) : DirOf[u] = Head(pending)}
           next == Subdirs[Head(pending)] \o Tail(pending)
<1>1. Answer(us, next) /\ pending # <<>>
  BY DEF Directory, Asking
<1>0. PICK s \in Sources : asking = s /\ Kind[s] = "github_dir"
  BY CollectionAssumption DEF Directory, Asking, CollectInv, ListInv
<1>2. ASSUME NEW u \in Due(s), ToCome(s, u), u \notin us
      PROVE  ToCome(s, u)'
  <2>1. DirOf[u] # Head(pending)
    BY <1>0, <1>2, DueIsPresent
  <2>2. /\ pending \in Seq(Dirs)
        /\ \A ds \in SUBSET Dirs :
             Closed(ds) /\ Range(pending) \subseteq ds => DirOf[u] \in ds
    BY <1>0, <1>2 DEF ToCome
  <2>3. /\ Head(pending) \in Dirs /\ Tail(pending) \in Seq(Dirs)
        /\ Range(pending) = {Head(pending)} \cup Range(Tail(pending))
    BY <1>1, <2>2, RangeHead
  <2>4. Subdirs[Head(pending)] \in Seq(Dirs)
    BY <2>3, CollectionAssumption
  <2>5. /\ next \in Seq(Dirs)
        /\ Range(next) = Range(Subdirs[Head(pending)]) \cup Range(Tail(pending))
    <3>1. PICK p \in Seq(Dirs), q \in Seq(Dirs) :
            p = Subdirs[Head(pending)] /\ q = Tail(pending)
      BY <2>3, <2>4
    <3>2. p \o q \in Seq(Dirs) /\ Range(p \o q) = Range(p) \cup Range(q)
      BY RangeConcat
    <3>. QED
      BY <3>1, <3>2
  <2>6. ASSUME NEW ds \in SUBSET Dirs, Closed(ds), Range(next) \subseteq ds
        PROVE  DirOf[u] \in ds
    <3>1. ds \cup {Head(pending)} \in SUBSET Dirs
      BY <2>3
    <3>2. Closed(ds \cup {Head(pending)})
      BY <2>5, <2>6 DEF Closed
    <3>3. Range(pending) \subseteq ds \cup {Head(pending)}
      BY <2>3, <2>5, <2>6
    <3>. QED
      BY <2>1, <2>2, <3>1, <3>2, <3>3
  <2>7. pending' = next 
    BY <1>1 DEF Answer
  <2>. QED
    <3> HIDE DEF next
    <3>. QED
      BY <1>0, <1>1, <2>5, <2>6, <2>7 DEF ToCome
<1>. QED
  <2> HIDE DEF next
  <2>1. Answer({u \in Present(s) : DirOf[u] = Head(pending)}, next)
    BY <1>0, <1>1
  <2>. QED
    BY <1>0, <1>2, <2>1, AnswerKeeps

\* The kinds of source that are one request, or three of which one will do.
LEMMA OnePageKeeps ==
    ASSUME ListInv, CollectInv, Index \/ NoIndex \/ Html \/ Resolved \/ Pattern
    PROVE  CollectInv'
<1>1. PICK s \in Sources : asking = s
  BY CollectionAssumption DEF Index, NoIndex, Html, Resolved, Pattern, Asking, CollectInv, ListInv
<1>2. CASE Index \/ Html
  <2>1. Answer(Present(s), <<>>)
    BY <1>1, <1>2 DEF Index, Html
  <2>. QED
    BY <1>1, <2>1, DueIsPresent, AnswerKeeps
<1>3. CASE NoIndex
  <2>1. Answer({}, Tail(pending)) /\ Len(pending) > 1 /\ Kind[s] = "feed"
    BY <1>1, <1>3 DEF NoIndex, Asking
  <2>2. pending' = Tail(pending)
    BY <2>1 DEF Answer
  <2>3. ASSUME NEW u \in Due(s), ToCome(s, u) PROVE ToCome(s, u)'
    <3>1. pending \in Seq(Nat)
      BY <2>1, <2>3 DEF ToCome
    <3>2. Tail(pending) \in Seq(Nat) /\ Len(Tail(pending)) > 0
      BY <2>1, <3>1
    <3>3. ASSUME NEW q \in Seq(Nat), Len(q) > 0 PROVE q # <<>>
      BY <3>3
    <3>4. pending' \in Seq(Nat) \ {<<>>}
      BY <2>2, <3>2, <3>3, Zenon
    <3>. QED
      BY <2>1, <3>4 DEF ToCome
  <2>. QED
    BY <1>1, <2>1, <2>3, AnswerKeeps
<1>4. CASE Resolved
  <2>1. Answer(Place[s], <<>>)
    BY <1>1, <1>4 DEF Resolved
  <2>2. \A u \in Due(s) : u \in Place[s]
    BY DueIsPresent DEF Present
  <2>. QED
    BY <1>1, <2>1, <2>2, AnswerKeeps
<1>5. CASE Pattern
  <2>1. PICK best \in Newest(Present(s)) : Answer(best, <<>>)
    BY <1>1, <1>5 DEF Pattern
  <2>2. ASSUME NEW u \in Due(s) PROVE u \in best
    <3>1. u \in Present(s) /\ Present(s) \subseteq Urls
      BY DueIsPresent DEF Present, Published
    <3>2. PICK b \in best : Group[b] = Group[u]
      BY <2>1, <3>1 DEF Newest
    <3>3. b \in Present(s) /\ Rank[u] <= Rank[b]
      BY <2>1, <3>1, <3>2 DEF Newest
    <3>4. b # u => Rank[b] < Rank[u]
      BY <1>1, <1>5, <3>2, <3>3 DEF Due, Pattern, Asking
    <3>. QED
      BY <3>1, <3>2, <3>3, <3>4, CollectionAssumption
  <2>. QED
    BY <1>1, <2>1, <2>2, AnswerKeeps
<1>. QED
  BY <1>2, <1>3, <1>4, <1>5

\* A source that is asked has what is due of it to come.
LEMMA AskKeeps ==
    ASSUME ListInv, CollectInv, NEW s \in Sources, Ask(s) PROVE CollectInv'
<1>1. /\ UNCHANGED <<cacheVars, order, due, shifted>>
      /\ asking' = s /\ pending' = Requests(s) /\ found' = NoUrls
      /\ s \in left /\ pc = "next" /\ todo = {}
  BY DEF Ask
<1>2. UNCHANGED <<upstream, listed, left, pc, todo, opts>>
  BY <1>1 DEF cacheVars, diskVars, runVars, listVars
<1>3. found' \in [Urls -> Contents \cup {Absent}]
  BY <1>1 DEF NoUrls
<1>4. order' \in TotalOrder(Published)'
  BY <1>1, <1>2 DEF CollectInv, TotalOrder, Published
<1>5. ASSUME NEW u \in Due(s) PROVE ToCome(s, u)'
  <2>1. u \in Place[s]
    BY DueIsPresent DEF Present
  <2>2. CASE Kind[s] = "github"
    BY <1>1, <2>2 DEF ToCome, Requests
  <2>3. CASE Kind[s] = "github_dir"
    <3>1. pending' = <<Root>>
      BY <1>1, <2>3 DEF Requests
    <3>2. Range(<<Root>>) = {Root}
      BY DEF Range
    <3>. QED
      BY <2>1, <2>3, <3>1, <3>2, CollectionAssumption DEF ToCome
  <2>4. CASE Kind[s] = "feed"
    BY <1>1, <2>4 DEF ToCome, Requests
  <2>5. CASE Kind[s] \in {"ipk", "html"}
    BY <1>1, <2>5 DEF ToCome, Requests
  <2>6. CASE Kind[s] = "url"
    BY <1>1, <2>6 DEF ToCome, Requests
  <2>. QED
    BY <2>2, <2>3, <2>4, <2>5, <2>6, CollectionAssumption
<1>6. ASSUME NEW d \in due
      PROVE  /\ d \in Sources \X Urls
             /\ d[2] \in Due(d[1])'
             /\ opts'.partly \/ shifted' \/ OnTheWay(d[1], d[2])'
  <2>1. d \in Sources \X Urls /\ d[2] \in Due(d[1])
    BY DEF CollectInv
  <2>2. d[2] \in Due(d[1])'
    BY <1>2, <2>1, SameDue
  <2>3. asking' = d[1] => ToCome(d[1], d[2])'
    BY <1>1, <1>5, <2>1
  <2>. QED
    BY <1>1, <1>2, <2>1, <2>2, <2>3 DEF CollectInv, OnTheWay
<1>. QED
  BY <1>1, <1>2, <1>3, <1>4, <1>6 DEF CollectInv

\* What a source had to offer when it was listed is listed (iterIPKURLs).
LEMMA ListedKeeps ==
    ASSUME ListInv, CollectInv, Listed PROVE CollectInv'
<1>1. PICK s \in Sources : asking = s
  BY CollectionAssumption DEF Listed, CollectInv, ListInv
<1>2. /\ pending = <<>> /\ left' = left \ {s} /\ pc = "next" /\ pc' = pc
      /\ listed' \in [Sources -> [Urls -> Contents \cup {Absent}]]
      /\ listed'[s] = found /\ \A t \in Sources \ {s} : listed'[t] = listed[t]
      /\ UNCHANGED <<upstream, opts, order, due, shifted>>
      /\ asking' = NoSource /\ found' = NoUrls
  BY <1>1 DEF Listed, ListSource, diskVars, CollectInv, ListInv
<1>3. found' \in [Urls -> Contents \cup {Absent}]
  BY <1>2 DEF NoUrls
<1>4. order' \in TotalOrder(Published)'
  BY <1>2 DEF CollectInv, TotalOrder, Published
<1>5. ASSUME NEW d \in due
      PROVE  /\ d \in Sources \X Urls
             /\ d[2] \in Due(d[1])'
             /\ opts'.partly \/ shifted' \/ OnTheWay(d[1], d[2])'
  <2>1. /\ d \in Sources \X Urls /\ d[2] \in Due(d[1])
        /\ opts.partly \/ shifted \/ OnTheWay(d[1], d[2])
    BY DEF CollectInv
  <2>2. d[2] \in Due(d[1])'
    BY <1>2, <2>1, SameDue
  <2>3. CASE d[1] # s
    <3>1. OnTheWay(d[1], d[2]) => OnTheWay(d[1], d[2])'
      BY <1>2, <2>1, <2>3, CollectionAssumption DEF OnTheWay
    <3>. QED
      BY <1>2, <2>1, <2>2, <3>1
  <2>4. CASE d[1] = s
    <3>1. ~ToCome(d[1], d[2])
      <4>1. CASE Kind[s] = "github"
        BY <1>2, <2>4, <4>1 DEF ToCome
      <4>2. CASE Kind[s] = "github_dir"
        <5>1. Range(pending) = {}
          BY <1>2 DEF Range
        <5>2. Closed({})
          BY DEF Closed
        <5>. QED
          BY <2>4, <4>2, <5>1, <5>2 DEF ToCome
      <4>3. CASE Kind[s] \notin {"github", "github_dir"}
        BY <1>2, <2>4, <4>3 DEF ToCome
      <4>. QED
        BY <4>1, <4>2, <4>3
    <3>2. OnTheWay(d[1], d[2]) => found[d[2]] # Absent
      BY <1>1, <2>1, <2>4, <3>1, CollectionAssumption DEF OnTheWay, CollectInv, ListInv
    <3>3. found[d[2]] # Absent => OnTheWay(d[1], d[2])'
      BY <1>2, <2>4 DEF OnTheWay
    <3>. QED
      BY <1>2, <2>1, <2>2, <3>2, <3>3
  <2>. QED
    BY <2>3, <2>4
<1>. QED
  BY <1>2, <1>3, <1>4, <1>5 DEF CollectInv

\* A run starts with all its sources still to be listed.
LEMMA StartKeeps ==
    ASSUME ListInv, CollectInv, Start PROVE CollectInv'
<1>1. /\ UNCHANGED <<upstream, listed, todo, order, asking, pending, found>>
      /\ left' \subseteq Sources /\ pc = "idle" /\ pc' = "next"
      /\ due' = UNION {{s} \X Due(s) : s \in left'}
  BY CacheAssumption DEF Start, StartRun, diskVars, askVars
<1>2. asking' = NoSource
  BY <1>1 DEF CollectInv
<1>3. order' \in TotalOrder(Published)'
  BY <1>1 DEF CollectInv, TotalOrder, Published
<1>4. ASSUME NEW d \in due'
      PROVE  /\ d \in Sources \X Urls
             /\ d[2] \in Due(d[1])'
             /\ OnTheWay(d[1], d[2])'
  <2>1. PICK s \in left' : d \in {s} \X Due(s)
    BY <1>1
  <2>2. d[1] = s /\ d[2] \in Due(s) /\ d = <<d[1], d[2]>>
    BY <2>1
  <2>3. d[2] \in Urls
    BY <2>2, DueIsPresent DEF Present, Published
  <2>4. d[2] \in Due(d[1])'
    BY <1>1, <2>2, SameDue
  <2>5. OnTheWay(d[1], d[2])'
    BY <1>1, <1>2, <2>2, CollectionAssumption DEF OnTheWay
  <2>. QED
    BY <1>1, <2>2, <2>3, <2>4, <2>5
<1>. QED
  BY <1>1, <1>2, <1>3, <1>4 DEF CollectInv

\* A source that cannot be listed is counted as missed.
LEMMA FailureKeeps ==
    ASSUME ListInv, CollectInv, SourceFails, IInv PROVE CollectInv'
<1>1. /\ UNCHANGED <<upstream, listed, todo, order, due, shifted>>
      /\ pc = "next" /\ pc' = "next"
      /\ asking' = NoSource /\ found' = NoUrls /\ opts'.partly = TRUE
  BY DEF SourceFails, NothingOf, ListFails, diskVars, IInv, TypeOK
<1>2. order' \in TotalOrder(Published)'
  BY <1>1 DEF CollectInv, TotalOrder, Published
<1>3. ASSUME NEW d \in due
      PROVE  d \in Sources \X Urls /\ d[2] \in Due(d[1])'
  BY <1>1, SameDue DEF CollectInv
<1>. QED
  BY <1>1, <1>2, <1>3 DEF CollectInv, NoUrls

\* A run that ends forgets what was due.
LEMMA EndKeeps ==
    ASSUME CollectInv, Forget, UNCHANGED <<upstream, order>>, due' = {},
           found' \in [Urls -> Contents \cup {Absent}], asking' = NoSource
    PROVE  CollectInv'
<1>1. order' \in TotalOrder(Published)'
  BY DEF CollectInv, TotalOrder, Published
<1>. QED
  BY <1>1 DEF CollectInv, Forget

\* The steps that get the files, and the clean-up.
LEMMA CachedKeeps ==
    ASSUME IInv, ListInv, CollectInv, Cached PROVE CollectInv'
<1>1. Step /\ UNCHANGED <<order, asking, pending, found>>
  BY DEF Cached, askVars
<1>2. CASE pc = "gc"
  <2>1. Forget /\ UNCHANGED upstream
    BY <1>1, <1>2
    DEF Step, Reuse, Request, CannotBuild, TryAgain, RequestFails, Answered, CopyFails,
        Copied, Accept, Reject, EndGets, Gc, GcStops, NoGc, diskVars
  <2>2. due' = {} /\ asking' = NoSource
    BY <1>1, <1>2 DEF Cached, CollectInv
  <2>. QED
    BY <1>1, <2>1, <2>2, EndKeeps DEF CollectInv
<1>3. CASE pc # "gc"
  <2>1. /\ UNCHANGED <<upstream, listed, left>>
        /\ opts.partly => opts'.partly
        /\ pc' = "gc" => left = {}
    <3>. opts \in [refresh: BOOLEAN, partly: BOOLEAN] /\ pc # "gc"
      BY <1>3 DEF IInv, TypeOK
    <3>1. Missing => /\ UNCHANGED <<listed, left>>
                     /\ opts.partly => opts'.partly
                     /\ pc' = "next"
      BY DEF Missing, DropSource, DropFile, listVars
    <3>2. CASE \E u \in Urls : Reuse(u) \/ Request(u)
      BY <3>2 DEF Reuse, Request, diskVars, listVars
    <3>3. CASE \E u \in Urls : CannotBuild(u)
      BY <3>1, <3>3 DEF CannotBuild
    <3>4. CASE TryAgain \/ Answered \/ Copied
      BY <3>4 DEF TryAgain, Answered, Copied, Renamed, diskVars, listVars, runVars
    <3>5. CASE RequestFails \/ CopyFails \/ Reject
      BY <3>1, <3>5 DEF RequestFails, CopyFails, Reject, diskVars
    <3>6. CASE Accept \/ EndGets
      BY <3>6 DEF Accept, EndGets, diskVars, listVars, runVars
    <3>7. CASE Gc \/ GcStops \/ NoGc
      BY <3>7 DEF Gc, GcStops, NoGc
    <3>. QED
      BY <1>1, <3>2, <3>3, <3>4, <3>5, <3>6, <3>7 DEF Step
  <2>2. asking = NoSource
    <3>1. ~(pc = "next" /\ todo = {} /\ left # {})
      BY <1>1, <1>3
      DEF Step, Reuse, Request, CannotBuild, TryAgain, RequestFails, Answered, CopyFails,
          Copied, Accept, Reject, EndGets, Gc, GcStops, NoGc
    <3>. QED
      BY <3>1 DEF CollectInv
  <2>3. UNCHANGED <<due, shifted>>
    BY <1>3 DEF Cached
  <2>4. order' \in TotalOrder(Published)'
    BY <1>1, <2>1 DEF CollectInv, TotalOrder, Published
  <2>5. ASSUME NEW d \in due
        PROVE  /\ d \in Sources \X Urls
               /\ d[2] \in Due(d[1])'
               /\ opts'.partly \/ shifted' \/ OnTheWay(d[1], d[2])'
    <3>1. /\ d \in Sources \X Urls /\ d[2] \in Due(d[1])
          /\ opts.partly \/ shifted \/ OnTheWay(d[1], d[2])
      BY DEF CollectInv
    <3>2. d[2] \in Due(d[1])'
      BY <2>1, <3>1, SameDue
    <3>3. OnTheWay(d[1], d[2]) => OnTheWay(d[1], d[2])'
      BY <1>1, <2>1, <2>2, <3>1, CollectionAssumption DEF OnTheWay
    <3>. QED
      BY <2>1, <2>3, <3>1, <3>2, <3>3
  <2>. QED
    BY <1>1, <2>1, <2>2, <2>3, <2>4, <2>5 DEF CollectInv
<1>. QED
  BY <1>2, <1>3

\* The server: another file does not change what is due of a URL; an upload
\* takes the last place, and a deletion moves places, which is remembered.
LEMMA ChangeKeeps ==
    ASSUME ListInv, CollectInv, NEW u \in Urls, Change(u) PROVE CollectInv'
<1> DEFINE rest == Published \ {u}
<1>1. /\ UNCHANGED <<listed, left, todo, opts, pc, asking, pending, found>>
      /\ \A v \in Urls \ {u} : upstream'[v] = upstream[v]
      /\ order' = (order \cap (rest \X rest))
                  \cup (IF upstream'[u] = Absent THEN {} ELSE rest \X {u})
      /\ due' = {d \in due : d[2] # u /\ d[2] \in Due(d[1])'}
      /\ shifted' = (shifted \/ (upstream[u] # Absent /\ asking # NoSource))
  BY DEF Change, Publish, runVars, listVars, askVars, ListInv
<1>2. Published' = rest \cup (IF upstream'[u] = Absent THEN {} ELSE {u})
  BY <1>1 DEF Published
<1>3. order' \in TotalOrder(Published)'
  <2>1. /\ order \subseteq Published \X Published
        /\ \A v \in Published : <<v, v>> \notin order
        /\ \A v, w \in Published : v # w => <<v, w>> \in order \/ <<w, v>> \in order
        /\ \A v, w, x \in Published :
             <<v, w>> \in order /\ <<w, x>> \in order => <<v, x>> \in order
    BY DEF CollectInv, TotalOrder
  <2>2. ASSUME NEW v, NEW w
        PROVE  <<v, w>> \in order' <=>
                 \/ v \in rest /\ w \in rest /\ <<v, w>> \in order
                 \/ upstream'[u] # Absent /\ v \in rest /\ w = u
    BY <1>1
  <2>3. order' \subseteq Published' \X Published'
    BY <1>1, <1>2
  <2>4. u \notin rest /\ rest \subseteq Published
    OBVIOUS
  <2>5. /\ \A v \in Published' : v \in rest \/ (v = u /\ upstream'[u] # Absent)
        /\ \A v \in rest : v \in Published'
    BY <1>2
  <2>. HIDE DEF rest
  <2>6. \A v \in Published' : <<v, v>> \notin order'
    BY <2>1, <2>2, <2>4, <2>5
  <2>7. \A v, w \in Published' : v # w => <<v, w>> \in order' \/ <<w, v>> \in order'
    BY <2>1, <2>2, <2>4, <2>5
  <2>8. \A v, w, x \in Published' :
           <<v, w>> \in order' /\ <<w, x>> \in order' => <<v, x>> \in order'
    BY <2>1, <2>2, <2>4, <2>5
  <2>. QED
    BY <2>3, <2>6, <2>7, <2>8 DEF TotalOrder
<1>4. ASSUME NEW d \in due, d[2] # u, d[2] \in Due(d[1])'
      PROVE  /\ d \in Sources \X Urls
             /\ opts'.partly \/ shifted' \/ OnTheWay(d[1], d[2])'
  <2>1. /\ d \in Sources \X Urls
        /\ opts.partly \/ shifted \/ OnTheWay(d[1], d[2])
    BY DEF CollectInv
  <2>2. CASE asking = NoSource
    <3>1. OnTheWay(d[1], d[2]) => OnTheWay(d[1], d[2])'
      BY <1>1, <2>1, <2>2, CollectionAssumption DEF OnTheWay
    <3>. QED
      BY <1>1, <2>1, <3>1
  <2>3. CASE asking # NoSource /\ upstream[u] = Absent
    <3>1. ASSUME NEW v
          PROVE  v \in Earlier(d[1], d[2])' <=> v \in Earlier(d[1], d[2])
      <4>1. u \notin Published /\ rest = Published
        BY <2>3 DEF Published
      <4>2. order \subseteq Published \X Published
        BY DEF CollectInv, TotalOrder
      <4>3. <<v, d[2]>> \in order' <=> <<v, d[2]>> \in order
        BY <1>1, <1>4, <4>1, <4>2
      <4>4. <<v, d[2]>> \in order => v \in Published /\ v \in Published'
        BY <1>2, <4>1, <4>2
      <4>. QED
        BY <4>3, <4>4 DEF Earlier, Present
    <3>2. Earlier(d[1], d[2])' = Earlier(d[1], d[2])
      BY <3>1
    <3>3. ToCome(d[1], d[2]) => ToCome(d[1], d[2])'
      BY <1>1, <3>2 DEF ToCome
    <3>4. OnTheWay(d[1], d[2]) => OnTheWay(d[1], d[2])'
      BY <1>1, <3>3 DEF OnTheWay
    <3>. QED
      BY <1>1, <2>1, <3>4
  <2>4. CASE asking # NoSource /\ upstream[u] # Absent
    BY <1>1, <2>1, <2>4
  <2>. QED
    BY <2>2, <2>3, <2>4
<1>. QED
  BY <1>1, <1>3, <1>4 DEF CollectInv

\* The invariant of the collection: what was there throughout the run, of a
\* source that was not missed, is listed or will be.
THEOREM CollectInvariance == CollectSpec => []CollectInv
<1>1. CollectInit => CollectInv
  BY DEF CollectInit, CollectInv, Init, NoUrls
<1>2. ASSUME IInv, CollectInv, [CollectNext]_collectVars PROVE CollectInv'
  <2>. ListInv
    BY <1>2, ListInvHolds
  <2>1. CASE \E u \in Urls : Change(u)
    BY <1>2, <2>1, ChangeKeeps
  <2>2. CASE \E s \in Sources : Ask(s)
    BY <1>2, <2>2, AskKeeps
  <2>3. CASE Start
    BY <1>2, <2>3, StartKeeps
  <2>4. CASE Release \/ Page
    BY <1>2, <2>4, PagesKeep
  <2>5. CASE Directory
    BY <1>2, <2>5, DirectoryKeeps
  <2>6. CASE Index \/ NoIndex \/ Html \/ Resolved \/ Pattern
    BY <1>2, <2>6, OnePageKeeps
  <2>7. CASE Listed
    BY <1>2, <2>7, ListedKeeps
  <2>8. CASE SourceFails
    BY <1>2, <2>8, FailureKeeps
  <2>9. CASE Cached
    BY <1>2, <2>9, CachedKeeps
  <2>10. CASE Killed
    BY <1>2, <2>10, EndKeeps DEF Killed, Kill, diskVars, NoUrls
  <2>11. CASE UNCHANGED collectVars
    <3>1. UNCHANGED <<upstream, listed, left, todo, opts, pc, order, asking, pending,
                      found, due, shifted>>
      BY <2>11 DEF collectVars, cacheVars, diskVars, runVars, listVars, askVars
    <3>2. order' \in TotalOrder(Published)'
      BY <1>2, <3>1 DEF CollectInv, TotalOrder, Published
    <3>3. ASSUME NEW d \in due
          PROVE  /\ d[2] \in Due(d[1])'
                 /\ OnTheWay(d[1], d[2]) => OnTheWay(d[1], d[2])'
      BY <1>2, <3>1, SameDue, SameToCome DEF CollectInv, OnTheWay
    <3>. QED
      BY <1>2, <3>1, <3>2, <3>3 DEF CollectInv
  <2>. QED
    BY <1>2, <2>1, <2>2, <2>3, <2>4, <2>5, <2>6, <2>7, <2>8, <2>9, <2>10, <2>11
    DEF CollectNext
<1>3. CollectSpec => []IInv
  BY CollectionImplementsCache, CacheInvariance DEF CacheSpec
<1>. QED
  BY <1>1, <1>2, <1>3, PTL DEF CollectSpec

\* A run that saw every source lists all that these had to offer throughout:
\* no page, directory or index is skipped, and no failure taken for an empty
\* answer (githubReleaseAssets, githubDirURLs, feedURLs, expandIPKURL).
THEOREM NothingMissedCorrect == CollectSpec => []NothingMissed
<1>1. CollectInv => NothingMissed
  BY DEF CollectInv, NothingMissed, OnTheWay
<1>. QED
  BY <1>1, CollectInvariance, PTL
=============================================================================
