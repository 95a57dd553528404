------------------------- MODULE FileManagerProofs -------------------------
(***************************************************************************)
(* What resolve_safe_path returns for every name, directory and set of     *)
(* links: nothing outside the root, and every file below it by its plain   *)
(* name. Components, Canonical and Join are recursive functions; induction *)
(* over them is as in ProtocolProofs.                                      *)
(***************************************************************************)
EXTENDS FileManager, ProtocolProofs

-----------------------------------------------------------------------------
(* The walk along the components of a name *)

Start == [at |-> Root, real |-> TRUE]

\* The recursion that defines Walk, for the first n components.
IsWalk(f, H, c, n) ==
    f = [i \in 0 .. n |-> IF i = 0 THEN Start ELSE Enter(H, f[i - 1], c[i])]

\* Every walk can go on to the last component.
LEMMA WalkExists ==
    ASSUME NEW H, NEW c, NEW len \in Nat
    PROVE  \E f : IsWalk(f, H, c, len)
<1> DEFINE T == {n \in 0 .. len : ~\E f : IsWalk(f, H, c, n)}
<1>1. T = {}
  <2> SUFFICES ASSUME T # {} PROVE FALSE
    OBVIOUS
  <2>1. T \in SUBSET Nat
    OBVIOUS
  <2>2. PICK n \in T : \A m \in T : n <= m
    <3> HIDE DEF T
    <3> QED BY <2>1, Least
  <2>3. CASE n = 0
    <3> DEFINE f == [i \in 0 .. 0 |-> Start]
    <3>1. IsWalk(f, H, c, 0)
      BY DEF IsWalk
    <3> QED BY <2>2, <2>3, <3>1
  <2>4. CASE n # 0
    <3>1. n \in Nat /\ n - 1 \in 0 .. len /\ n - 1 \notin T
      BY <2>2, <2>4
    <3>2. PICK f : IsWalk(f, H, c, n - 1)
      BY <3>1
    <3> DEFINE g == [i \in 0 .. n |->
                       IF i = n THEN Enter(H, f[n - 1], c[n]) ELSE f[i]]
    <3>3. \A i \in 0 .. n - 1 : g[i] = f[i]
      BY <3>1
    <3>4. \A i \in 0 .. n - 1 :
            f[i] = IF i = 0 THEN Start ELSE Enter(H, f[i - 1], c[i])
      BY <3>2 DEF IsWalk
    <3>5. \A i \in 0 .. n :
            g[i] = IF i = 0 THEN Start ELSE Enter(H, g[i - 1], c[i])
      <4> SUFFICES ASSUME NEW i \in 0 .. n
                   PROVE  g[i] = IF i = 0 THEN Start
                                 ELSE Enter(H, g[i - 1], c[i])
        OBVIOUS
      <4>1. CASE i = n
        <5>1. n - 1 \in 0 .. n - 1 /\ g[n - 1] = f[n - 1]
          BY <3>1, <3>3
        <5> QED BY <2>4, <4>1, <5>1
      <4>2. CASE i # n /\ i # 0
        <5>1. i - 1 \in 0 .. n - 1 /\ i \in 0 .. n - 1
          BY <3>1, <4>2
        <5> QED BY <3>3, <3>4, <4>2, <5>1
      <4>3. CASE i # n /\ i = 0
        BY <3>1, <3>3, <3>4, <4>3
      <4> QED BY <4>1, <4>2, <4>3
    <3>6. IsWalk(g, H, c, n)
      <4>1. g = [i \in 0 .. n |-> g[i]]
        OBVIOUS
      <4> HIDE DEF g
      <4> QED BY <3>5, <4>1 DEF IsWalk
    <3> QED BY <2>2, <3>6
  <2> QED BY <2>3, <2>4
<1> QED BY <1>1

\* What Walk computes.
LEMMA WalkDef ==
    ASSUME NEW H, NEW c, Len(c) \in Nat
    PROVE  IsWalk(Walk(H, c), H, c, Len(c))
<1>1. PICK f : IsWalk(f, H, c, Len(c))
  BY WalkExists
<1>2. Walk(H, c) = CHOOSE g : IsWalk(g, H, c, Len(c))
  BY DEF Walk, IsWalk, Start
<1> QED BY <1>1, <1>2

\* A set that all components of a path are taken from.
Spells(U) == Root \in Seq(U) /\ \A p \in DOMAIN Links : Links[p] \in Seq(U)

Places(U) == [at : Seq(U), real : BOOLEAN]

\* The parent of a path, that of "/" included, is a path.
LEMMA FrontSeq ==
    ASSUME NEW U, NEW s \in Seq(U)
    PROVE  Front(s) \in Seq(U)
<1>1. CASE s = <<>>
  BY <1>1 DEF Front
<1>2. CASE s # <<>>
  BY <1>2 DEF Front
<1> QED BY <1>1, <1>2

\* One component further there is a path again.
LEMMA EnterType ==
    ASSUME NEW U, Spells(U), NEW H, NEW place \in Places(U), NEW name \in U
    PROVE  Enter(H, place, name) \in Places(U)
<1> DEFINE real == place.real /\ place.at \in Dirs
           next == IF name \in {<<>>, <<".">>} THEN place.at
                   ELSE IF name = <<"..">> THEN Front(place.at)
                   ELSE Append(place.at, name)
<1>1. next \in Seq(U)
  BY FrontSeq DEF Places
<1>2. Follow(H, next) \in Seq(U)
  BY <1>1 DEF Spells, Follow
<1>3. real \in BOOLEAN
  OBVIOUS
<1>4. Enter(H, place, name) =
        [at |-> IF real THEN Follow(H, next) ELSE next, real |-> real]
  BY DEF Enter
<1> HIDE DEF real, next
<1> QED BY <1>1, <1>2, <1>3, <1>4 DEF Places

\* Every place on the way is a path.
LEMMA WalkType ==
    ASSUME NEW U, Spells(U), NEW H, NEW c \in Seq(U)
    PROVE  \A i \in 0 .. Len(c) : Walk(H, c)[i] \in Places(U)
<1> DEFINE w == Walk(H, c)
           T == {i \in 0 .. Len(c) : w[i] \notin Places(U)}
<1>0. Len(c) \in Nat /\ \A i \in 1 .. Len(c) : c[i] \in U
  OBVIOUS
<1>1. \A i \in 0 .. Len(c) :
        w[i] = IF i = 0 THEN Start ELSE Enter(H, w[i - 1], c[i])
  <2> HIDE DEF w
  <2>1. IsWalk(w, H, c, Len(c))
    BY <1>0, WalkDef DEF w
  <2> QED BY <2>1 DEF IsWalk
<1>2. Start \in Places(U)
  BY DEF Start, Places, Spells
<1> HIDE DEF w
<1>3. T = {}
  <2> SUFFICES ASSUME T # {} PROVE FALSE
    OBVIOUS
  <2>1. T \in SUBSET Nat
    OBVIOUS
  <2>2. PICK n \in T : \A m \in T : n <= m
    <3> HIDE DEF T
    <3> QED BY <2>1, Least
  <2>3. n # 0
    BY <1>1, <1>2, <2>2
  <2>4. n - 1 \in 0 .. Len(c) /\ n - 1 \notin T /\ n \in 1 .. Len(c)
    BY <1>0, <2>2, <2>3
  <2>5. w[n - 1] \in Places(U) /\ c[n] \in U
    BY <1>0, <2>4
  <2>6. w[n] = Enter(H, w[n - 1], c[n])
    BY <1>1, <2>2, <2>3
  <2> QED BY <2>2, <2>5, <2>6, EnterType
<1> QED BY <1>3 DEF w

\* However a name is cut, there are finitely many components.
LEMMA ComponentsSeq ==
    ASSUME NEW S, NEW filename \in Seq(S)
    PROVE  \E n \in Nat : Components(filename)
                           = [k \in 1 .. n |-> Components(filename)[k]]
<1>1. Cardinality(Ends(filename)) \in Nat
  <2>1. /\ Ends(filename) \in SUBSET Nat
        /\ \A i \in Ends(filename) : i <= Len(filename) + 1
    BY DEF Ends
  <2>2. Len(filename) + 1 \in Nat
    OBVIOUS
  <2>3. IsFiniteSet(Ends(filename))
    BY <2>1, <2>2, FS_BoundedSetOfNaturals
  <2> QED BY <2>3, FS_CardinalityType
<1>2. Components(filename)
        = [k \in 1 .. Cardinality(Ends(filename)) |-> Components(filename)[k]]
  BY DEF Components
<1> QED BY <1>1, <1>2

\* The path that weakly_canonical returns is one, whatever the name.
LEMMA CanonicalSeq ==
    ASSUME NEW S, NEW filename \in Seq(S), NEW H
    PROVE  \E U : /\ Root \in Seq(U) /\ Canonical(H, filename) \in Seq(U)
<1> DEFINE c == Components(filename)
           Paths == {Root} \cup Range(Links)
           U == (UNION {Range(p) : p \in Paths}) \cup Range(c) \cup {<<>>}
<1>1. c \in Seq(U) /\ Len(c) \in Nat
  <2>1. PICK n \in Nat : c = [k \in 1 .. n |-> c[k]]
    BY ComponentsSeq
  <2>2. DOMAIN c = 1 .. n /\ \A k \in 1 .. n : c[k] \in Range(c)
    <3> HIDE DEF c
    <3> QED BY <2>1 DEF Range
  <2>3. Range(c) \subseteq U
    OBVIOUS
  <2> HIDE DEF c, U
  <2>4. c \in [1 .. n -> U]
    BY <2>1, <2>2, <2>3
  <2> QED BY <2>4
<1>2. \A p \in Paths : p \in Seq(U)
  <2> SUFFICES ASSUME NEW p \in Paths PROVE p \in Seq(U)
    OBVIOUS
  <2>1. p \in Seq(Range(p))
    BY FilesAssumption
  <2>2. Range(p) \subseteq U
    OBVIOUS
  <2> HIDE DEF U
  <2> QED BY <2>1, <2>2
<1>3. Spells(U)
  <2> HIDE DEF U
  <2> QED BY <1>2 DEF Spells, Range
<1>4. Walk(H, c)[Len(c)] \in Places(U)
  <2> HIDE DEF c, U
  <2> QED BY <1>1, <1>3, WalkType
<1>5. Canonical(H, filename) \in Seq(U)
  <2> DEFINE at == Walk(H, c)[Len(c)].at
  <2>1. Canonical(H, filename) \in {at, Append(at, <<>>)}
    BY DEF Canonical
  <2>2. <<>> \in U
    OBVIOUS
  <2> HIDE DEF c, U
  <2>3. at \in Seq(U)
    BY <1>4 DEF Places
  <2>4. Append(at, <<>>) \in Seq(U)
    BY <2>2, <2>3
  <2> QED BY <2>1, <2>3, <2>4
<1> HIDE DEF U
<1> QED BY <1>3, <1>5 DEF Spells

-----------------------------------------------------------------------------
(* What the check of resolve_safe_path is worth *)

\* The first components of a path are a path.
LEMMA PrefixSeq ==
    ASSUME NEW U, NEW s \in Seq(U), NEW l \in 0 .. Len(s)
    PROVE  SubSeq(s, 1, l) \in Seq(U) /\ Len(SubSeq(s, 1, l)) = l
OBVIOUS

\* There is a longest common prefix.
LEMMA CommonPrefix ==
    ASSUME NEW U, NEW path \in Seq(U), NEW base \in Seq(U)
    PROVE  LET prefix == LongestCommonPrefix({path, base})
           IN  /\ prefix \in Seq(U)
               /\ IsPrefix(prefix, path) /\ IsPrefix(prefix, base)
               /\ \A other \in CommonPrefixes({path, base}) :
                     Len(other) <= Len(prefix)
<1> DEFINE C == CommonPrefixes({path, base})
           T == {n \in Nat : \E s \in C : n = Len(s)}
<1>1. \A s \in C : /\ s \in Seq(U) /\ Len(s) \in Nat
                    /\ IsPrefix(s, path) /\ IsPrefix(s, base)
  <2> SUFFICES ASSUME NEW s \in C
               PROVE  /\ s \in Seq(U) /\ Len(s) \in Nat
                      /\ IsPrefix(s, path) /\ IsPrefix(s, base)
    OBVIOUS
  <2>1. s \in Prefixes(path) \cup Prefixes(base)
    BY DEF CommonPrefixes
  <2>2. s \in Seq(U)
    BY <2>1, PrefixSeq DEF Prefixes
  <2> QED BY <2>2 DEF CommonPrefixes
<1>2. T # {}
  <2>1. SubSeq(path, 1, 0) = <<>>
    OBVIOUS
  <2>2. <<>> \in Prefixes(path)
    BY <2>1 DEF Prefixes
  <2>3. IsPrefix(<<>>, path) /\ IsPrefix(<<>>, base)
    BY DEF IsPrefix
  <2>4. <<>> \in C
    BY <2>2, <2>3 DEF CommonPrefixes
  <2> HIDE DEF C
  <2>5. 0 \in T
    BY <2>4
  <2> QED BY <2>5
<1>3. T \in SUBSET Nat /\ \A n \in T : n <= Len(base)
  BY <1>1 DEF IsPrefix
<1> HIDE DEF C
<1>4. PICK n \in T : \A m \in T : n >= m
  <2> HIDE DEF T
  <2>1. Len(base) \in Nat
    OBVIOUS
  <2> QED BY <1>2, <1>3, <2>1, Greatest
<1>5. PICK s \in C : n = Len(s)
  BY <1>4
<1>6. \A other \in C : Len(other) <= Len(s)
  BY <1>1, <1>4, <1>5
<1>7. /\ LongestCommonPrefix({path, base}) \in C
      /\ \A other \in C : Len(other) <= Len(LongestCommonPrefix({path, base}))
  BY <1>6 DEF LongestCommonPrefix, C
<1> QED BY <1>1, <1>7 DEF C

\* What is left after the check starts with the root.
LEMMA RelativeInside ==
    ASSUME NEW U, NEW path \in Seq(U), NEW base \in Seq(U),
           ~StartsDotDot(lexically_relative(path, base))
    PROVE  IsPrefix(base, path)
<1> DEFINE prefix == LongestCommonPrefix({path, base})
           common == Len(prefix)
           up     == [i \in 1 .. Len(base) - common |-> <<"..">>]
           down   == SubSeq(path, common + 1, Len(path))
<1>1. prefix \in Seq(U) /\ IsPrefix(prefix, path) /\ IsPrefix(prefix, base)
  BY CommonPrefix
<1>2. lexically_relative(path, base) = up \o down
  BY DEF lexically_relative
<1>3. common \in Nat /\ common <= Len(base) /\ common <= Len(path)
  BY <1>1 DEF IsPrefix
<1> HIDE DEF prefix, common
<1>4. CASE common < Len(base)
  <2> DEFINE V == U \cup {<<"..">>}
             rel == lexically_relative(path, base)
  <2>1. up \in Seq(V) /\ Len(up) > 0 /\ up[1] = <<"..">>
    <3>1. Len(base) - common \in Nat /\ 1 \in 1 .. Len(base) - common
      BY <1>3, <1>4
    <3>2. up \in [1 .. Len(base) - common -> V]
      OBVIOUS
    <3>3. up[1] = <<"..">>
      BY <3>1
    <3> HIDE DEF up, V
    <3> QED BY <3>1, <3>2, <3>3
  <2>2. down \in Seq(V)
    <3>1. path \in Seq(V)
      OBVIOUS
    <3> HIDE DEF V
    <3> QED BY <1>3, <3>1
  <2> HIDE DEF up, down, V
  <2>3. (up \o down)[1] = <<"..">> /\ up \o down # <<>>
    BY <2>1, <2>2
  <2>4. rel # <<>> /\ rel[1] # <<>> /\ rel[1][1] = ".."
    BY <1>2, <2>3
  <2> QED BY <2>4 DEF StartsDotDot, Starts
<1>5. CASE common = Len(base)
  BY <1>1, <1>3, <1>5 DEF IsPrefix, common
<1> QED BY <1>3, <1>4, <1>5

\* resolve_safe_path refuses every name whose canonical path does not start
\* with the root, whatever dots, slashes and links it is made of and whatever
\* exists.
THEOREM ResolvedInside ==
    ASSUME NEW S, NEW filename \in Seq(S), NEW H,
           resolve_safe_path(H, filename) # NoPath
    PROVE  /\ resolve_safe_path(H, filename) = Canonical(H, filename)
           /\ IsPrefix(Root, resolve_safe_path(H, filename))
<1> DEFINE path == Canonical(H, filename)
<1>1. /\ resolve_safe_path(H, filename) = path
      /\ ~StartsDotDot(lexically_relative(path, Root))
  BY DEF resolve_safe_path, Resolve
<1>2. PICK U : Root \in Seq(U) /\ path \in Seq(U)
  BY CanonicalSeq
<1>3. IsPrefix(Root, path)
  <2> HIDE DEF path
  <2> QED BY <1>1, <1>2, RelativeInside
<1> QED BY <1>1, <1>3

\* While the path exists, what is reached is the end of a link.
LEMMA EnterFollows ==
    ASSUME NEW H, NEW place, NEW name, Enter(H, place, name).real
    PROVE  \E path : Enter(H, place, name).at = Follow(H, path)
<1> DEFINE real == place.real /\ place.at \in Dirs
           next == IF name \in {<<>>, <<".">>} THEN place.at
                   ELSE IF name = <<"..">> THEN Front(place.at)
                   ELSE Append(place.at, name)
<1>1. Enter(H, place, name) =
        [at |-> IF real THEN Follow(H, next) ELSE next, real |-> real]
  BY DEF Enter
<1> HIDE DEF real, next
<1>2. Enter(H, place, name).real = real
  BY <1>1
<1>3. real
  BY <1>2, Zenon
<1>4. Enter(H, place, name).at = IF real THEN Follow(H, next) ELSE next
  BY <1>1
<1>5. Enter(H, place, name).at = Follow(H, next)
  BY <1>3, <1>4, Zenon
<1> QED BY <1>5, Zenon

\* A name whose directories all exist has no link left to follow.
LEMMA ReachedFollowed ==
    ASSUME NEW S, NEW filename \in Seq(S), NEW H,
           Reaches(H, filename)
    PROVE  Follow(H, Canonical(H, filename)) = Canonical(H, filename)
<1> DEFINE c == Components(filename)
           n == Len(c)
           w == Walk(H, c)
<1>1. n \in Nat
  <2>1. PICK k \in Nat : c = [i \in 1 .. k |-> c[i]]
    BY ComponentsSeq
  <2> HIDE DEF c
  <2> QED BY <2>1
<1>2. w[n] = IF n = 0 THEN Start ELSE Enter(H, w[n - 1], c[n])
  <2>1. IsWalk(w, H, c, n)
    BY <1>1, WalkDef
  <2> HIDE DEF w, n, c
  <2> QED BY <1>1, <2>1 DEF IsWalk
<1>3. Canonical(H, filename) = w[n].at /\ w[n].real
  BY DEF Canonical, Reaches
<1>4. \A path : Follow(H, Follow(H, path)) = Follow(H, path)
  BY FilesAssumption DEF Follow, Range
<1> HIDE DEF w, n, c
<1>5. CASE n = 0
  BY <1>2, <1>3, <1>5, FilesAssumption DEF Start, Follow
<1>6. CASE n # 0
  <2>1. w[n] = Enter(H, w[n - 1], c[n])
    BY <1>2, <1>6
  <2>2. \E path : w[n].at = Follow(H, path)
    <3>1. w[n].real
      BY <1>3
    <3>2. Enter(H, w[n - 1], c[n]).real
      BY <2>1, <3>1, Zenon
    <3>3. \E path : Enter(H, w[n - 1], c[n]).at = Follow(H, path)
      BY <3>2, EnterFollows
    <3> QED BY <2>1, <3>3
  <2> QED BY <1>3, <1>4, <2>2
<1> QED BY <1>5, <1>6

-----------------------------------------------------------------------------
(* The name of a path below the root is resolved to that path *)

\* The relative path of what is below is what comes behind.
LEMMA RelativeBelow ==
    ASSUME NEW U, NEW path \in Seq(U), NEW base \in Seq(U),
           IsPrefix(base, path)
    PROVE  lexically_relative(path, base)
              = SubSeq(path, Len(base) + 1, Len(path))
<1> DEFINE prefix == LongestCommonPrefix({path, base})
           n      == Len(base)
           up     == [i \in 1 .. n - Len(prefix) |-> <<"..">>]
           down   == SubSeq(path, n + 1, Len(path))
<1>1. /\ prefix \in Seq(U) /\ IsPrefix(prefix, base)
      /\ \A other \in CommonPrefixes({path, base}) :
            Len(other) <= Len(prefix)
  BY CommonPrefix
<1>2. base \in CommonPrefixes({path, base})
  <2>1. base = SubSeq(base, 1, n) /\ n \in 0 .. n
    OBVIOUS
  <2>2. base \in Prefixes(base)
    BY <2>1 DEF Prefixes
  <2>3. IsPrefix(base, base)
    BY DEF IsPrefix
  <2> QED BY <2>2, <2>3 DEF CommonPrefixes
<1>3. Len(prefix) = n /\ n \in Nat
  <2> HIDE DEF prefix
  <2>1. n <= Len(prefix) /\ Len(prefix) <= n
    BY <1>1, <1>2 DEF IsPrefix
  <2> QED BY <1>1, <2>1
<1>4. up = <<>>
  <2>1. 1 .. n - Len(prefix) = 1 .. 0
    BY <1>3
  <2>2. up \in [1 .. 0 -> {<<"..">>}]
    BY <2>1
  <2> HIDE DEF up
  <2> QED BY <2>2
<1>5. down \in Seq(U)
  BY <1>3
<1>6. lexically_relative(path, base) = up \o down
  BY <1>3 DEF lexically_relative
<1> HIDE DEF up, down
<1>7. <<>> \o down = down
  BY <1>5
<1> QED BY <1>4, <1>6, <1>7 DEF down

\* The recursion that defines Join.
IsJoin(f, c) ==
    f = [k \in 0 .. Len(c) |->
           IF k = 0 THEN <<>>
           ELSE IF k = 1 THEN c[1] ELSE f[k - 1] \o <<"/">> \o c[k]]

\* f holds the names of the first components of c: one, two, ...
Joins(f, c, U) ==
    /\ f \in [0 .. Len(c) -> Seq(U)]
    /\ f[0] = <<>>
    /\ \A k \in 1 .. Len(c) :
         f[k] = IF k = 1 THEN c[1] ELSE Glued(f[k - 1], "/", c[k])

\* What Join computes.
LEMMA JoinDef ==
    ASSUME NEW U, "/" \in U, NEW c \in Seq(Seq(U))
    PROVE  \E f : Joins(f, c, U) /\ Join(c) = f[Len(c)]
<1> DEFINE n == Len(c)
           V == Seq(U)
           More(k, s) == IF k = 1 THEN c[1] ELSE Glued(s, "/", c[k])
           step == [k \in 1 .. n |-> [s \in V |-> More(k, s)]]
           base == <<>>
           F == CHOOSE f : IsJoin(f, c)
<1>1. n \in Nat /\ base \in V /\ \A k \in 1 .. n : c[k] \in V
  OBVIOUS
<1>2. ASSUME NEW k \in 1 .. n, NEW s \in V PROVE More(k, s) \in V
  <2>1. c[k] \in V
    BY <1>1
  <2>2. Glued(s, "/", c[k]) \in V
    BY <2>1, GluedTokens DEF IsGlued
  <2> QED BY <2>1, <2>2
<1> HIDE DEF V, More, n, base
<1>3. /\ step \in [1 .. n -> [V -> V]]
      /\ \A k \in 1 .. n, s \in V : step[k][s] = More(k, s)
  BY <1>2
<1> HIDE DEF step
<1>4. PICK h : Recurs(h, n, V, base, step)
  BY <1>1, <1>3, Recursion
<1>5. /\ h \in [0 .. n -> V] /\ h[0] = base
      /\ \A k \in 1 .. n : h[k] = More(k, h[k - 1])
  <2>1. \A k \in 1 .. n : k - 1 \in 0 .. n
    BY <1>1
  <2> QED BY <1>3, <1>4, <2>1 DEF Recurs
<1>6. h = [k \in 0 .. n |-> IF k = 0 THEN base ELSE More(k, h[k - 1])]
  BY <1>1, <1>5
<1>7. IsJoin(h, c)
  BY <1>6, Zenon DEF IsJoin, More, n, base, Glued
<1>8. IsJoin(F, c)
  BY <1>7
<1>9. Join(c) = F[n]
  BY DEF Join, IsJoin, n
<1> HIDE DEF F
<1>10. F = [k \in 0 .. n |-> IF k = 0 THEN base ELSE More(k, F[k - 1])]
  BY <1>8, Zenon DEF IsJoin, More, n, base, Glued
<1> DEFINE T == {k \in 0 .. n : F[k] = h[k]}
<1>11. T = 0 .. n
  <2>1. T \in SUBSET (0 .. n) /\ 0 \in T
    BY <1>1, <1>5, <1>10
  <2>2. ASSUME NEW k \in 1 .. n, k - 1 \in T PROVE k \in T
    <3>1. F[k - 1] = h[k - 1] /\ k \in 0 .. n /\ k # 0
      BY <1>1, <2>2
    <3>2. F[k] = More(k, F[k - 1])
      BY <1>10, <3>1
    <3> QED BY <1>5, <3>1, <3>2
  <2> HIDE DEF T
  <2> QED BY <1>1, <2>1, <2>2, UpTo
<1>12. F[n] = h[n]
  <2>1. n \in T
    <3> HIDE DEF T
    <3> QED BY <1>1, <1>11
  <2> QED BY <2>1
<1>13. Joins(h, c, U)
  BY <1>5, Zenon DEF Joins, More, n, V, base
<1> QED BY <1>9, <1>12, <1>13 DEF n

\* P says where the components c of a name t end.
IsMarks(P, c, t) ==
    /\ P \in [0 .. Len(c) -> Nat] /\ P[0] = 0 /\ P[Len(c)] = Len(t) + 1
    /\ \A k \in 1 .. Len(c) : P[k] = P[k - 1] + Len(c[k]) + 1
    /\ \A k \in 1 .. Len(c) : \A i \in 1 .. Len(c[k]) :
         t[P[k - 1] + i] = c[k][i]
    /\ \A k \in 1 .. Len(c) - 1 : P[k] \in 1 .. Len(t) /\ t[P[k]] = "/"
    /\ \A i \in 1 .. Len(t) : t[i] = "/" => \E k \in 1 .. Len(c) - 1 : i = P[k]

\* A joined name has its slashes between the components only.
LEMMA JoinMarks ==
    ASSUME NEW U, "/" \in U, NEW c \in Seq(Seq(U)), c # <<>>,
           \A k \in 1 .. Len(c) : "/" \notin Range(c[k])
    PROVE  Join(c) \in Seq(U) /\ \E P : IsMarks(P, c, Join(c))
<1> DEFINE n == Len(c)
           V == Seq(U)
<1>1. n \in Nat /\ n >= 1 /\ \A k \in 1 .. n : c[k] \in V
  OBVIOUS
<1>2. \A k \in 1 .. n : /\ Len(c[k]) \in Nat
                        /\ \A i \in 1 .. Len(c[k]) : c[k][i] # "/"
  <2> SUFFICES ASSUME NEW k \in 1 .. n
               PROVE  /\ Len(c[k]) \in Nat
                      /\ \A i \in 1 .. Len(c[k]) : c[k][i] # "/"
    OBVIOUS
  <2>1. c[k] \in V /\ "/" \notin Range(c[k])
    BY <1>1
  <2>2. DOMAIN c[k] = 1 .. Len(c[k]) /\ Len(c[k]) \in Nat
    BY <2>1
  <2> QED BY <2>1, <2>2 DEF Range
<1>3. PICK f : Joins(f, c, U) /\ Join(c) = f[n]
  BY JoinDef
<1>4. /\ f \in [0 .. n -> V]
      /\ \A k \in 1 .. n :
           f[k] = IF k = 1 THEN c[1] ELSE Glued(f[k - 1], "/", c[k])
  BY <1>3 DEF Joins
<1>5. \A k \in 0 .. n : Len(f[k]) \in Nat
  BY <1>4
<1>6. ASSUME NEW k \in 1 .. n, k # 1
      PROVE  IsGlued(f[k], f[k - 1], "/", c[k], U) /\ k - 1 \in 1 .. n
  <2>1. k - 1 \in 1 .. n /\ k - 1 \in 0 .. n
    BY <1>1, <1>6
  <2>2. f[k - 1] \in V /\ c[k] \in V
    BY <1>1, <1>4, <2>1
  <2>3. f[k] = Glued(f[k - 1], "/", c[k])
    BY <1>4, <1>6
  <2> QED BY <2>1, <2>2, <2>3, GluedTokens
<1> DEFINE P == [k \in 0 .. n |-> IF k = 0 THEN 0 ELSE Len(f[k]) + 1]
<1>7. /\ P \in [0 .. n -> Nat] /\ P[0] = 0 /\ P[n] = Len(f[n]) + 1
      /\ \A k \in 1 .. n : P[k] = Len(f[k]) + 1
  BY <1>1, <1>5
<1> HIDE DEF P, V, n
<1>8. ASSUME NEW k \in 1 .. n PROVE P[k] = P[k - 1] + Len(c[k]) + 1
  <2>1. CASE k = 1
    BY <1>1, <1>2, <1>4, <1>7, <2>1
  <2>2. CASE k # 1
    <3>1. Len(f[k]) = Len(f[k - 1]) + 1 + Len(c[k]) /\ k - 1 \in 1 .. n
      BY <1>6, <2>2 DEF IsGlued
    <3>2. P[k - 1] = Len(f[k - 1]) + 1 /\ P[k] = Len(f[k]) + 1
      BY <1>7, <3>1
    <3>3. Len(f[k - 1]) \in Nat /\ Len(c[k]) \in Nat
      BY <1>2, <1>5, <3>1
    <3> QED BY <3>1, <3>2, <3>3
  <2> QED BY <2>1, <2>2
<1> DEFINE Words(k) == \A j \in 1 .. k : \A i \in 1 .. Len(c[j]) :
                         /\ P[j - 1] + i \in 1 .. Len(f[k])
                         /\ f[k][P[j - 1] + i] = c[j][i]
           Slashes(k) == \A j \in 1 .. k - 1 :
                           P[j] \in 1 .. Len(f[k]) /\ f[k][P[j]] = "/"
           Only(k) == \A i \in 1 .. Len(f[k]) :
                        f[k][i] = "/" => \E j \in 1 .. k - 1 : i = P[j]
           Good(k) == Words(k) /\ Slashes(k) /\ Only(k)
           T == {k \in 0 .. n : k = 0 \/ Good(k)}
<1>9. ASSUME NEW k \in 1 .. n, k = 1 \/ Good(k - 1) PROVE Good(k)
  <2>1. CASE k = 1
    <3>1. f[1] = c[1] /\ P[0] = 0 /\ 1 \in 1 .. n
      BY <1>1, <1>4, <1>7
    <3>2. Words(1)
      BY <1>2, <3>1
    <3>3. Slashes(1)
      OBVIOUS
    <3>4. Only(1)
      BY <1>2, <3>1
    <3> QED BY <2>1, <3>2, <3>3, <3>4
  <2>2. CASE k # 1
    <3> DEFINE s == f[k - 1]
               t == f[k]
               w == c[k]
               m == k - 1
    <3>1. m \in 1 .. n /\ Good(m) /\ k = m + 1 /\ m \in Nat
      BY <1>6, <1>9, <2>2
    <3>2. IsGlued(t, s, "/", w, U)
      BY <1>6, <2>2
    <3>3. /\ Len(s) \in Nat /\ Len(w) \in Nat /\ P[m] = Len(s) + 1
          /\ \A i \in 1 .. Len(w) : w[i] # "/"
      BY <1>2, <1>5, <1>7, <3>1
    <3> HIDE DEF s, t, w, m
    <3>4. /\ Len(t) = Len(s) + 1 + Len(w)
          /\ \A i \in 1 .. Len(s) : t[i] = s[i]
          /\ t[P[m]] = "/"
          /\ \A i \in 1 .. Len(w) : t[P[m] + i] = w[i]
      BY <3>2, <3>3 DEF IsGlued
    <3>5. \A j \in 1 .. k : j \in 1 .. m \/ j = k
      BY <3>1
    <3>6. \A i \in 1 .. Len(s) : i \in 1 .. Len(t)
      BY <3>3, <3>4
    <3>7. Words(k)
      <4> SUFFICES ASSUME NEW j \in 1 .. k, NEW i \in 1 .. Len(c[j])
                   PROVE  /\ P[j - 1] + i \in 1 .. Len(t)
                          /\ t[P[j - 1] + i] = c[j][i]
        BY DEF t
      <4>1. CASE j \in 1 .. m
        <5>1. P[j - 1] + i \in 1 .. Len(s) /\ s[P[j - 1] + i] = c[j][i]
          BY <3>1, <4>1 DEF s, m
        <5> QED BY <3>4, <3>6, <5>1
      <4>2. CASE j = k
        <5>1. P[j - 1] = P[m] /\ c[j] = w
          BY <4>2 DEF w, m
        <5>2. P[m] + i \in 1 .. Len(t)
          BY <3>3, <3>4, <5>1
        <5> QED BY <3>4, <5>1, <5>2
      <4> QED BY <3>5, <4>1, <4>2
    <3>8. Slashes(k)
      <4> SUFFICES ASSUME NEW j \in 1 .. m
                   PROVE  P[j] \in 1 .. Len(t) /\ t[P[j]] = "/"
        BY DEF t, m
      <4>1. CASE j = m
        <5>1. P[m] \in 1 .. Len(t)
          BY <3>3, <3>4
        <5> QED BY <3>4, <4>1, <5>1
      <4>2. CASE j # m
        <5>1. j \in 1 .. m - 1
          BY <3>1, <4>2
        <5>2. P[j] \in 1 .. Len(s) /\ s[P[j]] = "/"
          BY <3>1, <5>1 DEF s, m
        <5> QED BY <3>4, <3>6, <5>2
      <4> QED BY <4>1, <4>2
    <3>9. Only(k)
      <4> SUFFICES ASSUME NEW i \in 1 .. Len(t), t[i] = "/"
                   PROVE  \E j \in 1 .. m : i = P[j]
        BY DEF t, m
      <4>1. CASE i \in 1 .. Len(s)
        <5>1. \E j \in 1 .. m - 1 : i = P[j]
          BY <3>1, <3>4, <4>1 DEF s, m
        <5> QED BY <3>1, <5>1
      <4>2. CASE i = P[m]
        <5>1. m \in 1 .. m
          BY <3>1
        <5> QED BY <4>2, <5>1
      <4>3. CASE ~(i \in 1 .. Len(s)) /\ i # P[m]
        <5>1. i - P[m] \in 1 .. Len(w) /\ P[m] + (i - P[m]) = i
          <6>1. \A a, b \in Nat : \A x \in 1 .. a + 1 + b :
                  \/ x \in 1 .. a \/ x = a + 1
                  \/ x - (a + 1) \in 1 .. b /\ a + 1 + (x - (a + 1)) = x
            OBVIOUS
          <6>2. i \in 1 .. Len(s) + 1 + Len(w)
            BY <3>4
          <6> QED BY <3>3, <4>3, <6>1, <6>2
        <5>2. t[i] = w[i - P[m]]
          BY <3>4, <5>1
        <5> QED BY <3>3, <5>1, <5>2
      <4> QED BY <4>1, <4>2, <4>3
    <3> QED BY <3>7, <3>8, <3>9
  <2> QED BY <2>1, <2>2
<1> HIDE DEF Good
<1>10. T = 0 .. n
  <2>1. T \in SUBSET (0 .. n) /\ 0 \in T
    BY <1>1
  <2>2. ASSUME NEW k \in 1 .. n, k - 1 \in T PROVE k \in T
    <3>1. k = 1 \/ Good(k - 1)
      BY <2>2
    <3>2. Good(k) /\ k \in 0 .. n
      BY <1>9, <3>1
    <3> QED BY <3>2
  <2> HIDE DEF T
  <2> QED BY <1>1, <2>1, <2>2, UpTo
<1>11. Good(n)
  <2>1. n \in T
    <3> HIDE DEF T
    <3> QED BY <1>1, <1>10
  <2> QED BY <1>1, <2>1
<1>12. IsMarks(P, c, f[n])
  BY <1>7, <1>8, <1>11 DEF IsMarks, Good, n
<1>13. f[n] \in V
  BY <1>1, <1>4
<1> QED BY <1>3, <1>12, <1>13 DEF V

\* The recursion that defines Cuts.
IsCuts(f, t) ==
    f = [k \in 0 .. Cardinality(Ends(t)) |->
           IF k = 0 THEN 0 ELSE Min({i \in Ends(t) : i > f[k - 1]})]

\* Every component ends behind those before it.
LEMMA MarksGrow ==
    ASSUME NEW n \in Nat, NEW P \in [0 .. n -> Nat],
           \A k \in 1 .. n : P[k - 1] < P[k]
    PROVE  \A j, k \in 0 .. n : j < k => P[j] < P[k]
<1> DEFINE T == {k \in 0 .. n : \A j \in 0 .. n : j < k => P[j] < P[k]}
<1>1. T \in SUBSET (0 .. n) /\ 0 \in T
  OBVIOUS
<1>2. ASSUME NEW k \in 1 .. n, k - 1 \in T PROVE k \in T
  <2> SUFFICES ASSUME NEW j \in 0 .. n, j < k PROVE P[j] < P[k]
    OBVIOUS
  <2>1. /\ P[k - 1] < P[k] /\ k - 1 \in 0 .. n /\ k \in 0 .. n
        /\ j = k - 1 \/ j < k - 1
    OBVIOUS
  <2>2. P[j] <= P[k - 1]
    BY <1>2, <2>1
  <2>3. P[j] \in Nat /\ P[k] \in Nat /\ P[k - 1] \in Nat
    BY <2>1
  <2> QED BY <2>1, <2>2, <2>3
<1>3. T = 0 .. n
  <2> HIDE DEF T
  <2> QED BY <1>1, <1>2, UpTo
<1> QED BY <1>3

\* A name is cut into the components that it was joined from.
LEMMA SplitJoin ==
    ASSUME NEW U, "/" \in U, NEW c \in Seq(Seq(U)), c # <<>>,
           \A k \in 1 .. Len(c) : "/" \notin Range(c[k])
    PROVE  Components(Join(c)) = c
<1> DEFINE n == Len(c)
           t == Join(c)
           E == Ends(t)
<1>1. n \in Nat /\ n >= 1 /\ \A k \in 1 .. n : c[k] \in Seq(U)
  OBVIOUS
<1>2. t \in Seq(U) /\ Len(t) \in Nat
  BY JoinMarks
<1>3. PICK P : IsMarks(P, c, t)
  BY JoinMarks
<1> HIDE DEF t
<1>4. P \in [0 .. n -> Nat] /\ P[0] = 0 /\ P[n] = Len(t) + 1
  BY <1>3 DEF IsMarks
<1>a. \A k \in 1 .. n : P[k] = P[k - 1] + Len(c[k]) + 1
  BY <1>3 DEF IsMarks
<1>b. \A k \in 1 .. n : \A i \in 1 .. Len(c[k]) : t[P[k - 1] + i] = c[k][i]
  BY <1>3 DEF IsMarks
<1>c. /\ \A k \in 1 .. n - 1 : P[k] \in 1 .. Len(t) /\ t[P[k]] = "/"
      /\ \A i \in 1 .. Len(t) : t[i] = "/" => \E k \in 1 .. n - 1 : i = P[k]
  BY <1>3 DEF IsMarks
<1> HIDE DEF n
<1>5. \A k \in 1 .. n : /\ k - 1 \in 0 .. n /\ k \in 0 .. n
                        /\ P[k] \in Nat /\ P[k - 1] \in Nat
                        /\ Len(c[k]) \in Nat
  <2> SUFFICES ASSUME NEW k \in 1 .. n
               PROVE  /\ k - 1 \in 0 .. n /\ k \in 0 .. n
                      /\ P[k] \in Nat /\ P[k - 1] \in Nat
                      /\ Len(c[k]) \in Nat
    OBVIOUS
  <2>1. k - 1 \in 0 .. n /\ k \in 0 .. n
    BY <1>1
  <2>2. c[k] \in Seq(U)
    BY <1>1
  <2>3. P[k] \in Nat /\ P[k - 1] \in Nat
    BY <1>4, <2>1
  <2>4. Len(c[k]) \in Nat
    BY <2>2
  <2> QED BY <2>1, <2>3, <2>4
<1>6. \A j, k \in 0 .. n : j < k => P[j] < P[k]
  <2>1. ASSUME NEW k \in 1 .. n PROVE P[k - 1] < P[k]
    <3>1. P[k] = P[k - 1] + Len(c[k]) + 1
      BY <1>a
    <3>2. P[k] \in Nat /\ P[k - 1] \in Nat /\ Len(c[k]) \in Nat
      BY <1>5
    <3> QED BY <3>1, <3>2
  <2> QED BY <1>1, <1>4, <2>1, MarksGrow
<1>7. E = {P[k] : k \in 1 .. n}
  <2>1. ASSUME NEW i \in E PROVE i \in {P[k] : k \in 1 .. n}
    <3>1. CASE i = Len(t) + 1
      <4>1. n \in 1 .. n
        BY <1>1
      <4> QED BY <1>4, <3>1, <4>1
    <3>2. CASE i \in 1 .. Len(t) /\ t[i] = "/"
      <4>1. PICK k \in 1 .. n - 1 : i = P[k]
        BY <1>c, <3>2
      <4>2. k \in 1 .. n
        BY <1>1
      <4> QED BY <4>1, <4>2
    <3> QED BY <1>2, <2>1, <3>1, <3>2 DEF Ends
  <2>2. ASSUME NEW k \in 1 .. n PROVE P[k] \in E
    <3>1. CASE k = n
      BY <1>4, <3>1 DEF Ends
    <3>2. CASE k # n
      <4>1. k \in 1 .. n - 1
        BY <1>1, <3>2
      <4> QED BY <1>2, <1>c, <4>1 DEF Ends
    <3> QED BY <3>1, <3>2
  <2> HIDE DEF E
  <2> QED BY <2>1, <2>2
<1> HIDE DEF E
<1>8. Cardinality(E) = n
  <2> DEFINE g == [k \in 1 .. n |-> P[k]]
  <2>1. g \in [1 .. n -> E] /\ \A k \in 1 .. n : g[k] = P[k]
    BY <1>7
  <2>2. \A j, k \in 1 .. n : g[j] = g[k] => j = k
    <3> SUFFICES ASSUME NEW j \in 1 .. n, NEW k \in 1 .. n, g[j] = g[k]
                 PROVE  j = k
      OBVIOUS
    <3>1. P[j] = P[k] /\ P[j] \in Nat /\ P[k] \in Nat
      BY <1>5, <2>1
    <3>2. ~(j < k) /\ ~(k < j)
      BY <1>5, <1>6, <3>1
    <3> QED BY <1>1, <3>2
  <2>3. \A i \in E : \E k \in 1 .. n : g[k] = i
    BY <1>7, <2>1
  <2> HIDE DEF g
  <2>4. g \in Bijection(1 .. n, E)
    BY <2>1, <2>2, <2>3 DEF Bijection, Injection, Surjection, IsInjective
  <2>5. ExistsBijection(1 .. n, E)
    BY <2>4 DEF ExistsBijection
  <2>6. IsFiniteSet(1 .. n) /\ Cardinality(1 .. n) = n
    BY <1>1, FS_Interval
  <2> QED BY <2>5, <2>6, FS_Bijection
<1>9. ASSUME NEW k \in 1 .. n PROVE P[k] = Min({i \in E : i > P[k - 1]})
  <2> DEFINE S == {i \in E : i > P[k - 1]}
  <2>1. S \in SUBSET Nat
    BY <1>5, <1>7
  <2>2. P[k] \in S
    <3>1. k - 1 \in 0 .. n /\ k \in 0 .. n /\ k - 1 < k
      BY <1>1, <1>5
    <3>2. P[k - 1] < P[k] /\ P[k] \in Nat /\ P[k - 1] \in Nat
      BY <1>5, <1>6, <3>1
    <3> QED BY <1>7, <3>2
  <2>3. ASSUME NEW y \in S PROVE P[k] <= y
    <3>1. PICK j \in 1 .. n : y = P[j]
      BY <1>7
    <3>2. P[j] > P[k - 1] /\ P[j] \in Nat /\ P[k] \in Nat /\ P[k - 1] \in Nat
      BY <1>5, <3>1
    <3>3. ~(j < k)
      <4> SUFFICES ASSUME j < k PROVE FALSE
        OBVIOUS
      <4>1. j = k - 1 \/ j < k - 1
        BY <1>1
      <4>2. P[j] <= P[k - 1]
        BY <1>5, <1>6, <3>2, <4>1
      <4> QED BY <3>2, <4>2
    <3>4. j = k \/ k < j
      BY <1>1, <3>3
    <3> QED BY <1>5, <1>6, <3>1, <3>2, <3>4
  <2> HIDE DEF S
  <2>4. Min(S) = P[k]
    BY <2>1, <2>2, <2>3, MinIs
  <2> QED BY <2>4 DEF S
<1> DEFINE F == Cuts(t)
<1>10. /\ F[0] = 0
       /\ \A k \in 1 .. n : F[k] = Min({i \in E : i > F[k - 1]})
  <2>1. P = [k \in 0 .. n |->
               IF k = 0 THEN 0 ELSE Min({i \in E : i > P[k - 1]})]
    <3> DEFINE G(k) == IF k = 0 THEN 0 ELSE Min({i \in E : i > P[k - 1]})
    <3>1. ASSUME NEW k \in 0 .. n PROVE P[k] = G(k)
      <4>1. k = 0 \/ k \in 1 .. n
        BY <1>1
      <4> QED BY <1>4, <1>9, <4>1
    <3> HIDE DEF G
    <3>2. P = [k \in 0 .. n |-> G(k)]
      BY <1>4, <3>1
    <3> QED BY <3>2, Zenon DEF G
  <2>2. IsCuts(P, t)
    BY <1>8, <2>1, Zenon DEF IsCuts, E
  <2>3. F = CHOOSE f : IsCuts(f, t)
    BY DEF Cuts, IsCuts
  <2>4. IsCuts(F, t)
    BY <2>2, <2>3
  <2> HIDE DEF F
  <2>5. F = [k \in 0 .. n |->
               IF k = 0 THEN 0 ELSE Min({i \in E : i > F[k - 1]})]
    BY <1>8, <2>4, Zenon DEF IsCuts, E
  <2>6. 0 \in 0 .. n
    BY <1>1
  <2>7. F[0] = 0
    BY <2>5, <2>6
  <2>8. ASSUME NEW k \in 1 .. n
        PROVE  F[k] = Min({i \in E : i > F[k - 1]})
    <3>1. k \in 0 .. n /\ k # 0
      BY <1>1
    <3> QED BY <2>5, <3>1
  <2> QED BY <2>7, <2>8
<1> HIDE DEF F
<1> DEFINE T == {k \in 0 .. n : F[k] = P[k]}
<1>11. T = 0 .. n
  <2>1. T \in SUBSET (0 .. n) /\ 0 \in T
    BY <1>1, <1>4, <1>10
  <2>2. ASSUME NEW k \in 1 .. n, k - 1 \in T PROVE k \in T
    <3>1. F[k - 1] = P[k - 1] /\ k \in 0 .. n
      BY <1>1, <2>2
    <3>2. F[k] = Min({i \in E : i > P[k - 1]})
      BY <1>10, <3>1
    <3> QED BY <1>9, <3>1, <3>2
  <2> HIDE DEF T
  <2> QED BY <1>1, <2>1, <2>2, UpTo
<1>12. \A k \in 0 .. n : F[k] = P[k]
  BY <1>11
<1>13. Components(t)
         = [k \in 1 .. n |-> SubSeq(t, F[k - 1] + 1, F[k] - 1)]
  BY <1>8, Zenon DEF Components, F, E
<1>14. ASSUME NEW k \in 1 .. n
       PROVE  SubSeq(t, F[k - 1] + 1, F[k] - 1) = c[k]
  <2> DEFINE a == P[k - 1]
             m == Len(c[k])
             w == SubSeq(t, a + 1, a + m)
  <2>1. /\ a \in Nat /\ m \in Nat /\ P[k] = a + m + 1
        /\ F[k - 1] = a /\ F[k] = P[k]
    <3>1. k - 1 \in 0 .. n /\ k \in 0 .. n
      BY <1>5
    <3> QED BY <1>5, <1>12, <1>a, <3>1
  <2>2. P[k] <= Len(t) + 1
    <3>1. k = n \/ k < n
      BY <1>1
    <3>2. k \in 0 .. n /\ n \in 0 .. n /\ P[n] \in Nat /\ P[k] \in Nat
      BY <1>1, <1>4
    <3> QED BY <1>4, <1>6, <3>1, <3>2
  <2> HIDE DEF a, m
  <2>3. F[k] - 1 = a + m /\ a + m <= Len(t)
    BY <1>2, <2>1, <2>2
  <2>4. /\ w \in Seq(U) /\ Len(w) = m
        /\ \A i \in 1 .. m : w[i] = t[a + i]
    <3>1. \A i \in a + 1 .. a + m : t[i] \in U
      BY <1>2, <2>1, <2>3
    <3>2. a + 1 \in Int /\ a + m \in Int /\ (a + m) - (a + 1) + 1 = m
          /\ \A i \in 1 .. m : (a + 1) + i - 1 = a + i
      BY <2>1
    <3>3. /\ w \in Seq(U)
          /\ Len(w) = IF a + 1 <= a + m THEN (a + m) - (a + 1) + 1 ELSE 0
          /\ \A i \in 1 .. (a + m) - (a + 1) + 1 : w[i] = t[(a + 1) + i - 1]
      BY <3>1, <3>2, SubSeqProperties
    <3>4. Len(w) = m
      BY <2>1, <3>2, <3>3
    <3> QED BY <3>2, <3>3, <3>4
  <2> HIDE DEF w
  <2>5. c[k] \in Seq(U) /\ Len(c[k]) = m
        /\ \A i \in 1 .. m : t[a + i] = c[k][i]
    BY <1>1, <1>b DEF a, m
  <2>6. w = c[k]
    <3> DEFINE d == c[k]
    <3>1. /\ d \in Seq(U) /\ Len(d) = Len(w)
          /\ \A i \in 1 .. Len(w) : w[i] = d[i]
      BY <2>4, <2>5
    <3> HIDE DEF d
    <3>2. w = d
      BY <2>4, <3>1, SeqEqual
    <3> QED BY <3>2 DEF d
  <2> QED BY <2>1, <2>3, <2>6 DEF w
<1>15. Components(t) = [k \in 1 .. n |-> c[k]]
  BY <1>13, <1>14
<1>16. c = [k \in 1 .. n |-> c[k]]
  BY DEF n
<1> QED BY <1>15, <1>16 DEF t

\* A path that leads from the root through directories, whose own name may be
\* that of anything, and its components behind the root.
Below(p) ==
    /\ p \in Seq(Range(p)) /\ IsPrefix(Root, p) /\ p # Root
    /\ \A i \in Len(Root) + 1 .. Len(p) :
         IsName(p[i]) /\ SubSeq(p, 1, i - 1) \in Dirs

Inner(p) == SubSeq(p, Len(Root) + 1, Len(p))

\* What there is behind the root.
LEMMA InnerNames ==
    ASSUME NEW p, Below(p)
    PROVE  LET r == Len(Root) c == Inner(p)
           IN  /\ r \in Nat /\ Len(p) = r + Len(c)
               /\ c \in Seq(Range(p)) /\ c # <<>>
               /\ \A k \in 1 .. Len(c) : c[k] = p[r + k] /\ IsName(c[k])
               /\ SubSeq(p, 1, r) = Root
<1> DEFINE r == Len(Root)
           c == Inner(p)
           n == Len(p)
<1>1. p \in Seq(Range(p)) /\ n \in Nat /\ r \in Nat /\ Root \in Seq(Range(Root))
  BY FilesAssumption DEF Below
<1>2. r <= n /\ SubSeq(p, 1, r) = Root
  BY <1>1 DEF Below, IsPrefix
<1>3. r # n
  <2> SUFFICES ASSUME r = n PROVE FALSE
    OBVIOUS
  <2>1. SubSeq(p, 1, n) = p
    BY <1>1
  <2> QED BY <1>2, <2>1 DEF Below
<1>4. /\ c \in Seq(Range(p)) /\ Len(c) = n - r
      /\ \A k \in 1 .. n - r : c[k] = p[r + k]
  <2> DEFINE m == n - r
  <2>1. /\ r + 1 \in Int /\ n \in Int /\ r + 1 <= n /\ n - (r + 1) + 1 = m
        /\ \A k \in 1 .. m : (r + 1) + k - 1 = r + k
    BY <1>1, <1>2, <1>3
  <2>2. \A i \in r + 1 .. n : p[i] \in Range(p)
    BY <1>1
  <2>3. /\ c \in Seq(Range(p))
        /\ Len(c) = IF r + 1 <= n THEN n - (r + 1) + 1 ELSE 0
        /\ \A k \in 1 .. n - (r + 1) + 1 : c[k] = p[(r + 1) + k - 1]
    BY <2>1, <2>2, SubSeqProperties DEF Inner
  <2> QED BY <2>1, <2>3
<1> HIDE DEF c, n, r
<1>5. Len(p) = r + Len(c) /\ Len(c) >= 1 /\ n = Len(p)
  BY <1>1, <1>2, <1>3, <1>4 DEF n
<1>6. c # <<>>
  BY <1>5
<1>7. ASSUME NEW k \in 1 .. Len(c) PROVE IsName(p[r + k])
  <2>1. r + k \in r + 1 .. n
    BY <1>1, <1>4, <1>5
  <2> QED BY <2>1 DEF Below, r, n
<1>8. \A k \in 1 .. Len(c) : c[k] = p[r + k] /\ IsName(c[k])
  BY <1>4, <1>7
<1> QED BY <1>1, <1>2, <1>4, <1>5, <1>6, <1>8 DEF c, r

\* The joined name of such a path, token by token.
LEMMA JoinedName ==
    ASSUME NEW p, Below(p)
    PROVE  LET c == Inner(p) t == Join(c)
           IN  /\ Components(t) = c
               /\ t \in Seq(Range(t)) /\ t # <<>> /\ t[1] = c[1][1]
               /\ t[1] # "/" /\ NUL \notin Range(t)
<1> DEFINE c == Inner(p)
           t == Join(c)
           U == {"/"} \cup (UNION {Range(w) : w \in Range(c)})
<1>1. /\ c \in Seq(Range(p)) /\ c # <<>> /\ Len(c) \in Nat /\ Len(c) >= 1
      /\ \A k \in 1 .. Len(c) : IsName(c[k])
  BY InnerNames
<1>2. /\ "/" \in U /\ NUL \notin U
      /\ \A k \in 1 .. Len(c) : c[k] \in Seq(U) /\ "/" \notin Range(c[k])
  <2> HIDE DEF c
  <2>1. DOMAIN c = 1 .. Len(c)
    BY <1>1
  <2>2. \A w \in Range(c) : /\ w \in Seq(Range(w)) /\ "/" \notin Range(w)
                            /\ NUL \notin Range(w)
    BY <1>1, <2>1 DEF Range, IsName
  <2>3. \A w \in Range(c) : Range(w) \subseteq U
    OBVIOUS
  <2>4. "/" \in U /\ NUL \notin U
    BY <2>2 DEF NUL
  <2> HIDE DEF U
  <2>5. \A w \in Range(c) : w \in Seq(U)
    BY <2>2, <2>3, SeqMonotonic
  <2>6. \A k \in 1 .. Len(c) : c[k] \in Range(c)
    BY <2>1 DEF Range
  <2> QED BY <2>2, <2>4, <2>5, <2>6
<1> HIDE DEF U
<1>3. c \in Seq(Seq(U))
  <2> HIDE DEF c
  <2>1. c \in [1 .. Len(c) -> Seq(U)]
    BY <1>1, <1>2
  <2> QED BY <1>1, <2>1
<1> HIDE DEF c
<1>4. Components(t) = c
  BY <1>1, <1>2, <1>3, SplitJoin
<1>5. t \in Seq(U) /\ \E P : IsMarks(P, c, t)
  BY <1>1, <1>2, <1>3, JoinMarks
<1> HIDE DEF t
<1>6. PICK P : IsMarks(P, c, t)
  BY <1>5
<1>7. t[1] = c[1][1] /\ Len(t) >= 1
  <2>1. 1 \in 1 .. Len(c) /\ 1 - 1 = 0 /\ 0 + 1 = 1
    BY <1>1
  <2>2. c[1] \in Seq(U) /\ c[1] # <<>>
    BY <1>1, <1>2, <2>1 DEF IsName
  <2>3. Len(c[1]) \in Nat /\ Len(c[1]) >= 1
    <3> DEFINE w == c[1]
    <3>1. w \in Seq(U) /\ w # <<>>
      BY <2>2
    <3> HIDE DEF w
    <3>2. Len(w) \in Nat /\ Len(w) >= 1
      BY <3>1
    <3> QED BY <3>2 DEF w
  <2>4. 1 \in 1 .. Len(c[1])
    BY <2>3
  <2>5. P[0] = 0 /\ \A i \in 1 .. Len(c[1]) : t[P[0] + i] = c[1][i]
    BY <1>6, <2>1 DEF IsMarks
  <2>6. t[1] = c[1][1]
    BY <2>1, <2>4, <2>5
  <2>7. t # <<>>
    <3> SUFFICES ASSUME t = <<>> PROVE FALSE
      OBVIOUS
    <3>1. Len(t) = 0
      OBVIOUS
    <3>2. P[Len(c)] = 1 /\ P \in [0 .. Len(c) -> Nat]
      BY <1>6, <3>1 DEF IsMarks
    <3>3. P[1] = P[0] + Len(c[1]) + 1
      BY <1>6, <2>1 DEF IsMarks
    <3>4. P[1] > 1
      BY <2>3, <2>5, <3>3
    <3> DEFINE n == Len(c)
    <3>5. n \in Nat /\ n >= 1 /\ P[n] = 1
      BY <1>1, <3>2
    <3> HIDE DEF n
    <3>6. 1 \in 1 .. n - 1
      BY <3>4, <3>5
    <3>7. P[1] \in 1 .. Len(t)
      BY <1>6, <3>6 DEF IsMarks, n
    <3> QED BY <3>1, <3>7
  <2>8. Len(t) \in Nat /\ Len(t) >= 1
    BY <1>5, <2>7
  <2> QED BY <2>6, <2>8
<1>8. t # <<>> /\ 1 \in DOMAIN t
  BY <1>5, <1>7
<1>9. NUL \notin Range(t)
  BY <1>2, <1>5, RangeOfSeq
<1>10. c[1][1] # "/"
  <2> DEFINE w == c[1]
  <2>1. w \in Seq(U) /\ w # <<>> /\ "/" \notin Range(w)
    BY <1>1, <1>2 DEF IsName
  <2> HIDE DEF w
  <2>2. w[1] # "/"
    BY <2>1 DEF Range
  <2> QED BY <2>2 DEF w
<1>11. t \in Seq(Range(t))
  BY <1>5, SeqOfRange
<1> QED BY <1>4, <1>7, <1>8, <1>9, <1>10, <1>11 DEF c, t

\* weakly_canonical of such a name is its path, or where that leads.
LEMMA CanonicalBelow ==
    ASSUME NEW H, NEW p, Below(p)
    PROVE  Canonical(H, Join(Inner(p))) = Follow(H, p)
<1> DEFINE r == Len(Root)
           c == Inner(p)
           n == Len(c)
           w == Walk(H, c)
           Upto(k) == SubSeq(p, 1, r + k)
<1>1. /\ r \in Nat /\ n \in Nat /\ n >= 1 /\ Len(p) = r + n
      /\ \A k \in 1 .. n : c[k] = p[r + k] /\ IsName(c[k])
      /\ SubSeq(p, 1, r) = Root
  BY InnerNames
<1>2. p \in Seq(Range(p))
  BY DEF Below
<1>3. Canonical(H, Join(c)) = w[n].at
  <2>1. Components(Join(c)) = c
    BY JoinedName
  <2>2. c[n] \notin {<<>>, <<".">>, <<"..">>}
    <3>1. n \in 1 .. n
      BY <1>1
    <3> QED BY <1>1, <3>1 DEF IsName
  <2> HIDE DEF c
  <2> QED BY <2>1, <2>2 DEF Canonical
<1>4. /\ w[0] = Start
      /\ \A k \in 1 .. n : w[k] = Enter(H, w[k - 1], c[k])
  <2>1. IsWalk(w, H, c, n)
    BY <1>1, WalkDef
  <2> HIDE DEF w, n, c
  <2>2. w = [i \in 0 .. n |->
               IF i = 0 THEN Start ELSE Enter(H, w[i - 1], c[i])]
    BY <2>1 DEF IsWalk
  <2>3. 0 \in 0 .. n /\ \A k \in 1 .. n : k \in 0 .. n /\ k # 0
    BY <1>1
  <2> QED BY <2>2, <2>3
<1>5. ASSUME NEW k \in 1 .. n
      PROVE  Append(Upto(k - 1), c[k]) = Upto(k)
  <2> DEFINE m == r + k
  <2>1. m \in Nat /\ m >= 1 /\ m <= Len(p) /\ r + (k - 1) = m - 1
    BY <1>1
  <2>2. c[k] = p[m]
    BY <1>1
  <2> HIDE DEF m
  <2>3. Append(SubSeq(p, 1, m - 1), p[m]) = SubSeq(p, 1, m)
    <3> DEFINE u == SubSeq(p, 1, m - 1)
               v == Append(u, p[m])
               x == SubSeq(p, 1, m)
    <3>1. /\ u \in Seq(Range(p)) /\ Len(u) = m - 1
          /\ \A i \in 1 .. m - 1 : u[i] = p[i]
      BY <1>2, <2>1
    <3>2. /\ x \in Seq(Range(p)) /\ Len(x) = m
          /\ \A i \in 1 .. m : x[i] = p[i]
      BY <1>2, <2>1
    <3>3. p[m] \in Range(p)
      BY <1>2, <2>1
    <3> HIDE DEF u, x
    <3>4. /\ v \in Seq(Range(p)) /\ Len(v) = Len(u) + 1
          /\ \A i \in 1 .. Len(u) : v[i] = u[i]
          /\ v[Len(u) + 1] = p[m]
      BY <3>1, <3>3, AppendProperties
    <3> HIDE DEF v
    <3>5. \A i \in 1 .. m : i \in 1 .. m - 1 \/ i = m
      BY <2>1
    <3>6. Len(v) = Len(x) /\ \A i \in 1 .. Len(v) : v[i] = x[i]
      <4>1. Len(v) = m /\ Len(u) + 1 = m
        BY <2>1, <3>1, <3>4
      <4>2. ASSUME NEW i \in 1 .. m PROVE v[i] = x[i]
        <5>1. CASE i = m
          BY <3>2, <3>4, <4>1, <5>1
        <5>2. CASE i \in 1 .. m - 1
          BY <3>1, <3>2, <3>4, <5>2
        <5> QED BY <3>5, <5>1, <5>2
      <4> QED BY <3>2, <4>1, <4>2
    <3>7. v = x
      BY <3>2, <3>4, <3>6, SeqEqual
    <3> QED BY <3>7 DEF v, u, x
  <2> QED BY <2>1, <2>2, <2>3 DEF m
<1>6. ASSUME NEW k \in 0 .. n - 1 PROVE Upto(k) \in Dirs
  <2>1. r + k + 1 \in Len(Root) + 1 .. Len(p) /\ (r + k + 1) - 1 = r + k
    BY <1>1
  <2>2. SubSeq(p, 1, (r + k + 1) - 1) \in Dirs
    BY <2>1 DEF Below
  <2> QED BY <2>1, <2>2
<1>7. \A d \in Dirs : Follow(H, d) = d
  BY FilesAssumption DEF Follow
<1> DEFINE At(k) == [at |-> Follow(H, Upto(k)), real |-> TRUE]
           T == {k \in 0 .. n : w[k] = At(k)}
<1>8. Upto(0) = Root /\ Upto(n) = p
  <2>1. r + 0 = r /\ r + n = Len(p)
    BY <1>1
  <2>2. SubSeq(p, 1, Len(p)) = p
    BY <1>2
  <2> HIDE DEF n
  <2> QED BY <1>1, <2>1, <2>2
<1>9. At(0) = Start
  BY <1>7, <1>8, FilesAssumption DEF Start
<1> HIDE DEF w, n, c, r, Upto
<1>10. T = 0 .. n
  <2>1. T \in SUBSET (0 .. n) /\ 0 \in T
    <3>1. 0 \in 0 .. n /\ w[0] = At(0)
      BY <1>1, <1>4, <1>9
    <3> QED BY <3>1
  <2>2. ASSUME NEW k \in 1 .. n, k - 1 \in T PROVE k \in T
    <3> DEFINE here == Upto(k - 1)
               place == [at |-> here, real |-> TRUE]
               name == c[k]
    <3>1. k - 1 \in 0 .. n - 1 /\ k \in 0 .. n
      BY <1>1
    <3>2. here \in Dirs /\ Follow(H, here) = here
      BY <1>6, <1>7, <3>1
    <3>3. w[k - 1] = place
      BY <2>2, <3>2
    <3>4. w[k] = Enter(H, place, name)
      BY <1>4, <3>3
    <3>5. name \notin {<<>>, <<".">>, <<"..">>}
      BY <1>1 DEF IsName
    <3>6. Append(here, name) = Upto(k)
      BY <1>5
    <3> HIDE DEF here, name
    <3>7. Enter(H, place, name) = [at |-> Follow(H, Append(here, name)),
                                   real |-> TRUE]
      BY <3>2, <3>5 DEF Enter
    <3>8. w[k] = At(k)
      BY <3>4, <3>6, <3>7
    <3> QED BY <3>1, <3>8
  <2> HIDE DEF T
  <2> QED BY <1>1, <2>1, <2>2, UpTo
<1>11. w[n] = At(n)
  <2>1. n \in T
    <3> HIDE DEF T
    <3> QED BY <1>1, <1>10
  <2> QED BY <2>1
<1>12. w[n].at = Follow(H, p)
  BY <1>8, <1>11
<1> QED BY <1>3, <1>12 DEF c

\* resolve_safe_path finds every path below the root by its plain name,
\* through links at its end, unless what it finds is outside or its first name
\* starts with two dots.
THEOREM PlainResolved ==
    ASSUME NEW H, NEW p, Below(p), IsPrefix(Root, Follow(H, p)),
           Follow(H, p)[Len(Root) + 1][1] # ".."
    PROVE  resolve_safe_path(H, Join(Inner(p))) = Follow(H, p)
<1> DEFINE t == Join(Inner(p))
           path == Follow(H, p)
           r == Len(Root)
           rel == SubSeq(path, r + 1, Len(path))
<1>1. /\ t \in Seq(Range(t)) /\ t # <<>> /\ t[1] # "/" /\ NUL \notin Range(t)
  BY JoinedName
<1>2. Canonical(H, t) = path
  BY CanonicalBelow
<1>3. PICK U : Root \in Seq(U) /\ Canonical(H, t) \in Seq(U)
  <2> HIDE DEF t
  <2> QED BY <1>1, CanonicalSeq
<1>4. path \in Seq(U) /\ Len(path) \in Nat /\ r \in Nat
  BY <1>2, <1>3
<1>5. lexically_relative(path, Root) = rel
  <2> HIDE DEF path
  <2> QED BY <1>3, <1>4, RelativeBelow DEF path
<1>6. ~StartsDotDot(rel)
  <2> SUFFICES ASSUME rel # <<>> PROVE rel[1][1] # ".."
    BY DEF StartsDotDot, Starts
  <2> HIDE DEF path
  <2>1. r + 1 <= Len(path)
    BY <1>4
  <2>2. rel[1] = path[r + 1]
    BY <1>4, <2>1
  <2> QED BY <2>2 DEF path
<1>7. Head(t) # "/"
  BY <1>1
<1> HIDE DEF t, path, rel
<1>8. Resolve(H, t, StartsDotDot) = path
  BY <1>1, <1>2, <1>5, <1>6, <1>7 DEF Resolve
<1> QED BY <1>8 DEF resolve_safe_path, t, path
=============================================================================
