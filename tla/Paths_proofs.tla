---------------------------- MODULE Paths_proofs ----------------------------
(***************************************************************************)
(* Theorems about the paths, for any file system, any root and any paths   *)
(* the client may send.                                                    *)
(*                                                                         *)
(* Resolve is a fold.  ResolveByPlace says what it computes name by name;  *)
(* from this follow what a resolved path is (ResolveIsReal) and that it    *)
(* resolves to itself (RealIsResolved), which is why a handler may resolve *)
(* a path twice.                                                           *)
(***************************************************************************)
EXTENDS Paths, Fold_theorems

USE NodesAssumption, AllowedAssumption, PathLenAssumption

FileSystem == kind \in [Nodes -> Kinds] /\ KindsAllowed

\* Where a walk may stand: at something that is there, and no link, below
\* directories; or nowhere.
Real(p) == p \in Nodes /\ Walkable(p) /\ At(p) \in {"dir", "file"}

Places == Nodes \cup {NoPath}

LEMMA NodeType ==
  ASSUME NEW p \in Nodes
  PROVE  p \in Seq(STRING) /\ Len(p) \in Nat /\ DOMAIN p = 1 .. Len(p)
BY LenProperties

\* What is before the last name of a path.
LEMMA FrontOfNode ==
  ASSUME NEW p \in Nodes, p # <<>>
  PROVE  /\ Front(p) \in Nodes /\ Len(Front(p)) = Len(p) - 1 /\ Len(p) >= 1
         /\ \A n \in 0 .. Len(p) - 1 : SubSeq(Front(p), 1, n) = SubSeq(p, 1, n)
<1>1. p \in Seq(STRING) /\ Len(p) \in Nat BY NodeType
<1>2. Len(p) >= 1 BY <1>1, EmptySeq
<1>3. Front(p) = SubSeq(p, 1, Len(p) - 1) BY DEF Front
<1>4. \A i \in 1 .. Len(p) - 1 : p[i] \in STRING BY <1>1, ElementOfSeq
<1>5. /\ Front(p) \in Seq(STRING) /\ Len(Front(p)) = Len(p) - 1
      /\ \A i \in 1 .. Len(p) - 1 : Front(p)[i] = p[i]
  <2>. DEFINE n == Len(p) - 1
  <2>1. n \in Nat /\ n - 1 + 1 = n /\ \A i \in 1 .. n : p[i] \in STRING /\ 1 + i - 1 = i
    BY <1>1, <1>2, <1>4
  <2>2. Front(p) = SubSeq(p, 1, n) BY <1>3
  <2>. HIDE DEF n
  <2>3. /\ SubSeq(p, 1, n) \in Seq(STRING)
        /\ Len(SubSeq(p, 1, n)) = IF 1 <= n THEN n - 1 + 1 ELSE 0
        /\ \A i \in 1 .. n - 1 + 1 : SubSeq(p, 1, n)[i] = p[1 + i - 1]
    BY <2>1, SubSeqProperties
  <2>4. Len(SubSeq(p, 1, n)) = n BY <2>1, <2>3
  <2>5. \A i \in 1 .. n : SubSeq(p, 1, n)[i] = p[i] BY <2>1, <2>3
  <2>. QED BY <2>2, <2>3, <2>4, <2>5 DEF n
<1>6. ASSUME NEW n \in 0 .. Len(p) - 1
      PROVE  SubSeq(Front(p), 1, n) = SubSeq(p, 1, n)
  <2>1. SubSeq(Front(p), 1, n) = [i \in 1 .. n |-> Front(p)[i]] OBVIOUS
  <2>2. SubSeq(p, 1, n) = [i \in 1 .. n |-> p[i]] OBVIOUS
  <2>3. \A i \in 1 .. n : Front(p)[i] = p[i] BY <1>1, <1>5
  <2>. QED BY <2>1, <2>2, <2>3
<1>. QED BY <1>2, <1>5, <1>6

LEMMA PrefixOfAppend ==
  ASSUME NEW p \in Nodes, NEW name \in STRING
  PROVE  /\ Append(p, name) \in Seq(STRING) /\ Len(Append(p, name)) = Len(p) + 1
         /\ \A n \in 0 .. Len(p) : SubSeq(Append(p, name), 1, n) = SubSeq(p, 1, n)
         /\ SubSeq(Append(p, name), 1, Len(p)) = p
<1>1. p \in Seq(STRING) /\ Len(p) \in Nat BY NodeType
<1>2. /\ Append(p, name) \in Seq(STRING) /\ Len(Append(p, name)) = Len(p) + 1
      /\ \A i \in 1 .. Len(p) : Append(p, name)[i] = p[i]
  BY <1>1, AppendProperties
<1>3. ASSUME NEW n \in 0 .. Len(p)
      PROVE  SubSeq(Append(p, name), 1, n) = SubSeq(p, 1, n)
  <2>1. SubSeq(Append(p, name), 1, n) = [i \in 1 .. n |-> Append(p, name)[i]] OBVIOUS
  <2>2. SubSeq(p, 1, n) = [i \in 1 .. n |-> p[i]] OBVIOUS
  <2>3. \A i \in 1 .. n : Append(p, name)[i] = p[i] BY <1>1, <1>2
  <2>. QED BY <2>1, <2>2, <2>3
<1>4. SubSeq(p, 1, Len(p)) = p BY <1>1, SubSeqFull
<1>. QED BY <1>1, <1>2, <1>3, <1>4

\* A step of the walk goes from a real path to a real path or nowhere.
LEMMA WalkIsReal ==
  ASSUME FileSystem, NEW p \in Places, NEW name \in STRING
  PROVE  /\ Walk(p, name) \in Places
         /\ Real(p) => Real(Walk(p, name)) \/ Walk(p, name) = NoPath
<1>1. CASE At(p) # "dir"
  BY <1>1 DEF Walk, Places
<1>2. CASE At(p) = "dir" /\ name = "."
  BY <1>2 DEF Walk
<1>3. CASE At(p) = "dir" /\ name = ".."
  <2>1. p \in Nodes BY <1>3 DEF At
  <2>2. CASE p = <<>> BY <1>3, <2>2 DEF Walk
  <2>3. CASE p # <<>>
    <3>1. Walk(p, name) = Front(p) BY <1>3, <2>3 DEF Walk
    <3>2. /\ Front(p) \in Nodes /\ Len(Front(p)) = Len(p) - 1 /\ Len(p) >= 1
          /\ \A n \in 0 .. Len(p) - 1 : SubSeq(Front(p), 1, n) = SubSeq(p, 1, n)
      BY <2>1, <2>3, FrontOfNode
    <3>3. Len(p) \in Nat /\ Front(p) \in Seq(STRING) BY <2>1, <3>2, NodeType
    <3>4. ASSUME Real(p) PROVE Real(Front(p))
      <4>1. SubSeq(p, 1, Len(p) - 1) = Front(p) BY DEF Front
      <4>2. Walkable(p) BY <3>4 DEF Real
      <4>3. \A n \in 0 .. Len(p) - 1 : At(SubSeq(p, 1, n)) = "dir" BY <4>2 DEF Walkable
      <4>4. Len(p) - 1 \in 0 .. Len(p) - 1 BY <3>2, <3>3
      <4>5. At(Front(p)) = "dir" BY <4>1, <4>3, <4>4
      <4>6. \A n \in 0 .. (Len(p) - 1) - 1 : n \in 0 .. Len(p) - 1 BY <3>3
      <4>7. Walkable(Front(p)) BY <3>2, <4>3, <4>6 DEF Walkable
      <4>. QED BY <3>2, <4>5, <4>7 DEF Real
    <3>. QED BY <3>1, <3>2, <3>4 DEF Places
  <2>. QED BY <2>2, <2>3
<1>4. CASE At(p) = "dir" /\ name \notin {".", ".."}
  <2>1. p \in Nodes BY <1>4 DEF At
  <2>. DEFINE child == Append(p, name)
  <2>2. Walk(p, name) = Enter(p, name) BY <1>4 DEF Walk
  <2>3. CASE At(child) = "absent"
    <3>1. Enter(p, name) = NoPath BY <2>3 DEF Enter
    <3>. QED BY <2>2, <3>1 DEF Places
  <2>4. CASE At(child) = "link"
    <3>1. Enter(p, name) = Follow(child) BY <2>4 DEF Enter
    <3>2. Real(Follow(child)) \/ Follow(child) = NoPath BY DEF Follow, Real, At
    <3>. QED BY <2>2, <3>1, <3>2 DEF Places, Real
  <2>5. CASE At(child) \notin {"absent", "link"}
    <3>1. Enter(p, name) = child BY <2>5 DEF Enter
    <3>2. child \in Nodes /\ At(child) \in {"dir", "file"}
      BY <2>5 DEF At, FileSystem, Kinds
    <3>3. ASSUME Real(p) PROVE Walkable(child)
      <4>1. Len(p) \in Nat BY <2>1, NodeType
      <4>2. /\ Len(child) = Len(p) + 1
            /\ \A n \in 0 .. Len(p) : SubSeq(child, 1, n) = SubSeq(p, 1, n)
            /\ SubSeq(child, 1, Len(p)) = p
        BY <2>1, PrefixOfAppend
      <4>3. \A n \in 0 .. Len(p) - 1 : At(SubSeq(p, 1, n)) = "dir" BY <3>3 DEF Real, Walkable
      <4>4. ASSUME NEW n \in 0 .. Len(p) PROVE At(SubSeq(child, 1, n)) = "dir"
        <5>. HIDE DEF child
        <5>1. CASE n = Len(p)
          <6>1. SubSeq(child, 1, n) = p BY <4>2, <5>1
          <6>. QED BY <1>4, <6>1
        <5>2. CASE n # Len(p)
          <6>1. n \in 0 .. Len(p) - 1 BY <4>1, <5>2
          <6>2. SubSeq(child, 1, n) = SubSeq(p, 1, n) BY <4>2
          <6>. QED BY <4>3, <6>1, <6>2
        <5>. QED BY <5>1, <5>2
      <4>. QED BY <4>1, <4>2, <4>4 DEF Walkable
    <3>. QED BY <2>2, <3>1, <3>2, <3>3 DEF Places, Real
  <2>. QED BY <2>3, <2>4, <2>5
<1>. QED BY <1>1, <1>2, <1>3, <1>4

(***************************************************************************)
(* realpath() name by name.                                                *)
(***************************************************************************)
ByPlace(w, names) ==
  /\ w[0] = <<>> /\ w[Len(names)] = Resolve(names)
  /\ \A i \in 1 .. Len(names) : w[i] = Walk(w[i - 1], names[i])

LEMMA ResolveByPlace ==
  ASSUME FileSystem, NEW names \in Seq(STRING)
  PROVE  \E w : ByPlace(w, names)
<1>. DEFINE n == Len(names)
            pick == [t \in SUBSET (1 .. n) |-> Max(t)]
            step == [i \in 1 .. n |-> [p \in Places |-> Walk(p, names[i])]]
            Solves(g) == g = [t \in SUBSET (1 .. n) |->
                               IF t = {} THEN <<>> ELSE Walk(g[t \ {Max(t)}], names[Max(t)])]
            iter == CHOOSE g : Solves(g)
<1>1. n \in Nat /\ DOMAIN names = 1 .. n /\ \A i \in 1 .. n : names[i] \in STRING
  BY LenProperties
<1>2. \E g : Solves(g)
  <2>. DEFINE places == 1 .. n
              base == <<>>
  <2>1. IsFiniteSet(places) /\ base \in Places BY <1>1, FS_Interval DEF Places
  <2>2. Picks(pick, places) BY <1>1, PlacesHaveEnds DEF Picks
  <2>3. step \in [places -> [Places -> Places]] BY <1>1, WalkIsReal
  <2>. HIDE DEF pick, step, places, base
  <2>4. PICK g \in [SUBSET places -> Places] : Folds(g, places, base, pick, step)
    BY <2>1, <2>2, <2>3, FoldExists
  <2>. USE DEF places, base
  <2>5. ASSUME NEW t \in SUBSET (1 .. n), t # {}
        PROVE  g[t] = Walk(g[t \ {Max(t)}], names[Max(t)])
    <3>1. pick[t] = Max(t) /\ Max(t) \in 1 .. n BY <2>2, <2>5 DEF pick, Picks
    <3>2. g[t \ {Max(t)}] \in Places OBVIOUS
    <3>. QED BY <2>4, <2>5, <3>1, <3>2 DEF step, Folds
  <2>6. g = [t \in SUBSET (1 .. n) |->
               IF t = {} THEN <<>> ELSE Walk(g[t \ {Max(t)}], names[Max(t)])]
    BY <2>4, <2>5 DEF Folds
  <2>. QED BY <2>6
<1>3. Solves(iter) BY <1>2
<1>4. Resolve(names) = iter[1 .. n]
  BY <1>1 DEF Resolve, FoldLeft, MapThenFoldSet
<1>. DEFINE w == [k \in 0 .. n |-> iter[1 .. k]]
<1>5. iter[{}] = <<>> BY <1>3
<1>6. ASSUME NEW i \in 1 .. n PROVE iter[1 .. i] = Walk(iter[1 .. i - 1], names[i])
  <2>1. 1 .. i \in SUBSET (1 .. n) /\ 1 .. i # {}
    <3>1. \A x \in 1 .. i : x \in 1 .. n BY <1>1
    <3>2. i \in 1 .. i BY <1>1
    <3>. QED BY <3>1, <3>2
  <2>2. Max(1 .. i) = i /\ (1 .. i) \ {i} = 1 .. i - 1 BY <1>1, EndsOfInterval
  <2>3. iter[1 .. i] = Walk(iter[(1 .. i) \ {Max(1 .. i)}], names[Max(1 .. i)]) BY <1>3, <2>1
  <2>. QED BY <2>2, <2>3
<1>. HIDE DEF iter
<1>7. w[0] = <<>> /\ w[n] = Resolve(names)
  <2>1. 1 .. 0 = {} /\ 0 \in 0 .. n /\ n \in 0 .. n BY <1>1
  <2>. QED BY <1>4, <1>5, <2>1
<1>8. \A i \in 1 .. n : w[i] = Walk(w[i - 1], names[i])
  <2>1. \A i \in 1 .. n : i \in 0 .. n /\ i - 1 \in 0 .. n BY <1>1
  <2>. QED BY <1>6, <2>1
<1>. QED BY <1>7, <1>8 DEF ByPlace

\* realpath() finds a real path or nothing.
LEMMA ResolveIsReal ==
  ASSUME FileSystem, NEW names \in Seq(STRING)
  PROVE  Resolve(names) = NoPath \/ Real(Resolve(names))
<1>. DEFINE n == Len(names)
<1>1. PICK w : ByPlace(w, names) BY ResolveByPlace
<1>2. n \in Nat /\ \A i \in 1 .. n : names[i] \in STRING BY LenProperties
<1>. DEFINE Fine(p) == p = NoPath \/ Real(p)
            Known == {k \in Nat : k <= n => Fine(w[k])}
<1>3. 0 \in Known
  <2>1. At(<<>>) = "dir" BY DEF At, FileSystem, KindsAllowed
  <2>2. Walkable(<<>>) BY DEF Walkable
  <2>. QED BY <1>1, <2>1, <2>2 DEF ByPlace, Real
<1>4. ASSUME NEW k \in Nat, k \in Known PROVE k + 1 \in Known
  <2>. SUFFICES ASSUME k + 1 <= n PROVE Fine(w[k + 1])
    OBVIOUS
  <2>1. k + 1 \in 1 .. n /\ (k + 1) - 1 = k BY <1>2
  <2>2. Fine(w[k]) BY <1>2, <1>4
  <2>3. w[k + 1] = Walk(w[k], names[k + 1]) BY <1>1, <2>1 DEF ByPlace
  <2>4. CASE w[k] = NoPath
    <3>1. At(NoPath) = "absent" BY DEF At
    <3>. QED BY <2>3, <2>4, <3>1 DEF Walk
  <2>5. CASE Real(w[k])
    <3>1. w[k] \in Places /\ names[k + 1] \in STRING BY <1>2, <2>1, <2>5 DEF Real, Places
    <3>. QED BY <2>3, <2>5, <3>1, WalkIsReal
  <2>. QED BY <2>2, <2>4, <2>5
<1>5. \A k \in Nat : k \in Known
  <2>. HIDE DEF Known
  <2>1. \A k \in Nat : k \in Known => k + 1 \in Known BY <1>4
  <2>. QED BY <1>3, <2>1, SetInduction
<1>6. Fine(w[n]) BY <1>2, <1>5
<1>. QED BY <1>1, <1>6 DEF ByPlace

\* A real path resolves to itself.
LEMMA RealIsResolved ==
  ASSUME FileSystem, NEW p, Real(p)
  PROVE  Resolve(p) = p
<1>. DEFINE n == Len(p)
<1>1. p \in Nodes /\ p \in Seq(STRING) /\ n \in Nat BY NodeType DEF Real
<1>2. PICK w : ByPlace(w, p) BY <1>1, ResolveByPlace
<1>. DEFINE Known == {k \in Nat : k <= n => w[k] = SubSeq(p, 1, k)}
<1>3. 0 \in Known BY <1>2 DEF ByPlace
<1>4. ASSUME NEW k \in Nat, k \in Known PROVE k + 1 \in Known
  <2>. SUFFICES ASSUME k + 1 <= n PROVE w[k + 1] = SubSeq(p, 1, k + 1)
    OBVIOUS
  <2>. DEFINE q == SubSeq(p, 1, k)
  <2>1. k + 1 \in 1 .. n /\ (k + 1) - 1 = k BY <1>1
  <2>2. w[k + 1] = Walk(q, p[k + 1])
    <3>1. w[k + 1] = Walk(w[(k + 1) - 1], p[k + 1]) BY <1>2, <2>1 DEF ByPlace
    <3>2. w[k] = q BY <1>1, <1>4, <2>1
    <3>. QED BY <2>1, <3>1, <3>2
  <2>3. At(q) = "dir"
    <3>1. k \in 0 .. Len(p) - 1 BY <1>1
    <3>. QED BY <3>1 DEF Real, Walkable
  <2>4. p[k + 1] \notin {".", ".."} BY <1>1, <2>1, NodeType
  <2>5. Append(q, p[k + 1]) = SubSeq(p, 1, k + 1)
    <3>1. \A i \in 1 .. k + 1 : p[i] \in STRING BY <1>1, ElementOfSeq
    <3>. QED BY <1>1, <3>1
  <2>6. At(SubSeq(p, 1, k + 1)) \notin {"absent", "link"}
    <3>1. CASE k + 1 = n
      <4>1. SubSeq(p, 1, k + 1) = p BY <1>1, <3>1, SubSeqFull
      <4>. QED BY <4>1 DEF Real
    <3>2. CASE k + 1 # n
      <4>1. k + 1 \in 0 .. Len(p) - 1 BY <1>1, <3>2
      <4>. QED BY <4>1 DEF Real, Walkable
    <3>. QED BY <3>1, <3>2
  <2>7. Enter(q, p[k + 1]) = SubSeq(p, 1, k + 1) BY <2>5, <2>6 DEF Enter
  <2>8. Walk(q, p[k + 1]) = Enter(q, p[k + 1]) BY <2>3, <2>4 DEF Walk
  <2>. QED BY <2>2, <2>7, <2>8
<1>5. \A k \in Nat : k \in Known
  <2>. HIDE DEF Known
  <2>1. \A k \in Nat : k \in Known => k + 1 \in Known BY <1>4
  <2>. QED BY <1>3, <2>1, SetInduction
<1>6. w[n] = SubSeq(p, 1, n) BY <1>1, <1>5
<1>. QED BY <1>1, <1>2, <1>6, SubSeqFull DEF ByPlace

(***************************************************************************)
(* The conversions of paths.                                               *)
(***************************************************************************)
LEMMA PlainIsPrinted ==
  ASSUME cwd \in Seq(STRING), Plain(cwd)
  PROVE  GetCwd = cwd
BY DEF GetCwd, Plain

LEMMA WholeIsPath ==
  ASSUME rootPath \in Nodes, cwd \in Nodes, NEW a \in ServerPaths
  PROVE  Whole(a) \in Seq(STRING)
<1>1. a.abs \in BOOLEAN /\ a.names \in Seq(STRING) BY ServerPathsAssumption
<1>2. rootPath \in Seq(STRING) BY NodeType
<1>3. GetCwd \in Seq(STRING)
  <2>1. cwd \in Seq(STRING) /\ Len(cwd) \in Nat /\ DOMAIN cwd = 1 .. Len(cwd) BY NodeType
  <2>2. \A i \in 1 .. Len(cwd) : Printed[cwd[i]] \in STRING BY <2>1, PrintedAssumption
  <2>. QED BY <2>1, <2>2 DEF GetCwd
<1>. QED BY <1>1, <1>2, <1>3, ConcatProperties DEF Whole

\* What a path of the client is converted to is something or nothing.
LEMMA RealPathsOfType ==
  ASSUME FileSystem, rootPath \in Nodes, cwd \in Nodes, NEW a \in ServerPaths, NEW p \in RealPathsOf(a)
  PROVE  /\ p = NoPath \/ Real(p)
         /\ Fits(Whole(a)) => p = NoPath \/ p = Resolve(Whole(a))
<1>1. Whole(a) \in Seq(STRING) /\ Len(Whole(a)) \in Nat BY WholeIsPath, LenProperties
<1>2. CASE Fits(Whole(a))
  <2>1. p = GetRealPath(Whole(a)) BY <1>2 DEF RealPathsOf
  <2>2. p = NoPath \/ p = Resolve(Whole(a)) BY <2>1 DEF GetRealPath
  <2>. QED BY <1>1, <2>2, ResolveIsReal
<1>3. CASE ~Fits(Whole(a))
  <2>. DEFINE cut == SubSeq(Whole(a), 1, PATH_LEN_MAX)
  <2>1. p \in {NoPath, GetRealPath(cut)} BY <1>3, ServerPathsAssumption DEF RealPathsOf
  <2>2. cut \in Seq(STRING)
    <3>1. PATH_LEN_MAX <= Len(Whole(a)) BY <1>1, <1>3 DEF Fits
    <3>2. \A i \in 1 .. PATH_LEN_MAX : i \in 1 .. Len(Whole(a)) BY <1>1, <3>1
    <3>3. \A i \in 1 .. PATH_LEN_MAX : Whole(a)[i] \in STRING BY <1>1, <3>2, ElementOfSeq
    <3>. QED BY <3>3, SubSeqProperties
  <2>3. p = NoPath \/ p = Resolve(cut) BY <2>1 DEF GetRealPath
  <2>. QED BY <1>3, <2>2, <2>3, ResolveIsReal
<1>. QED BY <1>2, <1>3

\* The entries of a directory include "." and "..".
EntryNames == STRING \cup {".", ".."}

\* A path inside a root that is not "/" is converted to one that leads back.
LEMMA ConvertedBack ==
  ASSUME rootPath \in Nodes, rootPath # <<>>, NEW p \in Seq(EntryNames), IsPrefix(rootPath, p)
  PROVE  /\ RealPathToServerPath(p).abs = TRUE
         /\ rootPath \o RealPathToServerPath(p).names = p
<1>1. /\ rootPath \in Seq(STRING) /\ Len(rootPath) \in Nat /\ Len(p) \in Nat
      /\ Len(rootPath) <= Len(p)
  BY NodeType, LenProperties DEF IsPrefix
<1>. HIDE DEF EntryNames
<1>2. CASE p = rootPath
  <2>1. RealPathToServerPath(p) = [abs |-> TRUE, names |-> <<>>] BY <1>2 DEF RealPathToServerPath
  <2>. QED BY <1>1, <1>2, <2>1, ConcatEmptySeq
<1>3. CASE p # rootPath
  <2>. DEFINE rest == SubSeq(p, Len(rootPath) + 1, Len(p))
  <2>1. RealPathToServerPath(p) = [abs |-> TRUE, names |-> rest]
    BY <1>3 DEF RealPathToServerPath
  <2>2. SubSeq(p, 1, Len(rootPath)) = rootPath BY <1>1, SubSeqFull DEF IsPrefix
  <2>3. SubSeq(p, 1, Len(rootPath)) \o rest = SubSeq(p, 1, Len(p))
    <3>. DEFINE k == Len(rootPath)
                n == Len(p)
    <3>1. 1 \in 1 .. n + 1 /\ k \in 1 - 1 .. n /\ n \in k .. n BY <1>1
    <3>. QED BY <3>1, ConcatAdjacentSubSeq
  <2>4. SubSeq(p, 1, Len(p)) = p BY SubSeqFull
  <2>. HIDE DEF rest
  <2>5. RealPathToServerPath(p).abs = TRUE /\ RealPathToServerPath(p).names = rest BY <2>1
  <2>6. rootPath \o rest = p BY <2>2, <2>3, <2>4
  <2>. QED BY <2>5, <2>6
<1>. QED BY <1>2, <1>3

(***************************************************************************)
(* The steps.  First what a step that leaves the file system alone keeps.  *)
(***************************************************************************)
LEMMA SameFiles ==
  ASSUME kind' = kind
  PROVE  \A p : Resolve(p)' = Resolve(p) /\ At(p)' = At(p)
BY DEF Resolve, Walk, At, Walkable, Follow, Enter, FoldLeft, MapThenFoldSet

LEMMA SameAsked ==
  ASSUME UNCHANGED <<rootPath, command, arg, from>>
  PROVE  Asked' = Asked /\ (Fits(Asked) /\ Plain(from))' = (Fits(Asked) /\ Plain(from))
BY DEF Asked, Fits, Plain

LEMMA RootIsNode ==
  ASSUME TypeOK
  PROVE  rootPath \in Nodes
BY RootPathsAssumption DEF TypeOK

LEMMA ArgumentIsNotEmpty == <<>> \notin ServerPaths
<1>1. DOMAIN <<>> = {} OBVIOUS
<1>2. \A a \in ServerPaths : DOMAIN a = {"abs", "names"} BY ServerPathsAssumption
<1>. QED BY <1>1, <1>2

LEMMA InitPaths == Init => PathsInv
<1>. SUFFICES ASSUME Init PROVE PathsInv
  OBVIOUS
<1>1. TypeOK BY DEF Init, TypeOK, Commands
<1>2. KindsAllowed BY DEF Init, KindsAllowed
<1>3. HandlerOfPlace BY DEF Init, HandlerOfPlace
<1>4. MeantOfPlace BY DEF Init, MeantOfPlace, HasRealPath
<1>5. ToldIsMeant BY DEF Init, ToldIsMeant
<1>6. ResultIsMeant BY DEF Init, ResultIsMeant
<1>. QED BY <1>1, <1>2, <1>3, <1>4, <1>5, <1>6 DEF PathsInv

LEMMA StepType == PathsInv /\ [Next]_vars => TypeOK' /\ KindsAllowed'
<1>. SUFFICES ASSUME PathsInv, [Next]_vars PROVE TypeOK' /\ KindsAllowed'
  OBVIOUS
<1>0. TypeOK /\ KindsAllowed /\ HandlerOfPlace /\ FileSystem /\ rootPath \in Nodes
  BY RootIsNode DEF PathsInv, FileSystem, TypeOK
<1>. USE DEF TypeOK, KindsAllowed, Commands, Begin, Finish, Fail
<1>1. CASE Connect
  <2>1. rootPath \in Seq(STRING) BY <1>0, NodeType
  <2>. QED BY <1>0, <1>1, <2>1 DEF Connect
<1>2. CASE CommandHandlerPwd BY <1>0, <1>2 DEF CommandHandlerPwd
<1>3. CASE CommandWithPath BY <1>0, <1>3 DEF CommandWithPath
<1>4. CASE CommandLacksPath BY <1>0, <1>4 DEF CommandLacksPath
<1>5. CASE ListCwd
  <2>1. GetCwd \in Seq(STRING)
    <3>1. cwd \in Nodes BY <1>0, <1>5 DEF ListCwd, InSession
    <3>2. cwd \in Seq(STRING) /\ Len(cwd) \in Nat /\ DOMAIN cwd = 1 .. Len(cwd) BY <3>1, NodeType
    <3>3. \A i \in 1 .. Len(cwd) : Printed[cwd[i]] \in STRING BY <3>1, <3>2, PrintedAssumption
    <3>. QED BY <3>2, <3>3 DEF GetCwd
  <2>. QED BY <1>0, <1>5, <2>1 DEF ListCwd
<1>6. CASE ResolvePath
  <2>1. cwd \in Nodes /\ arg \in ServerPaths
    BY <1>0, <1>6 DEF ResolvePath, HandlerOfPlace, InSession, CommandsAt
  <2>2. realPath' \in Seq(STRING) \cup {NoPath}
    <3>1. realPath' = NoPath \/ Real(realPath') BY <1>0, <1>6, <2>1, RealPathsOfType DEF ResolvePath
    <3>. QED BY <3>1, NodeType DEF Real
  <2>. QED BY <1>0, <1>6, <2>2 DEF ResolvePath
<1>7. CASE SetCwdResolve
  <2>1. realPath' = NoPath \/ realPath' = Resolve(realPath) BY <1>7 DEF SetCwdResolve, GetRealPath
  <2>4. realPath \in Seq(STRING)
    BY <1>0, <1>7, NodeType DEF SetCwdResolve, HandlerOfPlace, HasRealPath
  <2>2. Resolve(realPath) = NoPath \/ Real(Resolve(realPath)) BY <1>0, <2>4, ResolveIsReal
  <2>3. realPath' \in Seq(STRING) \cup {NoPath} BY <2>1, <2>2, NodeType DEF Real
  <2>. QED BY <1>0, <1>7, <2>3 DEF SetCwdResolve
<1>8. CASE StatPath BY <1>0, <1>8 DEF StatPath
<1>9. CASE SizeOfPath BY <1>0, <1>9 DEF SizeOfPath
<1>10. CASE CheckPath
  <2>1. realPath \in Nodes BY <1>0, <1>10 DEF CheckPath, HandlerOfPlace, HasRealPath
  <2>. QED BY <1>0, <1>10, <2>1 DEF CheckPath
<1>11. CASE ListPath BY <1>0, <1>11 DEF ListPath
<1>12. CASE FileSystemChanges
  <2>1. PICK p \in Nodes : \E k \in Allowed[p] : kind' = [kind EXCEPT ![p] = k]
    BY <1>12 DEF FileSystemChanges
  <2>2. PICK k \in Allowed[p] : kind' = [kind EXCEPT ![p] = k] BY <2>1
  <2>3. kind' \in [Nodes -> Kinds] /\ \A q \in Nodes : kind'[q] \in Allowed[q] BY <1>0, <2>2
  <2>. QED BY <1>0, <1>12, <2>3 DEF FileSystemChanges
<1>13. CASE UNCHANGED vars BY <1>0, <1>13 DEF vars
<1>. QED BY <1>1, <1>2, <1>3, <1>4, <1>5, <1>6, <1>7, <1>8, <1>9, <1>10, <1>11, <1>12, <1>13
         DEF Next, Server

LEMMA StepHandler == PathsInv /\ [Next]_vars => HandlerOfPlace'
<1>. SUFFICES ASSUME PathsInv, [Next]_vars PROVE HandlerOfPlace'
  OBVIOUS
<1>0. TypeOK /\ HandlerOfPlace /\ FileSystem /\ rootPath \in Nodes
  BY RootIsNode DEF PathsInv, FileSystem, TypeOK
<1>. USE DEF HandlerOfPlace, HasRealPath, CommandsAt, InSession, Begin, Finish, Fail
<1>1. CASE Connect BY <1>0, <1>1 DEF Connect
<1>2. CASE CommandHandlerPwd BY <1>0, <1>2 DEF CommandHandlerPwd
<1>3. CASE CommandWithPath BY <1>0, <1>3 DEF CommandWithPath
<1>4. CASE CommandLacksPath BY <1>0, <1>4 DEF CommandLacksPath
<1>5. CASE ListCwd
  <2>1. GetCwd' = GetCwd BY <1>5 DEF ListCwd, GetCwd
  <2>. QED BY <1>0, <1>5, <2>1 DEF ListCwd
<1>6. CASE ResolvePath
  <2>1. cwd \in Nodes /\ arg \in ServerPaths BY <1>0, <1>6 DEF ResolvePath, TypeOK
  <2>2. realPath' = NoPath \/ realPath' \in Nodes
    BY <1>0, <1>6, <2>1, RealPathsOfType DEF ResolvePath, Real
  <2>. QED BY <1>0, <1>6, <2>2 DEF ResolvePath
<1>7. CASE SetCwdResolve
  <2>1. realPath' = NoPath \/ realPath' = Resolve(realPath) BY <1>7 DEF SetCwdResolve, GetRealPath
  <2>4. realPath \in Seq(STRING) BY <1>0, <1>7, NodeType DEF SetCwdResolve
  <2>2. Resolve(realPath) = NoPath \/ Real(Resolve(realPath)) BY <1>0, <2>4, ResolveIsReal
  <2>3. realPath' = NoPath \/ realPath' \in Nodes BY <2>1, <2>2 DEF Real
  <2>. QED BY <1>0, <1>7, <2>3 DEF SetCwdResolve
<1>8. CASE StatPath BY <1>0, <1>8 DEF StatPath
<1>9. CASE SizeOfPath BY <1>0, <1>9 DEF SizeOfPath
<1>10. CASE CheckPath
  <2>1. NotAbove(realPath)' = NotAbove(realPath) BY <1>10 DEF CheckPath, NotAbove, Begins
  <2>2. command = "NLST" => arg # <<>> BY <1>0, <1>10, ArgumentIsNotEmpty DEF CheckPath
  <2>. QED BY <1>0, <1>10, <2>1, <2>2 DEF CheckPath
<1>11. CASE ListPath BY <1>0, <1>11 DEF ListPath
<1>12. CASE FileSystemChanges
  <2>1. NotAbove(realPath)' = NotAbove(realPath) /\ GetCwd' = GetCwd
    BY <1>12 DEF FileSystemChanges, NotAbove, Begins, GetCwd
  <2>. QED BY <1>0, <1>12, <2>1 DEF FileSystemChanges
<1>13. CASE UNCHANGED vars
  <2>1. NotAbove(realPath)' = NotAbove(realPath) /\ GetCwd' = GetCwd
    BY <1>13 DEF vars, NotAbove, Begins, GetCwd
  <2>. QED BY <1>0, <1>13, <2>1 DEF vars
<1>. QED BY <1>1, <1>2, <1>3, <1>4, <1>5, <1>6, <1>7, <1>8, <1>9, <1>10, <1>11, <1>12, <1>13
         DEF Next, Server

(***************************************************************************)
(* What the calls of a handler find.  Asked is what its argument is put    *)
(* together to, and what it resolves to is real.                           *)
(***************************************************************************)
LEMMA AskedIsReal ==
  ASSUME TypeOK, FileSystem, HandlerOfPlace, HasRealPath \/ pc = "resolve", Plain(from)
  PROVE  /\ command # "connect" => Asked = Whole(arg) /\ arg \in ServerPaths
         /\ Resolve(Asked) = NoPath \/ Real(Resolve(Asked))
<1>1. rootPath \in Nodes /\ rootPath \in Seq(STRING) BY RootIsNode, NodeType
<1>2. pc \notin {"idle", "over"} /\ from = cwd BY DEF HandlerOfPlace, HasRealPath
<1>3. CASE command = "connect"
  <2>1. Asked = rootPath BY <1>3 DEF Asked
  <2>. QED BY <1>1, <1>3, <2>1, ResolveIsReal
<1>4. CASE command # "connect"
  <2>1. arg \in ServerPaths BY <1>2, <1>4 DEF HandlerOfPlace, HasRealPath, TypeOK
  <2>2. arg.abs \in BOOLEAN BY <2>1, ServerPathsAssumption
  <2>3. cwd \in Nodes /\ cwd \in Seq(STRING)
    BY <1>2, <1>4, NodeType DEF HandlerOfPlace, InSession, TypeOK
  <2>4. GetCwd = cwd BY <1>2, <2>3, PlainIsPrinted DEF Plain
  <2>5. Asked = Whole(arg)
    <3>1. CASE arg.abs BY <1>4, <3>1 DEF Asked, Whole
    <3>2. CASE ~arg.abs BY <1>2, <1>4, <2>4, <3>2 DEF Asked, Whole
    <3>. QED BY <3>1, <3>2
  <2>6. Whole(arg) \in Seq(STRING) BY <1>1, <2>1, <2>3, WholeIsPath
  <2>. QED BY <2>1, <2>5, <2>6, ResolveIsReal
<1>. QED BY <1>3, <1>4

LEMMA StepMeant == PathsInv /\ [Next]_vars => MeantOfPlace' /\ ResultIsMeant'
<1>. SUFFICES ASSUME PathsInv, [Next]_vars PROVE MeantOfPlace' /\ ResultIsMeant'
  OBVIOUS
<1>0. TypeOK /\ HandlerOfPlace /\ FileSystem /\ MeantOfPlace /\ ResultIsMeant /\ rootPath \in Nodes
  BY RootIsNode DEF PathsInv, FileSystem, TypeOK
<1>. DEFINE Quiet == ~changed /\ Fits(Asked) /\ Plain(from)
            Found == realPath = Resolve(Asked)
            Right == At(realPath) = NeededKind[command]
\* Nothing is claimed of a handler that has no path yet or has failed.
<1>a. ASSUME ~HasRealPath', pc' # "idle" \/ result' # "ok"
      PROVE  MeantOfPlace' /\ ResultIsMeant'
  BY <1>a DEF MeantOfPlace, ResultIsMeant
<1>f. ASSUME Fail PROVE MeantOfPlace' /\ ResultIsMeant'
  <2>1. pc' \in {"idle", "over"} /\ result' = "fail" BY <1>f DEF Fail
  <2>2. ~HasRealPath' BY <2>1 DEF HasRealPath
  <2>. QED BY <1>a, <2>1, <2>2
<1>1. CASE Connect BY <1>1 DEF Connect, Begin, MeantOfPlace, ResultIsMeant
<1>2. CASE CommandHandlerPwd
  <2>1. pc' = "idle" /\ command' = "PWD" /\ arg' = <<>>
    BY <1>2 DEF CommandHandlerPwd, Begin, Finish
  <2>. QED BY <2>1 DEF HasRealPath, MeantOfPlace, ResultIsMeant
<1>3. CASE CommandWithPath
  <2>1. pc' = "resolve" BY <1>3 DEF CommandWithPath
  <2>2. ~HasRealPath' BY <2>1 DEF HasRealPath
  <2>. QED BY <1>a, <2>1, <2>2
<1>4. CASE CommandLacksPath
  <2>1. pc' = "idle" /\ result' = "fail" BY <1>4 DEF CommandLacksPath, Finish
  <2>2. ~HasRealPath' BY <2>1 DEF HasRealPath
  <2>. QED BY <1>a, <2>1, <2>2
<1>5. CASE ListCwd BY <1>5, <1>a DEF ListCwd, Begin, HasRealPath
<1>6. CASE ResolvePath
  <2>1. CASE realPath' = NoPath BY <1>6, <1>f, <2>1 DEF ResolvePath
  <2>2. CASE realPath' # NoPath
    <3>1. /\ pc' \in {"again", "stat"} /\ changed' = changed /\ kind' = kind
          /\ UNCHANGED <<rootPath, command, arg, from>>
          /\ pc = "resolve" /\ command # "connect"
      BY <1>0, <1>6, <2>2 DEF ResolvePath, HandlerOfPlace, CommandsAt
    <3>2. ASSUME Quiet' PROVE Found'
      <4>1. Quiet BY <3>1, <3>2, SameAsked
      <4>2. Asked = Whole(arg) /\ arg \in ServerPaths BY <1>0, <3>1, <4>1, AskedIsReal
      <4>3. cwd \in Nodes BY <1>0, <3>1 DEF HandlerOfPlace, InSession, TypeOK
      <4>4. realPath' = Resolve(Asked)
        BY <1>0, <1>6, <2>2, <4>1, <4>2, <4>3, RealPathsOfType DEF ResolvePath
      <4>. QED BY <3>1, <4>4, SameAsked, SameFiles
    <3>. QED BY <3>1, <3>2 DEF MeantOfPlace, ResultIsMeant
  <2>. QED BY <2>1, <2>2
<1>7. CASE SetCwdResolve
  <2>1. CASE realPath' = NoPath BY <1>7, <1>f, <2>1 DEF SetCwdResolve
  <2>2. CASE realPath' # NoPath
    <3>1. /\ pc' = "stat" /\ changed' = changed /\ kind' = kind
          /\ UNCHANGED <<rootPath, command, arg, from>>
          /\ pc = "again" /\ HasRealPath /\ realPath \in Nodes
          /\ command \in {"connect", "CWD"} /\ (command = "connect" => realPath = rootPath)
      BY <1>0, <1>7, <2>2 DEF SetCwdResolve, HandlerOfPlace, CommandsAt, HasRealPath
    <3>2. realPath' = Resolve(realPath) BY <1>7, <2>2 DEF SetCwdResolve, GetRealPath
    <3>3. ASSUME Quiet' PROVE Found'
      <4>1. Quiet BY <3>1, <3>3, SameAsked
      <4>2. CASE command = "connect"
        <5>1. Asked = rootPath BY <4>2 DEF Asked
        <5>2. realPath' = Resolve(Asked) BY <3>1, <3>2, <4>2, <5>1
        <5>. QED BY <3>1, <5>2, SameAsked, SameFiles
      <4>3. CASE command # "connect"
        <5>1. realPath = Resolve(Asked) BY <1>0, <3>1, <4>1, <4>3 DEF MeantOfPlace
        <5>2. Real(realPath) BY <1>0, <3>1, <4>1, <5>1, AskedIsReal
        <5>3. realPath' = Resolve(Asked) BY <1>0, <3>2, <5>1, <5>2, RealIsResolved
        <5>. QED BY <3>1, <5>3, SameAsked, SameFiles
      <4>. QED BY <4>2, <4>3
    <3>. QED BY <3>1, <3>3 DEF MeantOfPlace, ResultIsMeant
  <2>. QED BY <2>1, <2>2
\* What an earlier call has found is found again.
<1>b. ASSUME HasRealPath, Quiet, pc # "again"
      PROVE  /\ realPath = Resolve(Asked) /\ Resolve(realPath) = realPath /\ realPath # NoPath
             /\ pc # "stat" => At(realPath) = NeededKind[command]
  <2>1. realPath \in Nodes /\ realPath = Resolve(Asked) BY <1>0, <1>b
    DEF HandlerOfPlace, HasRealPath, MeantOfPlace
  <2>2. Real(realPath) BY <1>0, <1>b, <2>1, AskedIsReal
  <2>3. pc # "stat" => At(realPath) = NeededKind[command]
    BY <1>0, <1>b DEF MeantOfPlace, HasRealPath
  <2>. QED BY <1>0, <2>1, <2>2, <2>3, RealIsResolved
\* A step that keeps the path keeps what was found.
<1>c. ASSUME kind' = kind, UNCHANGED <<rootPath, command, arg, from, changed, realPath>>,
             pc # "again", HasRealPath, Right \/ pc # "stat", Quiet'
      PROVE  Found' /\ Right'
  <2>1. Quiet BY <1>c, SameAsked
  <2>2. realPath = Resolve(Asked) /\ Right BY <1>b, <1>c, <2>1
  <2>. QED BY <1>c, <2>2, SameAsked, SameFiles
<1>8. CASE StatPath
  <2>. DEFINE needed == IF command \in {"RETR", "SIZE"} THEN "file" ELSE "dir"
  <2>1. /\ pc = "stat" /\ HasRealPath /\ kind' = kind
        /\ UNCHANGED <<rootPath, command, arg, from, changed, realPath>>
        /\ command \in {"connect", "CWD", "NLST", "RETR", "SIZE"}
    BY <1>0, <1>8 DEF StatPath, HandlerOfPlace, HasRealPath, CommandsAt
  <2>2. needed = NeededKind[command] BY <2>1 DEF NeededKind
  <2>. HIDE DEF needed
  <2>3. PICK found \in StatFinds(realPath, needed) :
          IF ~found THEN Fail
          ELSE IF command = "RETR" THEN Finish("ok")
          ELSE pc' = (IF command = "SIZE" THEN "size" ELSE "check") /\ UNCHANGED result
    BY <1>8 DEF StatPath, needed
  <2>4. CASE ~found BY <1>f, <2>3, <2>4
  <2>5. CASE found
    <3>1. ASSUME Quiet' PROVE Found' /\ Right'
      <4>1. Quiet BY <2>1, <3>1, SameAsked
      <4>2. Resolve(realPath) = realPath /\ realPath # NoPath BY <1>b, <2>1, <4>1
      <4>3. At(realPath) = needed BY <2>5, <4>2 DEF StatFinds
      <4>. QED BY <1>c, <2>1, <2>2, <3>1, <4>3
    <3>2. pc' \in {"idle", "size", "check"} /\ (pc' = "idle" => command = "RETR")
      BY <2>3, <2>5 DEF Finish
    <3>. QED BY <2>1, <3>1, <3>2 DEF MeantOfPlace, ResultIsMeant
  <2>. QED BY <2>4, <2>5
<1>9. CASE SizeOfPath
  <2>1. /\ pc = "size" /\ HasRealPath /\ command = "SIZE" /\ pc' = "idle" /\ kind' = kind
        /\ UNCHANGED <<rootPath, command, arg, from, changed, realPath>>
    BY <1>0, <1>9 DEF SizeOfPath, Finish, HandlerOfPlace, HasRealPath, CommandsAt
  <2>2. ASSUME Quiet' PROVE Found' /\ Right' BY <1>c, <2>1, <2>2
  <2>. QED BY <2>1, <2>2 DEF MeantOfPlace, ResultIsMeant, HasRealPath
<1>10. CASE CheckPath
  <2>1. /\ pc = "check" /\ HasRealPath /\ kind' = kind
        /\ UNCHANGED <<rootPath, command, arg, from, changed, realPath>>
        /\ command \in {"connect", "CWD", "NLST"}
    BY <1>0, <1>10 DEF CheckPath, HandlerOfPlace, HasRealPath, CommandsAt
  <2>2. ASSUME Quiet' PROVE Found' /\ Right' BY <1>c, <2>1, <2>2
  <2>3. CASE ~NotAbove(realPath) BY <1>10, <1>f, <2>3 DEF CheckPath
  <2>4. CASE NotAbove(realPath)
    <3>1. pc' = "list" \/ (pc' = "idle" /\ cwd' = realPath)
      BY <1>10, <2>4 DEF CheckPath, Finish
    <3>. QED BY <2>1, <2>2, <3>1 DEF MeantOfPlace, ResultIsMeant, HasRealPath
  <2>. QED BY <2>3, <2>4
<1>11. CASE ListPath
  <2>1. /\ pc = "list" /\ command = "NLST" /\ pc' \in {"idle", "over"} /\ kind' = kind
        /\ UNCHANGED <<rootPath, command, arg, from, changed, realPath>>
    BY <1>0, <1>11 DEF ListPath, Finish, Fail, HandlerOfPlace, CommandsAt
  <2>2. ASSUME arg # <<>>, Quiet' PROVE Found' /\ Right'
    <3>1. HasRealPath BY <2>1, <2>2 DEF HasRealPath
    <3>. QED BY <1>c, <2>1, <2>2, <3>1
  <2>. QED BY <2>1, <2>2 DEF MeantOfPlace, ResultIsMeant, HasRealPath
<1>12. CASE FileSystemChanges BY <1>12 DEF FileSystemChanges, MeantOfPlace, ResultIsMeant
<1>13. CASE UNCHANGED vars
  <2>1. kind' = kind /\ UNCHANGED <<rootPath, command, arg, from, changed, realPath, pc, cwd, result>>
    BY <1>13 DEF vars
  <2>2. Quiet' = Quiet /\ Found' = Found /\ Right' = Right BY <2>1, SameAsked, SameFiles
  <2>. HIDE DEF Quiet, Found, Right
  <2>3. MeantOfPlace = (HasRealPath /\ Quiet =>
          /\ ~(pc = "again" /\ command = "connect") => Found
          /\ pc \in {"size", "check", "list"} => Right)
    BY DEF MeantOfPlace, Quiet, Found, Right
  <2>4. ResultIsMeant = (pc = "idle" /\ result = "ok" /\ (command = "connect" \/ arg # <<>>) /\ Quiet
          => Right /\ Found /\ (command \in {"connect", "CWD"} => cwd = realPath))
    BY DEF ResultIsMeant, Quiet, Found, Right
  <2>. QED BY <1>0, <2>1, <2>2, <2>3, <2>4 DEF HasRealPath, MeantOfPlace, ResultIsMeant, Quiet, Found, Right
<1>. QED BY <1>1, <1>2, <1>3, <1>4, <1>5, <1>6, <1>7, <1>8, <1>9, <1>10, <1>11, <1>12, <1>13
         DEF Next, Server

(***************************************************************************)
(* What the client is told, and where the session is.                      *)
(***************************************************************************)
LEMMA EntryOfDirectory ==
  ASSUME NEW p \in Seq(STRING), NEW name \in EntryNames
  PROVE  p \in Seq(EntryNames) /\ Append(p, name) \in Seq(EntryNames) /\ Append(p, name) = p \o <<name>>
<1>1. STRING \subseteq EntryNames BY DEF EntryNames
<1>2. p \in Seq(EntryNames) BY <1>1, SeqMonotonic
<1>. QED BY <1>2, AppendProperties, AppendIsConcat

LEMMA StepTold == PathsInv /\ [Next]_vars => ToldIsMeant'
<1>. SUFFICES ASSUME PathsInv, [Next]_vars PROVE ToldIsMeant'
  OBVIOUS
<1>0. TypeOK /\ HandlerOfPlace /\ FileSystem /\ ToldIsMeant /\ rootPath \in Nodes
  BY RootIsNode DEF PathsInv, FileSystem, TypeOK
<1>a. ASSUME told' = {} PROVE ToldIsMeant'
  BY <1>a DEF ToldIsMeant
<1>b. ASSUME UNCHANGED <<told, cwd, rootPath>> PROVE ToldIsMeant'
  BY <1>0, <1>b DEF ToldIsMeant, Whole, GetCwd, Plain
<1>1. CASE Connect BY <1>1, <1>a DEF Connect
<1>2. CASE CommandHandlerPwd
  <2>. DEFINE path == RealPathToServerPath(GetCwd)
  <2>1. /\ told' = {[path |-> path, of |-> cwd]}
        /\ UNCHANGED <<cwd, rootPath>> /\ cwd \in Nodes
    BY <1>0, <1>2 DEF CommandHandlerPwd, Begin, InSession, TypeOK
  <2>2. ASSUME rootPath # <<>>, Plain(cwd), IsPrefix(rootPath, cwd) PROVE Whole(path) = cwd
    <3>1. cwd \in Seq(STRING) BY <2>1, NodeType
    <3>2. GetCwd = cwd BY <2>2, <3>1, PlainIsPrinted
    <3>3. cwd \in Seq(EntryNames)
      <4>1. STRING \subseteq EntryNames BY DEF EntryNames
      <4>. QED BY <3>1, <4>1, SeqMonotonic
    <3>4. path.abs = TRUE /\ rootPath \o path.names = cwd
      BY <1>0, <2>2, <3>2, <3>3, ConvertedBack
    <3>. QED BY <3>4 DEF Whole
  <2>. HIDE DEF path
  <2>3. ASSUME NEW t \in told', rootPath' # <<>>, Plain(cwd)', IsPrefix(rootPath, t.of)
        PROVE  Whole(t.path)' = t.of
    <3>1. t.path = path /\ t.of = cwd BY <2>1
    <3>2. Plain(cwd) BY <2>1, <2>3 DEF Plain
    <3>3. Whole(t.path) = t.of BY <2>1, <2>2, <2>3, <3>1, <3>2
    <3>. QED BY <2>1, <3>3 DEF Whole, GetCwd
  <2>. QED BY <2>1, <2>3 DEF ToldIsMeant
<1>3. CASE CommandWithPath BY <1>3, <1>a DEF CommandWithPath
<1>4. CASE CommandLacksPath BY <1>4, <1>a DEF CommandLacksPath
<1>5. CASE ListCwd BY <1>5, <1>a DEF ListCwd
<1>6. CASE ResolvePath BY <1>6, <1>b DEF ResolvePath
<1>7. CASE SetCwdResolve BY <1>7, <1>b DEF SetCwdResolve
<1>8. CASE StatPath BY <1>8, <1>b DEF StatPath
<1>9. CASE SizeOfPath BY <1>9, <1>b DEF SizeOfPath, Begin
<1>10. CASE CheckPath
  <2>1. told' = {} BY <1>0, <1>10 DEF CheckPath, HandlerOfPlace
  <2>. QED BY <1>a, <2>1
<1>11. CASE ListPath
  <2>1. /\ pc = "list" /\ UNCHANGED <<cwd, rootPath>> /\ command = "NLST"
        /\ cwd \in Nodes
        /\ IF arg = <<>> THEN realPath = GetCwd ELSE realPath \in Nodes /\ NotAbove(realPath)
    BY <1>0, <1>11 DEF ListPath, HandlerOfPlace, HasRealPath, InSession, TypeOK, CommandsAt
  <2>2. ASSUME NEW name \in EntryNames, rootPath # <<>>, Plain(cwd),
               IsPrefix(rootPath, Append(realPath, name))
        PROVE  Whole(Line(realPath, name)) = Append(realPath, name)
    <3>1. CASE arg = <<>>
      <4>1. cwd \in Seq(STRING) BY <2>1, NodeType
      <4>2. realPath = cwd /\ GetCwd = cwd BY <2>1, <2>2, <3>1, <4>1, PlainIsPrinted
      <4>3. Append(cwd, name) = cwd \o <<name>> BY <4>1, EntryOfDirectory
      <4>4. Line(realPath, name) = [abs |-> FALSE, names |-> <<name>>] BY <3>1 DEF Line
      <4>. QED BY <4>2, <4>3, <4>4 DEF Whole
    <3>2. CASE arg # <<>>
      <4>1. realPath \in Nodes /\ realPath # <<>>
        <5>1. realPath \in Nodes /\ Len(realPath) >= Len(rootPath) BY <2>1, <2>2, <3>2 DEF NotAbove
        <5>2. Len(rootPath) >= 1 BY <1>0, <2>2, NodeType, EmptySeq
        <5>3. Len(<<>>) = 0 OBVIOUS
        <5>. QED BY <5>1, <5>2, <5>3
      <4>2. Line(realPath, name) = RealPathToServerPath(Append(realPath, name))
        BY <3>2, <4>1 DEF Line
      <4>3. Append(realPath, name) \in Seq(EntryNames) BY <4>1, NodeType, EntryOfDirectory
      <4>4. /\ Line(realPath, name).abs = TRUE
            /\ rootPath \o Line(realPath, name).names = Append(realPath, name)
        BY <1>0, <2>2, <4>2, <4>3, ConvertedBack
      <4>. QED BY <4>4 DEF Whole
    <3>. QED BY <3>1, <3>2
  <2>3. CASE told' = told BY <1>b, <2>1, <2>3
  <2>4. CASE told' # told
    <3>. DEFINE d == Resolve(realPath)
    <3>1. told' = {[path |-> Line(realPath, name), of |-> Append(realPath, name)] : name \in Entries(d)}
      BY <1>11, <2>4 DEF ListPath
    <3>2. Entries(d) \subseteq EntryNames
      <4>1. ASSUME NEW p \in Nodes, p # <<>> PROVE p[Len(p)] \in EntryNames
        <5>1. p \in Seq(STRING) /\ Len(p) \in Nat BY NodeType
        <5>2. Len(p) \in 1 .. Len(p) BY <4>1, <5>1, EmptySeq
        <5>. QED BY <5>1, <5>2, ElementOfSeq DEF EntryNames
      <4>. QED BY <4>1 DEF Entries, EntryNames
    <3>. HIDE DEF d
    <3>3. ASSUME NEW t \in told', rootPath' # <<>>, Plain(cwd)', IsPrefix(rootPath, t.of)
          PROVE  Whole(t.path)' = t.of
      <4>1. PICK name \in EntryNames :
              t = [path |-> Line(realPath, name), of |-> Append(realPath, name)]
        BY <3>1, <3>2
      <4>2. t.path = Line(realPath, name) /\ t.of = Append(realPath, name) BY <4>1
      <4>3. Plain(cwd) BY <2>1, <3>3 DEF Plain
      <4>4. Whole(t.path) = t.of BY <2>1, <2>2, <3>3, <4>2, <4>3
      <4>. QED BY <2>1, <4>4 DEF Whole, GetCwd
    <3>. QED BY <2>1, <3>3 DEF ToldIsMeant
  <2>. QED BY <2>3, <2>4
<1>12. CASE FileSystemChanges BY <1>12, <1>b DEF FileSystemChanges
<1>13. CASE UNCHANGED vars BY <1>13, <1>b DEF vars
<1>. QED BY <1>1, <1>2, <1>3, <1>4, <1>5, <1>6, <1>7, <1>8, <1>9, <1>10, <1>11, <1>12, <1>13
         DEF Next, Server

(***************************************************************************)
(* The theorems.                                                           *)
(***************************************************************************)
\* The inductive invariant: at each call of a handler what the variables hold,
\* what is still known of the path, and what the paths that were told stand for.
THEOREM Invariant == Spec => []PathsInv
<1>1. PathsInv /\ [Next]_vars => PathsInv'
  BY StepType, StepHandler, StepMeant, StepTold DEF PathsInv
<1>. QED BY InitPaths, <1>1, PTL DEF Spec

\* Every variable keeps a value of its type: what realpath() returns is a path
\* there may be something at, wherever links lead.
THEOREM TypeCorrect == Spec => []TypeOK
<1>1. PathsInv => TypeOK BY DEF PathsInv
<1>. QED BY Invariant, <1>1, PTL

\* A command that succeeds while nothing changes has acted on what its argument
\* leads to, inside the root or not, though CWD resolves its path twice.
THEOREM MeansWhatWasAsked == Spec => []ResultIsMeant
<1>1. PathsInv => ResultIsMeant BY DEF PathsInv
<1>. QED BY Invariant, <1>1, PTL

\* What PWD and NLST tell is converted back to what it stands for.
THEOREM LeadsBack == Spec => []ToldLeadsBack
<1>1. PathsInv => ToldLeadsBack
  <2>. SUFFICES ASSUME ToldIsMeant, rootPath # <<>>, Plain(cwd), NEW t \in told,
                       IsPrefix(rootPath, t.of), Fits(Whole(t.path)), Fits(Resolve(t.of))
                PROVE  RealPathsOf(t.path) = {Resolve(t.of)}
    BY DEF PathsInv, ToldLeadsBack
  <2>1. Whole(t.path) = t.of BY DEF ToldIsMeant
  <2>2. RealPathsOf(t.path) = {GetRealPath(t.of)} BY <2>1 DEF RealPathsOf
  <2>. QED BY <2>2 DEF GetRealPath
<1>. QED BY Invariant, <1>1, PTL
=============================================================================
