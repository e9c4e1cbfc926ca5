---------------------------- MODULE Fold_theorems ----------------------------
(***************************************************************************)
(* What the proofs about PortNumber and Paths need of folds.  FoldLeft and *)
(* FoldRight are defined by a function that is recursive over the sets of  *)
(* places of a sequence; that there is such a function, and what it is,    *)
(* takes an induction.  The induction theorems of the library are about a  *)
(* predicate; the ones here are about a set, so that they can be cited.    *)
(***************************************************************************)
EXTENDS Integers, SequencesExt, FiniteSetTheorems, SequenceTheorems,
        WellFoundedInduction, TLAPS

\* A set that has 0 and with every number the next has every natural number.
LEMMA SetInduction ==
  ASSUME NEW T, 0 \in T, \A n \in Nat : n \in T => n + 1 \in T
  PROVE  \A n \in Nat : n \in T
<1>. DEFINE Less == OpToRel(<, Nat)
            Rest == Nat \ T
<1>1. SUFFICES ASSUME Rest # {} PROVE FALSE
  OBVIOUS
<1>2. IsWellFoundedOn(Less, Nat) BY NatLessThanWellFounded
<1>3. \A x, y \in Nat : x < y => <<x, y>> \in Less BY DEF OpToRel
<1>. HIDE DEF Less
<1>4. PICK x \in Rest : \A y \in Rest : ~ (<<y, x>> \in Less)
  <2>1. Rest \subseteq Nat OBVIOUS
  <2>. HIDE DEF Rest
  <2>. QED BY <1>1, <1>2, <2>1, WFMin
<1>5. x # 0 /\ x \in Nat /\ x - 1 \in Nat /\ x - 1 < x OBVIOUS
<1>6. x - 1 \in T BY <1>3, <1>4, <1>5
<1>7. (x - 1) + 1 = x BY <1>5
<1>. QED BY <1>5, <1>6, <1>7

\* A function that is recursive over the subsets of S, as the one in
\* MapThenFoldSet: pick takes an element of a subset, and step makes the value
\* for the subset from it and from the value for what is left.
Picks(pick, S) == \A s \in SUBSET S : s # {} => pick[s] \in s

Folds(g, S, base, pick, step) ==
  \A s \in SUBSET S : g[s] = IF s = {} THEN base ELSE step[pick[s]][g[s \ {pick[s]}]]

LEMMA FoldExists ==
  ASSUME NEW S, IsFiniteSet(S), NEW B, NEW base \in B, NEW pick, Picks(pick, S),
         NEW step \in [S -> [B -> B]]
  PROVE  \E g \in [SUBSET S -> B] : Folds(g, S, base, pick, step)
<1>. DEFINE Small(k) == {s \in SUBSET S : Cardinality(s) <= k}
            FoldsIn(g, U) == \A s \in U :
              g[s] = IF s = {} THEN base ELSE step[pick[s]][g[s \ {pick[s]}]]
            Enough == {k \in Nat : \E g \in [Small(k) -> B] : FoldsIn(g, Small(k))}
<1>. USE DEF Picks
<1>1. \A s \in SUBSET S : Cardinality(s) \in Nat /\ (Cardinality(s) = 0 <=> s = {})
  BY FS_Subset, FS_CardinalityType, FS_EmptySet
<1>2. \A s \in SUBSET S : s # {} =>
        s \ {pick[s]} \in SUBSET S /\ Cardinality(s \ {pick[s]}) = Cardinality(s) - 1
  BY FS_Subset, FS_RemoveElement
<1>3. 0 \in Enough
  <2>. DEFINE g == [s \in Small(0) |-> base]
  <2>1. \A s \in Small(0) : s = {} BY <1>1
  <2>2. g \in [Small(0) -> B] /\ FoldsIn(g, Small(0)) BY <2>1
  <2>. QED BY <2>2
<1>4. ASSUME NEW k \in Nat, k \in Enough PROVE k + 1 \in Enough
  <2>1. PICK g \in [Small(k) -> B] : FoldsIn(g, Small(k)) BY <1>4
  <2>. DEFINE h == [s \in Small(k + 1) |->
                      IF Cardinality(s) <= k THEN g[s] ELSE step[pick[s]][g[s \ {pick[s]}]]]
  <2>2. \A s \in Small(k) : h[s] = g[s] BY <1>1
  <2>3. \A s \in Small(k + 1) : s # {} => s \ {pick[s]} \in Small(k) BY <1>1, <1>2
  <2>4. h \in [Small(k + 1) -> B]
    <3>1. ASSUME NEW s \in Small(k + 1), ~ (Cardinality(s) <= k)
          PROVE  step[pick[s]][g[s \ {pick[s]}]] \in B
      <4>1. s # {} BY <1>1, <3>1
      <4>2. pick[s] \in S /\ g[s \ {pick[s]}] \in B BY <2>3, <4>1
      <4>3. step[pick[s]] \in [B -> B] BY <4>2
      <4>. QED BY <4>2, <4>3
    <3>2. ASSUME NEW s \in Small(k + 1), Cardinality(s) <= k PROVE g[s] \in B
      BY <1>1, <3>2
    <3>. QED BY <3>1, <3>2
  <2>5. FoldsIn(h, Small(k + 1))
    <3>. SUFFICES ASSUME NEW s \in Small(k + 1)
                  PROVE  h[s] = IF s = {} THEN base ELSE step[pick[s]][h[s \ {pick[s]}]]
      OBVIOUS
    <3>1. s # {} => h[s \ {pick[s]}] = g[s \ {pick[s]}] BY <2>2, <2>3
    <3>2. CASE Cardinality(s) <= k
      <4>1. s \in Small(k) BY <3>2
      <4>2. h[s] = g[s] BY <2>2, <4>1
      <4>. QED BY <2>1, <3>1, <4>1, <4>2
    <3>3. CASE ~ (Cardinality(s) <= k)
      <4>1. s # {} BY <1>1, <3>3
      <4>. QED BY <3>1, <3>3, <4>1
    <3>. QED BY <3>2, <3>3
  <2>. HIDE DEF h, Small, FoldsIn
  <2>6. \E f \in [Small(k + 1) -> B] : FoldsIn(f, Small(k + 1)) BY <2>4, <2>5
  <2>. QED BY <2>6
<1>5. Cardinality(S) \in Nat BY FS_CardinalityType
<1>6. Cardinality(S) \in Enough
  <2>. HIDE DEF Enough
  <2>. QED BY <1>3, <1>4, <1>5, SetInduction
<1>7. Small(Cardinality(S)) = SUBSET S BY FS_Subset
<1>. QED BY <1>6, <1>7 DEF Folds

\* The places of a sequence have a first and a last, and so has every subset.
LEMMA PlacesHaveEnds ==
  ASSUME NEW n \in Nat, NEW s \in SUBSET (1 .. n), s # {}
  PROVE  Min(s) \in s /\ Max(s) \in s
<1>. DEFINE Ends(t) == /\ \E x \in t : \A y \in t : x <= y
                       /\ \E x \in t : \A y \in t : x >= y
            Good == {k \in Nat : \A t \in SUBSET (1 .. k) : t # {} => Ends(t)}
<1>1. 0 \in Good
  <2>1. \A t \in SUBSET (1 .. 0) : t = {} OBVIOUS
  <2>. HIDE DEF Ends
  <2>. QED BY <2>1
<1>2. ASSUME NEW k \in Nat, k \in Good PROVE k + 1 \in Good
  <2>. SUFFICES ASSUME NEW t \in SUBSET (1 .. k + 1), t # {} PROVE Ends(t)
    OBVIOUS
  <2>1. CASE k + 1 \notin t
    <3>1. t \in SUBSET (1 .. k) BY <2>1
    <3>. QED BY <1>2, <3>1
  <2>2. CASE t = {k + 1} BY <2>2
  <2>3. CASE k + 1 \in t /\ t # {k + 1}
    <3>1. t \ {k + 1} \in SUBSET (1 .. k) /\ t \ {k + 1} # {} BY <2>3
    <3>2. PICK x \in t \ {k + 1} : \A y \in t \ {k + 1} : x <= y BY <1>2, <3>1
    <3>3. x <= k + 1 /\ \A y \in t : x <= y BY <3>2
    <3>4. \A y \in t : k + 1 >= y OBVIOUS
    <3>. QED BY <2>3, <3>2, <3>3, <3>4
  <2>. QED BY <2>1, <2>2, <2>3
<1>3. n \in Good
  <2>. HIDE DEF Good
  <2>. QED BY <1>1, <1>2, SetInduction
<1>4. Ends(s) BY <1>3
<1>. QED BY <1>4 DEF Min, Max

LEMMA EndsOfInterval ==
  ASSUME NEW a \in Int, NEW b \in Int, a <= b
  PROVE  /\ Min(a .. b) = a /\ (a .. b) \ {a} = (a + 1) .. b
         /\ Max(a .. b) = b /\ (a .. b) \ {b} = a .. (b - 1)
<1>1. Min(a .. b) = a
  <2>1. a \in a .. b /\ \A y \in a .. b : a <= y OBVIOUS
  <2>2. \A x \in a .. b : (\A y \in a .. b : x <= y) => x = a BY <2>1
  <2>. QED BY <2>1, <2>2 DEF Min
<1>2. Max(a .. b) = b
  <2>1. b \in a .. b /\ \A y \in a .. b : b >= y OBVIOUS
  <2>2. \A x \in a .. b : (\A y \in a .. b : x >= y) => x = b BY <2>1
  <2>. QED BY <2>1, <2>2 DEF Max
<1>. QED BY <1>1, <1>2
=============================================================================
