-------------------------- MODULE PortNumber_proofs --------------------------
(***************************************************************************)
(* Theorems about the port argument: what IsDecimal and ParseDecimal make  *)
(* of every string of characters.                                          *)
(***************************************************************************)
EXTENDS PortNumber, Fold_theorems

(***************************************************************************)
(* The two folds as what they compute at each place of the string.         *)
(***************************************************************************)
LEMMA ValueByPlace ==
  ASSUME NEW s \in Seq(0 .. 9)
  PROVE  \E v \in [0 .. Len(s) -> Nat] :
           /\ v[0] = 0 /\ Value(s) = v[Len(s)]
           /\ \A i \in 1 .. Len(s) : v[i] = 10 * v[i - 1] + s[i]
<1>. DEFINE n == Len(s)
            pick == [t \in SUBSET (1 .. n) |-> Max(t)]
            step == [i \in 1 .. n |-> [acc \in Nat |-> 10 * acc + s[i]]]
            Solves(g) == g = [t \in SUBSET (1 .. n) |->
                               IF t = {} THEN 0 ELSE 10 * g[t \ {Max(t)}] + s[Max(t)]]
            iter == CHOOSE g : Solves(g)
<1>1. n \in Nat /\ DOMAIN s = 1 .. n /\ \A i \in 1 .. n : s[i] \in 0 .. 9
  BY LenProperties
<1>2. \E g : Solves(g)
  <2>. DEFINE places == 1 .. n
              naturals == Nat
              base == 0
  <2>1. IsFiniteSet(places) /\ base \in naturals BY <1>1, FS_Interval
  <2>2. Picks(pick, places) BY <1>1, PlacesHaveEnds DEF Picks
  <2>3. step \in [places -> [naturals -> naturals]] BY <1>1
  <2>. HIDE DEF pick, step, places, naturals, base
  <2>4. PICK g \in [SUBSET places -> naturals] : Folds(g, places, base, pick, step)
    BY <2>1, <2>2, <2>3, FoldExists
  <2>. USE DEF places, naturals, base
  <2>5. ASSUME NEW t \in SUBSET (1 .. n), t # {}
        PROVE  g[t] = 10 * g[t \ {Max(t)}] + s[Max(t)]
    <3>1. pick[t] = Max(t) /\ Max(t) \in 1 .. n BY <2>2, <2>5 DEF pick, Picks
    <3>2. g[t \ {Max(t)}] \in Nat OBVIOUS
    <3>. QED BY <2>4, <2>5, <3>1, <3>2 DEF step, Folds
  <2>6. g = [t \in SUBSET (1 .. n) |->
               IF t = {} THEN 0 ELSE 10 * g[t \ {Max(t)}] + s[Max(t)]]
    BY <2>4, <2>5 DEF Folds
  <2>. QED BY <2>6
<1>3. Solves(iter) BY <1>2
<1>4. Value(s) = iter[1 .. n]
  BY <1>1 DEF Value, FoldLeft, MapThenFoldSet
<1>. DEFINE v == [k \in 0 .. n |-> iter[1 .. k]]
<1>5. iter[{}] = 0 BY <1>3
<1>6. ASSUME NEW i \in 1 .. n PROVE iter[1 .. i] = 10 * iter[1 .. i - 1] + s[i]
  <2>1. 1 .. i \in SUBSET (1 .. n) /\ 1 .. i # {}
    <3>1. \A x \in 1 .. i : x \in 1 .. n BY <1>1
    <3>2. i \in 1 .. i BY <1>1
    <3>. QED BY <3>1, <3>2
  <2>2. Max(1 .. i) = i /\ (1 .. i) \ {i} = 1 .. i - 1 BY <1>1, EndsOfInterval
  <2>3. iter[1 .. i] = 10 * iter[(1 .. i) \ {Max(1 .. i)}] + s[Max(1 .. i)] BY <1>3, <2>1
  <2>. QED BY <2>2, <2>3
<1>. HIDE DEF iter
<1>7. v[0] = 0 /\ v[n] = Value(s)
  <2>1. 1 .. 0 = {} /\ 0 \in 0 .. n /\ n \in 0 .. n BY <1>1
  <2>. QED BY <1>4, <1>5, <2>1
<1>8. \A i \in 1 .. n : v[i] = 10 * v[i - 1] + s[i]
  <2>1. \A i \in 1 .. n : i \in 0 .. n /\ i - 1 \in 0 .. n BY <1>1
  <2>. QED BY <1>6, <2>1
<1>9. v \in [0 .. n -> Nat]
  <2>. DEFINE Known == {k \in Nat : k <= n => v[k] \in Nat}
  <2>1. 0 \in Known BY <1>7
  <2>2. ASSUME NEW k \in Nat, k \in Known PROVE k + 1 \in Known
    <3>. HIDE DEF v
    <3>. SUFFICES ASSUME k + 1 <= n PROVE v[k + 1] \in Nat
      OBVIOUS
    <3>1. k + 1 \in 1 .. n /\ (k + 1) - 1 = k BY <1>1
    <3>2. v[k] \in Nat /\ s[k + 1] \in 0 .. 9 BY <1>1, <2>2, <3>1
    <3>3. v[k + 1] = 10 * v[k] + s[k + 1] BY <1>8, <3>1
    <3>4. s[k + 1] \in Nat BY <3>2
    <3>5. 10 * v[k] + s[k + 1] \in Nat BY <3>2, <3>4
    <3>. QED BY <3>3, <3>5
  <2>3. \A k \in Nat : k \in Known
    <3>. HIDE DEF Known
    <3>1. \A k \in Nat : k \in Known => k + 1 \in Known BY <2>2
    <3>. QED BY <2>1, <3>1, SetInduction
  <2>4. \A k \in 0 .. n : v[k] \in Nat
    <3>. HIDE DEF v
    <3>. QED BY <1>1, <2>3
  <2>. QED BY <2>4
<1>. HIDE DEF v
<1>10. WITNESS v \in [0 .. Len(s) -> Nat]
<1>. QED BY <1>7, <1>8

\* What ParseDecimal has when it has come from the last place to the i-th.
Parsed == [number : Nat, val : Nat]

Digit(c, acc) == [number |-> (acc.number + c * acc.val) % Width,
                  val    |-> (acc.val * 10) % Width]

LEMMA ParsedByPlace ==
  ASSUME NEW s \in Seq(0 .. 9)
  PROVE  \E a \in [1 .. Len(s) + 1 -> Parsed] :
           /\ a[Len(s) + 1] = [number |-> 0, val |-> 1]
           /\ ParseDecimal(s) = a[1].number
           /\ \A i \in 1 .. Len(s) : a[i] = Digit(s[i], a[i + 1])
<1>. DEFINE n == Len(s)
            places == 1 .. n
            base == [number |-> 0, val |-> 1]
            pick == [t \in SUBSET places |-> Min(t)]
            step == [i \in places |-> [acc \in Parsed |-> Digit(s[i], acc)]]
            Solves(g) == g = [t \in SUBSET places |->
                                IF t = {} THEN base ELSE Digit(s[Min(t)], g[t \ {Min(t)}])]
            iter == CHOOSE g : Solves(g)
<1>1. n \in Nat /\ DOMAIN s = 1 .. n /\ \A i \in 1 .. n : s[i] \in 0 .. 9
  BY LenProperties
<1>2. ASSUME NEW c \in 0 .. 9, NEW acc \in Parsed PROVE Digit(c, acc) \in Parsed
  <2>1. Width = 65536 BY DEF Width
  <2>2. acc.number \in Nat /\ acc.val \in Nat BY DEF Parsed
  <2>3. acc.number + c * acc.val \in Nat /\ acc.val * 10 \in Nat BY <2>2
  <2>4. \A y \in Nat : y % 65536 \in Nat OBVIOUS
  <2>5. (acc.number + c * acc.val) % 65536 \in Nat /\ (acc.val * 10) % 65536 \in Nat
    BY <2>3, <2>4
  <2>. QED BY <2>1, <2>5 DEF Parsed, Digit
<1>3. \E g : Solves(g)
  <2>1. IsFiniteSet(places) BY <1>1, FS_Interval
  <2>2. base \in Parsed BY DEF Parsed
  <2>3. Picks(pick, places) BY <1>1, PlacesHaveEnds DEF Picks
  <2>4. step \in [places -> [Parsed -> Parsed]] BY <1>1, <1>2
  <2>. HIDE DEF pick, step, places, base
  <2>5. PICK g \in [SUBSET places -> Parsed] : Folds(g, places, base, pick, step)
    BY <2>1, <2>2, <2>3, <2>4, FoldExists
  <2>6. ASSUME NEW t \in SUBSET places, t # {}
        PROVE  g[t] = Digit(s[Min(t)], g[t \ {Min(t)}])
    <3>1. pick[t] = Min(t) /\ Min(t) \in places BY <2>3, <2>6 DEF pick, Picks
    <3>2. g[t \ {Min(t)}] \in Parsed OBVIOUS
    <3>. QED BY <2>5, <2>6, <3>1, <3>2 DEF step, Folds
  <2>7. g = [t \in SUBSET places |->
               IF t = {} THEN base ELSE Digit(s[Min(t)], g[t \ {Min(t)}])]
    BY <2>5, <2>6 DEF Folds
  <2>. QED BY <2>7
<1>4. Solves(iter) BY <1>3
<1>5. ParseDecimal(s) = iter[places].number
  BY <1>1 DEF ParseDecimal, FoldRight, MapThenFoldSet, Digit
<1>. HIDE DEF iter, base
<1>. DEFINE a == [k \in 1 .. n + 1 |-> iter[k .. n]]
<1>6. iter[{}] = base BY <1>4
<1>7. ASSUME NEW i \in 1 .. n PROVE iter[i .. n] = Digit(s[i], iter[i + 1 .. n])
  <2>1. i .. n \in SUBSET places /\ i .. n # {}
    <3>1. \A x \in i .. n : x \in 1 .. n BY <1>1
    <3>2. i \in i .. n BY <1>1
    <3>. QED BY <3>1, <3>2
  <2>2. Min(i .. n) = i /\ (i .. n) \ {i} = i + 1 .. n BY <1>1, EndsOfInterval
  <2>3. iter[i .. n] = Digit(s[Min(i .. n)], iter[(i .. n) \ {Min(i .. n)}]) BY <1>4, <2>1
  <2>. QED BY <2>2, <2>3
<1>8. a[n + 1] = base /\ a[1] = iter[places]
  <2>1. n + 1 .. n = {} /\ 1 \in 1 .. n + 1 /\ n + 1 \in 1 .. n + 1 BY <1>1
  <2>. QED BY <1>6, <2>1
<1>9. \A i \in 1 .. n : a[i] = Digit(s[i], a[i + 1])
  <2>1. \A i \in 1 .. n : i \in 1 .. n + 1 /\ i + 1 \in 1 .. n + 1 BY <1>1
  <2>. QED BY <1>7, <2>1
<1>10. a \in [1 .. n + 1 -> Parsed]
  <2>. DEFINE Known == {k \in Nat : k <= n => a[n + 1 - k] \in Parsed}
  <2>1. 0 \in Known
    <3>1. base \in Parsed BY DEF base, Parsed
    <3>2. n + 1 - 0 = n + 1 BY <1>1
    <3>. HIDE DEF a
    <3>. QED BY <1>8, <3>1, <3>2
  <2>2. ASSUME NEW k \in Nat, k \in Known PROVE k + 1 \in Known
    <3>. HIDE DEF a
    <3>. SUFFICES ASSUME k + 1 <= n PROVE a[n + 1 - (k + 1)] \in Parsed
      OBVIOUS
    <3>1. n - k \in 1 .. n /\ n + 1 - (k + 1) = n - k /\ (n - k) + 1 = n + 1 - k
      <4>. HIDE DEF Known, n
      <4>. QED BY <1>1
    <3>2. a[n + 1 - k] \in Parsed /\ s[n - k] \in 0 .. 9 BY <1>1, <2>2, <3>1
    <3>3. a[n - k] = Digit(s[n - k], a[n + 1 - k]) BY <1>9, <3>1
    <3>. QED BY <1>2, <3>1, <3>2, <3>3
  <2>3. \A k \in Nat : k \in Known
    <3>. HIDE DEF Known
    <3>1. \A k \in Nat : k \in Known => k + 1 \in Known BY <2>2
    <3>. QED BY <2>1, <3>1, SetInduction
  <2>4. ASSUME NEW i \in 1 .. n + 1 PROVE a[i] \in Parsed
    <3>. HIDE DEF a
    <3>1. n + 1 - i \in Nat /\ n + 1 - i <= n /\ n + 1 - (n + 1 - i) = i BY <1>1
    <3>2. n + 1 - i \in Known BY <2>3, <3>1
    <3>. QED BY <3>1, <3>2
  <2>. QED BY <2>4
<1>. HIDE DEF a
<1>11. WITNESS a \in [1 .. Len(s) + 1 -> Parsed]
<1>. QED BY <1>5, <1>8, <1>9 DEF base

LEMMA SmallRemainder == \A y \in Nat : y < 65536 => y % 65536 = y
OBVIOUS

(***************************************************************************)
(* A number of at most five digits.                                        *)
(***************************************************************************)
\* One step of ParseDecimal: before the fifth digit nothing wraps.
LEMMA DigitStep ==
  ASSUME NEW c \in 0 .. 9, NEW acc \in Parsed,
         acc.val \in {1, 10, 100, 1000}, acc.number < acc.val
  PROVE  Digit(c, acc).number = acc.number + acc.val * c /\ Digit(c, acc).val = 10 * acc.val
<1>. DEFINE x == acc.number
            m == acc.val
<1>1. x \in Nat BY DEF Parsed
<1>2. \A y \in Nat : y < 65536 => y % 65536 = y BY SmallRemainder
<1>3. /\ Digit(c, acc).number = (x + c * m) % 65536
      /\ Digit(c, acc).val = (m * 10) % 65536
  BY DEF Digit, Width
<1>4. x < m /\ m \in {1, 10, 100, 1000} OBVIOUS
<1>. HIDE DEF x, m
<1>5. x + c * m \in Nat /\ x + c * m < 65536 /\ c * m = m * c
  <2>1. CASE m = 1 BY <1>1, <1>4, <2>1
  <2>2. CASE m = 10 BY <1>1, <1>4, <2>2
  <2>3. CASE m = 100 BY <1>1, <1>4, <2>3
  <2>4. CASE m = 1000 BY <1>1, <1>4, <2>4
  <2>. QED BY <1>4, <2>1, <2>2, <2>3, <2>4
<1>6. m * 10 \in Nat /\ m * 10 < 65536 /\ m * 10 = 10 * m BY <1>4
<1>. QED BY <1>2, <1>3, <1>5, <1>6 DEF x, m

\* The sum of five digits, each with its power of ten.
FiveDigits(s) == 10000 * s[1] + 1000 * s[2] + 100 * s[3] + 10 * s[4] + s[5]

\* Up to five digits ParseDecimal computes the number that the string stands
\* for, modulo the width of the port; the number is the sum of the digits, each
\* with its power of ten.
LEMMA UpToFiveDigits ==
  ASSUME NEW s \in Seq(0 .. 9), Len(s) \in 1 .. 5
  PROVE  /\ Value(s) \in Nat /\ ParseDecimal(s) = Value(s) % 65536
         /\ Len(s) < 5 => Value(s) < 10000
         /\ Len(s) = 5 => Value(s) = FiveDigits(s)
<1>. DEFINE n == Len(s)
<1>1. n \in 1 .. 5 /\ \A i \in 1 .. n : s[i] \in 0 .. 9 BY LenProperties
<1>2. PICK v \in [0 .. n -> Nat] : /\ v[0] = 0 /\ Value(s) = v[n]
                                   /\ \A i \in 1 .. n : v[i] = 10 * v[i - 1] + s[i]
  BY ValueByPlace
<1>3. PICK a \in [1 .. n + 1 -> Parsed] : /\ a[n + 1] = [number |-> 0, val |-> 1]
                                          /\ ParseDecimal(s) = a[1].number
                                          /\ \A i \in 1 .. n : a[i] = Digit(s[i], a[i + 1])
  BY ParsedByPlace
<1>. HIDE DEF n
\* After k digits ParseDecimal has their number t and the power m of ten, and t
\* is what m leaves of the number of the whole string.
<1>. DEFINE Come(k, m, t) == /\ t \in Nat /\ t < m /\ v[n] = m * v[n - k] + t
                             /\ a[n + 1 - k].number = t /\ a[n + 1 - k].val = m
<1>4. ASSUME NEW k \in 0 .. 3, NEW m \in {1, 10, 100, 1000}, NEW t, k < n, Come(k, m, t)
      PROVE  Come(k + 1, 10 * m, t + m * s[n - k])
  <2>. DEFINE c == s[n - k]
              acc == a[n + 1 - k]
              p == v[n - k]
              q == v[n - (k + 1)]
              next == a[n + 1 - (k + 1)]
  <2>1. /\ n - k \in 1 .. n /\ (n - k) - 1 = n - (k + 1) /\ (n - k) + 1 = n + 1 - k
        /\ n + 1 - (k + 1) = n - k /\ n + 1 - k \in 1 .. n + 1
        /\ n - (k + 1) \in 0 .. n /\ n - k \in 0 .. n
    <3>. HIDE DEF Come
    <3>. QED BY <1>1, <1>4
  <2>2. c \in 0 .. 9 /\ p \in Nat /\ q \in Nat /\ acc \in Parsed BY <1>1, <2>1
  <2>3. p = 10 * q + c BY <1>2, <2>1
  <2>4. next = Digit(c, acc) BY <1>3, <2>1
  <2>5. t \in Nat /\ t < m /\ v[n] = m * p + t /\ acc.number = t /\ acc.val = m BY <1>4
  <2>. HIDE DEF c, acc, p, q, next
  <2>6. next.number = t + m * c /\ next.val = 10 * m
    <3>1. c \in 0 .. 9 /\ acc \in Parsed BY <2>2
    <3>2. acc.val \in {1, 10, 100, 1000} /\ acc.number < acc.val BY <2>5
    <3>3. Digit(c, acc).number = acc.number + acc.val * c /\ Digit(c, acc).val = 10 * acc.val
      BY <3>1, <3>2, DigitStep
    <3>. QED BY <2>4, <2>5, <3>3
  <2>7. t + m * c \in Nat /\ t + m * c < 10 * m /\ v[n] = (10 * m) * q + (t + m * c)
    <3>1. /\ t + m * c \in Nat /\ t + m * c < 10 * m
          /\ m * (10 * q + c) + t = (10 * m) * q + (t + m * c)
      <4>1. t \in Nat /\ t < m BY <2>5
      <4>2. c \in 0 .. 9 /\ q \in Nat BY <2>2
      <4>3. CASE m = 1 BY <4>1, <4>2, <4>3
      <4>4. CASE m = 10 BY <4>1, <4>2, <4>4
      <4>5. CASE m = 100 BY <4>1, <4>2, <4>5
      <4>6. CASE m = 1000 BY <4>1, <4>2, <4>6
      <4>. QED BY <4>3, <4>4, <4>5, <4>6
    <3>2. v[n] = m * (10 * q + c) + t BY <2>3, <2>5
    <3>. QED BY <3>1, <3>2
  <2>. QED BY <2>6, <2>7 DEF c, q, next
<1>. DEFINE one == 0 + 1 * s[n - 0]
            two == one + 10 * s[n - 1]
            three == two + 100 * s[n - 2]
            four == three + 1000 * s[n - 3]
<1>5. Come(0, 1, 0)
  <2>1. n - 0 = n /\ n + 1 - 0 = n + 1 BY <1>1
  <2>2. v[n] \in Nat BY <1>1
  <2>. QED BY <1>3, <2>1, <2>2
<1>. HIDE DEF Come
<1>6. Come(1, 10, one)
  <2>1. Come(0 + 1, 10 * 1, 0 + 1 * s[n - 0]) BY <1>1, <1>4, <1>5
  <2>. QED BY <2>1
<1>. HIDE DEF one
<1>7. n >= 2 => Come(2, 100, two)
  <2>1. n >= 2 => Come(1 + 1, 10 * 10, one + 10 * s[n - 1]) BY <1>1, <1>4, <1>6
  <2>. QED BY <2>1
<1>. HIDE DEF two
<1>8. n >= 3 => Come(3, 1000, three)
  <2>1. n >= 3 => Come(2 + 1, 10 * 100, two + 100 * s[n - 2]) BY <1>1, <1>4, <1>7
  <2>. QED BY <2>1
<1>. HIDE DEF three
<1>9. n >= 4 => Come(4, 10000, four)
  <2>1. n >= 4 => Come(3 + 1, 10 * 1000, three + 1000 * s[n - 3]) BY <1>1, <1>4, <1>8
  <2>. QED BY <2>1
<1>. HIDE DEF four
\* Fewer than five digits: all of them are done, and nothing has wrapped.
<1>10. ASSUME NEW m \in {10, 100, 1000, 10000}, NEW t, Come(n, m, t)
       PROVE  Value(s) \in Nat /\ ParseDecimal(s) = Value(s) % 65536 /\ Value(s) < 10000
  <2>1. n - n = 0 /\ n + 1 - n = 1 BY <1>1
  <2>2. t \in Nat /\ t < m /\ v[n] = m * v[0] + t /\ a[1].number = t
    BY <1>10, <2>1 DEF Come
  <2>3. t < 10000 /\ v[n] = t
    <3>1. m * v[0] = 0 BY <1>2
    <3>2. t < 10000 BY <2>2
    <3>. QED BY <2>2, <3>1, <3>2
  <2>4. t \in Nat /\ t < 65536 BY <2>2, <2>3
  <2>5. t % 65536 = t BY <2>4, SmallRemainder
  <2>. QED BY <1>2, <1>3, <2>2, <2>3, <2>5
<1>11. CASE n < 5
  <2>1. n \in {1, 2, 3, 4} BY <1>1, <1>11
  <2>2. PICK m \in {10, 100, 1000, 10000} : \E t : Come(n, m, t)
    BY <2>1, <1>6, <1>7, <1>8, <1>9
  <2>3. PICK t : Come(n, m, t)
    BY <2>2
  <2>4. Value(s) \in Nat /\ ParseDecimal(s) = Value(s) % 65536 /\ Value(s) < 10000
    BY <1>10, <2>3
  <2>. QED BY <1>11, <2>4 DEF n
<1>12. CASE n = 5
  <2>1. /\ four \in Nat /\ four < 10000 /\ v[5] = 10000 * v[1] + four
        /\ a[2].number = four /\ a[2].val = 10000
    <3>1. n >= 4 /\ n - 4 = 1 /\ n + 1 - 4 = 2 BY <1>12
    <3>2. Come(4, 10000, four) BY <1>9, <3>1
    <3>3. /\ four \in Nat /\ four < 10000 /\ v[n] = 10000 * v[n - 4] + four
          /\ a[n + 1 - 4].number = four /\ a[n + 1 - 4].val = 10000
      BY <3>2 DEF Come
    <3>. HIDE DEF Come
    <3>. QED BY <1>12, <3>1, <3>3
  <2>. DEFINE d1 == s[1]
              d2 == s[2]
              d3 == s[3]
              d4 == s[4]
              d5 == s[5]
  <2>2. d1 \in Nat /\ d2 \in Nat /\ d3 \in Nat /\ d4 \in Nat /\ d5 \in Nat
    <3>1. \A i \in 1 .. n : s[i] \in Nat
      <4>1. \A d \in 0 .. 9 : d \in Nat OBVIOUS
      <4>. QED BY <1>1, <4>1, Zenon
    <3>2. 1 \in 1 .. n /\ 2 \in 1 .. n /\ 3 \in 1 .. n /\ 4 \in 1 .. n /\ 5 \in 1 .. n BY <1>12
    <3>. QED BY <3>1, <3>2, Zenon
  <2>11. a[1] = Digit(d1, a[2]) /\ a[2] \in Parsed /\ v[1] = 10 * v[0] + d1
    <3>1. 1 \in 1 .. n /\ 1 + 1 = 2 /\ 1 - 1 = 0 /\ 2 \in 1 .. n + 1 BY <1>12
    <3>. QED BY <1>2, <1>3, <3>1
  <2>12. one = d5 /\ two = one + 10 * d4 /\ three = two + 100 * d3 /\ four = three + 1000 * d2
    <3>1. n - 0 = 5 /\ n - 1 = 4 /\ n - 2 = 3 /\ n - 3 = 2 BY <1>12
    <3>. QED BY <2>2, <3>1 DEF one, two, three, four
  <2>13. FiveDigits(s) = 10000 * d1 + 1000 * d2 + 100 * d3 + 10 * d4 + d5 BY DEF FiveDigits
  <2>. HIDE DEF d1, d2, d3, d4, d5
  <2>3. v[1] = d1 BY <1>2, <2>2, <2>11
  <2>5. a[1].number = (four + 10000 * d1) % 65536
    <3>1. a[2].number = four /\ a[2].val = 10000 BY <2>1
    <3>. DEFINE acc == a[2]
    <3>2. acc \in Parsed /\ acc.val = 10000 /\ acc.number = four /\ a[1] = Digit(d1, acc)
      BY <2>11, <3>1
    <3>. HIDE DEF acc
    <3>3. Digit(d1, acc).number = (acc.number + d1 * acc.val) % 65536 BY DEF Digit, Width
    <3>4. d1 * 10000 = 10000 * d1 BY <2>2
    <3>. QED BY <3>2, <3>3, <3>4
  <2>6. four = 1000 * d2 + 100 * d3 + 10 * d4 + d5 BY <2>2, <2>12
  <2>7. Value(s) = four + 10000 * d1 /\ Value(s) \in Nat
    <3>1. Value(s) = 10000 * d1 + four BY <1>2, <1>12, <2>1, <2>3
    <3>. QED BY <2>1, <2>2, <3>1
  <2>8. ParseDecimal(s) = Value(s) % 65536 BY <1>3, <2>5, <2>7
  <2>9. Value(s) = FiveDigits(s) BY <2>2, <2>6, <2>7, <2>13
  <2>10. Len(s) = 5 /\ ~ (Len(s) < 5) BY <1>12 DEF n
  <2>. QED BY <2>7, <2>8, <2>9, <2>10
<1>. QED BY <1>1, <1>11, <1>12

(***************************************************************************)
(* The comparison with the largest value, digit by digit.                  *)
(***************************************************************************)
\* Five digits that are not too large, digit by digit, are no more than 65365,
\* and five that are no more than 65365 are not too large.
LEMMA NotTooLarge ==
  ASSUME NEW s \in Seq(0 .. 9), Len(s) = 5
  PROVE  ~TooLarge(s) <=> Value(s) <= 65365
<1>. DEFINE M == DecimalStringValueMax
<1>1. M[1] = 6 /\ M[2] = 5 /\ M[3] = 3 /\ M[4] = 6 /\ M[5] = 5
  BY DEF DecimalStringValueMax
<1>. HIDE DEF M
<1>2. PICK d1, d2, d3, d4, d5 \in 0 .. 9 :
         s[1] = d1 /\ s[2] = d2 /\ s[3] = d3 /\ s[4] = d4 /\ s[5] = d5
  <2>1. \A i \in 1 .. 5 : s[i] \in 0 .. 9 BY LenProperties
  <2>2. /\ s[1] \in 0 .. 9 /\ s[2] \in 0 .. 9 /\ s[3] \in 0 .. 9
        /\ s[4] \in 0 .. 9 /\ s[5] \in 0 .. 9
    BY <2>1
  <2>. QED BY <2>2, Zenon
<1>. DEFINE Differs(i) == s[i] > M[i] /\ \A j \in 1 .. i - 1 : s[j] = M[j]
<1>3. TooLarge(s) <=> Differs(1) \/ Differs(2) \/ Differs(3) \/ Differs(4) \/ Differs(5)
  <2>1. TooLarge(s) <=> \E i \in 1 .. 5 : Differs(i) BY DEF TooLarge, M
  <2>. HIDE DEF Differs
  <2>. QED BY <2>1
<1>4. /\ Differs(1) <=> d1 > 6
      /\ Differs(2) <=> d1 = 6 /\ d2 > 5
      /\ Differs(3) <=> d1 = 6 /\ d2 = 5 /\ d3 > 3
      /\ Differs(4) <=> d1 = 6 /\ d2 = 5 /\ d3 = 3 /\ d4 > 6
      /\ Differs(5) <=> d1 = 6 /\ d2 = 5 /\ d3 = 3 /\ d4 = 6 /\ d5 > 5
  BY <1>1, <1>2
<1>5. Value(s) = 10000 * d1 + 1000 * d2 + 100 * d3 + 10 * d4 + d5
  <2>1. Value(s) = FiveDigits(s) BY UpToFiveDigits
  <2>. QED BY <1>2, <2>1 DEF FiveDigits
<1>. HIDE DEF Differs
<1>. QED BY <1>3, <1>4, <1>5

\* The variable of PortNumber is a string of characters.
StringOK == string \in Seq(0 .. 10)

LEMMA StringAlways == Spec => []StringOK
<1>1. Init => StringOK BY DEF Init, StringOK
<1>2. StringOK /\ [Next]_string => StringOK'
  <2>. SUFFICES ASSUME StringOK, [Next]_string PROVE string' \in Seq(0 .. 10)
    BY DEF StringOK
  <2>1. CASE Next
    <3>1. PICK c \in Digits \cup {NotADigit} : string' = Append(string, c)
      BY <2>1 DEF Next
    <3>2. c \in 0 .. 10 BY DigitsAssumption DEF NotADigit
    <3>. QED BY <3>1, <3>2, AppendProperties DEF StringOK
  <2>2. CASE UNCHANGED string BY <2>2 DEF StringOK
  <2>. QED BY <2>1, <2>2
<1>. QED BY <1>1, <1>2, PTL DEF Spec

\* A string that IsDecimal accepts, and the port.
LEMMA DecimalParsed ==
  ASSUME NEW s \in Seq(0 .. 10), IsDecimal(s), s # <<>>
  PROVE  ParseDecimal(s) = Value(s)
<1>. DEFINE n == Len(s)
<1>1. n \in Nat \ {0} /\ s \in [1 .. n -> 0 .. 10] BY EmptySeq, LenProperties
<1>2. /\ \A i \in 1 .. n : s[i] \in 0 .. 9
      /\ n <= 5 /\ (n = 5 => ~TooLarge(s))
  BY DEF IsDecimal, IsDecimalChar, DECIMAL_STRING_LEN_MAX
<1>3. s \in Seq(0 .. 9)
  <2>1. s \in [1 .. n -> 0 .. 9] BY <1>1, <1>2
  <2>. QED BY <1>1, <2>1, SeqDef
<1>4. n \in 1 .. 5
  <2>1. n \in Nat /\ n # 0 BY <1>1
  <2>2. n <= 5 BY <1>2
  <2>. HIDE DEF n
  <2>. QED BY <2>1, <2>2
<1>5. /\ Value(s) \in Nat /\ ParseDecimal(s) = Value(s) % 65536
      /\ n < 5 => Value(s) < 10000
  BY <1>3, <1>4, UpToFiveDigits
<1>6. n = 5 => Value(s) <= 65365 BY <1>2, <1>3, NotTooLarge
<1>. HIDE DEF n
<1>7. Value(s) < 65536
  <2>1. CASE n < 5 BY <1>5, <2>1
  <2>2. CASE n = 5 BY <1>5, <1>6, <2>2
  <2>. QED BY <1>4, <2>1, <2>2
<1>. QED BY <1>5, <1>7

\* Whatever string is given as the port, if IsDecimal accepts it and it is not
\* empty then ParseDecimal returns the number it stands for: no multiplication
\* and no sum wraps in 16 bits that changes the result.
THEOREM PortAsTyped == Spec => []PortIsWhatWasTyped
<1>1. StringOK => PortIsWhatWasTyped
  BY DecimalParsed DEF StringOK, PortIsWhatWasTyped
<1>. QED BY <1>1, StringAlways, PTL

\* No string of at most five digits that stands for a number up to the limit of
\* the code, 65365, is refused.
THEOREM UpToLimitAccepted == Spec => []PortsBelowLimitAccepted
<1>1. Value(DecimalStringValueMax) = 65365
  <2>. DEFINE M == DecimalStringValueMax
  <2>1. /\ M \in Seq(0 .. 9) /\ Len(M) = 5
        /\ M[1] = 6 /\ M[2] = 5 /\ M[3] = 3 /\ M[4] = 6 /\ M[5] = 5
    BY DEF DecimalStringValueMax
  <2>. HIDE DEF M
  <2>2. Value(M) = FiveDigits(M) BY <2>1, UpToFiveDigits
  <2>3. FiveDigits(M) = 65365 BY <2>1 DEF FiveDigits
  <2>4. Value(M) = 65365 BY <2>2, <2>3
  <2>. QED BY <2>4 DEF M
<1>2. PortsBelowLimitAccepted
  <2>. SUFFICES ASSUME string \in Seq(0 .. 9), Len(string) \in 1 .. 5, Value(string) <= 65365
                PROVE  IsDecimal(string)
    BY <1>1 DEF PortsBelowLimitAccepted, DECIMAL_STRING_LEN_MAX
  <2>1. \A i \in 1 .. Len(string) : IsDecimalChar(string[i])
    BY LenProperties DEF IsDecimalChar
  <2>2. Len(string) = 5 => ~TooLarge(string) BY NotTooLarge
  <2>. QED BY <2>1, <2>2 DEF IsDecimal, DECIMAL_STRING_LEN_MAX
<1>. QED BY <1>2, PTL
=============================================================================
