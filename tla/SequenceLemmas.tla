--------------------------- MODULE SequenceLemmas ---------------------------
(***************************************************************************)
(* Facts about numbers, finite sets and sequences that the proofs of       *)
(* several components need: what loops that append collect (FlattenSeq,    *)
(* Keep), what sorting does (SortedBy), and division.  Induction is stated *)
(* for a set of numbers, so that it can be applied to any property; the    *)
(* rest follows from it.                                                   *)
(***************************************************************************)
EXTENDS Integers, Slices, FiniteSetTheorems, WellFoundedInduction, TLAPS

\* A set of natural numbers that is not empty has a least element.
LEMMA LeastElement ==
  ASSUME NEW T \in SUBSET Nat, T # {}
  PROVE  \E n \in T : \A m \in T : n <= m
<1> DEFINE R == OpToRel(<, Nat)
<1>1. R = {pair \in Nat \X Nat : pair[1] < pair[2]}
  BY DEF OpToRel
<1>2. IsWellFoundedOn(R, Nat)
  BY NatLessThanWellFounded
<1> HIDE DEF R
<1>3. PICK n \in T : \A m \in T : <<m, n>> \notin R
  BY <1>2, WFMin
<1>4. ASSUME NEW m \in T
      PROVE  n <= m
  <2>1. n \in Nat /\ m \in Nat
    OBVIOUS
  <2>2. <<m, n>> \notin {pair \in Nat \X Nat : pair[1] < pair[2]}
    BY <1>1, <1>3
  <2> QED
    BY <2>1, <2>2
<1> QED
  BY <1>4

\* Induction.
LEMMA Induction ==
  ASSUME NEW P \in SUBSET Nat, 0 \in P, \A n \in P : n + 1 \in P
  PROVE  P = Nat
<1> SUFFICES ASSUME Nat \ P # {}
             PROVE  FALSE
  OBVIOUS
<1>1. PICK n \in Nat \ P : \A m \in Nat \ P : n <= m
  BY LeastElement
<1>2. n # 0 /\ n - 1 \in Nat /\ n - 1 \notin Nat \ P
  BY <1>1
<1> QED
  BY <1>1, <1>2

\* Division with a remainder.
LEMMA Remainder ==
  ASSUME NEW n \in Nat, NEW u \in Nat \ {0}
  PROVE  /\ n \div u \in Nat /\ n % u \in 0 .. u - 1
         /\ n = u * (n \div u) + (n % u)
  BY Z3

\* A quotient between two numbers.
LEMMA QuotientRange ==
  ASSUME NEW n \in Nat, NEW u \in Nat \ {0}, NEW h \in Nat, NEW s \in Nat
  PROVE  n \div u \in h .. s - 1 <=> h * u <= n /\ n < s * u
<1> DEFINE q == n \div u
           r == n % u
<1>1. q \in Nat /\ r \in 0 .. u - 1 /\ n = u * q + r
  BY Remainder
<1> HIDE DEF q, r
<1>2. ASSUME q \in h .. s - 1
      PROVE  h * u <= n /\ n < s * u
  <2>1. h * u <= q * u /\ (q + 1) * u <= s * u
    BY <1>1, <1>2
  <2> QED
    BY <1>1, <2>1
<1>3. ASSUME h * u <= n, n < s * u
      PROVE  q \in h .. s - 1
  <2>1. ASSUME q < h
        PROVE  FALSE
    <3>1. (q + 1) * u <= h * u
      BY <1>1, <2>1
    <3> QED
      BY <1>1, <1>3, <3>1
  <2>2. ASSUME q >= s
        PROVE  FALSE
    <3>1. s * u <= q * u
      BY <1>1, <2>2
    <3> QED
      BY <1>1, <1>3, <3>1
  <2> QED
    BY <1>1, <2>1, <2>2
<1> QED
  BY <1>2, <1>3 DEF q

\* Division by a positive number rounds down, and keeps the order.
LEMMA Division ==
  ASSUME NEW a \in Nat, NEW b \in Nat, a <= b, NEW d \in Nat \ {0}
  PROVE  /\ a \div d \in Nat /\ b \div d \in Nat
         /\ a \div d <= b \div d
         /\ d >= 2 => 2 * (b \div d) <= b
<1> DEFINE p == a \div d
           q == b \div d
<1>1. p \in Int /\ q \in Int /\ d * p <= a /\ a < d * (p + 1) /\ d * q <= b /\ b < d * (q + 1)
  BY Z3
<1> QED
  BY <1>1

\* Products of natural numbers keep the order.
LEMMA ProductOrder ==
  ASSUME NEW a \in Nat, NEW b \in Nat, NEW c \in Nat, NEW d \in Nat, a <= c, b <= d
  PROVE  a * b <= c * d /\ a * b \in Nat /\ c * d \in Nat
<1>1. a * b <= c * b
  OBVIOUS
<1>2. c * b <= c * d
  OBVIOUS
<1>3. a * b \in Nat /\ c * b \in Nat /\ c * d \in Nat
  OBVIOUS
<1> QED
  BY <1>1, <1>2, <1>3

\* A quotient against a number, for either end of an interval.
LEMMA QuotientOrder ==
  ASSUME NEW n \in Nat, NEW u \in Nat \ {0}, NEW t \in Nat
  PROVE  /\ n < u * (t + 1) => n \div u <= t
         /\ u * t <= n => t <= n \div u
<1> DEFINE q == n \div u
           r == n % u
<1>1. q \in Nat /\ r \in 0 .. u - 1 /\ n = u * q + r
  BY Remainder
<1> HIDE DEF q, r
<1>2. u * (t + 1) = u * t + u /\ u * (q + 1) = u * q + u
  BY <1>1
<1>3. ASSUME n < u * (t + 1), q >= t + 1
      PROVE  FALSE
  <2>1. u * (t + 1) <= u * q
    BY <1>1, <1>3
  <2> QED
    BY <1>1, <1>3, <2>1
<1>4. ASSUME u * t <= n, t >= q + 1
      PROVE  FALSE
  <2>1. u * (q + 1) <= u * t
    BY <1>1, <1>4
  <2> QED
    BY <1>1, <1>2, <1>4, <2>1
<1> QED
  BY <1>1, <1>3, <1>4 DEF q

\* The elements of two sequences, one after the other.
LEMMA ConcatenatedSet ==
  ASSUME NEW S, NEW a \in Seq(S), NEW b \in Seq(S)
  PROVE  ToSet(a \o b) = ToSet(a) \union ToSet(b)
<1> DEFINE c == a \o b
<1>1. /\ c \in Seq(S) /\ Len(c) = Len(a) + Len(b)
      /\ \A i \in 1 .. Len(a) : c[i] = a[i]
      /\ \A i \in 1 .. Len(b) : c[Len(a) + i] = b[i]
  OBVIOUS
<1> HIDE DEF c
<1>2. ASSUME NEW i \in DOMAIN c
      PROVE  c[i] \in ToSet(a) \union ToSet(b)
  <2>1. CASE i \in 1 .. Len(a)
    BY <1>1, <2>1 DEF ToSet
  <2>2. CASE i \notin 1 .. Len(a)
    <3> DEFINE k == i - Len(a)
    <3>1. k \in 1 .. Len(b) /\ i = Len(a) + k
      BY <1>1, <2>2
    <3>2. c[i] = b[k]
      BY <1>1, <3>1
    <3> HIDE DEF k
    <3>3. b[k] \in ToSet(b)
      BY <3>1 DEF ToSet
    <3> QED
      BY <3>2, <3>3
  <2> QED
    BY <2>1, <2>2
<1>3. ASSUME NEW i \in DOMAIN a
      PROVE  a[i] \in ToSet(c)
  BY <1>1 DEF ToSet
<1>4. ASSUME NEW i \in DOMAIN b
      PROVE  b[i] \in ToSet(c)
  <2> DEFINE k == Len(a) + i
  <2>1. i \in 1 .. Len(b) /\ Len(a) \in Nat /\ Len(b) \in Nat /\ DOMAIN c = 1 .. Len(c)
    BY <1>1
  <2>2. k \in DOMAIN c /\ c[k] = b[i]
    BY <1>1, <2>1
  <2> HIDE DEF k
  <2> QED
    BY <2>2 DEF ToSet
<1>5. ToSet(c) = ToSet(a) \union ToSet(b)
  BY <1>2, <1>3, <1>4 DEF ToSet
<1> QED
  BY <1>5 DEF c

\* The function that defines FlattenSeq, up to its n-th value.
Concatenates(f, seqs, n) ==
  \A i \in 1 .. n : f[i] = IF i = 1 THEN seqs[i] ELSE f[i - 1] \o seqs[i]

\* The equation that defines it has a solution.
LEMMA FlattenExists ==
  ASSUME NEW S, NEW seqs \in Seq(Seq(S))
  PROVE  \E f \in [1 .. Len(seqs) -> Seq(S)] : Concatenates(f, seqs, Len(seqs))
<1> DEFINE Q(n) == n <= Len(seqs) => \E f \in [1 .. n -> Seq(S)] : Concatenates(f, seqs, n)
<1>1. Q(0)
  <2>1. <<>> \in [1 .. 0 -> Seq(S)] /\ Concatenates(<<>>, seqs, 0)
    BY DEF Concatenates
  <2> QED
    BY <2>1
<1>2. ASSUME NEW n \in Nat, Q(n)
      PROVE  Q(n + 1)
  <2> SUFFICES ASSUME n + 1 <= Len(seqs)
               PROVE  \E f \in [1 .. n + 1 -> Seq(S)] : Concatenates(f, seqs, n + 1)
    OBVIOUS
  <2>1. PICK f \in [1 .. n -> Seq(S)] : Concatenates(f, seqs, n)
    BY <1>2
  <2> DEFINE last == IF n = 0 THEN seqs[1] ELSE f[n] \o seqs[n + 1]
             g == [i \in 1 .. n + 1 |-> IF i = n + 1 THEN last ELSE f[i]]
  <2>2. last \in Seq(S)
    <3>1. seqs[n + 1] \in Seq(S) /\ (n # 0 => f[n] \in Seq(S))
      OBVIOUS
    <3> QED
      BY <3>1
  <2>3. g \in [1 .. n + 1 -> Seq(S)]
    BY <2>2
  <2>4. ASSUME NEW i \in 1 .. n + 1
        PROVE  g[i] = IF i = 1 THEN seqs[i] ELSE g[i - 1] \o seqs[i]
    <3>1. CASE i = n + 1
      BY <3>1
    <3>2. CASE i # n + 1
      <4>1. i \in 1 .. n /\ (i # 1 => i - 1 \in 1 .. n)
        BY <3>2
      <4>2. \A k \in 1 .. n : k \in 1 .. n + 1 /\ k # n + 1
        OBVIOUS
      <4> HIDE DEF last
      <4>3. \A k \in 1 .. n : g[k] = f[k]
        BY <4>2
      <4> HIDE DEF g
      <4> QED
        BY <2>1, <4>1, <4>3 DEF Concatenates
    <3> QED
      BY <3>1, <3>2
  <2> HIDE DEF g
  <2> QED
    BY <2>3, <2>4 DEF Concatenates
<1> HIDE DEF Q
<1>3. \A n \in Nat : Q(n)
  <2> DEFINE P == {n \in Nat : Q(n)}
  <2>1. 0 \in P /\ \A n \in P : n + 1 \in P
    BY <1>1, <1>2
  <2> HIDE DEF P
  <2>2. P = Nat
    BY <2>1, Induction DEF P
  <2> QED
    BY <2>2 DEF P
<1>4. Q(Len(seqs))
  BY <1>3
<1> QED
  BY <1>4 DEF Q

\* What FlattenSeq returns is a sequence of the elements of the sequences.
LEMMA FlattenProperties ==
  ASSUME NEW S, NEW seqs \in Seq(Seq(S))
  PROVE  /\ FlattenSeq(seqs) \in Seq(S)
         /\ ToSet(FlattenSeq(seqs)) = UNION {ToSet(seqs[i]) : i \in DOMAIN seqs}
<1>1. CASE Len(seqs) = 0
  <2>1. seqs = <<>> /\ FlattenSeq(seqs) = <<>>
    BY <1>1 DEF FlattenSeq
  <2>2. DOMAIN seqs = {} /\ <<>> \in Seq(S)
    BY <2>1
  <2>3. ToSet(<<>>) = {}
    BY DEF ToSet
  <2> QED
    BY <2>1, <2>2, <2>3
<1>2. CASE Len(seqs) # 0
  <2> DEFINE n == Len(seqs)
             Equation(f) == f = [i \in 1 .. n |-> IF i = 1 THEN seqs[i] ELSE f[i - 1] \o seqs[i]]
             flatten == CHOOSE f : Equation(f)
  <2>1. \E f : Equation(f)
    <3>1. PICK f \in [1 .. n -> Seq(S)] : Concatenates(f, seqs, n)
      BY FlattenExists
    <3>2. f = [i \in 1 .. n |-> IF i = 1 THEN seqs[i] ELSE f[i - 1] \o seqs[i]]
      BY <3>1 DEF Concatenates
    <3> QED
      BY <3>2
  <2>2. Equation(flatten)
    BY <2>1
  <2>3. FlattenSeq(seqs) = flatten[n]
    BY <1>2 DEF FlattenSeq
  <2> HIDE DEF flatten
  <2>4. \A i \in 1 .. n : flatten[i] = IF i = 1 THEN seqs[i] ELSE flatten[i - 1] \o seqs[i]
    BY <2>2
  <2> DEFINE Correct(i) == /\ flatten[i] \in Seq(S)
                           /\ ToSet(flatten[i]) = UNION {ToSet(seqs[j]) : j \in 1 .. i}
             Q(k) == k \in 1 .. n => Correct(k)
  <2>5. ASSUME NEW k \in Nat, Q(k)
        PROVE  Q(k + 1)
    <3> SUFFICES ASSUME k + 1 \in 1 .. n
                 PROVE  Correct(k + 1)
      OBVIOUS
    <3>1. seqs[k + 1] \in Seq(S)
      OBVIOUS
    <3>2. CASE k = 0
      <4>1. flatten[1] = seqs[1]
        BY <1>2, <2>4
      <4>2. 1 .. 1 = {1}
        OBVIOUS
      <4> QED
        BY <3>1, <3>2, <4>1, <4>2
    <3>3. CASE k # 0
      <4>1. k \in 1 .. n /\ k + 1 \in 1 .. n /\ k + 1 # 1 /\ (k + 1) - 1 = k
        BY <3>3
      <4>2. Correct(k)
        BY <2>5, <4>1
      <4>3. flatten[k + 1] = flatten[k] \o seqs[k + 1]
        BY <2>4, <4>1
      <4>4. ToSet(flatten[k + 1]) = ToSet(flatten[k]) \union ToSet(seqs[k + 1])
        <5> DEFINE a == flatten[k]
                   b == seqs[k + 1]
        <5>1. a \in Seq(S) /\ b \in Seq(S) /\ flatten[k + 1] = a \o b
          BY <3>1, <4>2, <4>3
        <5> HIDE DEF a, b
        <5>2. ToSet(a \o b) = ToSet(a) \union ToSet(b)
          BY <5>1, ConcatenatedSet
        <5> QED
          BY <5>1, <5>2 DEF a, b
      <4>5. 1 .. k + 1 = (1 .. k) \union {k + 1}
        OBVIOUS
      <4> QED
        BY <3>1, <4>2, <4>3, <4>4, <4>5
    <3> QED
      BY <3>2, <3>3
  <2> HIDE DEF Q
  <2>6. Q(0)
    BY DEF Q
  <2>7. Q(n)
    <3> DEFINE P == {k \in Nat : Q(k)}
    <3>1. 0 \in P /\ \A k \in P : k + 1 \in P
      BY <2>5, <2>6
    <3> HIDE DEF P
    <3>2. P = Nat
      BY <3>1, Induction DEF P
    <3> QED
      BY <3>2 DEF P
  <2>8. Correct(n)
    BY <1>2, <2>7 DEF Q
  <2>9. DOMAIN seqs = 1 .. n
    OBVIOUS
  <2> QED
    BY <2>3, <2>8, <2>9
<1> QED
  BY <1>1, <1>2

\* A sequence is one of its own elements.
LEMMA OwnElements ==
  ASSUME NEW S, NEW s \in Seq(S)
  PROVE  s \in Seq(ToSet(s)) /\ ToSet(s) \subseteq S
<1>1. Len(s) \in Nat /\ s \in [1 .. Len(s) -> S]
  OBVIOUS
<1>2. s \in [1 .. Len(s) -> ToSet(s)]
  BY <1>1 DEF ToSet
<1>3. ToSet(s) \subseteq S
  BY <1>1 DEF ToSet
<1>4. s \in Seq(ToSet(s))
  <2> DEFINE T == ToSet(s)
  <2> HIDE DEF T
  <2>1. s \in [1 .. Len(s) -> T]
    BY <1>2 DEF T
  <2>2. s \in Seq(T)
    BY <1>1, <2>1
  <2> QED
    BY <2>2 DEF T
<1> QED
  BY <1>3, <1>4

\* A sequence of the elements of a set is one of those of a larger set.
LEMMA SequenceOfMore ==
  ASSUME NEW S, NEW T, S \subseteq T, NEW s \in Seq(S)
  PROVE  s \in Seq(T)
OBVIOUS

\* A function of the numbers up to n is a sequence.
LEMMA FunctionIsSequence ==
  ASSUME NEW n \in Nat, NEW f, f \in [1 .. n -> ToSet(f)]
  PROVE  Sequence(f)
BY DEF Sequence

\* What Keep keeps.
LEMMA KeepProperties ==
  ASSUME NEW S, NEW s \in Seq(S), NEW T
  PROVE  Keep(s, T) \in Seq(S) /\ ToSet(Keep(s, T)) = ToSet(s) \intersect T
<1> DEFINE each == [i \in DOMAIN s |-> IF s[i] \in T THEN <<s[i]>> ELSE <<>>]
<1>1. Len(s) \in Nat /\ DOMAIN s = 1 .. Len(s) /\ \A i \in DOMAIN s : s[i] \in S
  OBVIOUS
<1>2. each \in [1 .. Len(s) -> Seq(S)]
  <2>1. \A i \in DOMAIN s : <<s[i]>> \in Seq(S) /\ <<>> \in Seq(S)
    BY <1>1
  <2> QED
    BY <1>1, <2>1
<1>3. \A i \in DOMAIN s : ToSet(each[i]) = {s[i]} \intersect T
  <2>1. \A x : ToSet(<<x>>) = {x}
    BY DEF ToSet
  <2>2. ToSet(<<>>) = {}
    BY DEF ToSet
  <2> QED
    BY <2>1, <2>2
<1>4. Keep(s, T) = FlattenSeq(each)
  BY DEF Keep
<1> HIDE DEF each
<1>5. each \in Seq(Seq(S)) /\ DOMAIN each = DOMAIN s
  BY <1>1, <1>2
<1>6. ToSet(FlattenSeq(each)) = UNION {ToSet(each[i]) : i \in DOMAIN s}
  BY <1>5, FlattenProperties
<1>7. UNION {ToSet(each[i]) : i \in DOMAIN s} = ToSet(s) \intersect T
  BY <1>3 DEF ToSet
<1> QED
  BY <1>4, <1>5, <1>6, <1>7, FlattenProperties

\* The elements of a finite set, in some order.
LEMMA SetEnumerated ==
  ASSUME NEW S, IsFiniteSet(S)
  PROVE  /\ SetToSeq(S) \in Seq(S) /\ Len(SetToSeq(S)) = Cardinality(S)
         /\ ToSet(SetToSeq(S)) = S
         /\ \A i, j \in DOMAIN SetToSeq(S) : SetToSeq(S)[i] = SetToSeq(S)[j] => i = j
<1> DEFINE n == Cardinality(S)
           s == SetToSeq(S)
<1>1. n \in Nat /\ \E f \in [1 .. n -> S] : IsInjective(f)
  <2>1. n \in Nat /\ ExistsBijection(1 .. n, S)
    BY FS_CardinalityType
  <2>2. PICK f \in Bijection(1 .. n, S) : TRUE
    BY <2>1 DEF ExistsBijection
  <2>3. f \in [1 .. n -> S] /\ \A i, j \in 1 .. n : f[i] = f[j] => i = j
    BY <2>2 DEF Bijection, Injection, IsInjective
  <2>4. IsInjective(f)
    BY <2>3 DEF IsInjective
  <2> QED
    BY <2>1, <2>3, <2>4
<1>2. s \in [1 .. n -> S] /\ IsInjective(s)
  BY <1>1 DEF SetToSeq
<1> HIDE DEF s
<1>3. \A i, j \in 1 .. n : s[i] = s[j] => i = j
  BY <1>2 DEF IsInjective
<1>4. s \in Seq(S) /\ Len(s) = n /\ DOMAIN s = 1 .. n
  BY <1>1, <1>2
<1>5. \A x \in S : \E i \in 1 .. n : s[i] = x
  <2>1. s \in Injection(1 .. n, S)
    BY <1>2, <1>3 DEF Injection, IsInjective
  <2>2. Cardinality(1 .. n) = n
    <3>1. \A k \in Nat : Cardinality(1 .. k) = k
      BY FS_Interval
    <3> QED
      BY <1>1, <3>1
  <2>3. s \in Surjection(1 .. n, S)
    BY <2>1, <2>2, FS_Injection, Zenon
  <2> QED
    BY <2>3 DEF Surjection
<1>6. ToSet(s) = S
  BY <1>2, <1>4, <1>5 DEF ToSet
<1> QED
  BY <1>3, <1>4, <1>6 DEF s

\* The elements of a sequence are finitely many.
LEMMA ElementsFinite ==
  ASSUME NEW S, NEW s \in Seq(S)
  PROVE  IsFiniteSet(ToSet(s)) /\ Cardinality(ToSet(s)) <= Len(s)
<1>1. Len(s) \in Nat /\ DOMAIN s = 1 .. Len(s) /\ s \in [1 .. Len(s) -> ToSet(s)]
  <2>1. s \in [1 .. Len(s) -> S] /\ Len(s) \in Nat
    OBVIOUS
  <2> QED
    BY <2>1 DEF ToSet
<1>2. \A x \in ToSet(s) : \E i \in 1 .. Len(s) : s[i] = x
  BY <1>1 DEF ToSet
<1>3. s \in Surjection(1 .. Len(s), ToSet(s))
  BY <1>1, <1>2 DEF Surjection
<1>4. IsFiniteSet(1 .. Len(s)) /\ Cardinality(1 .. Len(s)) = Len(s)
  <2>1. \A k \in Nat : IsFiniteSet(1 .. k) /\ Cardinality(1 .. k) = k
    BY FS_Interval
  <2> QED
    BY <1>1, <2>1
<1> QED
  BY <1>3, <1>4, FS_Surjection

\* A strict order of the elements of S.
StrictOrder(less, S) ==
  /\ \A x \in S : <<x, x>> \notin less
  /\ \A x, y, z \in S : <<x, y>> \in less /\ <<y, z>> \in less => <<x, z>> \in less
  /\ \A x, y \in S : x = y \/ <<x, y>> \in less \/ <<y, x>> \in less

\* Places are different, and all taken.
LEMMA Places ==
  ASSUME NEW S, NEW s \in Seq(S), NEW less, StrictOrder(less, S)
  PROVE  /\ \A i \in DOMAIN s : Place(s, less, i) \in DOMAIN s
         /\ \A i, k \in DOMAIN s :
              <<s[i], s[k]>> \in less \/ (s[i] = s[k] /\ i < k)
                => Place(s, less, i) < Place(s, less, k)
         /\ \A n \in DOMAIN s : \E i \in DOMAIN s : Place(s, less, i) = n
<1> DEFINE D == DOMAIN s
           Before(i) == {j \in D : <<s[j], s[i]>> \in less \/ (s[j] = s[i] /\ j <= i)}
           f == [i \in D |-> Place(s, less, i)]
<1>1. Len(s) \in Nat /\ D = 1 .. Len(s) /\ \A i \in D : s[i] \in S
  OBVIOUS
<1>2. IsFiniteSet(D) /\ Cardinality(D) = Len(s)
  <2>1. \A k \in Nat : IsFiniteSet(1 .. k) /\ Cardinality(1 .. k) = k
    BY FS_Interval
  <2> QED
    BY <1>1, <2>1
<1>3. \A i \in D : Place(s, less, i) = Cardinality(Before(i))
  BY DEF Place
<1>4. \A i \in D : Before(i) \in SUBSET D /\ i \in Before(i)
  BY <1>1
<1>5. \A i \in D : IsFiniteSet(Before(i)) /\ Cardinality(Before(i)) \in 1 .. Len(s)
  <2> SUFFICES ASSUME NEW i \in D
               PROVE  IsFiniteSet(Before(i)) /\ Cardinality(Before(i)) \in 1 .. Len(s)
    OBVIOUS
  <2> DEFINE B == Before(i)
  <2>1. B \in SUBSET D /\ i \in B
    BY <1>4
  <2> HIDE DEF Before, B, D
  <2>2. IsFiniteSet(B) /\ Cardinality(B) <= Cardinality(D)
    BY <1>2, <2>1, FS_Subset
  <2>3. Cardinality(B) \in Nat /\ Cardinality(B) # 0
    BY <2>1, <2>2, FS_CardinalityType, FS_EmptySet
  <2> QED
    BY <1>1, <1>2, <2>2, <2>3 DEF B
<1>6. ASSUME NEW i \in D, NEW k \in D, <<s[i], s[k]>> \in less \/ (s[i] = s[k] /\ i < k)
      PROVE  Cardinality(Before(i)) < Cardinality(Before(k))
  <2>1. \A j \in Before(i) : j \in Before(k)
    <3> SUFFICES ASSUME NEW j \in D, <<s[j], s[i]>> \in less \/ (s[j] = s[i] /\ j <= i)
                 PROVE  <<s[j], s[k]>> \in less \/ (s[j] = s[k] /\ j <= k)
      OBVIOUS
    <3>1. s[i] \in S /\ s[j] \in S /\ s[k] \in S
      BY <1>1
    <3> QED
      BY <1>1, <1>6, <3>1 DEF StrictOrder
  <2>2. k \notin Before(i)
    <3>1. s[i] \in S /\ s[k] \in S
      BY <1>1
    <3>2. ~(<<s[k], s[i]>> \in less)
      BY <1>6, <3>1 DEF StrictOrder
    <3>3. ~(s[k] = s[i] /\ k <= i)
      BY <1>1, <1>6, <3>1 DEF StrictOrder
    <3> QED
      BY <3>2, <3>3
  <2>3. k \in Before(k)
    BY <1>4
  <2> DEFINE A == Before(i)
             B == Before(k)
  <2>4. A \in SUBSET B /\ A # B /\ IsFiniteSet(B) /\ Cardinality(A) \in Nat /\ Cardinality(B) \in Nat
    <3>1. A \in SUBSET B /\ A # B
      BY <2>1, <2>2, <2>3
    <3>2. /\ IsFiniteSet(Before(k)) /\ Cardinality(Before(k)) \in 1 .. Len(s)
          /\ Cardinality(Before(i)) \in 1 .. Len(s)
      <4> HIDE DEF Before
      <4> QED
        BY <1>5
    <3> HIDE DEF Before
    <3> QED
      BY <1>1, <3>1, <3>2
  <2> HIDE DEF A, B
  <2>5. Cardinality(A) < Cardinality(B)
    BY <2>4, FS_Subset
  <2> QED
    BY <2>5 DEF A, B
<1>7. \A i, k \in D :
        <<s[i], s[k]>> \in less \/ (s[i] = s[k] /\ i < k) => Place(s, less, i) < Place(s, less, k)
  BY <1>3, <1>6
<1>8. \A i \in D : Place(s, less, i) \in D
  BY <1>1, <1>3, <1>5
<1>9. \A n \in D : \E i \in D : Place(s, less, i) = n
  <2>1. \A i, k \in D : i # k => Place(s, less, i) # Place(s, less, k)
    <3> SUFFICES ASSUME NEW i \in D, NEW k \in D, i # k
                 PROVE  Place(s, less, i) # Place(s, less, k)
      OBVIOUS
    <3>1. \/ <<s[i], s[k]>> \in less \/ (s[i] = s[k] /\ i < k)
          \/ <<s[k], s[i]>> \in less \/ (s[k] = s[i] /\ k < i)
      BY <1>1 DEF StrictOrder
    <3>2. Place(s, less, i) \in Nat /\ Place(s, less, k) \in Nat
      BY <1>1, <1>8
    <3> QED
      BY <1>7, <3>1, <3>2
  <2>2. f \in Injection(D, D)
    <3>1. f \in [D -> D] /\ \A i, k \in D : f[i] = f[k] => i = k
      BY <1>8, <2>1
    <3> HIDE DEF f, D
    <3> QED
      BY <3>1 DEF Injection, IsInjective
  <2> HIDE DEF D
  <2>3. f \in Surjection(D, D)
    BY <1>2, <2>2, FS_Injection
  <2> QED
    BY <2>3 DEF Surjection
<1> QED
  BY <1>7, <1>8, <1>9

\* SortedBy keeps the elements, and orders those of a sequence without
\* duplicates strictly.
LEMMA SortedElements ==
  ASSUME NEW S, NEW s \in Seq(S), NEW less, StrictOrder(less, S)
  PROVE  /\ SortedBy(s, less) \in Seq(S) /\ Len(SortedBy(s, less)) = Len(s)
         /\ ToSet(SortedBy(s, less)) = ToSet(s)
         /\ (\A i, j \in DOMAIN s : s[i] = s[j] => i = j) =>
              \A m, n \in DOMAIN s :
                m < n => <<SortedBy(s, less)[m], SortedBy(s, less)[n]>> \in less
<1> DEFINE D == DOMAIN s
           At(n) == CHOOSE i \in D : Place(s, less, i) = n
           q == SortedBy(s, less)
<1>1. Len(s) \in Nat /\ D = 1 .. Len(s) /\ \A i \in D : s[i] \in S
  OBVIOUS
<1>2. \A n \in D : At(n) \in D /\ Place(s, less, At(n)) = n
  BY Places
<1>3. q = [n \in D |-> s[At(n)]]
  BY DEF SortedBy
<1> HIDE DEF q, At
<1>4. q \in [1 .. Len(s) -> S] /\ DOMAIN q = D
  BY <1>1, <1>2, <1>3
<1>5. q \in Seq(S) /\ Len(q) = Len(s)
  BY <1>1, <1>4
<1>6. ToSet(q) = ToSet(s)
  <2>1. \A n \in D : q[n] \in ToSet(s)
    BY <1>2, <1>3 DEF ToSet
  <2>2. \A i \in D : \E n \in D : q[n] = s[i]
    <3> SUFFICES ASSUME NEW i \in D
                 PROVE  \E n \in D : q[n] = s[i]
      OBVIOUS
    <3> DEFINE n == Place(s, less, i)
    <3>1. n \in D
      BY Places
    <3>2. At(n) \in D /\ Place(s, less, At(n)) = n
      BY <1>2, <3>1
    <3>3. At(n) = i
      <4> DEFINE k == At(n)
      <4>1. k \in D /\ Place(s, less, k) = Place(s, less, i) /\ Place(s, less, i) \in Nat
        BY <1>1, <3>1, <3>2
      <4> HIDE DEF k, n
      <4>2. ~(Place(s, less, k) < Place(s, less, i)) /\ ~(Place(s, less, i) < Place(s, less, k))
        BY <4>1
      <4>3. ~(<<s[i], s[k]>> \in less \/ (s[i] = s[k] /\ i < k))
            /\ ~(<<s[k], s[i]>> \in less \/ (s[k] = s[i] /\ k < i))
        BY <4>1, <4>2, Places
      <4>4. k = i
        BY <1>1, <4>1, <4>3 DEF StrictOrder
      <4> QED
        BY <4>4 DEF k
    <3> QED
      BY <1>3, <3>1, <3>3
  <2> QED
    BY <1>4, <2>1, <2>2 DEF ToSet
<1>7. ASSUME \A i, j \in D : s[i] = s[j] => i = j, NEW m \in D, NEW n \in D, m < n
      PROVE  <<q[m], q[n]>> \in less
  <2> DEFINE i == At(m)
             k == At(n)
  <2>1. i \in D /\ k \in D /\ Place(s, less, i) = m /\ Place(s, less, k) = n
    BY <1>2
  <2>2. q[m] = s[i] /\ q[n] = s[k]
    BY <1>3
  <2> HIDE DEF i, k
  <2>3. i # k /\ s[i] # s[k] /\ m \in Nat /\ n \in Nat
    BY <1>1, <1>7, <2>1
  <2>4. ~(<<s[k], s[i]>> \in less)
    <3> SUFFICES ASSUME <<s[k], s[i]>> \in less
                 PROVE  FALSE
      OBVIOUS
    <3>1. Place(s, less, k) < Place(s, less, i)
      BY <2>1, Places
    <3> QED
      BY <1>7, <2>1, <2>3, <3>1
  <2>5. <<s[i], s[k]>> \in less
    BY <1>1, <2>1, <2>3, <2>4 DEF StrictOrder
  <2> QED
    BY <2>2, <2>5
<1> QED
  BY <1>5, <1>6, <1>7 DEF q

\* Two sequences in strict order with the same elements are the same.
LEMMA SameInOrder ==
  ASSUME NEW S, NEW p \in Seq(S), NEW q \in Seq(S), NEW less, StrictOrder(less, S),
         ToSet(p) = ToSet(q),
         \A i, j \in DOMAIN p : i < j => <<p[i], p[j]>> \in less,
         \A i, j \in DOMAIN q : i < j => <<q[i], q[j]>> \in less
  PROVE  p = q
<1>1. /\ Len(p) \in Nat /\ DOMAIN p = 1 .. Len(p) /\ p \in [1 .. Len(p) -> S]
      /\ Len(q) \in Nat /\ DOMAIN q = 1 .. Len(q) /\ q \in [1 .. Len(q) -> S]
  OBVIOUS
<1>2. /\ \A i \in DOMAIN p : \E j \in DOMAIN q : q[j] = p[i]
      /\ \A j \in DOMAIN q : \E i \in DOMAIN p : p[i] = q[j]
  BY DEF ToSet
<1> DEFINE Agree(n) == n \in DOMAIN p /\ n \in DOMAIN q /\ p[n] = q[n]
<1>3. ASSUME NEW n \in Nat \ {0}, \A m \in 1 .. n - 1 : Agree(m)
      PROVE  Agree(n) \/ (n \notin DOMAIN p /\ n \notin DOMAIN q)
  <2>1. ASSUME n \in DOMAIN p, NEW j \in DOMAIN q, q[j] = p[n], j < n
        PROVE  FALSE
    <3>1. j \in DOMAIN p /\ p[j] = q[j]
      BY <1>1, <1>3, <2>1
    <3>2. <<p[j], p[n]>> \in less /\ p[j] = p[n] /\ p[n] \in S
      BY <1>1, <2>1, <3>1
    <3> QED
      BY <3>2 DEF StrictOrder
  <2>2. ASSUME n \in DOMAIN q, NEW i \in DOMAIN p, p[i] = q[n], i < n
        PROVE  FALSE
    <3>1. i \in DOMAIN q /\ p[i] = q[i]
      BY <1>1, <1>3, <2>2
    <3>2. <<q[i], q[n]>> \in less /\ q[i] = q[n] /\ q[n] \in S
      BY <1>1, <2>2, <3>1
    <3> QED
      BY <3>2 DEF StrictOrder
  <2>3. CASE n \in DOMAIN p /\ n \in DOMAIN q
    <3>1. PICK j \in DOMAIN q : q[j] = p[n]
      BY <1>2, <2>3
    <3>2. PICK i \in DOMAIN p : p[i] = q[n]
      BY <1>2, <2>3
    <3>3. j >= n /\ i >= n
      BY <1>1, <2>1, <2>2, <2>3, <3>1, <3>2
    <3>4. CASE j = n \/ i = n
      BY <2>3, <3>1, <3>2, <3>4
    <3>5. CASE j > n /\ i > n
      <4>1. <<q[n], q[j]>> \in less /\ <<p[n], p[i]>> \in less
        BY <2>3, <3>5
      <4>2. <<q[n], p[n]>> \in less /\ <<p[n], q[n]>> \in less /\ p[n] \in S /\ q[n] \in S
        BY <1>1, <2>3, <3>1, <3>2, <4>1
      <4> QED
        BY <4>2 DEF StrictOrder
    <3> QED
      BY <1>1, <3>3, <3>4, <3>5
  <2>4. CASE n \in DOMAIN p /\ n \notin DOMAIN q
    <3>1. PICK j \in DOMAIN q : q[j] = p[n]
      BY <1>2, <2>4
    <3> QED
      BY <1>1, <2>1, <2>4, <3>1
  <2>5. CASE n \notin DOMAIN p /\ n \in DOMAIN q
    <3>1. PICK i \in DOMAIN p : p[i] = q[n]
      BY <1>2, <2>5
    <3> QED
      BY <1>1, <2>2, <2>5, <3>1
  <2> QED
    BY <2>3, <2>4, <2>5
<1>4. \A n \in Nat \ {0} : Agree(n) \/ (n \notin DOMAIN p /\ n \notin DOMAIN q)
  <2> DEFINE T == {n \in Nat \ {0} : ~(Agree(n) \/ (n \notin DOMAIN p /\ n \notin DOMAIN q))}
  <2> SUFFICES ASSUME T # {}
               PROVE  FALSE
    OBVIOUS
  <2>1. PICK n \in T : \A m \in T : n <= m
    <3>1. T \in SUBSET Nat
      OBVIOUS
    <3> HIDE DEF T
    <3> QED
      BY <3>1, LeastElement
  <2> HIDE DEF Agree
  <2>2. \A m \in 1 .. n - 1 : Agree(m) \/ (m \notin DOMAIN p /\ m \notin DOMAIN q)
    <3> SUFFICES ASSUME NEW m \in 1 .. n - 1
                 PROVE  m \in Nat \ {0} /\ m \notin T
      OBVIOUS
    <3> QED
      BY <2>1
  <2>3. \A m \in 1 .. n - 1 : Agree(m)
    <3>1. n \in DOMAIN p \/ n \in DOMAIN q
      BY <2>1
    <3>2. \A m \in 1 .. n - 1 : m \in DOMAIN p \/ m \in DOMAIN q
      BY <1>1, <2>1, <3>1
    <3> QED
      BY <2>2, <3>2
  <2>4. Agree(n) \/ (n \notin DOMAIN p /\ n \notin DOMAIN q)
    BY <1>3, <2>1, <2>3
  <2> QED
    BY <2>1, <2>4
<1>5. Len(p) = Len(q)
  <2>3. Len(p) + 1 \notin DOMAIN p /\ Len(q) + 1 \notin DOMAIN q
    BY <1>1
  <2>4. Len(p) + 1 \notin DOMAIN q /\ Len(q) + 1 \notin DOMAIN p
    BY <1>1, <1>4, <2>3
  <2>5. \A a \in Nat, b \in Nat : a + 1 \notin 1 .. b /\ b + 1 \notin 1 .. a => a = b
    OBVIOUS
  <2> QED
    BY <1>1, <2>4, <2>5
<1>6. \A n \in DOMAIN p : p[n] = q[n]
  BY <1>1, <1>4
<1> QED
  BY <1>1, <1>5, <1>6

\* The order of numbers.
LEMMA NumbersOrdered ==
  ASSUME NEW S \in SUBSET Nat
  PROVE  StrictOrder({pair \in S \X S : pair[1] < pair[2]}, S)
BY DEF StrictOrder

\* Append adds an element.
LEMMA AppendedSet ==
  ASSUME NEW S, NEW s \in Seq(S), NEW x \in S
  PROVE  /\ Append(s, x) \in Seq(S) /\ ToSet(Append(s, x)) = ToSet(s) \union {x}
         /\ IsInjective(s) /\ x \notin ToSet(s) => IsInjective(Append(s, x))
<1> DEFINE q == Append(s, x)
<1>1. /\ q \in Seq(S) /\ Len(s) \in Nat /\ Len(q) = Len(s) + 1
      /\ DOMAIN s = 1 .. Len(s) /\ DOMAIN q = 1 .. Len(s) + 1
      /\ q[Len(s) + 1] = x /\ \A i \in 1 .. Len(s) : q[i] = s[i]
  OBVIOUS
<1> HIDE DEF q
<1>2. ToSet(q) = ToSet(s) \union {x}
  <2>1. \A i \in DOMAIN q : i \in DOMAIN s \/ i = Len(s) + 1
    BY <1>1
  <2>2. DOMAIN s \subseteq DOMAIN q /\ Len(s) + 1 \in DOMAIN q
    BY <1>1
  <2> QED
    BY <1>1, <2>1, <2>2 DEF ToSet
<1>3. ASSUME IsInjective(s), x \notin ToSet(s)
      PROVE  IsInjective(q)
  <2>1. (\A i, j \in DOMAIN s : s[i] = s[j] => i = j) /\ \A i \in DOMAIN s : s[i] # x
    BY <1>3 DEF IsInjective, ToSet
  <2>2. \A i, j \in DOMAIN q : q[i] = q[j] => i = j
    BY <1>1, <2>1
  <2> QED
    BY <2>2 DEF IsInjective
<1> QED
  BY <1>1, <1>2, <1>3 DEF q

\* An empty sequence has no elements.
LEMMA EmptySequence ==
  ASSUME NEW S, NEW s, s = <<>>
  PROVE  s \in Seq(S) /\ ToSet(s) = {} /\ IsInjective(s)
BY DEF ToSet, IsInjective

\* A function of the numbers up to n is a sequence of its values.
LEMMA ValuesSequence ==
  ASSUME NEW S, NEW n \in Nat, NEW f \in [1 .. n -> S]
  PROVE  f \in Seq(S) /\ Len(f) = n
OBVIOUS

\* One sequence after another.
LEMMA Concatenated ==
  ASSUME NEW S, NEW a \in Seq(S), NEW b \in Seq(S)
  PROVE  a \o b \in Seq(S) /\ Len(a \o b) = Len(a) + Len(b)
OBVIOUS

\* A sequence with another element at one place.
LEMMA Replaced ==
  ASSUME NEW S, NEW s \in Seq(S), NEW m \in 1 .. Len(s), NEW x \in S
  PROVE  /\ [s EXCEPT ![m] = x] \in Seq(S) /\ Len([s EXCEPT ![m] = x]) = Len(s)
         /\ [s EXCEPT ![m] = x][m] = x
         /\ \A i \in DOMAIN s : i # m => [s EXCEPT ![m] = x][i] = s[i]
OBVIOUS

\* Append, place by place.
LEMMA AppendedPlaces ==
  ASSUME NEW S, NEW s \in Seq(S), NEW x \in S
  PROVE  Append(s, x) = [i \in 1 .. Len(s) + 1 |-> IF i = Len(s) + 1 THEN x ELSE s[i]]
<1> DEFINE n == Len(s)
           q == Append(s, x)
<1>1. /\ n \in Nat /\ q \in Seq(S) /\ Len(q) = n + 1
      /\ \A i \in 1 .. n + 1 : q[i] = IF i = n + 1 THEN x ELSE s[i]
  OBVIOUS
<1> HIDE DEF n, q
<1>2. q = [i \in 1 .. n + 1 |-> q[i]]
  BY <1>1
<1> QED
  BY <1>1, <1>2 DEF n, q

\* A sequence without duplicates has as many elements as places.
LEMMA InjectiveCardinality ==
  ASSUME NEW S, NEW s \in Seq(S), IsInjective(s)
  PROVE  Cardinality(ToSet(s)) = Len(s)
<1> DEFINE D == 1 .. Len(s)
           T == ToSet(s)
<1>1. Len(s) \in Nat /\ DOMAIN s = D /\ s \in [D -> T] /\ \A x \in T : \E i \in D : s[i] = x
  <2>1. s \in [1 .. Len(s) -> S] /\ Len(s) \in Nat
    OBVIOUS
  <2> QED
    BY <2>1 DEF ToSet
<1>2. s \in Bijection(D, T)
  <2>1. \A i, j \in D : s[i] = s[j] => i = j
    BY <1>1 DEF IsInjective
  <2> HIDE DEF D, T
  <2> QED
    BY <1>1, <2>1 DEF Bijection, Injection, Surjection, IsInjective
<1>3. IsFiniteSet(D) /\ Cardinality(D) = Len(s)
  <2>1. \A k \in Nat : IsFiniteSet(1 .. k) /\ Cardinality(1 .. k) = k
    BY FS_Interval
  <2> QED
    BY <1>1, <2>1
<1> HIDE DEF D, T
<1>4. Cardinality(T) = Cardinality(D)
  <2>1. ExistsBijection(D, T)
    BY <1>2 DEF ExistsBijection
  <2> QED
    BY <1>3, <2>1, FS_Bijection
<1> QED
  BY <1>3, <1>4 DEF T

=============================================================================
