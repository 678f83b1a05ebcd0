------------------------------- MODULE DataFacts -------------------------------
(***************************************************************************)
(* Facts about numbers and sequences that the proofs share: induction,     *)
(* remainders, and sums over a sequence.                                   *)
(***************************************************************************)
EXTENDS Integers, Sequences, FiniteSets, Functions, FiniteSetTheorems,
        WellFoundedInduction, TLAPS

-----------------------------------------------------------------------------
(* Induction *)

\* What holds 0, and with every number the next one, holds all the numbers.
LEMMA NatInduct ==
    ASSUME NEW T, 0 \in T, \A n \in Nat : n \in T => n + 1 \in T
    PROVE  Nat \subseteq T
<1> DEFINE U == Nat \ T
<1> SUFFICES ASSUME U # {} PROVE FALSE
  OBVIOUS
<1>1. IsWellFoundedOn(OpToRel(<, Nat), Nat)
  BY NatLessThanWellFounded
<1>2. PICK x \in U : \A y \in U : <<y, x>> \notin OpToRel(<, Nat)
  <2> HIDE DEF U
  <2>1. U \subseteq Nat
    BY DEF U
  <2>2. QED
    BY <1>1, <2>1, WFMin
<1>3. x \in Nat /\ x # 0
  OBVIOUS
<1>4. x - 1 \in Nat /\ <<x - 1, x>> \in OpToRel(<, Nat)
  BY <1>3 DEF OpToRel
<1>5. x - 1 \in T
  BY <1>2, <1>4
<1>6. x - 1 + 1 = x
  BY <1>3
<1>7. QED
  BY <1>3, <1>4, <1>5, <1>6

\* A set of numbers has a least one, and a bounded one a greatest.
LEMMA LeastExists ==
    ASSUME NEW A, A \subseteq Nat, A # {}
    PROVE  \E m \in A : \A n \in A : m <= n
<1>1. IsWellFoundedOn(OpToRel(<, Nat), Nat)
  BY NatLessThanWellFounded
<1>2. PICK m \in A : \A n \in A : <<n, m>> \notin OpToRel(<, Nat)
  BY <1>1, WFMin
<1>3. \A n \in A : n < m => <<n, m>> \in OpToRel(<, Nat)
  BY DEF OpToRel
<1>4. \A n \in A : ~(n < m)
  BY <1>2, <1>3
<1>5. QED
  BY <1>4

LEMMA GreatestExists ==
    ASSUME NEW n \in Nat, NEW A, A \subseteq 0 .. n, A # {}
    PROVE  \E m \in A : \A l \in A : m >= l
<1> DEFINE B == {n - m : m \in A}
<1>1. B \subseteq Nat
  OBVIOUS
<1>2. B # {}
  OBVIOUS
<1> HIDE DEF B
<1>3. PICK b \in B : \A c \in B : b <= c
  BY <1>1, <1>2, LeastExists
<1>4. PICK a \in A : b = n - a
  BY <1>3 DEF B
<1>5. ASSUME NEW l \in A PROVE a >= l
  <2>1. n - l \in B
    BY DEF B
  <2>2. n - a <= n - l
    BY <1>3, <1>4, <2>1
  <2>3. QED
    BY <2>2
<1>6. QED
  BY <1>5

-----------------------------------------------------------------------------
(* Remainders: the places of a ring *)

\* A remainder is one, and belongs to a quotient.
LEMMA ModIs ==
    ASSUME NEW m \in Nat \ {0}, NEW x \in Int
    PROVE  x % m \in 0 .. m - 1 /\ x \div m \in Int /\ x = m * (x \div m) + (x % m)
OBVIOUS

\* There is only one.
LEMMA ModUnique ==
    ASSUME NEW m \in Nat \ {0}, NEW q \in Int, NEW p \in Int,
           NEW r \in 0 .. m - 1, NEW s \in 0 .. m - 1, m * q + r = m * p + s
    PROVE  r = s
<1>1. m * (q - p) = s - r /\ m * (p - q) = r - s
  OBVIOUS
<1>2. q > p => m * (q - p) >= m
  OBVIOUS
<1>3. q < p => m * (p - q) >= m
  OBVIOUS
<1>4. q = p
  BY <1>1, <1>2, <1>3
<1>5. QED
  BY <1>4

\* A remainder is found by its range.
LEMMA ModOf ==
    ASSUME NEW m \in Nat \ {0}, NEW x \in Int, NEW q \in Int, NEW r \in 0 .. m - 1,
           x = m * q + r
    PROVE  x % m = r
<1>1. x % m \in 0 .. m - 1 /\ x \div m \in Int /\ m * (x \div m) + (x % m) = m * q + r
  BY ModIs
<1>2. QED
  BY <1>1, ModUnique

\* What is less than a turn is its own remainder.
LEMMA ModSmall ==
    ASSUME NEW m \in Nat \ {0}, NEW x \in 0 .. m - 1
    PROVE  x % m = x
OBVIOUS

\* The remainder n further on, at most one whole turn.
LEMMA ModAfter ==
    ASSUME NEW m \in Nat \ {0}, NEW x \in Int, NEW n \in 0 .. m
    PROVE  (x + n) % m = IF (x % m) + n >= m THEN (x % m) + n - m ELSE (x % m) + n
<1> DEFINE p == x % m
           q == x \div m
<1>1. p \in 0 .. m - 1 /\ q \in Int /\ x = m * q + p
  BY ModIs
<1> HIDE DEF p, q
<1>2. CASE p + n >= m
  <2>1. p + n - m \in 0 .. m - 1 /\ q + 1 \in Int /\ x + n \in Int
    BY <1>1, <1>2
  <2>2. x + n = m * (q + 1) + (p + n - m)
    BY <1>1
  <2>3. (x + n) % m = p + n - m
    BY <2>1, <2>2, ModOf
  <2>4. QED
    BY <1>2, <2>3 DEF p
<1>3. CASE ~(p + n >= m)
  <2>1. p + n \in 0 .. m - 1 /\ x + n \in Int
    BY <1>1, <1>3
  <2>2. x + n = m * q + (p + n)
    BY <1>1
  <2>3. (x + n) % m = p + n
    BY <1>1, <2>1, <2>2, ModOf
  <2>4. QED
    BY <1>3, <2>3 DEF p
<1>4. QED
  BY <1>2, <1>3

\* The remainder n further back.
LEMMA ModBefore ==
    ASSUME NEW m \in Nat \ {0}, NEW x \in Int, NEW n \in 0 .. m
    PROVE  (x - n) % m = IF x % m >= n THEN (x % m) - n ELSE (x % m) - n + m
<1>1. x - n \in Int /\ x - n + n = x
  OBVIOUS
<1> DEFINE p == x % m
           r == (x - n) % m
<1>2. p \in 0 .. m - 1 /\ r \in 0 .. m - 1
  BY <1>1, ModIs
<1>3. p = IF r + n >= m THEN r + n - m ELSE r + n
  BY <1>1, ModAfter
<1> HIDE DEF p, r
<1>4. r = IF p >= n THEN p - n ELSE p - n + m
  BY <1>2, <1>3
<1>5. QED
  BY <1>4 DEF p, r

\* A remainder in place of a term does not change the remainder of the sum.
LEMMA ModPlus ==
    ASSUME NEW m \in Nat \ {0}, NEW x \in Int, NEW y \in Int
    PROVE  (x + (y % m)) % m = (x + y) % m
<1> DEFINE p == y % m
           q == y \div m
<1>1. p \in Int /\ q \in Int /\ y = m * q + p
  BY ModIs
<1> HIDE DEF p, q
<1> DEFINE r == (x + p) % m
           s == (x + p) \div m
<1>2. r \in 0 .. m - 1 /\ s \in Int /\ x + p = m * s + r
  <2>1. x + p \in Int
    BY <1>1
  <2>2. QED
    BY <2>1, ModIs
<1> HIDE DEF r, s
<1>3. x + y = m * (q + s) + r /\ q + s \in Int /\ x + y \in Int
  BY <1>1, <1>2
<1>4. (x + y) % m = r
  BY <1>2, <1>3, ModOf
<1>5. QED
  BY <1>4 DEF p, r

\* Numbers less than one turn apart have different remainders.
LEMMA ModDistinct ==
    ASSUME NEW m \in Nat \ {0}, NEW x \in Int, NEW n \in 1 .. m - 1
    PROVE  (x + n) % m # x % m
<1>1. x % m \in 0 .. m - 1 /\ n \in 0 .. m
  BY ModIs
<1>2. (x + n) % m = IF (x % m) + n >= m THEN (x % m) + n - m ELSE (x % m) + n
  BY <1>1, ModAfter
<1>3. QED
  BY <1>1, <1>2

-----------------------------------------------------------------------------
(* Sums over a sequence *)

\* The recursion of FoldFunction: of the sums over the sets of indices.
Chosen(s) == CHOOSE x \in s : TRUE
AreSums(q, sums, sets) ==
    sums = [s \in sets |-> IF s = {} THEN 0 ELSE q[Chosen(s)] + sums[s \ {Chosen(s)}]]

\* The sums over the sets of at most n indices.
Small(S, n) == {s \in SUBSET S : Cardinality(s) <= n}

LEMMA ChosenIsIn == ASSUME NEW s, s # {} PROVE Chosen(s) \in s
BY DEF Chosen

\* A subset with one index less is smaller.
LEMMA SmallerSet ==
    ASSUME NEW S, IsFiniteSet(S), NEW s \in SUBSET S, NEW x \in s
    PROVE  /\ IsFiniteSet(s) /\ Cardinality(s) \in Nat \ {0}
           /\ s \ {x} \in SUBSET S /\ Cardinality(s \ {x}) = Cardinality(s) - 1
<1>1. IsFiniteSet(s)
  BY FS_Subset
<1>2. Cardinality(s \ {x}) = Cardinality(s) - 1 /\ Cardinality(s) \in Nat
      /\ IsFiniteSet(s \ {x})
  BY <1>1, FS_RemoveElement, FS_CardinalityType
<1>3. Cardinality(s \ {x}) \in Nat
  BY <1>2, FS_CardinalityType
<1>4. QED
  BY <1>1, <1>2, <1>3

LEMMA SumsExist ==
    ASSUME NEW q, IsFiniteSet(DOMAIN q)
    PROVE  \E sums : AreSums(q, sums, SUBSET DOMAIN q)
<1> DEFINE S == DOMAIN q
           T == {n \in Nat : \E sums : AreSums(q, sums, Small(S, n))}
<1> HIDE DEF S
<1>0. IsFiniteSet(S)
  BY DEF S
<1>1. 0 \in T
  <2>1. \A s \in Small(S, 0) : s = {}
    <3> SUFFICES ASSUME NEW s \in Small(S, 0) PROVE s = {}
      OBVIOUS
    <3>1. IsFiniteSet(s) /\ Cardinality(s) <= 0 /\ Cardinality(s) \in Nat
      BY <1>0, FS_Subset, FS_CardinalityType DEF Small
    <3>2. QED
      BY <3>1, FS_EmptySet
  <2>2. AreSums(q, [s \in Small(S, 0) |-> 0], Small(S, 0))
    BY <2>1 DEF AreSums
  <2>3. QED
    BY <2>2
<1>2. ASSUME NEW n \in Nat, n \in T PROVE n + 1 \in T
  <2>1. PICK f : AreSums(q, f, Small(S, n))
    BY <1>2
  <2> DEFINE g == [s \in Small(S, n + 1) |->
                     IF s = {} THEN 0 ELSE q[Chosen(s)] + f[s \ {Chosen(s)}]]
  <2>2. ASSUME NEW s \in Small(S, n + 1), s # {}
        PROVE  s \ {Chosen(s)} \in Small(S, n)
    BY <2>2, <1>0, SmallerSet, ChosenIsIn DEF Small
  <2>3. \A s \in Small(S, n) : g[s] = f[s]
    <3>1. \A s \in Small(S, n) : s \in Small(S, n + 1)
      <4> SUFFICES ASSUME NEW s \in Small(S, n) PROVE s \in Small(S, n + 1)
        OBVIOUS
      <4>1. Cardinality(s) \in Nat
        BY <1>0, FS_Subset, FS_CardinalityType DEF Small
      <4>2. QED
        BY <4>1 DEF Small
    <3>2. QED
      BY <3>1, <2>1 DEF AreSums
  <2>4. AreSums(q, g, Small(S, n + 1))
    BY <2>2, <2>3 DEF AreSums
  <2>5. QED
    BY <2>4
<1> HIDE DEF T
<1>3. Cardinality(S) \in T
  <2>1. Nat \subseteq T
    BY <1>1, <1>2, NatInduct
  <2>2. QED
    BY <2>1, <1>0, FS_CardinalityType
<1>4. Small(S, Cardinality(S)) = SUBSET S
  BY <1>0, FS_Subset DEF Small
<1>5. QED
  BY <1>3, <1>4 DEF T, S

\* The order in which the indices are chosen does not matter.
AnyOrder(q, sums) ==
    \A s \in SUBSET DOMAIN q :
        sums[s] \in Int /\ \A x \in s : sums[s] = q[x] + sums[s \ {x}]

Integral(q) == \A i \in DOMAIN q : q[i] \in Int

LEMMA AnyIndexFirst ==
    ASSUME NEW q, IsFiniteSet(DOMAIN q), Integral(q),
           NEW sums, AreSums(q, sums, SUBSET DOMAIN q)
    PROVE  AnyOrder(q, sums)
<1> DEFINE S == DOMAIN q
           Good(s) == sums[s] \in Int /\ \A x \in s : sums[s] = q[x] + sums[s \ {x}]
           T == {n \in Nat : \A s \in Small(S, n) : Good(s)}
<1>0. IsFiniteSet(S)
  OBVIOUS
<1>1. \A s \in SUBSET S :
        sums[s] = IF s = {} THEN 0 ELSE q[Chosen(s)] + sums[s \ {Chosen(s)}]
  BY DEF AreSums
<1>2. \A i \in S : q[i] \in Int
  BY DEF Integral
<1> HIDE DEF S
<1>3. 0 \in T
  <2> SUFFICES ASSUME NEW s \in Small(S, 0) PROVE Good(s)
    OBVIOUS
  <2>1. IsFiniteSet(s) /\ Cardinality(s) <= 0 /\ Cardinality(s) \in Nat /\ s \in SUBSET S
    BY <1>0, FS_Subset, FS_CardinalityType DEF Small
  <2>2. s = {}
    BY <2>1, FS_EmptySet
  <2>3. sums[{}] = 0
    BY <1>1
  <2>4. QED
    BY <2>2, <2>3
<1>4. ASSUME NEW n \in Nat, n \in T PROVE n + 1 \in T
  <2> SUFFICES ASSUME NEW s \in Small(S, n + 1) PROVE Good(s)
    OBVIOUS
  <2>1. s \in SUBSET S
    BY DEF Small
  <2>2. ASSUME NEW x \in s PROVE Good(s \ {x}) /\ s \ {x} \in SUBSET S
    <3>1. s \ {x} \in Small(S, n)
      BY <1>0, <2>1, SmallerSet DEF Small
    <3>2. QED
      BY <1>4, <3>1 DEF Small
  <2>3. CASE s = {}
    <3>1. sums[{}] = 0
      BY <1>1
    <3>2. QED
      BY <2>3, <3>1
  <2>4. CASE s # {}
    <3> DEFINE c == Chosen(s)
    <3>1. c \in s
      BY <2>4, ChosenIsIn
    <3> HIDE DEF c
    <3>2. sums[s] = q[c] + sums[s \ {c}]
      BY <1>1, <2>1, <2>4 DEF c
    <3>3. q[c] \in Int /\ sums[s \ {c}] \in Int
      BY <1>2, <2>1, <2>2, <3>1
    <3>4. ASSUME NEW x \in s, x # c PROVE sums[s] = q[x] + sums[s \ {x}]
      <4>1. sums[s \ {c}] = q[x] + sums[(s \ {c}) \ {x}]
        BY <2>2, <3>1, <3>4
      <4>2. sums[s \ {x}] = q[c] + sums[(s \ {x}) \ {c}]
        BY <2>2, <3>1, <3>4
      <4>3. (s \ {c}) \ {x} = (s \ {x}) \ {c}
        OBVIOUS
      <4> DEFINE rest == sums[(s \ {x}) \ {c}]
      <4>4. rest \in Int
        <5>1. c \in s \ {x} /\ s \ {x} \in SUBSET S
          BY <3>1, <3>4, <2>1
        <5>2. Cardinality(s) \in Nat /\ Cardinality(s) <= n + 1
              /\ Cardinality(s \ {x}) = Cardinality(s) - 1
          BY <1>0, <2>1, SmallerSet DEF Small
        <5>3. /\ (s \ {x}) \ {c} \in SUBSET S
              /\ Cardinality((s \ {x}) \ {c}) = Cardinality(s \ {x}) - 1
          <6>1. ASSUME NEW t \in SUBSET S, c \in t
                PROVE  t \ {c} \in SUBSET S /\ Cardinality(t \ {c}) = Cardinality(t) - 1
            BY <1>0, <6>1, SmallerSet
          <6>2. QED
            BY <5>1, <6>1
        <5>4. (s \ {x}) \ {c} \in Small(S, n)
          BY <5>2, <5>3 DEF Small
        <5>5. QED
          BY <1>4, <5>4
      <4>5. q[x] \in Int
        BY <1>2, <2>1
      <4>6. sums[s \ {c}] = q[x] + rest /\ sums[s \ {x}] = q[c] + rest
        BY <4>1, <4>2, <4>3
      <4> HIDE DEF rest
      <4>7. QED
        BY <3>2, <3>3, <4>4, <4>5, <4>6
    <3>5. \A x \in s : sums[s] = q[x] + sums[s \ {x}]
      BY <3>2, <3>4
    <3>6. sums[s] \in Int
      BY <3>2, <3>3
    <3>7. QED
      BY <3>5, <3>6
  <2>5. QED
    BY <2>3, <2>4
<1> HIDE DEF T
<1>5. Cardinality(S) \in T
  <2>1. Nat \subseteq T
    BY <1>3, <1>4, NatInduct
  <2>2. QED
    BY <2>1, <1>0, FS_CardinalityType
<1>6. Small(S, Cardinality(S)) = SUBSET S
  BY <1>0, FS_Subset DEF Small
<1>7. QED
  BY <1>5, <1>6 DEF T, S, AnyOrder

\* The sums of the first items of a sequence, from none on.
SumsUpTo(q, p) ==
    /\ p \in [0 .. Len(q) -> Int]
    /\ p[0] = 0
    /\ \A i \in 1 .. Len(q) : p[i] = p[i - 1] + q[i]

SumSeq(q) == FoldFunction(+, 0, q)

\* The total is the last of them.
LEMMA SumIsLast ==
    ASSUME NEW q \in Seq(Int)
    PROVE  \E p : SumsUpTo(q, p) /\ SumSeq(q) = p[Len(q)]
<1>1. DOMAIN q = 1 .. Len(q) /\ Len(q) \in Nat
  OBVIOUS
<1>2. IsFiniteSet(DOMAIN q)
  BY <1>1, FS_Interval
<1>3. PICK sums : AreSums(q, sums, SUBSET DOMAIN q) /\ SumSeq(q) = sums[DOMAIN q]
  <2> DEFINE f == CHOOSE sums : AreSums(q, sums, SUBSET DOMAIN q)
  <2>1. AreSums(q, f, SUBSET DOMAIN q)
    BY <1>2, SumsExist
  <2>2. SumSeq(q) = f[DOMAIN q]
    BY DEF SumSeq, FoldFunction, FoldFunctionOnSet, MapThenFoldSet, AreSums, Chosen
  <2> HIDE DEF f
  <2>3. QED
    BY <2>1, <2>2
<1>4. SumSeq(q) = sums[DOMAIN q]
  BY <1>3
<1> DEFINE p == [i \in 0 .. Len(q) |-> sums[1 .. i]]
<1>5. Integral(q)
  BY DEF Integral
<1>6. \A s \in SUBSET DOMAIN q :
        sums[s] \in Int /\ \A x \in s : sums[s] = q[x] + sums[s \ {x}]
  <2>1. AnyOrder(q, sums)
    BY <1>2, <1>3, <1>5, AnyIndexFirst, Zenon
  <2>2. QED
    BY <2>1 DEF AnyOrder
<1>7. \A i \in 0 .. Len(q) : 1 .. i \in SUBSET DOMAIN q
  BY <1>1
<1>8. p \in [0 .. Len(q) -> Int]
  BY <1>6, <1>7
<1>9. p[0] = 0
  <2>1. 1 .. 0 = {} /\ 0 \in 0 .. Len(q)
    BY <1>1
  <2>2. QED
    BY <1>3, <2>1 DEF AreSums
<1>10. ASSUME NEW i \in 1 .. Len(q) PROVE p[i] = p[i - 1] + q[i]
  <2>1. (1 .. i) \ {i} = 1 .. i - 1 /\ i \in 1 .. i /\ i \in 0 .. Len(q) /\ i - 1 \in 0 .. Len(q)
    BY <1>1
  <2>2. sums[1 .. i] = q[i] + sums[1 .. i - 1]
    BY <1>6, <1>7, <2>1
  <2>3. p[i] = sums[1 .. i] /\ p[i - 1] = sums[1 .. i - 1]
    BY <2>1
  <2>4. sums[1 .. i - 1] \in Int /\ q[i] \in Int
    BY <1>1, <1>5, <1>6, <1>7, <2>1
  <2>5. QED
    BY <2>2, <2>3, <2>4
<1>11. SumSeq(q) = p[Len(q)]
  <2>1. Len(q) \in 0 .. Len(q)
    BY <1>1
  <2>2. QED
    BY <1>1, <1>4, <2>1
<1> HIDE DEF p
<1>12. QED
  BY <1>8, <1>9, <1>10, <1>11 DEF SumsUpTo

\* There is only one way to add up.
LEMMA SumsUpToUnique ==
    ASSUME NEW q \in Seq(Int), NEW p, SumsUpTo(q, p), NEW r, SumsUpTo(q, r)
    PROVE  p[Len(q)] = r[Len(q)]
<1> DEFINE T == {i \in Nat : i <= Len(q) => p[i] = r[i]}
<1>1. 0 \in T
  BY DEF SumsUpTo
<1>2. ASSUME NEW i \in Nat, i \in T PROVE i + 1 \in T
  <2> SUFFICES ASSUME i + 1 <= Len(q) PROVE p[i + 1] = r[i + 1]
    OBVIOUS
  <2>1. i + 1 \in 1 .. Len(q) /\ i + 1 - 1 = i /\ i <= Len(q)
    OBVIOUS
  <2>2. p[i + 1] = p[i + 1 - 1] + q[i + 1]
    BY <2>1 DEF SumsUpTo
  <2>3. r[i + 1] = r[i + 1 - 1] + q[i + 1]
    BY <2>1 DEF SumsUpTo
  <2>4. p[i] = r[i]
    BY <1>2, <2>1
  <2>5. QED
    BY <2>1, <2>2, <2>3, <2>4
<1> HIDE DEF T
<1>3. Len(q) \in T
  BY <1>1, <1>2, NatInduct
<1>4. QED
  BY <1>3 DEF T

LEMMA SumOf ==
    ASSUME NEW q \in Seq(Int), NEW p, SumsUpTo(q, p)
    PROVE  SumSeq(q) = p[Len(q)] /\ SumSeq(q) \in Int
<1>1. SumSeq(q) = p[Len(q)]
  BY SumIsLast, SumsUpToUnique
<1>2. QED
  BY <1>1 DEF SumsUpTo

LEMMA SumEmpty == SumSeq(<<>>) = 0
<1>1. SumsUpTo(<<>>, [i \in 0 .. 0 |-> 0]) /\ <<>> \in Seq(Int) /\ Len(<<>>) = 0
  BY DEF SumsUpTo
<1>2. QED
  BY <1>1, SumOf

\* An item that is appended is added, one that is taken off subtracted.
LEMMA SumAppend ==
    ASSUME NEW q \in Seq(Int), NEW d \in Int
    PROVE  SumSeq(Append(q, d)) = SumSeq(q) + d
<1>1. PICK p : SumsUpTo(q, p) /\ SumSeq(q) = p[Len(q)]
  BY SumIsLast
<1> DEFINE r == Append(q, d)
           o == [i \in 0 .. Len(r) |-> IF i = Len(r) THEN p[Len(q)] + d ELSE p[i]]
<1>2. /\ r \in Seq(Int) /\ Len(q) \in Nat /\ Len(r) = Len(q) + 1
      /\ \A i \in 1 .. Len(q) : r[i] = q[i]
      /\ r[Len(q) + 1] = d
  OBVIOUS
<1> HIDE DEF r
<1>3. o \in [0 .. Len(r) -> Int] /\ o[0] = 0
  <2>1. \A i \in 0 .. Len(q) : p[i] \in Int
    BY <1>1 DEF SumsUpTo
  <2>2. Len(q) \in 0 .. Len(q)
    BY <1>2
  <2>3. p[Len(q)] + d \in Int
    BY <2>1, <2>2
  <2>4. \A i \in 0 .. Len(r) : i # Len(r) => i \in 0 .. Len(q)
    BY <1>2
  <2>5. \A i \in 0 .. Len(r) : o[i] \in Int
    BY <2>1, <2>3, <2>4
  <2>6. p[0] = 0 /\ 0 \in 0 .. Len(r) /\ 0 # Len(r)
    BY <1>1, <1>2 DEF SumsUpTo
  <2>7. QED
    BY <2>5, <2>6
<1>4. ASSUME NEW i \in 1 .. Len(r) PROVE o[i] = o[i - 1] + r[i]
  <2>1. CASE i = Len(r)
    BY <1>2, <2>1
  <2>2. CASE i # Len(r)
    <3>1. i \in 1 .. Len(q) /\ i - 1 \in 0 .. Len(q) /\ i - 1 # Len(r)
      BY <1>2, <2>2
    <3>2. p[i] = p[i - 1] + q[i]
      BY <1>1, <3>1 DEF SumsUpTo
    <3>3. o[i] = p[i] /\ o[i - 1] = p[i - 1]
      BY <1>2, <2>2, <3>1
    <3>4. QED
      BY <1>2, <3>1, <3>2, <3>3
  <2>3. QED
    BY <2>1, <2>2
<1>5. o[Len(r)] = SumSeq(q) + d
  BY <1>1, <1>2
<1> HIDE DEF o
<1>6. SumsUpTo(r, o)
  BY <1>3, <1>4 DEF SumsUpTo
<1>7. QED
  BY <1>2, <1>5, <1>6, SumOf DEF r

LEMMA SumTail ==
    ASSUME NEW q \in Seq(Int), q # <<>>
    PROVE  SumSeq(Tail(q)) = SumSeq(q) - Head(q)
<1>1. PICK p : SumsUpTo(q, p) /\ SumSeq(q) = p[Len(q)]
  BY SumIsLast
<1> DEFINE r == Tail(q)
           o == [i \in 0 .. Len(r) |-> p[i + 1] - q[1]]
<1>2. /\ r \in Seq(Int) /\ Len(q) \in Nat \ {0} /\ Len(r) = Len(q) - 1
      /\ \A i \in 1 .. Len(r) : r[i] = q[i + 1]
      /\ Head(q) = q[1] /\ q[1] \in Int
  OBVIOUS
<1> HIDE DEF r
<1>3. \A i \in 0 .. Len(r) : p[i + 1] \in Int
  <2>1. \A i \in 0 .. Len(q) : p[i] \in Int
    BY <1>1 DEF SumsUpTo
  <2>2. \A i \in 0 .. Len(r) : i + 1 \in 0 .. Len(q)
    BY <1>2
  <2>3. QED
    BY <2>1, <2>2
<1>4. o \in [0 .. Len(r) -> Int]
  BY <1>2, <1>3
<1>5. o[0] = 0
  <2>1. p[1] = p[1 - 1] + q[1]
    BY <1>1, <1>2 DEF SumsUpTo
  <2>2. p[0] = 0
    BY <1>1 DEF SumsUpTo
  <2>3. 0 \in 0 .. Len(r) /\ 0 + 1 = 1
    BY <1>2
  <2>4. o[0] = p[1] - q[1] /\ 1 - 1 = 0
    BY <2>3
  <2>5. QED
    BY <1>2, <2>1, <2>2, <2>4
<1>6. ASSUME NEW i \in 1 .. Len(r) PROVE o[i] = o[i - 1] + r[i]
  <2>1. i + 1 \in 1 .. Len(q) /\ i - 1 \in 0 .. Len(r) /\ i \in 0 .. Len(r)
        /\ i + 1 - 1 = i /\ i - 1 + 1 = i
    BY <1>2
  <2>2. p[i + 1] = p[i] + q[i + 1]
    BY <1>1, <2>1 DEF SumsUpTo
  <2>3. o[i] = p[i + 1] - q[1] /\ o[i - 1] = p[i] - q[1]
    BY <2>1
  <2>4. p[i] \in Int /\ q[i + 1] \in Int
    <3>1. \A j \in 0 .. Len(q) : p[j] \in Int
      BY <1>1 DEF SumsUpTo
    <3>2. i \in 0 .. Len(q)
      BY <1>2
    <3>3. q[i + 1] \in Int
      BY <2>1
    <3>4. QED
      BY <3>1, <3>2, <3>3
  <2>5. r[i] = q[i + 1] /\ q[1] \in Int
    BY <1>2
  <2> HIDE DEF o
  <2>6. QED
    BY <2>2, <2>3, <2>4, <2>5
<1>7. o[Len(r)] = SumSeq(q) - q[1]
  BY <1>1, <1>2
<1> HIDE DEF o
<1>8. SumsUpTo(r, o)
  BY <1>4, <1>5, <1>6 DEF SumsUpTo
<1>9. QED
  BY <1>2, <1>7, <1>8, SumOf DEF r

\* A sum of numbers of at most c is at most c times their number.
LEMMA SumBound ==
    ASSUME NEW c \in Nat, NEW q \in Seq(0 .. c)
    PROVE  SumSeq(q) \in Nat /\ SumSeq(q) <= Len(q) * c
<1>1. q \in Seq(Int) /\ Len(q) \in Nat /\ \A i \in 1 .. Len(q) : q[i] \in 0 .. c
  <2>1. \A i \in 1 .. Len(q) : q[i] \in 0 .. c
    OBVIOUS
  <2>2. \A i \in 1 .. Len(q) : q[i] \in Int
    BY <2>1
  <2>3. QED
    BY <2>1, <2>2
<1>2. PICK p : SumsUpTo(q, p)
  BY <1>1, SumIsLast
<1>3. SumSeq(q) = p[Len(q)]
  BY <1>1, <1>2, SumOf
<1> DEFINE T == {i \in Nat : i <= Len(q) => p[i] \in Nat /\ p[i] <= i * c}
<1>4. 0 \in T
  BY <1>2 DEF SumsUpTo
<1>5. ASSUME NEW i \in Nat, i \in T PROVE i + 1 \in T
  <2> SUFFICES ASSUME i + 1 <= Len(q) PROVE p[i + 1] \in Nat /\ p[i + 1] <= (i + 1) * c
    OBVIOUS
  <2>1. i + 1 \in 1 .. Len(q) /\ i + 1 - 1 = i /\ i <= Len(q)
    BY <1>1
  <2>2. p[i + 1] = p[i] + q[i + 1]
    BY <1>2, <2>1 DEF SumsUpTo
  <2>3. p[i] \in Nat /\ p[i] <= i * c
    BY <1>5, <2>1
  <2>4. q[i + 1] \in Nat /\ q[i + 1] <= c
    BY <1>1, <2>1
  <2>5. (i + 1) * c = i * c + c /\ i * c \in Nat
    OBVIOUS
  <2>6. QED
    BY <2>2, <2>3, <2>4, <2>5
<1> HIDE DEF T
<1>6. Len(q) \in T
  BY <1>1, <1>4, <1>5, NatInduct
<1>7. QED
  BY <1>3, <1>6 DEF T

---------------------------------------------------------------------
(* Doubling *)

\* The numbers from 1 on, each twice the one before, up to the n-th.
Doubling(f, n) ==
    /\ f \in [0 .. n -> Nat \ {0}]
    /\ f[0] = 1
    /\ \A i \in 1 .. n : f[i] = 2 * f[i - 1]

\* However many are wanted.
LEMMA DoublingExists == \A n \in Nat : \E f : Doubling(f, n)
<1> DEFINE T == {n \in Nat : \E f : Doubling(f, n)}
<1>1. 0 \in T
  <2>1. Doubling([i \in 0 .. 0 |-> 1], 0)
    BY DEF Doubling
  <2>2. QED
    BY <2>1
<1>2. ASSUME NEW n \in Nat, n \in T PROVE n + 1 \in T
  <2>1. PICK f : Doubling(f, n)
    BY <1>2
  <2> DEFINE g == [i \in 0 .. n + 1 |-> IF i = n + 1 THEN 2 * f[n] ELSE f[i]]
  <2>2. g \in [0 .. n + 1 -> Nat \ {0}] /\ g[0] = 1
    BY <2>1 DEF Doubling
  <2>3. \A i \in 1 .. n + 1 : g[i] = 2 * g[i - 1]
    BY <2>1 DEF Doubling
  <2> HIDE DEF g
  <2>4. Doubling(g, n + 1)
    BY <2>2, <2>3 DEF Doubling
  <2>5. QED
    BY <2>4
<1> HIDE DEF T
<1>3. Nat \subseteq T
  BY <1>1, <1>2, NatInduct
<1>4. QED
  BY <1>3 DEF T

\* They are the same numbers, however far they go.
LEMMA DoublingSame ==
    ASSUME NEW n \in Nat, NEW m \in Nat, NEW f, Doubling(f, n), NEW g, Doubling(g, m)
    PROVE  \A i \in Nat : i <= n /\ i <= m => f[i] = g[i]
<1> DEFINE T == {i \in Nat : i <= n /\ i <= m => f[i] = g[i]}
<1>1. 0 \in T
  BY DEF Doubling
<1>2. ASSUME NEW i \in Nat, i \in T PROVE i + 1 \in T
  <2>1. CASE i + 1 <= n /\ i + 1 <= m
    <3>1. i + 1 \in 1 .. n /\ i + 1 \in 1 .. m /\ i + 1 - 1 = i
      BY <2>1
    <3>2. f[i + 1] = 2 * f[i] /\ g[i + 1] = 2 * g[i]
      BY <3>1 DEF Doubling
    <3>3. f[i] = g[i]
      BY <1>2, <2>1
    <3>4. QED
      BY <3>2, <3>3
  <2>2. QED
    BY <2>1
<1> HIDE DEF T
<1>3. Nat \subseteq T
  BY <1>1, <1>2, NatInduct
<1>4. QED
  BY <1>3 DEF T

\* All of them, as a recursive function has them.
LEMMA DoublesExist ==
    \E f \in [Nat -> Nat \ {0}] : f = [n \in Nat |-> IF n = 0 THEN 1 ELSE 2 * f[n - 1]]
<1> DEFINE upTo(n) == CHOOSE f : Doubling(f, n)
           d == [n \in Nat |-> upTo(n)[n]]
<1>1. \A n \in Nat : Doubling(upTo(n), n)
  BY DoublingExists
<1> HIDE DEF upTo
<1>2. \A n \in Nat : d[n] \in Nat \ {0}
  BY <1>1 DEF Doubling
<1>3. d[0] = 1
  BY <1>1 DEF Doubling
<1>4. ASSUME NEW n \in Nat, n # 0 PROVE d[n] = 2 * d[n - 1]
  <2>1. n - 1 \in Nat /\ n \in 1 .. n /\ n - 1 <= n
    BY <1>4
  <2>2. upTo(n)[n] = 2 * upTo(n)[n - 1]
    BY <1>1, <2>1 DEF Doubling
  <2>3. upTo(n)[n - 1] = upTo(n - 1)[n - 1]
    BY <1>1, <2>1, DoublingSame
  <2>4. QED
    BY <2>1, <2>2, <2>3
<1>5. d = [n \in Nat |-> IF n = 0 THEN 1 ELSE 2 * d[n - 1]]
  BY <1>3, <1>4
<1>6. QED
  BY <1>2, <1>5

=============================================================================
