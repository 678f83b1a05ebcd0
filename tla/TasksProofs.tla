----------------------------- MODULE TasksProofs -----------------------------
EXTENDS TaskWaits, DataFacts


-----------------------------------------------------------------------------
(* Lists *)

\* The items of a list, and that none is in it twice.
Elements(s) == {s[i] : i \in DOMAIN s}
Once(s) == \A i, j \in DOMAIN s : s[i] = s[j] => i = j
IsList(s, S) == s \in Seq(S) /\ Once(s)

\* Where what is left of a list stood in it.
OldPlace(p, i) == IF i < p THEN i ELSE i + 1

LEMMA PlaceOf ==
    ASSUME NEW S, NEW s, IsList(s, S), NEW x, x \in Elements(s)
    PROVE  PositionOf(x, s) \in 1 .. Len(s) /\ s[PositionOf(x, s)] = x
<1>1. \E i \in DOMAIN s : s[i] = x
  BY DEF Elements
<1>2. PositionOf(x, s) \in DOMAIN s /\ s[PositionOf(x, s)] = x
  BY <1>1 DEF PositionOf
<1>3. QED
  BY <1>2 DEF IsList

LEMMA RemovedAt ==
    ASSUME NEW S, NEW s \in Seq(S), NEW p \in 1 .. Len(s)
    PROVE  LET r == RemoveAt(s, p)
           IN  /\ r \in Seq(S)
               /\ Len(r) = Len(s) - 1
               /\ \A i \in 1 .. Len(s) - 1 : r[i] = s[OldPlace(p, i)]
<1> DEFINE a == SubSeq(s, 1, p - 1)
           b == SubSeq(s, p + 1, Len(s))
<1>1. a \in Seq(S) /\ Len(a) = p - 1 /\ \A i \in 1 .. p - 1 : a[i] = s[i]
  OBVIOUS
<1>2. b \in Seq(S) /\ Len(b) = Len(s) - p /\ \A i \in 1 .. Len(s) - p : b[i] = s[p + i]
  OBVIOUS
<1> HIDE DEF a, b
<1>3. a \o b \in Seq(S) /\ Len(a \o b) = Len(s) - 1
  BY <1>1, <1>2
<1>4. ASSUME NEW i \in 1 .. Len(s) - 1 PROVE (a \o b)[i] = s[OldPlace(p, i)]
  <2>1. CASE i < p
    BY <1>1, <1>2, <2>1 DEF OldPlace
  <2>2. CASE i >= p
    <3>1. (a \o b)[i] = b[i - Len(a)] /\ i - Len(a) \in 1 .. Len(s) - p
      BY <1>1, <1>2, <2>2
    <3>2. QED
      BY <1>1, <1>2, <2>2, <3>1 DEF OldPlace
  <2>3. i < p \/ i >= p
    OBVIOUS
  <2>4. QED
    BY <2>1, <2>2, <2>3
<1>5. QED
  BY <1>3, <1>4 DEF RemoveAt, a, b

\* An item leaves a list: the others stay in their order.
InOrder(r, s) ==
    \A i, j \in DOMAIN r : i < j =>
        \E m, n \in DOMAIN s : m < n /\ r[i] = s[m] /\ r[j] = s[n]

LEMMA WithoutIs ==
    ASSUME NEW S, NEW s, IsList(s, S), NEW x
    PROVE  /\ IsList(Without(s, x), S)
           /\ Elements(Without(s, x)) = Elements(s) \ {x}
           /\ Len(Without(s, x)) = IF x \in Elements(s) THEN Len(s) - 1 ELSE Len(s)
           /\ InOrder(Without(s, x), s)
<1>1. CASE x \notin Elements(s)
  <2>1. Without(s, x) = s
    BY <1>1 DEF Without, Elements, ToSet
  <2>2. InOrder(s, s)
    BY DEF InOrder
  <2>3. QED
    BY <1>1, <2>1, <2>2
<1>2. CASE x \in Elements(s)
  <2> DEFINE p == PositionOf(x, s)
             r == RemoveAt(s, p)
  <2>1. p \in 1 .. Len(s) /\ s[p] = x
    BY <1>2, PlaceOf
  <2>2. Without(s, x) = r
    BY <1>2 DEF Without, Elements, ToSet
  <2>3. r \in Seq(S) /\ Len(r) = Len(s) - 1 /\ \A i \in 1 .. Len(s) - 1 : r[i] = s[OldPlace(p, i)]
    BY <2>1, RemovedAt DEF IsList
  <2> HIDE DEF r, p
  <2>4. DOMAIN r = 1 .. Len(s) - 1 /\ DOMAIN s = 1 .. Len(s) /\ Len(s) \in Nat
    BY <2>3 DEF IsList
  <2>5. \A i \in DOMAIN r : OldPlace(p, i) \in DOMAIN s /\ OldPlace(p, i) # p
    BY <2>1, <2>4 DEF OldPlace
  <2>6. \A i, j \in DOMAIN r : OldPlace(p, i) = OldPlace(p, j) => i = j
    BY <2>1, <2>4 DEF OldPlace
  <2>7. \A i, j \in DOMAIN r : i < j => OldPlace(p, i) < OldPlace(p, j)
    BY <2>1, <2>4 DEF OldPlace
  <2>8. Once(r)
    BY <2>3, <2>4, <2>5, <2>6 DEF IsList, Once
  <2>9. \A n \in DOMAIN s \ {p} : \E i \in DOMAIN r : OldPlace(p, i) = n
    <3> SUFFICES ASSUME NEW n \in DOMAIN s \ {p} PROVE \E i \in DOMAIN r : OldPlace(p, i) = n
      OBVIOUS
    <3>1. CASE n < p
      BY <2>1, <2>4, <3>1 DEF OldPlace
    <3>2. CASE n > p
      <4>1. n - 1 \in DOMAIN r /\ OldPlace(p, n - 1) = n
        BY <2>1, <2>4, <3>2 DEF OldPlace
      <4>2. QED
        BY <4>1
    <3>3. QED
      BY <2>1, <2>4, <3>1, <3>2
  <2>10. Elements(r) = Elements(s) \ {x}
    <3>1. \A i \in DOMAIN r : r[i] \in Elements(s) /\ r[i] # x
      BY <2>1, <2>3, <2>4, <2>5, SMTT(20) DEF Elements, IsList, Once
    <3>2. \A n \in DOMAIN s \ {p} : s[n] \in Elements(r)
      BY <2>3, <2>4, <2>9 DEF Elements
    <3>3. QED
      BY <2>1, <3>1, <3>2 DEF Elements
  <2>11. InOrder(r, s)
    BY <2>3, <2>4, <2>5, <2>7 DEF InOrder
  <2>12. QED
    BY <1>2, <2>2, <2>3, <2>8, <2>10, <2>11 DEF IsList
<1>3. QED
  BY <1>1, <1>2

\* An item that is in a list is at one place.
LEMMA WithoutAbsent ==
    ASSUME NEW s, NEW x, x \notin Elements(s)
    PROVE  Without(s, x) = s
BY DEF Without, Elements, ToSet

LEMMA AppendIs ==
    ASSUME NEW S, NEW s, IsList(s, S), NEW x \in S, x \notin Elements(s)
    PROVE  /\ IsList(Append(s, x), S)
           /\ Elements(Append(s, x)) = Elements(s) \cup {x}
           /\ Len(Append(s, x)) = Len(s) + 1
<1> DEFINE r == Append(s, x)
<1>1. r \in Seq(S) /\ Len(r) = Len(s) + 1 /\ Len(s) \in Nat /\ DOMAIN s = 1 .. Len(s)
  BY DEF IsList
<1>2. r[Len(s) + 1] = x /\ \A i \in 1 .. Len(s) : r[i] = s[i]
  BY DEF IsList
<1>3. DOMAIN r = 1 .. Len(s) + 1
  BY <1>1
<1> HIDE DEF r
<1>4. Once(r)
  BY <1>1, <1>2, <1>3 DEF IsList, Once, Elements
<1>5. Elements(r) = Elements(s) \cup {x}
  <2>1. \A i \in DOMAIN r : r[i] \in Elements(s) \cup {x}
    BY <1>1, <1>2, <1>3 DEF Elements
  <2>2. \A i \in DOMAIN s : s[i] \in Elements(r)
    BY <1>1, <1>2, <1>3 DEF Elements
  <2>3. x \in Elements(r)
    BY <1>1, <1>2, <1>3 DEF Elements
  <2>4. QED
    BY <2>1, <2>2, <2>3 DEF Elements
<1>6. QED
  BY <1>1, <1>4, <1>5 DEF IsList, r

\* Where the items of a list stand when one has been put in.
NewPlace(p, i) == IF i < p THEN i ELSE i + 1

LEMMA InsertedAt ==
    ASSUME NEW S, NEW s, IsList(s, S), NEW x \in S, x \notin Elements(s),
           NEW p \in 1 .. Len(s) + 1
    PROVE  /\ IsList(InsertAt(s, p, x), S)
           /\ Elements(InsertAt(s, p, x)) = Elements(s) \cup {x}
           /\ Len(InsertAt(s, p, x)) = Len(s) + 1
           /\ InsertAt(s, p, x)[p] = x
           /\ \A i \in 1 .. Len(s) : InsertAt(s, p, x)[NewPlace(p, i)] = s[i]
<1> DEFINE a == SubSeq(s, 1, p - 1)
           b == SubSeq(s, p, Len(s))
           c == a \o <<x>>
           r == c \o b
<1>0. s \in Seq(S) /\ Len(s) \in Nat /\ DOMAIN s = 1 .. Len(s)
  BY DEF IsList
<1>1. a \in Seq(S) /\ Len(a) = p - 1 /\ \A i \in 1 .. p - 1 : a[i] = s[i]
  BY <1>0
<1>2. b \in Seq(S) /\ Len(b) = Len(s) - p + 1 /\ \A i \in 1 .. Len(s) - p + 1 : b[i] = s[p - 1 + i]
  BY <1>0
<1> HIDE DEF a, b
<1>3. c \in Seq(S) /\ Len(c) = p /\ c[p] = x /\ \A i \in 1 .. p - 1 : c[i] = s[i]
  BY <1>0, <1>1, SMTT(20)
<1> HIDE DEF c
<1>4. r \in Seq(S) /\ Len(r) = Len(s) + 1
  BY <1>0, <1>2, <1>3
<1>5. \A i \in 1 .. p : r[i] = c[i]
  BY <1>0, <1>2, <1>3
<1>6. \A i \in p + 1 .. Len(s) + 1 : r[i] = s[i - 1]
  <2> SUFFICES ASSUME NEW i \in p + 1 .. Len(s) + 1 PROVE r[i] = s[i - 1]
    OBVIOUS
  <2>1. r[i] = b[i - p] /\ i - p \in 1 .. Len(s) - p + 1
    BY <1>0, <1>2, <1>3
  <2>2. b[i - p] = s[p - 1 + (i - p)]
    BY <1>2, <2>1
  <2>3. p - 1 + (i - p) = i - 1
    BY <1>0
  <2>4. QED
    BY <2>1, <2>2, <2>3
<1> HIDE DEF r
<1>7. \A i \in 1 .. Len(s) : NewPlace(p, i) \in 1 .. Len(s) + 1 /\ NewPlace(p, i) # p /\ r[NewPlace(p, i)] = s[i]
  <2> SUFFICES ASSUME NEW i \in 1 .. Len(s)
               PROVE  NewPlace(p, i) \in 1 .. Len(s) + 1 /\ NewPlace(p, i) # p /\ r[NewPlace(p, i)] = s[i]
    OBVIOUS
  <2>1. CASE i < p
    BY <1>0, <1>3, <1>5, <2>1 DEF NewPlace
  <2>2. CASE i >= p
    <3>1. i + 1 \in p + 1 .. Len(s) + 1 /\ i + 1 - 1 = i
      BY <1>0, <2>2
    <3>2. r[i + 1] = s[i]
      BY <1>6, <3>1
    <3>3. QED
      BY <1>0, <2>2, <3>1, <3>2 DEF NewPlace
  <2>3. QED
    BY <1>0, <2>1, <2>2
<1>8. \A n \in (1 .. Len(s) + 1) \ {p} : \E i \in 1 .. Len(s) : n = NewPlace(p, i)
  <2> SUFFICES ASSUME NEW n \in (1 .. Len(s) + 1) \ {p}
               PROVE  \E i \in 1 .. Len(s) : n = NewPlace(p, i)
    OBVIOUS
  <2>1. CASE n < p
    BY <1>0, <2>1 DEF NewPlace
  <2>2. CASE n > p
    <3>1. n - 1 \in 1 .. Len(s) /\ n = NewPlace(p, n - 1)
      BY <1>0, <2>2 DEF NewPlace
    <3>2. QED
      BY <3>1
  <2>3. QED
    BY <1>0, <2>1, <2>2
<1>9. r[p] = x /\ DOMAIN r = 1 .. Len(s) + 1
  BY <1>0, <1>3, <1>4, <1>5
<1>10. Elements(r) = Elements(s) \cup {x}
  <2>1. \A n \in DOMAIN r : r[n] \in Elements(s) \cup {x}
    BY <1>0, <1>7, <1>8, <1>9, SMTT(20) DEF Elements
  <2>2. \A i \in DOMAIN s : s[i] \in Elements(r)
    BY <1>0, <1>7, <1>9 DEF Elements
  <2>3. x \in Elements(r)
    BY <1>0, <1>9 DEF Elements
  <2>4. QED
    BY <2>1, <2>2, <2>3 DEF Elements
<1>11. Once(r)
  <2> SUFFICES ASSUME NEW m \in DOMAIN r, NEW n \in DOMAIN r, r[m] = r[n] PROVE m = n
    BY DEF Once
  <2>1. CASE m # p /\ n # p
    <3>1. PICK i \in 1 .. Len(s) : m = NewPlace(p, i)
      BY <1>8, <1>9, <2>1
    <3>2. PICK j \in 1 .. Len(s) : n = NewPlace(p, j)
      BY <1>8, <1>9, <2>1
    <3>3. s[i] = s[j]
      BY <1>7, <3>1, <3>2
    <3>4. i = j
      BY <1>0, <3>3 DEF IsList, Once
    <3>5. QED
      BY <3>1, <3>2, <3>4
  <2>2. CASE m = p \/ n = p
    <3>1. \A l \in DOMAIN r : l # p => r[l] # x
      <4> SUFFICES ASSUME NEW l \in DOMAIN r, l # p PROVE r[l] # x
        OBVIOUS
      <4>1. PICK i \in 1 .. Len(s) : l = NewPlace(p, i)
        BY <1>8, <1>9
      <4>2. r[l] = s[i] /\ s[i] \in Elements(s)
        BY <1>0, <1>7, <4>1 DEF Elements
      <4>3. QED
        BY <4>2
    <3>2. QED
      BY <1>9, <2>2, <3>1
  <2>3. QED
    BY <2>1, <2>2
<1>12. InsertAt(s, p, x) = r
  BY DEF InsertAt, r, c, a, b
<1>13. QED
  BY <1>0, <1>4, <1>7, <1>9, <1>10, <1>11, <1>12 DEF IsList
-----------------------------------------------------------------------------
(* Ready lists: the index is at an item or at the end marker *)

IsReadyList(list, S) ==
    /\ DOMAIN list = {"items", "index"}
    /\ IsList(list.items, S)
    /\ list.index \in 0 .. Len(list.items)

LEMMA InsertEndIs ==
    ASSUME NEW S, NEW list, IsReadyList(list, S), NEW x \in S, x \notin Elements(list.items)
    PROVE  /\ IsReadyList(InsertEnd(list, x), S)
           /\ Elements(InsertEnd(list, x).items) = Elements(list.items) \cup {x}
<1>1. Len(list.items) \in Nat
  BY DEF IsReadyList, IsList
<1>2. CASE list.index = 0
  <2>1. InsertEnd(list, x) = [list EXCEPT !.items = Append(list.items, x)]
    BY <1>2 DEF InsertEnd
  <2> DEFINE r == InsertEnd(list, x)
  <2>2. DOMAIN r = {"items", "index"} /\ r.items = Append(list.items, x) /\ r.index = 0
    BY <1>2, <2>1 DEF IsReadyList
  <2> HIDE DEF r
  <2>3. IsList(r.items, S) /\ Elements(r.items) = Elements(list.items) \cup {x} /\ Len(r.items) = Len(list.items) + 1
    BY <2>2, AppendIs DEF IsReadyList
  <2>4. r.index \in 0 .. Len(r.items)
    BY <1>1, <2>2, <2>3
  <2>5. IsReadyList(r, S) /\ Elements(r.items) = Elements(list.items) \cup {x}
    BY <2>2, <2>3, <2>4 DEF IsReadyList
  <2>6. QED
    BY <2>5 DEF r
<1>3. CASE list.index # 0
  <2> DEFINE q == InsertAt(list.items, list.index, x)
             r == InsertEnd(list, x)
  <2>1. r = [items |-> q, index |-> list.index + 1]
    BY <1>3 DEF InsertEnd
  <2>2. list.index \in 1 .. Len(list.items) + 1
    BY <1>1, <1>3 DEF IsReadyList
  <2>3. IsList(q, S) /\ Elements(q) = Elements(list.items) \cup {x} /\ Len(q) = Len(list.items) + 1
    BY <2>2, InsertedAt DEF IsReadyList
  <2> HIDE DEF q, r
  <2>4. DOMAIN r = {"items", "index"} /\ r.items = q /\ r.index = list.index + 1
    BY <2>1
  <2>5. r.index \in 0 .. Len(r.items)
    BY <1>1, <2>3, <2>4 DEF IsReadyList
  <2>6. IsReadyList(r, S) /\ Elements(r.items) = Elements(list.items) \cup {x}
    BY <2>3, <2>4, <2>5 DEF IsReadyList
  <2>7. QED
    BY <2>6 DEF r
<1>4. QED
  BY <1>2, <1>3

LEMMA ListRemoveIs ==
    ASSUME NEW S, NEW list, IsReadyList(list, S), NEW x, x \in Elements(list.items)
    PROVE  /\ IsReadyList(ListRemove(list, x), S)
           /\ Elements(ListRemove(list, x).items) = Elements(list.items) \ {x}
<1> DEFINE r == ListRemove(list, x)
           p == PositionOf(x, list.items)
           w == Without(list.items, x)
<1>1. Len(list.items) \in Nat /\ IsList(list.items, S) /\ list.index \in 0 .. Len(list.items)
  BY DEF IsReadyList, IsList
<1>2. p \in 1 .. Len(list.items)
  BY <1>1, PlaceOf
<1>3. IsList(w, S) /\ Elements(w) = Elements(list.items) \ {x} /\ Len(w) = Len(list.items) - 1
  BY <1>1, WithoutIs
<1>4. DOMAIN r = {"items", "index"} /\ r.items = w
      /\ r.index = IF p <= list.index THEN list.index - 1 ELSE list.index
  BY DEF ListRemove
<1> HIDE DEF r, p, w
<1>5. r.index \in 0 .. Len(r.items)
  BY <1>1, <1>2, <1>3, <1>4
<1>6. IsReadyList(r, S) /\ Elements(r.items) = Elements(list.items) \ {x}
  BY <1>3, <1>4, <1>5 DEF IsReadyList
<1>7. QED
  BY <1>6 DEF r

LEMMA IndexToNextIs ==
    ASSUME NEW S, NEW list, IsReadyList(list, S), list.items # << >>
    PROVE  LET r == IndexToNext(list)
           IN  /\ IsReadyList(r, S)
               /\ r.items = list.items
               /\ r.items[r.index] \in Elements(list.items)
<1> DEFINE r == IndexToNext(list)
<1>1. Len(list.items) \in Nat \ {0} /\ DOMAIN list.items = 1 .. Len(list.items)
  BY DEF IsReadyList, IsList
<1>2. DOMAIN r = {"items", "index"} /\ r.items = list.items
      /\ r.index = IF list.index = Len(list.items) THEN 1 ELSE list.index + 1
  BY DEF IndexToNext, IsReadyList
<1> HIDE DEF r
<1>3. r.index \in 1 .. Len(list.items)
  BY <1>1, <1>2 DEF IsReadyList
<1>4. IsReadyList(r, S) /\ r.items = list.items /\ r.items[r.index] \in Elements(list.items)
  BY <1>1, <1>2, <1>3 DEF IsReadyList, Elements
<1>5. QED
  BY <1>4 DEF r

-----------------------------------------------------------------------------
(* The least and the greatest of a set *)

LEMMA MinIs ==
    ASSUME NEW A, A \subseteq Nat, A # {}
    PROVE  Min(A) \in A /\ \A n \in A : Min(A) <= n
BY LeastExists DEF Min

LEMMA MaxIs ==
    ASSUME NEW n \in Nat, NEW A, A \subseteq 0 .. n, A # {}
    PROVE  Max(A) \in A /\ \A m \in A : Max(A) >= m
BY GreatestExists DEF Max

-----------------------------------------------------------------------------
(* Sorted lists *)

Sorted(s, value) == \A i, j \in DOMAIN s : i < j => value[s[i]] <= value[s[j]]

LEMMA SortedWithout ==
    ASSUME NEW S, NEW s, IsList(s, S), NEW x, NEW value, Sorted(s, value)
    PROVE  Sorted(Without(s, x), value)
<1> DEFINE r == Without(s, x)
<1>1. IsList(r, S) /\ InOrder(r, s)
  BY WithoutIs
<1>2. DOMAIN r \subseteq Int /\ DOMAIN s \subseteq Int
  BY <1>1 DEF IsList
<1> HIDE DEF r
<1>3. \A i, j \in DOMAIN r : i < j => value[r[i]] <= value[r[j]]
  <2> SUFFICES ASSUME NEW i \in DOMAIN r, NEW j \in DOMAIN r, i < j
               PROVE  value[r[i]] <= value[r[j]]
    OBVIOUS
  <2>1. PICK m \in DOMAIN s, n \in DOMAIN s : m < n /\ r[i] = s[m] /\ r[j] = s[n]
    BY <1>1 DEF InOrder
  <2>2. QED
    BY <2>1 DEF Sorted
<1>4. QED
  BY <1>2, <1>3 DEF Sorted, r

\* An item is put before the first of a greater value.
LEMMA SortedInsertIs ==
    ASSUME NEW S, NEW s, IsList(s, S), NEW x \in S, x \notin Elements(s),
           NEW value \in [S -> Int], Sorted(s, value)
    PROVE  /\ IsList(SortedInsert(s, x, value), S)
           /\ Elements(SortedInsert(s, x, value)) = Elements(s) \cup {x}
           /\ Sorted(SortedInsert(s, x, value), value)
<1> DEFINE greater == {i \in DOMAIN s : value[s[i]] > value[x]}
           p == IF greater = {} THEN Len(s) + 1
                ELSE CHOOSE i \in greater : \A j \in greater : i <= j
           r == InsertAt(s, p, x)
<1>0. s \in Seq(S) /\ Len(s) \in Nat /\ DOMAIN s = 1 .. Len(s) /\ value[x] \in Int
      /\ \A i \in 1 .. Len(s) : value[s[i]] \in Int
  BY DEF IsList
<1>1. /\ p \in 1 .. Len(s) + 1
      /\ \A i \in DOMAIN s : i < p => value[s[i]] <= value[x]
      /\ \A i \in DOMAIN s : i >= p => value[s[i]] >= value[x]
  <2>1. CASE greater = {}
    <3>1. p = Len(s) + 1 /\ \A i \in DOMAIN s : ~(value[s[i]] > value[x])
      BY <2>1
    <3>2. QED
      BY <1>0, <3>1
  <2>2. CASE greater # {}
    <3>1. greater \subseteq Nat
      BY <1>0
    <3>2. p \in greater /\ \A j \in greater : p <= j
      BY <2>2, <3>1, LeastExists
    <3> HIDE DEF p
    <3>3. p \in 1 .. Len(s) /\ value[s[p]] > value[x]
      BY <1>0, <3>2
    <3>4. \A i \in DOMAIN s : i < p => ~(value[s[i]] > value[x])
      BY <1>0, <3>2, <3>3
    <3>5. \A i \in DOMAIN s : i >= p => value[s[i]] >= value[s[p]]
      BY <1>0, <3>3 DEF Sorted
    <3>6. QED
      BY <1>0, <3>3, <3>4, <3>5
  <2>3. QED
    BY <2>1, <2>2
<1> HIDE DEF p
<1>2. /\ IsList(r, S)
      /\ Elements(r) = Elements(s) \cup {x}
      /\ Len(r) = Len(s) + 1
      /\ r[p] = x
      /\ \A i \in 1 .. Len(s) : r[NewPlace(p, i)] = s[i]
  BY <1>1, InsertedAt
<1> HIDE DEF r
<1>3. \A n \in 1 .. Len(s) + 1 : n < p => n \in DOMAIN s /\ r[n] = s[n]
  BY <1>0, <1>1, <1>2 DEF NewPlace
<1>4. \A n \in 1 .. Len(s) + 1 : n > p => n - 1 \in DOMAIN s /\ r[n] = s[n - 1]
  <2> SUFFICES ASSUME NEW n \in 1 .. Len(s) + 1, n > p
               PROVE  n - 1 \in DOMAIN s /\ r[n] = s[n - 1]
    OBVIOUS
  <2>1. n - 1 \in 1 .. Len(s) /\ NewPlace(p, n - 1) = n
    BY <1>0, <1>1 DEF NewPlace
  <2>2. QED
    BY <1>0, <1>2, <2>1
<1>5. ASSUME NEW i \in 1 .. Len(s) + 1, NEW j \in 1 .. Len(s) + 1, i < j
      PROVE  value[r[i]] <= value[r[j]]
  <2>1. CASE i < p /\ j < p
    <3>1. r[i] = s[i] /\ r[j] = s[j] /\ i \in DOMAIN s /\ j \in DOMAIN s
      BY <1>3, <2>1
    <3>2. QED
      BY <1>5, <3>1 DEF Sorted
  <2>2. CASE i > p /\ j > p
    <3>1. r[i] = s[i - 1] /\ r[j] = s[j - 1] /\ i - 1 \in DOMAIN s /\ j - 1 \in DOMAIN s
      BY <1>4, <2>2
    <3>2. i - 1 < j - 1
      BY <1>0, <1>5
    <3>3. QED
      BY <3>1, <3>2 DEF Sorted
  <2>3. CASE i < p /\ j = p
    <3>1. r[i] = s[i] /\ i \in DOMAIN s
      BY <1>3, <2>3
    <3>2. QED
      BY <1>0, <1>1, <1>2, <2>3, <3>1
  <2>4. CASE i = p /\ j > p
    <3>1. r[j] = s[j - 1] /\ j - 1 \in DOMAIN s /\ j - 1 >= p
      <4>1. j > p /\ j \in Int /\ p \in Int
        BY <1>0, <1>1, <2>4
      <4>2. j - 1 >= p
        BY <4>1
      <4>3. QED
        BY <1>4, <4>1, <4>2
    <3>2. QED
      BY <1>0, <1>1, <1>2, <2>4, <3>1
  <2>5. CASE i < p /\ j > p
    <3>1. r[i] = s[i] /\ i \in DOMAIN s /\ value[s[i]] <= value[x]
      BY <1>1, <1>3, <2>5
    <3>2. r[j] = s[j - 1] /\ j - 1 \in DOMAIN s /\ j - 1 >= p
      <4>1. j > p /\ j \in Int /\ p \in Int
        BY <1>0, <1>1, <2>5
      <4>2. j - 1 >= p
        BY <4>1
      <4>3. QED
        BY <1>4, <4>1, <4>2
    <3>3. value[x] <= value[s[j - 1]]
      BY <1>1, <3>2
    <3>4. QED
      BY <1>0, <3>1, <3>2, <3>3
  <2>6. QED
    BY <1>0, <1>1, <1>5, <2>1, <2>2, <2>3, <2>4, <2>5
<1>6. DOMAIN r = 1 .. Len(s) + 1
  BY <1>0, <1>2 DEF IsList
<1>7. Sorted(r, value)
  BY <1>5, <1>6 DEF Sorted
<1>8. SortedInsert(s, x, value) = r
  BY DEF SortedInsert, r, p
<1>9. QED
  BY <1>2, <1>7, <1>8

-----------------------------------------------------------------------------
(* The lists of the kernel *)

KernelFields ==
    {"current", "ready", "top", "delayed", "overflow", "pending", "suspended",
     "termination", "events", "wake", "event", "bits", "priority", "base",
     "mutexes", "notify", "value", "tick", "pended", "unblock", "overflows",
     "suspensions", "yield", "running", "count", "cleanup", "pendsv"}

\* A kernel state keeps what it has in the other fields.
Keeps(j, k, changed) ==
    /\ DOMAIN j = KernelFields
    /\ \A f \in KernelFields \ changed : j[f] = k[f]

\* The lists are lists of tasks, in which a task is once, and the delayed ones
\* are sorted.
Shape(k) ==
    /\ DOMAIN k = KernelFields
    /\ DOMAIN k.ready = Priority
    /\ \A p \in Priority : IsReadyList(k.ready[p], Task)
    /\ IsList(k.delayed, Task) /\ IsList(k.overflow, Task)
    /\ IsList(k.suspended, Task) /\ IsList(k.termination, Task)
    /\ IsList(k.pending, Task)
    /\ DOMAIN k.events = EventLists
    /\ \A e \in EventLists : IsList(k.events[e], Task)
    /\ k.wake \in [Task -> Int]
    /\ k.priority \in [Task -> Priority]
    /\ k.top \subseteq Priority
    /\ Sorted(k.delayed, k.wake) /\ Sorted(k.overflow, k.wake)

\* The tasks in the ready list of a priority.
ReadyAt(k, p) == Elements(k.ready[p].items)

\* A task is in one list by its state item.
Apart(k) ==
    /\ \A p, q \in Priority : p # q => ReadyAt(k, p) \cap ReadyAt(k, q) = {}
    /\ \A p \in Priority :
         /\ ReadyAt(k, p) \cap Elements(k.delayed) = {}
         /\ ReadyAt(k, p) \cap Elements(k.overflow) = {}
         /\ ReadyAt(k, p) \cap Elements(k.suspended) = {}
         /\ ReadyAt(k, p) \cap Elements(k.termination) = {}
    /\ Elements(k.delayed) \cap Elements(k.overflow) = {}
    /\ Elements(k.delayed) \cap Elements(k.suspended) = {}
    /\ Elements(k.delayed) \cap Elements(k.termination) = {}
    /\ Elements(k.overflow) \cap Elements(k.suspended) = {}
    /\ Elements(k.overflow) \cap Elements(k.termination) = {}
    /\ Elements(k.suspended) \cap Elements(k.termination) = {}

\* The tasks that are in a list by their state item.
Placed(k) ==
    (UNION {ReadyAt(k, p) : p \in Priority})
      \cup Elements(k.delayed) \cup Elements(k.overflow)
      \cup Elements(k.suspended) \cup Elements(k.termination)

Sound(k) == Shape(k) /\ Apart(k)

\* The ready lists hold tasks of their priority, and the bits are right.
ByPriority(k) == \A p \in Priority : \A t \in ReadyAt(k, p) : k.priority[t] = p
TopRight(k) == \A p \in Priority : p \in k.top <=> ReadyAt(k, p) # {}

LEMMA ItemsEmpty ==
    ASSUME NEW S, NEW s \in Seq(S)
    PROVE  Elements(s) = {} <=> s = << >>
<1>1. DOMAIN s = 1 .. Len(s) /\ Len(s) \in Nat
  OBVIOUS
<1>2. CASE s = << >>
  BY <1>2 DEF Elements
<1>3. CASE s # << >>
  <2>1. Len(s) # 0
    BY <1>3
  <2>2. 1 \in DOMAIN s
    BY <1>1, <2>1
  <2>3. QED
    BY <1>3, <2>2 DEF Elements
<1>4. QED
  BY <1>2, <1>3

\* A sorted list does not mind what happens to the value of another item.
LEMMA SortedExcept ==
    ASSUME NEW S, NEW s, IsList(s, S), NEW value \in [S -> Int], Sorted(s, value),
           NEW x \in S, x \notin Elements(s), NEW v
    PROVE  Sorted(s, [value EXCEPT ![x] = v])
BY DEF Sorted, Elements, IsList

\* The lists but the ready ones, when t has left them.
Leaves(j, k, t) ==
    /\ Elements(j.delayed) = Elements(k.delayed) \ {t}
    /\ Elements(j.overflow) = Elements(k.overflow) \ {t}
    /\ Elements(j.suspended) = Elements(k.suspended) \ {t}
    /\ Elements(j.termination) = Elements(k.termination) \ {t}
    /\ j.delayed = Without(k.delayed, t)
    /\ j.overflow = Without(k.overflow, t)
    /\ j.suspended = Without(k.suspended, t)
    /\ j.termination = Without(k.termination, t)

StateLists == {"ready", "delayed", "overflow", "suspended", "termination", "wake"}

\* uxListRemove of the state item.
LEMMA RemoveStateItemIs ==
    ASSUME NEW k, Sound(k), NEW t \in Task
    PROVE  LET j == RemoveStateItem(k, t)
           IN  /\ Keeps(j, k, StateLists)
               /\ Sound(j)
               /\ \A p \in Priority : ReadyAt(j, p) = ReadyAt(k, p) \ {t}
               /\ Leaves(j, k, t)
               /\ j.wake = [k.wake EXCEPT ![t] = 0]
<1> DEFINE j == RemoveStateItem(k, t)
<1>1. DOMAIN k = KernelFields
  BY DEF Sound, Shape
<1>2. Keeps(j, k, StateLists)
  BY <1>1 DEF Keeps, RemoveStateItem, KernelFields, StateLists
<1>3. /\ j.delayed = Without(k.delayed, t)
      /\ j.overflow = Without(k.overflow, t)
      /\ j.suspended = Without(k.suspended, t)
      /\ j.termination = Without(k.termination, t)
      /\ j.wake = [k.wake EXCEPT ![t] = 0]
  BY <1>1 DEF RemoveStateItem, KernelFields
<1>4. j.ready = [p \in Priority |-> IF Contained(t, k.ready[p])
                                    THEN ListRemove(k.ready[p], t) ELSE k.ready[p]]
  BY <1>1 DEF RemoveStateItem, KernelFields
<1>5. /\ j.pending = k.pending /\ j.events = k.events
      /\ j.priority = k.priority /\ j.top = k.top
  BY <1>2 DEF Keeps, KernelFields, StateLists
<1> HIDE DEF j
<1>6. /\ IsList(j.delayed, Task) /\ Elements(j.delayed) = Elements(k.delayed) \ {t}
      /\ IsList(j.overflow, Task) /\ Elements(j.overflow) = Elements(k.overflow) \ {t}
      /\ IsList(j.suspended, Task) /\ Elements(j.suspended) = Elements(k.suspended) \ {t}
      /\ IsList(j.termination, Task) /\ Elements(j.termination) = Elements(k.termination) \ {t}
  <2>1. /\ IsList(k.delayed, Task) /\ IsList(k.overflow, Task)
        /\ IsList(k.suspended, Task) /\ IsList(k.termination, Task)
    BY DEF Sound, Shape
  <2>2. \A q : IsList(q, Task) => /\ IsList(Without(q, t), Task)
                                /\ Elements(Without(q, t)) = Elements(q) \ {t}
    BY WithoutIs
  <2>3. QED
    BY <1>3, <2>1, <2>2
<1>7. ASSUME NEW p \in Priority
      PROVE  IsReadyList(j.ready[p], Task) /\ ReadyAt(j, p) = ReadyAt(k, p) \ {t}
  <2>1. IsReadyList(k.ready[p], Task)
    BY DEF Sound, Shape
  <2>2. Contained(t, k.ready[p]) <=> t \in Elements(k.ready[p].items)
    BY DEF Contained, ToSet, Elements
  <2>3. CASE t \in Elements(k.ready[p].items)
    <3>1. j.ready[p] = ListRemove(k.ready[p], t)
      BY <1>4, <2>2, <2>3
    <3>2. QED
      BY <2>1, <2>3, <3>1, ListRemoveIs DEF ReadyAt
  <2>4. CASE t \notin Elements(k.ready[p].items)
    <3>1. j.ready[p] = k.ready[p]
      BY <1>4, <2>2, <2>4
    <3>2. QED
      BY <2>1, <2>4, <3>1 DEF ReadyAt
  <2>5. QED
    BY <2>3, <2>4
<1>8. Sorted(j.delayed, j.wake) /\ Sorted(j.overflow, j.wake)
  <2>1. k.wake \in [Task -> Int] /\ IsList(k.delayed, Task) /\ Sorted(k.delayed, k.wake)
        /\ IsList(k.overflow, Task) /\ Sorted(k.overflow, k.wake)
    BY DEF Sound, Shape
  <2>2. Sorted(j.delayed, k.wake) /\ Sorted(j.overflow, k.wake)
    BY <1>3, <2>1, SortedWithout
  <2>3. t \notin Elements(j.delayed) /\ t \notin Elements(j.overflow)
    BY <1>6
  <2>4. QED
    BY <1>3, <1>6, <2>1, <2>2, <2>3, SortedExcept
<1>9. Shape(j)
  <2>1. DOMAIN j = KernelFields /\ DOMAIN j.ready = Priority /\ j.wake \in [Task -> Int]
    BY <1>2, <1>3, <1>4 DEF Keeps, Sound, Shape
  <2>2. QED
    BY <1>5, <1>6, <1>7, <1>8, <2>1 DEF Sound, Shape
<1>10. Apart(j)
  <2>0. Apart(k)
    BY DEF Sound
  <2>1. ASSUME NEW p \in Priority, NEW q \in Priority, p # q
        PROVE  ReadyAt(j, p) \cap ReadyAt(j, q) = {}
    <3>1. ReadyAt(k, p) \cap ReadyAt(k, q) = {}
      BY <2>0, <2>1 DEF Apart
    <3>2. QED
      BY <1>7, <3>1
  <2>2. ASSUME NEW p \in Priority
        PROVE  /\ ReadyAt(j, p) \cap Elements(j.delayed) = {}
               /\ ReadyAt(j, p) \cap Elements(j.overflow) = {}
               /\ ReadyAt(j, p) \cap Elements(j.suspended) = {}
               /\ ReadyAt(j, p) \cap Elements(j.termination) = {}
    <3>1. /\ ReadyAt(k, p) \cap Elements(k.delayed) = {}
          /\ ReadyAt(k, p) \cap Elements(k.overflow) = {}
          /\ ReadyAt(k, p) \cap Elements(k.suspended) = {}
          /\ ReadyAt(k, p) \cap Elements(k.termination) = {}
      BY <2>0 DEF Apart
    <3>2. QED
      BY <1>6, <1>7, <3>1
  <2>3. /\ Elements(j.delayed) \cap Elements(j.overflow) = {}
        /\ Elements(j.delayed) \cap Elements(j.suspended) = {}
        /\ Elements(j.delayed) \cap Elements(j.termination) = {}
        /\ Elements(j.overflow) \cap Elements(j.suspended) = {}
        /\ Elements(j.overflow) \cap Elements(j.termination) = {}
        /\ Elements(j.suspended) \cap Elements(j.termination) = {}
    BY <1>6, <2>0 DEF Apart
  <2>4. QED
    BY <2>1, <2>2, <2>3 DEF Apart
<1>11. Leaves(j, k, t)
  BY <1>3, <1>6 DEF Leaves
<1>12. QED
  BY <1>2, <1>3, <1>7, <1>9, <1>10, <1>11 DEF Sound, j

\* uxListRemove of the event item.
LEMMA RemoveEventItemIs ==
    ASSUME NEW k, Sound(k), NEW t \in Task
    PROVE  LET j == RemoveEventItem(k, t)
           IN  /\ Keeps(j, k, {"pending", "events"})
               /\ Sound(j)
               /\ Elements(j.pending) = Elements(k.pending) \ {t}
               /\ j.pending = Without(k.pending, t)
               /\ \A e \in EventLists : Elements(j.events[e]) = Elements(k.events[e]) \ {t}
<1> DEFINE j == RemoveEventItem(k, t)
<1>1. DOMAIN k = KernelFields
  BY DEF Sound, Shape
<1>2. Keeps(j, k, {"pending", "events"})
  BY <1>1 DEF Keeps, RemoveEventItem, KernelFields
<1>3. /\ j.pending = Without(k.pending, t)
      /\ j.events = [e \in EventLists |-> Without(k.events[e], t)]
  BY <1>1 DEF RemoveEventItem, KernelFields
<1>4. /\ j.ready = k.ready /\ j.delayed = k.delayed /\ j.overflow = k.overflow
      /\ j.suspended = k.suspended /\ j.termination = k.termination
      /\ j.wake = k.wake /\ j.priority = k.priority /\ j.top = k.top
  BY <1>2 DEF Keeps, KernelFields
<1> HIDE DEF j
<1>5. \A q : IsList(q, Task) => /\ IsList(Without(q, t), Task)
                              /\ Elements(Without(q, t)) = Elements(q) \ {t}
  BY WithoutIs
<1>6. IsList(j.pending, Task) /\ Elements(j.pending) = Elements(k.pending) \ {t}
  BY <1>3, <1>5 DEF Sound, Shape
<1>7. /\ DOMAIN j.events = EventLists
      /\ \A e \in EventLists : /\ IsList(j.events[e], Task)
                               /\ Elements(j.events[e]) = Elements(k.events[e]) \ {t}
  BY <1>3, <1>5 DEF Sound, Shape
<1>8. Shape(j)
  <2>1. DOMAIN j = KernelFields
    BY <1>2 DEF Keeps
  <2>2. QED
    BY <1>4, <1>6, <1>7, <2>1 DEF Sound, Shape
<1>9. Apart(j)
  BY <1>4 DEF Sound, Apart, ReadyAt
<1>10. QED
  BY <1>2, <1>3, <1>6, <1>7, <1>8, <1>9 DEF Sound, j

\* A task in no list by its state item.
Nowhere(k, t) == t \notin Placed(k)

LEMMA NowhereIs ==
    ASSUME NEW k, NEW t
    PROVE  Nowhere(k, t) <=> /\ \A p \in Priority : t \notin ReadyAt(k, p)
                             /\ t \notin Elements(k.delayed)
                             /\ t \notin Elements(k.overflow)
                             /\ t \notin Elements(k.suspended)
                             /\ t \notin Elements(k.termination)
BY DEF Nowhere, Placed

\* prvAddTaskToReadyList
LEMMA AddToReadyIs ==
    ASSUME NEW k, Sound(k), NEW t \in Task, Nowhere(k, t)
    PROVE  LET j == prvAddTaskToReadyList(k, t)
           IN  /\ Keeps(j, k, {"top", "ready"})
               /\ Sound(j)
               /\ \A p \in Priority :
                    ReadyAt(j, p) = ReadyAt(k, p) \cup (IF p = k.priority[t] THEN {t} ELSE {})
               /\ j.top = k.top \cup {k.priority[t]}
<1> DEFINE j == prvAddTaskToReadyList(k, t)
           o == k.priority[t]
<1>1. DOMAIN k = KernelFields /\ o \in Priority /\ DOMAIN k.ready = Priority
  BY DEF Sound, Shape
<1>2. Keeps(j, k, {"top", "ready"})
  BY <1>1 DEF Keeps, prvAddTaskToReadyList, KernelFields
<1>3. /\ j.top = k.top \cup {o}
      /\ j.ready = [k.ready EXCEPT ![o] = InsertEnd(k.ready[o], t)]
  BY <1>1 DEF prvAddTaskToReadyList, KernelFields
<1>4. /\ j.delayed = k.delayed /\ j.overflow = k.overflow
      /\ j.suspended = k.suspended /\ j.termination = k.termination
      /\ j.pending = k.pending /\ j.events = k.events
      /\ j.wake = k.wake /\ j.priority = k.priority
  BY <1>2 DEF Keeps, KernelFields
<1> HIDE DEF j, o
<1>5. ASSUME NEW p \in Priority
      PROVE  /\ IsReadyList(j.ready[p], Task)
             /\ ReadyAt(j, p) = ReadyAt(k, p) \cup (IF p = o THEN {t} ELSE {})
  <2>1. IsReadyList(k.ready[p], Task) /\ t \notin Elements(k.ready[p].items)
    BY NowhereIs DEF Sound, Shape, ReadyAt
  <2>2. CASE p = o
    <3>1. j.ready[p] = InsertEnd(k.ready[p], t)
      BY <1>1, <1>3, <2>2
    <3>2. QED
      BY <2>1, <2>2, <3>1, InsertEndIs DEF ReadyAt
  <2>3. CASE p # o
    <3>1. j.ready[p] = k.ready[p]
      BY <1>1, <1>3, <2>3
    <3>2. QED
      BY <2>1, <2>3, <3>1 DEF ReadyAt
  <2>4. QED
    BY <2>2, <2>3
<1>6. Shape(j)
  <2>1. DOMAIN j = KernelFields /\ DOMAIN j.ready = Priority /\ j.top \subseteq Priority
    BY <1>1, <1>2, <1>3 DEF Keeps, Sound, Shape
  <2>2. QED
    BY <1>4, <1>5, <2>1 DEF Sound, Shape
<1>7. Apart(j)
  <2>0. Apart(k)
    BY DEF Sound
  <2>1. ASSUME NEW p \in Priority, NEW q \in Priority, p # q
        PROVE  ReadyAt(j, p) \cap ReadyAt(j, q) = {}
    <3>1. ReadyAt(k, p) \cap ReadyAt(k, q) = {} /\ t \notin ReadyAt(k, p) /\ t \notin ReadyAt(k, q)
      BY <2>0, <2>1, NowhereIs DEF Apart
    <3>2. QED
      BY <1>5, <2>1, <3>1
  <2>2. ASSUME NEW p \in Priority
        PROVE  /\ ReadyAt(j, p) \cap Elements(j.delayed) = {}
               /\ ReadyAt(j, p) \cap Elements(j.overflow) = {}
               /\ ReadyAt(j, p) \cap Elements(j.suspended) = {}
               /\ ReadyAt(j, p) \cap Elements(j.termination) = {}
    <3>1. /\ ReadyAt(k, p) \cap Elements(k.delayed) = {}
          /\ ReadyAt(k, p) \cap Elements(k.overflow) = {}
          /\ ReadyAt(k, p) \cap Elements(k.suspended) = {}
          /\ ReadyAt(k, p) \cap Elements(k.termination) = {}
      BY <2>0 DEF Apart
    <3>2. /\ t \notin Elements(k.delayed) /\ t \notin Elements(k.overflow)
          /\ t \notin Elements(k.suspended) /\ t \notin Elements(k.termination)
      BY NowhereIs
    <3>3. QED
      BY <1>4, <1>5, <3>1, <3>2
  <2>3. QED
    BY <1>4, <2>0, <2>1, <2>2 DEF Apart
<1>8. QED
  BY <1>2, <1>3, <1>5, <1>6, <1>7 DEF Sound, j, o

Good(k) == Sound(k) /\ ByPriority(k) /\ TopRight(k)

\* A task is made ready, wherever it was.
LEMMA MoveToReadyIs ==
    ASSUME NEW k, Sound(k), NEW t \in Task
    PROVE  LET j == MoveToReadyList(k, t)
           IN  /\ Keeps(j, k, StateLists \cup {"top"})
               /\ Sound(j)
               /\ Leaves(j, k, t)
               /\ \A p \in Priority :
                    ReadyAt(j, p) = (ReadyAt(k, p) \ {t})
                                      \cup (IF p = k.priority[t] THEN {t} ELSE {})
               /\ j.top = k.top \cup {k.priority[t]}
               /\ j.wake = [k.wake EXCEPT ![t] = 0]
               /\ Good(k) => Good(j)
<1> DEFINE r == RemoveStateItem(k, t)
           j == prvAddTaskToReadyList(r, t)
<1>1. /\ Keeps(r, k, StateLists)
      /\ Sound(r)
      /\ \A p \in Priority : ReadyAt(r, p) = ReadyAt(k, p) \ {t}
      /\ Leaves(r, k, t)
      /\ r.wake = [k.wake EXCEPT ![t] = 0]
  BY RemoveStateItemIs
<1> HIDE DEF r
<1>2. r.priority = k.priority /\ r.top = k.top
  BY <1>1 DEF Keeps, KernelFields, StateLists
<1>3. Nowhere(r, t)
  BY <1>1, NowhereIs DEF Leaves
<1>4. /\ Keeps(j, r, {"top", "ready"})
      /\ Sound(j)
      /\ \A p \in Priority :
           ReadyAt(j, p) = ReadyAt(r, p) \cup (IF p = k.priority[t] THEN {t} ELSE {})
      /\ j.top = k.top \cup {k.priority[t]}
  BY <1>1, <1>2, <1>3, AddToReadyIs
<1> HIDE DEF j
<1>5. j.wake = r.wake /\ Leaves(j, k, t) /\ j.priority = k.priority
  BY <1>1, <1>2, <1>4 DEF Keeps, KernelFields, Leaves
<1>6. Keeps(j, k, StateLists \cup {"top"})
  BY <1>1, <1>4 DEF Keeps, StateLists
<1>7. \A p \in Priority :
         ReadyAt(j, p) = (ReadyAt(k, p) \ {t}) \cup (IF p = k.priority[t] THEN {t} ELSE {})
  BY <1>1, <1>4
<1>8. ASSUME Good(k) PROVE Good(j)
  <2>1. ByPriority(j)
    BY <1>5, <1>7, <1>8 DEF Good, ByPriority
  <2>2. ASSUME NEW p \in Priority PROVE p \in j.top <=> ReadyAt(j, p) # {}
    <3>1. p \in k.top <=> ReadyAt(k, p) # {}
      BY <1>8 DEF Good, TopRight
    <3>2. p # k.priority[t] => t \notin ReadyAt(k, p)
      BY <1>8 DEF Good, ByPriority
    <3>3. QED
      BY <1>4, <1>7, <3>1, <3>2
  <2>3. QED
    BY <1>4, <2>1, <2>2 DEF Good, TopRight
<1>9. QED
  BY <1>1, <1>4, <1>5, <1>6, <1>7, <1>8 DEF MoveToReadyList, r, j

\* The lists when a task is put in one of them that are not the ready lists.
LEMMA PutInList ==
    ASSUME NEW k, Sound(k), NEW t, Nowhere(k, t), NEW j,
           DOMAIN j = KernelFields,
           j.ready = k.ready, j.pending = k.pending, j.events = k.events,
           j.priority = k.priority, j.top \subseteq Priority,
           IsList(j.delayed, Task), IsList(j.overflow, Task),
           IsList(j.suspended, Task), IsList(j.termination, Task),
           Sorted(j.delayed, j.wake), Sorted(j.overflow, j.wake),
           j.wake \in [Task -> Int],
           NEW A \in {{}, {t}}, NEW B \in {{}, {t}}, NEW C \in {{}, {t}}, NEW D \in {{}, {t}},
           A # {} => B = {} /\ C = {} /\ D = {}, B # {} => C = {} /\ D = {},
           C # {} => D = {},
           Elements(j.delayed) = Elements(k.delayed) \cup A,
           Elements(j.overflow) = Elements(k.overflow) \cup B,
           Elements(j.suspended) = Elements(k.suspended) \cup C,
           Elements(j.termination) = Elements(k.termination) \cup D
    PROVE  Sound(j)
<1>1. Shape(j)
  BY DEF Sound, Shape
<1>2. \A p \in Priority : ReadyAt(j, p) = ReadyAt(k, p) /\ t \notin ReadyAt(k, p)
  BY NowhereIs DEF ReadyAt
<1>3. /\ t \notin Elements(k.delayed) /\ t \notin Elements(k.overflow)
      /\ t \notin Elements(k.suspended) /\ t \notin Elements(k.termination)
  BY NowhereIs
<1>4. Apart(k)
  BY DEF Sound
<1>5. ASSUME NEW p \in Priority
      PROVE  /\ ReadyAt(j, p) \cap Elements(j.delayed) = {}
             /\ ReadyAt(j, p) \cap Elements(j.overflow) = {}
             /\ ReadyAt(j, p) \cap Elements(j.suspended) = {}
             /\ ReadyAt(j, p) \cap Elements(j.termination) = {}
  <2>1. /\ ReadyAt(k, p) \cap Elements(k.delayed) = {}
        /\ ReadyAt(k, p) \cap Elements(k.overflow) = {}
        /\ ReadyAt(k, p) \cap Elements(k.suspended) = {}
        /\ ReadyAt(k, p) \cap Elements(k.termination) = {}
    BY <1>4 DEF Apart
  <2>2. QED
    BY <1>2, <2>1
<1>6. /\ Elements(j.delayed) \cap Elements(j.overflow) = {}
      /\ Elements(j.delayed) \cap Elements(j.suspended) = {}
      /\ Elements(j.delayed) \cap Elements(j.termination) = {}
      /\ Elements(j.overflow) \cap Elements(j.suspended) = {}
      /\ Elements(j.overflow) \cap Elements(j.termination) = {}
      /\ Elements(j.suspended) \cap Elements(j.termination) = {}
  BY <1>3, <1>4 DEF Apart
<1>7. \A p, q \in Priority : p # q => ReadyAt(j, p) \cap ReadyAt(j, q) = {}
  BY <1>2, <1>4 DEF Apart
<1>8. Apart(j)
  BY <1>5, <1>6, <1>7 DEF Apart
<1>9. QED
  BY <1>1, <1>8 DEF Sound

LEMMA SingleIs ==
    ASSUME NEW S, NEW s, IsList(s, S), NEW x
    PROVE  Elements(s) = {x} <=> s = <<x>>
<1>1. s \in Seq(S) /\ Len(s) \in Nat /\ DOMAIN s = 1 .. Len(s)
  BY DEF IsList
<1>2. CASE s = <<x>>
  <2>1. DOMAIN s = {1} /\ s[1] = x
    BY <1>2
  <2>2. QED
    BY <1>2, <2>1 DEF Elements
<1>3. ASSUME Elements(s) = {x} PROVE s = <<x>>
  <2>1. \A i \in DOMAIN s : s[i] = x
    BY <1>3 DEF Elements
  <2>2. \A i, j \in DOMAIN s : i = j
    BY <2>1 DEF IsList, Once
  <2>3. DOMAIN s # {}
    BY <1>3 DEF Elements
  <2>4. Len(s) = 1
    <3>1. Len(s) >= 1
      BY <1>1, <2>3
    <3>2. 1 \in DOMAIN s
      BY <1>1, <3>1
    <3>3. Len(s) >= 2 => 2 \in DOMAIN s
      BY <1>1
    <3>4. QED
      BY <1>1, <2>2, <3>1, <3>2, <3>3
  <2>5. s[1] = x
    BY <1>1, <2>1, <2>4
  <2>6. QED
    BY <1>1, <2>4, <2>5
<1>4. QED
  BY <1>2, <1>3

\* A ready task was alone in its list just when it leaves it empty.
LEMMA LeavesEmptyIs ==
    ASSUME NEW k, Sound(k), NEW t \in Task, NEW p \in Priority, t \in ReadyAt(k, p)
    PROVE  LeavesListEmpty(k, t) <=> ReadyAt(k, p) = {t}
<1>1. \A q \in Priority : k.ready[q].items = <<t>> <=> ReadyAt(k, q) = {t}
  <2> SUFFICES ASSUME NEW q \in Priority
               PROVE  k.ready[q].items = <<t>> <=> ReadyAt(k, q) = {t}
    OBVIOUS
  <2> DEFINE s == k.ready[q].items
  <2>1. IsList(s, Task)
    BY DEF Sound, Shape, IsReadyList
  <2>2. ReadyAt(k, q) = Elements(s)
    BY DEF ReadyAt
  <2> HIDE DEF s
  <2>3. Elements(s) = {t} <=> s = <<t>>
    BY <2>1, SingleIs
  <2>4. QED
    BY <2>2, <2>3 DEF s
<1>2. \A q \in Priority : q # p => t \notin ReadyAt(k, q)
  BY DEF Sound, Apart
<1>3. /\ t \notin Elements(k.delayed) /\ t \notin Elements(k.overflow)
      /\ t \notin Elements(k.suspended) /\ t \notin Elements(k.termination)
  BY DEF Sound, Apart
<1>4. t \in Elements(<<t>>)
  <2>1. 1 \in DOMAIN <<t>> /\ <<t>>[1] = t
    OBVIOUS
  <2>2. QED
    BY <2>1 DEF Elements
<1>5. <<t>> \notin {k.delayed, k.overflow, k.suspended, k.termination}
  BY <1>3, <1>4
<1>6. QED
  BY <1>1, <1>2, <1>5 DEF LeavesListEmpty

\* The bits are right again when the one of an empty list has been reset.
LEMMA ResetIs ==
    ASSUME NEW k, Sound(k), ByPriority(k), NEW p \in Priority,
           \A q \in Priority : q # p => (q \in k.top <=> ReadyAt(k, q) # {}),
           ReadyAt(k, p) = {}
    PROVE  LET j == portRESET_READY_PRIORITY(k, p)
           IN  Keeps(j, k, {"top"}) /\ j.top = k.top \ {p} /\ Good(j)
<1> DEFINE j == portRESET_READY_PRIORITY(k, p)
<1>0. DOMAIN k = KernelFields
  BY DEF Sound, Shape
<1>1. Keeps(j, k, {"top"}) /\ j.top = k.top \ {p}
  BY <1>0 DEF Keeps, KernelFields, portRESET_READY_PRIORITY
<1> HIDE DEF j
<1>2. /\ j.ready = k.ready /\ j.delayed = k.delayed /\ j.overflow = k.overflow
      /\ j.suspended = k.suspended /\ j.termination = k.termination
      /\ j.pending = k.pending /\ j.events = k.events
      /\ j.wake = k.wake /\ j.priority = k.priority /\ DOMAIN j = KernelFields
  BY <1>1 DEF Keeps, KernelFields
<1>3. Shape(j)
  BY <1>1, <1>2 DEF Sound, Shape
<1>4. Apart(j)
  BY <1>2 DEF Sound, Apart, ReadyAt
<1>5. ByPriority(j)
  BY <1>2 DEF ByPriority, ReadyAt
<1>6. TopRight(j)
  BY <1>1, <1>2 DEF TopRight, ReadyAt
<1>7. QED
  BY <1>1, <1>3, <1>4, <1>5, <1>6 DEF Good, Sound, j

\* A task leaves the list it is in, and the bit of an empty ready list goes.
LEMMA RemoveFromAnyListIs ==
    ASSUME NEW k, Good(k), NEW t \in Task
    PROVE  LET j == RemoveFromAnyList(k, t)
           IN  /\ Keeps(j, k, StateLists \cup {"top"})
               /\ Good(j)
               /\ Leaves(j, k, t)
               /\ \A p \in Priority : ReadyAt(j, p) = ReadyAt(k, p) \ {t}
               /\ j.wake = [k.wake EXCEPT ![t] = 0]
<1> DEFINE r == RemoveStateItem(k, t)
           o == k.priority[t]
           s == taskRESET_READY_PRIORITY(r, o)
           j == IF LeavesListEmpty(k, t) THEN s ELSE r
<1>1. /\ Keeps(r, k, StateLists)
      /\ Sound(r)
      /\ \A p \in Priority : ReadyAt(r, p) = ReadyAt(k, p) \ {t}
      /\ Leaves(r, k, t)
      /\ r.wake = [k.wake EXCEPT ![t] = 0]
  BY RemoveStateItemIs DEF Good
<1> HIDE DEF r
<1>2. r.priority = k.priority /\ r.top = k.top /\ o \in Priority
  BY <1>1 DEF Keeps, KernelFields, StateLists, Good, Sound, Shape
<1>3. ByPriority(r)
  BY <1>1, <1>2 DEF Good, ByPriority
<1>4. ASSUME NEW q \in Priority, q # o PROVE q \in r.top <=> ReadyAt(r, q) # {}
  <2>1. t \notin ReadyAt(k, q)
    BY <1>4 DEF Good, ByPriority
  <2>2. QED
    BY <1>1, <1>2, <2>1 DEF Good, TopRight
<1>5. r.ready[o].items = << >> <=> ReadyAt(r, o) = {}
  <2>1. r.ready[o].items \in Seq(Task)
    BY <1>1, <1>2 DEF Sound, Shape, IsReadyList, IsList
  <2>2. QED
    BY <2>1, ItemsEmpty DEF ReadyAt
<1>6. ReadyAt(r, o) # {} => o \in r.top
  BY <1>1, <1>2 DEF Good, TopRight
<1>7. CASE LeavesListEmpty(k, t) /\ ReadyAt(r, o) = {}
  <2>1. j = portRESET_READY_PRIORITY(r, o)
    BY <1>5, <1>7 DEF taskRESET_READY_PRIORITY
  <2>2. Keeps(j, r, {"top"}) /\ Good(j)
    BY <1>1, <1>2, <1>3, <1>4, <1>7, <2>1, ResetIs
  <2> HIDE DEF j
  <2>3. /\ j.ready = r.ready /\ j.delayed = r.delayed /\ j.overflow = r.overflow
        /\ j.suspended = r.suspended /\ j.termination = r.termination /\ j.wake = r.wake
    BY <2>2 DEF Keeps, KernelFields
  <2>4. Leaves(j, k, t) /\ \A p \in Priority : ReadyAt(j, p) = ReadyAt(k, p) \ {t}
    BY <1>1, <2>3 DEF Leaves, ReadyAt
  <2>5. Keeps(j, k, StateLists \cup {"top"})
    BY <1>1, <2>2 DEF Keeps, StateLists
  <2>6. j = RemoveFromAnyList(k, t)
    BY DEF j, r, RemoveFromAnyList
  <2>7. QED
    BY <1>1, <2>2, <2>3, <2>4, <2>5, <2>6
<1>8. CASE ~(LeavesListEmpty(k, t) /\ ReadyAt(r, o) = {})
  <2>1. j = r
    BY <1>5, <1>8 DEF taskRESET_READY_PRIORITY
  <2>2. ASSUME ReadyAt(r, o) = {} PROVE o \notin r.top
    <3>1. ~LeavesListEmpty(k, t)
      BY <1>8, <2>2
    <3>2. t \notin ReadyAt(k, o)
      <4> SUFFICES ASSUME t \in ReadyAt(k, o) PROVE FALSE
        OBVIOUS
      <4>1. ReadyAt(k, o) = {t}
        BY <1>1, <1>2, <2>2
      <4>2. QED
        BY <1>2, <3>1, <4>1, LeavesEmptyIs DEF Good
    <3>3. ReadyAt(k, o) = {}
      BY <1>1, <1>2, <2>2, <3>2
    <3>4. QED
      BY <1>2, <3>3 DEF Good, TopRight
  <2>3. TopRight(r)
    BY <1>4, <1>6, <2>2 DEF TopRight
  <2>4. Good(r)
    BY <1>1, <1>3, <2>3 DEF Good
  <2>5. Keeps(r, k, StateLists \cup {"top"})
    BY <1>1 DEF Keeps, StateLists
  <2>6. j = RemoveFromAnyList(k, t)
    BY DEF r, RemoveFromAnyList
  <2> HIDE DEF j
  <2>7. QED
    BY <1>1, <2>1, <2>4, <2>5, <2>6
<1>9. QED
  BY <1>7, <1>8

\* The current task, which is ready, leaves its ready list.
Unready(k) ==
    LET t == k.current
        r == RemoveStateItem(k, t)
    IN  IF LeavesListEmpty(k, t) THEN portRESET_READY_PRIORITY(r, k.priority[t]) ELSE r

CurrentIsReady(k) ==
    /\ k.current \in Task
    /\ k.current \in ReadyAt(k, k.priority[k.current])

LEMMA UnreadyIs ==
    ASSUME NEW k, Good(k), CurrentIsReady(k)
    PROVE  /\ Keeps(Unready(k), k, StateLists \cup {"top"})
           /\ Good(Unready(k))
           /\ Leaves(Unready(k), k, k.current)
           /\ \A p \in Priority : ReadyAt(Unready(k), p) = ReadyAt(k, p) \ {k.current}
           /\ Unready(k).wake = [k.wake EXCEPT ![k.current] = 0]
<1> DEFINE t == k.current
           r == RemoveStateItem(k, t)
           o == k.priority[t]
           j == Unready(k)
<1>0. t \in Task /\ t \in ReadyAt(k, o)
  BY DEF CurrentIsReady
<1>1. /\ Keeps(r, k, StateLists)
      /\ Sound(r)
      /\ \A p \in Priority : ReadyAt(r, p) = ReadyAt(k, p) \ {t}
      /\ Leaves(r, k, t)
      /\ r.wake = [k.wake EXCEPT ![t] = 0]
  BY <1>0, RemoveStateItemIs DEF Good
<1>2. j = IF LeavesListEmpty(k, t) THEN portRESET_READY_PRIORITY(r, o) ELSE r
  BY DEF Unready
<1> HIDE DEF r, j
<1>3. r.priority = k.priority /\ r.top = k.top /\ o \in Priority
  BY <1>0, <1>1 DEF Keeps, KernelFields, StateLists, Good, Sound, Shape
<1>4. ByPriority(r)
  BY <1>1, <1>3 DEF Good, ByPriority
<1>5. ASSUME NEW q \in Priority, q # o PROVE q \in r.top <=> ReadyAt(r, q) # {}
  <2>1. t \notin ReadyAt(k, q)
    BY <1>5 DEF Good, ByPriority
  <2>2. QED
    BY <1>1, <1>3, <2>1 DEF Good, TopRight
<1>6. LeavesListEmpty(k, t) <=> ReadyAt(r, o) = {}
  <2>1. LeavesListEmpty(k, t) <=> ReadyAt(k, o) = {t}
    BY <1>0, <1>3, LeavesEmptyIs DEF Good
  <2>2. ReadyAt(k, o) = {t} <=> ReadyAt(r, o) = {}
    BY <1>0, <1>1, <1>3
  <2>3. QED
    BY <2>1, <2>2
<1>7. CASE LeavesListEmpty(k, t)
  <2>1. j = portRESET_READY_PRIORITY(r, o)
    BY <1>2, <1>7
  <2>2. Keeps(j, r, {"top"}) /\ Good(j)
    BY <1>1, <1>3, <1>4, <1>5, <1>6, <1>7, <2>1, ResetIs
  <2>3. /\ j.ready = r.ready /\ j.delayed = r.delayed /\ j.overflow = r.overflow
        /\ j.suspended = r.suspended /\ j.termination = r.termination /\ j.wake = r.wake
    BY <2>2 DEF Keeps, KernelFields
  <2>4. Leaves(j, k, t) /\ \A p \in Priority : ReadyAt(j, p) = ReadyAt(k, p) \ {t}
    BY <1>1, <2>3 DEF Leaves, ReadyAt
  <2>5. Keeps(j, k, StateLists \cup {"top"})
    BY <1>1, <2>2 DEF Keeps, StateLists
  <2>6. QED
    BY <1>1, <2>2, <2>3, <2>4, <2>5 DEF j
<1>8. CASE ~LeavesListEmpty(k, t)
  <2>1. j = r
    BY <1>2, <1>8
  <2>2. o \in r.top /\ ReadyAt(r, o) # {}
    BY <1>0, <1>3, <1>6, <1>8 DEF Good, TopRight
  <2>3. TopRight(r)
    BY <1>5, <2>2 DEF TopRight
  <2>4. Good(r)
    BY <1>1, <1>4, <2>3 DEF Good
  <2>5. Keeps(r, k, StateLists \cup {"top"})
    BY <1>1 DEF Keeps, StateLists
  <2>6. QED
    BY <1>1, <2>1, <2>4, <2>5 DEF j
<1>9. QED
  BY <1>7, <1>8

\* What is asked of the kernel state for the ready lists and the bits.
LEMMA ReadySame ==
    ASSUME NEW j, NEW k, Good(k), j.ready = k.ready, j.top = k.top,
           j.priority = k.priority
    PROVE  /\ ByPriority(j) /\ TopRight(j)
           /\ \A p \in Priority : ReadyAt(j, p) = ReadyAt(k, p)
BY DEF Good, ByPriority, TopRight, ReadyAt

\* Where a task goes that blocks for a number of ticks.
WakeAt(k, ticks) == (k.tick + ticks) % TickMod
Forever(ticks, indefinitely) == ticks = portMAX_DELAY /\ indefinitely

DelayFields == StateLists \cup {"top", "unblock"}

\* What prvAddCurrentTaskToDelayedList does to the times.
DelayedFor(j, k, ticks, indefinitely) ==
    LET t == k.current
        w == WakeAt(k, ticks)
    IN  /\ Forever(ticks, indefinitely) =>
             /\ Elements(j.suspended) = Elements(k.suspended) \cup {t}
             /\ j.delayed = k.delayed /\ j.overflow = k.overflow
             /\ j.wake = [k.wake EXCEPT ![t] = 0] /\ j.unblock = k.unblock
        /\ ~Forever(ticks, indefinitely) =>
             /\ j.suspended = k.suspended
             /\ j.wake = [k.wake EXCEPT ![t] = w]
             /\ w < k.tick =>
                  /\ Elements(j.overflow) = Elements(k.overflow) \cup {t}
                  /\ j.delayed = k.delayed /\ j.unblock = k.unblock
             /\ ~(w < k.tick) =>
                  /\ Elements(j.delayed) = Elements(k.delayed) \cup {t}
                  /\ j.overflow = k.overflow
                  /\ j.unblock = IF w < k.unblock THEN w ELSE k.unblock

LEMMA DelayIs ==
    ASSUME NEW k, Good(k), CurrentIsReady(k), k.tick \in Int, k.unblock \in Int,
           NEW ticks \in Int, NEW indefinitely
    PROVE  LET j == prvAddCurrentTaskToDelayedList(k, ticks, indefinitely)
           IN  /\ Keeps(j, k, DelayFields)
               /\ Good(j)
               /\ \A p \in Priority : ReadyAt(j, p) = ReadyAt(k, p) \ {k.current}
               /\ j.termination = k.termination
               /\ DelayedFor(j, k, ticks, indefinitely)
<1> DEFINE t == k.current
           w == WakeAt(k, ticks)
           s == Unready(k)
           v == [s EXCEPT !.wake[t] = w]
           j == prvAddCurrentTaskToDelayedList(k, ticks, indefinitely)
<1>1. t \in Task /\ w \in Int
  BY TickAssumption DEF CurrentIsReady, WakeAt
<1>2. /\ Keeps(s, k, StateLists \cup {"top"})
      /\ Good(s)
      /\ Leaves(s, k, t)
      /\ \A p \in Priority : ReadyAt(s, p) = ReadyAt(k, p) \ {t}
      /\ s.wake = [k.wake EXCEPT ![t] = 0]
  BY UnreadyIs
<1>3. j = IF Forever(ticks, indefinitely) THEN [s EXCEPT !.suspended = Append(@, t)]
          ELSE IF v.wake[t] < k.tick
            THEN [v EXCEPT !.overflow = SortedInsert(@, t, v.wake)]
          ELSE [v EXCEPT !.delayed = SortedInsert(@, t, v.wake),
                         !.unblock = IF v.wake[t] < @ THEN v.wake[t] ELSE @]
  BY DEF prvAddCurrentTaskToDelayedList, Unready, Forever, WakeAt
<1> HIDE DEF s, j
<1>4. /\ DOMAIN s = KernelFields /\ s.priority = k.priority /\ s.unblock = k.unblock
      /\ s.pending = k.pending /\ s.events = k.events /\ s.top \subseteq Priority
  BY <1>2 DEF Keeps, KernelFields, StateLists, Good, Sound, Shape
<1>5. /\ t \notin Elements(k.delayed) /\ t \notin Elements(k.overflow)
      /\ t \notin Elements(k.suspended) /\ t \notin Elements(k.termination)
  BY <1>1 DEF CurrentIsReady, Good, Sound, Shape, Apart
<1>6. /\ s.delayed = k.delayed /\ s.overflow = k.overflow
      /\ s.suspended = k.suspended /\ s.termination = k.termination
  BY <1>2, <1>5, WithoutAbsent DEF Leaves
<1>7. Nowhere(s, t) /\ Sound(s)
  BY <1>2, NowhereIs DEF Leaves, Good
<1>8. /\ IsList(k.delayed, Task) /\ IsList(k.overflow, Task)
      /\ IsList(k.suspended, Task) /\ IsList(k.termination, Task)
      /\ k.wake \in [Task -> Int]
      /\ Sorted(s.delayed, s.wake) /\ Sorted(s.overflow, s.wake)
      /\ Sorted(k.delayed, k.wake) /\ Sorted(k.overflow, k.wake)
      /\ s.wake \in [Task -> Int]
  BY <1>7 DEF Good, Sound, Shape
<1>9. CASE Forever(ticks, indefinitely)
  <2>1. j = [s EXCEPT !.suspended = Append(s.suspended, t)]
    BY <1>3, <1>9
  <2>2. Keeps(j, s, {"suspended"}) /\ j.suspended = Append(k.suspended, t)
    BY <1>4, <1>6, <2>1 DEF Keeps, KernelFields
  <2>3. /\ j.ready = s.ready /\ j.top = s.top /\ j.priority = s.priority
        /\ j.delayed = s.delayed /\ j.overflow = s.overflow
        /\ j.termination = s.termination /\ j.pending = s.pending
        /\ j.events = s.events /\ j.wake = s.wake /\ j.unblock = s.unblock
        /\ DOMAIN j = KernelFields
    BY <2>2 DEF Keeps, KernelFields
  <2> HIDE DEF t, w
  <2>4. IsList(j.suspended, Task) /\ Elements(j.suspended) = Elements(k.suspended) \cup {t}
    BY <1>1, <1>5, <1>8, <2>2, AppendIs
  <2>5. Sound(j)
    <3> DEFINE A == {}
               B == {}
               C == {t}
               D == {}
    <3>1. /\ A \in {{}, {t}} /\ B \in {{}, {t}} /\ C \in {{}, {t}} /\ D \in {{}, {t}}
          /\ A # {} => B = {} /\ C = {} /\ D = {}
          /\ B # {} => C = {} /\ D = {}
          /\ C # {} => D = {}
      OBVIOUS
    <3>2. /\ Elements(j.delayed) = Elements(s.delayed) \cup A
          /\ Elements(j.overflow) = Elements(s.overflow) \cup B
          /\ Elements(j.suspended) = Elements(s.suspended) \cup C
          /\ Elements(j.termination) = Elements(s.termination) \cup D
      BY <1>6, <2>3, <2>4
    <3>3. /\ IsList(j.delayed, Task) /\ IsList(j.overflow, Task)
          /\ IsList(j.suspended, Task) /\ IsList(j.termination, Task)
          /\ Sorted(j.delayed, j.wake) /\ Sorted(j.overflow, j.wake)
          /\ j.wake \in [Task -> Int] /\ j.top \subseteq Priority
      BY <1>4, <1>6, <1>8, <2>3, <2>4
    <3> HIDE DEF A, B, C, D
    <3>4. QED
      BY <1>7, <2>3, <3>1, <3>2, <3>3, PutInList
  <2>6. Good(j) /\ \A p \in Priority : ReadyAt(j, p) = ReadyAt(s, p)
    BY <1>2, <2>3, <2>5, ReadySame DEF Good
  <2>7. Keeps(j, k, DelayFields)
    BY <1>2, <2>2 DEF Keeps, DelayFields, StateLists
  <2>8. QED
    BY <1>2, <1>4, <1>6, <1>9, <2>3, <2>4, <2>6, <2>7 DEF DelayedFor, j, t
<1>10. CASE ~Forever(ticks, indefinitely)
  <2>1. /\ DOMAIN v = KernelFields
        /\ Keeps(v, s, {"wake"})
        /\ v.wake = [k.wake EXCEPT ![t] = w] /\ v.wake[t] = w
    BY <1>1, <1>2, <1>4, <1>8 DEF Keeps, KernelFields
  <2>2. /\ v.ready = s.ready /\ v.top = s.top /\ v.priority = s.priority
        /\ v.delayed = s.delayed /\ v.overflow = s.overflow /\ v.suspended = s.suspended
        /\ v.termination = s.termination /\ v.pending = s.pending
        /\ v.events = s.events /\ v.unblock = s.unblock
    BY <2>1 DEF Keeps, KernelFields
  <2> HIDE DEF v, t, w
  <2>3. v.wake \in [Task -> Int] /\ Sorted(v.delayed, v.wake) /\ Sorted(v.overflow, v.wake)
    BY <1>1, <1>5, <1>6, <1>8, <2>1, <2>2, SortedExcept
  <2>4. CASE w < k.tick
    <3>1. j = [v EXCEPT !.overflow = SortedInsert(v.overflow, t, v.wake)]
      BY <1>3, <1>10, <2>1, <2>4
    <3>2. Keeps(j, v, {"overflow"}) /\ j.overflow = SortedInsert(k.overflow, t, v.wake)
      BY <1>6, <2>1, <2>2, <3>1 DEF Keeps, KernelFields
    <3>3. /\ j.ready = s.ready /\ j.top = s.top /\ j.priority = s.priority
          /\ j.delayed = s.delayed /\ j.suspended = s.suspended
          /\ j.termination = s.termination /\ j.pending = s.pending
          /\ j.events = s.events /\ j.wake = v.wake /\ j.unblock = s.unblock
          /\ DOMAIN j = KernelFields
      BY <2>2, <3>2 DEF Keeps, KernelFields
    <3>4. /\ IsList(j.overflow, Task) /\ Elements(j.overflow) = Elements(k.overflow) \cup {t}
          /\ Sorted(j.overflow, j.wake)
      BY <1>1, <1>5, <1>6, <1>8, <2>2, <2>3, <3>2, <3>3, SortedInsertIs
    <3>5. Sound(j)
      <4> DEFINE A == {}
                 B == {t}
                 C == {}
                 D == {}
      <4>1. /\ A \in {{}, {t}} /\ B \in {{}, {t}} /\ C \in {{}, {t}} /\ D \in {{}, {t}}
            /\ A # {} => B = {} /\ C = {} /\ D = {}
            /\ B # {} => C = {} /\ D = {}
            /\ C # {} => D = {}
        OBVIOUS
      <4>2. /\ Elements(j.delayed) = Elements(s.delayed) \cup A
            /\ Elements(j.overflow) = Elements(s.overflow) \cup B
            /\ Elements(j.suspended) = Elements(s.suspended) \cup C
            /\ Elements(j.termination) = Elements(s.termination) \cup D
        BY <1>6, <3>3, <3>4
      <4>3. /\ IsList(j.delayed, Task) /\ IsList(j.overflow, Task)
            /\ IsList(j.suspended, Task) /\ IsList(j.termination, Task)
            /\ Sorted(j.delayed, j.wake) /\ Sorted(j.overflow, j.wake)
            /\ j.wake \in [Task -> Int] /\ j.top \subseteq Priority
        BY <1>4, <1>6, <1>8, <2>2, <2>3, <3>3, <3>4
      <4> HIDE DEF A, B, C, D
      <4>4. QED
        BY <1>7, <3>3, <4>1, <4>2, <4>3, PutInList
    <3>6. Good(j) /\ \A p \in Priority : ReadyAt(j, p) = ReadyAt(s, p)
      BY <1>2, <3>3, <3>5, ReadySame DEF Good
    <3>7. Keeps(j, k, DelayFields)
      BY <1>2, <2>1, <3>2 DEF Keeps, DelayFields, StateLists
    <3>8. QED
      BY <1>2, <1>4, <1>6, <1>10, <2>1, <2>4, <3>3, <3>4, <3>6, <3>7 DEF DelayedFor, j, t, w
  <2>5. CASE ~(w < k.tick)
    <3>1. j = [v EXCEPT !.delayed = SortedInsert(v.delayed, t, v.wake),
                        !.unblock = IF w < v.unblock THEN w ELSE v.unblock]
      BY <1>3, <1>10, <2>1, <2>5
    <3>2. /\ Keeps(j, v, {"delayed", "unblock"})
          /\ j.delayed = SortedInsert(k.delayed, t, v.wake)
          /\ j.unblock = IF w < k.unblock THEN w ELSE k.unblock
      BY <1>4, <1>6, <2>1, <2>2, <3>1 DEF Keeps, KernelFields
    <3>3. /\ j.ready = s.ready /\ j.top = s.top /\ j.priority = s.priority
          /\ j.overflow = s.overflow /\ j.suspended = s.suspended
          /\ j.termination = s.termination /\ j.pending = s.pending
          /\ j.events = s.events /\ j.wake = v.wake
          /\ DOMAIN j = KernelFields
      BY <2>2, <3>2 DEF Keeps, KernelFields
    <3>4. /\ IsList(j.delayed, Task) /\ Elements(j.delayed) = Elements(k.delayed) \cup {t}
          /\ Sorted(j.delayed, j.wake)
      BY <1>1, <1>5, <1>6, <1>8, <2>2, <2>3, <3>2, <3>3, SortedInsertIs
    <3>5. Sound(j)
      <4> DEFINE A == {t}
                 B == {}
                 C == {}
                 D == {}
      <4>1. /\ A \in {{}, {t}} /\ B \in {{}, {t}} /\ C \in {{}, {t}} /\ D \in {{}, {t}}
            /\ A # {} => B = {} /\ C = {} /\ D = {}
            /\ B # {} => C = {} /\ D = {}
            /\ C # {} => D = {}
        OBVIOUS
      <4>2. /\ Elements(j.delayed) = Elements(s.delayed) \cup A
            /\ Elements(j.overflow) = Elements(s.overflow) \cup B
            /\ Elements(j.suspended) = Elements(s.suspended) \cup C
            /\ Elements(j.termination) = Elements(s.termination) \cup D
        BY <1>6, <3>3, <3>4
      <4>3. /\ IsList(j.delayed, Task) /\ IsList(j.overflow, Task)
            /\ IsList(j.suspended, Task) /\ IsList(j.termination, Task)
            /\ Sorted(j.delayed, j.wake) /\ Sorted(j.overflow, j.wake)
            /\ j.wake \in [Task -> Int] /\ j.top \subseteq Priority
        BY <1>4, <1>6, <1>8, <2>2, <2>3, <3>3, <3>4
      <4> HIDE DEF A, B, C, D
      <4>4. QED
        BY <1>7, <3>3, <4>1, <4>2, <4>3, PutInList
    <3>6. Good(j) /\ \A p \in Priority : ReadyAt(j, p) = ReadyAt(s, p)
      BY <1>2, <3>3, <3>5, ReadySame DEF Good
    <3>7. Keeps(j, k, DelayFields)
      BY <1>2, <2>1, <3>2 DEF Keeps, DelayFields, StateLists
    <3>8. QED
      BY <1>2, <1>4, <1>6, <1>10, <2>1, <2>5, <3>2, <3>3, <3>4, <3>6, <3>7 DEF DelayedFor, j, t, w
  <2>6. QED
    BY <2>4, <2>5
<1>11. QED
  BY <1>9, <1>10

-----------------------------------------------------------------------------
(* Folds over a list, by what is done at each of its items *)

Step(kind, k, x) ==
    CASE kind = "wake" -> WakeFromDelay(k, x)
      [] kind = "pended" -> ReadyPended(k, x)
      [] kind = "tick" -> CatchUpTick(k, x)
      [] kind = "create" -> xTaskCreate(k, x)

\* What comes out for the items at a set of places, the last of them last.
IsFold(kind, f, k, s, n) ==
    f = [P \in SUBSET (1 .. n) |->
           IF P = {} THEN k ELSE Step(kind, f[P \ {Max(P)}], s[Max(P)])]

LEMMA LastIs ==
    ASSUME NEW n \in Nat, NEW P \in SUBSET (1 .. n), P # {}
    PROVE  /\ Max(P) \in P /\ \A m \in P : Max(P) >= m
           /\ Max(P) \in 1 .. n
           /\ P \ {Max(P)} \in SUBSET (1 .. n)
<1>1. P \subseteq 0 .. n
  OBVIOUS
<1>2. QED
  BY <1>1, MaxIs

LEMMA FoldExists ==
    ASSUME NEW kind, NEW k, NEW s
    PROVE  \A n \in Nat : \E f : IsFold(kind, f, k, s, n)
<1> DEFINE T == {n \in Nat : \E f : IsFold(kind, f, k, s, n)}
<1>1. 0 \in T
  <2>1. IsFold(kind, [P \in SUBSET (1 .. 0) |-> k], k, s, 0)
    <3>1. \A P \in SUBSET (1 .. 0) : P = {}
      OBVIOUS
    <3>2. QED
      BY <3>1 DEF IsFold
  <2>2. QED
    BY <2>1
<1>2. ASSUME NEW n \in Nat, n \in T PROVE n + 1 \in T
  <2>1. PICK f : IsFold(kind, f, k, s, n)
    BY <1>2
  <2> DEFINE g == [P \in SUBSET (1 .. n + 1) |->
                     IF n + 1 \in P THEN Step(kind, f[P \ {n + 1}], s[n + 1]) ELSE f[P]]
  <2>2. ASSUME NEW P \in SUBSET (1 .. n + 1)
        PROVE  g[P] = IF P = {} THEN k ELSE Step(kind, g[P \ {Max(P)}], s[Max(P)])
    <3>1. CASE n + 1 \in P
      <4>1. Max(P) = n + 1
        <5>1. Max(P) \in 1 .. n + 1 /\ Max(P) >= n + 1
          BY <3>1, LastIs
        <5>2. QED
          BY <5>1
      <4>2. P \ {n + 1} \in SUBSET (1 .. n) /\ P \ {n + 1} \in SUBSET (1 .. n + 1)
        OBVIOUS
      <4>3. g[P \ {n + 1}] = f[P \ {n + 1}]
        BY <4>2
      <4>4. g[P] = Step(kind, f[P \ {n + 1}], s[n + 1])
        BY <3>1
      <4> HIDE DEF g
      <4>5. QED
        BY <3>1, <4>1, <4>3, <4>4
    <3>2. CASE n + 1 \notin P
      <4>1. P \in SUBSET (1 .. n)
        BY <3>2
      <4>2. g[P] = f[P]
        BY <3>2
      <4>3. P # {} => /\ P \ {Max(P)} \in SUBSET (1 .. n)
                      /\ P \ {Max(P)} \in SUBSET (1 .. n + 1)
                      /\ n + 1 \notin P \ {Max(P)}
        BY <3>2, <4>1, LastIs
      <4>4. P # {} => g[P \ {Max(P)}] = f[P \ {Max(P)}]
        BY <4>3
      <4> HIDE DEF g
      <4>5. QED
        BY <2>1, <4>1, <4>2, <4>4 DEF IsFold
    <3>3. QED
      BY <3>1, <3>2
  <2>3. IsFold(kind, g, k, s, n + 1)
    BY <2>2 DEF IsFold
  <2>4. QED
    BY <2>3
<1> HIDE DEF T
<1>3. Nat \subseteq T
  BY <1>1, <1>2, NatInduct
<1>4. QED
  BY <1>3 DEF T

\* The states on the way, from the first to the last item.
Run(kind, h, k, s) ==
    /\ h[0] = k
    /\ \A i \in 1 .. Len(s) : h[i] = Step(kind, h[i - 1], s[i])

LEMMA RunOf ==
    ASSUME NEW kind, NEW k, NEW s, Len(s) \in Nat, NEW f, IsFold(kind, f, k, s, Len(s))
    PROVE  Run(kind, [i \in 0 .. Len(s) |-> f[1 .. i]], k, s)
<1> DEFINE h == [i \in 0 .. Len(s) |-> f[1 .. i]]
<1>1. h[0] = k
  <2>1. 1 .. 0 = {} /\ {} \in SUBSET (1 .. Len(s))
    OBVIOUS
  <2>2. f[{}] = k
    BY <2>1 DEF IsFold
  <2>3. QED
    BY <2>1, <2>2
<1>2. ASSUME NEW i \in 1 .. Len(s) PROVE h[i] = Step(kind, h[i - 1], s[i])
  <2>1. 1 .. i \in SUBSET (1 .. Len(s)) /\ 1 .. i # {}
    OBVIOUS
  <2>2. Max(1 .. i) = i
    <3>1. i \in 1 .. i
      OBVIOUS
    <3>2. Max(1 .. i) \in 1 .. i /\ Max(1 .. i) >= i
      BY <2>1, <3>1, LastIs
    <3>3. QED
      BY <3>2
  <2>3. (1 .. i) \ {i} = 1 .. i - 1
    OBVIOUS
  <2>4. f[1 .. i] = Step(kind, f[1 .. i - 1], s[i])
    BY <2>1, <2>2, <2>3 DEF IsFold
  <2>5. h[i] = f[1 .. i] /\ h[i - 1] = f[1 .. i - 1]
    OBVIOUS
  <2>6. QED
    BY <2>4, <2>5
<1>3. QED
  BY <1>1, <1>2 DEF Run

\* The folds of xTaskIncrementTick, xTaskResumeAll and main.
WakeFold(f, k, s) ==
    f = [P \in SUBSET DOMAIN s |->
           IF P = {} THEN k ELSE WakeFromDelay(f[P \ {Max(P)}], s[Max(P)])]

LEMMA WakeRun ==
    ASSUME NEW k, NEW s, Len(s) \in Nat, DOMAIN s = 1 .. Len(s)
    PROVE  \E h : Run("wake", h, k, s) /\ FoldLeft(WakeFromDelay, k, s) = h[Len(s)]
<1> DEFINE f == CHOOSE f : WakeFold(f, k, s)
           h == [i \in 0 .. Len(s) |-> f[1 .. i]]
<1>1. \A g : WakeFold(g, k, s) <=> IsFold("wake", g, k, s, Len(s))
  BY DEF WakeFold, IsFold, Step
<1>2. WakeFold(f, k, s)
  BY <1>1, FoldExists
<1>3. FoldLeft(WakeFromDelay, k, s) = f[DOMAIN s]
  BY DEF FoldLeft, MapThenFoldSet, WakeFold
<1> HIDE DEF f
<1>4. Run("wake", h, k, s)
  BY <1>1, <1>2, RunOf
<1>5. h[Len(s)] = f[DOMAIN s]
  OBVIOUS
<1>6. QED
  BY <1>3, <1>4, <1>5

PendedFold(f, k, s) ==
    f = [P \in SUBSET DOMAIN s |->
           IF P = {} THEN k ELSE ReadyPended(f[P \ {Max(P)}], s[Max(P)])]

LEMMA PendedRun ==
    ASSUME NEW k, NEW s, Len(s) \in Nat, DOMAIN s = 1 .. Len(s)
    PROVE  \E h : Run("pended", h, k, s) /\ FoldLeft(ReadyPended, k, s) = h[Len(s)]
<1> DEFINE f == CHOOSE f : PendedFold(f, k, s)
           h == [i \in 0 .. Len(s) |-> f[1 .. i]]
<1>1. \A g : PendedFold(g, k, s) <=> IsFold("pended", g, k, s, Len(s))
  BY DEF PendedFold, IsFold, Step
<1>2. PendedFold(f, k, s)
  BY <1>1, FoldExists
<1>3. FoldLeft(ReadyPended, k, s) = f[DOMAIN s]
  BY DEF FoldLeft, MapThenFoldSet, PendedFold
<1> HIDE DEF f
<1>4. Run("pended", h, k, s)
  BY <1>1, <1>2, RunOf
<1>5. h[Len(s)] = f[DOMAIN s]
  OBVIOUS
<1>6. QED
  BY <1>3, <1>4, <1>5

TickFold(f, k, s) ==
    f = [P \in SUBSET DOMAIN s |->
           IF P = {} THEN k ELSE CatchUpTick(f[P \ {Max(P)}], s[Max(P)])]

LEMMA TickRun ==
    ASSUME NEW k, NEW s, Len(s) \in Nat, DOMAIN s = 1 .. Len(s)
    PROVE  \E h : Run("tick", h, k, s) /\ FoldLeft(CatchUpTick, k, s) = h[Len(s)]
<1> DEFINE f == CHOOSE f : TickFold(f, k, s)
           h == [i \in 0 .. Len(s) |-> f[1 .. i]]
<1>1. \A g : TickFold(g, k, s) <=> IsFold("tick", g, k, s, Len(s))
  BY DEF TickFold, IsFold, Step
<1>2. TickFold(f, k, s)
  BY <1>1, FoldExists
<1>3. FoldLeft(CatchUpTick, k, s) = f[DOMAIN s]
  BY DEF FoldLeft, MapThenFoldSet, TickFold
<1> HIDE DEF f
<1>4. Run("tick", h, k, s)
  BY <1>1, <1>2, RunOf
<1>5. h[Len(s)] = f[DOMAIN s]
  OBVIOUS
<1>6. QED
  BY <1>3, <1>4, <1>5

CreateFold(f, k, s) ==
    f = [P \in SUBSET DOMAIN s |->
           IF P = {} THEN k ELSE xTaskCreate(f[P \ {Max(P)}], s[Max(P)])]

LEMMA CreateRun ==
    ASSUME NEW k, NEW s, Len(s) \in Nat, DOMAIN s = 1 .. Len(s)
    PROVE  \E h : Run("create", h, k, s) /\ FoldLeft(xTaskCreate, k, s) = h[Len(s)]
<1> DEFINE f == CHOOSE f : CreateFold(f, k, s)
           h == [i \in 0 .. Len(s) |-> f[1 .. i]]
<1>1. \A g : CreateFold(g, k, s) <=> IsFold("create", g, k, s, Len(s))
  BY DEF CreateFold, IsFold, Step
<1>2. CreateFold(f, k, s)
  BY <1>1, FoldExists
<1>3. FoldLeft(xTaskCreate, k, s) = f[DOMAIN s]
  BY DEF FoldLeft, MapThenFoldSet, CreateFold
<1> HIDE DEF f
<1>4. Run("create", h, k, s)
  BY <1>1, <1>2, RunOf
<1>5. h[Len(s)] = f[DOMAIN s]
  OBVIOUS
<1>6. QED
  BY <1>3, <1>4, <1>5

-----------------------------------------------------------------------------
(* Tasks are woken: they leave every list and are ready *)

WakeFields == StateLists \cup {"top", "pending", "events", "yield"}

\* Event lists stay sorted by whatever they were: those who are left in one stay
\* in turn.
InTurn(j, k) == \A e \in EventLists : \A w : Sorted(k.events[e], w) => Sorted(j.events[e], w)

LEMMA TurnsSame ==
    ASSUME NEW k, NEW j, j.events = k.events
    PROVE  InTurn(j, k)
BY DEF InTurn

LEMMA TurnsBoth ==
    ASSUME NEW k, NEW j, NEW i, InTurn(j, k), InTurn(i, j)
    PROVE  InTurn(i, k)
BY DEF InTurn

AreWoken(j, k, S) ==
    /\ Keeps(j, k, WakeFields)
    /\ Good(j)
    /\ InTurn(j, k)
    /\ \A p \in Priority :
         ReadyAt(j, p) = (ReadyAt(k, p) \ S) \cup {t \in S : k.priority[t] = p}
    /\ Elements(j.delayed) = Elements(k.delayed) \ S
    /\ Elements(j.overflow) = Elements(k.overflow) \ S
    /\ Elements(j.suspended) = Elements(k.suspended) \ S
    /\ Elements(j.termination) = Elements(k.termination) \ S
    /\ Elements(j.pending) = Elements(k.pending) \ S
    /\ \A e \in EventLists : Elements(j.events[e]) = Elements(k.events[e]) \ S
    /\ \A t \in Task \ S : j.wake[t] = k.wake[t]
    /\ S \cap Elements(k.termination) = {} => j.termination = k.termination

LEMMA WokenNone ==
    ASSUME NEW k, Good(k)
    PROVE  AreWoken(k, k, {})
BY TurnsSame DEF AreWoken, Good, Sound, Shape, Keeps

LEMMA WokenBoth ==
    ASSUME NEW k, NEW j, NEW i, NEW S, NEW R, AreWoken(j, k, S), AreWoken(i, j, R)
    PROVE  AreWoken(i, k, S \cup R)
<1>1. j.priority = k.priority
  BY DEF AreWoken, Keeps, KernelFields, WakeFields, StateLists
<1>2. Keeps(i, k, WakeFields)
  BY DEF AreWoken, Keeps
<1>3. \A p \in Priority :
        ReadyAt(i, p) = (ReadyAt(k, p) \ (S \cup R)) \cup {t \in S \cup R : k.priority[t] = p}
  <2> SUFFICES ASSUME NEW p \in Priority
               PROVE  ReadyAt(i, p) = (ReadyAt(k, p) \ (S \cup R))
                                        \cup {t \in S \cup R : k.priority[t] = p}
    OBVIOUS
  <2>1. ReadyAt(i, p) = (ReadyAt(j, p) \ R) \cup {t \in R : j.priority[t] = p}
    BY DEF AreWoken
  <2>2. ReadyAt(j, p) = (ReadyAt(k, p) \ S) \cup {t \in S : k.priority[t] = p}
    BY DEF AreWoken
  <2>3. QED
    BY <1>1, <2>1, <2>2
<1>4. Good(i) /\ InTurn(i, k)
  BY TurnsBoth DEF AreWoken
<1>5. /\ Elements(i.delayed) = Elements(k.delayed) \ (S \cup R)
      /\ Elements(i.overflow) = Elements(k.overflow) \ (S \cup R)
      /\ Elements(i.suspended) = Elements(k.suspended) \ (S \cup R)
      /\ Elements(i.termination) = Elements(k.termination) \ (S \cup R)
      /\ Elements(i.pending) = Elements(k.pending) \ (S \cup R)
  BY DEF AreWoken
<1>6. \A e \in EventLists : Elements(i.events[e]) = Elements(k.events[e]) \ (S \cup R)
  BY DEF AreWoken
<1>7. \A t \in Task \ (S \cup R) : i.wake[t] = k.wake[t]
  BY DEF AreWoken
<1>8. (S \cup R) \cap Elements(k.termination) = {} => i.termination = k.termination
  BY DEF AreWoken
<1>9. QED
  BY <1>2, <1>3, <1>4, <1>5, <1>6, <1>7, <1>8 DEF AreWoken

EventGone(j, k, t) ==
    /\ Keeps(j, k, {"pending", "events"})
    /\ Good(j)
    /\ InTurn(j, k)
    /\ Elements(j.pending) = Elements(k.pending) \ {t}
    /\ \A e \in EventLists : Elements(j.events[e]) = Elements(k.events[e]) \ {t}

MadeReady(j, k, t) ==
    /\ Keeps(j, k, StateLists \cup {"top"})
    /\ Good(j)
    /\ Leaves(j, k, t)
    /\ \A p \in Priority :
         ReadyAt(j, p) = (ReadyAt(k, p) \ {t}) \cup {u \in {t} : k.priority[u] = p}
    /\ j.wake = [k.wake EXCEPT ![t] = 0]

LEMMA EventGoneIs ==
    ASSUME NEW k, Good(k), NEW t \in Task
    PROVE  EventGone(RemoveEventItem(k, t), k, t)
<1> DEFINE j == RemoveEventItem(k, t)
<1>1. /\ Keeps(j, k, {"pending", "events"})
      /\ Sound(j)
      /\ Elements(j.pending) = Elements(k.pending) \ {t}
      /\ \A e \in EventLists : Elements(j.events[e]) = Elements(k.events[e]) \ {t}
  BY RemoveEventItemIs DEF Good
<1>2. InTurn(j, k)
  <2>1. DOMAIN k = KernelFields /\ \A e \in EventLists : IsList(k.events[e], Task)
    BY DEF Good, Sound, Shape
  <2>2. \A e \in EventLists : j.events[e] = Without(k.events[e], t)
    BY <2>1 DEF KernelFields, RemoveEventItem
  <2> HIDE DEF j
  <2>3. QED
    BY <2>1, <2>2, SortedWithout DEF InTurn
<1> HIDE DEF j
<1>3. j.ready = k.ready /\ j.top = k.top /\ j.priority = k.priority
  BY <1>1 DEF Keeps, KernelFields
<1>4. Good(j)
  BY <1>1, <1>3, ReadySame DEF Good
<1>5. QED
  BY <1>1, <1>2, <1>4 DEF EventGone, j

LEMMA MadeReadyIs ==
    ASSUME NEW k, Good(k), NEW t \in Task
    PROVE  MadeReady(MoveToReadyList(k, t), k, t)
<1> DEFINE j == MoveToReadyList(k, t)
<1>1. /\ Keeps(j, k, StateLists \cup {"top"})
      /\ Leaves(j, k, t)
      /\ \A p \in Priority :
           ReadyAt(j, p) = (ReadyAt(k, p) \ {t}) \cup (IF p = k.priority[t] THEN {t} ELSE {})
      /\ j.wake = [k.wake EXCEPT ![t] = 0]
      /\ Good(j)
  BY MoveToReadyIs, ZenonT(30) DEF Good
<1> HIDE DEF j
<1>2. \A p \in Priority : (IF p = k.priority[t] THEN {t} ELSE {}) = {u \in {t} : k.priority[u] = p}
  OBVIOUS
<1>3. QED
  BY <1>1, <1>2 DEF MadeReady, j

LEMMA WokenByMove ==
    ASSUME NEW k, Good(k), NEW t \in Task, NEW j, NEW i,
           \/ EventGone(j, k, t) /\ MadeReady(i, j, t)
           \/ MadeReady(j, k, t) /\ EventGone(i, j, t)
    PROVE  AreWoken(i, k, {t})
<1>1. k.wake \in [Task -> Int]
  BY DEF Good, Sound, Shape
<1>2. t \notin Elements(k.termination) => Without(k.termination, t) = k.termination
  BY WithoutAbsent
<1>3. CASE EventGone(j, k, t) /\ MadeReady(i, j, t)
  <2>1. /\ j.ready = k.ready /\ j.delayed = k.delayed /\ j.overflow = k.overflow
        /\ j.suspended = k.suspended /\ j.termination = k.termination
        /\ j.wake = k.wake /\ j.priority = k.priority
    BY <1>3 DEF EventGone, Keeps, KernelFields
  <2>2. i.pending = j.pending /\ i.events = j.events
    BY <1>3 DEF MadeReady, Keeps, KernelFields, StateLists
  <2>3. Keeps(i, k, WakeFields)
    BY <1>3 DEF EventGone, MadeReady, Keeps, WakeFields
  <2>4. \A p \in Priority : ReadyAt(j, p) = ReadyAt(k, p)
    BY <2>1 DEF ReadyAt
  <2>5. \A u \in Task \ {t} : i.wake[u] = k.wake[u]
    BY <1>1, <1>3, <2>1 DEF MadeReady
  <2>6. \A p \in Priority :
          ReadyAt(i, p) = (ReadyAt(k, p) \ {t}) \cup {u \in {t} : k.priority[u] = p}
    BY <1>3, <2>1, <2>4 DEF MadeReady
  <2>7. InTurn(i, k)
    BY <1>3, <2>2, TurnsSame, TurnsBoth DEF EventGone
  <2>8. QED
    BY <1>2, <1>3, <2>1, <2>2, <2>3, <2>5, <2>6, <2>7 DEF EventGone, MadeReady, AreWoken, Leaves
<1>4. CASE MadeReady(j, k, t) /\ EventGone(i, j, t)
  <2>1. /\ i.ready = j.ready /\ i.delayed = j.delayed /\ i.overflow = j.overflow
        /\ i.suspended = j.suspended /\ i.termination = j.termination
        /\ i.wake = j.wake /\ i.priority = j.priority
    BY <1>4 DEF EventGone, Keeps, KernelFields
  <2>2. j.pending = k.pending /\ j.events = k.events
    BY <1>4 DEF MadeReady, Keeps, KernelFields, StateLists
  <2>3. Keeps(i, k, WakeFields)
    BY <1>4 DEF EventGone, MadeReady, Keeps, WakeFields
  <2>4. \A p \in Priority : ReadyAt(i, p) = ReadyAt(j, p)
    BY <2>1 DEF ReadyAt
  <2>5. \A u \in Task \ {t} : i.wake[u] = k.wake[u]
    BY <1>1, <1>4, <2>1 DEF MadeReady
  <2>6. \A p \in Priority :
          ReadyAt(i, p) = (ReadyAt(k, p) \ {t}) \cup {u \in {t} : k.priority[u] = p}
    BY <1>4, <2>4 DEF MadeReady
  <2>7. InTurn(i, k)
    BY <1>4, <2>2, TurnsSame, TurnsBoth DEF EventGone
  <2>8. QED
    BY <1>2, <1>4, <2>1, <2>2, <2>3, <2>5, <2>6, <2>7 DEF EventGone, MadeReady, AreWoken, Leaves
<1>5. QED
  BY <1>3, <1>4

LEMMA WakeFromDelayIs ==
    ASSUME NEW k, Good(k), NEW t \in Task
    PROVE  AreWoken(WakeFromDelay(k, t), k, {t}) /\ WakeFromDelay(k, t).yield = k.yield
<1> DEFINE j == MoveToReadyList(k, t)
           i == RemoveEventItem(j, t)
<1>1. MadeReady(j, k, t)
  BY MadeReadyIs
<1>2. EventGone(i, j, t)
  BY <1>1, EventGoneIs DEF MadeReady
<1>3. i = WakeFromDelay(k, t)
  BY DEF WakeFromDelay
<1> HIDE DEF i, j
<1>4. i.yield = k.yield
  BY <1>1, <1>2 DEF MadeReady, EventGone, Keeps, KernelFields, StateLists
<1>5. QED
  BY <1>1, <1>2, <1>3, <1>4, WokenByMove

\* What is asked of a state does not depend on the flags.
LEMMA FlagsSame ==
    ASSUME NEW k, Good(k), NEW j, NEW changed,
           Keeps(j, k, changed),
           changed \subseteq {"yield", "pendsv", "pended", "tick", "suspensions", "current",
                              "value", "notify", "count", "cleanup", "unblock", "overflows",
                              "running", "event", "base", "bits", "mutexes"}
    PROVE  /\ Good(j)
           /\ \A p \in Priority : ReadyAt(j, p) = ReadyAt(k, p)
           /\ j.ready = k.ready /\ j.delayed = k.delayed /\ j.overflow = k.overflow
           /\ j.suspended = k.suspended /\ j.termination = k.termination
           /\ j.pending = k.pending /\ j.events = k.events
           /\ j.wake = k.wake /\ j.priority = k.priority /\ j.top = k.top
<1>1. /\ j.ready = k.ready /\ j.delayed = k.delayed /\ j.overflow = k.overflow
      /\ j.suspended = k.suspended /\ j.termination = k.termination
      /\ j.pending = k.pending /\ j.events = k.events
      /\ j.wake = k.wake /\ j.priority = k.priority /\ j.top = k.top
      /\ DOMAIN j = KernelFields
  BY DEF Keeps, KernelFields
<1>2. Shape(j)
  BY <1>1 DEF Good, Sound, Shape
<1>3. Apart(j)
  BY <1>1 DEF Good, Sound, Apart, ReadyAt
<1>4. ByPriority(j) /\ TopRight(j) /\ \A p \in Priority : ReadyAt(j, p) = ReadyAt(k, p)
  BY <1>1, ReadySame
<1>5. QED
  BY <1>1, <1>2, <1>3, <1>4 DEF Good, Sound

LEMMA ReadyPendedIs ==
    ASSUME NEW k, Good(k), NEW t \in Task
    PROVE  /\ AreWoken(ReadyPended(k, t), k, {t})
           /\ ReadyPended(k, t).yield
                <=> k.yield \/ k.priority[t] >= k.priority[k.current]
<1> DEFINE j == RemoveEventItem(k, t)
           i == MoveToReadyList(j, t)
           r == ReadyPended(k, t)
<1>1. EventGone(j, k, t)
  BY EventGoneIs
<1>2. MadeReady(i, j, t)
  BY <1>1, MadeReadyIs DEF EventGone
<1>3. r = [i EXCEPT !.yield = i.yield \/ k.priority[t] >= k.priority[k.current]]
  BY DEF ReadyPended
<1> HIDE DEF i, j, r
<1>4. i.yield = k.yield
  BY <1>1, <1>2 DEF MadeReady, EventGone, Keeps, KernelFields, StateLists
<1>5. AreWoken(i, k, {t})
  BY <1>1, <1>2, WokenByMove
<1>6. DOMAIN i = KernelFields
  BY <1>5 DEF AreWoken, Keeps
<1>7. Keeps(r, i, {"yield"}) /\ r.yield = (i.yield \/ k.priority[t] >= k.priority[k.current])
  BY <1>3, <1>6 DEF Keeps, KernelFields
<1>8. /\ Good(r)
      /\ \A p \in Priority : ReadyAt(r, p) = ReadyAt(i, p)
      /\ r.ready = i.ready /\ r.delayed = i.delayed /\ r.overflow = i.overflow
      /\ r.suspended = i.suspended /\ r.termination = i.termination
      /\ r.pending = i.pending /\ r.events = i.events
      /\ r.wake = i.wake /\ r.priority = i.priority /\ r.top = i.top
  BY <1>5, <1>7, FlagsSame DEF AreWoken
<1>9. Keeps(r, k, WakeFields)
  BY <1>5, <1>7 DEF AreWoken, Keeps, WakeFields
<1>10. AreWoken(r, k, {t})
  <2>1. InTurn(r, k)
    BY <1>5, <1>8, TurnsSame, TurnsBoth DEF AreWoken
  <2>2. QED
    BY <1>5, <1>8, <1>9, <2>1 DEF AreWoken
<1>11. QED
  BY <1>4, <1>7, <1>10 DEF r

\* The first tasks of a list.
Firsts(s, n) == {s[i] : i \in 1 .. n}

LEMMA FirstsNext ==
    ASSUME NEW s, NEW n \in Nat
    PROVE  Firsts(s, n + 1) = Firsts(s, n) \cup {s[n + 1]}
<1>1. 1 .. n + 1 = (1 .. n) \cup {n + 1}
  OBVIOUS
<1>2. QED
  BY <1>1 DEF Firsts

\* What the tasks of a list add to xYieldPending when each is made ready.
YieldFor(kind, k, S) ==
    kind = "pended" /\ \E t \in S : k.priority[t] >= k.priority[k.current]

LEMMA RunWakes ==
    ASSUME NEW kind \in {"wake", "pended"}, NEW k, Good(k), NEW s \in Seq(Task),
           NEW h, Run(kind, h, k, s)
    PROVE  \A n \in 0 .. Len(s) :
               /\ AreWoken(h[n], k, Firsts(s, n))
               /\ h[n].yield <=> k.yield \/ YieldFor(kind, k, Firsts(s, n))
<1> DEFINE At(n) == /\ AreWoken(h[n], k, Firsts(s, n))
                    /\ h[n].yield <=> k.yield \/ YieldFor(kind, k, Firsts(s, n))
           T == {n \in Nat : n <= Len(s) => At(n)}
<1>0. Len(s) \in Nat
  OBVIOUS
<1>1. 0 \in T
  <2>1. Firsts(s, 0) = {}
    BY DEF Firsts
  <2>2. h[0] = k
    BY DEF Run
  <2>3. ~YieldFor(kind, k, {})
    BY DEF YieldFor
  <2>4. At(0)
    BY <2>1, <2>2, <2>3, WokenNone
  <2>5. QED
    BY <2>4
<1>2. ASSUME NEW n \in Nat, n \in T PROVE n + 1 \in T
  <2> SUFFICES ASSUME n + 1 <= Len(s) PROVE At(n + 1)
    OBVIOUS
  <2> DEFINE t == s[n + 1]
             S == Firsts(s, n)
  <2>1. At(n)
    BY <1>0, <1>2
  <2>2. n + 1 \in 1 .. Len(s) /\ n + 1 - 1 = n /\ t \in Task
    BY <1>0
  <2>3. h[n + 1] = Step(kind, h[n], t)
    BY <2>2 DEF Run
  <2>4. Good(h[n])
    BY <2>1 DEF AreWoken
  <2>5. Firsts(s, n + 1) = S \cup {t}
    BY FirstsNext
  <2>6. h[n].priority = k.priority /\ h[n].current = k.current
    BY <2>1 DEF AreWoken, Keeps, KernelFields, WakeFields, StateLists
  <2> HIDE DEF t, S
  <2>7. /\ AreWoken(h[n + 1], h[n], {t})
        /\ h[n + 1].yield <=> h[n].yield \/ YieldFor(kind, k, {t})
    <3>1. CASE kind = "wake"
      BY <2>2, <2>3, <2>4, <3>1, WakeFromDelayIs DEF Step, YieldFor
    <3>2. CASE kind = "pended"
      <4>1. h[n + 1] = ReadyPended(h[n], t)
        BY <2>3, <3>2 DEF Step
      <4>2. /\ AreWoken(ReadyPended(h[n], t), h[n], {t})
            /\ ReadyPended(h[n], t).yield
                 <=> h[n].yield \/ k.priority[t] >= k.priority[k.current]
        BY <2>2, <2>4, <2>6, ReadyPendedIs
      <4>3. YieldFor(kind, k, {t}) <=> k.priority[t] >= k.priority[k.current]
        BY <3>2 DEF YieldFor
      <4>4. QED
        BY <4>1, <4>2, <4>3
    <3>3. QED
      BY <3>1, <3>2
  <2>8. AreWoken(h[n + 1], k, S \cup {t})
    BY <2>1, <2>7, WokenBoth DEF S
  <2>9. YieldFor(kind, k, S \cup {t}) <=> YieldFor(kind, k, S) \/ YieldFor(kind, k, {t})
    BY DEF YieldFor
  <2>10. h[n].yield <=> k.yield \/ YieldFor(kind, k, S)
    BY <2>1 DEF S
  <2>11. h[n + 1].yield <=> k.yield \/ YieldFor(kind, k, S \cup {t})
    BY <2>7, <2>9, <2>10
  <2>12. QED
    BY <2>5, <2>8, <2>11
<1> HIDE DEF T
<1>3. Nat \subseteq T
  BY <1>1, <1>2, NatInduct
<1>4. QED
  BY <1>0, <1>3 DEF T

LEMMA FirstsAll ==
    ASSUME NEW S, NEW s \in Seq(S)
    PROVE  Firsts(s, Len(s)) = Elements(s)
BY DEF Firsts, Elements

\* The tasks that are due, and those that were pended, are made ready.
LEMMA WakeAllIs ==
    ASSUME NEW k, Good(k), NEW s \in Seq(Task)
    PROVE  /\ AreWoken(FoldLeft(WakeFromDelay, k, s), k, Elements(s))
           /\ FoldLeft(WakeFromDelay, k, s).yield <=> k.yield
<1>1. Len(s) \in Nat /\ DOMAIN s = 1 .. Len(s)
  OBVIOUS
<1>2. PICK h : Run("wake", h, k, s) /\ FoldLeft(WakeFromDelay, k, s) = h[Len(s)]
  BY <1>1, WakeRun
<1>3. /\ AreWoken(h[Len(s)], k, Firsts(s, Len(s)))
      /\ h[Len(s)].yield <=> k.yield \/ YieldFor("wake", k, Firsts(s, Len(s)))
  BY <1>1, <1>2, RunWakes
<1>4. ~YieldFor("wake", k, Firsts(s, Len(s)))
  BY DEF YieldFor
<1>5. QED
  BY <1>2, <1>3, <1>4, FirstsAll

LEMMA PendedAllIs ==
    ASSUME NEW k, Good(k), NEW s \in Seq(Task)
    PROVE  /\ AreWoken(FoldLeft(ReadyPended, k, s), k, Elements(s))
           /\ FoldLeft(ReadyPended, k, s).yield
                <=> \/ k.yield
                    \/ \E t \in Elements(s) : k.priority[t] >= k.priority[k.current]
<1>1. Len(s) \in Nat /\ DOMAIN s = 1 .. Len(s)
  OBVIOUS
<1>2. PICK h : Run("pended", h, k, s) /\ FoldLeft(ReadyPended, k, s) = h[Len(s)]
  BY <1>1, PendedRun
<1>3. /\ AreWoken(h[Len(s)], k, Firsts(s, Len(s)))
      /\ h[Len(s)].yield <=> k.yield \/ YieldFor("pended", k, Firsts(s, Len(s)))
  BY <1>1, <1>2, RunWakes
<1>4. YieldFor("pended", k, Firsts(s, Len(s)))
        <=> \E t \in Elements(s) : k.priority[t] >= k.priority[k.current]
  BY FirstsAll DEF YieldFor
<1>5. QED
  BY <1>2, <1>3, <1>4, FirstsAll

-----------------------------------------------------------------------------
(* Time *)

\* The head of the delayed list that is due: all the tasks whose time has come.
LEMMA DueIs ==
    ASSUME NEW k, Shape(k), k.tick \in Int
    PROVE  /\ DueTasks(k) \in Seq(Task)
           /\ Elements(DueTasks(k)) = {t \in Elements(k.delayed) : k.wake[t] <= k.tick}
<1> DEFINE s == k.delayed
           later == {i \in DOMAIN s : k.wake[s[i]] > k.tick}
           m == Min(later)
<1>1. /\ s \in Seq(Task) /\ Len(s) \in Nat /\ DOMAIN s = 1 .. Len(s) /\ Sorted(s, k.wake)
      /\ \A i \in 1 .. Len(s) : k.wake[s[i]] \in Int
  BY DEF Shape, IsList
<1>2. CASE later = {}
  <2>1. DueTasks(k) = s
    BY <1>2 DEF DueTasks
  <2>2. \A i \in DOMAIN s : ~(k.wake[s[i]] > k.tick)
    BY <1>2
  <2>3. \A i \in DOMAIN s : k.wake[s[i]] <= k.tick
    BY <1>1, <2>2
  <2>4. QED
    BY <1>1, <2>1, <2>3 DEF Elements
<1>3. CASE later # {}
  <2>1. later \subseteq Nat
    BY <1>1
  <2>2. m \in later /\ \A i \in later : m <= i
    BY <1>3, <2>1, MinIs
  <2>3. DueTasks(k) = SubSeq(s, 1, m - 1)
    BY <1>3 DEF DueTasks
  <2>4. m \in 1 .. Len(s) /\ k.wake[s[m]] > k.tick
    BY <1>1, <2>2
  <2> HIDE DEF m
  <2>5. ASSUME NEW i \in DOMAIN s, i < m PROVE ~(k.wake[s[i]] > k.tick)
    <3>1. k.wake[s[i]] > k.tick => i \in later
      OBVIOUS
    <3>2. i \in later => m <= i
      BY <2>2
    <3>3. ~(m <= i)
      BY <1>1, <2>4, <2>5
    <3>4. QED
      BY <3>1, <3>2, <3>3
  <2> HIDE DEF later
  <2>6. \A i \in DOMAIN s : i < m <=> k.wake[s[i]] <= k.tick
    <3>1. ASSUME NEW i \in DOMAIN s, i < m PROVE k.wake[s[i]] <= k.tick
      BY <1>1, <2>5, <3>1
    <3>2. ASSUME NEW i \in DOMAIN s, ~(i < m) PROVE ~(k.wake[s[i]] <= k.tick)
      <4>1. i = m \/ m < i
        BY <1>1, <2>4, <3>2
      <4>2. k.wake[s[m]] <= k.wake[s[i]]
        BY <1>1, <2>4, <4>1 DEF Sorted
      <4>3. QED
        BY <1>1, <2>4, <4>2
    <3>3. QED
      BY <3>1, <3>2
  <2>7. /\ SubSeq(s, 1, m - 1) \in Seq(Task)
        /\ DOMAIN SubSeq(s, 1, m - 1) = 1 .. m - 1
        /\ \A i \in 1 .. m - 1 : SubSeq(s, 1, m - 1)[i] = s[i]
    BY <1>1, <2>4
  <2>8. \A i \in Int : i \in 1 .. m - 1 <=> i \in DOMAIN s /\ i < m
    BY <1>1, <2>4
  <2>9. Elements(SubSeq(s, 1, m - 1)) = {t \in Elements(s) : k.wake[t] <= k.tick}
    <3> DEFINE q == SubSeq(s, 1, m - 1)
    <3>1. \A i \in DOMAIN q : q[i] = s[i] /\ i \in DOMAIN s /\ k.wake[s[i]] <= k.tick
      BY <2>6, <2>7, <2>8
    <3>2. \A i \in DOMAIN s : k.wake[s[i]] <= k.tick => i \in DOMAIN q /\ q[i] = s[i]
      BY <1>1, <2>6, <2>7, <2>8
    <3> HIDE DEF q
    <3>3. Elements(q) = {t \in Elements(s) : k.wake[t] <= k.tick}
      BY <3>1, <3>2 DEF Elements
    <3>4. QED
      BY <3>3 DEF q
  <2>10. QED
    BY <2>3, <2>7, <2>9
<1>4. QED
  BY <1>2, <1>3

\* The state when the count has gone on, and the lists have been switched if it
\* has wrapped.
Turned(k) ==
    LET ticked == [k EXCEPT !.tick = (@ + 1) % TickMod]
    IN  IF ticked.tick = 0 THEN taskSWITCH_DELAYED_LISTS(ticked) ELSE ticked

NextTick(k) == (k.tick + 1) % TickMod

\* prvResetNextTaskUnblockTime, of a list.
FirstWake(s, wake) == IF s = << >> THEN portMAX_DELAY ELSE wake[Head(s)]

\* What is asked of the clock.
Timed(k) == k.current \in Task /\ k.tick \in Int /\ k.unblock \in Int

LEMMA FirstWakeIs ==
    ASSUME NEW s, IsList(s, Task), NEW wake \in [Task -> Int]
    PROVE  FirstWake(s, wake) \in Int
<1>1. s # << >> => Head(s) \in Task
  BY DEF IsList
<1>2. portMAX_DELAY \in Int
  BY TickAssumption DEF portMAX_DELAY
<1>3. QED
  BY <1>1, <1>2 DEF FirstWake

LEMMA ResetUnblockIs ==
    ASSUME NEW k, Good(k)
    PROVE  LET j == prvResetNextTaskUnblockTime(k)
           IN  /\ Keeps(j, k, {"unblock"})
               /\ Good(j)
               /\ j.unblock = FirstWake(k.delayed, k.wake)
               /\ j.unblock \in Int
<1> DEFINE j == prvResetNextTaskUnblockTime(k)
<1>1. DOMAIN k = KernelFields /\ IsList(k.delayed, Task) /\ k.wake \in [Task -> Int]
  BY DEF Good, Sound, Shape
<1>2. Keeps(j, k, {"unblock"}) /\ j.unblock = FirstWake(k.delayed, k.wake)
  BY <1>1 DEF prvResetNextTaskUnblockTime, Keeps, KernelFields, FirstWake
<1> HIDE DEF j
<1>3. Good(j)
  BY <1>2, FlagsSame
<1>4. QED
  BY <1>1, <1>2, <1>3, FirstWakeIs DEF j

LEMMA TurnedIs ==
    ASSUME NEW k, Good(k), Timed(k)
    PROVE  /\ Keeps(Turned(k), k, {"tick", "delayed", "overflow", "overflows", "unblock"})
           /\ Good(Turned(k)) /\ Timed(Turned(k))
           /\ Turned(k).tick = NextTick(k)
           /\ NextTick(k) # 0 =>
                /\ Turned(k).delayed = k.delayed
                /\ Turned(k).overflow = k.overflow
                /\ Turned(k).unblock = k.unblock
           /\ NextTick(k) = 0 =>
                /\ Turned(k).delayed = k.overflow
                /\ Turned(k).overflow = k.delayed
                /\ Turned(k).unblock = FirstWake(k.overflow, k.wake)
<1> DEFINE a == [k EXCEPT !.tick = (@ + 1) % TickMod]
           b == [a EXCEPT !.delayed = a.overflow,
                          !.overflow = a.delayed,
                          !.overflows = (@ + 1) % OverflowMod]
<1>1. DOMAIN k = KernelFields
  BY DEF Good, Sound, Shape
<1>2. Keeps(a, k, {"tick"}) /\ a.tick = NextTick(k)
  BY <1>1 DEF Keeps, KernelFields, NextTick
<1>3. NextTick(k) \in Int
  BY TickAssumption DEF Timed, NextTick
<1>4. Turned(k) = IF a.tick = 0 THEN prvResetNextTaskUnblockTime(b) ELSE a
  BY DEF Turned, taskSWITCH_DELAYED_LISTS
<1>5. /\ Good(a)
      /\ a.delayed = k.delayed /\ a.overflow = k.overflow /\ a.wake = k.wake
      /\ a.unblock = k.unblock /\ a.current = k.current
  <2>1. Good(a) /\ a.delayed = k.delayed /\ a.overflow = k.overflow /\ a.wake = k.wake
    BY <1>2, FlagsSame
  <2>2. a.unblock = k.unblock /\ a.current = k.current
    BY <1>2 DEF Keeps, KernelFields
  <2>3. QED
    BY <2>1, <2>2
<1>6. CASE NextTick(k) # 0
  BY <1>2, <1>3, <1>4, <1>5, <1>6 DEF Timed, Keeps
<1>7. CASE NextTick(k) = 0
  <2>0. DOMAIN a = KernelFields
    BY <1>2 DEF Keeps
  <2>1. Keeps(b, a, {"delayed", "overflow", "overflows"})
        /\ b.delayed = a.overflow /\ b.overflow = a.delayed
    BY <2>0 DEF Keeps, KernelFields
  <2>2. Turned(k) = prvResetNextTaskUnblockTime(b)
    BY <1>2, <1>4, <1>7
  <2> HIDE DEF a, b
  <2>3. /\ b.ready = a.ready /\ b.suspended = a.suspended /\ b.termination = a.termination
        /\ b.pending = a.pending /\ b.events = a.events /\ b.wake = a.wake
        /\ b.priority = a.priority /\ b.top = a.top /\ DOMAIN b = KernelFields
    BY <2>1 DEF Keeps, KernelFields
  <2>4. Shape(b)
    BY <1>5, <2>1, <2>3 DEF Good, Sound, Shape
  <2>5. Apart(b)
    BY <1>5, <2>1, <2>3 DEF Good, Sound, Apart, ReadyAt
  <2>6. Good(b)
    BY <1>5, <2>3, <2>4, <2>5, ReadySame DEF Good, Sound
  <2> DEFINE c == prvResetNextTaskUnblockTime(b)
  <2>7. /\ Keeps(c, b, {"unblock"}) /\ Good(c)
        /\ c.unblock = FirstWake(b.delayed, b.wake) /\ c.unblock \in Int
    BY <2>6, ResetUnblockIs
  <2> HIDE DEF c
  <2>8. /\ c.delayed = b.delayed /\ c.overflow = b.overflow /\ c.tick = b.tick
        /\ c.current = b.current
    BY <2>7 DEF Keeps, KernelFields
  <2>9. b.tick = a.tick /\ b.current = a.current
    BY <2>1 DEF Keeps, KernelFields
  <2>10. Keeps(c, k, {"tick", "delayed", "overflow", "overflows", "unblock"})
    BY <1>2, <2>1, <2>7 DEF Keeps
  <2>11. Timed(c) /\ c.tick = NextTick(k)
    BY <1>2, <1>3, <1>5, <2>7, <2>8, <2>9 DEF Timed
  <2>12. /\ c.delayed = k.overflow /\ c.overflow = k.delayed
         /\ c.unblock = FirstWake(k.overflow, k.wake)
    BY <1>5, <2>1, <2>3, <2>7, <2>8
  <2>13. QED
    BY <1>7, <2>2, <2>7, <2>10, <2>11, <2>12 DEF c
<1>8. QED
  BY <1>6, <1>7

\* The tasks that a tick wakes.
IsTime(k) == Turned(k).tick >= Turned(k).unblock
DueAt(k) ==
    IF IsTime(k) THEN {t \in Elements(Turned(k).delayed) : k.wake[t] <= NextTick(k)} ELSE {}

\* The state in which they have been made ready, and that after it.
WokenAt(k) ==
    FoldLeft(WakeFromDelay, Turned(k), IF IsTime(k) THEN DueTasks(Turned(k)) ELSE << >>)

LEMMA TickIs ==
    ASSUME NEW k, Good(k), Timed(k), ~(k.suspensions > 0)
    PROVE  LET r == xTaskIncrementTick(k)
           IN  /\ AreWoken(WokenAt(k), Turned(k), DueAt(k))
               /\ r.k = IF IsTime(k) THEN prvResetNextTaskUnblockTime(WokenAt(k)) ELSE WokenAt(k)
               /\ WokenAt(k).yield <=> k.yield
               /\ k.yield => r.switch
               /\ (\E t \in DueAt(k) : k.priority[t] > k.priority[k.current]) => r.switch
               /\ r.switch \in BOOLEAN
<1> DEFINE l == Turned(k)
           due == IF IsTime(k) THEN DueTasks(l) ELSE << >>
           w == WokenAt(k)
           r == xTaskIncrementTick(k)
<1>1. /\ Keeps(l, k, {"tick", "delayed", "overflow", "overflows", "unblock"})
      /\ Good(l) /\ Timed(l) /\ l.tick = NextTick(k)
  BY TurnedIs
<1>2. l.wake = k.wake /\ l.yield = k.yield /\ l.priority = k.priority
  BY <1>1 DEF Keeps, KernelFields
<1>3. due \in Seq(Task) /\ Elements(due) = DueAt(k)
  <2>1. CASE IsTime(k)
    <3>1. /\ DueTasks(l) \in Seq(Task)
          /\ Elements(DueTasks(l)) = {t \in Elements(l.delayed) : l.wake[t] <= l.tick}
      BY <1>1, DueIs DEF Good, Sound, Timed
    <3>2. QED
      BY <1>1, <1>2, <2>1, <3>1 DEF DueAt
  <2>2. CASE ~IsTime(k)
    BY <2>2 DEF DueAt, Elements
  <2>3. QED
    BY <2>1, <2>2
<1>4. w = FoldLeft(WakeFromDelay, l, due)
  BY DEF WokenAt
<1>5. ToSet(due) = Elements(due)
  BY DEF ToSet, Elements
<1>6. /\ r.k = IF IsTime(k) THEN prvResetNextTaskUnblockTime(w) ELSE w
      /\ r.switch = \/ \E t \in ToSet(due) : k.priority[t] > k.priority[k.current]
                    \/ Len(w.ready[k.priority[k.current]].items) > 1
                    \/ k.yield
  <2> DEFINE u == IF IsTime(k) THEN prvResetNextTaskUnblockTime(w) ELSE w
             x == \/ \E t \in ToSet(due) : k.priority[t] > k.priority[k.current]
                  \/ Len(w.ready[k.priority[k.current]].items) > 1
                  \/ k.yield
  <2>1. r = [k |-> u, switch |-> x]
    BY Zenon DEF xTaskIncrementTick, Turned, WokenAt, IsTime
  <2> HIDE DEF r, u, x
  <2>2. r.k = u /\ r.switch = x
    BY <2>1
  <2>3. QED
    BY <2>2 DEF u, x
<1> HIDE DEF l, due, w, r
<1>7. AreWoken(w, l, DueAt(k)) /\ (w.yield <=> l.yield)
  BY <1>1, <1>3, <1>4, WakeAllIs
<1>8. /\ k.yield => r.switch
      /\ (\E t \in DueAt(k) : k.priority[t] > k.priority[k.current]) => r.switch
      /\ r.switch \in BOOLEAN
  <2> DEFINE A == \E t \in ToSet(due) : k.priority[t] > k.priority[k.current]
             B == Len(w.ready[k.priority[k.current]].items) > 1
  <2>1. r.switch = (A \/ B \/ k.yield)
    BY <1>6
  <2>2. A <=> \E t \in DueAt(k) : k.priority[t] > k.priority[k.current]
    BY <1>3, <1>5
  <2> HIDE DEF A, B
  <2>3. (k.yield => r.switch) /\ (A => r.switch) /\ r.switch \in BOOLEAN
    BY <2>1
  <2>4. QED
    BY <2>2, <2>3
<1>9. QED
  BY <1>2, <1>6, <1>7, <1>8 DEF l, w, r

-----------------------------------------------------------------------------
(* What a step does to the lists, when it makes the tasks of a set ready *)

\* The tasks that wait for a time.
Late(k) == Elements(k.delayed) \cup Elements(k.overflow)

Readied(j, k, S) ==
    /\ Good(j)
    /\ InTurn(j, k)
    /\ j.priority = k.priority
    /\ \A p \in Priority :
         ReadyAt(j, p) = (ReadyAt(k, p) \ S) \cup {t \in S : k.priority[t] = p}
    /\ Late(j) = Late(k) \ S
    /\ Elements(j.suspended) = Elements(k.suspended) \ S
    /\ Elements(j.termination) = Elements(k.termination) \ S
    /\ Elements(j.pending) = Elements(k.pending) \ S
    /\ \A e \in EventLists : Elements(j.events[e]) = Elements(k.events[e]) \ S
    /\ S \cap Elements(k.termination) = {} => j.termination = k.termination

LEMMA ReadiedBoth ==
    ASSUME NEW k, NEW j, NEW i, NEW S, NEW R, Readied(j, k, S), Readied(i, j, R)
    PROVE  Readied(i, k, S \cup R)
<1>1. \A p \in Priority :
        ReadyAt(i, p) = (ReadyAt(k, p) \ (S \cup R)) \cup {t \in S \cup R : k.priority[t] = p}
  <2> SUFFICES ASSUME NEW p \in Priority
               PROVE  ReadyAt(i, p) = (ReadyAt(k, p) \ (S \cup R))
                                        \cup {t \in S \cup R : k.priority[t] = p}
    OBVIOUS
  <2>1. ReadyAt(j, p) = (ReadyAt(k, p) \ S) \cup {t \in S : k.priority[t] = p}
    BY DEF Readied
  <2>2. ReadyAt(i, p) = (ReadyAt(j, p) \ R) \cup {t \in R : k.priority[t] = p}
    BY DEF Readied
  <2>3. QED
    BY <2>1, <2>2
<1>2. /\ Late(i) = Late(k) \ (S \cup R)
      /\ Elements(i.suspended) = Elements(k.suspended) \ (S \cup R)
      /\ Elements(i.termination) = Elements(k.termination) \ (S \cup R)
      /\ Elements(i.pending) = Elements(k.pending) \ (S \cup R)
  BY DEF Readied
<1>3. \A e \in EventLists : Elements(i.events[e]) = Elements(k.events[e]) \ (S \cup R)
  BY DEF Readied
<1>4. (S \cup R) \cap Elements(k.termination) = {} => i.termination = k.termination
  BY DEF Readied
<1>5. Good(i) /\ InTurn(i, k) /\ i.priority = k.priority
  BY TurnsBoth DEF Readied
<1>6. QED
  BY <1>1, <1>2, <1>3, <1>4, <1>5 DEF Readied

LEMMA WokenReadied ==
    ASSUME NEW k, NEW j, NEW S, AreWoken(j, k, S)
    PROVE  Readied(j, k, S)
<1>1. j.priority = k.priority
  BY DEF AreWoken, Keeps, KernelFields, WakeFields, StateLists
<1>2. Late(j) = Late(k) \ S
  BY DEF AreWoken, Late
<1>3. QED
  BY <1>1, <1>2 DEF AreWoken, Readied

Flags == {"yield", "pendsv", "pended", "tick", "suspensions", "current", "value",
          "notify", "count", "cleanup", "unblock", "overflows", "running", "event",
          "base", "bits", "mutexes"}

LEMMA FlagsReadied ==
    ASSUME NEW k, Good(k), NEW j, NEW changed \in SUBSET Flags, Keeps(j, k, changed)
    PROVE  Readied(j, k, {})
<1>1. /\ Good(j)
      /\ \A p \in Priority : ReadyAt(j, p) = ReadyAt(k, p)
      /\ j.ready = k.ready /\ j.delayed = k.delayed /\ j.overflow = k.overflow
      /\ j.suspended = k.suspended /\ j.termination = k.termination
      /\ j.pending = k.pending /\ j.events = k.events
      /\ j.wake = k.wake /\ j.priority = k.priority /\ j.top = k.top
  BY FlagsSame DEF Flags
<1>2. \A p \in Priority : {t \in {} : k.priority[t] = p} = {}
  OBVIOUS
<1>3. Late(j) = Late(k)
  BY <1>1 DEF Late
<1>4. InTurn(j, k)
  BY <1>1, TurnsSame
<1>5. QED
  BY <1>1, <1>2, <1>3, <1>4 DEF Readied

\* MoveToReadyList, of a task that is not waiting for an event.
LEMMA MoveReadied ==
    ASSUME NEW k, Good(k), NEW t \in Task, t \notin Elements(k.pending),
           \A e \in EventLists : t \notin Elements(k.events[e])
    PROVE  /\ Readied(MoveToReadyList(k, t), k, {t})
           /\ Keeps(MoveToReadyList(k, t), k, StateLists \cup {"top"})
<1> DEFINE j == MoveToReadyList(k, t)
<1>1. MadeReady(j, k, t)
  BY MadeReadyIs
<1> HIDE DEF j
<1>2. j.priority = k.priority /\ j.pending = k.pending /\ j.events = k.events
  BY <1>1 DEF MadeReady, Keeps, KernelFields, StateLists
<1>3. t \notin Elements(k.termination) => Without(k.termination, t) = k.termination
  BY WithoutAbsent
<1>4. /\ Late(j) = Late(k) \ {t}
      /\ Elements(j.suspended) = Elements(k.suspended) \ {t}
      /\ Elements(j.termination) = Elements(k.termination) \ {t}
      /\ {t} \cap Elements(k.termination) = {} => j.termination = k.termination
  BY <1>1, <1>3 DEF MadeReady, Leaves, Late
<1>5. Elements(j.pending) = Elements(k.pending) \ {t}
  BY <1>2
<1>6. \A e \in EventLists : Elements(j.events[e]) = Elements(k.events[e]) \ {t}
  BY <1>2
<1>7. InTurn(j, k)
  BY <1>2, TurnsSame
<1>8. QED
  BY <1>1, <1>2, <1>4, <1>5, <1>6, <1>7 DEF MadeReady, Readied, j

TickFields == WakeFields \cup {"tick", "overflows", "unblock"}

LEMMA TurnedReadied ==
    ASSUME NEW k, Good(k), Timed(k)
    PROVE  Readied(Turned(k), k, {})
<1> DEFINE l == Turned(k)
<1>1. /\ Keeps(l, k, {"tick", "delayed", "overflow", "overflows", "unblock"})
      /\ Good(l)
      /\ NextTick(k) # 0 => l.delayed = k.delayed /\ l.overflow = k.overflow
      /\ NextTick(k) = 0 => l.delayed = k.overflow /\ l.overflow = k.delayed
  BY TurnedIs
<1> HIDE DEF l
<1>2. /\ l.ready = k.ready /\ l.suspended = k.suspended /\ l.termination = k.termination
      /\ l.pending = k.pending /\ l.events = k.events /\ l.priority = k.priority
  BY <1>1 DEF Keeps, KernelFields
<1>3. Late(l) = Late(k)
  BY <1>1 DEF Late
<1>4. \A p \in Priority : ReadyAt(l, p) = ReadyAt(k, p) /\ {t \in {} : k.priority[t] = p} = {}
  BY <1>2 DEF ReadyAt
<1>5. InTurn(l, k)
  BY <1>2, TurnsSame
<1>6. QED
  BY <1>1, <1>2, <1>3, <1>4, <1>5 DEF Readied, l

\* A tick makes tasks ready that were waiting for a time.
LEMMA TickReadied ==
    ASSUME NEW k, Good(k), Timed(k), ~(k.suspensions > 0)
    PROVE  LET r == xTaskIncrementTick(k)
           IN  /\ Keeps(r.k, k, TickFields)
               /\ Readied(r.k, k, DueAt(k)) /\ DueAt(k) \subseteq Late(k)
               /\ Timed(r.k) /\ r.k.tick = NextTick(k)
               /\ r.k.yield <=> k.yield
               /\ k.yield => r.switch
               /\ (\E t \in DueAt(k) : k.priority[t] > k.priority[k.current]) => r.switch
               /\ r.switch \in BOOLEAN
<1> DEFINE l == Turned(k)
           w == WokenAt(k)
           u == prvResetNextTaskUnblockTime(w)
           r == xTaskIncrementTick(k)
           S == DueAt(k)
<1>1. /\ Keeps(l, k, {"tick", "delayed", "overflow", "overflows", "unblock"})
      /\ Good(l) /\ Timed(l) /\ l.tick = NextTick(k)
  BY TurnedIs
<1>2. Readied(l, k, {})
  BY TurnedReadied
<1>3. /\ AreWoken(w, l, S)
      /\ r.k = IF IsTime(k) THEN u ELSE w
      /\ w.yield <=> k.yield
      /\ k.yield => r.switch
      /\ (\E t \in S : k.priority[t] > k.priority[k.current]) => r.switch
      /\ r.switch \in BOOLEAN
  BY TickIs
<1>4. S \subseteq Late(k)
  <2>1. S \subseteq Elements(l.delayed)
    BY DEF DueAt
  <2>2. Late(l) = Late(k)
    BY <1>2 DEF Readied
  <2>3. QED
    BY <2>1, <2>2 DEF Late
<1> HIDE DEF l, w, u, r, S
<1>5. Readied(w, k, S)
  <2>1. Readied(w, k, {} \cup S)
    BY <1>2, <1>3, WokenReadied, ReadiedBoth
  <2>2. QED
    BY <2>1
<1>6. /\ Keeps(w, k, TickFields) /\ Timed(w) /\ w.tick = NextTick(k) /\ Good(w)
  <2>1. Keeps(w, k, TickFields)
    BY <1>1, <1>3 DEF AreWoken, Keeps, TickFields, WakeFields, StateLists
  <2>2. w.tick = l.tick /\ w.current = l.current /\ w.unblock = l.unblock
    BY <1>3 DEF AreWoken, Keeps, KernelFields, WakeFields, StateLists
  <2>3. QED
    BY <1>1, <1>3, <2>1, <2>2 DEF Timed, AreWoken
<1>7. CASE ~IsTime(k)
  BY <1>3, <1>4, <1>5, <1>6, <1>7 DEF r, S
<1>8. CASE IsTime(k)
  <2>1. /\ Keeps(u, w, {"unblock"}) /\ Good(u) /\ u.unblock \in Int
    BY <1>6, ResetUnblockIs DEF u
  <2>2. Readied(u, w, {})
    BY <1>6, <2>1, FlagsReadied DEF Flags
  <2>3. Readied(u, k, S)
    <3>1. Readied(u, k, S \cup {})
      BY <1>5, <2>2, ReadiedBoth
    <3>2. QED
      BY <3>1
  <2>4. u.tick = w.tick /\ u.current = w.current /\ u.yield = w.yield
    BY <2>1 DEF Keeps, KernelFields
  <2>5. Keeps(u, k, TickFields)
    BY <1>6, <2>1 DEF Keeps, TickFields
  <2>6. QED
    BY <1>3, <1>4, <1>6, <1>8, <2>1, <2>3, <2>4, <2>5 DEF Timed, r, S
<1>9. QED
  BY <1>7, <1>8

\* The ticks that xTaskResumeAll counts.
CaughtUp(j, k) ==
    /\ Keeps(j, k, TickFields)
    /\ Good(j) /\ Timed(j)
    /\ k.yield => j.yield
    /\ \E S \in SUBSET Late(k) :
         /\ Readied(j, k, S)
         /\ (\E t \in S : k.priority[t] > k.priority[k.current]) => j.yield

LEMMA CatchUpTickIs ==
    ASSUME NEW k, Good(k), Timed(k), ~(k.suspensions > 0), NEW i
    PROVE  CaughtUp(CatchUpTick(k, i), k)
<1> DEFINE r == xTaskIncrementTick(k)
           j == CatchUpTick(k, i)
           S == DueAt(k)
<1>1. /\ Keeps(r.k, k, TickFields)
      /\ Readied(r.k, k, S) /\ S \subseteq Late(k)
      /\ Timed(r.k)
      /\ r.k.yield <=> k.yield
      /\ k.yield => r.switch
      /\ (\E t \in S : k.priority[t] > k.priority[k.current]) => r.switch
  BY TickReadied
<1>2. j = [r.k EXCEPT !.yield = r.k.yield \/ r.switch]
  BY DEF CatchUpTick
<1> HIDE DEF j, r, S
<1>3. DOMAIN r.k = KernelFields
  BY <1>1 DEF Keeps
<1>4. Keeps(j, r.k, {"yield"}) /\ j.yield = (r.k.yield \/ r.switch)
  BY <1>2, <1>3 DEF Keeps, KernelFields
<1>5. Readied(j, r.k, {})
  BY <1>1, <1>4, FlagsReadied DEF Flags, Readied
<1>6. Readied(j, k, S)
  <2>1. Readied(j, k, S \cup {})
    BY <1>1, <1>5, ReadiedBoth
  <2>2. QED
    BY <2>1
<1>7. j.current = r.k.current /\ j.tick = r.k.tick /\ j.unblock = r.k.unblock
  BY <1>4 DEF Keeps, KernelFields
<1>8. Timed(j)
  BY <1>1, <1>7 DEF Timed
<1>9. Keeps(j, k, TickFields)
  BY <1>1, <1>4 DEF Keeps, TickFields, WakeFields
<1>10. k.yield => j.yield
  BY <1>1, <1>4
<1>11. (\E t \in S : k.priority[t] > k.priority[k.current]) => j.yield
  BY <1>1, <1>4
<1>12. Good(j)
  BY <1>6 DEF Readied
<1>13. QED
  BY <1>1, <1>6, <1>8, <1>9, <1>10, <1>11, <1>12 DEF CaughtUp, j

LEMMA CaughtUpNone ==
    ASSUME NEW k, Good(k), Timed(k)
    PROVE  CaughtUp(k, k)
<1>1. Keeps(k, k, {}) /\ Keeps(k, k, TickFields)
  BY DEF Good, Sound, Shape, Keeps
<1>2. Readied(k, k, {})
  BY <1>1, FlagsReadied
<1>3. {} \in SUBSET Late(k) /\ ~\E t \in {} : k.priority[t] > k.priority[k.current]
  OBVIOUS
<1>4. QED
  BY <1>1, <1>2, <1>3 DEF CaughtUp

LEMMA CaughtUpBoth ==
    ASSUME NEW k, NEW j, NEW i, CaughtUp(j, k), CaughtUp(i, j)
    PROVE  CaughtUp(i, k)
<1>1. PICK S \in SUBSET Late(k) :
         /\ Readied(j, k, S)
         /\ (\E t \in S : k.priority[t] > k.priority[k.current]) => j.yield
  BY DEF CaughtUp
<1>2. PICK R \in SUBSET Late(j) :
         /\ Readied(i, j, R)
         /\ (\E t \in R : j.priority[t] > j.priority[j.current]) => i.yield
  BY DEF CaughtUp
<1>3. j.priority = k.priority /\ j.current = k.current
  BY DEF CaughtUp, Keeps, KernelFields, TickFields, WakeFields, StateLists
<1>4. Late(j) \subseteq Late(k)
  BY <1>1 DEF Readied
<1>5. Readied(i, k, S \cup R)
  BY <1>1, <1>2, ReadiedBoth
<1>6. (\E t \in S \cup R : k.priority[t] > k.priority[k.current]) => i.yield
  <2>1. j.yield => i.yield
    BY DEF CaughtUp
  <2>2. QED
    BY <1>1, <1>2, <1>3, <2>1
<1>7. S \cup R \in SUBSET Late(k)
  BY <1>4
<1>8. Keeps(i, k, TickFields)
  BY DEF CaughtUp, Keeps
<1>9. k.yield => i.yield
  BY DEF CaughtUp
<1>10. QED
  BY <1>5, <1>6, <1>7, <1>8, <1>9 DEF CaughtUp

LEMMA RunTicks ==
    ASSUME NEW k, Good(k), Timed(k), ~(k.suspensions > 0), NEW s, Len(s) \in Nat,
           NEW h, Run("tick", h, k, s)
    PROVE  \A n \in 0 .. Len(s) : CaughtUp(h[n], k)
<1> DEFINE T == {n \in Nat : n <= Len(s) => CaughtUp(h[n], k)}
<1>1. 0 \in T
  BY CaughtUpNone DEF Run
<1>2. ASSUME NEW n \in Nat, n \in T PROVE n + 1 \in T
  <2> SUFFICES ASSUME n + 1 <= Len(s) PROVE CaughtUp(h[n + 1], k)
    OBVIOUS
  <2>1. CaughtUp(h[n], k)
    BY <1>2
  <2>2. n + 1 \in 1 .. Len(s) /\ n + 1 - 1 = n
    OBVIOUS
  <2>3. h[n + 1] = CatchUpTick(h[n], s[n + 1])
    BY <2>2 DEF Run, Step
  <2>4. h[n].suspensions = k.suspensions
    BY <2>1 DEF CaughtUp, Keeps, KernelFields, TickFields, WakeFields, StateLists
  <2>5. Good(h[n]) /\ Timed(h[n])
    BY <2>1 DEF CaughtUp
  <2>6. CaughtUp(CatchUpTick(h[n], s[n + 1]), h[n])
    BY <2>4, <2>5, CatchUpTickIs
  <2>7. QED
    BY <2>1, <2>3, <2>6, CaughtUpBoth
<1> HIDE DEF T
<1>3. Nat \subseteq T
  BY <1>1, <1>2, NatInduct
<1>4. QED
  BY <1>3 DEF T

LEMMA CatchUpAllIs ==
    ASSUME NEW k, Good(k), Timed(k), ~(k.suspensions > 0), NEW n \in Nat
    PROVE  CaughtUp(FoldLeft(CatchUpTick, k, [i \in 1 .. n |-> i]), k)
<1> DEFINE s == [i \in 1 .. n |-> i]
<1>1. Len(s) = n /\ DOMAIN s = 1 .. Len(s)
  OBVIOUS
<1> HIDE DEF s
<1>2. PICK h : Run("tick", h, k, s) /\ FoldLeft(CatchUpTick, k, s) = h[Len(s)]
  BY <1>1, TickRun
<1>3. CaughtUp(h[Len(s)], k)
  BY <1>1, <1>2, RunTicks
<1>4. QED
  BY <1>2, <1>3 DEF s

\* The states that xTaskResumeAll goes through.
Resumed(k) == [k EXCEPT !.suspensions = @ - 1]
PendedReady(k) ==
    LET r == Resumed(k)
    IN  IF r.pending = << >> THEN r
        ELSE prvResetNextTaskUnblockTime(FoldLeft(ReadyPended, r, r.pending))
TicksCounted(k) ==
    FoldLeft(CatchUpTick, PendedReady(k), [i \in 1 .. PendedReady(k).pended |-> i])

LEMMA ResumedIs ==
    ASSUME NEW k, Good(k), Timed(k), k.suspensions = 1
    PROVE  LET r == Resumed(k)
           IN  /\ Keeps(r, k, {"suspensions"}) /\ r.suspensions = 0
               /\ Good(r) /\ Timed(r) /\ Readied(r, k, {})
<1> DEFINE r == Resumed(k)
<1>1. DOMAIN k = KernelFields
  BY DEF Good, Sound, Shape
<1>2. Keeps(r, k, {"suspensions"}) /\ r.suspensions = 0
  BY <1>1 DEF Resumed, Keeps, KernelFields
<1> HIDE DEF r
<1>3. Readied(r, k, {})
  BY <1>2, FlagsReadied DEF Flags
<1>4. r.current = k.current /\ r.tick = k.tick /\ r.unblock = k.unblock
  BY <1>2 DEF Keeps, KernelFields
<1>5. QED
  BY <1>2, <1>3, <1>4 DEF Readied, Timed, r

LEMMA PendedReadyIs ==
    ASSUME NEW k, Good(k), Timed(k), k.suspensions = 1
    PROVE  LET j == PendedReady(k)
           IN  /\ Keeps(j, k, TickFields \cup {"suspensions"}) /\ j.suspensions = 0
               /\ Timed(j) /\ Readied(j, k, Elements(k.pending))
               /\ k.yield => j.yield
               /\ (\E t \in Elements(k.pending) : k.priority[t] >= k.priority[k.current]) => j.yield
<1> DEFINE r == Resumed(k)
           f == FoldLeft(ReadyPended, r, r.pending)
           u == prvResetNextTaskUnblockTime(f)
           j == PendedReady(k)
           P == Elements(k.pending)
<1>1. /\ Keeps(r, k, {"suspensions"}) /\ r.suspensions = 0
      /\ Good(r) /\ Timed(r) /\ Readied(r, k, {})
  BY ResumedIs
<1>2. r.pending \in Seq(Task)
  BY <1>1 DEF Good, Sound, Shape, IsList
<1>3. j = IF r.pending = << >> THEN r ELSE u
  BY DEF PendedReady
<1>4. /\ AreWoken(f, r, Elements(r.pending))
      /\ f.yield <=> r.yield \/ \E t \in Elements(r.pending) : r.priority[t] >= r.priority[r.current]
  BY <1>1, <1>2, PendedAllIs
<1> HIDE DEF r, f, u, j
<1>5. /\ r.pending = k.pending /\ r.yield = k.yield /\ r.priority = k.priority
      /\ r.current = k.current
  BY <1>1 DEF Keeps, KernelFields
<1>6. CASE r.pending = << >>
  <2>1. P = {}
    BY <1>2, <1>5, <1>6, ItemsEmpty
  <2>2. Keeps(r, k, TickFields \cup {"suspensions"})
    BY <1>1 DEF Keeps
  <2>3. QED
    BY <1>1, <1>3, <1>5, <1>6, <2>1, <2>2 DEF j
<1>7. CASE r.pending # << >>
  <2>1. Readied(f, r, P) /\ Good(f)
    BY <1>4, <1>5, WokenReadied DEF Readied
  <2>2. /\ Keeps(u, f, {"unblock"}) /\ Good(u) /\ u.unblock \in Int
    BY <2>1, ResetUnblockIs DEF u
  <2>3. Readied(u, f, {})
    BY <2>1, <2>2, FlagsReadied DEF Flags
  <2>4. Readied(u, k, P)
    <3>1. Readied(f, k, {} \cup P)
      BY <1>1, <2>1, ReadiedBoth
    <3>2. Readied(u, k, {} \cup P \cup {})
      BY <2>3, <3>1, ReadiedBoth
    <3>3. {} \cup P \cup {} = P
      OBVIOUS
    <3>4. QED
      BY <3>2, <3>3
  <2>5. /\ f.current = r.current /\ f.tick = r.tick /\ f.suspensions = r.suspensions
    BY <1>4 DEF AreWoken, Keeps, KernelFields, WakeFields, StateLists
  <2>6. u.current = f.current /\ u.tick = f.tick /\ u.suspensions = f.suspensions /\ u.yield = f.yield
    BY <2>2 DEF Keeps, KernelFields
  <2>7. Keeps(u, k, TickFields \cup {"suspensions"})
    BY <1>1, <1>4, <2>2 DEF AreWoken, Keeps, TickFields
  <2>8. Timed(u) /\ u.suspensions = 0
    BY <1>1, <2>2, <2>5, <2>6 DEF Timed
  <2>9. /\ k.yield => u.yield
        /\ (\E t \in P : k.priority[t] >= k.priority[k.current]) => u.yield
    BY <1>4, <1>5, <2>6
  <2>10. QED
    BY <1>3, <1>7, <2>4, <2>7, <2>8, <2>9 DEF j
<1>8. QED
  BY <1>6, <1>7

ResumeFields == TickFields \cup {"suspensions", "pended", "pendsv"}

\* xTaskResumeAll, of the last suspension: the pended tasks and those whose
\* time came are ready, and it yields to those that outrank the current one.
LEMMA ResumeAllIs ==
    ASSUME NEW k, Good(k), Timed(k), k.suspensions = 1, k.pended \in Nat
    PROVE  LET j == xTaskResumeAll(k)
           IN  /\ Keeps(j, k, ResumeFields)
               /\ j.suspensions = 0 /\ j.pended = 0 /\ Timed(j)
               /\ j.yield => j.pendsv
               /\ ~j.yield => j.pendsv = k.pendsv
               /\ k.yield => j.yield
               /\ \E S \in SUBSET (Late(k) \cup Elements(k.pending)) :
                    /\ Elements(k.pending) \subseteq S
                    /\ Readied(j, k, S)
                    /\ (\E t \in S : k.priority[t] > k.priority[k.current]) => j.yield
<1> DEFINE r == Resumed(k)
           b == PendedReady(k)
           c == TicksCounted(k)
           d == [c EXCEPT !.pended = 0]
           e == [d EXCEPT !.pendsv = TRUE]
           j == xTaskResumeAll(k)
           P == Elements(k.pending)
<1>1. Keeps(r, k, {"suspensions"}) /\ r.suspensions = 0
  BY ResumedIs
<1>2. /\ Keeps(b, k, TickFields \cup {"suspensions"}) /\ b.suspensions = 0
      /\ Timed(b) /\ Readied(b, k, P)
      /\ k.yield => b.yield
      /\ (\E t \in P : k.priority[t] >= k.priority[k.current]) => b.yield
  BY PendedReadyIs
<1>3. j = IF d.yield THEN e ELSE d
  <2>1. ~(r.suspensions > 0)
    BY <1>1
  <2>2. j = IF r.suspensions > 0 THEN r ELSE IF d.yield THEN e ELSE d
    BY Zenon DEF xTaskResumeAll, Resumed, PendedReady, TicksCounted, YieldIf, portYIELD
  <2>3. QED
    BY <2>1, <2>2
<1> HIDE DEF r, b, P
<1>4. CaughtUp(c, b)
  <2>1. Good(b) /\ ~(b.suspensions > 0)
    BY <1>2 DEF Readied
  <2>2. b.pended \in Nat
    BY <1>2 DEF Keeps, KernelFields, TickFields, WakeFields, StateLists
  <2>3. QED
    BY <1>2, <2>1, <2>2, CatchUpAllIs DEF TicksCounted, b
<1> HIDE DEF c
<1>5. PICK S \in SUBSET Late(b) :
         /\ Readied(c, b, S)
         /\ (\E t \in S : b.priority[t] > b.priority[b.current]) => c.yield
  BY <1>4 DEF CaughtUp
<1>6. DOMAIN c = KernelFields
  BY <1>4 DEF CaughtUp, Keeps
<1>7. Keeps(d, c, {"pended"}) /\ d.pended = 0
  BY <1>6 DEF Keeps, KernelFields
<1>8. Keeps(e, d, {"pendsv"}) /\ e.pendsv = TRUE
  BY <1>6, <1>7 DEF Keeps, KernelFields
<1> HIDE DEF d, e, j
<1>9. Keeps(j, c, {"pended", "pendsv"}) /\ j.pended = 0 /\ j.yield = c.yield
  BY <1>3, <1>7, <1>8 DEF Keeps, KernelFields
<1>10. /\ j.yield => j.pendsv = TRUE
       /\ ~j.yield => j.pendsv = c.pendsv
  BY <1>3, <1>7, <1>8 DEF Keeps, KernelFields
<1>11. /\ c.pendsv = b.pendsv /\ c.suspensions = b.suspensions
       /\ b.yield => c.yield
  BY <1>4 DEF CaughtUp, Keeps, KernelFields, TickFields, WakeFields, StateLists
<1>12. /\ b.pendsv = k.pendsv /\ b.priority = k.priority /\ b.current = k.current
  BY <1>2 DEF Keeps, KernelFields, TickFields, WakeFields, StateLists
<1>13. /\ j.current = c.current /\ j.tick = c.tick /\ j.unblock = c.unblock
       /\ j.suspensions = c.suspensions
  BY <1>9 DEF Keeps, KernelFields
<1>14. Timed(j)
  BY <1>4, <1>13 DEF CaughtUp, Timed
<1>15. Keeps(j, k, ResumeFields)
  BY <1>2, <1>4, <1>9 DEF CaughtUp, Keeps, ResumeFields
<1>16. Readied(j, k, P \cup S)
  <2>1. Readied(j, c, {})
    BY <1>4, <1>9, FlagsReadied DEF CaughtUp, Flags
  <2>2. Readied(c, k, P \cup S)
    BY <1>2, <1>5, ReadiedBoth
  <2>3. Readied(j, k, (P \cup S) \cup {})
    BY <2>1, <2>2, ReadiedBoth
  <2>4. QED
    BY <2>3
<1>17. (\E t \in P \cup S : k.priority[t] > k.priority[k.current]) => j.yield
  <2>1. ASSUME NEW t \in P, k.priority[t] > k.priority[k.current] PROVE b.yield
    <3>1. k.current \in Task /\ t \in Task /\ k.priority \in [Task -> Priority]
      BY DEF Timed, Good, Sound, Shape, IsList, Elements, P
    <3>2. k.priority[t] \in Int /\ k.priority[k.current] \in Int
      BY <3>1, PrioritiesAssumption DEF Priority
    <3>3. k.priority[t] >= k.priority[k.current]
      BY <2>1, <3>2
    <3>4. QED
      BY <1>2, <3>3
  <2>2. ASSUME NEW t \in S, k.priority[t] > k.priority[k.current] PROVE c.yield
    BY <1>5, <1>12, <2>2
  <2>3. QED
    BY <1>9, <1>11, <2>1, <2>2
<1>18. P \cup S \in SUBSET (Late(k) \cup P)
  BY <1>2 DEF Readied
<1>19. j.suspensions = 0
  BY <1>2, <1>11, <1>13
<1>20. QED
  <2>1. k.yield => j.yield
    BY <1>2, <1>9, <1>11
  <2>2. ~j.yield => j.pendsv = k.pendsv
    BY <1>10, <1>11, <1>12
  <2>3. j.yield => j.pendsv
    BY <1>10
  <2>4. \E R \in SUBSET (Late(k) \cup P) :
          /\ P \subseteq R
          /\ Readied(j, k, R)
          /\ (\E t \in R : k.priority[t] > k.priority[k.current]) => j.yield
    <3> DEFINE R == P \cup S
    <3>1. P \subseteq R
      OBVIOUS
    <3> HIDE DEF R
    <3>2. QED
      BY <1>16, <1>17, <1>18, <3>1 DEF R
  <2>5. QED
    BY <1>9, <1>14, <1>15, <1>19, <2>1, <2>2, <2>3, <2>4 DEF j, P

-----------------------------------------------------------------------------
(* The switch *)

\* No ready task outranks the current one, which is ready itself.
OnTop(k) ==
    /\ CurrentIsReady(k)
    /\ \A p \in k.top : p <= k.priority[k.current]

LEMMA SwitchIs ==
    ASSUME NEW k, Good(k), ~(k.suspensions > 0), k.top # {}
    PROVE  LET j == vTaskSwitchContext(k)
           IN  /\ Keeps(j, k, {"yield", "pendsv", "ready", "current"})
               /\ Readied(j, k, {})
               /\ j.pendsv = FALSE
               /\ OnTop(j)
<1> DEFINE p == Max(k.top)
           list == IndexToNext(k.ready[p])
           j == vTaskSwitchContext(k)
<1>1. /\ DOMAIN k = KernelFields /\ DOMAIN k.ready = Priority /\ k.top \subseteq Priority
      /\ k.priority \in [Task -> Priority]
  BY DEF Good, Sound, Shape
<1>2. p \in k.top /\ \A m \in k.top : p >= m
  <2>1. MaxPriorities - 1 \in Nat /\ k.top \subseteq 0 .. MaxPriorities - 1
    BY <1>1, PrioritiesAssumption DEF Priority
  <2>2. QED
    BY <2>1, MaxIs
<1>3. j = [k EXCEPT !.yield = FALSE, !.pendsv = FALSE, !.ready[p] = list,
                    !.current = list.items[list.index]]
  BY DEF vTaskSwitchContext
<1> HIDE DEF p
<1>4. p \in Priority /\ IsReadyList(k.ready[p], Task) /\ ReadyAt(k, p) # {}
  BY <1>1, <1>2 DEF Good, Sound, Shape, TopRight
<1>5. k.ready[p].items # << >>
  <2>1. k.ready[p].items \in Seq(Task)
    BY <1>4 DEF IsReadyList, IsList
  <2>2. QED
    BY <1>4, <2>1, ItemsEmpty DEF ReadyAt
<1>6. /\ IsReadyList(list, Task) /\ list.items = k.ready[p].items
      /\ list.items[list.index] \in ReadyAt(k, p)
  BY <1>4, <1>5, IndexToNextIs DEF ReadyAt
<1> HIDE DEF list, j
<1>7. /\ Keeps(j, k, {"yield", "pendsv", "ready", "current"})
      /\ j.pendsv = FALSE
      /\ j.ready = [k.ready EXCEPT ![p] = list]
      /\ j.current = list.items[list.index]
  BY <1>1, <1>3 DEF Keeps, KernelFields
<1>8. /\ j.delayed = k.delayed /\ j.overflow = k.overflow
      /\ j.suspended = k.suspended /\ j.termination = k.termination
      /\ j.pending = k.pending /\ j.events = k.events
      /\ j.wake = k.wake /\ j.priority = k.priority /\ j.top = k.top
      /\ DOMAIN j = KernelFields
  BY <1>7 DEF Keeps, KernelFields
<1>9. \A q \in Priority : ReadyAt(j, q) = ReadyAt(k, q) /\ IsReadyList(j.ready[q], Task)
  <2> SUFFICES ASSUME NEW q \in Priority
               PROVE  ReadyAt(j, q) = ReadyAt(k, q) /\ IsReadyList(j.ready[q], Task)
    OBVIOUS
  <2>1. j.ready[q] = IF q = p THEN list ELSE k.ready[q]
    BY <1>1, <1>7
  <2>2. IsReadyList(k.ready[q], Task)
    BY DEF Good, Sound, Shape
  <2>3. QED
    BY <1>6, <2>1, <2>2 DEF ReadyAt
<1>10. Shape(j)
  <2>1. DOMAIN j.ready = Priority
    BY <1>1, <1>7
  <2>2. QED
    BY <1>8, <1>9, <2>1 DEF Good, Sound, Shape
<1>11. Apart(j) /\ ByPriority(j) /\ TopRight(j)
  <2>1. Apart(j)
    BY <1>8, <1>9 DEF Good, Sound, Apart
  <2>2. ByPriority(j)
    BY <1>8, <1>9 DEF Good, ByPriority
  <2>3. TopRight(j)
    BY <1>8, <1>9 DEF Good, TopRight
  <2>4. QED
    BY <2>1, <2>2, <2>3
<1>12. Readied(j, k, {})
  <2>1. \A q \in Priority : {t \in {} : k.priority[t] = q} = {}
    OBVIOUS
  <2>2. Late(j) = Late(k)
    BY <1>8 DEF Late
  <2>3. InTurn(j, k)
    BY <1>8, TurnsSame
  <2>4. QED
    BY <1>8, <1>9, <1>10, <1>11, <2>1, <2>2, <2>3 DEF Readied, Good, Sound
<1>13. OnTop(j)
  <2>1. j.current \in Task /\ j.current \in ReadyAt(j, p)
    <3>1. ReadyAt(k, p) \subseteq Task
      BY <1>4 DEF ReadyAt, Elements, IsReadyList, IsList
    <3>2. QED
      BY <1>4, <1>6, <1>7, <1>9, <3>1
  <2>2. j.priority[j.current] = p
    BY <1>4, <1>11, <2>1 DEF ByPriority
  <2>3. p \in Int /\ \A m \in k.top : m \in Int
    BY <1>1, <1>4, PrioritiesAssumption DEF Priority
  <2>4. \A m \in j.top : m <= p
    BY <1>2, <1>8, <2>3
  <2>5. QED
    BY <2>1, <2>2, <2>4 DEF OnTop, CurrentIsReady
<1>14. QED
  BY <1>7, <1>12, <1>13 DEF j

LEMMA SwitchLater ==
    ASSUME NEW k, Good(k), k.suspensions > 0
    PROVE  LET j == vTaskSwitchContext(k)
           IN  /\ Keeps(j, k, {"yield", "pendsv"})
               /\ Readied(j, k, {})
               /\ j.yield = TRUE /\ j.pendsv = FALSE
<1> DEFINE j == vTaskSwitchContext(k)
<1>1. DOMAIN k = KernelFields
  BY DEF Good, Sound, Shape
<1>2. Keeps(j, k, {"yield", "pendsv"}) /\ j.yield = TRUE /\ j.pendsv = FALSE
  BY <1>1 DEF vTaskSwitchContext, Keeps, KernelFields
<1> HIDE DEF j
<1>3. Readied(j, k, {})
  BY <1>2, FlagsReadied DEF Flags
<1>4. QED
  BY <1>2, <1>3 DEF j

-----------------------------------------------------------------------------
(* Tasks that leave every list, and tasks that are suspended or deleted *)

\* A task that is in no list any more.
TakenOut(k, t) == RemoveEventItem(RemoveFromAnyList(k, t), t)

OutFields == StateLists \cup {"top", "pending", "events"}

OutOfLists(j, k, t) ==
    /\ Keeps(j, k, OutFields)
    /\ Good(j)
    /\ \A p \in Priority : ReadyAt(j, p) = ReadyAt(k, p) \ {t}
    /\ Leaves(j, k, t) /\ Nowhere(j, t)
    /\ Elements(j.pending) = Elements(k.pending) \ {t}
    /\ \A e \in EventLists : Elements(j.events[e]) = Elements(k.events[e]) \ {t}
    /\ j.wake = [k.wake EXCEPT ![t] = 0]

LEMMA TakenOutIs ==
    ASSUME NEW k, Good(k), NEW t \in Task
    PROVE  OutOfLists(TakenOut(k, t), k, t)
<1> DEFINE r == RemoveFromAnyList(k, t)
           j == RemoveEventItem(r, t)
<1>1. /\ Keeps(r, k, StateLists \cup {"top"})
      /\ Good(r)
      /\ Leaves(r, k, t)
      /\ \A p \in Priority : ReadyAt(r, p) = ReadyAt(k, p) \ {t}
      /\ r.wake = [k.wake EXCEPT ![t] = 0]
  BY RemoveFromAnyListIs
<1>2. TakenOut(k, t) = j
  BY DEF TakenOut
<1> HIDE DEF r
<1>3. EventGone(j, r, t)
  BY <1>1, EventGoneIs
<1> HIDE DEF j
<1>4. /\ j.ready = r.ready /\ j.delayed = r.delayed /\ j.overflow = r.overflow
      /\ j.suspended = r.suspended /\ j.termination = r.termination
      /\ j.wake = r.wake
  BY <1>3 DEF EventGone, Keeps, KernelFields
<1>5. r.pending = k.pending /\ r.events = k.events
  BY <1>1 DEF Keeps, KernelFields, StateLists
<1>6. Keeps(j, k, OutFields)
  BY <1>1, <1>3 DEF EventGone, Keeps, OutFields
<1>7. \A p \in Priority : ReadyAt(j, p) = ReadyAt(k, p) \ {t}
  BY <1>1, <1>4 DEF ReadyAt
<1>8. Leaves(j, k, t)
  BY <1>1, <1>4 DEF Leaves
<1>9. Nowhere(j, t)
  BY <1>7, <1>8, NowhereIs DEF Leaves
<1>10. QED
  BY <1>1, <1>2, <1>3, <1>4, <1>5, <1>6, <1>7, <1>8, <1>9 DEF EventGone, OutOfLists

\* Everything of a task but its place in the suspended or termination list.
OutOf(j, k, t) ==
    /\ Good(j)
    /\ j.priority = k.priority
    /\ \A p \in Priority : ReadyAt(j, p) = ReadyAt(k, p) \ {t}
    /\ Late(j) = Late(k) \ {t}
    /\ Elements(j.pending) = Elements(k.pending) \ {t}
    /\ \A e \in EventLists : Elements(j.events[e]) = Elements(k.events[e]) \ {t}

\* vTaskSuspend, its first critical section.
LEMMA SuspendIs ==
    ASSUME NEW k, Good(k), NEW t \in Task, DOMAIN k.notify = Task
    PROVE  LET j == vTaskSuspend(k, t)
           IN  /\ Keeps(j, k, OutFields \cup {"notify"})
               /\ OutOf(j, k, t)
               /\ Elements(j.suspended) = Elements(k.suspended) \cup {t}
               /\ Elements(j.termination) = Elements(k.termination) \ {t}
               /\ j.termination = Without(k.termination, t)
               /\ j.notify = [k.notify EXCEPT ![t] = IF @ = "waiting" THEN "not_waiting" ELSE @]
<1> DEFINE r == TakenOut(k, t)
           j == vTaskSuspend(k, t)
<1>0. OutOfLists(r, k, t)
  BY TakenOutIs
<1>1. /\ Keeps(r, k, OutFields)
      /\ Good(r)
      /\ \A p \in Priority : ReadyAt(r, p) = ReadyAt(k, p) \ {t}
      /\ Leaves(r, k, t) /\ Nowhere(r, t)
      /\ Elements(r.pending) = Elements(k.pending) \ {t}
      /\ \A e \in EventLists : Elements(r.events[e]) = Elements(k.events[e]) \ {t}
      /\ r.wake = [k.wake EXCEPT ![t] = 0]
  BY <1>0 DEF OutOfLists
<1>2. j = [r EXCEPT !.suspended = Append(@, t),
                    !.notify[t] = IF @ = "waiting" THEN "not_waiting" ELSE @]
  BY DEF vTaskSuspend, TakenOut
<1> HIDE DEF r, j
<1>3. r.notify = k.notify /\ r.priority = k.priority /\ DOMAIN r = KernelFields
  BY <1>1 DEF Keeps, KernelFields, OutFields, StateLists
<1>4. /\ Keeps(j, r, {"suspended", "notify"})
      /\ j.suspended = Append(r.suspended, t)
      /\ j.notify = [k.notify EXCEPT ![t] = IF @ = "waiting" THEN "not_waiting" ELSE @]
  BY <1>2, <1>3 DEF Keeps, KernelFields
<1>5. /\ j.ready = r.ready /\ j.delayed = r.delayed /\ j.overflow = r.overflow
      /\ j.termination = r.termination /\ j.pending = r.pending /\ j.events = r.events
      /\ j.wake = r.wake /\ j.priority = r.priority /\ j.top = r.top
      /\ DOMAIN j = KernelFields
  BY <1>4 DEF Keeps, KernelFields
<1>6. Shape(r)
  BY <1>1 DEF Good, Sound
<1>7. t \notin Elements(r.suspended)
  BY <1>1, NowhereIs
<1>8. IsList(j.suspended, Task) /\ Elements(j.suspended) = Elements(r.suspended) \cup {t}
  BY <1>4, <1>6, <1>7, AppendIs DEF Shape
<1>9. Sound(j)
  <2>1. j.top \subseteq Priority
    BY <1>5, <1>6 DEF Shape
  <2>2. /\ IsList(j.delayed, Task) /\ IsList(j.overflow, Task)
        /\ IsList(j.termination, Task)
        /\ Sorted(j.delayed, j.wake) /\ Sorted(j.overflow, j.wake)
        /\ j.wake \in [Task -> Int]
    BY <1>5, <1>6 DEF Shape
  <2>3. /\ {} \in {{}, {t}} /\ {t} \in {{}, {t}} /\ ({t} # {} => {} = {})
        /\ ({} # {} => {} = {} /\ {t} = {} /\ {} = {})
        /\ ({} # {} => {t} = {} /\ {} = {})
    OBVIOUS
  <2>4. /\ Elements(j.delayed) = Elements(r.delayed) \cup {}
        /\ Elements(j.overflow) = Elements(r.overflow) \cup {}
        /\ Elements(j.termination) = Elements(r.termination) \cup {}
    BY <1>5
  <2>5. Sound(r)
    BY <1>1 DEF Good
  <2>6. QED
    BY <1>1, <1>5, <1>8, <2>1, <2>2, <2>3, <2>4, <2>5, PutInList
<1>10. Good(j)
  BY <1>1, <1>5, <1>9, ReadySame DEF Good
<1>11. \A p \in Priority : ReadyAt(j, p) = ReadyAt(k, p) \ {t}
  BY <1>1, <1>5 DEF ReadyAt
<1>12. /\ Late(j) = Late(k) \ {t}
       /\ Elements(j.suspended) = Elements(k.suspended) \cup {t}
       /\ Elements(j.termination) = Elements(k.termination) \ {t}
       /\ j.termination = Without(k.termination, t)
  BY <1>1, <1>5, <1>8 DEF Leaves, Late
<1>13. Keeps(j, k, OutFields \cup {"notify"})
  BY <1>1, <1>4 DEF Keeps, OutFields, StateLists
<1>14. OutOf(j, k, t)
  BY <1>1, <1>3, <1>5, <1>10, <1>11, <1>12 DEF OutOf
<1>15. QED
  BY <1>4, <1>12, <1>13, <1>14 DEF j

\* vTaskDelete of the running task.
LEMMA DeleteSelfIs ==
    ASSUME NEW k, Good(k), NEW t \in Task, t = k.current, t \notin Elements(k.termination)
    PROVE  LET j == vTaskDelete(k, t)
           IN  /\ Keeps(j, k, OutFields \cup {"cleanup"})
               /\ OutOf(j, k, t)
               /\ Elements(j.suspended) = Elements(k.suspended) \ {t}
               /\ j.termination = Append(k.termination, t)
               /\ Elements(j.termination) = Elements(k.termination) \cup {t}
               /\ Len(j.termination) = Len(k.termination) + 1
               /\ j.cleanup = k.cleanup + 1
<1> DEFINE r == TakenOut(k, t)
           j == vTaskDelete(k, t)
<1>0. OutOfLists(r, k, t)
  BY TakenOutIs
<1>1. /\ Keeps(r, k, OutFields)
      /\ Good(r)
      /\ \A p \in Priority : ReadyAt(r, p) = ReadyAt(k, p) \ {t}
      /\ Leaves(r, k, t) /\ Nowhere(r, t)
      /\ Elements(r.pending) = Elements(k.pending) \ {t}
      /\ \A e \in EventLists : Elements(r.events[e]) = Elements(k.events[e]) \ {t}
      /\ r.wake = [k.wake EXCEPT ![t] = 0]
  BY <1>0 DEF OutOfLists
<1>2. j = [r EXCEPT !.termination = Append(@, t), !.cleanup = @ + 1]
  BY DEF vTaskDelete, TakenOut
<1> HIDE DEF r, j
<1>3. r.cleanup = k.cleanup /\ r.priority = k.priority /\ DOMAIN r = KernelFields
  BY <1>1 DEF Keeps, KernelFields, OutFields, StateLists
<1>4. /\ Keeps(j, r, {"termination", "cleanup"})
      /\ j.termination = Append(r.termination, t)
      /\ j.cleanup = k.cleanup + 1
  BY <1>2, <1>3 DEF Keeps, KernelFields
<1>5. /\ j.ready = r.ready /\ j.delayed = r.delayed /\ j.overflow = r.overflow
      /\ j.suspended = r.suspended /\ j.pending = r.pending /\ j.events = r.events
      /\ j.wake = r.wake /\ j.priority = r.priority /\ j.top = r.top
      /\ DOMAIN j = KernelFields
  BY <1>4 DEF Keeps, KernelFields
<1>6. Shape(r)
  BY <1>1 DEF Good, Sound
<1>7. r.termination = k.termination
  BY <1>1, WithoutAbsent DEF Leaves
<1>8. /\ IsList(j.termination, Task) /\ Elements(j.termination) = Elements(k.termination) \cup {t}
      /\ Len(j.termination) = Len(k.termination) + 1
  BY <1>4, <1>6, <1>7, AppendIs DEF Shape
<1>9. Sound(j)
  <2>1. j.top \subseteq Priority
    BY <1>5, <1>6 DEF Shape
  <2>2. /\ IsList(j.delayed, Task) /\ IsList(j.overflow, Task)
        /\ IsList(j.suspended, Task)
        /\ Sorted(j.delayed, j.wake) /\ Sorted(j.overflow, j.wake)
        /\ j.wake \in [Task -> Int]
    BY <1>5, <1>6 DEF Shape
  <2>3. /\ {} \in {{}, {t}} /\ {t} \in {{}, {t}} /\ ({} # {} => {} = {})
        /\ ({} # {} => {} = {} /\ {} = {} /\ {t} = {})
        /\ ({} # {} => {} = {} /\ {t} = {})
        /\ ({} # {} => {t} = {})
    OBVIOUS
  <2>4. /\ Elements(j.delayed) = Elements(r.delayed) \cup {}
        /\ Elements(j.overflow) = Elements(r.overflow) \cup {}
        /\ Elements(j.suspended) = Elements(r.suspended) \cup {}
        /\ Elements(j.termination) = Elements(r.termination) \cup {t}
    BY <1>5, <1>7, <1>8
  <2>5. Sound(r)
    BY <1>1 DEF Good
  <2>6. QED
    BY <1>1, <1>5, <1>8, <2>1, <2>2, <2>3, <2>4, <2>5, PutInList
<1>10. Good(j)
  BY <1>1, <1>5, <1>9, ReadySame DEF Good
<1>11. \A p \in Priority : ReadyAt(j, p) = ReadyAt(k, p) \ {t}
  BY <1>1, <1>5 DEF ReadyAt
<1>12. Late(j) = Late(k) \ {t} /\ Elements(j.suspended) = Elements(k.suspended) \ {t}
  BY <1>1, <1>5 DEF Leaves, Late
<1>13. Keeps(j, k, OutFields \cup {"cleanup"})
  BY <1>1, <1>4 DEF Keeps, OutFields, StateLists
<1>14. OutOf(j, k, t)
  BY <1>1, <1>3, <1>5, <1>10, <1>11, <1>12 DEF OutOf
<1>15. QED
  BY <1>4, <1>7, <1>8, <1>12, <1>13, <1>14 DEF j

\* vTaskDelete of another task.
LEMMA DeleteOtherIs ==
    ASSUME NEW k, Good(k), NEW t \in Task, t # k.current
    PROVE  LET j == vTaskDelete(k, t)
           IN  /\ Keeps(j, k, OutFields \cup {"count", "unblock"})
               /\ OutOf(j, k, t)
               /\ Elements(j.suspended) = Elements(k.suspended) \ {t}
               /\ j.termination = Without(k.termination, t)
               /\ Elements(j.termination) = Elements(k.termination) \ {t}
               /\ j.count = k.count - 1
               /\ j.unblock \in Int
<1> DEFINE r == TakenOut(k, t)
           s == [r EXCEPT !.count = @ - 1]
           j == prvResetNextTaskUnblockTime(s)
<1>0. OutOfLists(r, k, t)
  BY TakenOutIs
<1>1. /\ Keeps(r, k, OutFields)
      /\ Good(r)
      /\ \A p \in Priority : ReadyAt(r, p) = ReadyAt(k, p) \ {t}
      /\ Leaves(r, k, t) /\ Nowhere(r, t)
      /\ Elements(r.pending) = Elements(k.pending) \ {t}
      /\ \A e \in EventLists : Elements(r.events[e]) = Elements(k.events[e]) \ {t}
      /\ r.wake = [k.wake EXCEPT ![t] = 0]
  BY <1>0 DEF OutOfLists
<1>2. vTaskDelete(k, t) = j
  BY DEF vTaskDelete, TakenOut
<1> HIDE DEF r
<1>3. r.count = k.count /\ r.priority = k.priority /\ DOMAIN r = KernelFields
  BY <1>1 DEF Keeps, KernelFields, OutFields, StateLists
<1>4. Keeps(s, r, {"count"}) /\ s.count = k.count - 1
  BY <1>3 DEF Keeps, KernelFields
<1> HIDE DEF s
<1>5. Good(s)
  BY <1>1, <1>4, FlagsSame
<1>6. Keeps(j, s, {"unblock"}) /\ j.unblock \in Int
  BY <1>5, ResetUnblockIs
<1> HIDE DEF j
<1>7. Keeps(j, r, {"count", "unblock"}) /\ j.count = k.count - 1
  BY <1>4, <1>6 DEF Keeps, KernelFields
<1>8. /\ Good(j)
      /\ \A p \in Priority : ReadyAt(j, p) = ReadyAt(r, p)
      /\ j.ready = r.ready /\ j.delayed = r.delayed /\ j.overflow = r.overflow
      /\ j.suspended = r.suspended /\ j.termination = r.termination
      /\ j.pending = r.pending /\ j.events = r.events
      /\ j.wake = r.wake /\ j.priority = r.priority /\ j.top = r.top
  BY <1>1, <1>7, FlagsSame
<1>9. Late(j) = Late(k) \ {t}
  BY <1>1, <1>8 DEF Leaves, Late
<1>10. Keeps(j, k, OutFields \cup {"count", "unblock"})
  BY <1>1, <1>7 DEF Keeps
<1>11. OutOf(j, k, t)
  BY <1>1, <1>3, <1>8, <1>9 DEF OutOf
<1>12. QED
  BY <1>1, <1>2, <1>6, <1>7, <1>8, <1>10, <1>11 DEF Leaves

\* One turn of the loop of prvCheckTasksWaitingTermination.
LEMMA CleanUpIs ==
    ASSUME NEW k, Good(k), Len(k.termination) > 0,
           \A e \in EventLists : Elements(k.events[e]) = {},
           Head(k.termination) \notin Elements(k.pending)
    PROVE  LET j == prvCheckTasksWaitingTermination(k)
               t == Head(k.termination)
           IN  /\ Keeps(j, k, StateLists \cup {"count", "cleanup"})
               /\ t \in Task /\ t \in Elements(k.termination)
               /\ OutOf(j, k, t)
               /\ \A p \in Priority : ReadyAt(j, p) = ReadyAt(k, p)
               /\ j.top = k.top
               /\ Elements(j.suspended) = Elements(k.suspended) \ {t}
               /\ Elements(j.termination) = Elements(k.termination) \ {t}
               /\ Len(j.termination) = Len(k.termination) - 1
               /\ j.count = k.count - 1 /\ j.cleanup = k.cleanup - 1
<1> DEFINE t == Head(k.termination)
           r == RemoveStateItem(k, t)
           j == prvCheckTasksWaitingTermination(k)
<1>0. k.termination \in Seq(Task) /\ IsList(k.termination, Task)
  BY DEF Good, Sound, Shape, IsList
<1>1. t \in Task /\ t \in Elements(k.termination)
  <2>1. t = k.termination[1] /\ 1 \in DOMAIN k.termination
    BY <1>0
  <2>2. QED
    BY <1>0, <2>1 DEF Elements
<1>2. j = [r EXCEPT !.count = @ - 1, !.cleanup = @ - 1]
  BY DEF prvCheckTasksWaitingTermination
<1> HIDE DEF t
<1>3. /\ Keeps(r, k, StateLists)
      /\ Sound(r)
      /\ \A p \in Priority : ReadyAt(r, p) = ReadyAt(k, p) \ {t}
      /\ Leaves(r, k, t)
      /\ r.wake = [k.wake EXCEPT ![t] = 0]
  BY <1>1, RemoveStateItemIs DEF Good
<1> HIDE DEF r, j
<1>4. /\ r.count = k.count /\ r.cleanup = k.cleanup /\ r.priority = k.priority
      /\ r.top = k.top /\ r.pending = k.pending /\ r.events = k.events
      /\ DOMAIN r = KernelFields
  BY <1>3 DEF Keeps, KernelFields, StateLists
<1>5. \A p \in Priority : ReadyAt(r, p) = ReadyAt(k, p)
  <2>1. \A p \in Priority : t \notin ReadyAt(k, p)
    BY <1>1 DEF Good, Sound, Apart
  <2>2. QED
    BY <1>3, <2>1
<1>6. Good(r)
  BY <1>3, <1>4, <1>5 DEF Good, ByPriority, TopRight
<1>7. /\ Keeps(j, r, {"count", "cleanup"})
      /\ j.count = k.count - 1 /\ j.cleanup = k.cleanup - 1
  BY <1>2, <1>4 DEF Keeps, KernelFields
<1>8. /\ Good(j)
      /\ \A p \in Priority : ReadyAt(j, p) = ReadyAt(r, p)
      /\ j.ready = r.ready /\ j.delayed = r.delayed /\ j.overflow = r.overflow
      /\ j.suspended = r.suspended /\ j.termination = r.termination
      /\ j.pending = r.pending /\ j.events = r.events
      /\ j.wake = r.wake /\ j.priority = r.priority /\ j.top = r.top
  BY <1>6, <1>7, FlagsSame
<1>9. /\ Late(j) = Late(k) \ {t}
      /\ Elements(j.suspended) = Elements(k.suspended) \ {t}
      /\ Elements(j.termination) = Elements(k.termination) \ {t}
      /\ j.termination = Without(k.termination, t)
  BY <1>3, <1>8 DEF Leaves, Late
<1>10. Len(j.termination) = Len(k.termination) - 1
  BY <1>0, <1>1, <1>9, WithoutIs
<1>11. Elements(j.pending) = Elements(k.pending) \ {t}
  BY <1>4, <1>8 DEF t
<1>12. \A e \in EventLists : Elements(j.events[e]) = Elements(k.events[e]) \ {t}
  BY <1>4, <1>8
<1>13. OutOf(j, k, t)
  BY <1>3, <1>4, <1>8, <1>9, <1>11, <1>12 DEF OutOf
<1>14. Keeps(j, k, StateLists \cup {"count", "cleanup"})
  BY <1>3, <1>7 DEF Keeps
<1>15. \A p \in Priority : ReadyAt(j, p) = ReadyAt(k, p)
  BY <1>5, <1>8
<1>16. QED
  BY <1>1, <1>4, <1>7, <1>8, <1>9, <1>10, <1>13, <1>14, <1>15 DEF t, j

-----------------------------------------------------------------------------
(* Priorities are set, and tasks created *)

LEMMA AddGood ==
    ASSUME NEW k, Good(k), NEW t \in Task, Nowhere(k, t)
    PROVE  LET j == prvAddTaskToReadyList(k, t)
           IN  /\ Keeps(j, k, {"top", "ready"})
               /\ Good(j)
               /\ \A p \in Priority :
                    ReadyAt(j, p) = ReadyAt(k, p) \cup (IF p = k.priority[t] THEN {t} ELSE {})
               /\ j.top = k.top \cup {k.priority[t]}
<1> DEFINE j == prvAddTaskToReadyList(k, t)
<1>1. /\ Keeps(j, k, {"top", "ready"})
      /\ Sound(j)
      /\ \A p \in Priority :
           ReadyAt(j, p) = ReadyAt(k, p) \cup (IF p = k.priority[t] THEN {t} ELSE {})
      /\ j.top = k.top \cup {k.priority[t]}
  BY AddToReadyIs DEF Good
<1> HIDE DEF j
<1>2. j.priority = k.priority
  BY <1>1 DEF Keeps, KernelFields
<1>3. ByPriority(j)
  BY <1>1, <1>2 DEF Good, ByPriority
<1>4. TopRight(j)
  BY <1>1 DEF Good, TopRight
<1>5. QED
  BY <1>1, <1>3, <1>4 DEF Good, j

\* The parts of a state that the lists are judged by.
LEMMA GoodWith ==
    ASSUME NEW k, Good(k), NEW j, DOMAIN j = KernelFields,
           j.ready = k.ready, j.delayed = k.delayed, j.overflow = k.overflow,
           j.suspended = k.suspended, j.termination = k.termination,
           j.pending = k.pending, j.events = k.events, j.wake = k.wake, j.top = k.top,
           j.priority \in [Task -> Priority]
    PROVE  /\ Sound(j)
           /\ \A p \in Priority : ReadyAt(j, p) = ReadyAt(k, p)
           /\ TopRight(j)
<1>1. Shape(j)
  BY DEF Good, Sound, Shape
<1>2. \A p \in Priority : ReadyAt(j, p) = ReadyAt(k, p)
  BY DEF ReadyAt
<1>3. Apart(j)
  BY <1>2 DEF Good, Sound, Apart
<1>4. TopRight(j)
  BY <1>2 DEF Good, TopRight
<1>5. QED
  BY <1>1, <1>2, <1>3, <1>4 DEF Sound

Clamped(p) == IF p < MaxPriorities THEN p ELSE MaxPriorities - 1

LEMMA ClampedIs ==
    ASSUME NEW p \in Nat
    PROVE  Clamped(p) \in Priority
BY PrioritiesAssumption DEF Clamped, Priority

NewFields == {"priority", "base", "event", "bits", "mutexes", "notify", "value"}

CreateFields == NewFields \cup {"count", "current", "top", "ready"}

\* Whether a new task becomes the current one.
ComesFirst(k, t, p) ==
    \/ k.current = NoTask
    \/ ~k.running /\ k.priority[k.current] <= p

\* A new task of priority q has been made ready.
CreatedBy(j, k, t, q) ==
    /\ Keeps(j, k, CreateFields)
    /\ Good(j)
    /\ \A x \in Priority :
         ReadyAt(j, x) = ReadyAt(k, x) \cup (IF x = q THEN {t} ELSE {})
    /\ j.priority = [k.priority EXCEPT ![t] = q]
    /\ j.base = [k.base EXCEPT ![t] = q]
    /\ j.event = [k.event EXCEPT ![t] = MaxPriorities - q]
    /\ j.mutexes = [k.mutexes EXCEPT ![t] = 0]
    /\ j.bits = [k.bits EXCEPT ![t] = NoBits]
    /\ j.notify = [k.notify EXCEPT ![t] = "not_waiting"]
    /\ j.value = [k.value EXCEPT ![t] = 0]
    /\ j.count = k.count + 1
    /\ j.current = IF ComesFirst(k, t, q) THEN t ELSE k.current

LEMMA CreateIs ==
    ASSUME NEW k, Good(k), NEW t \in Task, Nowhere(k, t), NEW p \in Nat,
           DOMAIN k.base = Task, DOMAIN k.notify = Task, DOMAIN k.value = Task,
           k.current \in (Task \ {t}) \cup {NoTask}
    PROVE  CreatedBy(xTaskCreate(k, <<t, p>>), k, t, Clamped(p))
<1> DEFINE q == Clamped(p)
           a == prvInitialiseNewTask(k, t, p)
           first == \/ a.current = NoTask
                    \/ ~a.running /\ a.priority[a.current] <= a.priority[t]
           b == [a EXCEPT !.count = @ + 1, !.current = IF first THEN t ELSE @]
           j == prvAddTaskToReadyList(b, t)
<1>0. /\ DOMAIN k = KernelFields /\ k.priority \in [Task -> Priority] /\ q \in Priority
  BY ClampedIs DEF Good, Sound, Shape
<1>1. /\ Keeps(a, k, NewFields)
      /\ a.priority = [k.priority EXCEPT ![t] = q]
      /\ a.base = [k.base EXCEPT ![t] = q]
      /\ a.event = [k.event EXCEPT ![t] = MaxPriorities - q]
      /\ a.mutexes = [k.mutexes EXCEPT ![t] = 0]
      /\ a.bits = [k.bits EXCEPT ![t] = NoBits]
      /\ a.notify = [k.notify EXCEPT ![t] = "not_waiting"]
      /\ a.value = [k.value EXCEPT ![t] = 0]
  <2>1. a = [k EXCEPT !.priority[t] = q, !.base[t] = q, !.event[t] = MaxPriorities - q,
                      !.bits[t] = NoBits, !.mutexes[t] = 0,
                      !.notify[t] = "not_waiting", !.value[t] = 0]
    BY DEF prvInitialiseNewTask, Clamped
  <2> HIDE DEF a, q
  <2>2. QED
    BY <1>0, <2>1 DEF Keeps, KernelFields, NewFields
<1>2. xTaskCreate(k, <<t, p>>) = j
  BY DEF xTaskCreate, prvAddNewTaskToReadyList
<1> HIDE DEF a, q
<1>3. /\ Keeps(b, a, {"count", "current"})
      /\ b.count = a.count + 1
      /\ b.current = IF first THEN t ELSE a.current
  BY <1>1 DEF Keeps, KernelFields, NewFields
<1>4. a.count = k.count /\ a.current = k.current /\ a.running = k.running
  BY <1>1 DEF Keeps, KernelFields, NewFields
<1>5. first <=> ComesFirst(k, t, q)
  <2>1. a.priority[t] = q
    BY <1>0, <1>1
  <2>2. k.current # NoTask => a.priority[k.current] = k.priority[k.current]
    <3>1. k.current # NoTask => k.current \in Task /\ k.current # t
      OBVIOUS
    <3>2. QED
      BY <1>0, <1>1, <3>1
  <2>3. QED
    BY <1>4, <2>1, <2>2 DEF ComesFirst
<1> HIDE DEF first, b
<1>6. /\ b.ready = k.ready /\ b.delayed = k.delayed /\ b.overflow = k.overflow
      /\ b.suspended = k.suspended /\ b.termination = k.termination
      /\ b.pending = k.pending /\ b.events = k.events /\ b.wake = k.wake /\ b.top = k.top
      /\ b.priority = a.priority /\ DOMAIN b = KernelFields
      /\ b.base = a.base /\ b.notify = a.notify /\ b.value = a.value /\ b.event = a.event
      /\ b.mutexes = a.mutexes /\ b.bits = a.bits
  BY <1>1, <1>3 DEF Keeps, KernelFields, NewFields
<1>7. b.priority \in [Task -> Priority] /\ b.priority[t] = q
  BY <1>0, <1>1, <1>6
<1>8. Sound(b) /\ (\A x \in Priority : ReadyAt(b, x) = ReadyAt(k, x)) /\ TopRight(b)
  BY <1>6, <1>7, GoodWith
<1>9. \A x \in Priority : t \notin ReadyAt(k, x)
  BY NowhereIs
<1>10. ByPriority(b)
  <2> SUFFICES ASSUME NEW x \in Priority, NEW u \in ReadyAt(k, x) PROVE b.priority[u] = x
    BY <1>8 DEF ByPriority
  <2>1. u # t /\ k.priority[u] = x
    BY <1>9 DEF Good, ByPriority
  <2>2. u \in Task
    <3>1. IsReadyList(k.ready[x], Task)
      BY DEF Good, Sound, Shape
    <3>2. QED
      BY <3>1 DEF ReadyAt, Elements, IsReadyList, IsList
  <2>3. QED
    BY <1>0, <1>1, <1>6, <2>1, <2>2
<1>11. Nowhere(b, t)
  BY <1>6, <1>8, NowhereIs
<1>12. /\ Keeps(j, b, {"top", "ready"})
       /\ Good(j)
       /\ \A x \in Priority :
            ReadyAt(j, x) = ReadyAt(b, x) \cup (IF x = b.priority[t] THEN {t} ELSE {})
       /\ j.top = b.top \cup {b.priority[t]}
  BY <1>8, <1>10, <1>11, AddGood DEF Good
<1> HIDE DEF j
<1>13. /\ j.priority = b.priority /\ j.base = b.base /\ j.notify = b.notify
       /\ j.value = b.value /\ j.count = b.count /\ j.current = b.current
       /\ j.event = b.event /\ j.mutexes = b.mutexes /\ j.bits = b.bits
  BY <1>12 DEF Keeps, KernelFields
<1>14. Keeps(j, k, CreateFields)
  BY <1>1, <1>3, <1>12 DEF Keeps, CreateFields
<1>15. \A x \in Priority : ReadyAt(j, x) = ReadyAt(k, x) \cup (IF x = q THEN {t} ELSE {})
  BY <1>7, <1>8, <1>12
<1>16. j.current = IF ComesFirst(k, t, q) THEN t ELSE k.current
  BY <1>3, <1>4, <1>5, <1>13
<1>17. /\ j.priority = [k.priority EXCEPT ![t] = q]
       /\ j.base = [k.base EXCEPT ![t] = q]
       /\ j.event = [k.event EXCEPT ![t] = MaxPriorities - q]
       /\ j.mutexes = [k.mutexes EXCEPT ![t] = 0]
       /\ j.bits = [k.bits EXCEPT ![t] = NoBits]
       /\ j.notify = [k.notify EXCEPT ![t] = "not_waiting"]
       /\ j.value = [k.value EXCEPT ![t] = 0]
       /\ j.count = k.count + 1
  BY <1>1, <1>3, <1>4, <1>6, <1>13
<1>18. QED
  <2>1. CreatedBy(j, k, t, q)
    BY <1>12, <1>14, <1>15, <1>16, <1>17 DEF CreatedBy
  <2>2. QED
    BY <1>2, <2>1 DEF q

\* The tasks of the ready lists outrank the current one or they do not.
LEMMA OnTopIs ==
    ASSUME NEW k, Good(k)
    PROVE  OnTop(k) <=> /\ CurrentIsReady(k)
                        /\ \A p \in Priority :
                             ReadyAt(k, p) # {} => p <= k.priority[k.current]
BY DEF Good, Sound, Shape, TopRight, OnTop

LEMMA ReadyTasks ==
    ASSUME NEW k, Good(k), NEW p \in Priority, NEW t \in ReadyAt(k, p)
    PROVE  t \in Task /\ k.priority[t] = p
<1>1. IsReadyList(k.ready[p], Task)
  BY DEF Good, Sound, Shape
<1>2. QED
  BY <1>1 DEF Good, ByPriority, ReadyAt, Elements, IsReadyList, IsList

YieldRequired(k, t, new) ==
    \/ new > k.base[t] /\ t # k.current /\ new >= k.priority[k.current]
    \/ new < k.base[t] /\ t = k.current

PriorityFields == StateLists \cup {"top", "priority", "base", "event", "pendsv"}

\* The priority of a task has been set, which may be in a list of the old one.
Renumbered(j, k, t, new) ==
    /\ Keeps(j, k, {"priority", "base", "event"})
    /\ j.priority = [k.priority EXCEPT ![t] = new]

LEMMA RenumberedIs ==
    ASSUME NEW k, Good(k), NEW t \in Task, NEW new \in Priority, NEW j, Renumbered(j, k, t, new)
    PROVE  /\ j.priority \in [Task -> Priority]
           /\ Sound(j) /\ TopRight(j)
           /\ \A p \in Priority : ReadyAt(j, p) = ReadyAt(k, p)
           /\ (\A p \in Priority : t \notin ReadyAt(k, p)) => Good(j)
<1>1. DOMAIN k = KernelFields /\ k.priority \in [Task -> Priority]
  BY DEF Good, Sound, Shape
<1>2. /\ j.ready = k.ready /\ j.delayed = k.delayed /\ j.overflow = k.overflow
      /\ j.suspended = k.suspended /\ j.termination = k.termination
      /\ j.pending = k.pending /\ j.events = k.events /\ j.wake = k.wake /\ j.top = k.top
      /\ DOMAIN j = KernelFields
  BY DEF Renumbered, Keeps, KernelFields
<1>3. j.priority \in [Task -> Priority]
  BY <1>1 DEF Renumbered
<1>4. Sound(j) /\ (\A p \in Priority : ReadyAt(j, p) = ReadyAt(k, p)) /\ TopRight(j)
  BY <1>2, <1>3, GoodWith
<1>5. ASSUME \A p \in Priority : t \notin ReadyAt(k, p) PROVE ByPriority(j)
  <2> SUFFICES ASSUME NEW p \in Priority, NEW u \in ReadyAt(k, p) PROVE j.priority[u] = p
    BY <1>4 DEF ByPriority
  <2>1. u \in Task /\ k.priority[u] = p /\ u # t
    BY <1>5, ReadyTasks
  <2>2. QED
    BY <1>1, <2>1 DEF Renumbered
<1>6. QED
  BY <1>3, <1>4, <1>5 DEF Good

\* The ready list of a task follows its priority.
Requeued(k, set, t) ==
    LET r == RemoveStateItem(set, t)
        m == IF LeavesListEmpty(k, t)
               THEN portRESET_READY_PRIORITY(r, k.priority[t]) ELSE r
    IN  prvAddTaskToReadyList(m, t)

MovedTo(j, set, k, t, new) ==
    /\ Keeps(j, set, StateLists \cup {"top"})
    /\ Good(j)
    /\ \A p \in Priority :
         ReadyAt(j, p) = (ReadyAt(k, p) \ {t}) \cup (IF p = new THEN {t} ELSE {})
    /\ j.delayed = k.delayed /\ j.overflow = k.overflow
    /\ j.suspended = k.suspended /\ j.termination = k.termination
    /\ \A u \in Task \ {t} : j.wake[u] = k.wake[u]

LEMMA RequeuedIs ==
    ASSUME NEW k, Good(k), NEW t \in Task, NEW new \in Priority,
           NEW set, Renumbered(set, k, t, new),
           t \in ReadyAt(k, k.priority[t])
    PROVE  MovedTo(Requeued(k, set, t), set, k, t, new)
<1> DEFINE o == k.priority[t]
           r == RemoveStateItem(set, t)
           m == IF LeavesListEmpty(k, t) THEN portRESET_READY_PRIORITY(r, o) ELSE r
           j == prvAddTaskToReadyList(m, t)
<1>0. k.priority \in [Task -> Priority] /\ o \in Priority
  BY DEF Good, Sound, Shape
<1>1. /\ Keeps(set, k, {"priority", "base", "event"})
      /\ set.priority = [k.priority EXCEPT ![t] = new]
      /\ Sound(set) /\ TopRight(set)
      /\ \A p \in Priority : ReadyAt(set, p) = ReadyAt(k, p)
  BY RenumberedIs DEF Renumbered
<1>2. /\ Keeps(r, set, StateLists)
      /\ Sound(r)
      /\ \A p \in Priority : ReadyAt(r, p) = ReadyAt(set, p) \ {t}
      /\ Leaves(r, set, t)
      /\ r.wake = [set.wake EXCEPT ![t] = 0]
  BY <1>1, RemoveStateItemIs
<1> HIDE DEF r
<1>3. /\ set.delayed = k.delayed /\ set.overflow = k.overflow
      /\ set.suspended = k.suspended /\ set.termination = k.termination
      /\ set.wake = k.wake /\ set.top = k.top
  BY <1>1 DEF Keeps, KernelFields
<1>4. r.priority = set.priority /\ r.top = k.top
  BY <1>2, <1>3 DEF Keeps, KernelFields, StateLists
<1>5. /\ t \notin Elements(k.delayed) /\ t \notin Elements(k.overflow)
      /\ t \notin Elements(k.suspended) /\ t \notin Elements(k.termination)
      /\ \A p \in Priority : p # o => t \notin ReadyAt(k, p)
  BY <1>0 DEF Good, Sound, Apart
<1>6. /\ r.delayed = k.delayed /\ r.overflow = k.overflow
      /\ r.suspended = k.suspended /\ r.termination = k.termination
  BY <1>2, <1>3, <1>5, WithoutAbsent DEF Leaves
<1>7. \A p \in Priority : ReadyAt(r, p) = ReadyAt(k, p) \ {t}
  BY <1>1, <1>2
<1>8. ByPriority(r)
  <2> SUFFICES ASSUME NEW p \in Priority, NEW u \in ReadyAt(k, p) \ {t} PROVE r.priority[u] = p
    BY <1>7 DEF ByPriority
  <2>1. u \in Task /\ k.priority[u] = p
    BY ReadyTasks
  <2>2. QED
    BY <1>0, <1>1, <1>4, <2>1
<1>9. \A q \in Priority : q # o => (q \in r.top <=> ReadyAt(r, q) # {})
  <2> SUFFICES ASSUME NEW q \in Priority, q # o PROVE q \in r.top <=> ReadyAt(r, q) # {}
    OBVIOUS
  <2>1. ReadyAt(r, q) = ReadyAt(k, q)
    BY <1>5, <1>7
  <2>2. QED
    BY <1>4, <2>1 DEF Good, TopRight
<1>10. LeavesListEmpty(k, t) <=> ReadyAt(r, o) = {}
  <2>1. LeavesListEmpty(k, t) <=> ReadyAt(k, o) = {t}
    BY <1>0, LeavesEmptyIs DEF Good
  <2>2. ReadyAt(r, o) = ReadyAt(k, o) \ {t}
    BY <1>0, <1>7
  <2>3. QED
    BY <2>1, <2>2
<1>11. /\ Keeps(m, r, {"top"}) /\ Good(m)
  <2>1. CASE LeavesListEmpty(k, t)
    <3>1. m = portRESET_READY_PRIORITY(r, o)
      BY <2>1
    <3>2. QED
      BY <1>0, <1>2, <1>8, <1>9, <1>10, <2>1, <3>1, ResetIs
  <2>2. CASE ~LeavesListEmpty(k, t)
    <3>1. m = r
      BY <2>2
    <3>2. o \in r.top
      BY <1>0, <1>4 DEF Good, TopRight
    <3>3. TopRight(r)
      BY <1>9, <1>10, <2>2, <3>2 DEF TopRight
    <3>4. Keeps(r, r, {"top"})
      BY <1>2 DEF Keeps
    <3>5. QED
      BY <1>2, <1>8, <3>1, <3>3, <3>4 DEF Good
  <2>3. QED
    BY <2>1, <2>2
<1> HIDE DEF m
<1>12. /\ m.ready = r.ready /\ m.delayed = r.delayed /\ m.overflow = r.overflow
       /\ m.suspended = r.suspended /\ m.termination = r.termination
       /\ m.priority = r.priority /\ m.wake = r.wake
  BY <1>11 DEF Keeps, KernelFields
<1>13. \A p \in Priority : ReadyAt(m, p) = ReadyAt(r, p)
  BY <1>12 DEF ReadyAt
<1>14. Nowhere(m, t)
  BY <1>5, <1>6, <1>7, <1>12, <1>13, NowhereIs
<1>15. m.priority[t] = new
  BY <1>0, <1>1, <1>4, <1>12
<1>16. /\ Keeps(j, m, {"top", "ready"})
       /\ Good(j)
       /\ \A p \in Priority :
            ReadyAt(j, p) = ReadyAt(m, p) \cup (IF p = m.priority[t] THEN {t} ELSE {})
  BY <1>11, <1>14, AddGood
<1> HIDE DEF j
<1>17. /\ j.delayed = m.delayed /\ j.overflow = m.overflow
       /\ j.suspended = m.suspended /\ j.termination = m.termination
       /\ j.wake = m.wake
  BY <1>16 DEF Keeps, KernelFields
<1>18. Keeps(j, set, StateLists \cup {"top"})
  BY <1>2, <1>11, <1>16 DEF Keeps, StateLists
<1>19. \A p \in Priority :
         ReadyAt(j, p) = (ReadyAt(k, p) \ {t}) \cup (IF p = new THEN {t} ELSE {})
  BY <1>7, <1>13, <1>15, <1>16
<1>20. \A u \in Task \ {t} : j.wake[u] = k.wake[u]
  <2>1. k.wake \in [Task -> Int]
    BY DEF Good, Sound, Shape
  <2>2. j.wake = [k.wake EXCEPT ![t] = 0]
    BY <1>2, <1>3, <1>12, <1>17
  <2>3. QED
    BY <2>1, <2>2
<1>21. /\ j.delayed = k.delayed /\ j.overflow = k.overflow
       /\ j.suspended = k.suspended /\ j.termination = k.termination
  BY <1>6, <1>12, <1>17
<1>22. Requeued(k, set, t) = j
  BY DEF Requeued, o, r, m, j
<1>23. MovedTo(j, set, k, t, new)
  BY <1>16, <1>18, <1>19, <1>20, <1>21 DEF MovedTo
<1>24. QED
  BY <1>22, <1>23

\* The state in which vTaskPrioritySet has set the numbers.
Reprioritised(k, t, new) ==
    [k EXCEPT !.priority[t] = IF k.base[t] = @ THEN new ELSE @,
              !.base[t] = new,
              !.event[t] = IF k.bits[t].used THEN @ ELSE MaxPriorities - new]

LEMMA ReprioritisedIs ==
    ASSUME NEW k, Good(k), NEW t \in Task, NEW new \in Priority, k.base = k.priority
    PROVE  LET j == Reprioritised(k, t, new)
           IN  /\ Renumbered(j, k, t, new)
               /\ j.base = [k.base EXCEPT ![t] = new]
<1>1. DOMAIN k = KernelFields /\ k.priority \in [Task -> Priority]
  BY DEF Good, Sound, Shape
<1>2. QED
  BY <1>1 DEF Reprioritised, Renumbered, Keeps, KernelFields

FollowedIs(j, k, t, new) ==
    /\ Keeps(j, k, StateLists \cup {"top", "priority", "base", "event"})
    /\ Good(j)
    /\ j.priority = [k.priority EXCEPT ![t] = new]
    /\ j.base = [k.base EXCEPT ![t] = new]
    /\ \A p \in Priority :
         ReadyAt(j, p) = (ReadyAt(k, p) \ {t}) \cup (IF p = new THEN {t} ELSE {})
    /\ j.delayed = k.delayed /\ j.overflow = k.overflow
    /\ j.suspended = k.suspended /\ j.termination = k.termination
    /\ \A u \in Task \ {t} : j.wake[u] = k.wake[u]

LEMMA PriorityMoveIs ==
    ASSUME NEW k, Good(k), NEW t \in Task, NEW new \in Priority, k.base = k.priority,
           t \in ReadyAt(k, k.priority[t])
    PROVE  FollowedIs(Requeued(k, Reprioritised(k, t, new), t), k, t, new)
<1> DEFINE set == Reprioritised(k, t, new)
           j == Requeued(k, set, t)
<1>1. Renumbered(set, k, t, new) /\ set.base = [k.base EXCEPT ![t] = new]
  BY ReprioritisedIs
<1> HIDE DEF set
<1>2. MovedTo(j, set, k, t, new)
  BY <1>1, RequeuedIs
<1> HIDE DEF j
<1>3. j.priority = set.priority /\ j.base = set.base
  BY <1>2 DEF MovedTo, Keeps, KernelFields, StateLists
<1>4. Keeps(j, k, StateLists \cup {"top", "priority", "base", "event"})
  BY <1>1, <1>2 DEF MovedTo, Renumbered, Keeps, StateLists
<1>5. QED
  BY <1>1, <1>2, <1>3, <1>4 DEF FollowedIs, MovedTo, Renumbered, j, set

\* The tasks that are ready.
Ready(k) == UNION {ReadyAt(k, p) : p \in Priority}

LEMMA ReadyIs ==
    ASSUME NEW k, NEW t
    PROVE  t \in Ready(k) <=> \E p \in Priority : t \in ReadyAt(k, p)
BY DEF Ready

LEMMA PrioritySetIs ==
    ASSUME NEW k, Good(k), NEW t \in Task, NEW n \in Nat, k.base = k.priority,
           k.current \in Task
    PROVE  LET j == vTaskPrioritySet(k, t, n)
           IN  /\ Keeps(j, k, PriorityFields)
               /\ Good(j) /\ j.base = j.priority
               /\ j.delayed = k.delayed /\ j.overflow = k.overflow
               /\ j.suspended = k.suspended /\ j.termination = k.termination
               /\ Ready(j) = Ready(k)
               /\ \A p \in Priority : ReadyAt(j, p) \ {t} = ReadyAt(k, p) \ {t}
               /\ \A u \in Task \ Ready(k) : j.wake[u] = k.wake[u]
               /\ OnTop(k) /\ ~j.pendsv => OnTop(j)
<1> DEFINE new == Clamped(n)
           o == k.priority[t]
           c == k.current
           set == Reprioritised(k, t, new)
           a == Requeued(k, set, t)
           b == IF Contained(t, k.ready[o]) THEN a ELSE set
           j == vTaskPrioritySet(k, t, n)
<1>0. /\ DOMAIN k = KernelFields /\ k.priority \in [Task -> Priority]
      /\ o \in Priority /\ new \in Priority
  BY ClampedIs DEF Good, Sound, Shape
<1>1. j = IF k.base[t] = new THEN k ELSE YieldIf(b, YieldRequired(k, t, new))
  BY DEF vTaskPrioritySet, Clamped, YieldRequired, Reprioritised, Requeued
<1>2. Contained(t, k.ready[o]) <=> t \in ReadyAt(k, o)
  BY DEF Contained, ReadyAt, Elements, ToSet
<1>3. t \in ReadyAt(k, o) <=> t \in Ready(k)
  BY <1>0, ReadyIs, ReadyTasks
<1> HIDE DEF new
<1>4. /\ Keeps(b, k, StateLists \cup {"top", "priority", "base", "event"})
      /\ Good(b)
      /\ b.priority = [k.priority EXCEPT ![t] = new]
      /\ b.base = [k.base EXCEPT ![t] = new]
      /\ \A p \in Priority :
           ReadyAt(b, p) = IF t \in Ready(k)
                             THEN (ReadyAt(k, p) \ {t}) \cup (IF p = new THEN {t} ELSE {})
                             ELSE ReadyAt(k, p)
      /\ b.delayed = k.delayed /\ b.overflow = k.overflow
      /\ b.suspended = k.suspended /\ b.termination = k.termination
      /\ \A u \in Task \ Ready(k) : b.wake[u] = k.wake[u]
  <2>1. CASE t \in Ready(k)
    <3>1. b = a /\ t \in ReadyAt(k, o)
      BY <1>2, <1>3, <2>1
    <3>2. FollowedIs(a, k, t, new)
      BY <1>0, <3>1, PriorityMoveIs
    <3> HIDE DEF a, b
    <3>3. QED
      BY <2>1, <3>1, <3>2 DEF FollowedIs
  <2>2. CASE t \notin Ready(k)
    <3>1. b = set /\ \A p \in Priority : t \notin ReadyAt(k, p)
      BY <1>2, <1>3, <2>2, ReadyIs
    <3>2. /\ Keeps(set, k, {"priority", "base", "event"})
          /\ set.priority = [k.priority EXCEPT ![t] = new]
          /\ set.base = [k.base EXCEPT ![t] = new]
          /\ set.priority \in [Task -> Priority]
          /\ Sound(set) /\ TopRight(set)
          /\ \A p \in Priority : ReadyAt(set, p) = ReadyAt(k, p)
          /\ (\A p \in Priority : t \notin ReadyAt(k, p)) => Good(set)
      BY <1>0, ReprioritisedIs, RenumberedIs DEF Renumbered
    <3> HIDE DEF set, b
    <3>3. /\ set.delayed = k.delayed /\ set.overflow = k.overflow
          /\ set.suspended = k.suspended /\ set.termination = k.termination
          /\ set.wake = k.wake
      BY <3>2 DEF Keeps, KernelFields
    <3>4. Keeps(set, k, StateLists \cup {"top", "priority", "base", "event"})
      BY <3>2 DEF Keeps
    <3>5. QED
      BY <2>2, <3>1, <3>2, <3>3, <3>4
  <2>3. QED
    BY <2>1, <2>2
<1> HIDE DEF b, j
<1>5. b.base = b.priority
  BY <1>4
<1>6. Ready(b) = Ready(k)
  <2>1. ASSUME NEW u, u # t PROVE u \in Ready(b) <=> u \in Ready(k)
    BY <1>4, <2>1, ReadyIs
  <2>2. t \in Ready(b) <=> t \in Ready(k)
    BY <1>0, <1>4, ReadyIs
  <2>3. QED
    BY <2>1, <2>2
<1>7. \A p \in Priority : ReadyAt(b, p) \ {t} = ReadyAt(k, p) \ {t}
  BY <1>4
<1>8. b.current = c
  BY <1>4 DEF Keeps, KernelFields, StateLists
<1>9. ASSUME OnTop(k), ~YieldRequired(k, t, new) PROVE OnTop(b)
  <2>0. /\ CurrentIsReady(k)
        /\ \A p \in Priority : ReadyAt(k, p) # {} => p <= k.priority[c]
    BY <1>9, OnTopIs
  <2>1. k.base[t] = o /\ o \in Int /\ new \in Int /\ k.priority[c] \in Int
        /\ \A p \in Priority : p \in Int
    BY <1>0, PrioritiesAssumption DEF Priority
  <2>2. CASE t = c
    <3>1. new >= o
      BY <1>9, <2>1, <2>2 DEF YieldRequired
    <3>2. b.priority[c] = new
      BY <1>0, <1>4, <2>2
    <3>3. t \in ReadyAt(k, o)
      BY <2>0, <2>2 DEF CurrentIsReady
    <3>4. c \in ReadyAt(b, new)
      BY <1>0, <1>3, <1>4, <2>2, <3>3
    <3>5. ASSUME NEW p \in Priority, ReadyAt(b, p) # {} PROVE p <= new
      <4>1. p = new \/ ReadyAt(k, p) # {}
        BY <1>4, <3>5
      <4>2. CASE ReadyAt(k, p) # {}
        <5>1. p <= k.priority[c] /\ k.priority[c] = o
          BY <2>0, <2>2, <4>2
        <5>2. QED
          BY <2>1, <3>1, <5>1
      <4>3. QED
        BY <2>1, <4>1, <4>2
    <3>6. QED
      BY <1>4, <1>8, <3>2, <3>4, <3>5, OnTopIs DEF CurrentIsReady
  <2>3. CASE t # c
    <3>1. new <= o \/ new < k.priority[c]
      BY <1>9, <2>1, <2>3 DEF YieldRequired
    <3>2. b.priority[c] = k.priority[c]
      BY <1>0, <1>4, <2>3
    <3>3. c \in ReadyAt(b, b.priority[c])
      BY <1>0, <1>4, <2>0, <2>3, <3>2 DEF CurrentIsReady
    <3>4. ASSUME NEW p \in Priority, ReadyAt(b, p) # {} PROVE p <= k.priority[c]
      <4>1. ReadyAt(k, p) # {} \/ (t \in Ready(k) /\ p = new)
        BY <1>4, <3>4
      <4>2. CASE ReadyAt(k, p) # {}
        BY <2>0, <4>2
      <4>3. CASE t \in Ready(k) /\ p = new
        <5>1. o <= k.priority[c]
          BY <1>0, <1>3, <2>0, <4>3
        <5>2. QED
          BY <2>1, <3>1, <4>3, <5>1
      <4>4. QED
        BY <4>1, <4>2, <4>3
    <3>5. QED
      BY <1>4, <1>8, <3>2, <3>3, <3>4, OnTopIs DEF CurrentIsReady
  <2>4. QED
    BY <2>2, <2>3
<1>10. CASE k.base[t] = new
  <2>1. j = k
    BY <1>1, <1>10
  <2>2. Keeps(k, k, PriorityFields)
    BY <1>0 DEF Keeps
  <2>3. QED
    BY <2>1, <2>2 DEF j
<1>11. CASE k.base[t] # new /\ YieldRequired(k, t, new)
  <2>1. j = [b EXCEPT !.pendsv = TRUE]
    BY <1>1, <1>11 DEF YieldIf, portYIELD
  <2>2. Keeps(j, b, {"pendsv"}) /\ j.pendsv = TRUE
    BY <1>4, <2>1 DEF Keeps, KernelFields
  <2>3. /\ Good(j)
        /\ \A p \in Priority : ReadyAt(j, p) = ReadyAt(b, p)
        /\ j.ready = b.ready /\ j.delayed = b.delayed /\ j.overflow = b.overflow
        /\ j.suspended = b.suspended /\ j.termination = b.termination
        /\ j.pending = b.pending /\ j.events = b.events
        /\ j.wake = b.wake /\ j.priority = b.priority /\ j.top = b.top
    BY <1>4, <2>2, FlagsSame
  <2>4. Keeps(j, k, PriorityFields)
    BY <1>4, <2>2 DEF Keeps, PriorityFields
  <2>5. j.base = b.base
    BY <2>2 DEF Keeps, KernelFields
  <2>6. Ready(j) = Ready(b)
    BY <2>3 DEF Ready
  <2>7. QED
    BY <1>4, <1>5, <1>6, <1>7, <2>2, <2>3, <2>4, <2>5, <2>6 DEF j
<1>12. CASE k.base[t] # new /\ ~YieldRequired(k, t, new)
  <2>1. j = b
    BY <1>1, <1>12 DEF YieldIf
  <2>2. Keeps(j, k, PriorityFields)
    BY <1>4, <2>1 DEF Keeps, PriorityFields
  <2>3. QED
    BY <1>4, <1>5, <1>6, <1>7, <1>9, <1>12, <2>1, <2>2 DEF j
<1>13. QED
  BY <1>10, <1>11, <1>12

-----------------------------------------------------------------------------
(* Who runs, after a step *)

LEMMA OnTopStays ==
    ASSUME NEW k, Good(k), OnTop(k), NEW S, NEW j, Readied(j, k, S),
           j.current = k.current,
           \A t \in S : t \in Task /\ ~(k.priority[t] > k.priority[k.current])
    PROVE  OnTop(j)
<1> DEFINE c == k.current
<1>1. /\ CurrentIsReady(k)
      /\ \A p \in Priority : ReadyAt(k, p) # {} => p <= k.priority[c]
  BY OnTopIs
<1>2. /\ k.priority \in [Task -> Priority] /\ c \in Task /\ c \in ReadyAt(k, k.priority[c])
      /\ k.priority[c] \in Priority /\ \A p \in Priority : p \in Int
  BY <1>1, PrioritiesAssumption DEF Good, Sound, Shape, CurrentIsReady, Priority
<1>3. \A p \in Priority :
        ReadyAt(j, p) = (ReadyAt(k, p) \ S) \cup {t \in S : k.priority[t] = p}
  BY DEF Readied
<1>4. j.priority = k.priority /\ Good(j)
  BY DEF Readied
<1>5. c \in ReadyAt(j, k.priority[c])
  <2>1. ReadyAt(j, k.priority[c])
          = (ReadyAt(k, k.priority[c]) \ S) \cup {t \in S : k.priority[t] = k.priority[c]}
    BY <1>2, <1>3
  <2>2. QED
    BY <1>2, <2>1
<1>6. ASSUME NEW p \in Priority, ReadyAt(j, p) # {} PROVE p <= k.priority[c]
  <2>1. CASE ReadyAt(k, p) # {}
    BY <1>1, <2>1
  <2>2. CASE ReadyAt(k, p) = {}
    <3>1. PICK t \in S : k.priority[t] = p
      BY <1>3, <1>6, <2>2
    <3>2. ~(p > k.priority[c])
      BY <3>1
    <3>3. QED
      BY <1>2, <3>2
  <2>3. QED
    BY <2>1, <2>2
<1>7. CurrentIsReady(j)
  BY <1>2, <1>4, <1>5 DEF CurrentIsReady
<1>8. QED
  BY <1>4, <1>6, <1>7, OnTopIs

\* portYIELD, when it is needed.
LEMMA YieldIfIs ==
    ASSUME NEW k, Good(k), NEW condition
    PROVE  LET j == YieldIf(k, condition)
           IN  /\ Keeps(j, k, {"pendsv"})
               /\ Readied(j, k, {})
               /\ condition => j.pendsv
               /\ ~condition => j = k
<1> DEFINE j == YieldIf(k, condition)
<1>1. DOMAIN k = KernelFields
  BY DEF Good, Sound, Shape
<1>2. CASE condition
  <2>1. Keeps(j, k, {"pendsv"}) /\ j.pendsv = TRUE
    BY <1>1, <1>2 DEF YieldIf, portYIELD, Keeps, KernelFields
  <2> HIDE DEF j
  <2>2. Readied(j, k, {})
    BY <2>1, FlagsReadied DEF Flags
  <2>3. QED
    BY <1>2, <2>1, <2>2 DEF j
<1>3. CASE ~condition
  <2>1. j = k
    BY <1>3 DEF YieldIf
  <2>2. Keeps(k, k, {"pendsv"}) /\ Keeps(k, k, {})
    BY <1>1 DEF Keeps
  <2>3. Readied(k, k, {})
    BY <2>2, FlagsReadied
  <2>4. QED
    BY <1>3, <2>1, <2>2, <2>3
<1>4. QED
  BY <1>2, <1>3

\* A task is put in xPendingReadyList.
WithPended(k, t) == [k EXCEPT !.pending = Append(@, t)]

LEMMA PendIs ==
    ASSUME NEW k, Good(k), NEW t \in Task, t \notin Elements(k.pending)
    PROVE  LET j == WithPended(k, t)
           IN  /\ Keeps(j, k, {"pending"})
               /\ Good(j)
               /\ Elements(j.pending) = Elements(k.pending) \cup {t}
<1> DEFINE j == WithPended(k, t)
<1>1. DOMAIN k = KernelFields /\ IsList(k.pending, Task)
  BY DEF Good, Sound, Shape
<1>2. Keeps(j, k, {"pending"}) /\ j.pending = Append(k.pending, t)
  BY <1>1 DEF WithPended, Keeps, KernelFields
<1> HIDE DEF j
<1>3. IsList(j.pending, Task) /\ Elements(j.pending) = Elements(k.pending) \cup {t}
  BY <1>1, <1>2, AppendIs
<1>4. /\ j.ready = k.ready /\ j.delayed = k.delayed /\ j.overflow = k.overflow
      /\ j.suspended = k.suspended /\ j.termination = k.termination
      /\ j.events = k.events /\ j.wake = k.wake /\ j.priority = k.priority /\ j.top = k.top
      /\ DOMAIN j = KernelFields
  BY <1>2 DEF Keeps, KernelFields
<1>5. Shape(j)
  BY <1>3, <1>4 DEF Good, Sound, Shape
<1>6. Apart(j)
  BY <1>4 DEF Good, Sound, Apart, ReadyAt
<1>7. Good(j)
  BY <1>4, <1>5, <1>6, ReadySame DEF Good, Sound
<1>8. QED
  BY <1>2, <1>3, <1>7 DEF j

NoEvents(k) == \A e \in EventLists : Elements(k.events[e]) = {}

-----------------------------------------------------------------------------
(* Resumption *)

ResumedFields == StateLists \cup {"top", "yield", "pendsv"}

SuspendedTask(k, t) == t \in Elements(k.suspended) /\ t \notin Elements(k.pending)

LEMMA IsSuspendedIs ==
    ASSUME NEW k, NoEvents(k), NEW t
    PROVE  prvTaskIsTaskSuspended(k, t) <=> SuspendedTask(k, t)
<1>1. \A s : ToSet(s) = Elements(s)
  BY DEF ToSet, Elements
<1>2. QED
  BY <1>1 DEF prvTaskIsTaskSuspended, EventItemInList, SuspendedTask, NoEvents

\* A task is made ready, and outranks the current one or not: the flags say so.
MadeReadyBy(j, k, t) ==
    /\ Keeps(j, k, ResumedFields)
    /\ Readied(j, k, {t})
    /\ k.priority[t] > k.priority[k.current] => j.pendsv
    /\ k.pendsv => j.pendsv

LEMMA GreaterIsNotLess ==
    ASSUME NEW k, Good(k), k.current \in Task, NEW t \in Task,
           k.priority[t] > k.priority[k.current]
    PROVE  k.priority[t] >= k.priority[k.current]
<1>1. k.priority[t] \in Int /\ k.priority[k.current] \in Int
  BY PrioritiesAssumption DEF Good, Sound, Shape, Priority
<1>2. QED
  BY <1>1

LEMMA ResumeIs ==
    ASSUME NEW k, Good(k), NoEvents(k), k.current \in Task, NEW t \in Task,
           SuspendedTask(k, t)
    PROVE  MadeReadyBy(vTaskResume(k, t), k, t)
<1> DEFINE a == MoveToReadyList(k, t)
           condition == k.priority[t] >= k.priority[k.current]
           j == YieldIf(a, condition)
<1>1. vTaskResume(k, t) = j
  BY IsSuspendedIs DEF vTaskResume
<1>2. Readied(a, k, {t}) /\ Keeps(a, k, StateLists \cup {"top"})
  BY MoveReadied DEF SuspendedTask, NoEvents
<1>3. k.priority[t] > k.priority[k.current] => condition
  BY GreaterIsNotLess
<1> HIDE DEF a, condition
<1>4. /\ Keeps(j, a, {"pendsv"}) /\ Readied(j, a, {})
      /\ condition => j.pendsv
      /\ ~condition => j = a
  BY <1>2, YieldIfIs DEF Readied
<1> HIDE DEF j
<1>5. Readied(j, k, {t})
  <2>1. Readied(j, k, {t} \cup {})
    BY <1>2, <1>4, ReadiedBoth
  <2>2. QED
    BY <2>1
<1>6. Keeps(j, k, ResumedFields)
  BY <1>2, <1>4 DEF Keeps, ResumedFields
<1>7. k.pendsv => j.pendsv
  <2>1. a.pendsv = k.pendsv
    BY <1>2 DEF Keeps, KernelFields, StateLists
  <2>2. QED
    BY <1>4, <2>1
<1>8. QED
  BY <1>1, <1>3, <1>4, <1>5, <1>6, <1>7 DEF MadeReadyBy

\* What the handler does that resumes a task and yields when it has to.
ResumeAndYield(k, t) ==
    YieldIf(xTaskResumeFromISR(k, t),
            /\ k.suspensions = 0
            /\ prvTaskIsTaskSuspended(k, t)
            /\ k.priority[t] >= k.priority[k.current])

LEMMA ResumeFromISRIs ==
    ASSUME NEW k, Good(k), NoEvents(k), k.current \in Task, NEW t \in Task,
           SuspendedTask(k, t), k.suspensions = 0
    PROVE  MadeReadyBy(ResumeAndYield(k, t), k, t)
<1> DEFINE a == MoveToReadyList(k, t)
           condition == k.priority[t] >= k.priority[k.current]
           b == [a EXCEPT !.yield = @ \/ condition]
           j == YieldIf(b, condition)
<1>1. prvTaskIsTaskSuspended(k, t) /\ ~(k.suspensions > 0)
  BY IsSuspendedIs
<1>2. xTaskResumeFromISR(k, t) = b
  BY <1>1 DEF xTaskResumeFromISR
<1>3. Readied(a, k, {t}) /\ Keeps(a, k, StateLists \cup {"top"})
  BY MoveReadied DEF SuspendedTask, NoEvents
<1>4. k.priority[t] > k.priority[k.current] => condition
  BY GreaterIsNotLess
<1>5. ResumeAndYield(k, t) = j
  <2>1. CASE condition
    <3>1. /\ k.suspensions = 0 /\ prvTaskIsTaskSuspended(k, t)
          /\ k.priority[t] >= k.priority[k.current]
      BY <1>1, <2>1
    <3>2. QED
      BY <1>2, <2>1, <3>1 DEF ResumeAndYield, YieldIf
  <2>2. CASE ~condition
    BY <1>2, <2>2 DEF ResumeAndYield, YieldIf
  <2>3. QED
    BY <2>1, <2>2
<1> HIDE DEF a, condition
<1>6. Keeps(b, a, {"yield"})
  BY <1>3 DEF Keeps, KernelFields
<1> HIDE DEF b
<1>7. Readied(b, a, {})
  BY <1>3, <1>6, FlagsReadied DEF Flags, Readied
<1>8. /\ Keeps(j, b, {"pendsv"}) /\ Readied(j, b, {})
      /\ condition => j.pendsv
      /\ ~condition => j = b
  BY <1>7, YieldIfIs DEF Readied
<1> HIDE DEF j
<1>9. Readied(j, k, {t})
  <2>1. Readied(b, k, {t} \cup {})
    BY <1>3, <1>7, ReadiedBoth
  <2>2. Readied(j, k, ({t} \cup {}) \cup {})
    BY <1>8, <2>1, ReadiedBoth
  <2>3. QED
    BY <2>2
<1>10. Keeps(j, k, ResumedFields)
  BY <1>3, <1>6, <1>8 DEF Keeps, ResumedFields
<1>11. k.pendsv => j.pendsv
  <2>1. b.pendsv = k.pendsv
    BY <1>3, <1>6 DEF Keeps, KernelFields, StateLists
  <2>2. QED
    BY <1>8, <2>1
<1>12. QED
  BY <1>4, <1>5, <1>8, <1>9, <1>10, <1>11 DEF MadeReadyBy

LEMMA ResumeLaterIs ==
    ASSUME NEW k, Good(k), NoEvents(k), NEW t \in Task,
           SuspendedTask(k, t), k.suspensions = 1
    PROVE  LET j == ResumeAndYield(k, t)
           IN  /\ Keeps(j, k, {"pending"})
               /\ Good(j)
               /\ Elements(j.pending) = Elements(k.pending) \cup {t}
<1>1. prvTaskIsTaskSuspended(k, t) /\ k.suspensions > 0
  BY IsSuspendedIs
<1>2. xTaskResumeFromISR(k, t) = WithPended(k, t)
  BY <1>1 DEF xTaskResumeFromISR, WithPended
<1>3. ResumeAndYield(k, t) = xTaskResumeFromISR(k, t)
  <2>1. k.suspensions # 0
    OBVIOUS
  <2>2. QED
    BY <2>1, Zenon DEF ResumeAndYield, YieldIf
<1>4. QED
  BY <1>2, <1>3, PendIs DEF SuspendedTask

LEMMA ResumeNotSuspended ==
    ASSUME NEW k, NoEvents(k), NEW t, ~SuspendedTask(k, t)
    PROVE  vTaskResume(k, t) = k /\ ResumeAndYield(k, t) = k
BY IsSuspendedIs DEF vTaskResume, ResumeAndYield, xTaskResumeFromISR, YieldIf

-----------------------------------------------------------------------------
(* Sums of sets, and bits *)

\* The sum of a set of numbers.
AreSetSums(f, S) ==
    f = [s \in SUBSET S |->
           IF s = {} THEN 0 ELSE LET x == CHOOSE x \in s : TRUE IN x + f[s \ {x}]]

\* It is the sum of the function that has each number as its own value.
LEMMA SetSums ==
    ASSUME NEW S, NEW f, NEW q, q = [x \in S |-> x]
    PROVE  AreSetSums(f, S) <=> AreSums(q, f, SUBSET DOMAIN q)
<1>1. DOMAIN q = S /\ \A x \in S : q[x] = x
  OBVIOUS
<1>2. ASSUME NEW s \in SUBSET S
      PROVE  (IF s = {} THEN 0 ELSE LET x == CHOOSE x \in s : TRUE IN x + f[s \ {x}])
               = IF s = {} THEN 0 ELSE q[Chosen(s)] + f[s \ {Chosen(s)}]
  <2>1. CASE s = {}
    BY <2>1
  <2>2. CASE s # {}
    <3>1. Chosen(s) \in S
      BY <2>2, ChosenIsIn
    <3>2. q[Chosen(s)] = Chosen(s)
      BY <1>1, <3>1
    <3>3. QED
      BY <2>2, <3>2 DEF Chosen
  <2>3. QED
    BY <2>1, <2>2
<1> DEFINE a == [s \in SUBSET S |->
                  IF s = {} THEN 0 ELSE LET x == CHOOSE x \in s : TRUE IN x + f[s \ {x}]]
           b == [s \in SUBSET S |-> IF s = {} THEN 0 ELSE q[Chosen(s)] + f[s \ {Chosen(s)}]]
<1>3. a = b
  BY <1>2
<1>4. AreSetSums(f, S) <=> f = a
  BY DEF AreSetSums
<1>5. AreSums(q, f, SUBSET DOMAIN q) <=> f = b
  BY <1>1 DEF AreSums
<1> HIDE DEF a, b
<1>6. QED
  BY <1>3, <1>4, <1>5

\* The sum of a set of numbers is one, and no less than any of them.
LEMMA SumSetIs ==
    ASSUME NEW S, IsFiniteSet(S), S \subseteq Nat
    PROVE  SumSet(S) \in Nat /\ \A x \in S : SumSet(S) >= x
<1> DEFINE q == [x \in S |-> x]
           f == CHOOSE f : AreSetSums(f, S)
<1>1. SumSet(S) = f[S]
  BY DEF SumSet, FoldSet, MapThenFoldSet, AreSetSums
<1>2. DOMAIN q = S /\ Integral(q)
  BY DEF Integral
<1>3. \E sums : AreSums(q, sums, SUBSET DOMAIN q)
  <2> HIDE DEF q
  <2>1. QED
    BY <1>2, SumsExist
<1>4. AreSetSums(f, S)
  <2>1. \A g : AreSetSums(g, S) <=> AreSums(q, g, SUBSET DOMAIN q)
    BY SetSums
  <2> HIDE DEF q
  <2>2. QED
    BY <1>3, <2>1
<1> HIDE DEF f
<1>5. AnyOrder(q, f)
  <2>1. AreSums(q, f, SUBSET DOMAIN q)
    BY <1>4, SetSums
  <2> HIDE DEF q
  <2>2. QED
    BY <1>2, <2>1, AnyIndexFirst
<1>6. \A s \in SUBSET S : f[s] \in Int /\ \A x \in s : f[s] = x + f[s \ {x}]
  <2>1. \A x \in S : q[x] = x
    OBVIOUS
  <2> HIDE DEF q
  <2>2. QED
    BY <1>2, <1>5, <2>1 DEF AnyOrder
<1>7. f[{}] = 0
  BY <1>4 DEF AreSetSums
<1> DEFINE T == {n \in Nat : \A s \in Small(S, n) : f[s] \in Nat}
<1>8. 0 \in T
  <2>1. \A s \in Small(S, 0) : s = {}
    <3> SUFFICES ASSUME NEW s \in Small(S, 0) PROVE s = {}
      OBVIOUS
    <3>1. IsFiniteSet(s) /\ Cardinality(s) <= 0 /\ Cardinality(s) \in Nat
      BY FS_Subset, FS_CardinalityType DEF Small
    <3>2. QED
      BY <3>1, FS_EmptySet
  <2>2. QED
    BY <1>7, <2>1
<1>9. ASSUME NEW n \in Nat, n \in T PROVE n + 1 \in T
  <2> SUFFICES ASSUME NEW s \in Small(S, n + 1) PROVE f[s] \in Nat
    OBVIOUS
  <2>1. s \in SUBSET S
    BY DEF Small
  <2>2. CASE s = {}
    BY <1>7, <2>2
  <2>3. CASE s # {}
    <3>1. PICK x \in s : TRUE
      BY <2>3
    <3>2. s \ {x} \in Small(S, n)
      <4>1. Cardinality(s) \in Nat \ {0} /\ s \ {x} \in SUBSET S
            /\ Cardinality(s \ {x}) = Cardinality(s) - 1
        BY <2>1, SmallerSet
      <4>2. Cardinality(s) <= n + 1
        BY DEF Small
      <4>3. QED
        BY <4>1, <4>2 DEF Small
    <3>3. f[s \ {x}] \in Nat /\ x \in Nat
      BY <1>9, <2>1, <3>2
    <3>4. f[s] = x + f[s \ {x}]
      BY <1>6, <2>1
    <3>5. QED
      BY <3>3, <3>4
  <2>4. QED
    BY <2>2, <2>3
<1> HIDE DEF T
<1>10. \A s \in SUBSET S : f[s] \in Nat
  <2>1. Nat \subseteq T
    BY <1>8, <1>9, NatInduct
  <2>2. Cardinality(S) \in T
    BY <2>1, FS_CardinalityType
  <2>3. Small(S, Cardinality(S)) = SUBSET S
    BY FS_Subset DEF Small
  <2>4. QED
    BY <2>2, <2>3 DEF T
<1>11. ASSUME NEW x \in S PROVE f[S] >= x
  <2>1. f[S \ {x}] \in Nat /\ x \in Nat
    BY <1>10
  <2>2. f[S] = x + f[S \ {x}]
    BY <1>6
  <2>3. QED
    BY <2>1, <2>2
<1>12. QED
  BY <1>1, <1>10, <1>11

\* What a bit stands for.
LEMMA TwoToIs ==
    TwoTo[0] = 1 /\ \A n \in Nat : TwoTo[n] \in Nat \ {0}
<1>1. TwoTo = [n \in Nat |-> IF n = 0 THEN 1 ELSE 2 * TwoTo[n - 1]]
  BY DoublesExist DEF TwoTo
<1> DEFINE T == {n \in Nat : TwoTo[n] \in Nat \ {0}}
<1>2. TwoTo[0] = 1
  BY <1>1
<1>3. 0 \in T
  BY <1>2
<1>4. ASSUME NEW n \in Nat, n \in T PROVE n + 1 \in T
  <2>1. TwoTo[n + 1] = 2 * TwoTo[n]
    BY <1>1
  <2>2. QED
    BY <1>4, <2>1
<1> HIDE DEF T
<1>5. Nat \subseteq T
  BY <1>3, <1>4, NatInduct
<1>6. QED
  BY <1>2, <1>5 DEF T

\* What sets of bits stand for are numbers, not 0 when bit 0 is one of them.
LEMMA OfBitsIs ==
    ASSUME NEW B, B \subseteq 0 .. NotifyBits - 1
    PROVE  OfBits(B) \in Nat /\ (0 \in B => OfBits(B) # 0)
<1> DEFINE S == {TwoTo[i] : i \in B}
<1>1. B \subseteq Nat
  BY NotifyAssumption
<1>2. S \subseteq Nat
  BY <1>1, TwoToIs
<1>3. IsFiniteSet(S)
  <2>1. IsFiniteSet(B)
    <3>1. IsFiniteSet(0 .. NotifyBits - 1)
      BY NotifyAssumption, FS_Interval
    <3>2. QED
      BY <3>1, FS_Subset
  <2>2. [i \in B |-> TwoTo[i]] \in Surjection(B, S)
    BY DEF Surjection
  <2>3. QED
    BY <2>1, <2>2, FS_Surjection
<1>4. 0 \in B => 1 \in S
  BY TwoToIs
<1>5. OfBits(B) = SumSet(S)
  BY DEF OfBits
<1> HIDE DEF S
<1>6. SumSet(S) \in Nat /\ (1 \in S => SumSet(S) >= 1)
  BY <1>2, <1>3, SumSetIs
<1>7. QED
  BY <1>4, <1>5, <1>6

\* The values that notifications set and clear are numbers.
LEMMA BitsAre ==
    ASSUME NEW v, NEW w
    PROVE  /\ SetBits(v, 1) \in Nat \ {0}
           /\ ClearBits(v, w) \in Nat
<1>1. 0 \in BitsOf(1)
  <2>1. 0 \in 0 .. NotifyBits - 1
    BY NotifyAssumption
  <2>2. (1 \div TwoTo[0]) % 2 = 1
    BY TwoToIs
  <2>3. QED
    BY <2>1, <2>2 DEF BitsOf
<1>2. \A x : BitsOf(x) \subseteq 0 .. NotifyBits - 1
  BY DEF BitsOf
<1>3. QED
  BY <1>1, <1>2, OfBitsIs DEF SetBits, ClearBits

\* A notification value has some values.
LEMMA NotifyModIs == NotifyMod \in Nat \ {0}
BY TwoToIs, NotifyAssumption DEF NotifyMod

-----------------------------------------------------------------------------
(* Notifications *)

NotifyFields == {"value", "notify"}

LEMMA NotifiedIs ==
    ASSUME NEW k, Good(k), NEW t \in Task, DOMAIN k.notify = Task, DOMAIN k.value = Task,
           NEW v, NEW action
    PROVE  LET j == Notified(k, t, v, action)
           IN  /\ Keeps(j, k, NotifyFields)
               /\ Readied(j, k, {})
               /\ j.notify = [k.notify EXCEPT ![t] = "received"]
               /\ j.value = [k.value EXCEPT ![t] = NotifiedValue(k, t, v, action)]
<1> DEFINE j == Notified(k, t, v, action)
           new == NotifiedValue(k, t, v, action)
<1>1. DOMAIN k = KernelFields
  BY DEF Good, Sound, Shape
<1>2. j = [k EXCEPT !.value[t] = new, !.notify[t] = "received"]
  BY DEF Notified
<1> HIDE DEF j, new
<1>3. /\ Keeps(j, k, NotifyFields)
      /\ j.notify = [k.notify EXCEPT ![t] = "received"]
      /\ j.value = [k.value EXCEPT ![t] = new]
  BY <1>1, <1>2 DEF Keeps, KernelFields, NotifyFields
<1>4. Readied(j, k, {})
  BY <1>3, FlagsReadied DEF NotifyFields, Flags
<1>5. QED
  BY <1>3, <1>4 DEF j, new

\* The handler that notifies a task and yields when it has to.
NotifyAndYield(k, t, v, action) ==
    YieldIf(xTaskGenericNotifyFromISR(k, t, v, action), WokenByNotify(k, t))

NotifyReadyFields == StateLists \cup {"top", "yield", "pendsv"} \cup NotifyFields

\* A task is notified, and made ready if it is in the set S.
NotifiedBy(j, k, t, v, action, S) ==
    /\ Keeps(j, k, NotifyReadyFields)
    /\ Readied(j, k, S)
    /\ j.notify = [k.notify EXCEPT ![t] = "received"]
    /\ j.value = [k.value EXCEPT ![t] = NotifiedValue(k, t, v, action)]
    /\ \A u \in S : k.priority[u] > k.priority[k.current] => j.pendsv
    /\ k.pendsv => j.pendsv

LEMMA NotifyIdleIs ==
    ASSUME NEW k, Good(k), NEW t \in Task, DOMAIN k.notify = Task, DOMAIN k.value = Task,
           NEW v, NEW action, k.notify[t] # "waiting"
    PROVE  /\ NotifiedBy(xTaskGenericNotify(k, t, v, action), k, t, v, action, {})
           /\ NotifiedBy(NotifyAndYield(k, t, v, action), k, t, v, action, {})
<1> DEFINE r == Notified(k, t, v, action)
<1>1. xTaskGenericNotify(k, t, v, action) = r /\ NotifyAndYield(k, t, v, action) = r
  <2>1. ~WokenByNotify(k, t)
    BY DEF WokenByNotify
  <2>2. QED
    BY <2>1 DEF xTaskGenericNotify, NotifyAndYield, xTaskGenericNotifyFromISR, YieldIf
<1>2. /\ Keeps(r, k, NotifyFields)
      /\ Readied(r, k, {})
      /\ r.notify = [k.notify EXCEPT ![t] = "received"]
      /\ r.value = [k.value EXCEPT ![t] = NotifiedValue(k, t, v, action)]
  BY NotifiedIs
<1> HIDE DEF r
<1>3. Keeps(r, k, NotifyReadyFields)
  BY <1>2 DEF Keeps, NotifyReadyFields
<1>4. r.pendsv = k.pendsv
  BY <1>2 DEF Keeps, KernelFields, NotifyFields
<1>5. QED
  BY <1>1, <1>2, <1>3, <1>4 DEF NotifiedBy

\* From the notified state on: the task is made ready, and the flags are set.
LEMMA NotifyWakes ==
    ASSUME NEW k, Good(k), NoEvents(k), NEW t \in Task, t \notin Elements(k.pending),
           DOMAIN k.notify = Task, DOMAIN k.value = Task,
           NEW v, NEW action, NEW j, NEW a,
           a = MoveToReadyList(Notified(k, t, v, action), t),
           Keeps(j, a, {"yield", "pendsv"}),
           k.priority[t] > k.priority[k.current] => j.pendsv,
           k.pendsv => j.pendsv
    PROVE  NotifiedBy(j, k, t, v, action, {t})
<1> DEFINE r == Notified(k, t, v, action)
<1>1. /\ Keeps(r, k, NotifyFields)
      /\ Readied(r, k, {})
      /\ r.notify = [k.notify EXCEPT ![t] = "received"]
      /\ r.value = [k.value EXCEPT ![t] = NotifiedValue(k, t, v, action)]
  BY NotifiedIs
<1>2. a = MoveToReadyList(r, t)
  OBVIOUS
<1> HIDE DEF r
<1>3. Good(r) /\ r.pending = k.pending /\ r.events = k.events
  BY <1>1 DEF Readied, Keeps, KernelFields, NotifyFields
<1>4. Readied(a, r, {t}) /\ Keeps(a, r, StateLists \cup {"top"})
  BY <1>2, <1>3, MoveReadied DEF NoEvents
<1>5. Readied(j, a, {})
  BY <1>4, FlagsReadied DEF Readied, Flags
<1>6. Readied(j, k, {t})
  <2>1. Readied(a, k, {} \cup {t})
    BY <1>1, <1>4, ReadiedBoth
  <2>2. Readied(j, k, ({} \cup {t}) \cup {})
    BY <1>5, <2>1, ReadiedBoth
  <2>3. QED
    BY <2>2
<1>7. Keeps(j, k, NotifyReadyFields)
  BY <1>1, <1>4 DEF Keeps, NotifyReadyFields
<1>8. j.notify = r.notify /\ j.value = r.value
  <2>1. a.notify = r.notify /\ a.value = r.value
    BY <1>4 DEF Keeps, KernelFields, StateLists
  <2>2. j.notify = a.notify /\ j.value = a.value
    BY DEF Keeps, KernelFields
  <2>3. QED
    BY <2>1, <2>2
<1>9. QED
  BY <1>1, <1>6, <1>7, <1>8 DEF NotifiedBy

LEMMA NotifyIs ==
    ASSUME NEW k, Good(k), NoEvents(k), NEW t \in Task, t \notin Elements(k.pending),
           DOMAIN k.notify = Task, DOMAIN k.value = Task,
           NEW v, NEW action, k.notify[t] = "waiting"
    PROVE  /\ NotifiedBy(xTaskGenericNotify(k, t, v, action), k, t, v, action, {t})
           /\ k.suspensions = 0 =>
                NotifiedBy(NotifyAndYield(k, t, v, action), k, t, v, action, {t})
<1> DEFINE r == Notified(k, t, v, action)
           a == MoveToReadyList(r, t)
           b == [a EXCEPT !.yield = @ \/ Outranks(k, t)]
           i == YieldIf(a, Outranks(k, t))
           j == YieldIf(b, Outranks(k, t))
<1>1. xTaskGenericNotify(k, t, v, action) = i
  BY DEF xTaskGenericNotify
<1>2. Keeps(r, k, NotifyFields) /\ Good(r) /\ r.suspensions = k.suspensions
  <2>1. Keeps(r, k, NotifyFields) /\ Readied(r, k, {})
    BY NotifiedIs
  <2> HIDE DEF r
  <2>2. QED
    BY <2>1 DEF Readied, Keeps, KernelFields, NotifyFields
<1>3. ASSUME k.suspensions = 0 PROVE NotifyAndYield(k, t, v, action) = j
  <2>1. Unblock(r, t) = a
    BY <1>2, <1>3 DEF Unblock
  <2>2. xTaskGenericNotifyFromISR(k, t, v, action) = b
    BY <2>1 DEF xTaskGenericNotifyFromISR
  <2>3. WokenByNotify(k, t) = Outranks(k, t)
    BY DEF WokenByNotify, Outranks
  <2> HIDE DEF b
  <2>4. QED
    BY <2>2, <2>3 DEF NotifyAndYield
<1>4. a = MoveToReadyList(Notified(k, t, v, action), t)
  OBVIOUS
<1>5. Keeps(a, r, StateLists \cup {"top"}) /\ Good(a)
  BY <1>2, MadeReadyIs DEF MadeReady
<1> HIDE DEF r, a
<1>6. Keeps(b, a, {"yield"}) /\ Good(b)
  <2>1. Keeps(b, a, {"yield"})
    BY <1>5 DEF Keeps, KernelFields
  <2>2. QED
    BY <1>5, <2>1, FlagsSame
<1> HIDE DEF b
<1>7. /\ Keeps(i, a, {"pendsv"}) /\ (Outranks(k, t) => i.pendsv)
      /\ ~Outranks(k, t) => i = a
      /\ Keeps(j, b, {"pendsv"}) /\ (Outranks(k, t) => j.pendsv)
      /\ ~Outranks(k, t) => j = b
  BY <1>5, <1>6, YieldIfIs
<1> HIDE DEF i, j
<1>8. /\ Keeps(i, a, {"yield", "pendsv"})
      /\ Keeps(j, a, {"yield", "pendsv"})
  BY <1>6, <1>7 DEF Keeps
<1>9. /\ k.priority[t] > k.priority[k.current] => i.pendsv
      /\ k.priority[t] > k.priority[k.current] => j.pendsv
  BY <1>7 DEF Outranks
<1>10. (k.pendsv => i.pendsv) /\ (k.pendsv => j.pendsv)
  <2>1. a.pendsv = k.pendsv
    BY <1>2, <1>5 DEF Keeps, KernelFields, StateLists, NotifyFields
  <2>2. b.pendsv = a.pendsv
    BY <1>6 DEF Keeps, KernelFields
  <2>3. QED
    BY <1>7, <2>1, <2>2
<1>11. NotifiedBy(i, k, t, v, action, {t}) /\ NotifiedBy(j, k, t, v, action, {t})
  BY <1>4, <1>8, <1>9, <1>10, NotifyWakes
<1>12. QED
  BY <1>1, <1>3, <1>11

\* A task is notified, and pended.
PendedBy(j, k, t, v, action) ==
    /\ Keeps(j, k, {"pending", "yield", "pendsv"} \cup NotifyFields)
    /\ Good(j)
    /\ Elements(j.pending) = Elements(k.pending) \cup {t}
    /\ j.notify = [k.notify EXCEPT ![t] = "received"]
    /\ j.value = [k.value EXCEPT ![t] = NotifiedValue(k, t, v, action)]

LEMMA NotifyLaterIs ==
    ASSUME NEW k, Good(k), NoEvents(k), NEW t \in Task, t \notin Elements(k.pending),
           DOMAIN k.notify = Task, DOMAIN k.value = Task,
           NEW v, NEW action, k.notify[t] = "waiting", k.suspensions = 1
    PROVE  PendedBy(NotifyAndYield(k, t, v, action), k, t, v, action)
<1> DEFINE r == Notified(k, t, v, action)
           a == WithPended(r, t)
           b == [a EXCEPT !.yield = @ \/ Outranks(k, t)]
           j == YieldIf(b, WokenByNotify(k, t))
<1>1. /\ Keeps(r, k, NotifyFields)
      /\ Readied(r, k, {})
      /\ r.notify = [k.notify EXCEPT ![t] = "received"]
      /\ r.value = [k.value EXCEPT ![t] = NotifiedValue(k, t, v, action)]
  BY NotifiedIs
<1> HIDE DEF r
<1>2. r.suspensions = k.suspensions /\ r.pending = k.pending /\ Good(r)
  BY <1>1 DEF Readied, Keeps, KernelFields, NotifyFields
<1>3. Unblock(r, t) = a
  <2>1. r.suspensions # 0
    BY <1>2
  <2>2. QED
    BY <2>1 DEF Unblock, WithPended
<1>4. NotifyAndYield(k, t, v, action) = j
  BY <1>3 DEF NotifyAndYield, xTaskGenericNotifyFromISR, r
<1>5. /\ Keeps(a, r, {"pending"})
      /\ Good(a)
      /\ Elements(a.pending) = Elements(r.pending) \cup {t}
  BY <1>2, PendIs
<1> HIDE DEF a
<1>6. Keeps(b, a, {"yield"})
  BY <1>5 DEF Keeps, KernelFields
<1>7. Good(b) /\ b.pending = a.pending
  BY <1>5, <1>6, FlagsSame
<1> HIDE DEF b
<1>8. Keeps(j, b, {"pendsv"})
  BY <1>7, YieldIfIs
<1>9. Good(j) /\ j.pending = b.pending
  BY <1>7, <1>8, FlagsSame
<1> HIDE DEF j
<1>10. /\ j.notify = b.notify /\ j.value = b.value
  BY <1>8 DEF Keeps, KernelFields
<1>11. /\ b.notify = a.notify /\ b.value = a.value
  BY <1>6 DEF Keeps, KernelFields
<1>12. /\ a.notify = r.notify /\ a.value = r.value
  BY <1>5 DEF Keeps, KernelFields
<1>13. Keeps(j, k, {"pending", "yield", "pendsv"} \cup NotifyFields)
  BY <1>1, <1>5, <1>6, <1>8 DEF Keeps
<1>14. PendedBy(j, k, t, v, action)
  BY <1>1, <1>2, <1>5, <1>7, <1>9, <1>10, <1>11, <1>12, <1>13 DEF PendedBy
<1>15. QED
  BY <1>4, <1>14

-----------------------------------------------------------------------------
(* The current task waits *)

\* The current task has left its ready list for one it waits in.
Waits(j, k) ==
    /\ Good(j)
    /\ j.priority = k.priority
    /\ \A p \in Priority : ReadyAt(j, p) = ReadyAt(k, p) \ {k.current}
    /\ Late(j) \cup Elements(j.suspended)
         = Late(k) \cup Elements(k.suspended) \cup {k.current}
    /\ Elements(k.suspended) \subseteq Elements(j.suspended)
    /\ j.termination = k.termination
    /\ j.pending = k.pending /\ j.events = k.events

LEMMA DelayWaits ==
    ASSUME NEW k, Good(k), CurrentIsReady(k), Timed(k),
           NEW ticks \in Int, NEW indefinitely
    PROVE  LET j == prvAddCurrentTaskToDelayedList(k, ticks, indefinitely)
           IN  /\ Keeps(j, k, DelayFields)
               /\ Waits(j, k) /\ Timed(j)
               /\ DelayedFor(j, k, ticks, indefinitely)
<1> DEFINE t == k.current
           w == WakeAt(k, ticks)
           j == prvAddCurrentTaskToDelayedList(k, ticks, indefinitely)
<1>1. k.tick \in Int /\ k.unblock \in Int /\ w \in Int /\ t \in Task
  BY TickAssumption DEF Timed, WakeAt
<1>2. /\ Keeps(j, k, DelayFields)
      /\ Good(j)
      /\ \A p \in Priority : ReadyAt(j, p) = ReadyAt(k, p) \ {t}
      /\ j.termination = k.termination
      /\ DelayedFor(j, k, ticks, indefinitely)
  BY <1>1, DelayIs DEF Timed
<1> HIDE DEF j
<1>3. /\ j.priority = k.priority /\ j.pending = k.pending /\ j.events = k.events
      /\ j.current = k.current /\ j.tick = k.tick
  BY <1>2 DEF Keeps, KernelFields, DelayFields, StateLists
<1>4. CASE Forever(ticks, indefinitely)
  <2>1. /\ Elements(j.suspended) = Elements(k.suspended) \cup {t}
        /\ j.delayed = k.delayed /\ j.overflow = k.overflow /\ j.unblock = k.unblock
    BY <1>2, <1>4 DEF DelayedFor, w
  <2>2. Waits(j, k)
    BY <1>2, <1>3, <2>1 DEF Waits, Late
  <2>3. Timed(j)
    BY <1>1, <1>3, <2>1 DEF Timed
  <2>4. QED
    BY <1>2, <2>2, <2>3 DEF j
<1>5. CASE ~Forever(ticks, indefinitely) /\ w < k.tick
  <2>1. /\ Elements(j.overflow) = Elements(k.overflow) \cup {t}
        /\ j.delayed = k.delayed /\ j.suspended = k.suspended /\ j.unblock = k.unblock
    BY <1>2, <1>5 DEF DelayedFor, w
  <2>2. Waits(j, k)
    BY <1>2, <1>3, <2>1 DEF Waits, Late
  <2>3. Timed(j)
    BY <1>1, <1>3, <2>1 DEF Timed
  <2>4. QED
    BY <1>2, <2>2, <2>3 DEF j
<1>6. CASE ~Forever(ticks, indefinitely) /\ ~(w < k.tick)
  <2>1. /\ Elements(j.delayed) = Elements(k.delayed) \cup {t}
        /\ j.overflow = k.overflow /\ j.suspended = k.suspended
        /\ j.unblock = IF w < k.unblock THEN w ELSE k.unblock
    BY <1>2, <1>6 DEF DelayedFor, w
  <2>2. Waits(j, k)
    BY <1>2, <1>3, <2>1 DEF Waits, Late
  <2>3. Timed(j)
    BY <1>1, <1>3, <2>1 DEF Timed
  <2>4. QED
    BY <1>2, <2>2, <2>3 DEF j
<1>7. QED
  BY <1>4, <1>5, <1>6

\* The current task is about to wait for a notification, or it does not wait.
WaitingNow(k) == [k EXCEPT !.notify[k.current] = "waiting"]

BlockFields == DelayFields \cup {"notify", "pendsv"}

LEMMA WaitingIs ==
    ASSUME NEW k, Good(k), k.current \in Task, DOMAIN k.notify = Task
    PROVE  /\ Keeps(WaitingNow(k), k, {"notify"})
           /\ Readied(WaitingNow(k), k, {})
           /\ WaitingNow(k).notify = [k.notify EXCEPT ![k.current] = "waiting"]
<1>1. Keeps(WaitingNow(k), k, {"notify"})
  BY DEF WaitingNow, Keeps, KernelFields, Good, Sound, Shape
<1>2. WaitingNow(k).notify = [k.notify EXCEPT ![k.current] = "waiting"]
  BY DEF WaitingNow, KernelFields, Good, Sound, Shape
<1>3. QED
  BY <1>1, <1>2, FlagsReadied DEF Flags

\* A task waits for a notification.
Blocks(j, k, ticks) ==
    /\ Keeps(j, k, BlockFields \cup {"value"})
    /\ Waits(j, k) /\ Timed(j)
    /\ DelayedFor(j, k, ticks, TRUE)
    /\ j.notify = [k.notify EXCEPT ![k.current] = "waiting"]
    /\ j.pendsv = TRUE
    /\ \A t \in Task \ {k.current} : j.value[t] = k.value[t]
    /\ DOMAIN j.value = Task

LEMMA BlockIs ==
    ASSUME NEW k, Good(k), CurrentIsReady(k), Timed(k), DOMAIN k.notify = Task,
           DOMAIN k.value = Task, NEW ticks \in Int, ticks > 0
    PROVE  LET j == BlockForNotification(k, ticks)
           IN  Blocks(j, k, ticks) /\ j.value = k.value
<1> DEFINE a == WaitingNow(k)
           b == prvAddCurrentTaskToDelayedList(a, ticks, TRUE)
           j == BlockForNotification(k, ticks)
<1>1. k.current \in Task
  BY DEF CurrentIsReady
<1>2. /\ Keeps(a, k, {"notify"})
      /\ Readied(a, k, {})
      /\ a.notify = [k.notify EXCEPT ![k.current] = "waiting"]
  BY <1>1, WaitingIs
<1>3. j = portYIELD(b)
  BY DEF BlockForNotification, WaitingNow
<1> HIDE DEF a
<1>4. /\ Good(a)
      /\ \A p \in Priority : ReadyAt(a, p) = ReadyAt(k, p)
      /\ a.delayed = k.delayed /\ a.overflow = k.overflow
      /\ a.suspended = k.suspended /\ a.termination = k.termination
      /\ a.pending = k.pending /\ a.events = k.events
      /\ a.wake = k.wake /\ a.priority = k.priority
  BY <1>2, FlagsSame
<1>5. a.current = k.current /\ a.tick = k.tick /\ a.unblock = k.unblock
  BY <1>2 DEF Keeps, KernelFields
<1>6. CurrentIsReady(a) /\ Timed(a)
  <2>1. k.priority[k.current] \in Priority
    BY <1>1 DEF Good, Sound, Shape
  <2>2. QED
    BY <1>4, <1>5, <2>1 DEF CurrentIsReady, Timed
<1>7. /\ Keeps(b, a, DelayFields)
      /\ Waits(b, a) /\ Timed(b)
      /\ DelayedFor(b, a, ticks, TRUE)
  BY <1>4, <1>6, DelayWaits
<1> HIDE DEF b
<1>8. Keeps(j, b, {"pendsv"}) /\ j.pendsv = TRUE
  BY <1>3, <1>7 DEF portYIELD, Keeps, KernelFields
<1> HIDE DEF j
<1>9. Good(b)
  BY <1>7 DEF Waits
<1>10. /\ Good(j)
       /\ \A p \in Priority : ReadyAt(j, p) = ReadyAt(b, p)
       /\ j.delayed = b.delayed /\ j.overflow = b.overflow
       /\ j.suspended = b.suspended /\ j.termination = b.termination
       /\ j.pending = b.pending /\ j.events = b.events
       /\ j.wake = b.wake /\ j.priority = b.priority
  BY <1>8, <1>9, FlagsSame
<1>11. Waits(j, k)
  BY <1>4, <1>5, <1>7, <1>10 DEF Waits, Late
<1>12. /\ j.current = b.current /\ j.tick = b.tick /\ j.unblock = b.unblock
       /\ j.notify = b.notify
  BY <1>8 DEF Keeps, KernelFields
<1>13. Timed(j)
  BY <1>7, <1>12 DEF Timed
<1>14. DelayedFor(j, k, ticks, TRUE)
  BY <1>4, <1>5, <1>7, <1>10, <1>12 DEF DelayedFor, WakeAt
<1>15. j.notify = [k.notify EXCEPT ![k.current] = "waiting"]
  <2>1. b.notify = a.notify
    BY <1>7 DEF Keeps, KernelFields, DelayFields, StateLists
  <2>2. QED
    BY <1>2, <1>12, <2>1
<1>16. Keeps(j, k, BlockFields)
  BY <1>2, <1>7, <1>8 DEF Keeps, BlockFields
<1>17. j.value = k.value /\ Keeps(j, k, BlockFields \cup {"value"})
  BY <1>16 DEF Keeps, KernelFields, BlockFields, DelayFields, StateLists
<1>18. QED
  BY <1>1, <1>8, <1>11, <1>13, <1>14, <1>15, <1>17 DEF Blocks, j

\* The first critical sections: the task goes on, or it waits.
GoesOn(j, k) ==
    /\ Keeps(j, k, NotifyFields)
    /\ Readied(j, k, {})
    /\ \A t \in Task \ {k.current} : j.notify[t] = k.notify[t] /\ j.value[t] = k.value[t]
    /\ DOMAIN j.notify = Task /\ DOMAIN j.value = Task

LEMMA TakeEnterIs ==
    ASSUME NEW k, Good(k), CurrentIsReady(k), Timed(k), DOMAIN k.notify = Task,
           DOMAIN k.value = Task, NEW ticks \in Nat
    PROVE  LET j == NotifyTakeEnter(k, ticks)
           IN  /\ \/ GoesOn(j, k) /\ (ticks = 0 \/ k.value[k.current] # 0)
                  \/ Blocks(j, k, ticks) /\ ticks > 0 /\ k.value[k.current] = 0
               /\ j.value = k.value
<1> DEFINE j == NotifyTakeEnter(k, ticks)
<1>1. k.current \in Task
  BY DEF CurrentIsReady
<1>2. CASE k.value[k.current] # 0
  <2>1. j = k
    BY <1>2 DEF NotifyTakeEnter
  <2>2. Keeps(k, k, NotifyFields)
    BY DEF Keeps, Good, Sound, Shape
  <2>3. Readied(k, k, {})
    BY <2>2, FlagsReadied DEF NotifyFields, Flags
  <2>4. QED
    BY <1>2, <2>1, <2>2, <2>3 DEF GoesOn
<1>3. CASE k.value[k.current] = 0 /\ ticks = 0
  <2>1. j = WaitingNow(k)
    BY <1>3 DEF NotifyTakeEnter, BlockForNotification, WaitingNow
  <2>2. /\ Keeps(WaitingNow(k), k, {"notify"})
        /\ Readied(WaitingNow(k), k, {})
        /\ WaitingNow(k).notify = [k.notify EXCEPT ![k.current] = "waiting"]
    BY <1>1, WaitingIs
  <2>3. WaitingNow(k).value = k.value /\ Keeps(WaitingNow(k), k, NotifyFields)
    BY <2>2 DEF Keeps, KernelFields, NotifyFields
  <2>4. QED
    BY <1>1, <1>3, <2>1, <2>2, <2>3 DEF GoesOn
<1>4. CASE k.value[k.current] = 0 /\ ticks > 0
  <2> DEFINE b == BlockForNotification(k, ticks)
  <2>1. j = b
    BY <1>4 DEF NotifyTakeEnter
  <2>2. ticks \in Int /\ ticks > 0
    BY <1>4
  <2>3. Blocks(b, k, ticks) /\ b.value = k.value
    BY <2>2, BlockIs
  <2> HIDE DEF b, j
  <2>4. QED
    BY <1>4, <2>1, <2>3 DEF j
<1>5. QED
  BY <1>2, <1>3, <1>4

LEMMA WaitEnterIs ==
    ASSUME NEW k, Good(k), CurrentIsReady(k), Timed(k), DOMAIN k.notify = Task,
           DOMAIN k.value = Task, NEW ticks \in Nat, NEW bits
    PROVE  LET j == NotifyWaitEnter(k, bits, ticks)
           IN  /\ \/ GoesOn(j, k) /\ (ticks = 0 \/ k.notify[k.current] = "received")
                  \/ Blocks(j, k, ticks) /\ ticks > 0 /\ k.notify[k.current] # "received"
               /\ \/ j.value[k.current] = k.value[k.current]
                  \/ j.value[k.current] = ClearBits(k.value[k.current], bits)
<1> DEFINE a == [k EXCEPT !.value[k.current] = ClearBits(@, bits)]
           j == NotifyWaitEnter(k, bits, ticks)
<1>1. k.current \in Task
  BY DEF CurrentIsReady
<1>2. CASE k.notify[k.current] = "received"
  <2>1. j = k
    BY <1>2 DEF NotifyWaitEnter
  <2>2. Keeps(k, k, NotifyFields)
    BY DEF Keeps, Good, Sound, Shape
  <2>3. Readied(k, k, {})
    BY <2>2, FlagsReadied DEF NotifyFields, Flags
  <2>4. QED
    BY <1>2, <2>1, <2>2, <2>3 DEF GoesOn
<1>3. CASE k.notify[k.current] # "received"
  <2>1. j = BlockForNotification(a, ticks)
    BY <1>3 DEF NotifyWaitEnter
  <2>2. /\ Keeps(a, k, {"value"})
        /\ DOMAIN a.value = Task
        /\ \A t \in Task \ {k.current} : a.value[t] = k.value[t]
        /\ a.value[k.current] = ClearBits(k.value[k.current], bits)
    BY <1>1 DEF Keeps, KernelFields, Good, Sound, Shape
  <2> HIDE DEF a
  <2>3. /\ Good(a)
        /\ \A p \in Priority : ReadyAt(a, p) = ReadyAt(k, p)
        /\ a.delayed = k.delayed /\ a.overflow = k.overflow
        /\ a.suspended = k.suspended /\ a.termination = k.termination
        /\ a.pending = k.pending /\ a.events = k.events
        /\ a.wake = k.wake /\ a.priority = k.priority
    BY <2>2, FlagsSame
  <2>4. /\ a.current = k.current /\ a.tick = k.tick /\ a.unblock = k.unblock
        /\ a.notify = k.notify
    BY <2>2 DEF Keeps, KernelFields
  <2>5. CurrentIsReady(a) /\ Timed(a)
    <3>1. k.priority[k.current] \in Priority
      BY <1>1 DEF Good, Sound, Shape
    <3>2. QED
      BY <2>3, <2>4, <3>1 DEF CurrentIsReady, Timed
  <2>6. CASE ticks = 0
    <3>1. j = WaitingNow(a)
      BY <2>1, <2>6 DEF BlockForNotification, WaitingNow
    <3>2. /\ Keeps(WaitingNow(a), a, {"notify"})
          /\ Readied(WaitingNow(a), a, {})
          /\ WaitingNow(a).notify = [a.notify EXCEPT ![a.current] = "waiting"]
      BY <2>3, <2>4, <1>1, WaitingIs
    <3>3. /\ WaitingNow(a).value = a.value /\ Keeps(WaitingNow(a), k, NotifyFields)
          /\ DOMAIN WaitingNow(a) = KernelFields
      BY <2>2, <3>2 DEF Keeps, KernelFields, NotifyFields
    <3>4. Readied(WaitingNow(a), k, {})
      BY <3>3, FlagsReadied DEF NotifyFields, Flags
    <3>5. QED
      BY <1>1, <2>2, <2>4, <2>6, <3>1, <3>2, <3>3, <3>4 DEF GoesOn
  <2>7. CASE ticks > 0
    <3> DEFINE b == BlockForNotification(a, ticks)
    <3>1. ticks \in Int /\ DOMAIN a.notify = Task
      BY <2>4
    <3>2. Blocks(b, a, ticks) /\ b.value = a.value
      BY <2>2, <2>3, <2>5, <2>7, <3>1, BlockIs
    <3> HIDE DEF b, j
    <3>3. Keeps(b, k, BlockFields \cup {"value"})
      BY <2>2, <3>2 DEF Keeps, Blocks
    <3>4. Waits(b, k)
      BY <2>3, <2>4, <3>2 DEF Waits, Late, Blocks
    <3>5. DelayedFor(b, k, ticks, TRUE)
      BY <2>3, <2>4, <3>2 DEF DelayedFor, WakeAt, Blocks
    <3>6. Blocks(b, k, ticks)
      BY <2>2, <2>4, <3>2, <3>3, <3>4, <3>5 DEF Blocks
    <3>7. QED
      BY <1>3, <2>1, <2>2, <2>7, <3>2, <3>6 DEF j, b
  <2>8. QED
    BY <2>6, <2>7
<1>4. QED
  BY <1>2, <1>3

-----------------------------------------------------------------------------
(* The flags of a notification alone *)

LEMMA ExitGoesOn ==
    ASSUME NEW k, Good(k), k.current \in Task, DOMAIN k.notify = Task,
           DOMAIN k.value = Task, NEW a, NEW b
    PROVE  /\ GoesOn(NotifyTakeExit(k, a), k)
           /\ GoesOn(NotifyWaitExit(k, b), k)
           /\ NotifyTakeExit(k, a).notify = [k.notify EXCEPT ![k.current] = "not_waiting"]
           /\ NotifyWaitExit(k, b).notify = [k.notify EXCEPT ![k.current] = "not_waiting"]
<1> DEFINE i == NotifyTakeExit(k, a)
           j == NotifyWaitExit(k, b)
<1>1. DOMAIN k = KernelFields
  BY DEF Good, Sound, Shape
<1>2. /\ Keeps(i, k, NotifyFields)
      /\ i.notify = [k.notify EXCEPT ![k.current] = "not_waiting"]
      /\ DOMAIN i.value = Task
      /\ \A t \in Task \ {k.current} : i.value[t] = k.value[t]
  BY <1>1 DEF NotifyTakeExit, Keeps, KernelFields, NotifyFields
<1>3. /\ Keeps(j, k, NotifyFields)
      /\ j.notify = [k.notify EXCEPT ![k.current] = "not_waiting"]
      /\ DOMAIN j.value = Task
      /\ \A t \in Task \ {k.current} : j.value[t] = k.value[t]
  BY <1>1 DEF NotifyWaitExit, Keeps, KernelFields, NotifyFields
<1> HIDE DEF i, j
<1>4. Readied(i, k, {}) /\ Readied(j, k, {})
  BY <1>2, <1>3, FlagsReadied DEF NotifyFields, Flags
<1>5. GoesOn(i, k) /\ GoesOn(j, k)
  BY <1>2, <1>3, <1>4 DEF GoesOn
<1>6. QED
  BY <1>2, <1>3, <1>5 DEF i, j

LEMMA ClearIs ==
    ASSUME NEW k, Good(k), NEW t \in Task, DOMAIN k.notify = Task,
           DOMAIN k.value = Task, NEW bits
    PROVE  /\ Keeps(xTaskGenericNotifyStateClear(k, t), k, {"notify"})
           /\ xTaskGenericNotifyStateClear(k, t).notify
                = [k.notify EXCEPT ![t] = IF @ = "received" THEN "not_waiting" ELSE @]
           /\ Keeps(ulTaskGenericNotifyValueClear(k, t, bits), k, {"value"})
           /\ DOMAIN ulTaskGenericNotifyValueClear(k, t, bits).value = Task
           /\ \A u \in Task \ {t} :
                ulTaskGenericNotifyValueClear(k, t, bits).value[u] = k.value[u]
<1>1. DOMAIN k = KernelFields
  BY DEF Good, Sound, Shape
<1>2. QED
  BY <1>1 DEF xTaskGenericNotifyStateClear, ulTaskGenericNotifyValueClear, Keeps, KernelFields

\* A notification to a task that does not wait for one.
LEMMA NotifyIdleKeeps ==
    ASSUME NEW k, Good(k), NEW t \in Task, DOMAIN k.notify = Task, DOMAIN k.value = Task,
           NEW v, NEW action, k.notify[t] # "waiting"
    PROVE  /\ Keeps(xTaskGenericNotify(k, t, v, action), k, NotifyFields)
           /\ Keeps(NotifyAndYield(k, t, v, action), k, NotifyFields)
<1> DEFINE r == Notified(k, t, v, action)
<1>1. Keeps(r, k, NotifyFields)
  BY NotifiedIs
<1>2. xTaskGenericNotify(k, t, v, action) = r
  BY DEF xTaskGenericNotify
<1>3. xTaskGenericNotifyFromISR(k, t, v, action) = r
  BY DEF xTaskGenericNotifyFromISR
<1>4. NotifyAndYield(k, t, v, action) = r
  BY <1>3 DEF NotifyAndYield, YieldIf, WokenByNotify
<1>5. QED
  BY <1>1, <1>2, <1>4

-----------------------------------------------------------------------------
(* The times of the sleeping tasks *)

\* No task of the delayed list is due before xNextTaskUnblockTime.
Early(k) == \A t \in Elements(k.delayed) : k.unblock <= k.wake[t]

\* The tasks that still sleep do so in their list, until the same time.
TimeFields == {"tick", "delayed", "overflow", "wake", "unblock"}

Kept(j, k) ==
    /\ j.tick = k.tick
    /\ Elements(j.delayed) \subseteq Elements(k.delayed)
    /\ Elements(j.overflow) \subseteq Elements(k.overflow)
    /\ \A t \in Late(j) : j.wake[t] = k.wake[t]
    /\ Early(k) => Early(j)

LEMMA KeptBoth ==
    ASSUME NEW k, NEW j, NEW i, Kept(j, k), Kept(i, j)
    PROVE  Kept(i, k)
BY DEF Kept, Late

LEMMA KeepsKept ==
    ASSUME NEW k, NEW j, NEW changed, Keeps(j, k, changed), changed \cap TimeFields = {}
    PROVE  Kept(j, k) /\ Late(j) = Late(k)
<1>1. /\ j.tick = k.tick /\ j.delayed = k.delayed /\ j.overflow = k.overflow
      /\ j.wake = k.wake /\ j.unblock = k.unblock
  BY DEF Keeps, KernelFields, TimeFields
<1>2. QED
  BY <1>1 DEF Kept, Late, Early

LEMMA KeptSelf ==
    ASSUME NEW k
    PROVE  Kept(k, k)
BY DEF Kept

\* A task that leaves its list does not disturb the others.
LEMMA LeavesKept ==
    ASSUME NEW k, Sound(k), NEW j, NEW t \in Task, Leaves(j, k, t),
           j.wake = [k.wake EXCEPT ![t] = 0], j.tick = k.tick, j.unblock = k.unblock
    PROVE  Kept(j, k) /\ Late(j) = Late(k) \ {t}
<1>1. k.wake \in [Task -> Int] /\ Late(k) \subseteq Task
  BY DEF Sound, Shape, Late, Elements, IsList
<1>2. /\ Elements(j.delayed) = Elements(k.delayed) \ {t}
      /\ Elements(j.overflow) = Elements(k.overflow) \ {t}
  BY DEF Leaves
<1>3. Late(j) = Late(k) \ {t}
  BY <1>2 DEF Late
<1>4. \A u \in Late(j) : j.wake[u] = k.wake[u]
  BY <1>1, <1>3
<1>5. Early(k) => Early(j)
  BY <1>2, <1>4 DEF Early, Late
<1>6. QED
  BY <1>2, <1>3, <1>4, <1>5 DEF Kept

\* The delayed list is sorted: its head is the first to wake.
LEMMA FirstIs ==
    ASSUME NEW s, IsList(s, Task), NEW wake \in [Task -> Int], Sorted(s, wake)
    PROVE  \A t \in Elements(s) : FirstWake(s, wake) <= wake[t]
<1> SUFFICES ASSUME NEW t \in Elements(s) PROVE FirstWake(s, wake) <= wake[t]
  OBVIOUS
<1>1. s \in Seq(Task) /\ Len(s) \in Nat /\ DOMAIN s = 1 .. Len(s)
  BY DEF IsList
<1>2. PICK i \in DOMAIN s : t = s[i]
  BY DEF Elements
<1>3. s # << >> /\ 1 \in DOMAIN s /\ Head(s) = s[1] /\ s[1] \in Task /\ s[i] \in Task
  BY <1>1, <1>2
<1>4. FirstWake(s, wake) = wake[s[1]]
  BY <1>3 DEF FirstWake
<1>5. i = 1 \/ 1 < i
  BY <1>1, <1>2
<1>6. 1 < i => wake[s[1]] <= wake[s[i]]
  BY <1>2, <1>3 DEF Sorted
<1>7. wake[s[1]] \in Int /\ wake[s[i]] \in Int
  BY <1>3
<1>8. wake[s[1]] <= wake[s[i]]
  BY <1>5, <1>6, <1>7
<1>9. QED
  BY <1>2, <1>4, <1>8

LEMMA ResetKept ==
    ASSUME NEW k, Good(k)
    PROVE  LET j == prvResetNextTaskUnblockTime(k)
           IN  Kept(j, k) /\ Late(j) = Late(k) /\ Early(j)
<1> DEFINE j == prvResetNextTaskUnblockTime(k)
<1>1. Keeps(j, k, {"unblock"}) /\ j.unblock = FirstWake(k.delayed, k.wake)
  BY ResetUnblockIs
<1> HIDE DEF j
<1>2. j.tick = k.tick /\ j.delayed = k.delayed /\ j.overflow = k.overflow /\ j.wake = k.wake
  BY <1>1 DEF Keeps, KernelFields
<1>3. \A t \in Elements(k.delayed) : FirstWake(k.delayed, k.wake) <= k.wake[t]
  BY FirstIs DEF Good, Sound, Shape
<1>4. Early(j)
  BY <1>1, <1>2, <1>3 DEF Early
<1>5. QED
  BY <1>2, <1>4 DEF Kept, Late, j

LEMMA WokenKept ==
    ASSUME NEW k, NEW j, NEW S, AreWoken(j, k, S), Good(k)
    PROVE  Kept(j, k) /\ Late(j) = Late(k) \ S
<1>1. j.tick = k.tick /\ j.unblock = k.unblock
  BY DEF AreWoken, Keeps, KernelFields, WakeFields, StateLists
<1>2. /\ Elements(j.delayed) = Elements(k.delayed) \ S
      /\ Elements(j.overflow) = Elements(k.overflow) \ S
  BY DEF AreWoken
<1>3. Late(k) \subseteq Task
  BY DEF Good, Sound, Shape, Late, Elements, IsList
<1>4. \A t \in Late(j) : j.wake[t] = k.wake[t]
  BY <1>2, <1>3 DEF AreWoken, Late
<1>5. Early(k) => Early(j)
  BY <1>1, <1>2, <1>4 DEF Early, Late
<1>6. QED
  BY <1>1, <1>2, <1>4, <1>5 DEF Kept, Late

LEMMA MoveKept ==
    ASSUME NEW k, Good(k), NEW t \in Task
    PROVE  LET j == MoveToReadyList(k, t)
           IN  /\ Kept(j, k) /\ Late(j) = Late(k) \ {t} /\ Good(j)
               /\ Keeps(j, k, StateLists \cup {"top"})
<1> DEFINE j == MoveToReadyList(k, t)
<1>1. MadeReady(j, k, t)
  BY MadeReadyIs
<1> HIDE DEF j
<1>2. j.tick = k.tick /\ j.unblock = k.unblock
  BY <1>1 DEF MadeReady, Keeps, KernelFields, StateLists
<1>3. QED
  BY <1>1, <1>2, LeavesKept DEF MadeReady, Good, j

-----------------------------------------------------------------------------
(* How many ticks a sleeping task has left *)

\* Task t, on the list of the turn of the counter it wakes in, wakes n ticks on.
WakesIn(k, t, n) ==
    /\ k.tick + n < TickMod => t \in Elements(k.delayed) /\ k.wake[t] = k.tick + n
    /\ ~(k.tick + n < TickMod) =>
         t \in Elements(k.overflow) /\ k.wake[t] = k.tick + n - TickMod

\* Every sleeping task has as many ticks left as n says.
Exact(k, n) ==
    \A t \in Late(k) : n[t] \in 1 .. TickMod - 1 /\ WakesIn(k, t, n[t])

LEMMA ExactKept ==
    ASSUME NEW k, Sound(k), NEW j, Kept(j, k), NEW n, NEW m, Exact(k, n),
           k.tick \in Tick, \A t \in Late(j) : m[t] = n[t]
    PROVE  Exact(j, m)
<1> SUFFICES ASSUME NEW t \in Late(j)
             PROVE  m[t] \in 1 .. TickMod - 1 /\ WakesIn(j, t, m[t])
  BY DEF Exact
<1>1. t \in Late(k) /\ m[t] = n[t] /\ j.wake[t] = k.wake[t] /\ j.tick = k.tick
  BY DEF Kept, Late
<1>2. n[t] \in 1 .. TickMod - 1 /\ WakesIn(k, t, n[t])
  BY <1>1 DEF Exact
<1>3. /\ t \in Elements(k.delayed) => t \in Elements(j.delayed)
      /\ t \in Elements(k.overflow) => t \in Elements(j.overflow)
  <2>1. Elements(k.delayed) \cap Elements(k.overflow) = {}
    BY DEF Sound, Apart
  <2>2. QED
    BY <2>1 DEF Kept, Late
<1>4. QED
  BY <1>1, <1>2, <1>3 DEF WakesIn

\* The wake time that is n ticks on, on the list of its turn.
LEMMA WakeTimeIs ==
    ASSUME NEW tick \in Tick, NEW n \in 0 .. TickMod
    PROVE  (tick + n) % TickMod = IF tick + n < TickMod THEN tick + n ELSE tick + n - TickMod
<1>1. TickMod \in Nat \ {0} /\ tick \in 0 .. TickMod - 1
  BY TickAssumption DEF Tick
<1>2. tick % TickMod = tick
  BY <1>1, ModSmall
<1>3. (tick + n) % TickMod
        = IF (tick % TickMod) + n >= TickMod THEN (tick % TickMod) + n - TickMod
          ELSE (tick % TickMod) + n
  BY <1>1, ModAfter
<1>4. QED
  BY <1>1, <1>2, <1>3

LEMMA NextTickIs ==
    ASSUME NEW k, k.tick \in Tick
    PROVE  /\ NextTick(k) \in Tick
           /\ NextTick(k) = IF k.tick = TickMod - 1 THEN 0 ELSE k.tick + 1
<1>1. TickMod \in Nat /\ TickMod > 1 /\ 1 \in 0 .. TickMod
  BY TickAssumption
<1>2. NextTick(k) = IF k.tick + 1 < TickMod THEN k.tick + 1 ELSE k.tick + 1 - TickMod
  BY <1>1, WakeTimeIs DEF NextTick
<1>3. QED
  BY <1>1, <1>2 DEF Tick

\* When the count has gone on, and the lists have been switched if it has wrapped,
\* every sleeping task is a tick nearer to its wake time.
LEMMA TurnedExact ==
    ASSUME NEW k, Good(k), Timed(k), k.tick \in Tick, NEW n, Exact(k, n), Early(k)
    PROVE  LET l == Turned(k)
           IN  /\ l.tick \in Tick /\ Early(l) /\ Late(l) = Late(k)
               /\ \A t \in Late(k) :
                    n[t] - 1 \in 0 .. TickMod - 1 /\ WakesIn(l, t, n[t] - 1)
<1> DEFINE l == Turned(k)
<1>1. /\ Keeps(l, k, {"tick", "delayed", "overflow", "overflows", "unblock"})
      /\ Good(l) /\ l.tick = NextTick(k)
      /\ NextTick(k) # 0 =>
           /\ l.delayed = k.delayed /\ l.overflow = k.overflow /\ l.unblock = k.unblock
      /\ NextTick(k) = 0 =>
           /\ l.delayed = k.overflow /\ l.overflow = k.delayed
           /\ l.unblock = FirstWake(k.overflow, k.wake)
  BY TurnedIs
<1> HIDE DEF l
<1>2. l.wake = k.wake
  BY <1>1 DEF Keeps, KernelFields
<1>3. /\ NextTick(k) \in Tick
      /\ NextTick(k) = IF k.tick = TickMod - 1 THEN 0 ELSE k.tick + 1
  BY NextTickIs
<1>4. TickMod \in Nat /\ TickMod > 1 /\ k.tick \in 0 .. TickMod - 1
  BY TickAssumption DEF Tick
<1>5. Late(l) = Late(k)
  BY <1>1 DEF Late
<1>6. \A t \in Late(k) : n[t] \in 1 .. TickMod - 1 /\ n[t] - 1 \in 0 .. TickMod - 1
  BY <1>4 DEF Exact
<1>7. CASE NextTick(k) # 0
  <2>1. /\ l.delayed = k.delayed /\ l.overflow = k.overflow /\ l.unblock = k.unblock
        /\ l.tick = k.tick + 1
    BY <1>1, <1>3, <1>7
  <2>2. Early(l)
    BY <1>2, <2>1 DEF Early
  <2>3. ASSUME NEW t \in Late(k) PROVE WakesIn(l, t, n[t] - 1)
    <3>1. WakesIn(k, t, n[t])
      BY DEF Exact
    <3>2. l.tick + (n[t] - 1) = k.tick + n[t]
      BY <1>4, <1>6, <2>1
    <3>3. l.tick + (n[t] - 1) - TickMod = k.tick + n[t] - TickMod
      BY <1>4, <1>6, <2>1
    <3>4. QED
      BY <1>2, <2>1, <3>1, <3>2, <3>3 DEF WakesIn
  <2>4. QED
    BY <1>1, <1>3, <1>5, <1>6, <2>2, <2>3 DEF l
<1>8. CASE NextTick(k) = 0
  <2>1. /\ l.delayed = k.overflow /\ l.overflow = k.delayed
        /\ l.unblock = FirstWake(k.overflow, k.wake)
        /\ l.tick = 0 /\ k.tick = TickMod - 1
    <3>1. k.tick + 1 # 0
      BY <1>4
    <3>2. QED
      BY <1>1, <1>3, <1>8, <3>1
  <2>2. Early(l)
    <3>1. \A t \in Elements(k.overflow) : FirstWake(k.overflow, k.wake) <= k.wake[t]
      BY FirstIs DEF Good, Sound, Shape
    <3>2. QED
      BY <1>2, <2>1, <3>1 DEF Early
  <2>3. ASSUME NEW t \in Late(k) PROVE WakesIn(l, t, n[t] - 1)
    <3>1. WakesIn(k, t, n[t])
      BY DEF Exact
    <3>2. n[t] \in 1 .. TickMod - 1
      BY <1>6
    <3>3. ~(k.tick + n[t] < TickMod)
      BY <1>4, <2>1, <3>2
    <3>4. t \in Elements(k.overflow) /\ k.wake[t] = k.tick + n[t] - TickMod
      BY <3>1, <3>3 DEF WakesIn
    <3>5. k.wake[t] = l.tick + (n[t] - 1) /\ l.tick + (n[t] - 1) < TickMod
      BY <1>4, <2>1, <3>2, <3>4
    <3>6. QED
      BY <1>2, <2>1, <3>4, <3>5 DEF WakesIn
  <2>4. QED
    BY <1>1, <1>3, <1>5, <1>6, <2>2, <2>3 DEF l
<1>9. QED
  BY <1>7, <1>8

\* The tasks that a tick wakes are those that have one tick left.
LEMMA DueExact ==
    ASSUME NEW k, Good(k), Timed(k), k.tick \in Tick, NEW n, Exact(k, n), Early(k)
    PROVE  DueAt(k) = {t \in Late(k) : n[t] = 1}
<1> DEFINE l == Turned(k)
<1>1. /\ l.tick \in Tick /\ Early(l) /\ Late(l) = Late(k)
      /\ \A t \in Late(k) : n[t] - 1 \in 0 .. TickMod - 1 /\ WakesIn(l, t, n[t] - 1)
  BY TurnedExact
<1>2. /\ Keeps(l, k, {"tick", "delayed", "overflow", "overflows", "unblock"})
      /\ Good(l) /\ Timed(l) /\ l.tick = NextTick(k)
  BY TurnedIs
<1>3. DueAt(k) = IF l.tick >= l.unblock
                   THEN {t \in Elements(l.delayed) : k.wake[t] <= l.tick} ELSE {}
  BY <1>2 DEF DueAt, IsTime
<1> HIDE DEF l
<1>4. l.wake = k.wake
  BY <1>2 DEF Keeps, KernelFields
<1>5. TickMod \in Nat /\ l.tick \in 0 .. TickMod - 1 /\ l.unblock \in Int
  BY <1>1, <1>2, TickAssumption DEF Tick, Timed
<1>6. \A t \in Late(k) : n[t] \in 1 .. TickMod - 1
  BY DEF Exact
<1>7. \A t \in Elements(l.delayed) : t \in Late(k)
  BY <1>1 DEF Late
<1>8. ASSUME NEW t \in Late(k), n[t] = 1 PROVE t \in DueAt(k)
  <2>1. WakesIn(l, t, 0)
    <3>1. n[t] - 1 = 0
      BY <1>8
    <3>2. QED
      BY <1>1, <3>1
  <2>2. t \in Elements(l.delayed) /\ l.wake[t] = l.tick
    BY <1>5, <2>1 DEF WakesIn
  <2>3. l.unblock <= l.tick
    BY <1>1, <2>2 DEF Early
  <2>4. l.tick >= l.unblock
    BY <1>5, <2>3
  <2>5. k.wake[t] <= l.tick
    BY <1>4, <1>5, <2>2
  <2>6. QED
    BY <1>3, <2>2, <2>4, <2>5
<1>9. ASSUME NEW t \in DueAt(k) PROVE t \in Late(k) /\ n[t] = 1
  <2>1. t \in Elements(l.delayed) /\ k.wake[t] <= l.tick
    BY <1>3
  <2>2. t \in Late(k)
    BY <1>7, <2>1
  <2>3. WakesIn(l, t, n[t] - 1) /\ n[t] \in 1 .. TickMod - 1
    BY <1>1, <1>6, <2>2
  <2>4. t \notin Elements(l.overflow)
    BY <1>2, <2>1 DEF Good, Sound, Apart
  <2>5. l.wake[t] = l.tick + (n[t] - 1)
    BY <2>3, <2>4 DEF WakesIn
  <2>6. QED
    BY <1>4, <1>5, <2>1, <2>2, <2>3, <2>5
<1>10. QED
  BY <1>8, <1>9

\* What is asked of the times.
TimesRight(k, n) == k.tick \in Tick /\ Early(k) /\ Exact(k, n)

\* A tick wakes the tasks that have one tick left; the others have one less.
LEMMA TickExact ==
    ASSUME NEW k, Good(k), Timed(k), NEW n, TimesRight(k, n), ~(k.suspensions > 0)
    PROVE  LET j == xTaskIncrementTick(k).k
           IN  /\ Late(j) = {t \in Late(k) : n[t] > 1}
               /\ \A m : (\A t \in Late(k) : m[t] = n[t] - 1) => TimesRight(j, m)
<1> DEFINE l == Turned(k)
           w == WokenAt(k)
           u == prvResetNextTaskUnblockTime(w)
           j == xTaskIncrementTick(k).k
           S == DueAt(k)
<1>1. k.tick \in Tick /\ Early(k) /\ Exact(k, n)
  BY DEF TimesRight
<1>2. /\ l.tick \in Tick /\ Early(l) /\ Late(l) = Late(k)
      /\ \A t \in Late(k) : n[t] - 1 \in 0 .. TickMod - 1 /\ WakesIn(l, t, n[t] - 1)
  BY <1>1, TurnedExact
<1>3. Good(l)
  BY TurnedIs
<1>4. AreWoken(w, l, S) /\ j = IF IsTime(k) THEN u ELSE w
  BY TickIs
<1>5. S = {t \in Late(k) : n[t] = 1}
  BY <1>1, DueExact
<1> HIDE DEF l, w, S
<1>6. Kept(w, l) /\ Late(w) = Late(l) \ S
  BY <1>3, <1>4, WokenKept
<1>66. Good(w)
  BY <1>4 DEF AreWoken
<1>7. Kept(u, w) /\ Late(u) = Late(w)
  BY <1>66, ResetKept
<1> HIDE DEF u, j
<1>8. Kept(j, l) /\ Late(j) = Late(l) \ S
  BY <1>4, <1>6, <1>7, KeptBoth
<1>9. Late(j) = {t \in Late(k) : n[t] > 1}
  <2>1. \A t \in Late(k) : n[t] \in Int /\ n[t] >= 1
    BY <1>1, TickAssumption DEF Exact
  <2>2. \A t \in Late(k) : n[t] > 1 <=> n[t] # 1
    BY <2>1
  <2>3. QED
    BY <1>2, <1>5, <1>8, <2>2
<1>10. ASSUME NEW m, \A t \in Late(k) : m[t] = n[t] - 1 PROVE TimesRight(j, m)
  <2>1. j.tick \in Tick /\ Early(j)
    BY <1>2, <1>8 DEF Kept
  <2>2. ASSUME NEW t \in Late(j) PROVE m[t] \in 1 .. TickMod - 1 /\ WakesIn(j, t, m[t])
    <3>1. t \in Late(k) /\ n[t] > 1 /\ n[t] \in 1 .. TickMod - 1
      BY <1>1, <1>9 DEF Exact
    <3>2. m[t] = n[t] - 1 /\ m[t] \in 1 .. TickMod - 1
      BY <1>10, <3>1, TickAssumption
    <3>3. WakesIn(l, t, m[t])
      BY <1>2, <3>1, <3>2
    <3>4. /\ t \in Elements(l.delayed) => t \in Elements(j.delayed)
          /\ t \in Elements(l.overflow) => t \in Elements(j.overflow)
      <4>1. Elements(l.delayed) \cap Elements(l.overflow) = {}
        BY <1>3 DEF Good, Sound, Apart
      <4>2. QED
        BY <1>8, <4>1 DEF Kept, Late
    <3>5. j.tick = l.tick /\ j.wake[t] = l.wake[t]
      BY <1>8 DEF Kept
    <3>6. QED
      BY <3>2, <3>3, <3>4, <3>5 DEF WakesIn
  <2>3. QED
    BY <2>1, <2>2 DEF TimesRight, Exact
<1>11. QED
  BY <1>9, <1>10 DEF j

-----------------------------------------------------------------------------
(* The ticks that were pended *)

\* i ticks later.
Less(n, i) == [t \in Task |-> n[t] - i]

\* What i ticks do to the tasks that sleep.
TicksOn(j, k, n, i) ==
    /\ j.tick = (k.tick + i) % TickMod
    /\ Late(j) = {t \in Late(k) : n[t] > i}
    /\ TimesRight(j, Less(n, i))

LEMMA LateTasks ==
    ASSUME NEW k, Good(k)
    PROVE  Late(k) \subseteq Task
BY DEF Good, Sound, Shape, Late, Elements, IsList

\* No tick has passed.
LEMMA TicksNone ==
    ASSUME NEW k, Good(k), NEW n \in [Task -> Int], TimesRight(k, n)
    PROVE  TicksOn(k, k, n, 0)
<1>1. TickMod \in Nat \ {0} /\ k.tick \in 0 .. TickMod - 1
  BY TickAssumption DEF TimesRight, Tick
<1>2. (k.tick + 0) % TickMod = k.tick
  BY <1>1
<1>3. \A t \in Late(k) : t \in Task /\ n[t] \in Int /\ n[t] > 0
  BY <1>1, LateTasks DEF TimesRight, Exact
<1>4. Less(n, 0) = n
  BY DEF Less
<1>5. Late(k) = {t \in Late(k) : n[t] > 0}
  BY <1>3
<1>6. QED
  BY <1>2, <1>4, <1>5 DEF TicksOn

\* One more.
LEMMA TicksNext ==
    ASSUME NEW k, NEW n \in [Task -> Int], NEW i \in Nat, NEW j, TicksOn(j, k, n, i),
           k.tick \in Tick, Late(k) \subseteq Task, Good(j), Timed(j), ~(j.suspensions > 0), NEW x
    PROVE  TicksOn(CatchUpTick(j, x), k, n, i + 1)
<1> DEFINE r == xTaskIncrementTick(j)
           c == r.k
           d == CatchUpTick(j, x)
           m == Less(n, i)
<1>1. /\ j.tick = (k.tick + i) % TickMod
      /\ Late(j) = {t \in Late(k) : n[t] > i}
      /\ TimesRight(j, m)
  BY DEF TicksOn
<1>2. /\ Keeps(c, j, TickFields) /\ c.tick = NextTick(j)
  BY TickReadied
<1>3. /\ Late(c) = {t \in Late(j) : m[t] > 1}
      /\ \A l : (\A t \in Late(j) : l[t] = m[t] - 1) => TimesRight(c, l)
  BY <1>1, TickExact
<1>4. d = [c EXCEPT !.yield = @ \/ r.switch]
  BY DEF CatchUpTick
<1>5. \A t \in Task : m[t] = n[t] - i /\ n[t] \in Int
  BY DEF Less
<1>6. \A t \in Late(j) : Less(n, i + 1)[t] = m[t] - 1
  BY <1>1, <1>5 DEF Less
<1> HIDE DEF r, c, m, d
<1>7. TimesRight(c, Less(n, i + 1))
  BY <1>3, <1>6
<1>8. Late(c) = {t \in Late(k) : n[t] > i + 1}
  <2>1. \A t \in Late(k) : n[t] > i /\ m[t] > 1 <=> n[t] > i + 1
    BY <1>5
  <2>2. QED
    BY <1>1, <1>3, <2>1
<1>9. c.tick = (k.tick + (i + 1)) % TickMod
  <2>1. TickMod \in Nat \ {0} /\ k.tick \in Int
    BY TickAssumption DEF Tick
  <2>2. (1 + ((k.tick + i) % TickMod)) % TickMod = (1 + (k.tick + i)) % TickMod
    <3>1. k.tick + i \in Int /\ 1 \in Int
      BY <2>1
    <3>2. QED
      BY <2>1, <3>1, ModPlus
  <2>3. (k.tick + i) % TickMod \in Int
    BY <2>1, ModIs
  <2>4. ((k.tick + i) % TickMod) + 1 = 1 + ((k.tick + i) % TickMod)
    BY <2>3
  <2>5. 1 + (k.tick + i) = k.tick + (i + 1)
    BY <2>1
  <2>6. QED
    BY <1>1, <1>2, <2>2, <2>4, <2>5 DEF NextTick
<1>10. Keeps(d, c, {"yield"})
  BY <1>2, <1>4 DEF Keeps, KernelFields
<1>11. Kept(d, c) /\ Late(d) = Late(c) /\ d.tick = c.tick
  <2>1. {"yield"} \cap TimeFields = {}
    BY DEF TimeFields
  <2>2. QED
    BY <1>10, <2>1, KeepsKept DEF Kept
<1>12. TimesRight(d, Less(n, i + 1))
  <2>1. d.delayed = c.delayed /\ d.overflow = c.overflow /\ d.wake = c.wake
        /\ d.tick = c.tick /\ d.unblock = c.unblock
    BY <1>10 DEF Keeps, KernelFields
  <2>2. QED
    BY <1>7, <2>1 DEF TimesRight, Early, Exact, Late, WakesIn
<1>13. QED
  BY <1>8, <1>9, <1>11, <1>12 DEF TicksOn, d

LEMMA RunTimes ==
    ASSUME NEW k, Good(k), Timed(k), ~(k.suspensions > 0), NEW s, Len(s) \in Nat,
           NEW h, Run("tick", h, k, s), NEW n \in [Task -> Int], TimesRight(k, n)
    PROVE  \A i \in 0 .. Len(s) : TicksOn(h[i], k, n, i)
<1> DEFINE T == {i \in Nat : i <= Len(s) => TicksOn(h[i], k, n, i)}
<1>1. 0 \in T
  BY TicksNone DEF Run
<1>2. ASSUME NEW i \in Nat, i \in T PROVE i + 1 \in T
  <2> SUFFICES ASSUME i + 1 <= Len(s) PROVE TicksOn(h[i + 1], k, n, i + 1)
    OBVIOUS
  <2>1. TicksOn(h[i], k, n, i)
    BY <1>2
  <2>2. i + 1 \in 1 .. Len(s) /\ i + 1 - 1 = i /\ i \in 0 .. Len(s)
    OBVIOUS
  <2>3. h[i + 1] = CatchUpTick(h[i], s[i + 1])
    BY <2>2 DEF Run, Step
  <2>4. CaughtUp(h[i], k)
    BY <2>2, RunTicks
  <2>5. Good(h[i]) /\ Timed(h[i]) /\ h[i].suspensions = k.suspensions
    BY <2>4 DEF CaughtUp, Keeps, KernelFields, TickFields, WakeFields, StateLists
  <2>6. k.tick \in Tick /\ Late(k) \subseteq Task
    BY LateTasks DEF TimesRight
  <2>7. QED
    BY <2>1, <2>3, <2>5, <2>6, TicksNext
<1> HIDE DEF T
<1>3. Nat \subseteq T
  BY <1>1, <1>2, NatInduct
<1>4. QED
  BY <1>3 DEF T

LEMMA CatchUpTimes ==
    ASSUME NEW k, Good(k), Timed(k), ~(k.suspensions > 0), NEW p \in Nat,
           NEW n \in [Task -> Int], TimesRight(k, n)
    PROVE  TicksOn(FoldLeft(CatchUpTick, k, [i \in 1 .. p |-> i]), k, n, p)
<1> DEFINE s == [i \in 1 .. p |-> i]
<1>1. Len(s) = p /\ DOMAIN s = 1 .. Len(s)
  OBVIOUS
<1> HIDE DEF s
<1>2. PICK h : Run("tick", h, k, s) /\ FoldLeft(CatchUpTick, k, s) = h[Len(s)]
  BY <1>1, TickRun
<1>3. TicksOn(h[Len(s)], k, n, Len(s))
  <2>1. \A i \in 0 .. Len(s) : TicksOn(h[i], k, n, i)
    BY <1>1, <1>2, RunTimes
  <2>2. QED
    BY <1>1, <2>1
<1>4. QED
  BY <1>1, <1>2, <1>3 DEF s

\* The pended tasks leave their lists.
LEMMA PendedKept ==
    ASSUME NEW k, Good(k), Timed(k), k.suspensions = 1
    PROVE  /\ Kept(PendedReady(k), k)
           /\ Late(PendedReady(k)) = Late(k) \ Elements(k.pending)
<1> DEFINE r == Resumed(k)
           f == FoldLeft(ReadyPended, r, r.pending)
           u == prvResetNextTaskUnblockTime(f)
           j == PendedReady(k)
<1>1. Keeps(r, k, {"suspensions"}) /\ Good(r)
  BY ResumedIs
<1>2. r.pending \in Seq(Task)
  BY <1>1 DEF Good, Sound, Shape, IsList
<1>3. j = IF r.pending = << >> THEN r ELSE u
  BY DEF PendedReady
<1>4. AreWoken(f, r, Elements(r.pending))
  BY <1>1, <1>2, PendedAllIs
<1> HIDE DEF r, f, j
<1>5. r.pending = k.pending
  BY <1>1 DEF Keeps, KernelFields
<1>6. Kept(r, k) /\ Late(r) = Late(k)
  <2>1. {"suspensions"} \cap TimeFields = {}
    BY DEF TimeFields
  <2>2. QED
    BY <1>1, <2>1, KeepsKept
<1>7. Kept(f, r) /\ Late(f) = Late(r) \ Elements(r.pending)
  BY <1>1, <1>4, WokenKept
<1>8. Good(f)
  BY <1>4 DEF AreWoken
<1>9. Kept(u, f) /\ Late(u) = Late(f)
  BY <1>8, ResetKept
<1> HIDE DEF u
<1>10. CASE r.pending = << >>
  <2>1. Elements(r.pending) = {}
    BY <1>2, <1>10, ItemsEmpty
  <2>2. QED
    BY <1>3, <1>5, <1>6, <1>10, <2>1 DEF j
<1>11. CASE r.pending # << >>
  <2>1. Kept(f, k)
    BY <1>6, <1>7, KeptBoth
  <2>2. Kept(u, k)
    BY <1>9, <2>1, KeptBoth
  <2>3. QED
    BY <1>3, <1>5, <1>6, <1>7, <1>9, <1>11, <2>2 DEF j
<1>12. QED
  BY <1>10, <1>11

\* What xTaskResumeAll does to the tasks that sleep.
ResumedOn(j, k, n) ==
    /\ j.tick = (k.tick + k.pended) % TickMod
    /\ Late(j) = {t \in Late(k) \ Elements(k.pending) : n[t] > k.pended}
    /\ TimesRight(j, Less(n, k.pended))

LEMMA ResumeAllTimes ==
    ASSUME NEW k, Good(k), Timed(k), k.suspensions = 1, k.pended \in Nat,
           NEW n \in [Task -> Int], TimesRight(k, n)
    PROVE  ResumedOn(xTaskResumeAll(k), k, n)
<1> DEFINE b == PendedReady(k)
           c == TicksCounted(k)
           d == [c EXCEPT !.pended = 0]
           j == xTaskResumeAll(k)
<1>1. /\ Keeps(b, k, TickFields \cup {"suspensions"}) /\ b.suspensions = 0
      /\ Timed(b) /\ Good(b)
  BY PendedReadyIs DEF Readied
<1>2. Kept(b, k) /\ Late(b) = Late(k) \ Elements(k.pending)
  BY PendedKept
<1>3. j = YieldIf(d, d.yield)
  <2>1. Resumed(k).suspensions = 0
    BY ResumedIs
  <2>2. ~(Resumed(k).suspensions > 0)
    BY <2>1
  <2>3. j = IF Resumed(k).suspensions > 0 THEN Resumed(k) ELSE YieldIf(d, d.yield)
    BY Zenon DEF xTaskResumeAll, Resumed, PendedReady, TicksCounted
  <2>4. QED
    BY <2>2, <2>3
<1> HIDE DEF b
<1>4. b.pended = k.pended /\ b.tick = k.tick /\ ~(b.suspensions > 0)
  <2>1. b.pended = k.pended
    BY <1>1 DEF Keeps, KernelFields, TickFields, WakeFields, StateLists
  <2>2. QED
    BY <1>1, <1>2, <2>1 DEF Kept
<1>5. TimesRight(b, n)
  <2>1. Exact(b, n) /\ Early(b)
    BY <1>2, ExactKept DEF TimesRight, Good, Kept
  <2>2. QED
    BY <1>4, <2>1 DEF TimesRight
<1>6. TicksOn(c, b, n, k.pended)
  <2>1. c = FoldLeft(CatchUpTick, b, [i \in 1 .. k.pended |-> i])
    BY <1>4 DEF TicksCounted, b
  <2> HIDE DEF c
  <2>2. QED
    BY <1>1, <1>4, <1>5, <2>1, CatchUpTimes
<1>7. CaughtUp(c, b)
  <2>1. c = FoldLeft(CatchUpTick, b, [i \in 1 .. k.pended |-> i])
    BY <1>4 DEF TicksCounted, b
  <2> HIDE DEF c
  <2>2. QED
    BY <1>1, <1>4, <2>1, CatchUpAllIs
<1> HIDE DEF c
<1>8. Keeps(d, c, {"pended"}) /\ Good(d)
  <2>1. DOMAIN c = KernelFields /\ Good(c)
    BY <1>7 DEF CaughtUp, Keeps
  <2>2. Keeps(d, c, {"pended"})
    BY <2>1 DEF Keeps, KernelFields
  <2>3. QED
    BY <2>1, <2>2, FlagsSame
<1> HIDE DEF d
<1>9. Keeps(j, d, {"pendsv"})
  BY <1>3, <1>8, YieldIfIs
<1> HIDE DEF j
<1>10. /\ j.tick = c.tick /\ j.delayed = c.delayed /\ j.overflow = c.overflow
       /\ j.wake = c.wake /\ j.unblock = c.unblock
  BY <1>8, <1>9 DEF Keeps, KernelFields
<1>11. Late(j) = Late(c)
  BY <1>10 DEF Late
<1>12. TimesRight(j, Less(n, k.pended))
  BY <1>6, <1>10, <1>11 DEF TicksOn, TimesRight, Early, Exact, WakesIn
<1>13. QED
  BY <1>2, <1>4, <1>6, <1>10, <1>11, <1>12 DEF TicksOn, ResumedOn, j

-----------------------------------------------------------------------------
(* A task goes to sleep *)

\* The current task goes to sleep, for the ticks it asked for.
LEMMA SleepsFor ==
    ASSUME NEW k, Good(k), Timed(k), CurrentIsReady(k), NEW n, TimesRight(k, n),
           NEW ticks \in 1 .. TickMod - 1, NEW indefinitely, ~Forever(ticks, indefinitely),
           NEW j, Keeps(j, k, BlockFields \cup {"value"}),
           DelayedFor(j, k, ticks, indefinitely),
           NEW m, m[k.current] = ticks, \A t \in Late(k) : m[t] = n[t]
    PROVE  /\ Late(j) = Late(k) \cup {k.current} /\ j.tick = k.tick
           /\ TimesRight(j, m)
<1> DEFINE c == k.current
           w == WakeAt(k, ticks)
<1>1. /\ j.wake = [k.wake EXCEPT ![c] = w]
      /\ w < k.tick =>
           /\ Elements(j.overflow) = Elements(k.overflow) \cup {c}
           /\ j.delayed = k.delayed /\ j.unblock = k.unblock
      /\ ~(w < k.tick) =>
           /\ Elements(j.delayed) = Elements(k.delayed) \cup {c}
           /\ j.overflow = k.overflow
           /\ j.unblock = IF w < k.unblock THEN w ELSE k.unblock
  BY DEF DelayedFor
<1>2. j.tick = k.tick
  BY DEF Keeps, KernelFields, BlockFields, DelayFields, StateLists
<1>3. /\ TickMod \in Nat /\ k.tick \in 0 .. TickMod - 1 /\ ticks \in 1 .. TickMod - 1
      /\ k.unblock \in Int
  BY TickAssumption DEF TimesRight, Tick, Timed
<1>4. w = IF k.tick + ticks < TickMod THEN k.tick + ticks ELSE k.tick + ticks - TickMod
  <2>1. k.tick \in Tick /\ ticks \in 0 .. TickMod
    BY <1>3 DEF TimesRight
  <2>2. QED
    BY <2>1, WakeTimeIs DEF WakeAt
<1> HIDE DEF w
<1>5. w \in Int /\ (w < k.tick <=> ~(k.tick + ticks < TickMod))
  BY <1>3, <1>4
<1>6. Late(j) = Late(k) \cup {c}
  BY <1>1 DEF Late
<1>7. c \in Task /\ k.wake \in [Task -> Int] /\ Late(k) \subseteq Task /\ c \notin Late(k)
  <2>1. /\ Good(k) /\ c \in Task /\ k.priority \in [Task -> Priority]
    BY DEF CurrentIsReady, Good, Sound, Shape
  <2>2. k.priority[c] \in Priority
    BY <2>1
  <2>3. c \notin Late(k)
    BY <2>2 DEF CurrentIsReady, Good, Sound, Apart, Late
  <2>4. QED
    BY <2>1, <2>3, LateTasks DEF Good, Sound, Shape
<1>8. j.wake[c] = w /\ \A t \in Late(k) : j.wake[t] = k.wake[t] /\ k.wake[t] \in Int
  BY <1>1, <1>7
<1>9. Early(k) /\ Exact(k, n) /\ k.tick \in Tick
  BY DEF TimesRight
<1>10. Early(j)
  <2>1. CASE w < k.tick
    BY <1>1, <1>8, <1>9, <2>1 DEF Early, Late
  <2>2. CASE ~(w < k.tick)
    <3> SUFFICES ASSUME NEW t \in Elements(j.delayed) PROVE j.unblock <= j.wake[t]
      BY DEF Early
    <3>1. j.unblock = IF w < k.unblock THEN w ELSE k.unblock
      BY <1>1, <2>2
    <3>2. j.unblock \in Int /\ j.unblock <= w /\ j.unblock <= k.unblock
      BY <1>3, <1>5, <3>1
    <3>3. CASE t = c
      BY <1>8, <3>2, <3>3
    <3>4. CASE t \in Elements(k.delayed)
      <4>1. k.unblock <= k.wake[t] /\ t \in Late(k)
        BY <1>9, <3>4 DEF Early, Late
      <4>2. j.wake[t] = k.wake[t] /\ k.wake[t] \in Int
        BY <1>8, <4>1
      <4>3. QED
        BY <1>3, <3>2, <4>1, <4>2
    <3>5. QED
      BY <1>1, <2>2, <3>3, <3>4
  <2>3. QED
    BY <2>1, <2>2
<1>11. WakesIn(j, c, ticks)
  BY <1>1, <1>2, <1>4, <1>5, <1>8 DEF WakesIn
<1>12. ASSUME NEW t \in Late(k) PROVE n[t] \in 1 .. TickMod - 1 /\ WakesIn(j, t, n[t])
  <2>1. n[t] \in 1 .. TickMod - 1 /\ WakesIn(k, t, n[t])
    BY <1>9 DEF Exact
  <2>2. Elements(k.delayed) \subseteq Elements(j.delayed) /\ Elements(k.overflow) \subseteq Elements(j.overflow)
    BY <1>1
  <2>3. QED
    BY <1>2, <1>8, <2>1, <2>2 DEF WakesIn
<1>13. Exact(j, m)
  BY <1>6, <1>11, <1>12 DEF Exact
<1>14. QED
  BY <1>2, <1>6, <1>9, <1>10, <1>13 DEF TimesRight

\* It goes to the suspended list: those that sleep do not mind.
LEMMA SleepsForever ==
    ASSUME NEW k, Good(k), CurrentIsReady(k), NEW ticks, NEW indefinitely,
           Forever(ticks, indefinitely),
           NEW j, Keeps(j, k, BlockFields \cup {"value"}),
           DelayedFor(j, k, ticks, indefinitely)
    PROVE  Kept(j, k) /\ Late(j) = Late(k)
<1> DEFINE c == k.current
<1>1. /\ j.delayed = k.delayed /\ j.overflow = k.overflow
      /\ j.wake = [k.wake EXCEPT ![c] = 0] /\ j.unblock = k.unblock
  BY DEF DelayedFor
<1>2. j.tick = k.tick
  BY DEF Keeps, KernelFields, BlockFields, DelayFields, StateLists
<1>3. c \in Task /\ k.wake \in [Task -> Int] /\ Late(k) \subseteq Task /\ c \notin Late(k)
  <2>1. /\ Good(k) /\ c \in Task /\ k.priority \in [Task -> Priority]
    BY DEF CurrentIsReady, Good, Sound, Shape
  <2>2. k.priority[c] \in Priority
    BY <2>1
  <2>3. c \notin Late(k)
    BY <2>2 DEF CurrentIsReady, Good, Sound, Apart, Late
  <2>4. QED
    BY <2>1, <2>3, LateTasks DEF Good, Sound, Shape
<1>4. \A t \in Late(k) : j.wake[t] = k.wake[t]
  BY <1>1, <1>3
<1>5. QED
  BY <1>1, <1>2, <1>4 DEF Kept, Late, Early

-----------------------------------------------------------------------------
(* What the calls do to the tasks that sleep *)

\* The lists and times are kept, but for the tasks of a set.
KeptBut(j, k, S) == Kept(j, k) /\ Late(j) = Late(k) \ S

LEMMA KeptButBoth ==
    ASSUME NEW k, NEW j, NEW i, NEW S, NEW R, KeptBut(j, k, S), KeptBut(i, j, R)
    PROVE  KeptBut(i, k, S \cup R)
<1>1. Kept(i, k)
  BY KeptBoth DEF KeptBut
<1>2. Late(i) = Late(k) \ (S \cup R)
  BY DEF KeptBut
<1>3. QED
  BY <1>1, <1>2 DEF KeptBut

\* Only flags and other lists have changed since.
LEMMA KeptButThen ==
    ASSUME NEW k, NEW j, NEW i, NEW S, KeptBut(j, k, S), NEW changed,
           Keeps(i, j, changed), changed \cap TimeFields = {}
    PROVE  KeptBut(i, k, S)
<1>1. Kept(i, j) /\ Late(i) = Late(j)
  BY KeepsKept
<1>2. Kept(i, k)
  BY <1>1, KeptBoth DEF KeptBut
<1>3. QED
  BY <1>1, <1>2 DEF KeptBut

LEMMA KeptButNone ==
    ASSUME NEW k, NEW j, NEW changed, Keeps(j, k, changed), changed \cap TimeFields = {}
    PROVE  KeptBut(j, k, {})
BY KeepsKept DEF KeptBut

\* A task is resumed, by a task or from an interrupt.
LEMMA ResumeKept ==
    ASSUME NEW k, Good(k), NEW t \in Task
    PROVE  /\ KeptBut(vTaskResume(k, t), k, {t})
             \/ vTaskResume(k, t) = k
           /\ \/ KeptBut(ResumeAndYield(k, t), k, {t})
              \/ KeptBut(ResumeAndYield(k, t), k, {})
<1> DEFINE a == MoveToReadyList(k, t)
           suspended == prvTaskIsTaskSuspended(k, t)
           before == k.priority[t] >= k.priority[k.current]
           b == [a EXCEPT !.yield = @ \/ before]
           p == WithPended(k, t)
           r == xTaskResumeFromISR(k, t)
           due == k.suspensions = 0 /\ suspended /\ before
<1>1. vTaskResume(k, t) = IF suspended THEN YieldIf(a, before) ELSE k
  BY DEF vTaskResume
<1>2. r = IF ~suspended THEN k ELSE IF k.suspensions > 0 THEN p ELSE b
  BY DEF xTaskResumeFromISR, WithPended
<1>3. ResumeAndYield(k, t) = YieldIf(r, due)
  BY DEF ResumeAndYield
<1>4. KeptBut(a, k, {t}) /\ Good(a)
  BY MoveKept DEF KeptBut
<1>5. DOMAIN k = KernelFields /\ DOMAIN a = KernelFields
  BY <1>4 DEF Good, Sound, Shape
<1> HIDE DEF a, suspended, before, r, due
<1>6. {"pendsv"} \cap TimeFields = {} /\ {"yield"} \cap TimeFields = {}
      /\ {"pending"} \cap TimeFields = {}
  BY DEF TimeFields
<1>7. Keeps(YieldIf(a, before), a, {"pendsv"})
  BY <1>4, YieldIfIs
<1>8. KeptBut(YieldIf(a, before), k, {t})
  BY <1>4, <1>6, <1>7, KeptButThen
<1>9. Keeps(b, a, {"yield"})
  BY <1>5 DEF Keeps, KernelFields
<1>10. Keeps(p, k, {"pending"})
  BY <1>5 DEF WithPended, Keeps, KernelFields
<1>11. Keeps(k, k, {"pending"})
  BY <1>5 DEF Keeps
<1> HIDE DEF b, p
<1>12. KeptBut(b, k, {t})
  BY <1>4, <1>6, <1>9, KeptButThen
<1>13. KeptBut(p, k, {}) /\ KeptBut(k, k, {})
  BY <1>6, <1>10, <1>11, KeptButNone
<1>14. DOMAIN r = KernelFields
  BY <1>2, <1>5, <1>9, <1>10 DEF Keeps
<1>15. Keeps(YieldIf(r, due), r, {"pendsv"})
  BY <1>14 DEF YieldIf, portYIELD, Keeps, KernelFields
<1>16. KeptBut(r, k, {t}) \/ KeptBut(r, k, {})
  BY <1>2, <1>12, <1>13
<1>17. KeptBut(YieldIf(r, due), k, {t}) \/ KeptBut(YieldIf(r, due), k, {})
  BY <1>6, <1>15, <1>16, KeptButThen
<1>18. QED
  BY <1>1, <1>3, <1>8, <1>17

\* A task is notified, by a task or from an interrupt.
LEMMA NotifyKept ==
    ASSUME NEW k, Good(k), NEW t \in Task, DOMAIN k.notify = Task, DOMAIN k.value = Task,
           NEW v, NEW action
    PROVE  /\ \/ KeptBut(xTaskGenericNotify(k, t, v, action), k, {t})
              \/ KeptBut(xTaskGenericNotify(k, t, v, action), k, {})
           /\ \/ KeptBut(NotifyAndYield(k, t, v, action), k, {t})
              \/ KeptBut(NotifyAndYield(k, t, v, action), k, {})
<1> DEFINE r == Notified(k, t, v, action)
           a == MoveToReadyList(r, t)
           p == [r EXCEPT !.pending = Append(@, t)]
           u == Unblock(r, t)
           b == [u EXCEPT !.yield = @ \/ Outranks(k, t)]
           waits == k.notify[t] = "waiting"
           i == xTaskGenericNotifyFromISR(k, t, v, action)
<1>1. Keeps(r, k, NotifyFields) /\ Good(r)
  BY NotifiedIs DEF Readied
<1>2. xTaskGenericNotify(k, t, v, action) = IF waits THEN YieldIf(a, Outranks(k, t)) ELSE r
  BY DEF xTaskGenericNotify
<1>3. i = IF waits THEN b ELSE r
  BY DEF xTaskGenericNotifyFromISR
<1>4. u = IF r.suspensions = 0 THEN a ELSE p
  BY DEF Unblock
<1>5. NotifyAndYield(k, t, v, action) = YieldIf(i, WokenByNotify(k, t))
  BY DEF NotifyAndYield
<1> HIDE DEF r
<1>6. KeptBut(a, r, {t}) /\ Good(a)
  BY <1>1, MoveKept DEF KeptBut
<1>7. DOMAIN r = KernelFields /\ DOMAIN a = KernelFields
  BY <1>1, <1>6 DEF Good, Sound, Shape
<1> HIDE DEF a, waits, i, u
<1>8. {"pendsv"} \cap TimeFields = {} /\ {"yield"} \cap TimeFields = {}
      /\ {"pending"} \cap TimeFields = {} /\ NotifyFields \cap TimeFields = {}
  BY DEF TimeFields, NotifyFields
<1>9. KeptBut(r, k, {})
  BY <1>1, <1>8, KeptButNone
<1>10. KeptBut(a, k, {t})
  <2>1. KeptBut(a, k, {} \cup {t})
    BY <1>6, <1>9, KeptButBoth
  <2>2. {} \cup {t} = {t}
    OBVIOUS
  <2>3. QED
    BY <2>1, <2>2
<1>11. KeptBut(YieldIf(a, Outranks(k, t)), k, {t})
  <2>1. Keeps(YieldIf(a, Outranks(k, t)), a, {"pendsv"})
    BY <1>6, YieldIfIs
  <2>2. QED
    BY <1>8, <1>10, <2>1, KeptButThen
<1>12. Keeps(p, r, {"pending"})
  BY <1>7 DEF Keeps, KernelFields
<1> HIDE DEF p
<1>13. KeptBut(p, k, {}) /\ DOMAIN p = KernelFields
  BY <1>8, <1>9, <1>12, KeptButThen DEF Keeps
<1>14. (KeptBut(u, k, {t}) \/ KeptBut(u, k, {})) /\ DOMAIN u = KernelFields
  BY <1>4, <1>7, <1>10, <1>13
<1>15. Keeps(b, u, {"yield"})
  BY <1>14 DEF Keeps, KernelFields
<1> HIDE DEF b
<1>16. (KeptBut(b, k, {t}) \/ KeptBut(b, k, {})) /\ DOMAIN b = KernelFields
  BY <1>8, <1>14, <1>15, KeptButThen DEF Keeps
<1>17. (KeptBut(i, k, {t}) \/ KeptBut(i, k, {})) /\ DOMAIN i = KernelFields
  BY <1>3, <1>7, <1>9, <1>16
<1>18. Keeps(YieldIf(i, WokenByNotify(k, t)), i, {"pendsv"})
  BY <1>17 DEF YieldIf, portYIELD, Keeps, KernelFields
<1>19. \/ KeptBut(YieldIf(i, WokenByNotify(k, t)), k, {t})
       \/ KeptBut(YieldIf(i, WokenByNotify(k, t)), k, {})
  BY <1>8, <1>17, <1>18, KeptButThen
<1>20. QED
  BY <1>2, <1>5, <1>9, <1>11, <1>19

\* A task is taken out of every list.
LEMMA TakenOutKept ==
    ASSUME NEW k, Good(k), NEW t \in Task
    PROVE  LET r == TakenOut(k, t)
           IN  KeptBut(r, k, {t}) /\ Good(r) /\ DOMAIN r = KernelFields
<1> DEFINE r == TakenOut(k, t)
<1>1. OutOfLists(r, k, t)
  BY TakenOutIs
<1> HIDE DEF r
<1>2. /\ Keeps(r, k, OutFields) /\ Good(r) /\ Leaves(r, k, t)
      /\ r.wake = [k.wake EXCEPT ![t] = 0]
  BY <1>1 DEF OutOfLists
<1>3. r.tick = k.tick /\ r.unblock = k.unblock /\ DOMAIN r = KernelFields
  BY <1>2 DEF Keeps, KernelFields, OutFields, StateLists
<1>4. Sound(k)
  BY DEF Good
<1>5. Kept(r, k) /\ Late(r) = Late(k) \ {t}
  BY <1>2, <1>3, <1>4, LeavesKept
<1>6. QED
  BY <1>2, <1>3, <1>5 DEF KeptBut, r

LEMMA SuspendKept ==
    ASSUME NEW k, Good(k), NEW t \in Task
    PROVE  KeptBut(vTaskSuspend(k, t), k, {t})
<1> DEFINE r == TakenOut(k, t)
           j == vTaskSuspend(k, t)
<1>1. KeptBut(r, k, {t}) /\ DOMAIN r = KernelFields
  BY TakenOutKept
<1>2. j = [r EXCEPT !.suspended = Append(@, t),
                    !.notify[t] = IF @ = "waiting" THEN "not_waiting" ELSE @]
  BY DEF vTaskSuspend, TakenOut
<1> HIDE DEF r, j
<1>3. Keeps(j, r, {"suspended", "notify"}) /\ {"suspended", "notify"} \cap TimeFields = {}
  BY <1>1, <1>2 DEF Keeps, KernelFields, TimeFields
<1>4. QED
  BY <1>1, <1>3, KeptButThen DEF j

LEMMA DeleteKept ==
    ASSUME NEW k, Good(k), NEW t \in Task
    PROVE  KeptBut(vTaskDelete(k, t), k, {t})
<1> DEFINE r == TakenOut(k, t)
           a == [r EXCEPT !.termination = Append(@, t), !.cleanup = @ + 1]
           b == [r EXCEPT !.count = @ - 1]
           u == prvResetNextTaskUnblockTime(b)
<1>1. KeptBut(r, k, {t}) /\ Good(r) /\ DOMAIN r = KernelFields
  BY TakenOutKept
<1>2. vTaskDelete(k, t) = IF t = k.current THEN a ELSE u
  BY DEF vTaskDelete, TakenOut
<1> HIDE DEF r
<1>3. /\ Keeps(a, r, {"termination", "cleanup"})
      /\ {"termination", "cleanup"} \cap TimeFields = {}
  BY <1>1 DEF Keeps, KernelFields, TimeFields
<1>4. Keeps(b, r, {"count"}) /\ {"count"} \cap TimeFields = {}
  BY <1>1 DEF Keeps, KernelFields, TimeFields
<1> HIDE DEF a, b
<1>5. KeptBut(a, k, {t}) /\ KeptBut(b, k, {t})
  BY <1>1, <1>3, <1>4, KeptButThen
<1>6. Good(b)
  BY <1>1, <1>4, FlagsSame
<1>7. Kept(u, b) /\ Late(u) = Late(b)
  BY <1>6, ResetKept
<1> HIDE DEF u
<1>8. KeptBut(u, k, {t})
  <2>1. Kept(u, k)
    BY <1>5, <1>7, KeptBoth DEF KeptBut
  <2>2. QED
    BY <1>5, <1>7, <2>1 DEF KeptBut
<1>9. QED
  BY <1>2, <1>5, <1>8

LEMMA CleanUpKept ==
    ASSUME NEW k, Good(k), Len(k.termination) > 0
    PROVE  KeptBut(prvCheckTasksWaitingTermination(k), k, {})
<1> DEFINE t == Head(k.termination)
           r == RemoveStateItem(k, t)
           j == prvCheckTasksWaitingTermination(k)
<1>1. k.termination \in Seq(Task) /\ Sound(k)
  BY DEF Good, Sound, Shape, IsList
<1>2. t \in Task /\ t \in Elements(k.termination)
  <2>1. 1 \in DOMAIN k.termination /\ t = k.termination[1]
    BY <1>1
  <2>2. QED
    BY <1>1, <2>1 DEF Elements
<1>3. t \notin Late(k)
  BY <1>1, <1>2 DEF Sound, Apart, Late
<1>4. /\ Keeps(r, k, StateLists) /\ Leaves(r, k, t)
      /\ r.wake = [k.wake EXCEPT ![t] = 0]
  BY <1>1, <1>2, RemoveStateItemIs
<1>5. j = [r EXCEPT !.count = @ - 1, !.cleanup = @ - 1]
  BY DEF prvCheckTasksWaitingTermination
<1> HIDE DEF r, j
<1>6. r.tick = k.tick /\ r.unblock = k.unblock /\ DOMAIN r = KernelFields
  BY <1>4 DEF Keeps, KernelFields, StateLists
<1>7. Kept(r, k) /\ Late(r) = Late(k) \ {t}
  BY <1>1, <1>2, <1>4, <1>6, LeavesKept
<1>8. KeptBut(r, k, {})
  BY <1>3, <1>7 DEF KeptBut
<1>9. Keeps(j, r, {"count", "cleanup"}) /\ {"count", "cleanup"} \cap TimeFields = {}
  BY <1>5, <1>6 DEF Keeps, KernelFields, TimeFields
<1>10. QED
  BY <1>8, <1>9, KeptButThen DEF j

LEMMA PrioritySetKept ==
    ASSUME NEW k, Good(k), NEW t \in Task, NEW n \in Nat, k.base = k.priority,
           k.current \in Task
    PROVE  KeptBut(vTaskPrioritySet(k, t, n), k, {})
<1> DEFINE j == vTaskPrioritySet(k, t, n)
<1>1. /\ Keeps(j, k, PriorityFields)
      /\ j.delayed = k.delayed /\ j.overflow = k.overflow
      /\ \A u \in Task \ Ready(k) : j.wake[u] = k.wake[u]
  BY PrioritySetIs
<1> HIDE DEF j
<1>2. j.tick = k.tick /\ j.unblock = k.unblock
  BY <1>1 DEF Keeps, KernelFields, PriorityFields, StateLists
<1>3. \A u \in Late(k) : u \in Task \ Ready(k)
  BY LateTasks, ReadyIs DEF Good, Sound, Apart, Late
<1>4. \A u \in Late(k) : j.wake[u] = k.wake[u]
  BY <1>1, <1>3
<1>5. QED
  BY <1>1, <1>2, <1>4 DEF KeptBut, Kept, Late, Early, j

-----------------------------------------------------------------------------
(* The kernel that main starts *)

LEMMA PrioritiesNumbers == 0 \in Priority /\ Priority \subseteq Int
BY PrioritiesAssumption DEF Priority

\* A task that is ready is in the list of its priority.
LEMMA ReadyPlaced ==
    ASSUME NEW k0, NEW p \in Priority, NEW t \in ReadyAt(k0, p)
    PROVE  t \in Placed(k0)
BY DEF Placed

LEMMA PlacedIs ==
    ASSUME NEW k0, NEW t
    PROVE  t \in Placed(k0) <=> \/ \E p \in Priority : t \in ReadyAt(k0, p)
                                \/ t \in Late(k0)
                                \/ t \in Elements(k0.suspended)
                                \/ t \in Elements(k0.termination)
BY DEF Placed, Late

\* No task has taken a mutex or waits for event bits, and each would wait at its
\* own priority.
Unlent(j) ==
    /\ j.mutexes = [t \in Task |-> 0] /\ j.bits = [t \in Task |-> NoBits]
    /\ \A t \in Task : j.event[t] = MaxPriorities - j.priority[t]

\* The tasks of S have been created, and the scheduler does not run yet.
Booting(j, S) ==
    /\ Good(j) /\ NoEvents(j)
    /\ Placed(j) = S /\ S \subseteq Task /\ IsFiniteSet(S) /\ j.count = Cardinality(S)
    /\ Late(j) = {} /\ j.base = j.priority /\ j.event \in [Task -> 1 .. MaxPriorities]
    /\ DOMAIN j.notify = Task /\ j.value \in [Task -> Nat]
    /\ Elements(j.pending) = {} /\ Elements(j.termination) = {} /\ Len(j.termination) = 0
    /\ j.tick = 0 /\ j.pended = 0 /\ j.suspensions = 0 /\ j.cleanup = 0
    /\ j.pendsv = FALSE /\ j.running = FALSE
    /\ (j.current = NoTask /\ S = {}) \/ OnTop(j)
    /\ Unlent(j)

LEMMA EmptyIs ==
    Booting(EmptyKernel, {})
<1> DEFINE j == EmptyKernel
<1>1. /\ DOMAIN j = KernelFields /\ DOMAIN j.ready = Priority
      /\ \A p \in Priority : j.ready[p] = EmptyList
      /\ j.top = {} /\ j.current = NoTask
      /\ j.delayed = << >> /\ j.overflow = << >> /\ j.pending = << >>
      /\ j.suspended = << >> /\ j.termination = << >>
  BY DEF EmptyKernel, KernelFields
<1>2. /\ DOMAIN j.events = EventLists /\ \A e \in EventLists : j.events[e] = << >>
      /\ j.tick = 0 /\ j.pended = 0 /\ j.suspensions = 0 /\ j.cleanup = 0
      /\ j.pendsv = FALSE /\ j.running = FALSE /\ j.count = 0
  BY DEF EmptyKernel
<1>3. /\ j.wake = [t \in Task |-> 0] /\ j.priority = [t \in Task |-> 0]
      /\ j.base = [t \in Task |-> 0] /\ DOMAIN j.notify = Task /\ j.value \in [Task -> Nat]
      /\ j.event = [t \in Task |-> MaxPriorities]
      /\ j.mutexes = [t \in Task |-> 0] /\ j.bits = [t \in Task |-> NoBits]
  BY DEF EmptyKernel
<1> HIDE DEF j
<1>4. /\ << >> \in Seq(Task) /\ Len(<< >>) = 0 /\ DOMAIN << >> = {}
  OBVIOUS
<1>5. IsList(<< >>, Task) /\ Elements(<< >>) = {} /\ \A w : Sorted(<< >>, w)
  BY <1>4 DEF IsList, Once, Elements, Sorted
<1>6. IsReadyList(EmptyList, Task) /\ EmptyList.items = << >>
  <2>1. /\ DOMAIN EmptyList = {"items", "index"} /\ EmptyList.items = << >>
        /\ EmptyList.index = 0
    BY DEF EmptyList
  <2>2. 0 \in 0 .. Len(<< >>)
    BY <1>4
  <2>3. QED
    BY <1>5, <2>1, <2>2 DEF IsReadyList
<1>7. \A p \in Priority : ReadyAt(j, p) = {} /\ IsReadyList(j.ready[p], Task)
  BY <1>1, <1>5, <1>6 DEF ReadyAt
<1>8. j.wake \in [Task -> Int] /\ j.priority \in [Task -> Priority] /\ j.base = j.priority
  BY <1>3, PrioritiesNumbers
<1>9. Shape(j)
  BY <1>1, <1>2, <1>5, <1>7, <1>8 DEF Shape
<1>10. Apart(j)
  BY <1>1, <1>5, <1>7 DEF Apart
<1>11. Good(j)
  BY <1>1, <1>7, <1>9, <1>10 DEF Good, Sound, ByPriority, TopRight
<1>12. NoEvents(j) /\ Elements(j.pending) = {} /\ Elements(j.termination) = {}
       /\ Len(j.termination) = 0
  BY <1>1, <1>2, <1>4, <1>5 DEF NoEvents
<1>12a. j.event \in [Task -> 1 .. MaxPriorities]
  BY <1>3, PrioritiesAssumption
<1>12b. Unlent(j)
  BY <1>3, PrioritiesAssumption DEF Unlent
<1>13. Placed(j) = {} /\ Late(j) = {}
  BY <1>1, <1>5, <1>7 DEF Placed, Late
<1>14. IsFiniteSet({}) /\ Cardinality({}) = 0
  BY FS_EmptySet
<1>15. Booting(j, {})
  BY <1>1, <1>2, <1>3, <1>8, <1>11, <1>12, <1>13, <1>14, <1>12a, <1>12b
     DEF Booting
<1>16. QED
  BY <1>15 DEF j

\* A new task has the processor if no other is before it.
LEMMA CreateOnTop ==
    ASSUME NEW k0, NEW S, Booting(k0, S), NEW u \in Task, u \notin S, NEW j,
           NEW q \in Priority, CreatedBy(j, k0, u, q)
    PROVE  OnTop(j)
<1>1. /\ Good(j) /\ Good(k0) /\ k0.priority \in [Task -> Priority]
      /\ j.priority = [k0.priority EXCEPT ![u] = q]
      /\ \A x \in Priority : ReadyAt(j, x) = ReadyAt(k0, x) \cup (IF x = q THEN {u} ELSE {})
      /\ j.current = IF ComesFirst(k0, u, q) THEN u ELSE k0.current
      /\ k0.running = FALSE /\ Placed(k0) = S
  BY DEF CreatedBy, Booting, Good, Sound, Shape
<1>2. \A x \in Priority : \A y \in ReadyAt(k0, x) : y \in S
  BY <1>1, ReadyPlaced
<1>3. j.priority[u] = q /\ \A x \in Task \ {u} : j.priority[x] = k0.priority[x]
  BY <1>1
<1>4. CASE ComesFirst(k0, u, q)
  <2>1. j.current = u /\ CurrentIsReady(j)
    BY <1>1, <1>3, <1>4 DEF CurrentIsReady
  <2>2. ASSUME NEW x \in Priority, ReadyAt(j, x) # {} PROVE x <= q
    <3>1. CASE x = q
      BY <3>1, PrioritiesNumbers
    <3>2. CASE x # q
      <4>1. ReadyAt(k0, x) # {}
        BY <1>1, <2>2, <3>2
      <4>2. S # {}
        BY <1>2, <4>1
      <4>3. OnTop(k0)
        BY <4>2 DEF Booting
      <4>4. k0.current \in Task /\ x <= k0.priority[k0.current]
        BY <1>1, <4>1, <4>3, OnTopIs DEF CurrentIsReady
      <4>5. k0.current # NoTask
        BY <4>4, NoTaskAssumption
      <4>6. k0.priority[k0.current] <= q
        BY <1>4, <4>5 DEF ComesFirst
      <4>7. k0.priority[k0.current] \in Int /\ x \in Int /\ q \in Int
        BY <1>1, <4>4, PrioritiesNumbers
      <4>8. QED
        BY <4>4, <4>6, <4>7
    <3>3. QED
      BY <3>1, <3>2
  <2>3. QED
    BY <1>1, <1>3, <2>1, <2>2, OnTopIs
<1>5. CASE ~ComesFirst(k0, u, q)
  <2> DEFINE c == k0.current
  <2>1. c # NoTask /\ ~(k0.priority[c] <= q) /\ j.current = c
    BY <1>1, <1>5 DEF ComesFirst
  <2>2. OnTop(k0)
    BY <2>1 DEF Booting
  <2>3. /\ c \in Task /\ c \in ReadyAt(k0, k0.priority[c])
        /\ \A x \in Priority : ReadyAt(k0, x) # {} => x <= k0.priority[c]
    BY <1>1, <2>2, OnTopIs DEF CurrentIsReady
  <2>4. k0.priority[c] \in Priority
    BY <1>1, <2>3
  <2>5. c # u /\ j.priority[c] = k0.priority[c]
    BY <1>2, <1>3, <2>3, <2>4
  <2>6. CurrentIsReady(j)
    BY <1>1, <2>1, <2>3, <2>4, <2>5 DEF CurrentIsReady
  <2>7. q <= k0.priority[c]
    <3>1. q \in Int /\ k0.priority[c] \in Int
      BY <2>4, PrioritiesNumbers
    <3> HIDE DEF c
    <3>2. QED
      BY <2>1, <3>1
  <2>8. ASSUME NEW x \in Priority, ReadyAt(j, x) # {} PROVE x <= k0.priority[c]
    <3>1. CASE x = q
      BY <2>7, <3>1
    <3>2. CASE x # q
      <4>1. ReadyAt(k0, x) # {}
        BY <1>1, <2>8, <3>2
      <4>2. QED
        BY <2>3, <4>1
    <3>3. QED
      BY <3>1, <3>2
  <2>9. QED
    BY <1>1, <2>1, <2>5, <2>6, <2>8, OnTopIs
<1>6. QED
  BY <1>4, <1>5

LEMMA BootStep ==
    ASSUME NEW k0, NEW S, Booting(k0, S), NEW u \in Task, u \notin S, NEW p \in Nat
    PROVE  /\ Booting(xTaskCreate(k0, <<u, p>>), S \cup {u})
           /\ u \in ReadyAt(xTaskCreate(k0, <<u, p>>), Clamped(p))
<1> DEFINE j == xTaskCreate(k0, <<u, p>>)
           q == Clamped(p)
<1>1. /\ Good(k0) /\ NoEvents(k0) /\ Placed(k0) = S /\ S \subseteq Task
      /\ k0.base = k0.priority /\ k0.priority \in [Task -> Priority]
      /\ DOMAIN k0.notify = Task /\ k0.value \in [Task -> Nat]
      /\ k0.count = Cardinality(S) /\ IsFiniteSet(S)
  BY DEF Booting, Good, Sound, Shape
<1>2. k0.current \in (Task \ {u}) \cup {NoTask}
  <2>1. CASE OnTop(k0)
    <3>1. k0.current \in Task /\ k0.current \in ReadyAt(k0, k0.priority[k0.current])
      BY <2>1 DEF OnTop, CurrentIsReady
    <3>2. k0.current \in S
      BY <1>1, <3>1, ReadyPlaced
    <3>3. QED
      BY <3>1, <3>2
  <2>2. QED
    BY <2>1 DEF Booting
<1>3. CreatedBy(j, k0, u, q)
  <2>1. Nowhere(k0, u) /\ DOMAIN k0.base = Task
    BY <1>1 DEF Nowhere
  <2>2. QED
    BY <1>1, <1>2, <2>1, CreateIs
<1>4. q \in Priority
  BY ClampedIs
<1> HIDE DEF j, q
<1>4a. j.event \in [Task -> 1 .. MaxPriorities]
  <2>1. MaxPriorities - q \in 1 .. MaxPriorities
    BY <1>4, PrioritiesAssumption DEF Priority
  <2>2. j.event = [k0.event EXCEPT ![u] = MaxPriorities - q]
    BY <1>3 DEF CreatedBy
  <2>3. QED
    BY <2>1, <2>2 DEF Booting
<1>4b. Unlent(j)
  <2>1. Unlent(k0) /\ DOMAIN k0.event = Task
    BY DEF Booting
  <2>2. /\ j.mutexes = [k0.mutexes EXCEPT ![u] = 0] /\ j.bits = [k0.bits EXCEPT ![u] = NoBits]
        /\ j.event = [k0.event EXCEPT ![u] = MaxPriorities - q]
        /\ j.priority = [k0.priority EXCEPT ![u] = q]
    BY <1>3 DEF CreatedBy
  <2>3. j.mutexes = [t \in Task |-> 0] /\ j.bits = [t \in Task |-> NoBits]
    BY <2>1, <2>2 DEF Unlent
  <2>4. \A t \in Task : j.event[t] = MaxPriorities - j.priority[t]
    BY <1>1, <2>1, <2>2 DEF Unlent
  <2>5. QED
    BY <2>3, <2>4 DEF Unlent
<1>5. OnTop(j)
  BY <1>3, <1>4, CreateOnTop
<1>6. /\ Good(j)
      /\ \A x \in Priority : ReadyAt(j, x) = ReadyAt(k0, x) \cup (IF x = q THEN {u} ELSE {})
      /\ j.base = j.priority /\ j.count = k0.count + 1
      /\ DOMAIN j.notify = Task /\ j.value \in [Task -> Nat]
  BY <1>1, <1>3 DEF CreatedBy
<1>7. Keeps(j, k0, CreateFields)
  BY <1>3 DEF CreatedBy
<1>8. /\ j.delayed = k0.delayed /\ j.overflow = k0.overflow /\ j.suspended = k0.suspended
      /\ j.termination = k0.termination /\ j.pending = k0.pending
      /\ j.events = k0.events /\ j.tick = k0.tick /\ j.pended = k0.pended
      /\ j.suspensions = k0.suspensions /\ j.cleanup = k0.cleanup
      /\ j.pendsv = k0.pendsv /\ j.running = k0.running
  BY <1>7 DEF Keeps, KernelFields, CreateFields, NewFields
<1>8a. Late(j) = Late(k0)
  BY <1>8 DEF Late
<1>9. Placed(j) = S \cup {u}
  <2>1. ASSUME NEW x PROVE x \in Placed(j) <=> x \in Placed(k0) \/ x = u
    <3>1. (\E y \in Priority : x \in ReadyAt(j, y))
             <=> (\E y \in Priority : x \in ReadyAt(k0, y)) \/ x = u
      BY <1>4, <1>6
    <3>2. QED
      BY <1>8, <1>8a, <3>1, PlacedIs
  <2>2. QED
    BY <1>1, <2>1
<1>10. /\ IsFiniteSet(S \cup {u})
       /\ Cardinality(S \cup {u}) = IF u \in S THEN Cardinality(S) ELSE Cardinality(S) + 1
  BY <1>1, FS_AddElement
<1>11. NoEvents(j)
  BY <1>1, <1>8 DEF NoEvents
<1>12. u \in ReadyAt(j, q)
  BY <1>4, <1>6
<1>13. Booting(j, S \cup {u})
  <2>1. j.count = Cardinality(S \cup {u})
    BY <1>1, <1>6, <1>10
  <2>2. S \cup {u} \subseteq Task
    BY <1>1
  <2>3. QED
    BY <1>4a, <1>4b, <1>5, <1>6, <1>8, <1>9, <1>10, <1>11, <1>8a, <2>1, <2>2 DEF Booting
<1>14. QED
  BY <1>12, <1>13 DEF j, q

\* The first n of the tasks that main creates.
CreatedFirst(first, n) == {first[i][1] : i \in 1 .. n}

LEMMA BootTasks ==
    ASSUME NEW first, first \in Seq(Task \X Priority),
           \A i, j \in DOMAIN first : first[i][1] = first[j][1] => i = j
    PROVE  Booting(FoldLeft(xTaskCreate, EmptyKernel, first), CreatedFirst(first, Len(first)))
<1>1. /\ first \in Seq(Task \X Priority)
      /\ \A i, j \in DOMAIN first : first[i][1] = first[j][1] => i = j
  OBVIOUS
<1>2. Len(first) \in Nat /\ DOMAIN first = 1 .. Len(first)
  BY <1>1
<1>3. \A i \in 1 .. Len(first) : first[i] \in Task \X Priority
  BY <1>1
<1>4. PICK h : /\ Run("create", h, EmptyKernel, first)
               /\ FoldLeft(xTaskCreate, EmptyKernel, first) = h[Len(first)]
  BY <1>2, CreateRun
<1> DEFINE B == {n \in Nat : n <= Len(first) => Booting(h[n], CreatedFirst(first, n))}
<1>5. 0 \in B
  <2>1. CreatedFirst(first, 0) = {}
    BY DEF CreatedFirst
  <2>2. h[0] = EmptyKernel
    BY <1>4 DEF Run
  <2>3. QED
    BY <2>1, <2>2, EmptyIs
<1>6. ASSUME NEW n \in Nat, n \in B PROVE n + 1 \in B
  <2> SUFFICES ASSUME n + 1 <= Len(first) PROVE Booting(h[n + 1], CreatedFirst(first, n + 1))
    OBVIOUS
  <2> DEFINE u == first[n + 1][1]
             p == first[n + 1][2]
  <2>1. n + 1 \in 1 .. Len(first) /\ n <= Len(first) /\ (n + 1) - 1 = n
    BY <1>2
  <2>2. Booting(h[n], CreatedFirst(first, n))
    BY <1>6, <2>1
  <2>3. u \in Task /\ p \in Priority /\ first[n + 1] = <<u, p>>
    BY <1>3, <2>1
  <2>4. p \in Nat
    BY <2>3, PrioritiesAssumption DEF Priority
  <2>5. h[n + 1] = xTaskCreate(h[n], first[n + 1])
    BY <1>4, <2>1 DEF Run, Step
  <2>6. u \notin CreatedFirst(first, n)
    <3>1. ASSUME NEW i \in 1 .. n PROVE first[i][1] # u
      <4>1. i \in DOMAIN first /\ n + 1 \in DOMAIN first /\ i # n + 1
        BY <1>2, <2>1
      <4>2. QED
        BY <1>1, <4>1
    <3>2. QED
      BY <3>1 DEF CreatedFirst
  <2>7. CreatedFirst(first, n + 1) = CreatedFirst(first, n) \cup {u}
    <3>1. 1 .. (n + 1) = (1 .. n) \cup {n + 1}
      OBVIOUS
    <3>2. QED
      BY <3>1 DEF CreatedFirst
  <2> HIDE DEF u, p
  <2>8. Booting(xTaskCreate(h[n], <<u, p>>), CreatedFirst(first, n) \cup {u})
    BY <2>2, <2>3, <2>4, <2>6, BootStep
  <2>9. QED
    BY <2>3, <2>5, <2>7, <2>8
<1> HIDE DEF B
<1>7. Nat \subseteq B
  BY <1>5, <1>6, NatInduct
<1>8. Booting(h[Len(first)], CreatedFirst(first, Len(first)))
  BY <1>2, <1>7 DEF B
<1>9. QED
  BY <1>4, <1>8

=============================================================================
