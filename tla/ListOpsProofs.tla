---------------------------- MODULE ListOpsProofs ----------------------------
(***************************************************************************)
(* What the list operations return: the facts the proofs about the kernel  *)
(* rest on, each for lists of every length.  The last part is about what   *)
(* goes through a list from its head to its end: Induction is stated for a *)
(* function P, which the provers can instantiate.                          *)
(***************************************************************************)
EXTENDS ListOps, FiniteSetTheorems, SequenceTheorems, WellFoundedInduction, TLAPS

\* ToSet of a sequence, by index.
LEMMA ToSetSeq ==
    ASSUME NEW S, NEW l \in Seq(S)
    PROVE  /\ Len(l) \in Nat
           /\ DOMAIN l = 1 .. Len(l)
           /\ ToSet(l) \subseteq S
           /\ \A x : x \in ToSet(l) <=> \E i \in 1 .. Len(l) : l[i] = x
           /\ l # <<>> <=> Len(l) > 0
           /\ l = <<>> <=> ToSet(l) = {}
  <1>1. Len(l) \in Nat /\ DOMAIN l = 1 .. Len(l) /\ l \in [1 .. Len(l) -> S]
    BY LenProperties
  <1>2. ToSet(l) = {l[i] : i \in 1 .. Len(l)}
    BY <1>1 DEF ToSet
  <1>3. l = <<>> <=> Len(l) = 0
    BY EmptySeq, <1>1
  <1>4. ToSet(l) \subseteq S
    BY <1>1, <1>2
  <1>5. \A x : x \in ToSet(l) <=> \E i \in 1 .. Len(l) : l[i] = x
    BY <1>2
  <1>6. Len(l) > 0 => l[1] \in ToSet(l)
    BY <1>1, <1>2
  <1>7. Len(l) = 0 => ToSet(l) = {}
    BY <1>1, <1>2
  <1>8. l = <<>> <=> ToSet(l) = {}
    BY <1>1, <1>3, <1>6, <1>7
  <1> QED BY <1>1, <1>3, <1>4, <1>5, <1>8

\* Inserting an element shifts the tail by one place.
LEMMA InsertAtIndices ==
    ASSUME NEW S, NEW l \in Seq(S), NEW k \in 1 .. Len(l) + 1, NEW x \in S
    PROVE  /\ InsertAt(l, k, x) \in Seq(S)
           /\ Len(InsertAt(l, k, x)) = Len(l) + 1
           /\ \A i \in 1 .. Len(l) + 1 :
                InsertAt(l, k, x)[i] = IF i < k THEN l[i] ELSE IF i = k THEN x ELSE l[i - 1]
  <1> DEFINE a == SubSeq(l, 1, k - 1)
             b == SubSeq(l, k, Len(l))
  <1>1. /\ a \in Seq(S) /\ Len(a) = k - 1
        /\ \A i \in 1 .. k - 1 : a[i] = l[i]
    <2>1. \A i \in 1 .. k - 1 : l[i] \in S
      BY ElementOfSeq, LenProperties
    <2>2. k - 1 \in Int /\ 1 \in Int
      BY LenProperties
    <2> QED BY <2>1, <2>2, SubSeqProperties, LenProperties
  <1>2. /\ b \in Seq(S) /\ Len(b) = Len(l) - k + 1
        /\ \A i \in 1 .. Len(l) - k + 1 : b[i] = l[k + i - 1]
    <2>1. \A i \in k .. Len(l) : l[i] \in S
      BY ElementOfSeq, LenProperties
    <2>2. k \in Int /\ Len(l) \in Int
      BY LenProperties
    <2> QED BY <2>1, <2>2, SubSeqProperties, LenProperties
  <1>3. <<x>> \in Seq(S) /\ Len(<<x>>) = 1 /\ <<x>>[1] = x
    OBVIOUS
  <1> DEFINE c == a \o <<x>>
  <1>4. /\ c \in Seq(S) /\ Len(c) = k
        /\ \A i \in 1 .. k : c[i] = IF i < k THEN l[i] ELSE x
    <2> HIDE DEF a
    <2>1. /\ c \in Seq(S)
          /\ Len(c) = Len(a) + 1
          /\ \A i \in 1 .. Len(a) + 1 : c[i] = IF i <= Len(a) THEN a[i] ELSE <<x>>[i - Len(a)]
      BY <1>1, <1>3, ConcatProperties
    <2> QED BY <1>1, <1>3, <2>1, LenProperties
  <1>5. /\ c \o b \in Seq(S) /\ Len(c \o b) = Len(l) + 1
        /\ \A i \in 1 .. Len(l) + 1 : (c \o b)[i] = IF i <= k THEN c[i] ELSE b[i - k]
    <2> HIDE DEF a, b, c
    <2>1. /\ c \o b \in Seq(S)
          /\ Len(c \o b) = Len(c) + Len(b)
          /\ \A i \in 1 .. Len(c) + Len(b) : (c \o b)[i] = IF i <= Len(c) THEN c[i] ELSE b[i - Len(c)]
      BY <1>2, <1>4, ConcatProperties
    <2>2. Len(c) = k /\ Len(c) + Len(b) = Len(l) + 1
      BY <1>2, <1>4, LenProperties
    <2> QED BY <2>1, <2>2
  <1>6. InsertAt(l, k, x) = c \o b
    BY DEF InsertAt
  <1> HIDE DEF a, b, c
  <1> QED BY <1>2, <1>4, <1>5, <1>6, LenProperties

\* Removing an element shifts the tail back.
LEMMA RemoveAtIndices ==
    ASSUME NEW S, NEW l \in Seq(S), NEW k \in 1 .. Len(l)
    PROVE  /\ RemoveAt(l, k) \in Seq(S)
           /\ Len(RemoveAt(l, k)) = Len(l) - 1
           /\ \A i \in 1 .. Len(l) - 1 :
                RemoveAt(l, k)[i] = IF i < k THEN l[i] ELSE l[i + 1]
  <1> DEFINE a == SubSeq(l, 1, k - 1)
             b == SubSeq(l, k + 1, Len(l))
  <1>1. /\ a \in Seq(S) /\ Len(a) = k - 1
        /\ \A i \in 1 .. k - 1 : a[i] = l[i]
    <2>1. \A i \in 1 .. k - 1 : l[i] \in S
      BY ElementOfSeq, LenProperties
    <2>2. k - 1 \in Int /\ 1 \in Int
      BY LenProperties
    <2> QED BY <2>1, <2>2, SubSeqProperties, LenProperties
  <1>2. /\ b \in Seq(S) /\ Len(b) = Len(l) - k
        /\ \A i \in 1 .. Len(l) - k : b[i] = l[k + i]
    <2>1. \A i \in k + 1 .. Len(l) : l[i] \in S
      BY ElementOfSeq, LenProperties
    <2>2. k + 1 \in Int /\ Len(l) \in Int
      BY LenProperties
    <2> QED BY <2>1, <2>2, SubSeqProperties, LenProperties
  <1>3. /\ a \o b \in Seq(S) /\ Len(a \o b) = Len(l) - 1
        /\ \A i \in 1 .. Len(l) - 1 : (a \o b)[i] = IF i <= k - 1 THEN a[i] ELSE b[i - (k - 1)]
    <2> HIDE DEF a, b
    <2>1. /\ a \o b \in Seq(S)
          /\ Len(a \o b) = Len(a) + Len(b)
          /\ \A i \in 1 .. Len(a) + Len(b) : (a \o b)[i] = IF i <= Len(a) THEN a[i] ELSE b[i - Len(a)]
      BY <1>1, <1>2, ConcatProperties
    <2>2. Len(a) = k - 1 /\ Len(a) + Len(b) = Len(l) - 1
      BY <1>1, <1>2, LenProperties
    <2> QED BY <2>1, <2>2
  <1>4. RemoveAt(l, k) = a \o b
    BY DEF RemoveAt
  <1> HIDE DEF a, b
  <1>5. ASSUME NEW i \in 1 .. Len(l) - 1
        PROVE  (a \o b)[i] = IF i < k THEN l[i] ELSE l[i + 1]
    <2>1. i \in Int /\ k \in Int /\ Len(l) \in Nat
      BY LenProperties
    <2>2. i < k => (a \o b)[i] = l[i]
      BY <1>1, <1>3, <2>1
    <2>3. i >= k => (a \o b)[i] = l[i + 1]
      <3> SUFFICES ASSUME i >= k PROVE (a \o b)[i] = l[i + 1]
        OBVIOUS
      <3>1. i - (k - 1) \in 1 .. Len(l) - k /\ k + (i - (k - 1)) = i + 1
        BY <2>1
      <3>2. (a \o b)[i] = b[i - (k - 1)]
        BY <1>3, <2>1
      <3> QED BY <1>2, <3>1, <3>2
    <2> DEFINE x == (a \o b)[i]
    <2>4. (i < k => x = l[i]) /\ (i >= k => x = l[i + 1])
      BY <2>2, <2>3
    <2> HIDE DEF x
    <2>5. x = IF i < k THEN l[i] ELSE l[i + 1]
      BY <2>1, <2>4
    <2> QED BY <2>5 DEF x
  <1> QED BY <1>3, <1>4, <1>5

\* vListInsert adds exactly the new item and keeps the list free of
\* duplicates and sorted.
LEMMA ListInsertProperties ==
    ASSUME NEW S, NEW l \in Seq(S), NEW t \in S, NEW value \in [S -> Int],
           t \notin ToSet(l), NoDuplicates(l)
    PROVE  /\ ListInsert(l, value, t) \in Seq(S)
           /\ NoDuplicates(ListInsert(l, value, t))
           /\ ToSet(ListInsert(l, value, t)) = ToSet(l) \cup {t}
           /\ Ascending(l, value) => Ascending(ListInsert(l, value, t), value)
  <1> DEFINE n == Len(l)
             ahead == {i \in 1 .. n : \A j \in 1 .. i : value[l[j]] <= value[t]}
             k == Cardinality(ahead) + 1
             r == InsertAt(l, k, t)
  <1>1. n \in Nat /\ DOMAIN l = 1 .. n /\ \A i \in 1 .. n : l[i] \in S /\ l[i] # t
    BY ToSetSeq, ElementOfSeq
  <1>2. IsFiniteSet(1 .. n) /\ Cardinality(1 .. n) = n
    BY <1>1, FS_Interval
  <1>3. IsFiniteSet(ahead) /\ Cardinality(ahead) \in Nat /\ Cardinality(ahead) <= n
    BY <1>2, FS_Subset, FS_CardinalityType
  <1>4. k \in 1 .. n + 1
    BY <1>1, <1>3
  <1>5. ListInsert(l, value, t) = r
    BY <1>1 DEF ListInsert
  <1>6. /\ r \in Seq(S)
        /\ Len(r) = n + 1
        /\ \A i \in 1 .. n + 1 : r[i] = IF i < k THEN l[i] ELSE IF i = k THEN t ELSE l[i - 1]
    <2> HIDE DEF k
    <2> QED BY <1>4, InsertAtIndices
  <1>7. DOMAIN r = 1 .. n + 1
    BY <1>6, LenProperties
  <1> DEFINE from(i) == IF i < k THEN i ELSE i - 1
  <1> HIDE DEF r
  <1>8. \A i \in 1 .. n + 1 : i # k => from(i) \in 1 .. n /\ r[i] = l[from(i)]
    <2> HIDE DEF k
    <2> QED BY <1>1, <1>4, <1>6
  <1>9. r[k] = t
    <2> HIDE DEF k
    <2> QED BY <1>4, <1>6
  <1>10. NoDuplicates(r)
    <2> SUFFICES ASSUME NEW i \in 1 .. n + 1, NEW j \in 1 .. n + 1, i # j
                 PROVE  r[i] # r[j]
      BY <1>7 DEF NoDuplicates
    <2>1. CASE i # k /\ j # k
      <3>1. from(i) # from(j)
        <4> HIDE DEF k
        <4> QED BY <1>1, <1>4, <2>1
      <3> HIDE DEF from, k
      <3> QED BY <1>1, <1>8, <2>1, <3>1 DEF NoDuplicates
    <2>2. CASE i = k \/ j = k
      <3> HIDE DEF from, k
      <3> QED BY <1>1, <1>8, <1>9, <2>2
    <2> QED BY <2>1, <2>2
  <1>11. ToSet(r) = ToSet(l) \cup {t}
    <2>1. \A x : x \in ToSet(r) <=> \E i \in 1 .. n + 1 : r[i] = x
      BY <1>6, ToSetSeq
    <2>2. \A x : x \in ToSet(l) <=> \E i \in 1 .. n : l[i] = x
      BY ToSetSeq
    <2>3. \A i \in 1 .. n : \E j \in 1 .. n + 1 : r[j] = l[i]
      <3> TAKE i \in 1 .. n
      <3> HIDE DEF k
      <3>1. CASE i < k
        <4>1. i \in 1 .. n + 1 /\ r[i] = l[i]
          BY <1>1, <1>4, <1>6, <3>1
        <4> QED BY <4>1
      <3>2. CASE i >= k
        <4>1. i + 1 \in 1 .. n + 1 /\ r[i + 1] = l[i]
          BY <1>1, <1>4, <1>6, <3>2
        <4> QED BY <4>1
      <3> QED BY <1>1, <1>4, <3>1, <3>2
    <2> HIDE DEF from, k
    <2>4. \A x : x \in ToSet(r) => x \in ToSet(l) \cup {t}
      BY <2>1, <2>2, <1>8, <1>9
    <2>5. \A x : x \in ToSet(l) \cup {t} => x \in ToSet(r)
      BY <2>1, <2>2, <2>3, <1>4, <1>9
    <2> QED BY <2>4, <2>5
  <1>12. ASSUME Ascending(l, value) PROVE Ascending(r, value)
    <2>1. \A i \in ahead : i < k
      <3> SUFFICES ASSUME NEW i \in ahead, i >= k PROVE FALSE
        BY <1>1, <1>4
      <3>1. \A j \in 1 .. i : j \in ahead
        BY <1>1
      <3>2. (1 .. i) \in SUBSET ahead /\ i \in Nat
        BY <3>1
      <3>3. Cardinality(1 .. i) = i /\ Cardinality(1 .. i) <= Cardinality(ahead)
        <4> HIDE DEF ahead
        <4>1. Cardinality(1 .. i) <= Cardinality(ahead)
          BY <1>3, <3>2, FS_Subset
        <4>2. 1 \in Int /\ i \in Int /\ i >= 1
          BY <1>1, <1>4 DEF ahead
        <4>3. Cardinality(1 .. i) = IF 1 > i THEN 0 ELSE i - 1 + 1
          BY <4>2, FS_Interval
        <4> QED BY <4>1, <4>2, <4>3
      <3> QED BY <1>3, <3>2, <3>3
    <2>2. ahead = 1 .. k - 1
      <3>1. IsFiniteSet(1 .. k - 1) /\ Cardinality(1 .. k - 1) = k - 1
        <4> HIDE DEF k
        <4>1. 1 \in Int /\ k - 1 \in Int /\ k - 1 >= 0
          BY <1>1, <1>4
        <4>2. /\ IsFiniteSet(1 .. k - 1)
              /\ Cardinality(1 .. k - 1) = IF 1 > k - 1 THEN 0 ELSE k - 1 - 1 + 1
          BY <4>1, FS_Interval
        <4> QED BY <4>1, <4>2
      <3>2. ahead \in SUBSET (1 .. k - 1)
        <4> HIDE DEF k
        <4>1. \A i \in ahead : i \in Int /\ 1 <= i
          BY <1>1
        <4> HIDE DEF ahead
        <4> QED BY <1>1, <1>4, <2>1, <4>1
      <3>3. Cardinality(ahead) = k - 1
        BY <1>3
      <3> HIDE DEF ahead, k
      <3> QED BY <3>1, <3>2, <3>3, FS_Subset
    <2>3. \A i \in 1 .. n : value[l[i]] \in Int /\ value[t] \in Int
      BY <1>1
    <2>4. \A i \in 1 .. n : IF i < k THEN value[l[i]] <= value[t] ELSE value[l[i]] > value[t]
      <3> SUFFICES ASSUME NEW i \in 1 .. n
                   PROVE IF i < k THEN value[l[i]] <= value[t] ELSE value[l[i]] > value[t]
        OBVIOUS
      <3>1. i < k <=> i \in ahead
        <4> HIDE DEF ahead
        <4> QED BY <1>4, <2>2
      <3>2. i \in ahead <=> value[l[i]] <= value[t]
        <4>1. ASSUME NEW j \in 1 .. i
              PROVE  value[l[j]] \in Int /\ value[l[j]] <= value[l[i]]
          <5>1. j \in 1 .. n /\ value[l[j]] \in Int /\ value[l[i]] \in Int
            BY <1>1, <2>3
          <5>2. j < i => value[l[j]] <= value[l[i]]
            BY <1>1, <1>12, <5>1 DEF Ascending
          <5>3. j = i => value[l[j]] <= value[l[i]]
            BY <5>1
          <5> QED BY <1>1, <5>1, <5>2, <5>3
        <4> QED BY <2>3, <4>1
      <3> HIDE DEF k, ahead
      <3> QED BY <2>3, <3>1, <3>2
    <2> SUFFICES ASSUME NEW i \in 1 .. n + 1, NEW j \in 1 .. n + 1, i < j
                 PROVE  value[r[i]] <= value[r[j]]
      BY <1>7 DEF Ascending
    <2>5. CASE i # k /\ j # k
      <3>1. from(i) < from(j)
        <4> HIDE DEF k
        <4> QED BY <1>1, <1>4, <2>5
      <3> HIDE DEF from, k
      <3> QED BY <1>1, <1>8, <1>12, <2>5, <3>1 DEF Ascending
    <2>6. CASE i = k
      <3>1. from(j) >= k
        <4> HIDE DEF k
        <4> QED BY <1>1, <1>4, <2>6
      <3>2. from(j) \in 1 .. n /\ r[j] = l[from(j)] /\ r[i] = t
        <4>1. j # k
          BY <2>6
        <4> HIDE DEF from, k
        <4> QED BY <1>8, <1>9, <2>6, <4>1
      <3> HIDE DEF from, k
      <3> QED BY <1>1, <1>4, <2>3, <2>4, <3>1, <3>2
    <2>7. CASE j = k
      <3>1. from(i) < k
        <4> HIDE DEF k
        <4> QED BY <1>1, <1>4, <2>7
      <3>2. from(i) \in 1 .. n /\ r[i] = l[from(i)] /\ r[j] = t
        BY <1>8, <1>9, <2>7
      <3> HIDE DEF from, k
      <3> QED BY <1>1, <1>4, <2>3, <2>4, <3>1, <3>2
    <2> QED BY <2>5, <2>6, <2>7
  <1> QED BY <1>5, <1>6, <1>10, <1>11, <1>12

\* uxListRemove takes out exactly the item and keeps the order of the others.
LEMMA ListRemoveProperties ==
    ASSUME NEW S, NEW l \in Seq(S), NEW t, NEW value \in [S -> Int], NoDuplicates(l)
    PROVE  /\ ListRemove(l, t) \in Seq(S)
           /\ NoDuplicates(ListRemove(l, t))
           /\ ToSet(ListRemove(l, t)) = ToSet(l) \ {t}
           /\ Ascending(l, value) => Ascending(ListRemove(l, t), value)
  <1>1. CASE t \notin ToSet(l)
    BY <1>1 DEF ListRemove
  <1>2. CASE t \in ToSet(l)
    <2> DEFINE n == Len(l)
               k == CHOOSE i \in DOMAIN l : l[i] = t
               r == RemoveAt(l, k)
               from(i) == IF i < k THEN i ELSE i + 1
    <2>1. n \in Nat /\ DOMAIN l = 1 .. n /\ \A i \in 1 .. n : l[i] \in S
      BY ToSetSeq, ElementOfSeq
    <2>2. k \in 1 .. n /\ l[k] = t
      <3>1. \E i \in DOMAIN l : l[i] = t
        BY <1>2, <2>1, ToSetSeq
      <3> QED BY <2>1, <3>1
    <2>3. ListRemove(l, t) = r
      BY <1>2 DEF ListRemove
    <2> HIDE DEF k
    <2>4. /\ r \in Seq(S)
          /\ Len(r) = n - 1
          /\ \A i \in 1 .. n - 1 : r[i] = IF i < k THEN l[i] ELSE l[i + 1]
      BY <2>2, RemoveAtIndices
    <2>5. DOMAIN r = 1 .. n - 1
      BY <2>4, LenProperties
    <2> HIDE DEF r
    <2>6. \A i \in 1 .. n - 1 : from(i) \in 1 .. n /\ from(i) # k /\ r[i] = l[from(i)]
      BY <2>1, <2>2, <2>4
    <2>7. \A i, j \in 1 .. n - 1 : i < j => from(i) < from(j)
      BY <2>1, <2>2
    <2>8. \A j \in 1 .. n : j # k => \E i \in 1 .. n - 1 : r[i] = l[j]
      <3> SUFFICES ASSUME NEW j \in 1 .. n, j # k
                   PROVE  \E i \in 1 .. n - 1 : r[i] = l[j]
        OBVIOUS
      <3>1. CASE j < k
        <4>1. j \in 1 .. n - 1 /\ r[j] = l[j]
          BY <2>1, <2>2, <2>4, <3>1
        <4> QED BY <4>1
      <3>2. CASE j > k
        <4>1. j - 1 \in 1 .. n - 1 /\ ~(j - 1 < k) /\ (j - 1) + 1 = j
          BY <2>1, <2>2, <3>2
        <4>2. r[j - 1] = l[j]
          BY <2>4, <4>1
        <4> QED BY <4>1, <4>2
      <3> QED BY <2>1, <2>2, <3>1, <3>2
    <2> HIDE DEF from
    <2>9. NoDuplicates(r)
      <3> SUFFICES ASSUME NEW i \in 1 .. n - 1, NEW j \in 1 .. n - 1, i # j
                   PROVE  r[i] # r[j]
        BY <2>5 DEF NoDuplicates
      <3>1. from(i) # from(j)
        <4>1. /\ i < j => from(i) < from(j)
              /\ j < i => from(j) < from(i)
          BY <2>7
        <4>2. i < j \/ j < i
          BY <2>1
        <4>3. from(i) \in Int /\ from(j) \in Int
          BY <2>6
        <4> QED BY <4>1, <4>2, <4>3
      <3> QED BY <2>1, <2>6, <3>1 DEF NoDuplicates
    <2>10. ToSet(r) = ToSet(l) \ {t}
      <3>1. \A x : x \in ToSet(r) <=> \E i \in 1 .. n - 1 : r[i] = x
        BY <2>4, ToSetSeq
      <3>2. \A x : x \in ToSet(l) <=> \E i \in 1 .. n : l[i] = x
        BY ToSetSeq
      <3>3. \A j \in 1 .. n : j # k => l[j] # t
        BY <2>1, <2>2 DEF NoDuplicates
      <3>4. \A x : x \in ToSet(r) => x \in ToSet(l) \ {t}
        BY <2>6, <3>1, <3>2, <3>3
      <3>5. \A x : x \in ToSet(l) \ {t} => x \in ToSet(r)
        BY <2>2, <2>8, <3>1, <3>2
      <3> QED BY <3>4, <3>5
    <2>11. Ascending(l, value) => Ascending(r, value)
      <3> SUFFICES ASSUME Ascending(l, value),
                          NEW i \in 1 .. n - 1, NEW j \in 1 .. n - 1, i < j
                   PROVE  value[r[i]] <= value[r[j]]
        BY <2>5 DEF Ascending
      <3>1. from(i) < from(j)
        BY <2>7
      <3> QED BY <2>1, <2>6, <3>1 DEF Ascending
    <2> QED BY <2>3, <2>4, <2>9, <2>10, <2>11
  <1> QED BY <1>1, <1>2

\* The same for a list with no order.
LEMMA ListRemoveSet ==
    ASSUME NEW S, NEW l \in Seq(S), NEW t, NoDuplicates(l)
    PROVE  /\ ListRemove(l, t) \in Seq(S)
           /\ NoDuplicates(ListRemove(l, t))
           /\ ToSet(ListRemove(l, t)) = ToSet(l) \ {t}
  <1>1. [u \in S |-> 0] \in [S -> Int]
    OBVIOUS
  <1> QED BY <1>1, ListRemoveProperties

\* A task that is put at the end of a list.
LEMMA ListAppendSet ==
    ASSUME NEW S, NEW l \in Seq(S), NEW t \in S, t \notin ToSet(l), NoDuplicates(l)
    PROVE  /\ Append(l, t) \in Seq(S)
           /\ NoDuplicates(Append(l, t))
           /\ ToSet(Append(l, t)) = ToSet(l) \cup {t}
  <1> DEFINE n == Len(l)
             r == Append(l, t)
  <1>1. n \in Nat /\ DOMAIN l = 1 .. n /\ \A x : x \in ToSet(l) <=> \E i \in 1 .. n : l[i] = x
    BY ToSetSeq
  <1>2. /\ r \in Seq(S) /\ Len(r) = n + 1 /\ r[n + 1] = t
        /\ \A i \in 1 .. n : r[i] = l[i]
    BY AppendProperties
  <1> HIDE DEF r
  <1>3. DOMAIN r = 1 .. n + 1 /\ \A x : x \in ToSet(r) <=> \E i \in 1 .. n + 1 : r[i] = x
    BY <1>2, ToSetSeq
  <1> HIDE DEF n
  <1>4. 1 .. n + 1 = (1 .. n) \cup {n + 1} /\ n + 1 \notin 1 .. n
    BY <1>1
  <1>5. NoDuplicates(r)
    <2>1. \A i \in 1 .. n : r[i] # t
      BY <1>1, <1>2
    <2>2. \A i, j \in 1 .. n : i # j => r[i] # r[j]
      BY <1>1, <1>2 DEF NoDuplicates
    <2> QED BY <1>2, <1>3, <1>4, <2>1, <2>2 DEF NoDuplicates
  <1>6. ToSet(r) = ToSet(l) \cup {t}
    <2>1. \A x : x \in ToSet(r) <=> x \in ToSet(l) \/ x = t
      BY <1>1, <1>2, <1>3, <1>4
    <2> QED BY <2>1
  <1> QED BY <1>2, <1>5, <1>6 DEF r

\* Taking the first n of a list splits its members in two, n of them in the
\* first part if any are left.
LEMMA RestOfProperties ==
    ASSUME NEW S, NEW l \in Seq(S), NEW n \in Nat, NEW value \in [S -> Int], NoDuplicates(l)
    PROVE  /\ RestOf(l, n) \in Seq(S)
           /\ NoDuplicates(RestOf(l, n))
           /\ FirstOf(l, n) \subseteq ToSet(l)
           /\ ToSet(RestOf(l, n)) = ToSet(l) \ FirstOf(l, n)
           /\ RestOf(l, n) # <<>> => Cardinality(FirstOf(l, n)) = n
           /\ Ascending(l, value) => Ascending(RestOf(l, n), value)
  <1> DEFINE m == Len(l)
             r == RestOf(l, n)
  <1>1. m \in Nat /\ DOMAIN l = 1 .. m /\ \A i \in 1 .. m : l[i] \in S
    BY ToSetSeq, ElementOfSeq
  <1>2. /\ r \in Seq(S)
        /\ Len(r) = IF n + 1 <= m THEN m - (n + 1) + 1 ELSE 0
        /\ \A i \in 1 .. m - (n + 1) + 1 : r[i] = l[n + 1 + i - 1]
    <2>1. n + 1 \in Int /\ m \in Int /\ \A i \in n + 1 .. m : l[i] \in S
      BY <1>1
    <2>2. r = SubSeq(l, n + 1, m)
      BY DEF RestOf
    <2> HIDE DEF r, m
    <2> QED BY <2>1, <2>2, SubSeqProperties
  <1>3. DOMAIN r = 1 .. Len(r) /\ Len(r) \in Nat
    BY <1>2, LenProperties
  <1> DEFINE lr == Len(r)
  <1>13. lr \in Nat /\ (lr > 0 => n < m) /\ (n < m => lr = m - n)
    <2> HIDE DEF m, r
    <2>1. lr = IF n + 1 <= m THEN m - (n + 1) + 1 ELSE 0
      BY <1>2
    <2> HIDE DEF lr
    <2> QED BY <1>1, <2>1
  <1> HIDE DEF r
  <1>4. \A i \in 1 .. Len(r) : n + i \in 1 .. m /\ r[i] = l[n + i]
    <2> SUFFICES ASSUME NEW i \in 1 .. Len(r) PROVE n + i \in 1 .. m /\ r[i] = l[n + i]
      OBVIOUS
    <2>1. n + 1 <= m /\ i <= m - n
      <3> HIDE DEF m
      <3> QED BY <1>1, <1>3, <1>13
    <2>2. i \in 1 .. m - (n + 1) + 1 /\ n + 1 + i - 1 = n + i /\ n + i \in 1 .. m
      <3> HIDE DEF m
      <3> QED BY <1>1, <1>3, <2>1
    <2>3. r[i] = l[n + 1 + i - 1]
      BY <1>2, <2>2
    <2> QED BY <2>2, <2>3
  <1>5. NoDuplicates(r)
    <2> SUFFICES ASSUME NEW i \in 1 .. Len(r), NEW j \in 1 .. Len(r), i # j
                 PROVE  r[i] # r[j]
      BY <1>3 DEF NoDuplicates
    <2>1. n + i # n + j
      BY <1>3
    <2> QED BY <1>1, <1>4, <2>1 DEF NoDuplicates
  <1>6. Ascending(l, value) => Ascending(r, value)
    <2> SUFFICES ASSUME Ascending(l, value),
                        NEW i \in 1 .. Len(r), NEW j \in 1 .. Len(r), i < j
                 PROVE  value[r[i]] <= value[r[j]]
      BY <1>3 DEF Ascending
    <2>1. n + i < n + j
      BY <1>3
    <2> QED BY <1>1, <1>4, <2>1 DEF Ascending
  <1>7. \A x : x \in FirstOf(l, n) <=> \E i \in 1 .. m : i <= n /\ l[i] = x
    BY <1>1 DEF FirstOf
  <1>8. \A x : x \in ToSet(l) <=> \E i \in 1 .. m : l[i] = x
    BY ToSetSeq
  <1>9. \A x : x \in ToSet(r) <=> \E i \in 1 .. Len(r) : r[i] = x
    BY <1>2, ToSetSeq
  <1>10. ToSet(r) = ToSet(l) \ FirstOf(l, n)
    <2>1. ASSUME NEW i \in 1 .. m, NEW j \in 1 .. m, l[i] = l[j] PROVE i = j
      BY <1>1, <2>1 DEF NoDuplicates
    <2>2. \A x : x \in ToSet(r) => x \in ToSet(l) \ FirstOf(l, n)
      <3> SUFFICES ASSUME NEW i \in 1 .. Len(r)
                   PROVE  r[i] \in ToSet(l) \ FirstOf(l, n)
        BY <1>9
      <3>1. n + i \in 1 .. m /\ r[i] = l[n + i] /\ n + i > n
        BY <1>3, <1>4
      <3>2. r[i] \in ToSet(l)
        BY <1>8, <3>1
      <3>3. \A j \in 1 .. m : l[j] = r[i] => j = n + i
        BY <2>1, <3>1
      <3>4. r[i] \notin FirstOf(l, n)
        <4> HIDE DEF m
        <4> QED BY <1>1, <1>3, <1>7, <3>1, <3>3
      <3> QED BY <3>2, <3>4
    <2>3. \A x : x \in ToSet(l) \ FirstOf(l, n) => x \in ToSet(r)
      <3> SUFFICES ASSUME NEW i \in 1 .. m, ~(i <= n)
                   PROVE  l[i] \in ToSet(r)
        BY <1>7, <1>8
      <3>1. i - n \in 1 .. Len(r) /\ n + (i - n) = i
        <4> HIDE DEF m
        <4>1. i \in Int /\ n < i /\ i <= m
          BY <1>1
        <4> QED BY <1>1, <1>13, <4>1
      <3>2. r[i - n] = l[i]
        BY <1>4, <3>1
      <3> QED BY <1>9, <3>1, <3>2
    <2> QED BY <2>2, <2>3
  <1>11. ASSUME r # <<>> PROVE Cardinality(FirstOf(l, n)) = n
    <2>1. n < m
      <3>1. Len(r) > 0
        BY <1>2, <1>11, ToSetSeq
      <3> QED BY <1>13, <3>1
    <2> DEFINE f == [i \in 1 .. n |-> l[i]]
    <2>2. f \in Bijection(1 .. n, FirstOf(l, n))
      <3>1. \A i \in 1 .. n : i \in 1 .. m
        BY <1>1, <2>1
      <3>2. f \in [1 .. n -> FirstOf(l, n)]
        BY <1>7, <3>1
      <3>3. \A i, j \in 1 .. n : i # j => f[i] # f[j]
        BY <1>1, <3>1 DEF NoDuplicates
      <3>4. \A x \in FirstOf(l, n) : \E i \in 1 .. n : f[i] = x
        BY <1>1, <1>7
      <3> HIDE DEF f
      <3> QED BY <3>2, <3>3, <3>4 DEF Bijection, Injection, Surjection, IsInjective
    <2>3. ExistsBijection(1 .. n, FirstOf(l, n))
      BY <2>2 DEF ExistsBijection
    <2>4. IsFiniteSet(1 .. n) /\ Cardinality(1 .. n) = n
      <3>1. Cardinality(1 .. n) = IF 1 > n THEN 0 ELSE n - 1 + 1
        BY FS_Interval
      <3>2. IsFiniteSet(1 .. n)
        BY FS_Interval
      <3> QED BY <3>1, <3>2
    <2> QED BY <2>3, <2>4, FS_Bijection
  <1>12. FirstOf(l, n) \subseteq ToSet(l)
    BY <1>7, <1>8
  <1> QED BY <1>2, <1>5, <1>6, <1>10, <1>11, <1>12 DEF r

-----------------------------------------------------------------------------

\* Induction on the natural numbers, for a property that is given as a function.
LEMMA Induction ==
    ASSUME NEW P, P[0], \A n \in Nat : P[n] => P[n + 1]
    PROVE  \A n \in Nat : P[n]
  <1> SUFFICES ASSUME NEW k \in Nat, ~P[k] PROVE FALSE
    OBVIOUS
  <1> DEFINE T == {n \in Nat : ~P[n]}
             R == OpToRel(<, Nat)
  <1>1. T # {} /\ T \subseteq Nat
    OBVIOUS
  <1>2. PICK x \in T : \A y \in T : <<y, x>> \notin R
    <2> HIDE DEF T, R
    <2>1. IsWellFoundedOn(R, Nat)
      BY NatLessThanWellFounded DEF R
    <2> QED BY <1>1, <2>1, WFMin
  <1>3. \A y \in T : ~(y < x)
    BY <1>2 DEF OpToRel
  <1>4. x # 0 /\ x - 1 \in Nat /\ x - 1 \notin T
    BY <1>3
  <1> QED BY <1>4

\* A set of places has a last one.
LEMMA LastPlace ==
    ASSUME NEW n \in Nat, NEW S \in SUBSET (1 .. n), S # {}
    PROVE  Max(S) \in S
  <1> DEFINE T == {m \in Nat : \A y \in S : y <= m}
             R == OpToRel(<, Nat)
  <1>1. T # {} /\ T \subseteq Nat
    OBVIOUS
  <1>2. PICK x \in T : \A y \in T : <<y, x>> \notin R
    <2> HIDE DEF T, R
    <2>1. IsWellFoundedOn(R, Nat)
      BY NatLessThanWellFounded DEF R
    <2> QED BY <1>1, <2>1, WFMin
  <1>3. \A y \in T : ~(y < x)
    BY <1>2 DEF OpToRel
  <1>4. x \in Nat /\ \A y \in S : y <= x /\ y \in Nat
    OBVIOUS
  <1>5. x # 0
    <2>1. PICK z \in S : TRUE
      OBVIOUS
    <2> QED BY <1>4, <2>1
  <1>6. x - 1 \notin T
    BY <1>3, <1>4, <1>5
  <1>7. PICK y \in S : ~(y <= x - 1)
    BY <1>4, <1>5, <1>6
  <1>8. x \in S /\ \A z \in S : x >= z
    BY <1>4, <1>7
  <1> QED BY <1>8 DEF Max

\* f is the function by which FoldLeft goes through n items; it exists if every step
\* leads from a value in V to a value in V.
IsStep(step, n, V) == step \in [V \X (1 .. n) -> V]

IsFold(f, n, V, base, step) ==
    /\ f \in [SUBSET (1 .. n) -> V]
    /\ f = [S \in SUBSET (1 .. n) |->
               IF S = {} THEN base ELSE step[<<f[S \ {Max(S)}], Max(S)>>]]

LEMMA FoldExists ==
    ASSUME NEW n \in Nat, NEW V, NEW base \in V, NEW step, IsStep(step, n, V)
    PROVE  \E f : IsFold(f, n, V, base, step)
  <1> USE DEF IsStep
  <1> DEFINE Solves(f, m) ==
                 \A S \in SUBSET (1 .. m) :
                     f[S] = IF S = {} THEN base ELSE step[<<f[S \ {Max(S)}], Max(S)>>]
             Solvable(m) == m <= n => \E f \in [SUBSET (1 .. m) -> V] : Solves(f, m)
             P == [m \in Nat |-> Solvable(m)]
  <1>1. Solvable(0)
    <2>1. SUBSET (1 .. 0) = {{}}
      OBVIOUS
    <2>2. [S \in SUBSET (1 .. 0) |-> base] \in [SUBSET (1 .. 0) -> V]
      OBVIOUS
    <2>3. Solves([S \in SUBSET (1 .. 0) |-> base], 0)
      BY <2>1
    <2> QED BY <2>2, <2>3
  <1>2. ASSUME NEW m \in Nat, Solvable(m) PROVE Solvable(m + 1)
    <2> SUFFICES ASSUME m + 1 <= n
                 PROVE  \E g \in [SUBSET (1 .. m + 1) -> V] : Solves(g, m + 1)
      OBVIOUS
    <2>1. PICK f \in [SUBSET (1 .. m) -> V] : Solves(f, m)
      <3> HIDE DEF Solves
      <3>1. m <= n
        OBVIOUS
      <3> QED BY <1>2, <3>1
    <2> DEFINE g == [S \in SUBSET (1 .. m + 1) |->
                        IF m + 1 \in S THEN step[<<f[S \ {m + 1}], m + 1>>] ELSE f[S]]
    <2>2. \A S \in SUBSET (1 .. m + 1) :
             /\ m + 1 \notin S => S \in SUBSET (1 .. m)
             /\ S \ {m + 1} \in SUBSET (1 .. m)
      OBVIOUS
    <2>3. g \in [SUBSET (1 .. m + 1) -> V]
      <3> SUFFICES ASSUME NEW S \in SUBSET (1 .. m + 1)
                   PROVE  (IF m + 1 \in S THEN step[<<f[S \ {m + 1}], m + 1>>] ELSE f[S]) \in V
        OBVIOUS
      <3>1. f[S \ {m + 1}] \in V /\ (m + 1 \notin S => f[S] \in V)
        BY <2>1, <2>2
      <3>2. m + 1 \in 1 .. n
        OBVIOUS
      <3> QED BY <3>1, <3>2
    <2>4. Solves(g, m + 1)
      <3> SUFFICES ASSUME NEW S \in SUBSET (1 .. m + 1)
                   PROVE  g[S] = IF S = {} THEN base
                                 ELSE step[<<g[S \ {Max(S)}], Max(S)>>]
        OBVIOUS
      <3>1. CASE m + 1 \in S
        <4>1. \A y \in S : m + 1 >= y /\ (y >= m + 1 => y = m + 1)
          OBVIOUS
        <4>9. Max(S) = m + 1
          BY <3>1, <4>1 DEF Max
        <4>2. S \ {m + 1} \in SUBSET (1 .. m + 1) /\ m + 1 \notin S \ {m + 1}
          OBVIOUS
        <4>3. g[S \ {m + 1}] = f[S \ {m + 1}]
          BY <4>2
        <4> HIDE DEF Solves
        <4> QED BY <3>1, <4>9, <4>3
      <3>2. CASE m + 1 \notin S
        <4>1. S \in SUBSET (1 .. m)
          BY <3>2, <2>2
        <4>2. S \ {Max(S)} \in SUBSET (1 .. m + 1) /\ m + 1 \notin S \ {Max(S)}
          BY <3>2
        <4>3. g[S] = f[S] /\ g[S \ {Max(S)}] = f[S \ {Max(S)}]
          BY <3>2, <4>2
        <4>4. f[S] = IF S = {} THEN base ELSE step[<<f[S \ {Max(S)}], Max(S)>>]
          BY <4>1, <2>1
        <4> QED BY <4>3, <4>4
      <3> QED BY <3>1, <3>2
    <2> QED BY <2>3, <2>4
  <1>3. \A m \in Nat : Solvable(m)
    <2> HIDE DEF Solvable
    <2>1. \A m \in Nat : P[m] <=> Solvable(m)
      OBVIOUS
    <2> HIDE DEF P
    <2>2. P[0] /\ \A m \in Nat : P[m] => P[m + 1]
      BY <1>1, <1>2, <2>1
    <2>3. \A m \in Nat : P[m]
      BY <2>2, Induction
    <2> QED BY <2>1, <2>3
  <1>4. PICK f \in [SUBSET (1 .. n) -> V] : Solves(f, n)
    <2> HIDE DEF Solves
    <2>1. n <= n
      OBVIOUS
    <2> QED BY <1>3, <2>1
  <1>5. f = [S \in SUBSET (1 .. n) |->
                IF S = {} THEN base ELSE step[<<f[S \ {Max(S)}], Max(S)>>]]
    BY <1>4
  <1> QED BY <1>5 DEF IsFold

\* The first k places of a list, as FoldLeft takes them.
LEMMA FirstPlaces ==
    ASSUME NEW k \in Nat
    PROVE  /\ Max(1 .. k + 1) = k + 1
           /\ (1 .. k + 1) \ {k + 1} = 1 .. k
           /\ 1 .. k + 1 # {}
  BY DEF Max
=============================================================================
