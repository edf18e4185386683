----------------------------- MODULE TimersProofs -----------------------------
(***************************************************************************)
(* Proofs about Timers for every number of timers, every width of the tick *)
(* count, all periods and every length of the queue.  First the arithmetic *)
(* of prvInsertTimerInActiveList and prvReloadTimer, with the loop of the  *)
(* latter; then what each operation on the two lists does to them, with    *)
(* the loop of prvSwitchTimerLists by induction along the list that is     *)
(* over; then that TimersInv is inductive, and the properties.             *)
(***************************************************************************)
EXTENDS Timers, ListOpsProofs

-----------------------------------------------------------------------------
(***************************************************************************)
(* Arithmetic                                                              *)
(***************************************************************************)

LEMMA Bounds ==
    /\ W \in Nat \ {0} /\ MaxLate \in Nat /\ MaxAge \in 0 .. W - 1 /\ QueueLength \in Nat \ {0}
    /\ \A p \in Periods : p \in 1 .. W - 1 /\ p + MaxLate < W
  BY TimersAssumption DEF TimersAssumption

LEMMA Wraps ==
    \A x \in -W .. 2 * W - 1 :
        /\ x % W = IF x < 0 THEN x + W ELSE IF x < W THEN x ELSE x - W
        /\ x % W \in 0 .. W - 1
  BY Bounds

\* A timer that should have expired p after a time a ticks ago has expired if a is p or
\* more, whether or not the tick count has wrapped in between.
LEMMA ProcessNowIfDue ==
    ASSUME NEW now \in 0 .. W - 1, NEW a \in 0 .. W - 1, NEW p \in 1 .. W - 1
    PROVE  ProcessNow(p, (now - a) % W, now) <=> a >= p
  <1> DEFINE c == (now - a) % W
             next == (c + p) % W
  <1>1. W \in Nat \ {0}
    BY Bounds
  <1>2. c = (IF now >= a THEN now - a ELSE now - a + W) /\ c \in 0 .. W - 1
    <2>1. now - a \in -W .. 2 * W - 1 /\ (now - a < 0 <=> ~(now >= a)) /\ now - a < W
      BY <1>1
    <2> QED BY <2>1, Wraps
  <1> HIDE DEF c
  <1>3. next = IF c + p < W THEN c + p ELSE c + p - W
    <2> DEFINE x == c + p
    <2>1. x \in -W .. 2 * W - 1 /\ ~(x < 0) /\ next = x % W
      BY <1>1, <1>2
    <2> HIDE DEF x, next
    <2>2. next = IF x < W THEN x ELSE x - W
      BY <2>1, Wraps
    <2> QED BY <1>1, <1>2, <2>2 DEF x
  <1>4. (now - c) % W = a
    <2>1. now - c \in -W .. 2 * W - 1 /\ now - c < W
          /\ a = IF now - c < 0 THEN now - c + W ELSE now - c
      BY <1>1, <1>2
    <2> QED BY <2>1, Wraps
  <1>5. ProcessNow(p, c, now) <=> IF next <= now THEN (now - c) % W >= p ELSE now < c /\ next >= c
    BY DEF ProcessNow
  <1> HIDE DEF next
  <1>6. ProcessNow(p, c, now) <=> IF next <= now THEN a >= p ELSE now < c /\ next >= c
    BY <1>4, <1>5
  <1>7. ProcessNow(p, c, now) <=> a >= p
    BY <1>1, <1>2, <1>3, <1>6
  <1> QED BY <1>7 DEF c

\* Division by a period, without a remainder operator.
LEMMA PeriodsIn ==
    ASSUME NEW p \in Nat \ {0}, NEW a \in Nat
    PROVE  \E n \in 0 .. a : n * p <= a /\ a < (n + 1) * p
  <1> DEFINE Divides(b) == \E n \in 0 .. b : n * p <= b /\ b < (n + 1) * p
             P == [b \in Nat |-> Divides(b)]
  <1>1. Divides(0)
    OBVIOUS
  <1>2. ASSUME NEW b \in Nat, Divides(b) PROVE Divides(b + 1)
    <2>1. PICK n \in 0 .. b : n * p <= b /\ b < (n + 1) * p
      BY <1>2
    <2>2. (n + 1) * p = n * p + p /\ (n + 1 + 1) * p = n * p + p + p /\ n * p \in Nat
      BY <2>1
    <2>3. CASE b + 1 < (n + 1) * p
      BY <2>1, <2>2, <2>3
    <2>4. CASE b + 1 = (n + 1) * p
      <3>1. n + 1 \in 0 .. b + 1
        OBVIOUS
      <3>2. (n + 1) * p <= b + 1 /\ b + 1 < (n + 1 + 1) * p
        BY <2>2, <2>4
      <3> QED BY <3>1, <3>2
    <2> QED BY <2>1, <2>2, <2>3, <2>4
  <1> HIDE DEF Divides
  <1>3. \A b \in Nat : P[b] <=> Divides(b)
    OBVIOUS
  <1> HIDE DEF P
  <1>4. P[0] /\ \A b \in Nat : P[b] => P[b + 1]
    BY <1>1, <1>2, <1>3
  <1>5. \A b \in Nat : P[b]
    BY <1>4, Induction
  <1>6. Divides(a)
    BY <1>3, <1>5
  <1> QED BY <1>6 DEF Divides

\* The loop of prvReloadTimer ends, and it goes round once for each period that fits
\* between the expiry, a ticks ago, and now.
LEMMA MissedPeriods ==
    ASSUME NEW now \in 0 .. W - 1, NEW a \in 0 .. W - 1, NEW p \in 1 .. W - 1
    PROVE  LET m == Missed(p, (now - a) % W, now) IN
           m \in Nat /\ m * p \in Nat /\ m * p <= a /\ a < m * p + p
  <1> DEFINE c == (now - a) % W
             Due(k) == ProcessNow(p, (c + k * p) % W, now)
             Ends(n) == ~Due(n) /\ \A k \in 0 .. n - 1 : Due(k)
  <1>1. W \in Nat \ {0}
    BY Bounds
  <1>2. ASSUME NEW k \in Nat, k * p <= a PROVE Due(k) <=> a - k * p >= p
    <2> DEFINE j == k * p
    <2>1. j \in Nat /\ j <= a
      BY <1>2
    <2> HIDE DEF j
    <2>2. c = IF now >= a THEN now - a ELSE now - a + W
      <3>1. now - a \in -W .. 2 * W - 1 /\ (now - a < 0 <=> ~(now >= a)) /\ now - a < W
        BY <1>1
      <3> QED BY <3>1, Wraps
    <2> HIDE DEF c
    <2>3. (c + j) % W = (now - (a - j)) % W
      <3> DEFINE x == c + j
                 y == now - (a - j)
      <3>1. x \in -W .. 2 * W - 1 /\ y \in -W .. 2 * W - 1
            /\ (x = y \/ x = y + W)
            /\ x >= 0 /\ y < W
        BY <1>1, <2>1, <2>2
      <3> HIDE DEF x, y
      <3>2. x % W = y % W
        <4>1. x % W = IF x < 0 THEN x + W ELSE IF x < W THEN x ELSE x - W
          BY <3>1, Wraps
        <4>2. y % W = IF y < 0 THEN y + W ELSE IF y < W THEN y ELSE y - W
          BY <3>1, Wraps
        <4> QED BY <1>1, <3>1, <4>1, <4>2
      <3> QED BY <3>2 DEF x, y
    <2>4. a - j \in 0 .. W - 1
      BY <1>1, <2>1
    <2>5. ProcessNow(p, (c + j) % W, now) <=> a - j >= p
      BY <2>3, <2>4, ProcessNowIfDue
    <2> QED BY <2>5 DEF j
  <1>3. PICK n \in 0 .. a : n * p <= a /\ a < (n + 1) * p
    <2>1. p \in Nat \ {0} /\ a \in Nat
      BY <1>1
    <2> QED BY <2>1, PeriodsIn
  <1>4. n \in 0 .. W /\ n \in Nat /\ n * p \in Nat /\ (n + 1) * p = n * p + p
    BY <1>1, <1>3
  <1> HIDE DEF Due, c
  <1>5. Ends(n)
    <2>1. ~Due(n)
      BY <1>2, <1>3, <1>4
    <2>2. ASSUME NEW k \in 0 .. n - 1 PROVE Due(k)
      <3>1. k \in Nat /\ k < n /\ k * p \in Nat /\ (k + 1) * p = k * p + p
        BY <1>4
      <3>2. (k + 1) * p <= n * p
        BY <1>4, <3>1
      <3>3. k * p <= a /\ a - k * p >= p
        BY <1>3, <1>4, <3>1, <3>2
      <3> QED BY <1>2, <3>1, <3>3
    <2> QED BY <2>1, <2>2
  <1>6. ASSUME NEW m \in 0 .. W, Ends(m) PROVE m = n
    <2>1. m < n => Due(m)
      BY <1>1, <1>4, <1>5
    <2>2. n < m => Due(n)
      BY <1>1, <1>4, <1>6
    <2> QED BY <1>1, <1>4, <1>5, <1>6, <2>1, <2>2
  <1> DEFINE m == CHOOSE n_1 \in 0 .. W : Ends(n_1)
  <1>7. Missed(p, (now - a) % W, now) = m
    BY DEF Missed, Due, c
  <1>8. m = n
    <2>1. m \in 0 .. W /\ Ends(m)
      <3> HIDE DEF Ends
      <3> QED BY <1>4, <1>5
    <2> HIDE DEF Ends, m
    <2> QED BY <1>6, <2>1
  <1> QED BY <1>3, <1>4, <1>7, <1>8

-----------------------------------------------------------------------------
(***************************************************************************)
(* Lists                                                                   *)
(***************************************************************************)

\* Two lists one behind the other.
LEMMA Concatenated ==
    ASSUME NEW S, NEW l \in Seq(S), NEW m \in Seq(S)
    PROVE  /\ ToSet(l \o m) = ToSet(l) \cup ToSet(m)
           /\ (NoDuplicates(l) /\ NoDuplicates(m) /\ ToSet(l) \cap ToSet(m) = {})
                 => NoDuplicates(l \o m)
  <1> DEFINE a == Len(l)
             b == Len(m)
             r == l \o m
  <1>1. /\ a \in Nat /\ DOMAIN l = 1 .. a /\ \A x : x \in ToSet(l) <=> \E i \in 1 .. a : l[i] = x
        /\ b \in Nat /\ DOMAIN m = 1 .. b /\ \A x : x \in ToSet(m) <=> \E i \in 1 .. b : m[i] = x
    BY ToSetSeq
  <1>2. /\ r \in Seq(S) /\ Len(r) = a + b
        /\ \A i \in 1 .. a + b : r[i] = IF i <= a THEN l[i] ELSE m[i - a]
    BY ConcatProperties
  <1> HIDE DEF r
  <1>3. DOMAIN r = 1 .. a + b /\ \A x : x \in ToSet(r) <=> \E i \in 1 .. a + b : r[i] = x
    BY <1>2, ToSetSeq
  <1> HIDE DEF a, b
  <1>4. \A i \in 1 .. a + b : i > a => i - a \in 1 .. b
    BY <1>1
  <1>5. ToSet(r) = ToSet(l) \cup ToSet(m)
    <2>1. ASSUME NEW x \in ToSet(m) PROVE x \in ToSet(r)
      <3>1. PICK i \in 1 .. b : m[i] = x
        BY <1>1
      <3>2. a + i \in 1 .. a + b /\ r[a + i] = x
        BY <1>1, <1>2, <3>1
      <3> QED BY <1>3, <3>2
    <2>2. ASSUME NEW x \in ToSet(l) PROVE x \in ToSet(r)
      <3>1. PICK i \in 1 .. a : l[i] = x
        BY <1>1
      <3>2. i \in 1 .. a + b /\ r[i] = x
        BY <1>1, <1>2, <3>1
      <3> QED BY <1>3, <3>2
    <2>3. ASSUME NEW x \in ToSet(r) PROVE x \in ToSet(l) \cup ToSet(m)
      <3>1. PICK i \in 1 .. a + b : r[i] = x
        BY <1>3
      <3> QED BY <1>1, <1>2, <1>4, <3>1
    <2> QED BY <2>1, <2>2, <2>3
  <1>6. ASSUME NoDuplicates(l), NoDuplicates(m), ToSet(l) \cap ToSet(m) = {}
        PROVE  NoDuplicates(r)
    <2> SUFFICES ASSUME NEW i \in 1 .. a + b, NEW j \in 1 .. a + b, i < j PROVE r[i] # r[j]
      BY <1>1, <1>3 DEF NoDuplicates
    <2>1. CASE j <= a
      BY <1>1, <1>2, <1>6, <2>1 DEF NoDuplicates
    <2>2. CASE i > a
      <3>1. i - a \in 1 .. b /\ j - a \in 1 .. b /\ i - a # j - a
        BY <1>1, <1>4, <2>2
      <3>2. r[i] = m[i - a] /\ r[j] = m[j - a]
        BY <1>1, <1>2, <2>2
      <3> QED BY <1>1, <1>6, <3>1, <3>2 DEF NoDuplicates
    <2>3. CASE i <= a /\ j > a
      <3>1. i \in 1 .. a /\ j - a \in 1 .. b
        BY <1>1, <1>4, <2>3
      <3>2. r[i] = l[i] /\ r[j] = m[j - a]
        BY <1>1, <1>2, <2>3
      <3>3. r[i] \in ToSet(l) /\ r[j] \in ToSet(m)
        BY <1>1, <3>1, <3>2
      <3> QED BY <1>6, <3>3
    <2> QED BY <1>1, <2>1, <2>2, <2>3
  <1> QED BY <1>5, <1>6 DEF r

\* The head of what is left of a list behind its first k, and what is left without it.
LEMMA RestHead ==
    ASSUME NEW S, NEW l \in Seq(S), NoDuplicates(l), NEW k \in Nat, k < Len(l)
    PROVE  /\ RestOf(l, k) # <<>>
           /\ Head(RestOf(l, k)) = l[k + 1]
           /\ ListRemove(RestOf(l, k), l[k + 1]) = RestOf(l, k + 1)
  <1> DEFINE n == Len(l)
             r == RestOf(l, k)
             q == RestOf(l, k + 1)
  <1>1. n \in Nat /\ k < n /\ DOMAIN l = 1 .. n /\ \A i \in 1 .. n : l[i] \in S
    BY ToSetSeq, ElementOfSeq
  <1>2. r \in Seq(S) /\ Len(r) = n - k /\ \A i \in 1 .. n - k : r[i] = l[k + i]
    <2>1. r = SubSeq(l, k + 1, n)
      BY DEF RestOf
    <2> HIDE DEF r, n
    <2>2. /\ r \in Seq(S)
          /\ Len(r) = IF k + 1 <= n THEN n - (k + 1) + 1 ELSE 0
          /\ \A i \in 1 .. n - (k + 1) + 1 : r[i] = l[k + 1 + i - 1]
      BY <1>1, <2>1, SubSeqProperties
    <2>3. ASSUME NEW i \in 1 .. n - k PROVE r[i] = l[k + i]
      <3>1. i \in 1 .. n - (k + 1) + 1 /\ k + 1 + i - 1 = k + i
        BY <1>1
      <3> QED BY <2>2, <3>1
    <2> QED BY <1>1, <2>2, <2>3
  <1>3. q \in Seq(S) /\ Len(q) = n - k - 1 /\ \A i \in 1 .. n - k - 1 : q[i] = l[k + 1 + i]
    <2>1. q = SubSeq(l, k + 2, n)
      BY DEF RestOf
    <2> HIDE DEF q
    <2>2. /\ q \in Seq(S)
          /\ Len(q) = IF k + 2 <= n THEN n - (k + 2) + 1 ELSE 0
          /\ \A i \in 1 .. n - (k + 2) + 1 : q[i] = l[k + 2 + i - 1]
      BY <1>1, <2>1, SubSeqProperties
    <2> HIDE DEF n
    <2>3. Len(q) = n - k - 1
      BY <1>1, <2>2
    <2>4. ASSUME NEW i \in 1 .. n - k - 1 PROVE q[i] = l[k + 1 + i]
      <3>1. i \in 1 .. n - (k + 2) + 1 /\ k + 2 + i - 1 = k + 1 + i
        BY <1>1
      <3> QED BY <2>2, <3>1
    <2> QED BY <2>2, <2>3, <2>4
  <1> HIDE DEF r, q, n
  <1>4. /\ DOMAIN r = 1 .. n - k /\ r # <<>>
        /\ \A x : x \in ToSet(r) <=> \E i \in 1 .. n - k : r[i] = x
    BY <1>1, <1>2, ToSetSeq DEF n
  <1>5. 1 \in 1 .. n - k /\ r[1] = l[k + 1]
    BY <1>1, <1>2 DEF n
  <1>6. Head(r) = l[k + 1]
    BY <1>2, <1>4, <1>5, HeadTailProperties
  <1>7. \A i \in 1 .. n - k : r[i] = l[k + 1] => i = 1
    <2> SUFFICES ASSUME NEW i \in 1 .. n - k, i # 1 PROVE r[i] # l[k + 1]
      OBVIOUS
    <2>1. k + i \in 1 .. n /\ k + 1 \in 1 .. n /\ k + i # k + 1
      BY <1>1, <1>5
    <2> QED BY <1>1, <1>2, <2>1 DEF NoDuplicates
  <1>8. ListRemove(r, l[k + 1]) = RemoveAt(r, 1)
    BY <1>4, <1>5, <1>7 DEF ListRemove
  <1>9. /\ RemoveAt(r, 1) \in Seq(S) /\ Len(RemoveAt(r, 1)) = n - k - 1
        /\ \A i \in 1 .. n - k - 1 : RemoveAt(r, 1)[i] = r[i + 1]
    <2>1. 1 \in 1 .. Len(r)
      BY <1>2, <1>5
    <2>2. /\ RemoveAt(r, 1) \in Seq(S) /\ Len(RemoveAt(r, 1)) = Len(r) - 1
          /\ \A i \in 1 .. Len(r) - 1 :
                RemoveAt(r, 1)[i] = IF i < 1 THEN r[i] ELSE r[i + 1]
      BY <1>2, <2>1, RemoveAtIndices
    <2> QED BY <1>1, <1>2, <2>2
  <1>10. \A i \in 1 .. n - k - 1 : RemoveAt(r, 1)[i] = q[i]
    <2> SUFFICES ASSUME NEW i \in 1 .. n - k - 1 PROVE RemoveAt(r, 1)[i] = q[i]
      OBVIOUS
    <2>1. i + 1 \in 1 .. n - k /\ k + (i + 1) = k + 1 + i
      BY <1>1
    <2> QED BY <1>2, <1>3, <1>9, <2>1
  <1>11. RemoveAt(r, 1) = q
    BY <1>3, <1>9, <1>10, SeqEqual
  <1> QED BY <1>4, <1>6, <1>8, <1>11 DEF r, q

LEMMA RestAtEnds ==
    ASSUME NEW S, NEW l \in Seq(S)
    PROVE  RestOf(l, 0) = l /\ RestOf(l, Len(l)) = <<>>
  <1>1. Len(l) \in Nat
    BY LenProperties
  <1>2. RestOf(l, 0) = l
    <2>1. /\ RestOf(l, 0) \in Seq(S) /\ Len(RestOf(l, 0)) = Len(l)
          /\ \A i \in 1 .. Len(l) : RestOf(l, 0)[i] = l[i]
      BY <1>1, SubSeqProperties DEF RestOf
    <2> QED BY <2>1, SeqEqual
  <1>3. RestOf(l, Len(l)) = <<>>
    BY <1>1, SubSeqProperties, EmptySeq DEF RestOf
  <1> QED BY <1>2, <1>3

-----------------------------------------------------------------------------
(***************************************************************************)
(* What is true of the two lists                                           *)
(***************************************************************************)

TimerStates ==
    [current : Seq(Timers), overflow : Seq(Timers), value : [Timers -> 0 .. W - 1],
     period : [Timers -> Periods], active : [Timers -> BOOLEAN], left : [Timers -> Int]]

\* The active timers, but for those in X, are in the lists, each in one and once, in the
\* order of their values; T, the time now, and the ticks that are left make these values;
\* and no timer but those in X has been early.
Sound(s, X, T) ==
    /\ s \in TimerStates
    /\ NoDuplicates(s.current) /\ NoDuplicates(s.overflow)
    /\ ToSet(s.current) \cap ToSet(s.overflow) = {}
    /\ ToSet(s.current) \cup ToSet(s.overflow) = {t \in Timers : s.active[t]} \ X
    /\ Ascending(s.current, s.value) /\ Ascending(s.overflow, s.value)
    /\ \A t \in ToSet(s.current) : s.value[t] = T + s.left[t]
    /\ \A t \in ToSet(s.overflow) : s.value[t] = T + s.left[t] - W
    /\ \A t \in Timers \ X : s.left[t] <= IF s.active[t] THEN s.period[t] ELSE 0

LEMMA StateTypes ==
    ASSUME NEW s \in TimerStates
    PROVE  /\ s.current \in Seq(Timers) /\ s.overflow \in Seq(Timers)
           /\ s.value \in [Timers -> 0 .. W - 1] /\ s.value \in [Timers -> Int]
           /\ s.period \in [Timers -> Periods] /\ s.active \in [Timers -> BOOLEAN]
           /\ s.left \in [Timers -> Int]
           /\ \A t \in Timers : s.value[t] \in 0 .. W - 1 /\ s.period[t] \in 1 .. W - 1
                                /\ s.left[t] \in Int /\ s.period[t] + MaxLate < W
           /\ ToSet(s.current) \subseteq Timers /\ ToSet(s.overflow) \subseteq Timers
  <1>1. /\ s.current \in Seq(Timers) /\ s.overflow \in Seq(Timers)
        /\ s.value \in [Timers -> 0 .. W - 1]
        /\ s.period \in [Timers -> Periods] /\ s.active \in [Timers -> BOOLEAN]
        /\ s.left \in [Timers -> Int]
    BY DEF TimerStates
  <1>2. 0 .. W - 1 \subseteq Int
    BY Bounds
  <1> QED BY <1>1, <1>2, Bounds, ToSetSeq

LEMMA SameOrder ==
    ASSUME NEW S, NEW l \in Seq(S), NEW v, NEW w, Ascending(l, v),
           \A x \in ToSet(l) : v[x] = w[x]
    PROVE  Ascending(l, w)
  <1>1. \A i \in DOMAIN l : l[i] \in ToSet(l)
    BY ToSetSeq
  <1> QED BY <1>1 DEF Ascending

\* The state of a timer in X may be anything.
LEMMA SoundElsewhere ==
    ASSUME NEW s, NEW X \in SUBSET Timers, NEW T \in Int, Sound(s, X, T),
           NEW r \in TimerStates, r.current = s.current, r.overflow = s.overflow,
           \A u \in Timers \ X : /\ r.value[u] = s.value[u] /\ r.period[u] = s.period[u]
                                 /\ r.active[u] = s.active[u] /\ r.left[u] = s.left[u]
    PROVE  Sound(r, X, T)
  <1>1. s.current \in Seq(Timers) /\ s.overflow \in Seq(Timers)
    BY StateTypes DEF Sound
  <1>2. ToSet(s.current) \subseteq Timers \ X /\ ToSet(s.overflow) \subseteq Timers \ X
    BY DEF Sound
  <1>3. Ascending(s.current, r.value) /\ Ascending(s.overflow, r.value)
    BY <1>1, <1>2, SameOrder DEF Sound
  <1>4. {t \in Timers : r.active[t]} \ X = {t \in Timers : s.active[t]} \ X
    OBVIOUS
  <1>5. /\ \A t \in ToSet(s.current) : r.value[t] = T + r.left[t]
        /\ \A t \in ToSet(s.overflow) : r.value[t] = T + r.left[t] - W
        /\ \A t \in Timers \ X : r.left[t] <= IF r.active[t] THEN r.period[t] ELSE 0
    BY <1>2 DEF Sound
  <1> QED BY <1>3, <1>4, <1>5 DEF Sound

\* The timer is to expire b ticks after now, or was to expire a ticks before.
DueIn(s, t, T, now, b) == T + s.left[t] = now + b
DueAgo(s, t, T, now, a) == T + s.left[t] = now - a
IsAgo(c, now, a) == c = (now - a) % W
IsLastTick(now) == now = W - 1

\* An expiry of a timer in no list leads from s to r.
Leads(s, r, X, T, now) ==
    /\ Sound(r, X, T)
    /\ \A u \in Timers : r.active[u] => s.active[u]
    /\ IsLastTick(now) => r.current = s.current

\* prvInsertTimerInActiveList of a timer that is to expire b ticks after now.
LEMMA InsertSound ==
    ASSUME NEW s, NEW X \in SUBSET Timers, NEW T \in Int, Sound(s, X, T),
           NEW t \in X, s.active[t], s.left[t] <= s.period[t],
           NEW now \in 0 .. W - 1, NEW b \in 1 .. W - 1, DueIn(s, t, T, now, b)
    PROVE  /\ Sound(Insert(s, t, (now + b) % W, now), X \ {t}, T)
           /\ IsLastTick(now) => Insert(s, t, (now + b) % W, now).current = s.current
  <1> DEFINE v == (now + b) % W
             value == [s.value EXCEPT ![t] = v]
             r == Insert(s, t, v, now)
  <1>1. W \in Nat \ {0} /\ t \in Timers
    BY Bounds
  <1>2. /\ v = (IF now + b < W THEN now + b ELSE now + b - W) /\ v \in 0 .. W - 1
        /\ (v <= now <=> now + b >= W)
    <2> DEFINE x == now + b
    <2>1. x \in -W .. 2 * W - 1 /\ ~(x < 0) /\ v = x % W
      BY <1>1
    <2> HIDE DEF x, v
    <2>2. v = (IF x < W THEN x ELSE x - W) /\ v \in 0 .. W - 1
      BY <2>1, Wraps
    <2> QED BY <1>1, <2>2 DEF x
  <1> HIDE DEF v
  <1>3. /\ s \in TimerStates /\ s.current \in Seq(Timers) /\ s.overflow \in Seq(Timers)
        /\ s.value \in [Timers -> 0 .. W - 1] /\ s.period \in [Timers -> Periods]
        /\ s.active \in [Timers -> BOOLEAN] /\ s.left \in [Timers -> Int]
    BY StateTypes DEF Sound
  <1>4. t \notin ToSet(s.current) /\ t \notin ToSet(s.overflow)
    BY DEF Sound
  <1>5. /\ value \in [Timers -> 0 .. W - 1] /\ value[t] = v
        /\ \A u \in Timers : u # t => value[u] = s.value[u]
    BY <1>1, <1>2, <1>3
  <1>6. /\ r.value = value /\ r.period = s.period /\ r.active = s.active /\ r.left = s.left
        /\ r.overflow = IF v <= now THEN ListInsert(s.overflow, value, t) ELSE s.overflow
        /\ r.current = IF v <= now THEN s.current ELSE ListInsert(s.current, value, t)
    BY <1>3 DEF Insert, TimerStates
  <1> HIDE DEF value, r
  <1>7. Ascending(s.current, value) /\ Ascending(s.overflow, value)
    <2>1. /\ \A u \in ToSet(s.current) : s.value[u] = value[u]
          /\ \A u \in ToSet(s.overflow) : s.value[u] = value[u]
      BY <1>3, <1>4, <1>5, StateTypes
    <2> QED BY <1>3, <2>1, SameOrder DEF Sound
  <1>8. value \in [Timers -> Int]
    BY <1>1, <1>5
  <1>9. ASSUME NEW l \in Seq(Timers), NoDuplicates(l), t \notin ToSet(l), Ascending(l, value)
        PROVE  /\ ListInsert(l, value, t) \in Seq(Timers) /\ NoDuplicates(ListInsert(l, value, t))
               /\ ToSet(ListInsert(l, value, t)) = ToSet(l) \cup {t}
               /\ Ascending(ListInsert(l, value, t), value)
    BY <1>1, <1>8, <1>9, ListInsertProperties
  <1>10. /\ r.current \in Seq(Timers) /\ r.overflow \in Seq(Timers)
         /\ NoDuplicates(r.current) /\ NoDuplicates(r.overflow)
         /\ Ascending(r.current, value) /\ Ascending(r.overflow, value)
         /\ ToSet(r.current) = ToSet(s.current) \cup (IF v <= now THEN {} ELSE {t})
         /\ ToSet(r.overflow) = ToSet(s.overflow) \cup (IF v <= now THEN {t} ELSE {})
    <2>1. NoDuplicates(s.current) /\ NoDuplicates(s.overflow)
      BY DEF Sound
    <2>2. CASE v <= now
      BY <1>3, <1>4, <1>6, <1>7, <1>9, <2>1, <2>2
    <2>3. CASE ~(v <= now)
      BY <1>3, <1>4, <1>6, <1>7, <1>9, <2>1, <2>3
    <2> QED BY <2>2, <2>3
  <1>11. r \in TimerStates
    <2>1. r = [s EXCEPT !.value = r.value, !.overflow = r.overflow, !.current = r.current]
      BY <1>3 DEF r, Insert, TimerStates
    <2>2. r.value \in [Timers -> 0 .. W - 1]
      BY <1>5, <1>6
    <2> QED BY <1>3, <1>10, <2>1, <2>2 DEF TimerStates
  <1>12. ToSet(r.current) \cap ToSet(r.overflow) = {}
    BY <1>4, <1>10 DEF Sound
  <1>13. ToSet(r.current) \cup ToSet(r.overflow) = {u \in Timers : r.active[u]} \ (X \ {t})
    BY <1>1, <1>4, <1>6, <1>10 DEF Sound
  <1>14. \A u \in ToSet(r.current) : r.value[u] = T + r.left[u]
    <2> SUFFICES ASSUME NEW u \in ToSet(r.current) PROVE r.value[u] = T + r.left[u]
      OBVIOUS
    <2>1. CASE u = t
      <3>1. ~(v <= now) /\ v = now + b
        BY <1>1, <1>2, <1>4, <1>10, <2>1
      <3> QED BY <1>5, <1>6, <2>1, <3>1 DEF DueIn
    <2>2. CASE u # t
      <3>1. u \in ToSet(s.current) /\ u \in Timers
        BY <1>3, <1>10, <2>2, StateTypes
      <3> QED BY <1>5, <1>6, <2>2, <3>1 DEF Sound
    <2> QED BY <2>1, <2>2
  <1>15. \A u \in ToSet(r.overflow) : r.value[u] = T + r.left[u] - W
    <2> SUFFICES ASSUME NEW u \in ToSet(r.overflow) PROVE r.value[u] = T + r.left[u] - W
      OBVIOUS
    <2>1. CASE u = t
      <3>1. v <= now /\ v = now + b - W
        BY <1>1, <1>2, <1>4, <1>10, <2>1
      <3>2. s.left[t] \in Int
        BY <1>1, <1>3
      <3>3. r.value[t] = v /\ r.left[t] = s.left[t]
        BY <1>5, <1>6
      <3> QED BY <1>1, <2>1, <3>1, <3>2, <3>3 DEF DueIn
    <2>2. CASE u # t
      <3>1. u \in ToSet(s.overflow) /\ u \in Timers
        BY <1>3, <1>10, <2>2, StateTypes
      <3> QED BY <1>5, <1>6, <2>2, <3>1 DEF Sound
    <2> QED BY <2>1, <2>2
  <1>16. \A u \in Timers \ (X \ {t}) : r.left[u] <= IF r.active[u] THEN r.period[u] ELSE 0
    BY <1>6 DEF Sound
  <1>17. IsLastTick(now) => r.current = s.current
    BY <1>1, <1>2, <1>6 DEF IsLastTick
  <1>18. Sound(r, X \ {t}, T)
    BY <1>6, <1>10, <1>11, <1>12, <1>13, <1>14, <1>15, <1>16 DEF Sound
  <1> QED BY <1>17, <1>18 DEF r, v

LEMMA WrapsMore ==
    \A x \in 0 .. 2 * W - 1 : (x + W) % W = x % W
  <1> SUFFICES ASSUME NEW x \in 0 .. 2 * W - 1 PROVE (x + W) % W = x % W
    OBVIOUS
  <1>1. W \in Nat \ {0}
    BY Bounds
  <1>2. x % W = IF x < W THEN x ELSE x - W
    BY <1>1, Wraps
  <1>3. (x + W) % W = IF x < W THEN x ELSE x - W
    BY <1>1
  <1> QED BY <1>2, <1>3

\* uxListRemove of a timer, if it is in a list.
LEMMA RemovedSound ==
    ASSUME NEW s, NEW X \in SUBSET Timers, NEW T \in Int, Sound(s, X, T), NEW t \in Timers
    PROVE  LET r == Removed(s, t) IN
           /\ Sound(r, X \cup {t}, T)
           /\ r.current = ListRemove(s.current, t)
           /\ r.value = s.value /\ r.period = s.period /\ r.active = s.active /\ r.left = s.left
  <1> DEFINE r == Removed(s, t)
  <1>1. W \in Nat \ {0}
    BY Bounds
  <1>2. /\ s \in TimerStates /\ s.current \in Seq(Timers) /\ s.overflow \in Seq(Timers)
        /\ s.value \in [Timers -> Int]
    BY StateTypes DEF Sound
  <1>3. /\ r = [s EXCEPT !.current = r.current, !.overflow = r.overflow]
        /\ r.current = ListRemove(s.current, t) /\ r.overflow = ListRemove(s.overflow, t)
        /\ r.value = s.value /\ r.period = s.period /\ r.active = s.active /\ r.left = s.left
    BY <1>2 DEF Removed, TimerStates
  <1> HIDE DEF r
  <1>a. /\ NoDuplicates(s.current) /\ NoDuplicates(s.overflow)
        /\ Ascending(s.current, s.value) /\ Ascending(s.overflow, s.value)
    BY DEF Sound
  <1>b. ASSUME NEW l \in Seq(Timers), NoDuplicates(l), Ascending(l, s.value)
        PROVE  /\ ListRemove(l, t) \in Seq(Timers) /\ NoDuplicates(ListRemove(l, t))
               /\ ToSet(ListRemove(l, t)) = ToSet(l) \ {t}
               /\ Ascending(ListRemove(l, t), s.value)
    BY <1>2, <1>b, ListRemoveProperties
  <1>4. /\ r.current \in Seq(Timers) /\ NoDuplicates(r.current)
        /\ ToSet(r.current) = ToSet(s.current) \ {t} /\ Ascending(r.current, s.value)
    BY <1>2, <1>3, <1>a, <1>b
  <1>5. /\ r.overflow \in Seq(Timers) /\ NoDuplicates(r.overflow)
        /\ ToSet(r.overflow) = ToSet(s.overflow) \ {t} /\ Ascending(r.overflow, s.value)
    BY <1>2, <1>3, <1>a, <1>b
  <1>6. r \in TimerStates
    BY <1>2, <1>3, <1>4, <1>5 DEF TimerStates
  <1>7. /\ ToSet(r.current) \cap ToSet(r.overflow) = {}
        /\ ToSet(r.current) \cup ToSet(r.overflow) = {u \in Timers : r.active[u]} \ (X \cup {t})
    BY <1>3, <1>4, <1>5 DEF Sound
  <1>8. /\ \A u \in ToSet(r.current) : r.value[u] = T + r.left[u]
        /\ \A u \in ToSet(r.overflow) : r.value[u] = T + r.left[u] - W
        /\ \A u \in Timers \ (X \cup {t}) : r.left[u] <= IF r.active[u] THEN r.period[u] ELSE 0
    BY <1>3, <1>4, <1>5 DEF Sound
  <1>9. Sound(r, X \cup {t}, T)
    BY <1>3, <1>4, <1>5, <1>6, <1>7, <1>8 DEF Sound
  <1> QED BY <1>3, <1>9 DEF r

LEMMA DeactivatedSound ==
    ASSUME NEW s, NEW X \in SUBSET Timers, NEW T \in Int, Sound(s, X, T),
           NEW t \in X, s.left[t] <= 0
    PROVE  LET r == Deactivated(s, t) IN
           /\ Sound(r, X \ {t}, T) /\ r.current = s.current /\ r.left = s.left
           /\ \A u \in Timers : r.active[u] => s.active[u]
  <1> DEFINE r == Deactivated(s, t)
  <1>1. W \in Nat \ {0} /\ t \in Timers /\ 0 \in 0 .. W - 1
    BY Bounds
  <1>2. /\ s \in TimerStates /\ s.current \in Seq(Timers) /\ s.overflow \in Seq(Timers)
        /\ s.value \in [Timers -> 0 .. W - 1] /\ s.active \in [Timers -> BOOLEAN]
        /\ s.left \in [Timers -> Int]
    BY StateTypes DEF Sound
  <1>3. /\ r = [s EXCEPT !.active = [s.active EXCEPT ![t] = FALSE],
                         !.value = [s.value EXCEPT ![t] = 0]]
        /\ r.current = s.current /\ r.overflow = s.overflow
        /\ r.period = s.period /\ r.left = s.left
        /\ r.active = [s.active EXCEPT ![t] = FALSE]
        /\ r.value = [s.value EXCEPT ![t] = 0]
    BY <1>2 DEF Deactivated, TimerStates
  <1> HIDE DEF r
  <1>4. /\ r.value \in [Timers -> 0 .. W - 1] /\ r.active \in [Timers -> BOOLEAN]
        /\ r.active[t] = FALSE
        /\ \A u \in Timers : u # t => r.value[u] = s.value[u] /\ r.active[u] = s.active[u]
    BY <1>1, <1>2, <1>3
  <1>5. r \in TimerStates
    BY <1>2, <1>3, <1>4 DEF TimerStates
  <1>6. Sound(r, X, T)
    <2>1. \A u \in Timers \ X : /\ r.value[u] = s.value[u] /\ r.period[u] = s.period[u]
                                 /\ r.active[u] = s.active[u] /\ r.left[u] = s.left[u]
      BY <1>3, <1>4
    <2> QED BY <1>3, <1>5, <2>1, SoundElsewhere
  <1>7. {u \in Timers : r.active[u]} \ (X \ {t}) = {u \in Timers : r.active[u]} \ X
    BY <1>4
  <1>8. \A u \in Timers \ (X \ {t}) : r.left[u] <= IF r.active[u] THEN r.period[u] ELSE 0
    <2>1. \A u \in Timers \ X : r.left[u] <= IF r.active[u] THEN r.period[u] ELSE 0
      BY <1>6 DEF Sound
    <2>2. r.left[t] <= IF r.active[t] THEN r.period[t] ELSE 0
      BY <1>3, <1>4
    <2> QED BY <2>1, <2>2
  <1>9. Sound(r, X \ {t}, T)
    BY <1>6, <1>7, <1>8 DEF Sound
  <1> QED BY <1>3, <1>4, <1>9 DEF r

\* A timer that is in no list and was to expire a ticks before now.
LEMMA ExpiredSound ==
    ASSUME NEW s, NEW X \in SUBSET Timers, NEW T \in Int, Sound(s, X, T),
           NEW t \in X, s.active[t],
           NEW now \in 0 .. W - 1, NEW a \in 0 .. W - 1, now <= T, DueAgo(s, t, T, now, a),
           NEW c, IsAgo(c, now, a)
    PROVE  Leads(s, Expired(s, t, c, now), X \ {t}, T, now)
  <1> DEFINE p == s.period[t]
             m == Missed(p, c, now)
             r == Expired(s, t, c, now)
  <1>1. W \in Nat \ {0} /\ t \in Timers
    BY Bounds
  <1>2. /\ s \in TimerStates /\ s.left \in [Timers -> Int] /\ s.period[t] \in 1 .. W - 1
        /\ s.left[t] \in Int
    BY <1>1, StateTypes DEF Sound
  <1>0. c = (now - a) % W
    BY DEF IsAgo
  <1>3. c = (IF now >= a THEN now - a ELSE now - a + W) /\ c \in 0 .. W - 1
    <2>1. now - a \in -W .. 2 * W - 1 /\ (now - a < 0 <=> ~(now >= a)) /\ now - a < W
      BY <1>1
    <2> QED BY <1>0, <2>1, Wraps
  <1>4. m \in Nat /\ m * p \in Nat /\ m * p <= a /\ a < m * p + p
    BY <1>0, <1>2, MissedPeriods
  <1>5. r = IF autoReload[t]
            THEN Insert([s EXCEPT !.left[t] = @ + (m + 1) * p], t, (c + (m + 1) * p) % W, now)
            ELSE Deactivated(s, t)
    BY DEF Expired
  <1> HIDE DEF m, r
  <1>6. CASE ~autoReload[t]
    <2>1. s.left[t] <= 0
      BY <1>1, <1>2 DEF DueAgo
    <2>2. /\ Sound(r, X \ {t}, T) /\ r.current = s.current
          /\ \A u \in Timers : r.active[u] => s.active[u]
      BY <1>5, <1>6, <2>1, DeactivatedSound
    <2> QED BY <2>2 DEF r, Leads
  <1>7. CASE autoReload[t]
    <2> DEFINE j == (m + 1) * p
               b == j - a
               q == [s EXCEPT !.left[t] = @ + j]
    <2>1. j \in Nat /\ b \in 1 .. p /\ b \in 1 .. W - 1 /\ j = a + b
      <3>1. j = m * p + p
        BY <1>2, <1>4
      <3> HIDE DEF j
      <3> QED BY <1>1, <1>2, <1>4, <3>1
    <2> HIDE DEF j
    <2>2. (c + j) % W = (now + b) % W
      <3> HIDE DEF b
      <3> DEFINE x == now + b
      <3>1. x \in 0 .. 2 * W - 1 /\ (c + j = x \/ c + j = x + W)
        BY <1>1, <1>3, <2>1
      <3> HIDE DEF x
      <3>2. (c + j) % W = x % W
        BY <3>1, WrapsMore
      <3> QED BY <3>2 DEF x
    <2> HIDE DEF b
    <2>3. /\ q = [s EXCEPT !.left = [s.left EXCEPT ![t] = s.left[t] + j]]
          /\ q.current = s.current /\ q.overflow = s.overflow /\ q.value = s.value
          /\ q.period = s.period /\ q.active = s.active
          /\ q.left = [s.left EXCEPT ![t] = s.left[t] + j]
      BY <1>2 DEF TimerStates
    <2> HIDE DEF q
    <2>4. /\ q.left \in [Timers -> Int] /\ q.left[t] = s.left[t] + j
          /\ \A u \in Timers : u # t => q.left[u] = s.left[u]
      BY <1>1, <1>2, <2>1, <2>3
    <2>5. q \in TimerStates
      BY <1>2, <2>3, <2>4 DEF TimerStates
    <2>6. Sound(q, X, T)
      <3>1. \A u \in Timers \ X : /\ q.value[u] = s.value[u] /\ q.period[u] = s.period[u]
                                   /\ q.active[u] = s.active[u] /\ q.left[u] = s.left[u]
        BY <2>3, <2>4
      <3>2. q.current = s.current /\ q.overflow = s.overflow
        BY <2>3
      <3> QED BY <2>5, <3>1, <3>2, SoundElsewhere
    <2>7. DueIn(q, t, T, now, b) /\ q.left[t] <= q.period[t] /\ q.active[t]
      <3>1. q.period[t] = p /\ q.active[t]
        BY <2>3
      <3>2. T + q.left[t] = now + b /\ q.left[t] \in Int
        BY <1>1, <1>2, <2>1, <2>4 DEF DueAgo
      <3>3. q.left[t] <= p
        BY <1>2, <2>1, <3>2
      <3> QED BY <3>1, <3>2, <3>3 DEF DueIn
    <2>8. /\ Sound(Insert(q, t, (now + b) % W, now), X \ {t}, T)
          /\ IsLastTick(now) => Insert(q, t, (now + b) % W, now).current = q.current
      BY <2>1, <2>6, <2>7, InsertSound
    <2>9. r = Insert(q, t, (now + b) % W, now)
      BY <1>5, <1>7, <2>2 DEF q, j
    <2>10. r.active = s.active
      BY <2>3, <2>9, <2>5 DEF Insert, TimerStates
    <2> QED BY <2>3, <2>8, <2>9, <2>10 DEF r, Leads
  <1> QED BY <1>6, <1>7

\* prvProcessExpiredTimer of the first timer of the current list.
LEMMA ProcessSound ==
    ASSUME NEW s, NEW X \in SUBSET Timers, NEW T \in Int, Sound(s, X, T),
           s.current # <<>>, NEW now \in 0 .. W - 1, now <= T, s.value[Head(s.current)] <= now
    PROVE  LET r == ProcessExpiredTimer(s, s.value[Head(s.current)], now) IN
           /\ Sound(r, X, T)
           /\ \A u \in Timers : r.active[u] => s.active[u]
           /\ IsLastTick(now) => r.current = ListRemove(s.current, Head(s.current))
  <1> DEFINE t == Head(s.current)
             q == Removed(s, t)
             a == now - s.value[t]
             r == ProcessExpiredTimer(s, s.value[t], now)
  <1>1. W \in Nat \ {0} /\ s.current \in Seq(Timers)
    BY Bounds, StateTypes DEF Sound
  <1>2. t \in ToSet(s.current) /\ t \in Timers
    <2>1. Len(s.current) > 0 /\ Len(s.current) \in Nat
      BY <1>1, ToSetSeq
    <2>2. t = s.current[1] /\ 1 \in 1 .. Len(s.current)
      BY <1>1, <2>1, HeadTailProperties
    <2> QED BY <1>1, <2>2, ToSetSeq
  <1>3. r = Expired(q, t, s.value[t], now)
    BY DEF ProcessExpiredTimer
  <1> HIDE DEF t, q, r
  <1>4. t \notin X /\ s.active[t] /\ s.value[t] = T + s.left[t]
    BY <1>2 DEF Sound
  <1>5. s.value[t] \in 0 .. W - 1 /\ s.left[t] \in Int
    BY <1>2, StateTypes DEF Sound
  <1>6. /\ Sound(q, X \cup {t}, T)
        /\ q.current = ListRemove(s.current, t)
        /\ q.active = s.active /\ q.left = s.left
    BY <1>2, RemovedSound DEF q
  <1>7. a \in 0 .. W - 1 /\ s.value[t] = now - a
    BY <1>1, <1>5 DEF t
  <1> HIDE DEF a
  <1>8. IsAgo(s.value[t], now, a)
    BY <1>1, <1>5, <1>7 DEF IsAgo
  <1>9. DueAgo(q, t, T, now, a)
    BY <1>1, <1>4, <1>5, <1>6, <1>7 DEF DueAgo
  <1>10. X \cup {t} \in SUBSET Timers /\ t \in X \cup {t} /\ (X \cup {t}) \ {t} = X
    BY <1>2, <1>4
  <1> DEFINE Y == X \cup {t}
  <1> HIDE DEF Y
  <1>11. /\ Y \in SUBSET Timers /\ t \in Y /\ Y \ {t} = X /\ Sound(q, Y, T) /\ q.active[t]
    BY <1>4, <1>6, <1>10 DEF Y
  <1>12. /\ Sound(r, Y \ {t}, T)
         /\ \A u \in Timers : r.active[u] => q.active[u]
         /\ IsLastTick(now) => r.current = q.current
    <2> DEFINE c == s.value[t]
    <2>1. a \in 0 .. W - 1 /\ IsAgo(c, now, a) /\ r = Expired(q, t, c, now)
      BY <1>3, <1>7, <1>8
    <2> HIDE DEF c
    <2>2. Leads(q, Expired(q, t, c, now), Y \ {t}, T, now)
      BY <1>9, <1>11, <2>1, ExpiredSound
    <2> QED BY <2>1, <2>2 DEF Leads
  <1>13. Sound(r, X, T) /\ (\A u \in Timers : r.active[u] => s.active[u])
         /\ (IsLastTick(now) => r.current = ListRemove(s.current, t))
    BY <1>3, <1>6, <1>8, <1>11, <1>12
  <1> QED BY <1>13 DEF r, t

\* One round of the loop of prvSwitchTimerLists.
Round(r, t) == ProcessExpiredTimer(r, r.value[t], W - 1)

AreRounds(round, s, l) ==
    /\ SwitchTimerLists(s) = [round[Len(l)] EXCEPT !.current = round[Len(l)].overflow,
                                                   !.overflow = round[Len(l)].current]
    /\ round[0] = s
    /\ \A k \in 0 .. Len(l) - 1 : round[k + 1] = Round(round[k], l[k + 1])

LEMMA SwitchRounds ==
    ASSUME NEW s, NEW l \in Seq(Timers), s.current = l
    PROVE  \E round : AreRounds(round, s, l)
  <1> DEFINE n == Len(l)
             Fits(f, m) ==
                 \A S \in SUBSET (1 .. m) :
                     f[S] = IF S = {} THEN s ELSE Round(f[S \ {Max(S)}], l[Max(S)])
             Solvable(m) == \E f : Fits(f, m)
             P == [m \in Nat |-> Solvable(m)]
  <1>1. n \in Nat /\ DOMAIN l = 1 .. n
    BY ToSetSeq
  <1> HIDE DEF n
  <1>2. Solvable(0)
    <2>1. SUBSET (1 .. 0) = {{}}
      OBVIOUS
    <2>2. Fits([S \in SUBSET (1 .. 0) |-> s], 0)
      BY <2>1
    <2> QED BY <2>2
  <1>3. ASSUME NEW m \in Nat, Solvable(m) PROVE Solvable(m + 1)
    <2>1. PICK f : Fits(f, m)
      <3> HIDE DEF Fits
      <3> QED BY <1>3
    <2> DEFINE g == [S \in SUBSET (1 .. m + 1) |->
                        IF m + 1 \in S THEN Round(f[S \ {m + 1}], l[m + 1]) ELSE f[S]]
    <2>2. \A S \in SUBSET (1 .. m + 1) : m + 1 \notin S => S \in SUBSET (1 .. m)
      OBVIOUS
    <2>3. Fits(g, m + 1)
      <3> SUFFICES ASSUME NEW S \in SUBSET (1 .. m + 1)
                   PROVE  g[S] = IF S = {} THEN s ELSE Round(g[S \ {Max(S)}], l[Max(S)])
        OBVIOUS
      <3>1. CASE m + 1 \in S
        <4>1. \A y \in S : m + 1 >= y /\ (y >= m + 1 => y = m + 1)
          OBVIOUS
        <4>2. Max(S) = m + 1
          BY <3>1, <4>1 DEF Max
        <4>3. S \ {m + 1} \in SUBSET (1 .. m + 1) /\ m + 1 \notin S \ {m + 1}
          OBVIOUS
        <4>4. g[S \ {m + 1}] = f[S \ {m + 1}]
          BY <4>3
        <4> HIDE DEF Fits
        <4> QED BY <3>1, <4>2, <4>4
      <3>2. CASE m + 1 \notin S
        <4>1. S \in SUBSET (1 .. m)
          BY <3>2, <2>2
        <4>2. S \ {Max(S)} \in SUBSET (1 .. m + 1) /\ m + 1 \notin S \ {Max(S)}
          BY <3>2
        <4>3. g[S] = f[S] /\ g[S \ {Max(S)}] = f[S \ {Max(S)}]
          BY <3>2, <4>2
        <4>4. f[S] = IF S = {} THEN s ELSE Round(f[S \ {Max(S)}], l[Max(S)])
          BY <4>1, <2>1
        <4> QED BY <4>3, <4>4
      <3> QED BY <3>1, <3>2
    <2> HIDE DEF Fits, g
    <2> QED BY <2>3
  <1>4. Solvable(n)
    <2> HIDE DEF Solvable
    <2>1. \A m \in Nat : P[m] <=> Solvable(m)
      OBVIOUS
    <2> HIDE DEF P
    <2>2. P[0] /\ \A m \in Nat : P[m] => P[m + 1]
      BY <1>2, <1>3, <2>1
    <2>3. \A m \in Nat : P[m]
      BY <2>2, Induction
    <2> QED BY <1>1, <2>1, <2>3
  <1>5. PICK f : Fits(f, n)
    <2> HIDE DEF Fits
    <2> QED BY <1>4
  <1> DEFINE Solves(g) == g = [S \in SUBSET DOMAIN l |->
                 IF S = {} THEN s ELSE Round(g[S \ {Max(S)}], l[Max(S)])]
             h == [S \in SUBSET DOMAIN l |-> f[S]]
             g == CHOOSE iter : Solves(iter)
             round == [k \in 0 .. n |-> g[1 .. k]]
  <1>6. Solves(h)
    <2>1. ASSUME NEW S \in SUBSET DOMAIN l
          PROVE  h[S] = IF S = {} THEN s ELSE Round(h[S \ {Max(S)}], l[Max(S)])
      <3>1. S \in SUBSET (1 .. n) /\ S \ {Max(S)} \in SUBSET DOMAIN l
        BY <1>1
      <3>2. h[S] = f[S] /\ h[S \ {Max(S)}] = f[S \ {Max(S)}]
        BY <3>1
      <3>3. f[S] = IF S = {} THEN s ELSE Round(f[S \ {Max(S)}], l[Max(S)])
        BY <1>5, <3>1
      <3> QED BY <3>2, <3>3
    <2> DEFINE e == [S \in SUBSET DOMAIN l |->
                       IF S = {} THEN s ELSE Round(h[S \ {Max(S)}], l[Max(S)])]
    <2>2. \A S \in SUBSET DOMAIN l : h[S] = e[S]
      BY <2>1
    <2>3. h = e
      BY <2>2
    <2> QED BY <2>3
  <1>7. Solves(g)
    <2> HIDE DEF Solves, h
    <2> QED BY <1>6
  <1> DEFINE done == g[DOMAIN l]
  <1>8. SwitchTimerLists(s) = [done EXCEPT !.current = done.overflow, !.overflow = done.current]
    BY DEF SwitchTimerLists, FoldLeft, MapThenFoldSet, Round
  <1> HIDE DEF g, h
  <1>9. \A k \in 0 .. n : round[k] = g[1 .. k]
    OBVIOUS
  <1> HIDE DEF round
  <1>10. done = round[n]
    BY <1>1, <1>9
  <1>11. round[0] = s
    <2>1. 1 .. 0 = {} /\ {} \in SUBSET DOMAIN l
      OBVIOUS
    <2>2. g[{}] = s
      BY <1>7, <2>1
    <2> QED BY <1>1, <1>9, <2>1, <2>2
  <1>12. ASSUME NEW k \in 0 .. n - 1 PROVE round[k + 1] = Round(round[k], l[k + 1])
    <2>1. k \in Nat /\ k \in 0 .. n /\ k + 1 \in 0 .. n /\ 1 .. k + 1 \in SUBSET DOMAIN l
      BY <1>1
    <2>2. /\ Max(1 .. k + 1) = k + 1
          /\ (1 .. k + 1) \ {k + 1} = 1 .. k
          /\ 1 .. k + 1 # {}
      BY <2>1, FirstPlaces
    <2>3. g[1 .. k + 1] = Round(g[(1 .. k + 1) \ {Max(1 .. k + 1)}], l[Max(1 .. k + 1)])
      BY <1>7, <2>1, <2>2
    <2> QED BY <1>9, <2>1, <2>2, <2>3
  <1> HIDE DEF done
  <1>13. AreRounds(round, s, l)
    BY <1>8, <1>10, <1>11, <1>12 DEF n, AreRounds
  <1> QED BY <1>13

\* When the tick count wraps, nothing is left in the list that is over: what was in it
\* has expired, and what reloads is in the other list.
LEMMA SwitchSound ==
    ASSUME NEW s, NEW X \in SUBSET Timers, NEW T \in W .. 2 * W - 1, Sound(s, X, T)
    PROVE  LET r == SwitchTimerLists(s) IN
           /\ Sound(r, X, T - W)
           /\ \A u \in Timers : r.active[u] => s.active[u]
  <1> DEFINE l == s.current
             n == Len(l)
  <1>1. W \in Nat \ {0} /\ T \in Int /\ l \in Seq(Timers) /\ n \in Nat /\ NoDuplicates(l)
    BY Bounds, StateTypes, ToSetSeq DEF Sound
  <1>2. PICK round :
           /\ SwitchTimerLists(s) = [round[n] EXCEPT !.current = round[n].overflow,
                                                     !.overflow = round[n].current]
           /\ round[0] = s
           /\ \A k \in 0 .. n - 1 : round[k + 1] = Round(round[k], l[k + 1])
    <2>1. \E round : AreRounds(round, s, l)
      BY <1>1, SwitchRounds
    <2> QED BY <2>1 DEF AreRounds
  <1> DEFINE Holds(k) == k <= n => /\ Sound(round[k], X, T)
                                   /\ round[k].current = RestOf(l, k)
                                   /\ \A u \in Timers : round[k].active[u] => s.active[u]
             P == [k \in Nat |-> Holds(k)]
  <1> HIDE DEF n, l
  <1>3. Holds(0)
    BY <1>1, <1>2, RestAtEnds DEF l
  <1>4. ASSUME NEW k \in Nat, Holds(k) PROVE Holds(k + 1)
    <2> SUFFICES ASSUME k + 1 <= n
                 PROVE  /\ Sound(round[k + 1], X, T)
                        /\ round[k + 1].current = RestOf(l, k + 1)
                        /\ \A u \in Timers : round[k + 1].active[u] => s.active[u]
      OBVIOUS
    <2> DEFINE q == round[k]
               t == Head(q.current)
    <2>1. /\ Sound(q, X, T) /\ q.current = RestOf(l, k)
          /\ \A u \in Timers : q.active[u] => s.active[u]
      BY <1>1, <1>4
    <2>2. k < n /\ k \in 0 .. n - 1
      BY <1>1
    <2>3. /\ q.current # <<>> /\ t = l[k + 1]
          /\ ListRemove(q.current, t) = RestOf(l, k + 1)
      BY <1>1, <2>1, <2>2, RestHead DEF n
    <2>4. q.current \in Seq(Timers) /\ t \in Timers
      <3>1. l[k + 1] \in Timers
        BY <1>1, <2>2, ElementOfSeq DEF n
      <3> QED BY <2>1, <2>3, <3>1, StateTypes DEF Sound
    <2>5. q.value[t] \in 0 .. W - 1
      BY <2>1, <2>4, StateTypes DEF Sound
    <2>6. W - 1 \in 0 .. W - 1 /\ W - 1 <= T /\ q.value[t] <= W - 1 /\ IsLastTick(W - 1)
      BY <1>1, <2>5 DEF IsLastTick
    <2>7. round[k + 1] = ProcessExpiredTimer(q, q.value[t], W - 1)
      BY <1>2, <2>2, <2>3 DEF Round
    <2> HIDE DEF q
    <2>8. LET r == ProcessExpiredTimer(q, q.value[t], W - 1) IN
          /\ Sound(r, X, T)
          /\ \A u \in Timers : r.active[u] => q.active[u]
          /\ r.current = ListRemove(q.current, t)
      <3> DEFINE now == W - 1
      <3>1. now \in 0 .. W - 1 /\ now <= T /\ q.value[t] <= now /\ IsLastTick(now)
        BY <2>6
      <3> HIDE DEF now
      <3>2. LET r == ProcessExpiredTimer(q, q.value[t], now) IN
            /\ Sound(r, X, T)
            /\ \A u \in Timers : r.active[u] => q.active[u]
            /\ r.current = ListRemove(q.current, t)
        BY <1>1, <2>1, <2>3, <3>1, ProcessSound
      <3> QED BY <3>2 DEF now
    <2> QED BY <2>1, <2>3, <2>7, <2>8
  <1>5. Holds(n)
    <2> HIDE DEF Holds
    <2>1. \A k \in Nat : P[k] <=> Holds(k)
      OBVIOUS
    <2> HIDE DEF P
    <2>2. P[0] /\ \A k \in Nat : P[k] => P[k + 1]
      BY <1>3, <1>4, <2>1
    <2>3. \A k \in Nat : P[k]
      BY <2>2, Induction
    <2> QED BY <1>1, <2>1, <2>3
  <1> DEFINE d == round[n]
             r == SwitchTimerLists(s)
  <1>6. /\ Sound(d, X, T) /\ d.current = <<>>
        /\ \A u \in Timers : d.active[u] => s.active[u]
    BY <1>1, <1>5, RestAtEnds DEF n
  <1>7. r = [d EXCEPT !.current = d.overflow, !.overflow = d.current]
    BY <1>2
  <1> HIDE DEF d, r
  <1>8. d \in TimerStates /\ d.overflow \in Seq(Timers) /\ d.left \in [Timers -> Int]
        /\ ToSet(d.overflow) \subseteq Timers
    BY <1>6, StateTypes DEF Sound
  <1>9. /\ r.current = d.overflow /\ r.overflow = <<>> /\ r.value = d.value
        /\ r.period = d.period /\ r.active = d.active /\ r.left = d.left
    BY <1>6, <1>7, <1>8 DEF TimerStates
  <1>10. r \in TimerStates
    BY <1>6, <1>7, <1>8 DEF TimerStates
  <1>11. ToSet(<<>>) = {} /\ NoDuplicates(<<>>) /\ Ascending(<<>>, r.value)
    <2>1. <<>> \in Seq(Timers) /\ Len(<<>>) = 0 /\ DOMAIN <<>> = {}
      BY EmptySeq
    <2> QED BY <2>1, ToSetSeq DEF NoDuplicates, Ascending
  <1>12. /\ NoDuplicates(r.current) /\ NoDuplicates(r.overflow)
         /\ ToSet(r.current) \cap ToSet(r.overflow) = {}
         /\ ToSet(r.current) \cup ToSet(r.overflow) = {t \in Timers : r.active[t]} \ X
         /\ Ascending(r.current, r.value) /\ Ascending(r.overflow, r.value)
    BY <1>6, <1>9, <1>11 DEF Sound
  <1>13. \A t \in ToSet(r.current) : r.value[t] = T - W + r.left[t]
    <2> SUFFICES ASSUME NEW t \in ToSet(d.overflow) PROVE d.value[t] = T - W + d.left[t]
      BY <1>9
    <2>1. d.value[t] = T + d.left[t] - W
      BY <1>6 DEF Sound
    <2>2. d.left[t] \in Int
      BY <1>8
    <2> QED BY <1>1, <2>1, <2>2
  <1>14. \A t \in ToSet(r.overflow) : r.value[t] = T - W + r.left[t] - W
    BY <1>9, <1>11
  <1>15. \A t \in Timers \ X : r.left[t] <= IF r.active[t] THEN r.period[t] ELSE 0
    BY <1>6, <1>9 DEF Sound
  <1>16. Sound(r, X, T - W)
    BY <1>10, <1>12, <1>13, <1>14, <1>15 DEF Sound
  <1> QED BY <1>6, <1>9, <1>16 DEF r

-----------------------------------------------------------------------------
(***************************************************************************)
(* The inductive invariant                                                 *)
(***************************************************************************)

Types ==
    /\ xTickCount \in 0 .. W - 1 /\ xLastTime \in 0 .. W - 1
    /\ autoReload \in [Timers -> BOOLEAN]
    /\ xTimerQueue \in Seq(Messages) /\ Len(xTimerQueue) <= QueueLength
    /\ pc \in {"query", "expire", "commands", "blocked"}
    /\ xNextExpireTime \in 0 .. W - 1 /\ xTimeNow \in 0 .. W - 1
    /\ ticksToWait \in 0 .. W /\ late \in 0 .. MaxLate

\* The time as it would be had the tick count not wrapped since the last sample.
Time == xLastTime + Elapsed

\* A start command carries the tick count at its call.
AgesTrue ==
    \A i \in DOMAIN xTimerQueue :
        xTimerQueue[i].id = "start" =>
            xTimerQueue[i].value = (xTickCount - xTimerQueue[i].age) % W

\* What the timer task found before it resumed the scheduler is still there.
FirstFound ==
    pc = "expire" =>
        /\ timers.current # <<>>
        /\ xNextExpireTime = timers.value[Head(timers.current)]
        /\ xTimeNow = xLastTime /\ xNextExpireTime <= xTimeNow

\* While a timer runs the next sample comes before the tick count has gone all the way
\* round, however long the timer task is to sleep and is kept waiting.
SampledInTime ==
    (\E t \in Timers : timers.active[t]) =>
        Elapsed + (IF pc = "blocked" THEN ticksToWait + MaxLate ELSE MaxLate - late) < W

SleepsUntil == pc = "blocked" => ticksToWait >= 1

TimersInv ==
    /\ Types /\ Sound(timers, {}, Time) /\ AgesTrue /\ FirstFound
    /\ SampledInTime /\ SleepsUntil /\ AwakeInTime

\* The wrap is noticed by comparing two samples.
LEMMA TimeIs ==
    ASSUME Types
    PROVE  /\ Elapsed = (IF Wrapped THEN xTickCount - xLastTime + W ELSE xTickCount - xLastTime)
           /\ Time = (IF Wrapped THEN xTickCount + W ELSE xTickCount)
           /\ Elapsed \in 0 .. W - 1 /\ Time \in Int
  <1> DEFINE x == xTickCount - xLastTime
  <1>1. W \in Nat \ {0} /\ xTickCount \in 0 .. W - 1 /\ xLastTime \in 0 .. W - 1
    BY Bounds DEF Types
  <1>2. x \in -W .. 2 * W - 1 /\ x < W /\ (x < 0 <=> Wrapped) /\ x \in Int
        /\ Elapsed = x % W
    BY <1>1 DEF Wrapped, Elapsed
  <1> HIDE DEF x
  <1>3. Elapsed = (IF Wrapped THEN x + W ELSE x) /\ Elapsed \in 0 .. W - 1
    BY <1>2, Wraps
  <1> QED BY <1>1, <1>3 DEF x, Time

LEMMA TimeAtSample ==
    ASSUME Types, xTickCount' = xTickCount, xLastTime' = xTickCount
    PROVE  Elapsed' = 0 /\ Time' = xTickCount
  <1>1. W \in Nat \ {0} /\ xTickCount \in 0 .. W - 1
    BY Bounds DEF Types
  <1>2. Elapsed' = (xTickCount - xTickCount) % W
    BY DEF Elapsed
  <1>3. Elapsed' = 0
    BY <1>1, <1>2
  <1> QED BY <1>1, <1>3 DEF Time

\* If a timer runs there is a period.
LEMMA Lateness ==
    ASSUME NEW s \in TimerStates, \E t \in Timers : s.active[t]
    PROVE  MaxLate < W
  <1>1. PICK t \in Timers : TRUE
    OBVIOUS
  <1>2. s.period[t] \in 1 .. W - 1 /\ s.period[t] + MaxLate < W
    BY StateTypes
  <1> QED BY <1>2, Bounds

\* prvSampleTimeNow: from then on the tick count itself is the time of the lists.
LEMMA SampledSound ==
    ASSUME Types, NEW s, NEW X \in SUBSET Timers, Sound(s, X, Time)
    PROVE  /\ Sound(Sampled(s), X, xTickCount)
           /\ \A u \in Timers : Sampled(s).active[u] => s.active[u]
  <1>1. W \in Nat \ {0} /\ xTickCount \in 0 .. W - 1
    BY Bounds DEF Types
  <1>2. CASE Wrapped
    <2> DEFINE T == xTickCount + W
    <2>1. T = Time /\ T \in W .. 2 * W - 1 /\ T - W = xTickCount
      BY <1>1, <1>2, TimeIs
    <2> HIDE DEF T
    <2>2. LET r == SwitchTimerLists(s) IN
          /\ Sound(r, X, T - W)
          /\ \A u \in Timers : r.active[u] => s.active[u]
      BY <2>1, SwitchSound
    <2> QED BY <1>2, <2>1, <2>2 DEF Sampled
  <1>3. CASE ~Wrapped
    BY <1>3, TimeIs DEF Sampled
  <1> QED BY <1>2, <1>3

LEMMA InvInit ==
    ASSUME Init PROVE TimersInv
  <1>1. W \in Nat \ {0} /\ MaxLate \in Nat /\ QueueLength \in Nat \ {0}
    BY Bounds
  <1>2. Types
    <2>1. <<>> \in Seq(Messages) /\ Len(<<>>) = 0
      BY EmptySeq
    <2> QED BY <1>1, <2>1 DEF Init, Types
  <1>3. PICK p \in [Timers -> Periods] :
           timers = [current |-> <<>>, overflow |-> <<>>,
                     value  |-> [t \in Timers |-> 0], period |-> p,
                     active |-> [t \in Timers |-> FALSE],
                     left   |-> [t \in Timers |-> 0]]
    BY DEF Init
  <1>4. /\ timers.current = <<>> /\ timers.overflow = <<>>
        /\ timers.value = [t \in Timers |-> 0] /\ timers.active = [t \in Timers |-> FALSE]
        /\ timers.left = [t \in Timers |-> 0]
    BY <1>3
  <1>5. timers \in TimerStates
    <2>1. <<>> \in Seq(Timers) /\ 0 \in 0 .. W - 1
      BY <1>1, EmptySeq
    <2> QED BY <1>3, <2>1 DEF TimerStates
  <1>6. ToSet(<<>>) = {} /\ NoDuplicates(<<>>) /\ Ascending(<<>>, timers.value)
    <2>1. <<>> \in Seq(Timers) /\ Len(<<>>) = 0 /\ DOMAIN <<>> = {}
      BY EmptySeq
    <2> QED BY <2>1, ToSetSeq DEF NoDuplicates, Ascending
  <1>7. Sound(timers, {}, Time)
    BY <1>4, <1>5, <1>6 DEF Sound
  <1>8. AgesTrue
    <2>1. xTimerQueue = <<>> /\ DOMAIN <<>> = {}
      BY EmptySeq DEF Init
    <2> QED BY <2>1 DEF AgesTrue
  <1>9. FirstFound /\ SleepsUntil /\ AwakeInTime
    BY DEF Init, FirstFound, SleepsUntil, AwakeInTime
  <1>10. SampledInTime
    BY <1>4 DEF SampledInTime
  <1> QED BY <1>2, <1>7, <1>8, <1>9, <1>10 DEF TimersInv

-----------------------------------------------------------------------------
(***************************************************************************)
(* The timer task keeps it                                                 *)
(***************************************************************************)

\* It sleeps no longer than until the first timer is due.
LEMMA BlockTimeShort ==
    ASSUME Types, Sound(timers, {}, xTickCount),
           NEW next,
           next = IF timers.current = <<>> THEN 0 ELSE timers.value[Head(timers.current)],
           ~(timers.current # <<>> /\ next <= xTickCount)
    PROVE  /\ BlockTime(timers, next) \in 1 .. W
           /\ \A t \in Timers : timers.active[t] =>
                 timers.left[t] > 0 /\ BlockTime(timers, next) <= timers.left[t]
  <1> DEFINE B == BlockTime(timers, next)
             l == timers.current
  <1>1. W \in Nat \ {0} /\ xTickCount \in 0 .. W - 1
    BY Bounds DEF Types
  <1>2. /\ l \in Seq(Timers) /\ timers.overflow \in Seq(Timers)
        /\ ToSet(l) \subseteq Timers /\ ToSet(timers.overflow) \subseteq Timers
        /\ \A t \in Timers : timers.value[t] \in 0 .. W - 1 /\ timers.left[t] \in Int
    BY StateTypes DEF Sound
  <1>3. \A t \in Timers : timers.active[t] => t \in ToSet(l) \/ t \in ToSet(timers.overflow)
    BY DEF Sound
  <1>4. /\ \A t \in ToSet(l) : timers.value[t] = xTickCount + timers.left[t]
        /\ \A t \in ToSet(timers.overflow) : timers.value[t] = xTickCount + timers.left[t] - W
    BY DEF Sound
  <1>5. CASE l = <<>> /\ timers.overflow = <<>>
    <2>1. ToSet(l) = {} /\ ToSet(timers.overflow) = {}
      BY <1>2, <1>5, ToSetSeq
    <2>2. B = W
      BY <1>5 DEF BlockTime
    <2> QED BY <1>1, <1>3, <2>1, <2>2
  <1>6. CASE l # <<>>
    <2> DEFINE h == Head(l)
    <2>1. h \in ToSet(l) /\ \A t \in ToSet(l) : timers.value[h] <= timers.value[t]
      <3>1. Len(l) \in Nat /\ Len(l) > 0 /\ DOMAIN l = 1 .. Len(l) /\ h = l[1]
        BY <1>2, <1>6, ToSetSeq, HeadTailProperties
      <3>2. 1 \in 1 .. Len(l)
        BY <3>1
      <3>3. h \in ToSet(l)
        BY <1>2, <3>1, <3>2, ToSetSeq
      <3>4. ASSUME NEW t \in ToSet(l) PROVE timers.value[h] <= timers.value[t]
        <4>1. PICK i \in 1 .. Len(l) : l[i] = t
          BY <1>2, ToSetSeq
        <4>2. CASE i = 1
          BY <1>2, <3>1, <3>3, <4>1, <4>2
        <4>3. CASE i # 1
          <5>1. 1 < i
            BY <3>1, <4>3
          <5> QED BY <3>1, <3>2, <4>1, <5>1 DEF Sound, Ascending
        <4> QED BY <4>2, <4>3
      <3> QED BY <3>3, <3>4
    <2> HIDE DEF h
    <2>2. next = timers.value[h] /\ next \in 0 .. W - 1 /\ xTickCount < next
      <3>1. next = timers.value[h]
        BY <1>6 DEF h
      <3>2. next \in 0 .. W - 1
        BY <1>2, <2>1, <3>1
      <3> QED BY <1>1, <1>6, <3>1, <3>2
    <2>3. B = next - xTickCount
      <3>1. next - xTickCount \in 0 .. W - 1 /\ next # xTickCount
        BY <1>1, <2>2
      <3>2. (next - xTickCount) % W = next - xTickCount
        <4> DEFINE x == next - xTickCount
        <4>1. x \in -W .. 2 * W - 1 /\ ~(x < 0) /\ x < W
          BY <1>1, <2>2
        <4> HIDE DEF x
        <4>2. x % W = x
          BY <4>1, Wraps
        <4> QED BY <4>2 DEF x
      <3> QED BY <1>6, <3>1, <3>2 DEF BlockTime
    <2>4. ASSUME NEW t \in ToSet(l) PROVE next - xTickCount <= timers.left[t]
      <3>1. t \in Timers /\ timers.value[t] = xTickCount + timers.left[t] /\ next <= timers.value[t]
        BY <1>2, <1>4, <2>1, <2>2
      <3>2. timers.left[t] \in Int /\ timers.value[t] \in 0 .. W - 1
        BY <1>2, <3>1
      <3> QED BY <1>1, <2>2, <3>1, <3>2
    <2>5. ASSUME NEW t \in ToSet(timers.overflow) PROVE next - xTickCount <= timers.left[t]
      <3>1. t \in Timers /\ timers.value[t] = xTickCount + timers.left[t] - W
        BY <1>2, <1>4
      <3>2. timers.left[t] \in Int /\ timers.value[t] \in 0 .. W - 1
        BY <1>2, <3>1
      <3> QED BY <1>1, <2>2, <3>1, <3>2
    <2>6. next - xTickCount \in 1 .. W
      BY <1>1, <2>2
    <2> HIDE DEF l, B
    <2>7. ASSUME NEW t \in Timers, timers.active[t]
          PROVE  timers.left[t] > 0 /\ B <= timers.left[t]
      <3>1. B <= timers.left[t] /\ B \in 1 .. W /\ timers.left[t] \in Int
        BY <1>2, <1>3, <2>3, <2>4, <2>5, <2>6, <2>7
      <3> QED BY <1>1, <3>1
    <2> QED BY <2>3, <2>6, <2>7 DEF B
  <1>7. CASE l = <<>> /\ timers.overflow # <<>>
    <2>1. next = 0 /\ ToSet(l) = {}
      BY <1>2, <1>7, ToSetSeq
    <2>2. B \in 1 .. W /\ B <= W - xTickCount
      <3>1. CASE xTickCount = 0
        <4>1. B = 1
          BY <1>7, <2>1, <3>1 DEF BlockTime
        <4> QED BY <1>1, <3>1, <4>1
      <3>2. CASE xTickCount # 0
        <4> DEFINE x == 0 - xTickCount
        <4>1. x \in -W .. 2 * W - 1 /\ x < 0 /\ x + W = W - xTickCount
          BY <1>1, <3>2
        <4>2. B = x % W
          BY <1>7, <2>1, <3>2 DEF BlockTime
        <4> HIDE DEF x, B
        <4>3. B = x + W
          BY <4>1, <4>2, Wraps
        <4> QED BY <1>1, <3>2, <4>1, <4>3
      <3> QED BY <3>1, <3>2
    <2> HIDE DEF B
    <2>3. ASSUME NEW t \in Timers, timers.active[t]
          PROVE  timers.left[t] > 0 /\ B <= timers.left[t]
      <3>1. t \in ToSet(timers.overflow)
        BY <1>3, <2>1, <2>3
      <3>2. timers.value[t] = xTickCount + timers.left[t] - W
        BY <1>4, <3>1
      <3>3. timers.left[t] \in Int /\ timers.value[t] \in 0 .. W - 1
        BY <1>2
      <3> QED BY <1>1, <2>2, <3>2, <3>3
    <2> QED BY <2>2, <2>3 DEF B
  <1> QED BY <1>5, <1>6, <1>7

\* What a sample leaves to show.
LEMMA AfterSample ==
    ASSUME TimersInv, Sample, UNCHANGED xTickCount, NEW X, X = timers',
           Sound(X, {}, xTickCount), Types', AgesTrue', pc' # "expire", pc' # "blocked"
    PROVE  TimersInv'
  <1>1. Types /\ W \in Nat \ {0} /\ MaxLate \in Nat
    BY Bounds DEF TimersInv
  <1>2. Elapsed' = 0 /\ Time' = xTickCount /\ late' = 0
    BY <1>1, TimeAtSample DEF Sample
  <1>3. Sound(timers, {}, Time)'
    <2>1. Sound(timers', {}, Time')
      BY <1>2
    <2> QED BY <2>1 DEF Sound, TimerStates
  <1>4. FirstFound' /\ SleepsUntil' /\ AwakeInTime'
    BY DEF FirstFound, SleepsUntil, AwakeInTime
  <1>5. SampledInTime'
    <2> SUFFICES ASSUME (\E t \in Timers : timers.active[t])' PROVE 0 + (MaxLate - 0) < W
      BY <1>2 DEF SampledInTime
    <2>1. X \in TimerStates /\ \E t \in Timers : X.active[t]
      BY DEF Sound
    <2>2. MaxLate < W
      BY <2>1, Lateness
    <2> QED BY <1>1, <2>2
  <1> QED BY <1>3, <1>4, <1>5 DEF TimersInv

LEMMA InvProcessTimerOrBlock ==
    ASSUME TimersInv, ProcessTimerOrBlock PROVE TimersInv'
  <1> DEFINE next == IF timers.current = <<>> THEN 0 ELSE timers.value[Head(timers.current)]
             due  == timers.current # <<>> /\ next <= xTickCount
  <1>1. /\ Types /\ Sound(timers, {}, Time) /\ AgesTrue
        /\ W \in Nat \ {0} /\ MaxLate \in Nat /\ QueueLength \in Nat \ {0}
    BY Bounds DEF TimersInv
  <1>2. /\ timers' = Sampled(timers) /\ Sample
        /\ UNCHANGED <<xTickCount, autoReload, xTimerQueue>>
    BY DEF ProcessTimerOrBlock
  <1>3. Sound(Sampled(timers), {}, xTickCount)
    BY <1>1, SampledSound
  <1>4. AgesTrue'
    BY <1>1, <1>2 DEF AgesTrue
  <1>5. 0 \in 0 .. MaxLate
    BY <1>1
  <1>6. ASSUME pc' = "commands", UNCHANGED <<xNextExpireTime, xTimeNow, ticksToWait>>
        PROVE  TimersInv'
    <2>1. Types'
      BY <1>1, <1>2, <1>5, <1>6 DEF Types, Sample
    <2> QED BY <1>2, <1>3, <1>4, <1>6, <2>1, AfterSample
  <1>7. next \in 0 .. W - 1
    <2>1. CASE timers.current = <<>>
      BY <1>1, <2>1
    <2>2. CASE timers.current # <<>>
      <3>1. timers.current \in Seq(Timers)
        BY <1>1, StateTypes DEF Sound
      <3>2. Head(timers.current) \in Timers
        BY <2>2, <3>1, HeadTailProperties
      <3>3. timers.value[Head(timers.current)] \in 0 .. W - 1
        BY <1>1, <3>2, StateTypes DEF Sound
      <3> QED BY <2>2, <3>3
    <2> QED BY <2>1, <2>2
  <1>8. /\ Elapsed' = 0 /\ Time' = xTickCount /\ late' = 0 /\ xLastTime' = xTickCount
        /\ xTickCount' = xTickCount
    BY <1>1, <1>2, TimeAtSample DEF Sample
  <1>9. Sound(timers, {}, Time)'
    <2>1. Sound(timers', {}, Time')
      BY <1>2, <1>3, <1>8
    <2> QED BY <2>1 DEF Sound, TimerStates
  <1>10. ASSUME ~Wrapped, due, pc' = "expire", xNextExpireTime' = next, xTimeNow' = xTickCount,
                UNCHANGED ticksToWait
         PROVE  TimersInv'
    <2>1. timers' = timers
      BY <1>2, <1>10 DEF Sampled
    <2> HIDE DEF next
    <2>2. Types'
      BY <1>1, <1>2, <1>5, <1>7, <1>10 DEF Types, Sample
    <2>3. FirstFound'
      BY <1>8, <1>10, <2>1 DEF FirstFound, next
    <2>4. SleepsUntil' /\ AwakeInTime'
      BY <1>10 DEF SleepsUntil, AwakeInTime
    <2>5. SampledInTime'
      <3> SUFFICES ASSUME \E t \in Timers : timers.active[t] PROVE 0 + (MaxLate - 0) < W
        BY <1>8, <1>10, <2>1 DEF SampledInTime
      <3>1. MaxLate < W
        BY <1>1, Lateness DEF Sound
      <3> QED BY <1>1, <3>1
    <2> QED BY <1>4, <1>9, <2>2, <2>3, <2>4, <2>5 DEF TimersInv
  <1>11. ASSUME ~Wrapped, ~due, pc' = "blocked", ticksToWait' = BlockTime(timers, next),
                UNCHANGED <<xNextExpireTime, xTimeNow>>
         PROVE  TimersInv'
    <2>1. timers' = timers /\ Sound(timers, {}, xTickCount)
      BY <1>2, <1>3, <1>11 DEF Sampled
    <2> DEFINE B == BlockTime(timers, next)
    <2>2. /\ B \in 1 .. W
          /\ \A t \in Timers : timers.active[t] => timers.left[t] > 0 /\ B <= timers.left[t]
      BY <1>1, <1>11, <2>1, BlockTimeShort
    <2> HIDE DEF B, next
    <2>3. ticksToWait' = B /\ B \in 0 .. W
      BY <1>1, <1>11, <2>2 DEF B
    <2>4. Types'
      BY <1>1, <1>2, <1>5, <1>11, <2>3 DEF Types, Sample
    <2>5. FirstFound' /\ SleepsUntil' /\ AwakeInTime'
      BY <1>1, <1>11, <2>1, <2>2, <2>3 DEF FirstFound, SleepsUntil, AwakeInTime
    <2>6. SampledInTime'
      <3> SUFFICES ASSUME NEW t \in Timers, timers.active[t] PROVE 0 + (B + MaxLate) < W
        BY <1>8, <1>11, <2>1, <2>3 DEF SampledInTime
      <3>1. B <= timers.left[t] /\ timers.left[t] <= timers.period[t]
        BY <2>1, <2>2 DEF Sound
      <3>2. /\ timers.period[t] \in 1 .. W - 1 /\ timers.left[t] \in Int
            /\ timers.period[t] + MaxLate < W
        BY <1>1, StateTypes DEF Sound
      <3> QED BY <1>1, <2>2, <3>1, <3>2
    <2> QED BY <1>4, <1>9, <2>4, <2>5, <2>6 DEF TimersInv
  <1> QED BY <1>6, <1>10, <1>11 DEF ProcessTimerOrBlock

LEMMA InvProcessExpired ==
    ASSUME TimersInv, ProcessExpired PROVE TimersInv'
  <1>1. /\ Types /\ Sound(timers, {}, Time) /\ AgesTrue /\ FirstFound /\ SampledInTime
        /\ W \in Nat \ {0} /\ MaxLate \in Nat
    BY Bounds DEF TimersInv
  <1>2. /\ pc = "expire" /\ pc' = "commands"
        /\ timers' = ProcessExpiredTimer(timers, xNextExpireTime, xTimeNow)
        /\ xNextExpireTime' = 0 /\ xTimeNow' = 0
        /\ UNCHANGED <<xTickCount, xLastTime, autoReload, xTimerQueue, ticksToWait, late>>
    BY DEF ProcessExpired
  <1>3. xTimeNow \in 0 .. W - 1 /\ xTimeNow <= Time
    <2>1. xTimeNow = xLastTime /\ xTimeNow \in 0 .. W - 1
      BY <1>1, <1>2 DEF FirstFound, Types
    <2> QED BY <1>1, <2>1, TimeIs DEF Time
  <1>4. /\ timers.current # <<>> /\ xNextExpireTime = timers.value[Head(timers.current)]
        /\ timers.value[Head(timers.current)] <= xTimeNow
    BY <1>1, <1>2 DEF FirstFound
  <1>5. Time \in Int /\ {} \in SUBSET Timers
    BY <1>1, TimeIs
  <1>6. /\ Sound(timers', {}, Time)
        /\ \A u \in Timers : timers'.active[u] => timers.active[u]
    BY <1>1, <1>2, <1>3, <1>4, <1>5, ProcessSound
  <1>7. Elapsed' = Elapsed /\ Time' = Time
    BY <1>2 DEF Elapsed, Time
  <1>8. Sound(timers, {}, Time)'
    <2>1. Sound(timers', {}, Time')
      BY <1>6, <1>7
    <2> QED BY <2>1 DEF Sound, TimerStates
  <1>9. Types'
    <2>1. 0 \in 0 .. W - 1
      BY <1>1
    <2> QED BY <1>1, <1>2, <2>1 DEF Types
  <1>10. AgesTrue' /\ FirstFound' /\ SleepsUntil' /\ AwakeInTime'
    BY <1>1, <1>2 DEF AgesTrue, FirstFound, SleepsUntil, AwakeInTime
  <1>11. SampledInTime'
    BY <1>1, <1>2, <1>6, <1>7 DEF SampledInTime
  <1> QED BY <1>8, <1>9, <1>10, <1>11 DEF TimersInv

\* The timer of a command that is to start it, whatever its state was, and the lists.
LEMMA StartedSound ==
    ASSUME NEW s, NEW message, NEW t \in Timers, message.timer = t,
           Sound(s, {t}, xTickCount), xTickCount \in 0 .. W - 1,
           message.age \in 0 .. W - 1, message.value = (xTickCount - message.age) % W
    PROVE  Sound(Started(s, message), {}, xTickCount)
  <1> DEFINE now == xTickCount
             X == {t}
             age == message.age
             value == message.value
             p == s.period[t]
             r == [s EXCEPT !.active[t] = TRUE, !.left[t] = p - age]
             c == (value + p) % W
  <1>1. W \in Nat \ {0} /\ now \in 0 .. W - 1 /\ now \in Int /\ age \in 0 .. W - 1
        /\ X \in SUBSET Timers /\ t \in X /\ X \ {t} = {}
    BY Bounds
  <1>2. /\ s \in TimerStates /\ s.left \in [Timers -> Int] /\ s.active \in [Timers -> BOOLEAN]
        /\ p \in 1 .. W - 1
    BY StateTypes DEF Sound
  <1>3. Started(s, message) = IF ProcessNow(p, value, now) THEN Expired(r, t, c, now)
                              ELSE Insert(r, t, c, now)
    BY DEF Started
  <1>a. value = (now - age) % W
    OBVIOUS
  <1>4. ProcessNow(p, value, now) <=> age >= p
    <2> HIDE DEF now, age, value, p
    <2>1. ProcessNow(p, (now - age) % W, now) <=> age >= p
      BY <1>1, <1>2, ProcessNowIfDue
    <2> QED BY <1>a, <2>1
  <1>5. value = (IF now >= age THEN now - age ELSE now - age + W) /\ value \in 0 .. W - 1
    <2> DEFINE x == now - age
    <2>1. x \in -W .. 2 * W - 1 /\ (x < 0 <=> ~(now >= age)) /\ x < W /\ x \in Int
      BY <1>1
    <2>2. value = x % W
      OBVIOUS
    <2> HIDE DEF x, value
    <2>3. value = (IF x < 0 THEN x + W ELSE x) /\ value \in 0 .. W - 1
      BY <2>1, <2>2, Wraps
    <2> QED BY <1>1, <2>1, <2>3 DEF x
  <1> HIDE DEF age, value, p
  <1>6. /\ r = [s EXCEPT !.active = [s.active EXCEPT ![t] = TRUE],
                         !.left = [s.left EXCEPT ![t] = p - age]]
        /\ r.current = s.current /\ r.overflow = s.overflow /\ r.value = s.value
        /\ r.period = s.period
        /\ r.active = [s.active EXCEPT ![t] = TRUE] /\ r.left = [s.left EXCEPT ![t] = p - age]
    BY <1>2 DEF TimerStates
  <1> HIDE DEF r
  <1>7. /\ r.active \in [Timers -> BOOLEAN] /\ r.active[t] /\ r.left \in [Timers -> Int]
        /\ r.left[t] = p - age /\ r.period[t] = p
        /\ \A u \in Timers : u # t => r.active[u] = s.active[u] /\ r.left[u] = s.left[u]
    <2>1. p - age \in Int
      BY <1>1, <1>2
    <2> QED BY <1>2, <1>6, <2>1 DEF p
  <1>8. r \in TimerStates
    BY <1>2, <1>6, <1>7 DEF TimerStates
  <1>9. Sound(r, X, now)
    <2>1. \A u \in Timers \ X : /\ r.value[u] = s.value[u] /\ r.period[u] = s.period[u]
                                /\ r.active[u] = s.active[u] /\ r.left[u] = s.left[u]
      BY <1>6, <1>7
    <2>2. Sound(s, X, now) /\ r.current = s.current /\ r.overflow = s.overflow
      BY <1>6
    <2> HIDE DEF X, now
    <2> QED BY <1>1, <1>8, <2>1, <2>2, SoundElsewhere
  <1>10. CASE age >= p
    <2> DEFINE a == age - p
    <2>1. a \in 0 .. W - 1 /\ now <= now
      BY <1>1, <1>2, <1>10
    <2>2. DueAgo(r, t, now, now, a)
      BY <1>1, <1>2, <1>7 DEF DueAgo
    <2>3. IsAgo(c, now, a)
      <3> DEFINE x == value + p
                 y == now - a
      <3>1. /\ x \in -W .. 2 * W - 1 /\ y \in -W .. 2 * W - 1
            /\ x >= 0 /\ y < W /\ (x = y \/ x = y + W) /\ c = x % W
        BY <1>1, <1>2, <1>5, <2>1
      <3> HIDE DEF x, y, c
      <3>2. x % W = y % W
        <4>1. x % W = IF x < W THEN x ELSE x - W
          BY <3>1, Wraps
        <4>2. y % W = IF y < 0 THEN y + W ELSE y
          BY <3>1, Wraps
        <4> QED BY <1>1, <3>1, <4>1, <4>2
      <3> QED BY <3>1, <3>2 DEF y, IsAgo
    <2> HIDE DEF a, c, X, now
    <2>4. Leads(r, Expired(r, t, c, now), X \ {t}, now, now)
      BY <1>1, <1>7, <1>9, <2>1, <2>2, <2>3, ExpiredSound
    <2>5. Sound(Expired(r, t, c, now), {}, now)
      BY <1>1, <2>4 DEF Leads
    <2> QED BY <1>3, <1>4, <1>10, <2>5 DEF now
  <1>11. CASE ~(age >= p)
    <2> DEFINE b == p - age
    <2>1. b \in 1 .. W - 1
      BY <1>1, <1>2, <1>11
    <2>2. DueIn(r, t, now, now, b) /\ r.left[t] <= r.period[t]
      BY <1>1, <1>2, <1>7 DEF DueIn
    <2>3. c = (now + b) % W
      <3> DEFINE x == value + p
                 y == now + b
      <3>1. /\ x \in 0 .. 2 * W - 1 /\ y \in 0 .. 2 * W - 1
            /\ (x = y \/ x = y + W) /\ c = x % W
        BY <1>1, <1>2, <1>5, <2>1
      <3> HIDE DEF x, y, c
      <3>2. x % W = y % W
        BY <3>1, WrapsMore
      <3> QED BY <3>1, <3>2 DEF y
    <2> HIDE DEF b, c, X, now
    <2>4. Sound(Insert(r, t, (now + b) % W, now), X \ {t}, now)
      BY <1>1, <1>7, <1>9, <2>1, <2>2, InsertSound
    <2>5. Sound(Insert(r, t, c, now), {}, now)
      BY <1>1, <2>3, <2>4
    <2> QED BY <1>3, <1>4, <1>11, <2>5 DEF now
  <1> QED BY <1>10, <1>11

LEMMA StoppedSound ==
    ASSUME NEW s, NEW message, NEW t \in Timers, message.timer = t,
           NEW T \in Int, Sound(s, {t}, T)
    PROVE  Sound(Stopped(s, message), {}, T)
  <1> DEFINE X == {t}
             q == [s EXCEPT !.left = [s.left EXCEPT ![t] = 0]]
  <1>1. X \in SUBSET Timers /\ t \in X /\ X \ {t} = {}
    OBVIOUS
  <1>2. /\ s \in TimerStates /\ s.left \in [Timers -> Int] /\ s.active \in [Timers -> BOOLEAN]
        /\ s.value \in [Timers -> 0 .. W - 1]
    BY StateTypes DEF Sound
  <1>3. Stopped(s, message) = Deactivated(q, t)
    BY <1>2 DEF Stopped, Deactivated, TimerStates
  <1>4. /\ q.current = s.current /\ q.overflow = s.overflow /\ q.value = s.value
        /\ q.period = s.period /\ q.active = s.active /\ q.left = [s.left EXCEPT ![t] = 0]
    BY <1>2 DEF TimerStates
  <1>5. q \in TimerStates
    <2> DEFINE left == [s.left EXCEPT ![t] = 0]
    <2>1. left \in [Timers -> Int] /\ q = [s EXCEPT !.left = left]
      BY <1>2
    <2> HIDE DEF left, q
    <2> QED BY <1>2, <2>1 DEF TimerStates
  <1> HIDE DEF q
  <1>6. q.left[t] = 0 /\ \A u \in Timers : u # t => q.left[u] = s.left[u]
    BY <1>2, <1>4
  <1>7. Sound(q, X, T)
    <2>1. \A u \in Timers \ X : /\ q.value[u] = s.value[u] /\ q.period[u] = s.period[u]
                                /\ q.active[u] = s.active[u] /\ q.left[u] = s.left[u]
      BY <1>4, <1>6
    <2>2. Sound(s, X, T) /\ q.current = s.current /\ q.overflow = s.overflow
      BY <1>4
    <2> HIDE DEF X
    <2> QED BY <1>1, <1>5, <2>1, <2>2, SoundElsewhere
  <1> HIDE DEF X
  <1>8. q.left[t] <= 0
    BY <1>6
  <1>9. Sound(Deactivated(q, t), X \ {t}, T)
    BY <1>1, <1>7, <1>8, DeactivatedSound
  <1> QED BY <1>1, <1>3, <1>9

LEMMA PeriodChangedSound ==
    ASSUME NEW s, NEW message, NEW t \in Timers, message.timer = t,
           message.value \in Periods, xTickCount \in 0 .. W - 1, Sound(s, {t}, xTickCount)
    PROVE  Sound(PeriodChanged(s, message), {}, xTickCount)
  <1> DEFINE now == xTickCount
             X == {t}
             p == message.value
             r == [s EXCEPT !.active[t] = TRUE, !.period[t] = p, !.left[t] = p]
  <1>1. W \in Nat \ {0} /\ now \in 0 .. W - 1 /\ now \in Int
        /\ p \in Periods /\ p \in 1 .. W - 1 /\ p \in Int
        /\ X \in SUBSET Timers /\ t \in X /\ X \ {t} = {}
    BY Bounds
  <1>2. /\ s \in TimerStates /\ s.left \in [Timers -> Int] /\ s.active \in [Timers -> BOOLEAN]
        /\ s.period \in [Timers -> Periods]
    BY StateTypes DEF Sound
  <1>3. PeriodChanged(s, message) = Insert(r, t, (now + p) % W, now)
    BY DEF PeriodChanged
  <1> HIDE DEF p
  <1>4. /\ r = [s EXCEPT !.active = [s.active EXCEPT ![t] = TRUE],
                         !.period = [s.period EXCEPT ![t] = p],
                         !.left = [s.left EXCEPT ![t] = p]]
        /\ r.current = s.current /\ r.overflow = s.overflow /\ r.value = s.value
        /\ r.period = [s.period EXCEPT ![t] = p]
        /\ r.active = [s.active EXCEPT ![t] = TRUE] /\ r.left = [s.left EXCEPT ![t] = p]
    BY <1>2 DEF TimerStates
  <1> HIDE DEF r
  <1>5. r.active \in [Timers -> BOOLEAN] /\ r.active[t] = TRUE
        /\ \A u \in Timers : u # t => r.active[u] = s.active[u]
    BY <1>2, <1>4
  <1>6. r.left \in [Timers -> Int] /\ r.left[t] = p
        /\ \A u \in Timers : u # t => r.left[u] = s.left[u]
    BY <1>1, <1>2, <1>4
  <1>7. r.period \in [Timers -> Periods] /\ r.period[t] = p
        /\ \A u \in Timers : u # t => r.period[u] = s.period[u]
    BY <1>1, <1>2, <1>4
  <1>8. r \in TimerStates
    BY <1>2, <1>4, <1>5, <1>6, <1>7 DEF TimerStates
  <1>9. Sound(r, X, now)
    <2>1. \A u \in Timers \ X : /\ r.value[u] = s.value[u] /\ r.period[u] = s.period[u]
                                /\ r.active[u] = s.active[u] /\ r.left[u] = s.left[u]
      BY <1>4, <1>5, <1>6, <1>7
    <2>2. Sound(s, X, now) /\ r.current = s.current /\ r.overflow = s.overflow
      BY <1>4
    <2> HIDE DEF X, now
    <2> QED BY <1>1, <1>8, <2>1, <2>2, SoundElsewhere
  <1>10. DueIn(r, t, now, now, p) /\ r.left[t] <= r.period[t]
    BY <1>1, <1>6, <1>7 DEF DueIn
  <1> HIDE DEF X, now
  <1>11. Sound(Insert(r, t, (now + p) % W, now), X \ {t}, now)
    BY <1>1, <1>5, <1>9, <1>10, InsertSound
  <1>12. Sound(Insert(r, t, (now + p) % W, now), {}, now)
    BY <1>1, <1>11
  <1> QED BY <1>3, <1>12 DEF now

\* The first message of the queue and what is left of it.
LEMMA QueueRest ==
    ASSUME Types, AgesTrue, xTimerQueue # <<>>, xTimerQueue' = Tail(xTimerQueue),
           UNCHANGED xTickCount
    PROVE  /\ Head(xTimerQueue) \in Messages
           /\ Head(xTimerQueue).id = "start" =>
                Head(xTimerQueue).value = (xTickCount - Head(xTimerQueue).age) % W
           /\ xTimerQueue' \in Seq(Messages) /\ Len(xTimerQueue') <= QueueLength
           /\ AgesTrue'
  <1> DEFINE q == xTimerQueue
             n == Len(q)
  <1>1. q \in Seq(Messages) /\ n <= QueueLength /\ q # <<>> /\ QueueLength \in Nat
    BY Bounds DEF Types
  <1>2. n \in Nat /\ n > 0 /\ DOMAIN q = 1 .. n
    BY <1>1, ToSetSeq
  <1>3. /\ Head(q) \in Messages /\ Head(q) = q[1] /\ Tail(q) \in Seq(Messages)
        /\ Len(Tail(q)) = n - 1 /\ \A i \in 1 .. n - 1 : Tail(q)[i] = q[i + 1]
    BY <1>1, HeadTailProperties
  <1>4. DOMAIN Tail(q) = 1 .. n - 1
    BY <1>3, ToSetSeq
  <1>5. 1 \in DOMAIN q /\ \A i \in 1 .. n - 1 : i + 1 \in DOMAIN q
    BY <1>2
  <1>6. AgesTrue'
    BY <1>3, <1>4, <1>5 DEF AgesTrue
  <1> QED BY <1>1, <1>2, <1>3, <1>5, <1>6 DEF AgesTrue

LEMMA InvProcessReceivedCommand ==
    ASSUME TimersInv, ProcessReceivedCommand PROVE TimersInv'
  <1> DEFINE message == Head(xTimerQueue)
             t == message.timer
             r == Removed(timers, t)
             s == Sampled(r)
  <1>1. /\ Types /\ Sound(timers, {}, Time) /\ AgesTrue
        /\ W \in Nat \ {0} /\ MaxLate \in Nat /\ MaxAge \in 0 .. W - 1
    BY Bounds DEF TimersInv
  <1>2. /\ pc = "commands" /\ xTimerQueue # <<>> /\ message.id # "pend"
        /\ timers' = CASE message.id = "start"  -> Started(s, message)
                       [] message.id = "stop"   -> Stopped(s, message)
                       [] message.id = "change" -> PeriodChanged(s, message)
        /\ xTimerQueue' = Tail(xTimerQueue)
        /\ Sample
        /\ UNCHANGED <<xTickCount, autoReload, pc, xNextExpireTime, xTimeNow, ticksToWait>>
    BY DEF ProcessReceivedCommand
  <1>3. /\ message \in Messages
        /\ message.id = "start" => message.value = (xTickCount - message.age) % W
        /\ xTimerQueue' \in Seq(Messages) /\ Len(xTimerQueue') <= QueueLength
        /\ AgesTrue'
    BY <1>1, <1>2, QueueRest
  <1> HIDE DEF message
  <1>4. /\ t \in Timers /\ message.id \in {"start", "stop", "change"}
        /\ message.id = "start" => message.age \in 0 .. MaxAge
        /\ message.id = "change" => message.value \in Periods
    BY <1>2, <1>3 DEF Messages
  <1>5. Time \in Int /\ {} \in SUBSET Timers /\ {} \cup {t} = {t} /\ xTickCount \in 0 .. W - 1
        /\ xTickCount \in Int
    BY <1>1, TimeIs DEF Types
  <1> HIDE DEF t
  <1>6. Sound(r, {t}, Time)
    <2>1. Sound(r, {} \cup {t}, Time)
      BY <1>1, <1>4, <1>5, RemovedSound
    <2> QED BY <1>5, <2>1
  <1> HIDE DEF r
  <1>7. Sound(s, {t}, xTickCount)
    <2>1. {t} \in SUBSET Timers
      BY <1>4
    <2> QED BY <1>1, <1>6, <2>1, SampledSound
  <1> HIDE DEF s
  <1>8. Sound(timers', {}, xTickCount)
    <2>1. CASE message.id = "start"
      <3>1. message.age \in 0 .. W - 1
        BY <1>1, <1>4, <2>1
      <3>2. Sound(Started(s, message), {}, xTickCount)
        BY <1>3, <1>4, <1>5, <1>7, <2>1, <3>1, StartedSound DEF t
      <3> QED BY <1>2, <2>1, <3>2
    <2>2. CASE message.id = "stop"
      <3>1. Sound(Stopped(s, message), {}, xTickCount)
        BY <1>4, <1>5, <1>7, StoppedSound DEF t
      <3> QED BY <1>2, <2>2, <3>1
    <2>3. CASE message.id = "change"
      <3>1. Sound(PeriodChanged(s, message), {}, xTickCount)
        BY <1>4, <1>5, <1>7, <2>3, PeriodChangedSound DEF t
      <3> QED BY <1>2, <2>3, <3>1
    <2> QED BY <1>4, <2>1, <2>2, <2>3
  <1>9. Types'
    <2>1. 0 \in 0 .. MaxLate
      BY <1>1
    <2> QED BY <1>1, <1>2, <1>3, <2>1 DEF Types, Sample
  <1> QED BY <1>2, <1>3, <1>8, <1>9, AfterSample

LEMMA InvCallPendedFunction ==
    ASSUME TimersInv, CallPendedFunction PROVE TimersInv'
  <1>1. Types /\ Sound(timers, {}, Time) /\ AgesTrue /\ FirstFound /\ SampledInTime
    BY DEF TimersInv
  <1>2. /\ pc = "commands" /\ xTimerQueue # <<>> /\ xTimerQueue' = Tail(xTimerQueue)
        /\ UNCHANGED <<xTickCount, xLastTime, timers, autoReload, pc,
                       xNextExpireTime, xTimeNow, ticksToWait, late>>
    BY DEF CallPendedFunction
  <1>3. xTimerQueue' \in Seq(Messages) /\ Len(xTimerQueue') <= QueueLength /\ AgesTrue'
    BY <1>1, <1>2, QueueRest
  <1>4. Types'
    BY <1>1, <1>2, <1>3 DEF Types
  <1>5. Sound(timers, {}, Time)'
    BY <1>1, <1>2 DEF Sound, Time, Elapsed, TimerStates
  <1>6. FirstFound' /\ SampledInTime' /\ SleepsUntil' /\ AwakeInTime'
    BY <1>1, <1>2 DEF FirstFound, SampledInTime, SleepsUntil, AwakeInTime, Elapsed
  <1> QED BY <1>3, <1>4, <1>5, <1>6 DEF TimersInv

LEMMA InvEndCommands ==
    ASSUME TimersInv, EndCommands PROVE TimersInv'
  <1>1. Types /\ Sound(timers, {}, Time) /\ AgesTrue /\ SampledInTime
    BY DEF TimersInv
  <1>2. /\ pc = "commands" /\ pc' = "query"
        /\ UNCHANGED <<xTickCount, xLastTime, timers, autoReload, xTimerQueue,
                       xNextExpireTime, xTimeNow, ticksToWait, late>>
    BY DEF EndCommands
  <1>3. Types' /\ AgesTrue'
    BY <1>1, <1>2 DEF Types, AgesTrue
  <1>4. Sound(timers, {}, Time)'
    BY <1>1, <1>2 DEF Sound, Time, Elapsed, TimerStates
  <1>5. FirstFound' /\ SampledInTime' /\ SleepsUntil' /\ AwakeInTime'
    BY <1>1, <1>2 DEF FirstFound, SampledInTime, SleepsUntil, AwakeInTime, Elapsed
  <1> QED BY <1>3, <1>4, <1>5 DEF TimersInv

-----------------------------------------------------------------------------
(***************************************************************************)
(* The callers and the ticks keep it                                       *)
(***************************************************************************)

LEMMA InvGenericCommand ==
    ASSUME TimersInv, NEW message \in Messages, GenericCommand(message),
           message.id = "start" => message.value = (xTickCount - message.age) % W
    PROVE  TimersInv'
  <1>1. /\ Types /\ Sound(timers, {}, Time) /\ AgesTrue /\ FirstFound /\ SampledInTime
        /\ W \in Nat \ {0} /\ MaxLate \in Nat /\ QueueLength \in Nat
    BY Bounds DEF TimersInv
  <1>2. /\ Len(xTimerQueue) < QueueLength
        /\ xTimerQueue' = Append(xTimerQueue, message)
        /\ pc' = (IF pc = "blocked" THEN "commands" ELSE pc)
        /\ ticksToWait' = 0
        /\ late' = (IF pc = "blocked" THEN 0 ELSE late)
        /\ UNCHANGED <<xTickCount, xLastTime, timers, autoReload, xNextExpireTime, xTimeNow>>
    BY DEF GenericCommand, WakeUp
  <1> DEFINE q == xTimerQueue
             n == Len(q)
  <1>3. /\ q \in Seq(Messages) /\ n \in Nat /\ DOMAIN q = 1 .. n
    BY <1>1, ToSetSeq DEF Types
  <1>4. /\ q' \in Seq(Messages) /\ Len(q') = n + 1
        /\ q'[n + 1] = message /\ \A i \in 1 .. n : q'[i] = q[i]
    BY <1>2, <1>3, AppendProperties
  <1>5. DOMAIN q' = 1 .. n + 1
    BY <1>4, ToSetSeq
  <1>6. AgesTrue'
    <2> SUFFICES ASSUME NEW i \in 1 .. n + 1, q'[i].id = "start"
                 PROVE  q'[i].value = (xTickCount - q'[i].age) % W
      BY <1>2, <1>5 DEF AgesTrue
    <2>1. CASE i = n + 1
      BY <1>4, <2>1
    <2>2. CASE i # n + 1
      <3>1. i \in 1 .. n
        BY <1>3, <2>2
      <3> QED BY <1>1, <1>3, <1>4, <3>1 DEF AgesTrue
    <2> QED BY <2>1, <2>2
  <1>7. Types'
    <2>1. /\ 0 \in 0 .. MaxLate /\ 0 \in 0 .. W /\ Len(q') <= QueueLength
      BY <1>1, <1>2, <1>3, <1>4
    <2> QED BY <1>1, <1>2, <1>4, <2>1 DEF Types
  <1>8. Elapsed' = Elapsed /\ Elapsed \in 0 .. W - 1
    BY <1>1, <1>2, TimeIs DEF Elapsed
  <1>9. Sound(timers, {}, Time)'
    BY <1>1, <1>2, <1>8 DEF Sound, Time, TimerStates
  <1>10. SampledInTime'
    <2> SUFFICES ASSUME \E t \in Timers : timers.active[t]
                 PROVE  Elapsed + (MaxLate - late') < W
      BY <1>2, <1>8 DEF SampledInTime
    <2>1. CASE pc = "blocked"
      <3>1. Elapsed + (ticksToWait + MaxLate) < W /\ ticksToWait \in 0 .. W /\ late' = 0
        BY <1>1, <1>2, <2>1 DEF SampledInTime, Types
      <3> QED BY <1>1, <1>8, <3>1
    <2>2. CASE pc # "blocked"
      BY <1>1, <1>2, <2>2 DEF SampledInTime
    <2> QED BY <2>1, <2>2
  <1>11. FirstFound' /\ SleepsUntil' /\ AwakeInTime'
    BY <1>1, <1>2 DEF FirstFound, SleepsUntil, AwakeInTime
  <1> QED BY <1>6, <1>7, <1>9, <1>10, <1>11 DEF TimersInv

LEMMA InvPendFunctionCall ==
    ASSUME TimersInv, PendFunctionCall PROVE TimersInv'
  <1> DEFINE message == [id |-> "pend"]
  <1>1. message \in Messages /\ message.id # "start"
    BY DEF Messages
  <1>2. GenericCommand(message)
    BY DEF PendFunctionCall
  <1> HIDE DEF message
  <1> QED BY <1>1, <1>2, InvGenericCommand

LEMMA InvCommands ==
    ASSUME TimersInv, NEW t \in Timers,
           \/ \E age \in 0 .. MaxAge : Start(t, age)
           \/ Stop(t)
           \/ \E period \in Periods : ChangePeriod(t, period)
    PROVE  TimersInv'
  <1>1. W \in Nat \ {0} /\ xTickCount \in 0 .. W - 1 /\ MaxAge \in 0 .. W - 1
    BY Bounds DEF TimersInv, Types
  <1>2. ASSUME NEW age \in 0 .. MaxAge, Start(t, age) PROVE TimersInv'
    <2> DEFINE v == (xTickCount - age) % W
               message == [id |-> "start", timer |-> t, value |-> v, age |-> age]
    <2>1. v \in 0 .. W - 1
      BY <1>1
    <2>2. message \in Messages
      <3> HIDE DEF v
      <3> QED BY <2>1 DEF Messages
    <2>3. message.value = (xTickCount - message.age) % W
      OBVIOUS
    <2>4. GenericCommand(message)
      BY <1>2 DEF Start
    <2> HIDE DEF message
    <2> QED BY <2>2, <2>3, <2>4, InvGenericCommand
  <1>3. ASSUME Stop(t) PROVE TimersInv'
    <2> DEFINE message == [id |-> "stop", timer |-> t, value |-> 0, age |-> 0]
    <2>1. message \in Messages /\ message.id # "start"
      BY DEF Messages
    <2>2. GenericCommand(message)
      BY <1>3 DEF Stop
    <2> HIDE DEF message
    <2> QED BY <2>1, <2>2, InvGenericCommand
  <1>4. ASSUME NEW period \in Periods, ChangePeriod(t, period) PROVE TimersInv'
    <2> DEFINE message == [id |-> "change", timer |-> t, value |-> period, age |-> 0]
    <2>1. message \in Messages /\ message.id # "start"
      BY DEF Messages
    <2>2. GenericCommand(message)
      BY <1>4 DEF ChangePeriod
    <2> HIDE DEF message
    <2> QED BY <2>1, <2>2, InvGenericCommand
  <1> QED BY <1>2, <1>3, <1>4

LEMMA InvSetReloadMode ==
    ASSUME TimersInv, NEW t \in Timers, SetReloadMode(t) PROVE TimersInv'
  <1>1. Types /\ Sound(timers, {}, Time) /\ AgesTrue /\ FirstFound /\ SampledInTime
        /\ SleepsUntil /\ AwakeInTime
    BY DEF TimersInv
  <1>2. /\ autoReload' = [autoReload EXCEPT ![t] = ~autoReload[t]]
        /\ UNCHANGED <<xTickCount, xLastTime, timers, xTimerQueue, pc,
                       xNextExpireTime, xTimeNow, ticksToWait, late>>
    BY DEF SetReloadMode
  <1>3. autoReload' \in [Timers -> BOOLEAN]
    BY <1>1, <1>2 DEF Types
  <1>4. Types' /\ AgesTrue'
    BY <1>1, <1>2, <1>3 DEF Types, AgesTrue
  <1>5. Sound(timers, {}, Time)'
    BY <1>1, <1>2 DEF Sound, Time, Elapsed, TimerStates
  <1>6. FirstFound' /\ SampledInTime' /\ SleepsUntil' /\ AwakeInTime'
    BY <1>1, <1>2 DEF FirstFound, SampledInTime, SleepsUntil, AwakeInTime, Elapsed
  <1> QED BY <1>4, <1>5, <1>6 DEF TimersInv

\* A tick takes a tick from what each running timer has left.
LEMMA TickSound ==
    ASSUME NEW s, NEW T \in Int, Sound(s, {}, T), NEW U \in Int,
           U = T + 1 \/ \A t \in Timers : ~s.active[t]
    PROVE  LET r == [s EXCEPT !.left = [t \in Timers |-> IF s.active[t] THEN @[t] - 1 ELSE @[t]]]
           IN  /\ Sound(r, {}, U)
               /\ r.current = s.current /\ r.value = s.value /\ r.active = s.active
               /\ r.period = s.period
               /\ \A t \in Timers : r.left[t] = IF s.active[t] THEN s.left[t] - 1 ELSE s.left[t]
  <1> DEFINE left == [t \in Timers |-> IF s.active[t] THEN s.left[t] - 1 ELSE s.left[t]]
             r == [s EXCEPT !.left = left]
  <1>1. /\ s \in TimerStates /\ s.left \in [Timers -> Int] /\ W \in Nat \ {0}
        /\ s.current \in Seq(Timers) /\ s.overflow \in Seq(Timers)
        /\ ToSet(s.current) \subseteq Timers /\ ToSet(s.overflow) \subseteq Timers
    BY Bounds, StateTypes DEF Sound
  <1>2. /\ left \in [Timers -> Int]
        /\ \A t \in Timers : left[t] = IF s.active[t] THEN s.left[t] - 1 ELSE s.left[t]
    BY <1>1
  <1>3. r = [s EXCEPT !.left = [t \in Timers |-> IF s.active[t] THEN @[t] - 1 ELSE @[t]]]
    BY <1>1 DEF TimerStates
  <1> HIDE DEF left
  <1>4. /\ r \in TimerStates /\ r.left = left
        /\ r.current = s.current /\ r.overflow = s.overflow /\ r.value = s.value
        /\ r.active = s.active /\ r.period = s.period
    BY <1>1, <1>2 DEF TimerStates
  <1> HIDE DEF r
  <1>5. \A t \in ToSet(s.current) \cup ToSet(s.overflow) : t \in Timers /\ s.active[t]
    BY <1>1 DEF Sound
  <1>6. \A t \in ToSet(s.current) : s.value[t] = U + left[t]
    <2> SUFFICES ASSUME NEW t \in ToSet(s.current) PROVE s.value[t] = U + left[t]
      OBVIOUS
    <2>1. t \in Timers /\ s.active[t] /\ s.left[t] \in Int /\ U = T + 1
      BY <1>1, <1>5
    <2>2. s.value[t] = T + s.left[t]
      BY DEF Sound
    <2>3. left[t] = s.left[t] - 1
      BY <1>2, <2>1
    <2> QED BY <2>1, <2>2, <2>3
  <1>7. \A t \in ToSet(s.overflow) : s.value[t] = U + left[t] - W
    <2> SUFFICES ASSUME NEW t \in ToSet(s.overflow) PROVE s.value[t] = U + left[t] - W
      OBVIOUS
    <2>1. t \in Timers /\ s.active[t] /\ s.left[t] \in Int /\ U = T + 1
      BY <1>1, <1>5
    <2>2. s.value[t] = T + s.left[t] - W
      BY DEF Sound
    <2>3. left[t] = s.left[t] - 1
      BY <1>2, <2>1
    <2> DEFINE x == s.left[t]
    <2>4. x \in Int /\ s.value[t] = T + x - W /\ left[t] = x - 1
      BY <2>1, <2>2, <2>3
    <2> HIDE DEF x
    <2> QED BY <1>1, <2>1, <2>4
  <1>8. \A t \in Timers : left[t] <= IF s.active[t] THEN s.period[t] ELSE 0
    <2> SUFFICES ASSUME NEW t \in Timers
                 PROVE  left[t] <= IF s.active[t] THEN s.period[t] ELSE 0
      OBVIOUS
    <2>1. s.left[t] <= IF s.active[t] THEN s.period[t] ELSE 0
      BY DEF Sound
    <2>2. s.left[t] \in Int /\ s.period[t] \in 1 .. W - 1
      BY <1>1, StateTypes
    <2>3. left[t] = IF s.active[t] THEN s.left[t] - 1 ELSE s.left[t]
      BY <1>2
    <2> QED BY <1>1, <2>1, <2>2, <2>3
  <1>9. Sound(r, {}, U)
    BY <1>4, <1>6, <1>7, <1>8 DEF Sound
  <1> QED BY <1>2, <1>3, <1>4, <1>9

LEMMA TickedQueue ==
    ASSUME Types, AgesTrue, Tick
    PROVE  /\ xTimerQueue' \in Seq(Messages) /\ Len(xTimerQueue') <= QueueLength
           /\ AgesTrue'
  <1> DEFINE q == xTimerQueue
             n == Len(q)
             aged(i) == IF q[i].id = "start" THEN [q[i] EXCEPT !.age = @ + 1] ELSE q[i]
             r == [i \in 1 .. n |-> aged(i)]
  <1>1. /\ W \in Nat \ {0} /\ MaxAge \in 0 .. W - 1 /\ xTickCount \in 0 .. W - 1
        /\ q \in Seq(Messages) /\ n <= QueueLength /\ xTickCount' = (xTickCount + 1) % W
    BY Bounds DEF Types, Tick
  <1>2. n \in Nat /\ DOMAIN q = 1 .. n /\ \A i \in 1 .. n : q[i] \in Messages
    BY <1>1, ToSetSeq, ElementOfSeq
  <1>3. q' = r
    BY <1>2 DEF Tick
  <1>4. ASSUME NEW i \in 1 .. n, q[i].id = "start"
        PROVE  /\ aged(i) \in Messages
               /\ aged(i).value = q[i].value /\ aged(i).age = q[i].age + 1
               /\ q[i].age \in 0 .. MaxAge
    <2>1. q[i] \in [id : {"start"}, timer : Timers, value : 0 .. W - 1, age : 0 .. MaxAge]
      BY <1>2, <1>4 DEF Messages
    <2>2. q[i].age < MaxAge
      BY <1>2, <1>4 DEF Tick, MayTick
    <2>3. q[i].age + 1 \in 0 .. MaxAge
      BY <1>1, <2>1, <2>2
    <2>4. aged(i) = [q[i] EXCEPT !.age = q[i].age + 1]
      BY <1>4
    <2>5. aged(i) \in [id : {"start"}, timer : Timers, value : 0 .. W - 1, age : 0 .. MaxAge]
      BY <2>1, <2>3, <2>4
    <2>6. aged(i).value = q[i].value /\ aged(i).age = q[i].age + 1
      BY <2>1, <2>4
    <2> HIDE DEF aged
    <2> QED BY <2>1, <2>5, <2>6 DEF Messages
  <1>5. ASSUME NEW i \in 1 .. n, q[i].id # "start" PROVE aged(i) = q[i]
    BY <1>5
  <1>6. ASSUME NEW i \in 1 .. n, aged(i).id = "start" PROVE q[i].id = "start"
    BY <1>6
  <1> HIDE DEF aged
  <1>7. \A i \in 1 .. n : aged(i) \in Messages
    BY <1>2, <1>4, <1>5
  <1>8. r \in Seq(Messages) /\ Len(r) = n /\ \A i \in 1 .. n : r[i] = aged(i)
    <2>1. r \in [1 .. n -> Messages]
      BY <1>7
    <2>2. r \in Seq(Messages)
      BY <1>2, <2>1, SeqDef
    <2>3. Len(r) = n
      BY <1>2, <2>2, LenProperties
    <2> QED BY <2>2, <2>3
  <1>9. DOMAIN r = 1 .. n
    BY <1>2
  <1> HIDE DEF r
  <1>10. ASSUME NEW i \in 1 .. n, r[i].id = "start"
         PROVE  r[i].value = (xTickCount' - r[i].age) % W
    <2>1. q[i].id = "start" /\ r[i].value = q[i].value /\ r[i].age = q[i].age + 1
          /\ q[i].age \in 0 .. W - 1
      BY <1>1, <1>4, <1>6, <1>8, <1>10
    <2>2. q[i].value = (xTickCount - q[i].age) % W
      BY <1>1, <1>2, <2>1 DEF AgesTrue
    <2> DEFINE a == q[i].age
               x == xTickCount - a
               y == xTickCount' - (a + 1)
    <2>3. xTickCount' = IF xTickCount + 1 = W THEN 0 ELSE xTickCount + 1
      <3> DEFINE z == xTickCount + 1
      <3>1. z \in -W .. 2 * W - 1 /\ ~(z < 0) /\ z <= W /\ xTickCount' = z % W
        BY <1>1
      <3> HIDE DEF z
      <3>2. xTickCount' = IF z < W THEN z ELSE z - W
        BY <3>1, Wraps
      <3> QED BY <1>1, <3>1, <3>2 DEF z
    <2>4. a \in 0 .. W - 1
      BY <2>1
    <2> HIDE DEF a
    <2>5. /\ x \in -W .. 2 * W - 1 /\ y \in -W .. 2 * W - 1 /\ x < W /\ y < W
          /\ (y = x \/ (y = x - W /\ x >= 0))
      BY <1>1, <2>3, <2>4
    <2> HIDE DEF x, y
    <2>6. x % W = y % W
      <3>1. x % W = IF x < 0 THEN x + W ELSE x
        BY <2>5, Wraps
      <3>2. y % W = IF y < 0 THEN y + W ELSE y
        BY <2>5, Wraps
      <3> QED BY <1>1, <2>5, <3>1, <3>2
    <2>7. q[i].value = x % W /\ r[i].age = a + 1
      BY <2>1, <2>2 DEF x, a
    <2> QED BY <2>1, <2>6, <2>7 DEF y
  <1> HIDE DEF n
  <1>11. AgesTrue'
    BY <1>3, <1>9, <1>10 DEF AgesTrue
  <1> QED BY <1>1, <1>3, <1>8, <1>11 DEF n

LEMMA InvTick ==
    ASSUME TimersInv, Tick PROVE TimersInv'
  <1> DEFINE active == \E t \in Timers : timers.active[t]
  <1>1. /\ Types /\ Sound(timers, {}, Time) /\ AgesTrue /\ FirstFound /\ SampledInTime
        /\ SleepsUntil /\ AwakeInTime
        /\ W \in Nat \ {0} /\ MaxLate \in Nat
    BY Bounds DEF TimersInv
  <1>2. /\ xTickCount \in 0 .. W - 1 /\ xLastTime \in 0 .. W - 1
        /\ ticksToWait \in 0 .. W /\ late \in 0 .. MaxLate
        /\ pc \in {"query", "expire", "commands", "blocked"}
    BY <1>1 DEF Types
  <1>3. /\ xTickCount' = (xTickCount + 1) % W
        /\ timers' = [timers EXCEPT
               !.left = [t \in Timers |-> IF timers.active[t] THEN @[t] - 1 ELSE @[t]]]
        /\ UNCHANGED <<xLastTime, autoReload, xNextExpireTime, xTimeNow>>
        /\ pc # "blocked" => late < MaxLate
    BY DEF Tick, MayTick
  <1>4. \/ /\ pc = "blocked" /\ ticksToWait = 1
           /\ ticksToWait' = 0 /\ late' = 0 /\ pc' = "commands"
        \/ /\ pc = "blocked" /\ ticksToWait # 1
           /\ ticksToWait' = (IF ticksToWait = W THEN W ELSE ticksToWait - 1)
           /\ pc' = pc /\ late' = late
        \/ /\ pc # "blocked"
           /\ late' = late + 1
           /\ pc' = pc /\ ticksToWait' = ticksToWait
    BY DEF Tick, WakeUp
  <1>5. xTimerQueue' \in Seq(Messages) /\ Len(xTimerQueue') <= QueueLength /\ AgesTrue'
    BY <1>1, TickedQueue
  <1>6. xTickCount' = (IF xTickCount + 1 = W THEN 0 ELSE xTickCount + 1)
        /\ xTickCount' \in 0 .. W - 1
    <2> DEFINE z == xTickCount + 1
    <2>1. z \in -W .. 2 * W - 1 /\ ~(z < 0) /\ z <= W /\ xTickCount' = z % W
      BY <1>1, <1>2, <1>3
    <2> HIDE DEF z
    <2>2. xTickCount' = IF z < W THEN z ELSE z - W
      BY <2>1, Wraps
    <2> QED BY <1>1, <1>2, <2>1, <2>2 DEF z
  <1>7. Elapsed \in 0 .. W - 1 /\ Time = xLastTime + Elapsed /\ Time \in Int
        /\ Elapsed = IF xTickCount < xLastTime THEN xTickCount - xLastTime + W
                     ELSE xTickCount - xLastTime
    BY <1>1, TimeIs DEF Time, Wrapped
  <1>8. pc = "blocked" => ticksToWait \in 1 .. W
    BY <1>1, <1>2 DEF SleepsUntil
  <1>9. active => Elapsed + 1 < W
    <2>1. CASE pc = "blocked"
      BY <1>1, <1>7, <1>8, <2>1 DEF SampledInTime
    <2>2. CASE pc # "blocked"
      BY <1>1, <1>2, <1>3, <1>7, <2>2 DEF SampledInTime
    <2> QED BY <2>1, <2>2
  <1>10. Types'
    <2>1. late' \in 0 .. MaxLate
      BY <1>1, <1>2, <1>3, <1>4
    <2>2. ticksToWait' \in 0 .. W
      BY <1>1, <1>2, <1>4, <1>8
    <2>3. pc' \in {"query", "expire", "commands", "blocked"}
      BY <1>2, <1>4
    <2> QED BY <1>1, <1>3, <1>5, <1>6, <2>1, <2>2, <2>3 DEF Types
  <1>11. Elapsed' \in 0 .. W - 1 /\ Time' = xLastTime + Elapsed' /\ Time' \in Int
         /\ (active => Elapsed' = Elapsed + 1)
    <2>1. Elapsed' = (xTickCount' - xLastTime) % W /\ Time' = xLastTime + Elapsed'
      BY <1>3 DEF Elapsed, Time
    <2> DEFINE x == xTickCount' - xLastTime
    <2>2. x \in -W .. 2 * W - 1 /\ x < W
      BY <1>1, <1>2, <1>6
    <2>3. Elapsed' = (IF x < 0 THEN x + W ELSE x) /\ Elapsed' \in 0 .. W - 1
      <3>1. Elapsed' = x % W
        BY <2>1
      <3> HIDE DEF x
      <3> QED BY <2>2, <3>1, Wraps
    <2>4. active => Elapsed' = Elapsed + 1
      <3> HIDE DEF active
      <3> QED BY <1>1, <1>2, <1>6, <1>7, <1>9, <2>3
    <2> QED BY <1>2, <2>1, <2>3, <2>4
  <1>12. Time' = Time + 1 \/ \A t \in Timers : ~timers.active[t]
    <2>1. CASE active
      <3>1. Elapsed' = Elapsed + 1
        BY <1>11, <2>1
      <3> QED BY <1>2, <1>7, <1>11, <3>1
    <2>2. CASE ~active
      BY <2>2
    <2> QED BY <2>1, <2>2
  <1>13. /\ Sound(timers', {}, Time')
         /\ timers'.current = timers.current /\ timers'.value = timers.value
         /\ timers'.active = timers.active
         /\ \A t \in Timers : timers'.left[t] = IF timers.active[t] THEN timers.left[t] - 1
                                                ELSE timers.left[t]
    <2> DEFINE s == timers
               T == Time
               U == Time'
               r == timers'
    <2>1. /\ Sound(s, {}, T) /\ T \in Int /\ U \in Int
          /\ (U = T + 1 \/ \A t \in Timers : ~s.active[t])
          /\ r = [s EXCEPT !.left = [t \in Timers |-> IF s.active[t] THEN @[t] - 1 ELSE @[t]]]
      BY <1>1, <1>3, <1>7, <1>11, <1>12
    <2> HIDE DEF s, T, U, r
    <2>2. /\ Sound(r, {}, U)
          /\ r.current = s.current /\ r.value = s.value /\ r.active = s.active
          /\ r.period = s.period
          /\ \A t \in Timers : r.left[t] = IF s.active[t] THEN s.left[t] - 1 ELSE s.left[t]
      BY <2>1, TickSound
    <2> QED BY <2>2 DEF s, T, U, r
  <1>14. Sound(timers, {}, Time)'
    BY <1>13 DEF Sound, TimerStates
  <1>15. FirstFound'
    BY <1>1, <1>3, <1>4, <1>13 DEF FirstFound
  <1>16. SleepsUntil'
    BY <1>1, <1>2, <1>4, <1>8 DEF SleepsUntil
  <1>17. SampledInTime'
    <2> SUFFICES ASSUME active
                 PROVE  Elapsed' + (IF pc' = "blocked" THEN ticksToWait' + MaxLate
                                    ELSE MaxLate - late') < W
      BY <1>13 DEF SampledInTime
    <2>1. Elapsed' = Elapsed + 1
          /\ Elapsed + (IF pc = "blocked" THEN ticksToWait + MaxLate ELSE MaxLate - late) < W
      BY <1>1, <1>11 DEF SampledInTime
    <2> HIDE DEF active
    <2> QED BY <1>1, <1>2, <1>4, <1>7, <1>8, <2>1
  <1>18. AwakeInTime'
    <2> SUFFICES ASSUME pc' = "blocked", NEW t \in Timers, timers.active[t]
                 PROVE  timers'.left[t] > 0 /\ ticksToWait' <= timers'.left[t]
      BY <1>13 DEF AwakeInTime
    <2>1. pc = "blocked" /\ ticksToWait # 1
          /\ ticksToWait' = (IF ticksToWait = W THEN W ELSE ticksToWait - 1)
      BY <1>4
    <2>2. Elapsed + (ticksToWait + MaxLate) < W
      BY <1>1, <2>1 DEF SampledInTime
    <2>3. ticksToWait # W
      BY <1>1, <1>7, <2>2
    <2>4. ticksToWait <= timers.left[t] /\ timers.left[t] \in Int
      BY <1>1, <2>1, StateTypes DEF AwakeInTime, Sound
    <2>5. timers'.left[t] = timers.left[t] - 1
      BY <1>13
    <2> QED BY <1>1, <1>8, <2>1, <2>3, <2>4, <2>5
  <1> QED BY <1>5, <1>10, <1>14, <1>15, <1>16, <1>17, <1>18 DEF TimersInv

LEMMA InvNext ==
    ASSUME TimersInv, [Next]_vars PROVE TimersInv'
  <1>1. CASE ProcessTimerOrBlock
    BY <1>1, InvProcessTimerOrBlock
  <1>2. CASE ProcessExpired
    BY <1>2, InvProcessExpired
  <1>3. CASE ProcessReceivedCommand
    BY <1>3, InvProcessReceivedCommand
  <1>4. CASE CallPendedFunction
    BY <1>4, InvCallPendedFunction
  <1>5. CASE EndCommands
    BY <1>5, InvEndCommands
  <1>6. CASE Tick
    BY <1>6, InvTick
  <1>7. CASE PendFunctionCall
    BY <1>7, InvPendFunctionCall
  <1>8. ASSUME NEW t \in Timers,
               \/ \E age \in 0 .. MaxAge : Start(t, age)
               \/ Stop(t)
               \/ \E period \in Periods : ChangePeriod(t, period)
        PROVE  TimersInv'
    BY <1>8, InvCommands
  <1>9. ASSUME NEW t \in Timers, SetReloadMode(t) PROVE TimersInv'
    BY <1>9, InvSetReloadMode
  <1>10. CASE UNCHANGED vars
    BY <1>10 DEF vars, TimersInv, Types, Sound, TimerStates, Time, Elapsed, AgesTrue,
                 FirstFound, SampledInTime, SleepsUntil, AwakeInTime
  <1> QED BY <1>1, <1>2, <1>3, <1>4, <1>5, <1>6, <1>7, <1>8, <1>9, <1>10 DEF Next, TimerTask

-----------------------------------------------------------------------------
(***************************************************************************)
(* The theorems                                                            *)
(***************************************************************************)

\* In every reachable state the lists hold the running timers where the ticks they have
\* left put them, and the next sample of the tick count comes before it has gone round.
THEOREM TimersInvariance == Spec => []TimersInv
  <1>1. Init => TimersInv
    BY InvInit
  <1>2. TimersInv /\ [Next]_vars => TimersInv'
    BY InvNext
  <1> QED BY <1>1, <1>2, PTL DEF Spec

\* A timer is in a list, once, exactly when it is active, and the lists ascend.
THEOREM ListsHoldActiveTimers == Spec => []TypeOK
  <1>1. TimersInv => TypeOK
    <2> SUFFICES ASSUME TimersInv PROVE TypeOK
      OBVIOUS
    <2>1. Types /\ Sound(timers, {}, Time)
      BY DEF TimersInv
    <2>2. /\ timers.current \in Seq(Timers) /\ timers.overflow \in Seq(Timers)
          /\ timers.value \in [Timers -> 0 .. W - 1] /\ timers.period \in [Timers -> Periods]
          /\ timers.active \in [Timers -> BOOLEAN] /\ timers.left \in [Timers -> Int]
      BY <2>1, StateTypes DEF Sound
    <2>3. /\ NoDuplicates(timers.current) /\ NoDuplicates(timers.overflow)
          /\ ToSet(timers.current) \cap ToSet(timers.overflow) = {}
          /\ ToSet(timers.current) \cup ToSet(timers.overflow) = {t \in Timers : timers.active[t]}
          /\ Ascending(timers.current, timers.value) /\ Ascending(timers.overflow, timers.value)
      BY <2>1 DEF Sound
    <2>4. LET listed == timers.current \o timers.overflow
          IN  NoDuplicates(listed) /\ ToSet(listed) = {t \in Timers : timers.active[t]}
      BY <2>2, <2>3, Concatenated
    <2> QED BY <2>1, <2>2, <2>3, <2>4 DEF TypeOK, Types
  <1> QED BY <1>1, TimersInvariance, PTL

\* Whatever the commands, the wraps and the delays, the value of each item is the tick
\* count at which its timer is to expire, and its list is the one for that wrap.
THEOREM ValuesAreExpiryTimes == Spec => []ValuesAreTrue
  <1>1. TimersInv => ValuesAreTrue
    <2> SUFFICES ASSUME TimersInv, NEW t \in Timers, timers.active[t]
                 PROVE  LET xExpiryTime == xLastTime + Elapsed + timers.left[t] IN
                        timers.value[t] = IF t \in ToSet(timers.current) THEN xExpiryTime
                                          ELSE xExpiryTime - W
      BY DEF ValuesAreTrue
    <2>1. Sound(timers, {}, Time) /\ Time = xLastTime + Elapsed
      BY DEF TimersInv, Time
    <2>2. t \in ToSet(timers.current) \/ t \in ToSet(timers.overflow)
      BY <2>1 DEF Sound
    <2>3. t \in ToSet(timers.current) => timers.value[t] = Time + timers.left[t]
      BY <2>1 DEF Sound
    <2>4. t \in ToSet(timers.overflow) => timers.value[t] = Time + timers.left[t] - W
      BY <2>1 DEF Sound
    <2>5. timers.left[t] \in Int /\ Time \in Int /\ W \in Int
      BY <2>1, Bounds, StateTypes, TimeIs DEF TimersInv, Sound
    <2> DEFINE x == Time + timers.left[t]
    <2>6. timers.value[t] = IF t \in ToSet(timers.current) THEN x ELSE x - W
      BY <2>2, <2>3, <2>4, <2>5
    <2> QED BY <2>1, <2>6
  <1> QED BY <1>1, TimersInvariance, PTL

\* No callback comes before its time.
THEOREM NoTimerIsEarly == Spec => []NeverEarly
  <1>1. TimersInv => NeverEarly
    BY DEF TimersInv, Sound, NeverEarly
  <1> QED BY <1>1, TimersInvariance, PTL

\* The timer task never sleeps through the expiry of a timer.
THEOREM TimerTaskWakesInTime == Spec => []AwakeInTime
  <1>1. TimersInv => AwakeInTime
    BY DEF TimersInv
  <1> QED BY <1>1, TimersInvariance, PTL
=============================================================================
