-------------------------- MODULE PageScore_proofs --------------------------
(***************************************************************************)
(* What the sums, orders and selections of Lists are for every list and    *)
(* set, and the range of every score of PageScore for every page.          *)
(***************************************************************************)
EXTENDS PageScore, FiniteSetTheorems, WellFoundedInduction, TLAPS

(* Induction over sets of numbers, which takes no operator: a non-empty    *)
(* set of naturals has a least member.                                     *)
Least(S) == CHOOSE i \in S : \A j \in S : i <= j

LEMMA LeastExists ==
    ASSUME NEW S \in SUBSET Nat, S # {}
    PROVE  Least(S) \in S /\ \A j \in S : Least(S) <= j
<1> DEFINE less == OpToRel(<, Nat)
<1>1. IsWellFoundedOn(less, Nat)
  BY NatLessThanWellFounded
<1>2. \A i, j \in Nat : <<i, j>> \in less <=> i < j
  BY DEF OpToRel
<1> HIDE DEF less
<1>3. PICK n \in S : \A m \in S : ~(<<m, n>> \in less)
  BY <1>1, WFMin
<1>4. \A m \in S : m \in Nat /\ n \in Nat /\ ~(m < n)
  BY <1>2, <1>3
<1>5. \A m \in S : n <= m
  BY <1>4
<1> QED
  BY <1>5 DEF Least

LEMMA UpTo ==
    ASSUME NEW n \in Nat, NEW S, 0 \in S,
           \A k \in 0 .. n : k < n /\ k \in S => k + 1 \in S
    PROVE  0 .. n \subseteq S
<1> SUFFICES ASSUME ~(0 .. n \subseteq S) PROVE FALSE
  OBVIOUS
<1> DEFINE out == {k \in 0 .. n : k \notin S}
<1>1. out \in SUBSET Nat /\ out # {}
  OBVIOUS
<1> DEFINE m == Least(out)
<1>2. m \in out /\ \A j \in out : m <= j
  <2> HIDE DEF out
  <2> QED
    BY <1>1, LeastExists
<1> HIDE DEF m
<1>3. m \in 0 .. n /\ m \notin S /\ m # 0
  BY <1>2
<1>4. m - 1 \in 0 .. n /\ m - 1 \notin out /\ m - 1 < n /\ (m - 1) + 1 = m
  BY <1>2, <1>3
<1>5. m - 1 \in S
  BY <1>4
<1>6. (m - 1) + 1 \in S
  BY <1>4, <1>5
<1> QED
  BY <1>3, <1>4, <1>6

-----------------------------------------------------------------------------
(* The partial sums of a list.                                             *)

LEMMA TotalDef ==
    ASSUME NEW s, Len(s) \in Nat, \A k \in 1 .. Len(s) : s[k] \in Int
    PROVE  \E t \in [0 .. Len(s) -> Int] :
              /\ t[0] = 0 /\ \A k \in 1 .. Len(s) : t[k] = t[k - 1] + s[k]
              /\ Total(s) = t[Len(s)]
<1> DEFINE eqn(n, t) == t = [k \in 0 .. n |-> IF k = 0 THEN 0 ELSE t[k - 1] + s[k]]
<1> DEFINE good == {n \in 0 .. Len(s) : \E t \in [0 .. n -> Int] : eqn(n, t)}
<1>1. 0 \in good
  <2>1. [k \in 0 .. 0 |-> 0] \in [0 .. 0 -> Int] /\ eqn(0, [k \in 0 .. 0 |-> 0])
    OBVIOUS
  <2>2. 0 \in 0 .. Len(s)
    OBVIOUS
  <2> QED
    BY <2>1, <2>2
<1>2. ASSUME NEW n \in 0 .. Len(s), n < Len(s), n \in good
      PROVE  n + 1 \in good
  <2>1. PICK t \in [0 .. n -> Int] : eqn(n, t)
    BY <1>2
  <2> DEFINE u == [k \in 0 .. n + 1 |-> IF k <= n THEN t[k] ELSE t[n] + s[n + 1]]
  <2>2. u \in [0 .. n + 1 -> Int]
    <3>1. n + 1 \in 1 .. Len(s) /\ n \in 0 .. n
      BY <1>2
    <3>2. s[n + 1] \in Int /\ t[n] \in Int
      BY <3>1, <2>1
    <3>3. ASSUME NEW k \in 0 .. n + 1
          PROVE  (IF k <= n THEN t[k] ELSE t[n] + s[n + 1]) \in Int
      BY <3>2, <2>1
    <3> QED
      BY <3>3
  <2>3. ASSUME NEW k \in 0 .. n + 1
        PROVE  u[k] = IF k = 0 THEN 0 ELSE u[k - 1] + s[k]
    <3>1. CASE k = n + 1
      BY <2>1, <3>1
    <3>2. CASE k = 0
      BY <2>1, <3>2
    <3>3. CASE k \in 1 .. n
      BY <2>1, <3>3
    <3> QED
      BY <3>1, <3>2, <3>3
  <2>4. eqn(n + 1, u)
    <3> HIDE DEF u
    <3> QED
      BY <2>2, <2>3
  <2>5. n + 1 \in 0 .. Len(s)
    BY <1>2
  <2> HIDE DEF u
  <2> QED
    BY <2>2, <2>4, <2>5
<1>3. Len(s) \in good
  <2> HIDE DEF good
  <2>1. 0 .. Len(s) \subseteq good
    BY <1>1, <1>2, UpTo
  <2> QED
    BY <2>1
<1>4. PICK t \in [0 .. Len(s) -> Int] : eqn(Len(s), t)
  BY <1>3
<1> DEFINE total == CHOOSE t_ : eqn(Len(s), t_)
<1>5. eqn(Len(s), total)
  BY <1>4
<1>6. Total(s) = total[Len(s)]
  BY DEF Total
<1> HIDE DEF total
<1> DEFINE ints == {k \in 0 .. Len(s) : total[k] \in Int}
<1>7. 0 .. Len(s) \subseteq ints
  <2>1. 0 \in ints
    BY <1>5
  <2>2. ASSUME NEW k \in 0 .. Len(s), k < Len(s), k \in ints PROVE k + 1 \in ints
    BY <2>2, <1>5
  <2> HIDE DEF ints
  <2> QED
    BY <2>1, <2>2, UpTo
<1>8. total \in [0 .. Len(s) -> Int]
  <2>1. total = [k \in 0 .. Len(s) |-> total[k]]
    BY <1>5
  <2>2. \A k \in 0 .. Len(s) : total[k] \in Int
    BY <1>7
  <2> QED
    BY <2>1, <2>2
<1>9. total[0] = 0 /\ \A k \in 1 .. Len(s) : total[k] = total[k - 1] + s[k]
  BY <1>5
<1> QED
  BY <1>6, <1>8, <1>9

(* A sum lies between the length times the least and times the greatest.   *)
LEMMA TotalBetween ==
    ASSUME NEW s, Len(s) \in Nat, NEW lo \in Int, NEW hi \in Int,
           \A k \in 1 .. Len(s) : s[k] \in Int /\ lo <= s[k] /\ s[k] <= hi
    PROVE  /\ Total(s) \in Int
           /\ Len(s) * lo <= Total(s) /\ Total(s) <= Len(s) * hi
<1>1. PICK t \in [0 .. Len(s) -> Int] :
          /\ t[0] = 0 /\ \A k \in 1 .. Len(s) : t[k] = t[k - 1] + s[k]
          /\ Total(s) = t[Len(s)]
  BY TotalDef
<1> DEFINE within == {k \in 0 .. Len(s) : k * lo <= t[k] /\ t[k] <= k * hi}
<1>2. 0 \in within
  BY <1>1
<1>3. ASSUME NEW k \in 0 .. Len(s), k < Len(s), k \in within PROVE k + 1 \in within
  <2>1. /\ k + 1 \in 1 .. Len(s) /\ t[k + 1] = t[k] + s[k + 1]
        /\ s[k + 1] \in Int /\ lo <= s[k + 1] /\ s[k + 1] <= hi
        /\ t[k] \in Int /\ t[k + 1] \in Int
    <3>1. /\ k \in 0 .. Len(s) /\ k + 1 \in 0 .. Len(s) /\ k + 1 \in 1 .. Len(s)
          /\ (k + 1) - 1 = k
      BY <1>3
    <3>2. t[k + 1] = t[k] + s[k + 1] /\ t[k] \in Int /\ t[k + 1] \in Int
      BY <1>1, <3>1
    <3> QED
      BY <3>1, <3>2, Zenon
  <2>2. (k + 1) * lo = k * lo + lo /\ (k + 1) * hi = k * hi + hi
    OBVIOUS
  <2>3. k * lo \in Int /\ k * hi \in Int
    OBVIOUS
  <2>4. k * lo + lo <= t[k + 1] /\ t[k + 1] <= k * hi + hi
    BY <2>1, <2>3, <1>3
  <2> QED
    BY <2>1, <2>2, <2>4
<1>4. 0 .. Len(s) \subseteq within
  <2> HIDE DEF within
  <2> QED
    BY <1>2, <1>3, UpTo
<1> QED
  BY <1>1, <1>4

LEMMA TotalNat ==
    ASSUME NEW s, Len(s) \in Nat, \A k \in 1 .. Len(s) : s[k] \in Nat
    PROVE  Total(s) \in Nat
<1>1. PICK t \in [0 .. Len(s) -> Int] :
          /\ t[0] = 0 /\ \A k \in 1 .. Len(s) : t[k] = t[k - 1] + s[k]
          /\ Total(s) = t[Len(s)]
  BY TotalDef
<1> DEFINE nats == {k \in 0 .. Len(s) : t[k] \in Nat}
<1>2. 0 \in nats
  BY <1>1
<1>3. ASSUME NEW k \in 0 .. Len(s), k < Len(s), k \in nats PROVE k + 1 \in nats
  BY <1>1, <1>3
<1>4. 0 .. Len(s) \subseteq nats
  <2> HIDE DEF nats
  <2> QED
    BY <1>2, <1>3, UpTo
<1> QED
  BY <1>1, <1>4

(* How a sum changes when one element changes, comes last or is removed.   *)
LEMMA TotalChange ==
    ASSUME NEW s, NEW u, NEW n \in Nat, Len(s) = n, Len(u) = n,
           NEW i \in 1 .. n, \A k \in 1 .. n : s[k] \in Int /\ u[k] \in Int,
           \A k \in 1 .. n : k # i => u[k] = s[k]
    PROVE  Total(u) = Total(s) + (u[i] - s[i])
<1> DEFINE e == u[i] - s[i]
<1>1. e \in Int /\ \A k \in 1 .. n : u[k] = IF k = i THEN s[k] + e ELSE s[k]
  OBVIOUS
<1> HIDE DEF e
<1>2. PICK t \in [0 .. n -> Int] :
          /\ t[0] = 0 /\ \A k \in 1 .. n : t[k] = t[k - 1] + s[k]
          /\ Total(s) = t[n]
  BY TotalDef
<1>3. PICK v \in [0 .. n -> Int] :
          /\ v[0] = 0 /\ \A k \in 1 .. n : v[k] = v[k - 1] + u[k]
          /\ Total(u) = v[n]
  BY TotalDef
<1> DEFINE good == {k \in 0 .. n : v[k] = t[k] + IF k < i THEN 0 ELSE e}
<1>4. 0 \in good
  BY <1>2, <1>3
<1>5. ASSUME NEW k \in 0 .. n, k < n, k \in good PROVE k + 1 \in good
  <2>1. k + 1 \in 1 .. n /\ (k + 1) - 1 = k /\ k + 1 \in 0 .. n
    BY <1>5
  <2>2. t[k + 1] = t[k] + s[k + 1] /\ v[k + 1] = v[k] + u[k + 1]
    BY <1>2, <1>3, <2>1
  <2>3. t[k] \in Int /\ s[k + 1] \in Int /\ s[i] \in Int /\ v[k] \in Int /\ e \in Int
    BY <1>1, <1>2, <1>3, <2>1
  <2>4. u[k + 1] = IF k + 1 = i THEN s[k + 1] + e ELSE s[k + 1]
    BY <1>1, <2>1
  <2>5. v[k] = t[k] + IF k < i THEN 0 ELSE e
    BY <1>5
  <2>6. v[k + 1] = t[k + 1] + IF k + 1 < i THEN 0 ELSE e
    <3>1. CASE k + 1 < i
      <4>1. k < i /\ k + 1 # i
        BY <3>1
      <4> QED
        BY <2>2, <2>3, <2>4, <2>5, <3>1, <4>1
    <3>2. CASE k + 1 = i
      <4>1. k < i /\ ~(k + 1 < i)
        BY <3>2
      <4>2. v[k] = t[k]
        BY <2>3, <2>5, <4>1
      <4>3. u[k + 1] = s[k + 1] + e
        BY <2>4, <3>2
      <4>4. v[k + 1] = t[k + 1] + e
        <5> DEFINE x == t[k]
                   y == s[k + 1]
                   z == v[k + 1]
                   w == t[k + 1]
        <5>1. x \in Int /\ y \in Int /\ e \in Int
          BY <2>3, Zenon
        <5>2. w = x + y /\ z = x + (y + e)
          BY <2>2, <4>2, <4>3, Zenon
        <5> HIDE DEF x, y, z, w
        <5>3. z = w + e
          BY <5>1, <5>2
        <5> QED
          BY <5>3, Zenon DEF z, w
      <4> QED
        BY <4>1, <4>4
    <3>3. CASE k + 1 > i
      <4>1. ~(k < i) /\ k + 1 # i /\ ~(k + 1 < i)
        BY <3>3
      <4>2. v[k] = t[k] + e
        BY <2>5, <4>1
      <4>3. u[k + 1] = s[k + 1]
        BY <2>4, <4>1
      <4>4. v[k + 1] = t[k + 1] + e
        <5> DEFINE x == t[k]
                   y == s[k + 1]
                   z == v[k + 1]
                   w == t[k + 1]
        <5>1. x \in Int /\ y \in Int /\ e \in Int
          BY <2>3, Zenon
        <5>2. w = x + y /\ z = (x + e) + y
          BY <2>2, <4>2, <4>3, Zenon
        <5> HIDE DEF x, y, z, w
        <5>3. z = w + e
          BY <5>1, <5>2
        <5> QED
          BY <5>3, Zenon DEF z, w
      <4> QED
        BY <4>1, <4>4
    <3> QED
      BY <3>1, <3>2, <3>3
  <2> QED
    BY <2>1, <2>6
<1>6. 0 .. n \subseteq good
  <2> HIDE DEF good
  <2> QED
    BY <1>4, <1>5, UpTo
<1> QED
  BY <1>2, <1>3, <1>6 DEF e

LEMMA TotalLonger ==
    ASSUME NEW s, NEW u, NEW n \in Nat, Len(s) = n, Len(u) = n + 1,
           \A k \in 1 .. n : s[k] \in Int /\ u[k] = s[k], u[n + 1] \in Int
    PROVE  Total(u) = Total(s) + u[n + 1]
<1>1. PICK t \in [0 .. n -> Int] :
          /\ t[0] = 0 /\ \A k \in 1 .. n : t[k] = t[k - 1] + s[k]
          /\ Total(s) = t[n]
  BY TotalDef
<1>2. Len(u) \in Nat /\ \A k \in 1 .. Len(u) : u[k] \in Int
  OBVIOUS
<1>3. PICK v \in [0 .. n + 1 -> Int] :
          /\ v[0] = 0 /\ \A k \in 1 .. n + 1 : v[k] = v[k - 1] + u[k]
          /\ Total(u) = v[n + 1]
  BY <1>2, TotalDef
<1> DEFINE good == {k \in 0 .. n : v[k] = t[k]}
<1>4. 0 \in good
  BY <1>1, <1>3
<1>5. ASSUME NEW k \in 0 .. n, k < n, k \in good PROVE k + 1 \in good
  BY <1>1, <1>3, <1>5
<1>6. 0 .. n \subseteq good
  <2> HIDE DEF good
  <2> QED
    BY <1>4, <1>5, UpTo
<1> QED
  BY <1>1, <1>3, <1>6

LEMMA TotalWithout ==
    ASSUME NEW s, NEW u, NEW n \in Nat, Len(s) = n + 1, Len(u) = n,
           NEW i \in 1 .. n + 1, \A k \in 1 .. n + 1 : s[k] \in Int,
           \A k \in 1 .. n : u[k] = IF k < i THEN s[k] ELSE s[k + 1]
    PROVE  Total(u) = Total(s) - s[i]
<1>1. Len(s) \in Nat /\ \A k \in 1 .. Len(s) : s[k] \in Int
  OBVIOUS
<1>2. PICK t \in [0 .. n + 1 -> Int] :
          /\ t[0] = 0 /\ \A k \in 1 .. n + 1 : t[k] = t[k - 1] + s[k]
          /\ Total(s) = t[n + 1]
  BY <1>1, TotalDef
<1>3. \A k \in 1 .. n : u[k] \in Int
  OBVIOUS
<1>4. PICK v \in [0 .. n -> Int] :
          /\ v[0] = 0 /\ \A k \in 1 .. n : v[k] = v[k - 1] + u[k]
          /\ Total(u) = v[n]
  BY <1>3, TotalDef
<1> DEFINE good == {k \in 0 .. n : v[k] = IF k < i THEN t[k] ELSE t[k + 1] - s[i]}
<1>5. 0 \in good
  <2>1. 0 < i
    OBVIOUS
  <2> QED
    BY <1>2, <1>4, <2>1
<1>6. ASSUME NEW k \in 0 .. n, k < n, k \in good PROVE k + 1 \in good
  <2>1. /\ k + 1 \in 1 .. n /\ k + 2 \in 1 .. n + 1 /\ k + 1 \in 1 .. n + 1
        /\ (k + 1) - 1 = k /\ (k + 2) - 1 = k + 1 /\ (k + 1) + 1 = k + 2
    BY <1>6
  <2>2. /\ t[k + 1] = t[k] + s[k + 1] /\ t[k + 2] = t[k + 1] + s[k + 2]
        /\ v[k + 1] = v[k] + u[k + 1]
    BY <1>2, <1>4, <2>1
  <2>3. /\ t[k] \in Int /\ t[k + 1] \in Int /\ t[k + 2] \in Int /\ v[k] \in Int
        /\ s[k + 1] \in Int /\ s[k + 2] \in Int /\ s[i] \in Int
    <3>1. k \in 0 .. n + 1 /\ k + 1 \in 0 .. n + 1 /\ k + 2 \in 0 .. n + 1 /\ k \in 0 .. n
      BY <2>1
    <3> QED
      BY <1>2, <1>4, <2>1, <3>1
  <2>4. u[k + 1] = IF k + 1 < i THEN s[k + 1] ELSE s[k + 2]
    BY <2>1
  <2>5. v[k] = IF k < i THEN t[k] ELSE t[k + 1] - s[i]
    BY <1>6
  <2>6. v[k + 1] = IF k + 1 < i THEN t[k + 1] ELSE t[k + 2] - s[i]
    <3>1. CASE k + 1 < i
      <4>1. k < i
        BY <3>1
      <4> QED
        BY <2>2, <2>3, <2>4, <2>5, <3>1, <4>1
    <3>2. CASE k + 1 = i
      <4>1. k < i /\ ~(k + 1 < i)
        BY <3>2
      <4>2. v[k] = t[k] /\ u[k + 1] = s[k + 2] /\ s[i] = s[k + 1]
        BY <2>4, <2>5, <3>2, <4>1
      <4>3. v[k + 1] = t[k + 2] - s[i]
        <5> DEFINE x == t[k]
                   y == s[i]
                   z == s[k + 2]
                   w == t[k + 2]
                   u1 == v[k + 1]
        <5>1. x \in Int /\ y \in Int /\ z \in Int
          BY <2>3, Zenon
        <5>2. u1 = x + z /\ w = (x + y) + z
          BY <2>2, <4>2, Zenon
        <5> HIDE DEF x, y, z, w, u1
        <5>3. u1 = w - y
          BY <5>1, <5>2
        <5> QED
          BY <5>3, Zenon DEF u1, w, y
      <4> QED
        BY <4>1, <4>3
    <3>3. CASE k + 1 > i
      <4>1. ~(k < i) /\ ~(k + 1 < i)
        BY <3>3
      <4>2. v[k] = t[k + 1] - s[i] /\ u[k + 1] = s[k + 2]
        BY <2>4, <2>5, <4>1
      <4>3. v[k + 1] = t[k + 2] - s[i]
        <5> DEFINE x == t[k + 1]
                   y == s[i]
                   z == s[k + 2]
                   w == t[k + 2]
                   u1 == v[k + 1]
        <5>1. x \in Int /\ y \in Int /\ z \in Int
          BY <2>3, Zenon
        <5>2. u1 = (x - y) + z /\ w = x + z
          BY <2>2, <4>2, Zenon
        <5> HIDE DEF x, y, z, w, u1
        <5>3. u1 = w - y
          BY <5>1, <5>2
        <5> QED
          BY <5>3, Zenon DEF u1, w, y
      <4> QED
        BY <4>1, <4>3
    <3> QED
      BY <3>1, <3>2, <3>3
  <2> QED
    BY <2>1, <2>6
<1>7. n \in good
  <2> HIDE DEF good
  <2>1. 0 .. n \subseteq good
    BY <1>5, <1>6, UpTo
  <2> QED
    BY <2>1
<1>8. CASE n < i
  <2>1. i = n + 1 /\ v[n] = t[n] /\ t[n + 1] = t[n] + s[n + 1] /\ t[n] \in Int /\ s[n + 1] \in Int
    <3>1. i = n + 1 /\ n + 1 \in 1 .. n + 1 /\ (n + 1) - 1 = n /\ n \in 0 .. n + 1
      BY <1>8
    <3> QED
      BY <1>2, <1>7, <1>8, <3>1
  <2> QED
    BY <1>2, <1>4, <2>1
<1> QED
  BY <1>2, <1>4, <1>7, <1>8

-----------------------------------------------------------------------------
(* Concatenations.                                                         *)

\* The members of the parts of a list of lists.
Parts(ss) == UNION {ToSet(ss[k]) : k \in DOMAIN ss}

LEMMA FlattenDef ==
    ASSUME NEW A, NEW ss \in Seq(Seq(A)), ss # <<>>
    PROVE  \E f \in [1 .. Len(ss) -> Seq(A)] :
              /\ f[1] = ss[1] /\ \A k \in 2 .. Len(ss) : f[k] = f[k - 1] \o ss[k]
              /\ FlattenSeq(ss) = f[Len(ss)]
<1> DEFINE n0 == Len(ss) - 1
<1> DEFINE eqn(n, f) == f = [k \in 1 .. n |-> IF k = 1 THEN ss[k] ELSE f[k - 1] \o ss[k]]
<1> DEFINE good == {n \in 0 .. n0 : \E f \in [1 .. n + 1 -> Seq(A)] : eqn(n + 1, f)}
<1>1. n0 \in Nat /\ Len(ss) = n0 + 1 /\ \A k \in 1 .. Len(ss) : ss[k] \in Seq(A)
  OBVIOUS
<1> HIDE DEF n0
<1>2. 0 \in good
  <2>1. [k \in 1 .. 1 |-> ss[1]] \in [1 .. 1 -> Seq(A)] /\ eqn(1, [k \in 1 .. 1 |-> ss[1]])
    BY <1>1
  <2>2. 0 \in 0 .. n0 /\ 0 + 1 = 1
    BY <1>1
  <2> QED
    BY <2>1, <2>2
<1>3. ASSUME NEW n \in 0 .. n0, n < n0, n \in good
      PROVE  n + 1 \in good
  <2>1. PICK f \in [1 .. n + 1 -> Seq(A)] : eqn(n + 1, f)
    BY <1>3
  <2> DEFINE g == [k \in 1 .. n + 2 |-> IF k <= n + 1 THEN f[k] ELSE f[n + 1] \o ss[n + 2]]
  <2>2. g \in [1 .. n + 2 -> Seq(A)]
    <3>1. n + 2 \in 1 .. Len(ss) /\ n + 1 \in 1 .. n + 1
      BY <1>1, <1>3
    <3>2. ss[n + 2] \in Seq(A) /\ f[n + 1] \in Seq(A)
      BY <3>1, <2>1, <1>1
    <3>3. ASSUME NEW k \in 1 .. n + 2
          PROVE  (IF k <= n + 1 THEN f[k] ELSE f[n + 1] \o ss[n + 2]) \in Seq(A)
      BY <3>2, <2>1
    <3> QED
      BY <3>3
  <2>3. ASSUME NEW k \in 1 .. n + 2
        PROVE  g[k] = IF k = 1 THEN ss[k] ELSE g[k - 1] \o ss[k]
    <3>1. CASE k = n + 2
      <4>1. k # 1 /\ k - 1 = n + 1 /\ n + 1 \in 1 .. n + 2 /\ n + 1 <= n + 1 /\ ~(n + 2 <= n + 1)
        BY <3>1
      <4>2. g[k] = f[n + 1] \o ss[n + 2] /\ g[k - 1] = f[n + 1]
        BY <3>1, <4>1
      <4> HIDE DEF g
      <4> QED
        BY <3>1, <4>1, <4>2
    <3>2. CASE k = 1
      BY <2>1, <3>2
    <3>3. CASE k \in 2 .. n + 1
      <4>1. k # 1 /\ k - 1 \in 1 .. n + 2 /\ k - 1 <= n + 1 /\ k <= n + 1 /\ k \in 1 .. n + 1
        BY <3>3
      <4>2. g[k] = f[k] /\ g[k - 1] = f[k - 1]
        BY <4>1
      <4>3. f[k] = f[k - 1] \o ss[k]
        BY <2>1, <4>1, Zenon
      <4> HIDE DEF g
      <4> QED
        BY <4>1, <4>2, <4>3
    <3> QED
      BY <3>1, <3>2, <3>3
  <2>4. eqn(n + 2, g)
    <3> HIDE DEF g
    <3> QED
      BY <2>2, <2>3
  <2>5. n + 1 \in 0 .. n0 /\ (n + 1) + 1 = n + 2
    BY <1>1, <1>3
  <2> HIDE DEF g
  <2> QED
    BY <2>2, <2>4, <2>5
<1>4. n0 \in good
  <2> HIDE DEF good
  <2>1. 0 .. n0 \subseteq good
    BY <1>1, <1>2, <1>3, UpTo
  <2> QED
    BY <2>1, <1>1
<1>5. PICK f \in [1 .. Len(ss) -> Seq(A)] : eqn(Len(ss), f)
  BY <1>4, <1>1, Zenon
<1> DEFINE flat == CHOOSE f_ : eqn(Len(ss), f_)
<1>6. eqn(Len(ss), flat)
  BY <1>5, Zenon
<1>7. FlattenSeq(ss) = flat[Len(ss)]
  BY <1>1 DEF FlattenSeq
<1> HIDE DEF flat
<1> DEFINE seqs == {k \in 0 .. n0 : flat[k + 1] \in Seq(A)}
<1>8. 0 .. n0 \subseteq seqs
  <2>1. 0 \in seqs
    BY <1>6, <1>1
  <2>2. ASSUME NEW k \in 0 .. n0, k < n0, k \in seqs PROVE k + 1 \in seqs
    <3>1. k + 2 \in 2 .. Len(ss) /\ (k + 1) + 1 = k + 2 /\ (k + 2) - 1 = k + 1
      BY <1>1, <2>2
    <3>2. flat[k + 2] = flat[k + 1] \o ss[k + 2]
      <4>1. k + 2 \in 1 .. Len(ss) /\ k + 2 # 1
        BY <3>1, <1>1
      <4>2. flat[k + 2] = flat[(k + 2) - 1] \o ss[k + 2]
        BY <1>6, <4>1, Zenon
      <4> QED
        BY <3>1, <4>2
    <3>3. flat[k + 1] \in Seq(A) /\ ss[k + 2] \in Seq(A) /\ k + 1 \in 0 .. n0
      BY <2>2, <1>1, <3>1
    <3>4. flat[k + 2] \in Seq(A)
      BY <3>2, <3>3
    <3> QED
      BY <3>1, <3>3, <3>4
  <2> HIDE DEF seqs
  <2> QED
    BY <1>1, <2>1, <2>2, UpTo
<1>9. flat \in [1 .. Len(ss) -> Seq(A)]
  <2>1. flat = [k \in 1 .. Len(ss) |-> flat[k]]
    BY <1>6
  <2>2. ASSUME NEW k \in 1 .. Len(ss) PROVE flat[k] \in Seq(A)
    <3>1. k - 1 \in 0 .. n0 /\ (k - 1) + 1 = k
      BY <1>1
    <3>2. k - 1 \in seqs
      BY <1>8, <3>1
    <3> QED
      BY <3>1, <3>2
  <2> QED
    BY <2>1, <2>2
<1>10. flat[1] = ss[1] /\ \A k \in 2 .. Len(ss) : flat[k] = flat[k - 1] \o ss[k]
  <2>1. \A k \in 1 .. Len(ss) : flat[k] = IF k = 1 THEN ss[k] ELSE flat[k - 1] \o ss[k]
    BY <1>6, Zenon
  <2>2. 1 \in 1 .. Len(ss) /\ \A k \in 2 .. Len(ss) : k \in 1 .. Len(ss) /\ k # 1
    BY <1>1
  <2> QED
    BY <2>1, <2>2, Zenon
<1> QED
  BY <1>7, <1>9, <1>10

LEMMA ConcatSet ==
    ASSUME NEW A, NEW s \in Seq(A), NEW u \in Seq(A)
    PROVE  ToSet(s \o u) = ToSet(s) \cup ToSet(u)
<1> DEFINE w == s \o u
<1>1. /\ Len(s) \in Nat /\ Len(u) \in Nat /\ DOMAIN w = 1 .. Len(s) + Len(u)
      /\ DOMAIN s = 1 .. Len(s) /\ DOMAIN u = 1 .. Len(u)
      /\ \A k \in 1 .. Len(s) : w[k] = s[k]
      /\ \A k \in 1 .. Len(u) : w[k + Len(s)] = u[k]
  OBVIOUS
<1> HIDE DEF w
<1>2. ASSUME NEW k \in DOMAIN w PROVE w[k] \in ToSet(s) \cup ToSet(u)
  <2>1. CASE k \in 1 .. Len(s)
    BY <1>1, <2>1 DEF ToSet
  <2>2. CASE k > Len(s)
    <3>1. k - Len(s) \in 1 .. Len(u) /\ (k - Len(s)) + Len(s) = k
      BY <1>1, <2>2
    <3> QED
      BY <1>1, <3>1 DEF ToSet
  <2> QED
    BY <1>1, <2>1, <2>2
<1>3. ASSUME NEW k \in DOMAIN s PROVE s[k] \in ToSet(w)
  BY <1>1 DEF ToSet
<1>4. ASSUME NEW k \in DOMAIN u PROVE u[k] \in ToSet(w)
  <2>1. k + Len(s) \in DOMAIN w
    BY <1>1
  <2> QED
    BY <1>1, <2>1 DEF ToSet
<1>5. ToSet(w) = ToSet(s) \cup ToSet(u)
  BY <1>2, <1>3, <1>4 DEF ToSet
<1> QED
  BY <1>5 DEF w

LEMMA FlattenParts ==
    ASSUME NEW A, NEW ss \in Seq(Seq(A))
    PROVE  FlattenSeq(ss) \in Seq(A) /\ ToSet(FlattenSeq(ss)) = Parts(ss)
<1>1. CASE ss = <<>>
  <2>1. FlattenSeq(ss) = <<>>
    BY <1>1 DEF FlattenSeq
  <2>2. <<>> \in Seq(A) /\ ToSet(<<>>) = {} /\ Parts(ss) = {}
    BY <1>1 DEF ToSet, Parts
  <2> QED
    BY <2>1, <2>2
<1>2. CASE ss # <<>>
  <2>1. PICK f \in [1 .. Len(ss) -> Seq(A)] :
            /\ f[1] = ss[1] /\ \A k \in 2 .. Len(ss) : f[k] = f[k - 1] \o ss[k]
            /\ FlattenSeq(ss) = f[Len(ss)]
    BY <1>2, FlattenDef
  <2> DEFINE n0 == Len(ss) - 1
  <2>2. n0 \in Nat /\ Len(ss) = n0 + 1 /\ DOMAIN ss = 1 .. Len(ss)
        /\ \A k \in 1 .. Len(ss) : ss[k] \in Seq(A)
    BY <1>2
  <2> HIDE DEF n0
  <2> DEFINE upto(k) == UNION {ToSet(ss[j]) : j \in 1 .. k}
  <2> DEFINE good == {k \in 0 .. n0 : ToSet(f[k + 1]) = upto(k + 1)}
  <2>3. 0 \in good
    <3>1. 1 .. 1 = {1}
      OBVIOUS
    <3>2. upto(1) = ToSet(ss[1])
      BY <3>1
    <3>3. 0 \in 0 .. n0 /\ 0 + 1 = 1
      BY <2>2
    <3> QED
      BY <2>1, <3>2, <3>3
  <2>4. ASSUME NEW k \in 0 .. n0, k < n0, k \in good PROVE k + 1 \in good
    <3>1. ToSet(f[k + 1]) = upto(k + 1)
      BY <2>4
    <3> HIDE DEF good, upto
    <3>2. k \in Nat /\ n0 \in Nat /\ k < n0 /\ Len(ss) = n0 + 1
      BY <2>2, <2>4
    <3>3. /\ k + 2 \in 2 .. Len(ss) /\ k + 2 \in 1 .. Len(ss) /\ k + 1 \in 1 .. Len(ss)
          /\ (k + 2) - 1 = k + 1 /\ (k + 1) + 1 = k + 2 /\ k + 1 \in 0 .. n0
      BY <3>2
    <3>4. f[k + 2] = f[k + 1] \o ss[k + 2]
      BY <2>1, <3>3
    <3>5. f[k + 1] \in Seq(A) /\ ss[k + 2] \in Seq(A)
      BY <2>2, <3>3
    <3>6. ToSet(f[k + 2]) = ToSet(f[k + 1]) \cup ToSet(ss[k + 2])
      BY <3>4, <3>5, ConcatSet
    <3>7. \A j : j \in 1 .. k + 2 <=> j \in 1 .. k + 1 \/ j = k + 2
      <4>1. k \in Nat
        BY <3>2
      <4> QED
        BY <4>1
    <3>8. upto(k + 2) = upto(k + 1) \cup ToSet(ss[k + 2])
      <4>1. \A x : /\ x \in upto(k + 2) <=> \E j \in 1 .. k + 2 : x \in ToSet(ss[j])
                   /\ x \in upto(k + 1) <=> \E j \in 1 .. k + 1 : x \in ToSet(ss[j])
        BY Zenon DEF upto
      <4>2. \A x : x \in upto(k + 2) <=> x \in upto(k + 1) \/ x \in ToSet(ss[k + 2])
        BY <3>7, <4>1, Zenon
      <4> QED
        BY <4>2, Zenon
    <3> QED
      BY <3>1, <3>3, <3>6, <3>8 DEF good
  <2>5. n0 \in good
    <3> HIDE DEF good
    <3>1. 0 .. n0 \subseteq good
      BY <2>2, <2>3, <2>4, UpTo
    <3> QED
      BY <3>1, <2>2
  <2>6. ToSet(f[Len(ss)]) = upto(Len(ss))
    BY <2>5, <2>2
  <2> QED
    BY <2>1, <2>2, <2>6 DEF Parts
<1> QED
  BY <1>1, <1>2

-----------------------------------------------------------------------------
(* Ranks in a strict total order.                                          *)

Orders(R, S) ==
    /\ \A x \in S : <<x, x>> \notin R
    /\ \A x, y, z \in S : <<x, y>> \in R /\ <<y, z>> \in R => <<x, z>> \in R
    /\ \A x, y \in S : x # y => <<x, y>> \in R \/ <<y, x>> \in R

Before(R, S, x) == {y \in S : <<y, x>> \in R}

LEMMA RankGrows ==
    ASSUME NEW S, IsFiniteSet(S), NEW R, Orders(R, S),
           NEW x \in S, NEW y \in S, <<x, y>> \in R
    PROVE  Cardinality(Before(R, S, x)) < Cardinality(Before(R, S, y))
<1>1. Before(R, S, x) \cup {x} \subseteq Before(R, S, y) /\ x \notin Before(R, S, x)
  BY DEF Before, Orders
<1>2. IsFiniteSet(Before(R, S, x)) /\ IsFiniteSet(Before(R, S, y))
  <2>1. Before(R, S, x) \subseteq S /\ Before(R, S, y) \subseteq S
    BY DEF Before
  <2> QED
    BY <2>1, FS_Subset
<1>3. Cardinality(Before(R, S, x) \cup {x}) = Cardinality(Before(R, S, x)) + 1
  BY <1>1, <1>2, FS_AddElement
<1>4. Cardinality(Before(R, S, x) \cup {x}) <= Cardinality(Before(R, S, y))
  BY <1>1, <1>2, FS_Subset
<1> QED
  BY <1>2, <1>3, <1>4, FS_CardinalityType

\* Every rank below the size of the set is taken by exactly one member.
LEMMA RankTaken ==
    ASSUME NEW S, IsFiniteSet(S), NEW R, Orders(R, S)
    PROVE  /\ \A x \in S : Cardinality(Before(R, S, x)) \in 0 .. Cardinality(S) - 1
           /\ \A k \in 0 .. Cardinality(S) - 1 :
                  \E x \in S : Cardinality(Before(R, S, x)) = k
<1> DEFINE n == Cardinality(S)
<1> DEFINE rank == [x \in S |-> Cardinality(Before(R, S, x))]
<1>1. n \in Nat
  BY FS_CardinalityType
<1>2. ASSUME NEW x \in S PROVE Cardinality(Before(R, S, x)) \in 0 .. n - 1
  <2>1. Before(R, S, x) \subseteq S /\ x \notin Before(R, S, x)
    BY DEF Before, Orders
  <2>2. IsFiniteSet(Before(R, S, x)) /\ Cardinality(Before(R, S, x)) <= n
        /\ Cardinality(Before(R, S, x)) # n
    BY <2>1, FS_Subset
  <2> QED
    BY <1>1, <2>2, FS_CardinalityType
<1>3. ASSUME NEW x \in S, NEW y \in S, rank[x] = rank[y] PROVE x = y
  <2> SUFFICES ASSUME x # y PROVE FALSE
    OBVIOUS
  <2>1. <<x, y>> \in R \/ <<y, x>> \in R
    BY DEF Orders
  <2>2. rank[x] < rank[y] \/ rank[y] < rank[x]
    BY <2>1, RankGrows
  <2> QED
    BY <1>2, <1>3, <2>2
<1>4. rank \in Injection(S, 0 .. n - 1)
  <2>1. rank \in [S -> 0 .. n - 1]
    BY <1>2
  <2> HIDE DEF rank
  <2> QED
    BY <1>3, <2>1 DEF Injection, IsInjective
<1>5. IsFiniteSet(0 .. n - 1) /\ Cardinality(0 .. n - 1) = n
  <2>1. 0 \in Int /\ n - 1 \in Int
    BY <1>1
  <2>2. IsFiniteSet(0 .. n - 1)
        /\ Cardinality(0 .. n - 1) = IF 0 > n - 1 THEN 0 ELSE (n - 1) - 0 + 1
    BY <2>1, FS_Interval
  <2> QED
    BY <1>1, <2>2
<1>6. rank \in Surjection(S, 0 .. n - 1)
  <2> HIDE DEF rank
  <2> QED
    BY <1>4, <1>5, FS_Injection
<1>7. \A k \in 0 .. n - 1 : \E x \in S : rank[x] = k
  <2> HIDE DEF rank
  <2> QED
    BY <1>6 DEF Surjection
<1> QED
  BY <1>2, <1>7

(* Ranked(S, R) lists the members of S once each, in the order R.          *)
LEMMA RankedIs ==
    ASSUME NEW S, IsFiniteSet(S), NEW R, Orders(R, S)
    PROVE  /\ Ranked(S, R) \in Seq(S) /\ Len(Ranked(S, R)) = Cardinality(S)
           /\ Cardinality(S) \in Nat
           /\ \A k \in 1 .. Cardinality(S) :
                  Ranked(S, R)[k] \in S /\ Cardinality(Before(R, S, Ranked(S, R)[k])) = k - 1
           /\ ToSet(Ranked(S, R)) = S
           /\ \A j, k \in 1 .. Cardinality(S) :
                  j < k => <<Ranked(S, R)[j], Ranked(S, R)[k]>> \in R
<1> DEFINE n == Cardinality(S)
<1> DEFINE r == Ranked(S, R)
<1>1. n \in Nat
  BY FS_CardinalityType
<1>2. r = [k \in 1 .. n |-> CHOOSE x \in S : Cardinality(Before(R, S, x)) = k - 1]
  BY DEF Ranked, Before
<1>3. ASSUME NEW k \in 1 .. n
      PROVE  r[k] \in S /\ Cardinality(Before(R, S, r[k])) = k - 1
  <2>1. k - 1 \in 0 .. n - 1
    BY <1>1
  <2>2. \E x \in S : Cardinality(Before(R, S, x)) = k - 1
    BY <2>1, RankTaken
  <2>3. r[k] = CHOOSE x \in S : Cardinality(Before(R, S, x)) = k - 1
    BY <1>2
  <2> HIDE DEF r
  <2> QED
    BY <2>2, <2>3
<1>4. r \in [1 .. n -> S]
  <2>1. r = [k \in 1 .. n |-> r[k]]
    BY <1>2
  <2> HIDE DEF r
  <2> QED
    BY <2>1, <1>3
<1> HIDE DEF r
<1>5. r \in Seq(S) /\ Len(r) = n /\ DOMAIN r = 1 .. n
  BY <1>1, <1>4
<1>6. ASSUME NEW x \in S PROVE x \in ToSet(r)
  <2> DEFINE k == Cardinality(Before(R, S, x)) + 1
  <2>1. Cardinality(Before(R, S, x)) \in 0 .. n - 1
    BY RankTaken
  <2>2. k \in 1 .. n /\ k - 1 = Cardinality(Before(R, S, x))
    BY <1>1, <2>1
  <2> HIDE DEF k
  <2>3. r[k] \in S /\ Cardinality(Before(R, S, r[k])) = Cardinality(Before(R, S, x))
    BY <1>3, <2>2
  <2>4. r[k] = x
    <3> SUFFICES ASSUME r[k] # x PROVE FALSE
      OBVIOUS
    <3>1. <<r[k], x>> \in R \/ <<x, r[k]>> \in R
      BY <2>3 DEF Orders
    <3> QED
      BY <2>1, <2>3, <3>1, RankGrows
  <2> QED
    BY <1>5, <2>2, <2>4 DEF ToSet
<1>7. ToSet(r) = S
  BY <1>3, <1>5, <1>6 DEF ToSet
<1>8. ASSUME NEW j \in 1 .. n, NEW k \in 1 .. n, j < k PROVE <<r[j], r[k]>> \in R
  <2>1. r[j] \in S /\ r[k] \in S /\ Cardinality(Before(R, S, r[j])) = j - 1
        /\ Cardinality(Before(R, S, r[k])) = k - 1
    BY <1>3
  <2>2. r[j] # r[k]
    BY <1>8, <2>1
  <2>3. CASE <<r[k], r[j]>> \in R
    <3>1. k - 1 < j - 1
      BY <2>1, <2>3, RankGrows
    <3> QED
      BY <1>8, <3>1
  <2> QED
    BY <2>1, <2>2, <2>3 DEF Orders
<1> QED
  BY <1>1, <1>3, <1>5, <1>7, <1>8 DEF r

LEMMA RankedInjective ==
    ASSUME NEW S, IsFiniteSet(S), NEW R, Orders(R, S)
    PROVE  IsInjective(Ranked(S, R))
<1> DEFINE r == Ranked(S, R)
<1>1. /\ Cardinality(S) \in Nat /\ r \in Seq(S) /\ Len(r) = Cardinality(S)
      /\ \A j, k \in 1 .. Cardinality(S) : j < k => <<r[j], r[k]>> \in R
      /\ \A k \in 1 .. Cardinality(S) : r[k] \in S
  BY RankedIs
<1> HIDE DEF r
<1>2. ASSUME NEW j \in DOMAIN r, NEW k \in DOMAIN r, r[j] = r[k] PROVE j = k
  <2>1. j \in 1 .. Cardinality(S) /\ k \in 1 .. Cardinality(S)
    BY <1>1
  <2>2. ~(j < k) /\ ~(k < j)
    BY <1>1, <1>2, <2>1 DEF Orders
  <2> QED
    BY <2>1, <2>2
<1>3. IsInjective(r)
  BY <1>2 DEF IsInjective
<1> QED
  BY <1>3 DEF r

LEMMA InOrderIs ==
    ASSUME NEW S \in SUBSET Int, IsFiniteSet(S)
    PROVE  /\ InOrder(S) \in Seq(S) /\ Len(InOrder(S)) = Cardinality(S)
           /\ Cardinality(S) \in Nat /\ DOMAIN InOrder(S) = 1 .. Cardinality(S)
           /\ ToSet(InOrder(S)) = S
           /\ \A j, k \in 1 .. Cardinality(S) : j < k => InOrder(S)[j] < InOrder(S)[k]
<1> DEFINE less == {p \in S \X S : p[1] < p[2]}
<1>1. \A x, y \in S : <<x, y>> \in less <=> x < y
  OBVIOUS
<1> HIDE DEF less
<1>2. Orders(less, S)
  BY <1>1 DEF Orders
<1>3. InOrder(S) = Ranked(S, less)
  BY DEF InOrder, less
<1> DEFINE r == InOrder(S)
<1>4. /\ r \in Seq(S) /\ Len(r) = Cardinality(S) /\ Cardinality(S) \in Nat /\ ToSet(r) = S
      /\ \A k \in 1 .. Cardinality(S) : r[k] \in S
      /\ \A j, k \in 1 .. Cardinality(S) : j < k => <<r[j], r[k]>> \in less
  BY <1>2, <1>3, RankedIs
<1>5. DOMAIN r = 1 .. Cardinality(S)
  <2> HIDE DEF r
  <2> QED
    BY <1>4
<1> QED
  BY <1>1, <1>4, <1>5

(* Picked(s, I) holds what s has at the positions of I, and nothing else.   *)
LEMMA PickedSet ==
    ASSUME NEW s, NEW I \in SUBSET Int, IsFiniteSet(I)
    PROVE  /\ Len(Picked(s, I)) = Cardinality(I) /\ Cardinality(I) \in Nat
           /\ DOMAIN Picked(s, I) = 1 .. Cardinality(I)
           /\ \A k \in 1 .. Cardinality(I) :
                  InOrder(I)[k] \in I /\ Picked(s, I)[k] = s[InOrder(I)[k]]
           /\ ToSet(Picked(s, I)) = {s[i] : i \in I}
<1> DEFINE at == InOrder(I)
<1> DEFINE p == Picked(s, I)
<1>1. /\ at \in Seq(I) /\ Len(at) = Cardinality(I) /\ Cardinality(I) \in Nat
      /\ DOMAIN at = 1 .. Cardinality(I) /\ ToSet(at) = I
  BY InOrderIs
<1>2. p = [k \in DOMAIN at |-> s[at[k]]]
  BY DEF Picked
<1> HIDE DEF at, p
<1>3. ASSUME NEW k \in 1 .. Cardinality(I)
      PROVE  at[k] \in I /\ p[k] = s[at[k]]
  BY <1>1, <1>2
<1>4. DOMAIN p = 1 .. Cardinality(I)
  BY <1>1, <1>2
<1>5. Len(p) = Cardinality(I)
  <2>1. p \in [1 .. Cardinality(I) -> {p[k] : k \in 1 .. Cardinality(I)}]
    BY <1>2, <1>4
  <2> QED
    BY <1>1, <2>1
<1>6. ToSet(p) = {s[i] : i \in I}
  <2>1. ASSUME NEW k \in DOMAIN p PROVE p[k] \in {s[i] : i \in I}
    BY <1>3, <1>4
  <2>2. ASSUME NEW i \in I PROVE s[i] \in ToSet(p)
    <3>1. PICK k \in DOMAIN at : at[k] = i
      BY <1>1 DEF ToSet
    <3> QED
      BY <1>1, <1>3, <1>4, <3>1 DEF ToSet
  <2> QED
    BY <2>1, <2>2 DEF ToSet
<1> QED
  BY <1>1, <1>3, <1>4, <1>5, <1>6 DEF at, p

LEMMA PickedIs ==
    ASSUME NEW A, NEW s, NEW I \in SUBSET Int, IsFiniteSet(I), \A i \in I : s[i] \in A
    PROVE  /\ Picked(s, I) \in Seq(A) /\ Len(Picked(s, I)) = Cardinality(I)
           /\ Cardinality(I) \in Nat
           /\ \A k \in 1 .. Cardinality(I) :
                  InOrder(I)[k] \in I /\ Picked(s, I)[k] = s[InOrder(I)[k]]
           /\ ToSet(Picked(s, I)) = {s[i] : i \in I}
<1> DEFINE p == Picked(s, I)
<1>1. /\ Len(p) = Cardinality(I) /\ Cardinality(I) \in Nat /\ DOMAIN p = 1 .. Cardinality(I)
      /\ \A k \in 1 .. Cardinality(I) : InOrder(I)[k] \in I /\ p[k] = s[InOrder(I)[k]]
      /\ ToSet(p) = {s[i] : i \in I}
  BY PickedSet
<1>2. p = [k \in DOMAIN InOrder(I) |-> s[InOrder(I)[k]]]
  BY DEF Picked
<1> HIDE DEF p
<1>3. p \in [1 .. Cardinality(I) -> A]
  BY <1>1, <1>2
<1>4. p \in Seq(A)
  BY <1>1, <1>3
<1> QED
  BY <1>1, <1>4 DEF p

-----------------------------------------------------------------------------
(* Rounding.                                                               *)

(* Round(n, d) is a nearest integer to n / d, the even one of two.          *)
LEMMA RoundIs ==
    ASSUME NEW n \in Int, NEW d \in Nat \ {0}
    PROVE  /\ Round(n, d) \in Int /\ d * Round(n, d) \in Int
           /\ 2 * n <= 2 * (d * Round(n, d)) + d
           /\ 2 * (d * Round(n, d)) - d <= 2 * n
           /\ 2 * n = 2 * (d * Round(n, d)) + d => Round(n, d) % 2 = 0
           /\ 2 * n = 2 * (d * Round(n, d)) - d => Round(n, d) % 2 = 0
<1> DEFINE q == n \div d
<1> DEFINE r == n % d
<1> DEFINE x == d * q
<1>1. q \in Int /\ r \in 0 .. d - 1 /\ x \in Int /\ n = x + r
  <2>1. q \in Int /\ r \in 0 .. d - 1
    OBVIOUS
  <2>2. n = (d * q) + r
    OBVIOUS
  <2> QED
    BY <2>1, <2>2
<1>2. Round(n, d) = IF 2 * r < d \/ (2 * r = d /\ q % 2 = 0) THEN q ELSE q + 1
  BY DEF Round
<1>3. d * (q + 1) = x + d
  BY <1>1
<1> HIDE DEF q, r
<1>4. CASE 2 * r < d \/ (2 * r = d /\ q % 2 = 0)
  <2>1. Round(n, d) = q /\ d * Round(n, d) = x
    BY <1>2, <1>4
  <2> HIDE DEF x
  <2> QED
    BY <1>1, <1>4, <2>1
<1>5. CASE ~(2 * r < d \/ (2 * r = d /\ q % 2 = 0))
  <2>1. Round(n, d) = q + 1 /\ d * Round(n, d) = x + d
    BY <1>2, <1>3, <1>5
  <2>2. 2 * r = d => (q + 1) % 2 = 0
    BY <1>1, <1>5
  <2> HIDE DEF x
  <2> QED
    BY <1>1, <1>5, <2>1, <2>2
<1> QED
  BY <1>4, <1>5

(* Rounding keeps the order of quotients.                                  *)
LEMMA RoundMonotone ==
    ASSUME NEW n \in Int, NEW d \in Nat \ {0}, NEW m \in Int, NEW e \in Nat \ {0},
           n * e <= m * d
    PROVE  Round(n, d) <= Round(m, e)
<1> DEFINE R == Round(n, d)
<1> DEFINE Q == Round(m, e)
<1> DEFINE de == d * e
<1>1. /\ R \in Int /\ 2 * (d * R) - d <= 2 * n
      /\ 2 * n = 2 * (d * R) - d => R % 2 = 0
  BY RoundIs
<1>2. /\ Q \in Int /\ 2 * m <= 2 * (e * Q) + e
      /\ 2 * m = 2 * (e * Q) + e => Q % 2 = 0
  BY RoundIs
<1> HIDE DEF R, Q
<1> SUFFICES ASSUME R > Q PROVE FALSE
  BY <1>1, <1>2 DEF R, Q
<1>3. de \in Nat /\ de > 0
  BY Z3
<1>4. (2 * (d * R) - d) * e <= 2 * n * e /\ 2 * m * d <= (2 * (e * Q) + e) * d
  <2>1. \A a, b \in Int : a <= b => a * e <= b * e
    BY Z3
  <2>2. \A a, b \in Int : a <= b => a * d <= b * d
    BY Z3
  <2>3. 2 * (d * R) - d \in Int /\ 2 * n \in Int /\ 2 * m \in Int /\ 2 * (e * Q) + e \in Int
    BY <1>1, <1>2
  <2> QED
    BY <1>1, <1>2, <2>1, <2>2, <2>3
<1>5. (2 * (d * R) - d) * e = 2 * (de * R) - de /\ (2 * (e * Q) + e) * d = 2 * (de * Q) + de
  BY <1>1, <1>2, Z3
<1>6. 2 * n * e <= 2 * m * d
  <2>1. n * e \in Int /\ m * d \in Int /\ 2 * n * e = 2 * (n * e) /\ 2 * m * d = 2 * (m * d)
    BY Z3
  <2> QED
    BY <2>1
<1>7. de * R - de * Q <= de
  <2>1. de * R \in Int /\ de * Q \in Int /\ 2 * n * e \in Int /\ 2 * m * d \in Int
    BY <1>1, <1>2, <1>3
  <2> HIDE DEF de
  <2> QED
    BY <1>3, <1>4, <1>5, <1>6, <2>1
<1>8. R = Q + 1
  <2> SUFFICES ASSUME R - Q >= 2 PROVE FALSE
    BY <1>1, <1>2
  <2>1. de * R - de * Q = de * (R - Q) /\ de * (R - Q) >= 2 * de
    <3> HIDE DEF de
    <3> QED
      BY <1>1, <1>2, <1>3, Z3
  <2> HIDE DEF de
  <2> QED
    BY <1>1, <1>2, <1>3, <1>7, <2>1
<1>9. 2 * (de * R) - de = 2 * (de * Q) + de
  <2>1. de * R = de * Q + de /\ de * Q \in Int
    BY <1>2, <1>3, <1>8
  <2> HIDE DEF de
  <2> QED
    BY <1>3, <2>1
<1>10. (2 * (d * R) - d) * e = 2 * n * e /\ 2 * m * d = (2 * (e * Q) + e) * d
  <2>1. /\ 2 * n * e \in Int /\ 2 * m * d \in Int
        /\ (2 * (d * R) - d) * e \in Int /\ (2 * (e * Q) + e) * d \in Int
    BY <1>1, <1>2
  <2> HIDE DEF de
  <2> QED
    BY <1>4, <1>5, <1>6, <1>9, <2>1
<1>11. 2 * n = 2 * (d * R) - d /\ 2 * m = 2 * (e * Q) + e
  <2>1. \A a, b \in Int : a * e = b * e => a = b
    BY Z3
  <2>2. \A a, b \in Int : a * d = b * d => a = b
    BY Z3
  <2>3. 2 * (d * R) - d \in Int /\ 2 * n \in Int /\ 2 * m \in Int /\ 2 * (e * Q) + e \in Int
    BY <1>1, <1>2
  <2> QED
    BY <1>10, <2>1, <2>2, <2>3
<1>12. R % 2 = 0 /\ Q % 2 = 0
  BY <1>1, <1>2, <1>11
<1> QED
  BY <1>2, <1>8, <1>12

(* Between two integers a quotient rounds to a value between them.         *)
RoundsTo(n, d, lo, hi) == Round(n, d) \in lo .. hi

LEMMA RoundBetween ==
    ASSUME NEW n \in Int, NEW d \in Nat \ {0}, NEW lo \in Int, NEW hi \in Int,
           d * lo <= n, n <= d * hi
    PROVE  RoundsTo(n, d, lo, hi)
<1>1. \A a \in Int : Round(a, 1) = a
  BY DEF Round
<1>2. lo * d <= n * 1 /\ n * 1 <= hi * d
  BY Z3
<1>3. Round(lo, 1) <= Round(n, d) /\ Round(n, d) <= Round(hi, 1)
  BY <1>2, RoundMonotone
<1> QED
  BY <1>1, <1>3, RoundIs DEF RoundsTo

-----------------------------------------------------------------------------
(* The range of every metric.                                              *)

LEMMA WindowRange ==
    ASSUME NEW n \in Nat, NEW lower \in Nat \ {0}, NEW upper \in Nat,
           NEW most \in Nat, NEW least \in 0 .. most
    PROVE  InWindow(n, lower, upper, most, least) \in 0 .. most
<1>1. CASE n < lower
  <2>1. /\ lower * 0 <= n * most /\ n * most <= lower * most
        /\ n * most \in Int /\ 0 \in Int /\ most \in Int
    BY <1>1, Z3
  <2>2. RoundsTo(n * most, lower, 0, most)
    BY <2>1, RoundBetween, Zenon
  <2> QED
    BY <1>1, <2>2 DEF InWindow, RoundsTo
<1>2. CASE ~(n < lower)
  BY <1>2 DEF InWindow, Larger
<1> QED
  BY <1>1, <1>2

(* A list has at most as many members as elements.                         *)
LEMMA ToSetFinite ==
    ASSUME NEW A, NEW s \in Seq(A)
    PROVE  /\ IsFiniteSet(ToSet(s)) /\ Cardinality(ToSet(s)) \in Nat
           /\ Cardinality(ToSet(s)) <= Len(s) /\ ToSet(s) \subseteq A
<1>1. Len(s) \in Nat /\ DOMAIN s = 1 .. Len(s) /\ s \in [1 .. Len(s) -> ToSet(s)]
  BY DEF ToSet
<1>2. s \in Surjection(1 .. Len(s), ToSet(s))
  BY <1>1 DEF Surjection, ToSet
<1>3. ExistsSurjection(1 .. Len(s), ToSet(s))
  BY <1>2 DEF ExistsSurjection
<1>4. IsFiniteSet(ToSet(s)) /\ Cardinality(ToSet(s)) <= Len(s)
  BY <1>1, <1>3, FS_NatSurjection, FS_SurjCardinalityBound
<1> QED
  BY <1>4, FS_CardinalityType DEF ToSet

(* The fields of a page.                                                   *)
PageFields == [titled: BOOLEAN, title: Nat, described: BOOLEAN, description: Nat,
               canonical: BOOLEAN,
               robots: Seq(DOMAIN RobotsPoints), words: Nat, distinct: Nat,
               headings: Seq([tag: {"h1", "h2", "h3", "h4", "h5", "h6"}, words: Nat]),
               schema: BOOLEAN, types: SUBSET DOMAIN TypePoints, faqs: Nat, answers: Nat,
               links: Nat, images: Nat]

\* A page has the title and the description it has words of.
Headed(p) == (p.title > 0 => p.titled) /\ (p.description > 0 => p.described)

LEMMA IsPageDef ==
    ASSUME NEW p
    PROVE  IsPage(p) <=> p \in PageFields /\ p.distinct <= p.words /\ Headed(p)
BY DEF IsPage, PageFields, Headed

LEMMA FieldsAre ==
    ASSUME NEW p, IsPage(p)
    PROVE  /\ p.title \in Nat /\ p.description \in Nat /\ p.canonical \in BOOLEAN
           /\ p.words \in Nat /\ p.distinct \in Nat /\ p.distinct <= p.words
           /\ p.titled \in BOOLEAN /\ (p.title > 0 => p.titled)
           /\ p.described \in BOOLEAN /\ (p.description > 0 => p.described)
           /\ p.schema \in BOOLEAN /\ p.faqs \in Nat /\ p.answers \in Nat
           /\ p.links \in Nat /\ p.images \in Nat
BY IsPageDef DEF PageFields, Headed

LEMMA RobotsPointsAre ==
    ASSUME NEW p, IsPage(p)
    PROVE  LET points == [i \in DOMAIN p.robots |-> RobotsPoints[p.robots[i]]]
           IN  /\ Len(points) = Len(p.robots) /\ Len(points) \in Nat
               /\ \A i \in 1 .. Len(points) : points[i] \in Int
<1> DEFINE points == [i \in DOMAIN p.robots |-> RobotsPoints[p.robots[i]]]
<1>1. p.robots \in Seq(DOMAIN RobotsPoints)
  BY DEF IsPage
<1>2. \A d \in DOMAIN RobotsPoints : RobotsPoints[d] \in Int
  BY DEF RobotsPoints
<1>3. /\ Len(p.robots) \in Nat /\ DOMAIN p.robots = 1 .. Len(p.robots)
      /\ \A i \in 1 .. Len(p.robots) : p.robots[i] \in DOMAIN RobotsPoints
  BY <1>1
<1>4. \A i \in 1 .. Len(p.robots) : points[i] \in Int
  BY <1>2, <1>3
<1>5. points \in [1 .. Len(p.robots) -> Int]
  BY <1>3, <1>4
<1> HIDE DEF points
<1>6. Len(points) = Len(p.robots)
  BY <1>3, <1>5
<1> QED
  BY <1>3, <1>4, <1>6 DEF points

LEMMA RobotsRange ==
    ASSUME NEW p, IsPage(p)
    PROVE  RobotsScore(p) \in 0 .. 20
<1> DEFINE points == [i \in DOMAIN p.robots |-> RobotsPoints[p.robots[i]]]
<1>1. Len(points) \in Nat /\ \A i \in 1 .. Len(points) : points[i] \in Int
  BY RobotsPointsAre
<1> HIDE DEF points
<1>2. Total(points) \in Int
  BY <1>1, TotalDef
<1>3. RobotsScore(p) = Larger(0, Smaller(20, 12 + Total(points)))
  BY DEF RobotsScore, RobotsBase, points
<1> QED
  BY <1>2, <1>3 DEF Larger, Smaller

LEMMA MetadataRange ==
    ASSUME NEW p, IsPage(p)
    PROVE  /\ TitleScore(p) \in 0 .. 30 /\ DescriptionScore(p) \in 0 .. 30
           /\ CanonicalScore(p) \in 0 .. 20 /\ MetadataScore(p) \in 0 .. 100
<1>1. p.title \in Nat /\ p.description \in Nat
  BY DEF IsPage
<1>2. 5 \in Nat \ {0} /\ 15 \in Nat \ {0} /\ 20 \in Nat /\ 30 \in Nat /\ 15 \in Nat
      /\ 10 \in 0 .. 30
  OBVIOUS
<1>3. TitleScore(p) \in 0 .. 30
  BY <1>1, <1>2, WindowRange, Zenon DEF TitleScore
<1>4. DescriptionScore(p) \in 0 .. 30
  BY <1>1, <1>2, WindowRange, Zenon DEF DescriptionScore
<1>5. CanonicalScore(p) \in 0 .. 20
  BY DEF CanonicalScore
<1> QED
  BY <1>3, <1>4, <1>5, RobotsRange DEF MetadataScore

LEMMA AtLevelFinite ==
    ASSUME NEW p, IsPage(p), NEW tag
    PROVE  /\ IsFiniteSet(AtLevel(p, tag)) /\ Cardinality(AtLevel(p, tag)) \in Nat
           /\ Len(p.headings) \in Nat /\ DOMAIN p.headings = 1 .. Len(p.headings)
<1>1. Len(p.headings) \in Nat /\ DOMAIN p.headings = 1 .. Len(p.headings)
  <2>1. p.headings \in Seq([tag: {"h1", "h2", "h3", "h4", "h5", "h6"}, words: Nat])
    BY DEF IsPage
  <2> QED
    BY <2>1
<1>2. IsFiniteSet(1 .. Len(p.headings))
  <2>1. 1 \in Int /\ Len(p.headings) \in Int
    BY <1>1
  <2> QED
    BY <2>1, FS_Interval, Zenon
<1>3. AtLevel(p, tag) \subseteq 1 .. Len(p.headings)
  BY <1>1 DEF AtLevel
<1> QED
  BY <1>1, <1>2, <1>3, FS_Subset, FS_CardinalityType

LEMMA HeadingRange ==
    ASSUME NEW p, IsPage(p)
    PROVE  HeadingScore(p) \in 0 .. 40
BY DEF HeadingScore

LEMMA BodyRange ==
    ASSUME NEW p, IsPage(p)
    PROVE  BodyScore(p) \in 0 .. 40
<1>1. p.words \in Nat /\ p.distinct \in Nat /\ p.distinct <= p.words
  BY DEF IsPage
<1>2. p.words # 0 => Round(40 * p.distinct, p.words) \in 0 .. 40
  <2> SUFFICES ASSUME p.words # 0 PROVE Round(40 * p.distinct, p.words) \in 0 .. 40
    OBVIOUS
  <2>1. /\ p.words * 0 <= 40 * p.distinct /\ 40 * p.distinct <= p.words * 40
        /\ 40 * p.distinct \in Int /\ p.words \in Nat \ {0} /\ 0 \in Int /\ 40 \in Int
    BY <1>1
  <2>2. RoundsTo(40 * p.distinct, p.words, 0, 40)
    BY <2>1, RoundBetween, Zenon
  <2> QED
    BY <2>2 DEF RoundsTo
<1> QED
  BY <1>1, <1>2 DEF BodyScore

LEMMA ContentRange ==
    ASSUME NEW p, IsPage(p)
    PROVE  WordScore(p) \in 0 .. 20 /\ ContentScore(p) \in 0 .. 100
<1>1. WordScore(p) \in 0 .. 20
  <2> DEFINE lower == 800
  <2> DEFINE upper == 2500
  <2>1. /\ lower \in Nat \ {0} /\ upper \in Nat
        /\ WordScore(p) = InWindow(p.words, lower, upper, 20, 7)
    BY DEF WordScore
  <2>2. p.words \in Nat /\ 20 \in Nat /\ 7 \in 0 .. 20
    BY DEF IsPage
  <2> HIDE DEF lower, upper
  <2>3. InWindow(p.words, lower, upper, 20, 7) \in 0 .. 20
    BY <2>1, <2>2, WindowRange
  <2> QED
    BY <2>1, <2>3
<1> QED
  BY <1>1, HeadingRange, BodyRange DEF ContentScore

LEMMA TypesRange ==
    ASSUME NEW p, IsPage(p)
    PROVE  /\ IsFiniteSet(p.types) /\ TypesScore(p) \in 0 .. 30
           /\ \A n \in Nat : Worth(p, n) \in Nat
<1>1. IsFiniteSet(DOMAIN TypePoints)
  <2> DEFINE five  == ({} \cup {"Product"}) \cup {"Organization"}
  <2> DEFINE four  == (((five \cup {"Article"}) \cup {"BreadcrumbList"})
                       \cup {"LocalBusiness"}) \cup {"Person"}
  <2> DEFINE three == ((four \cup {"WebPage"}) \cup {"Event"}) \cup {"Review"}
  <2>1. \A S, x : IsFiniteSet(S) => IsFiniteSet(S \cup {x})
    BY FS_AddElement
  <2>2. IsFiniteSet(three)
    BY <2>1, FS_EmptySet, Zenon
  <2>3. three = DOMAIN TypePoints
    BY DEF TypePoints
  <2> HIDE DEF three
  <2> QED
    BY <2>2, <2>3
<1>2. IsFiniteSet(p.types)
  <2>1. p.types \subseteq DOMAIN TypePoints
    BY DEF IsPage
  <2> QED
    BY <1>1, <2>1, FS_Subset
<1>3. ASSUME NEW n \in Nat PROVE Worth(p, n) \in Nat
  <2>1. Cardinality({t \in p.types : TypePoints[t] = n}) \in Nat
    BY <1>2, FS_Subset, FS_CardinalityType
  <2> QED
    BY <2>1 DEF Worth
<1>4. Worth(p, 3) \in Nat /\ Worth(p, 4) \in Nat /\ Worth(p, 5) \in Nat
  BY <1>3
<1>5. TypesScore(p) \in 0 .. 30
  BY <1>4 DEF TypesScore, Smaller
<1> QED
  BY <1>2, <1>3, <1>5

LEMMA FaqRange ==
    ASSUME NEW p, IsPage(p)
    PROVE  FaqScore(p) \in 0 .. 50
<1>1. p.faqs \in Nat /\ p.answers \in Nat
  BY DEF IsPage
<1>2. 5 \in Nat \ {0} /\ 10 \in Nat /\ 20 \in Nat /\ 7 \in 0 .. 20
  OBVIOUS
<1>3. InWindow(p.faqs, 5, 10, 20, 7) \in 0 .. 20
  BY <1>2, <1>1, WindowRange, Zenon
<1>4. ASSUME p.faqs # 0, ~(p.answers < 10 * p.faqs), ~(p.answers > 50 * p.faqs)
      PROVE  Round(20 * p.answers, 50 * p.faqs) \in 0 .. 20
  <2>1. /\ 50 * p.faqs \in Nat \ {0} /\ 20 * p.answers \in Int
        /\ (50 * p.faqs) * 0 <= 20 * p.answers /\ 20 * p.answers <= (50 * p.faqs) * 20
        /\ 0 \in Int /\ 20 \in Int
    BY <1>1, <1>4
  <2>2. RoundsTo(20 * p.answers, 50 * p.faqs, 0, 20)
    BY <2>1, RoundBetween, Zenon
  <2> QED
    BY <2>2 DEF RoundsTo
<1> QED
  BY <1>1, <1>3, <1>4 DEF FaqScore

LEMMA StructuredRange ==
    ASSUME NEW p, IsPage(p)
    PROVE  StructuredScore(p) \in 0 .. 100
<1>1. TypesScore(p) \in 0 .. 30 /\ FaqScore(p) \in 0 .. 50
  BY TypesRange, FaqRange, Zenon
<1> QED
  BY <1>1 DEF StructuredScore

LEMMA LinkRange ==
    ASSUME NEW p, IsPage(p)
    PROVE  LinkScore(p) \in 0 .. 100
<1>1. p.links \in Nat
  BY DEF IsPage
<1>2. p.links \in 6 .. 20 => Round(100 * p.links, 20) \in 0 .. 100
  <2>1. p.links \in 6 .. 20 => /\ 20 * 0 <= 100 * p.links /\ 100 * p.links <= 20 * 100
                               /\ 100 * p.links \in Int /\ 20 \in Nat \ {0}
                               /\ 0 \in Int /\ 100 \in Int
    BY <1>1
  <2>2. p.links \in 6 .. 20 => RoundsTo(100 * p.links, 20, 0, 100)
    BY <2>1, RoundBetween, Zenon
  <2> QED
    BY <2>2 DEF RoundsTo
<1> QED
  BY <1>1, <1>2 DEF LinkScore, Larger

LEMMA ImageRange ==
    ASSUME NEW p, IsPage(p)
    PROVE  ImageScore(p) \in 0 .. 100
<1>1. p.images \in Nat
  BY DEF IsPage
<1>2. p.images <= 10 => Round(100 * 10 - 50 * p.images, 10) \in 0 .. 100
  <2>1. p.images <= 10 => /\ 10 * 0 <= 100 * 10 - 50 * p.images
                          /\ 100 * 10 - 50 * p.images <= 10 * 100
                          /\ 100 * 10 - 50 * p.images \in Int /\ 10 \in Nat \ {0}
                          /\ 0 \in Int /\ 100 \in Int
    BY <1>1
  <2>2. p.images <= 10 => RoundsTo(100 * 10 - 50 * p.images, 10, 0, 100)
    BY <2>1, RoundBetween, Zenon
  <2> QED
    BY <2>2 DEF RoundsTo
<1>3. p.images \in 11 .. 20 => Round(50 * 10 - 50 * (p.images - 10), 10) \in 0 .. 100
  <2>1. p.images \in 11 .. 20 => /\ 10 * 0 <= 50 * 10 - 50 * (p.images - 10)
                                 /\ 50 * 10 - 50 * (p.images - 10) <= 10 * 100
                                 /\ 50 * 10 - 50 * (p.images - 10) \in Int
                                 /\ 10 \in Nat \ {0} /\ 0 \in Int /\ 100 \in Int
    BY <1>1
  <2>2. p.images \in 11 .. 20 => RoundsTo(50 * 10 - 50 * (p.images - 10), 10, 0, 100)
    BY <2>1, RoundBetween, Zenon
  <2> QED
    BY <2>2 DEF RoundsTo
<1> QED
  BY <1>1, <1>2, <1>3 DEF ImageScore

(* The weights of the categories add up to 100.                            *)
LEMMA WeightsAddUp ==
    ASSUME NEW m \in Nat,
           NEW a \in Int, NEW b \in Int, NEW c \in Int, NEW d \in Int, NEW e \in Int,
           0 <= a, a <= m, 0 <= b, b <= m, 0 <= c, c <= m, 0 <= d, d <= m, 0 <= e, e <= m
    PROVE  40 * a + 25 * b + 20 * c + 10 * d + 5 * e \in 0 .. 100 * m
OBVIOUS

(* Every category of every page scores 0 to 100, and so does the whole.    *)
THEOREM ScoresOfAnyPage ==
    ASSUME NEW p, IsPage(p)
    PROVE  /\ {StructuredScore(p), MetadataScore(p), ContentScore(p),
               LinkScore(p), ImageScore(p)} \subseteq 0 .. 100
           /\ Weighted(p) \in 0 .. 100 * 100
<1>1. /\ StructuredScore(p) \in 0 .. 100 /\ MetadataScore(p) \in 0 .. 100
      /\ ContentScore(p) \in 0 .. 100 /\ LinkScore(p) \in 0 .. 100 /\ ImageScore(p) \in 0 .. 100
  BY StructuredRange, MetadataRange, ContentRange, LinkRange, ImageRange
<1>2. Weighted(p) \in 0 .. 100 * 100
  <2> DEFINE a == StructuredScore(p)
             b == MetadataScore(p)
             c == ContentScore(p)
             d == LinkScore(p)
             e == ImageScore(p)
  <2>1. Weighted(p) = 40 * a + 25 * b + 20 * c + 10 * d + 5 * e
    BY Zenon DEF Weighted
  <2>2. a \in 0 .. 100 /\ b \in 0 .. 100 /\ c \in 0 .. 100 /\ d \in 0 .. 100 /\ e \in 0 .. 100
    BY <1>1, Zenon
  <2> HIDE DEF a, b, c, d, e
  <2>3. /\ a \in Int /\ 0 <= a /\ a <= 100 /\ b \in Int /\ 0 <= b /\ b <= 100
        /\ c \in Int /\ 0 <= c /\ c <= 100 /\ d \in Int /\ 0 <= d /\ d <= 100
        /\ e \in Int /\ 0 <= e /\ e <= 100 /\ 100 \in Nat
    BY <2>2
  <2>4. 40 * a + 25 * b + 20 * c + 10 * d + 5 * e \in 0 .. 100 * 100
    BY <2>3, WeightsAddUp, Zenon
  <2> QED
    BY <2>1, <2>4, Zenon
<1> QED
  BY <1>1, <1>2

-----------------------------------------------------------------------------
(* Advice.                                                                 *)

LEMMA HeadingWordsAre ==
    ASSUME NEW p, IsPage(p)
    PROVE  LET ws == [i \in DOMAIN p.headings |-> p.headings[i].words]
           IN  /\ HeadingWords(p) = Total(ws) /\ Len(ws) = Len(p.headings)
               /\ \A i \in 1 .. Len(p.headings) : ws[i] = p.headings[i].words /\ ws[i] \in Nat
               /\ HeadingWords(p) \in Nat /\ Len(p.headings) \in Nat
               /\ DOMAIN p.headings = 1 .. Len(p.headings)
<1> DEFINE R == [tag: {"h1", "h2", "h3", "h4", "h5", "h6"}, words: Nat]
           H == p.headings
           ws == [i \in DOMAIN H |-> H[i].words]
<1>1. H \in Seq(R)
  BY DEF IsPage
<1>2. \A v \in R : v.words \in Nat
  OBVIOUS
<1> HIDE DEF R, H
<1>3. Len(H) \in Nat /\ DOMAIN H = 1 .. Len(H) /\ \A i \in 1 .. Len(H) : H[i] \in R
  BY <1>1
<1>4. \A i \in 1 .. Len(H) : ws[i] = H[i].words /\ ws[i] \in Nat
  BY <1>2, <1>3
<1>5. ws \in [1 .. Len(H) -> Nat]
  BY <1>3, <1>4
<1> HIDE DEF ws
<1>6. Len(ws) = Len(H)
  BY <1>3, <1>5
<1>7. Total(ws) \in Nat
  BY <1>3, <1>4, <1>6, TotalNat
<1>8. HeadingWords(p) = Total(ws)
  BY DEF HeadingWords, ws, H
<1> QED
  BY <1>3, <1>4, <1>6, <1>7, <1>8 DEF ws, H

(* A list of members of S, none of them twice.                             *)
Once(s, S) == s \in Seq(S) /\ IsInjective(s)

LEMMA OnceEmpty == ASSUME NEW S PROVE Once(<<>>, S)
BY DEF Once, IsInjective

LEMMA OnceOne == ASSUME NEW a PROVE Once(<<a>>, {a}) /\ <<a>> # <<>>
BY DEF Once, IsInjective

LEMMA OnceTwo ==
    ASSUME NEW a, NEW b, a # b
    PROVE  Once(<<a, b>>, {a, b}) /\ <<a, b>> # <<>>
BY DEF Once, IsInjective

(* Two lists of different strings, one after the other.                    *)
LEMMA OnceBoth ==
    ASSUME NEW s, NEW t, NEW S, NEW T, NEW U, Once(s, S), Once(t, T), S \cap T = {},
           S \subseteq U, T \subseteq U
    PROVE  Once(s \o t, U) /\ (s \o t = <<>> <=> s = <<>> /\ t = <<>>)
<1> DEFINE u == s \o t
<1>1. /\ s \in Seq(U) /\ t \in Seq(U) /\ Len(s) \in Nat /\ Len(t) \in Nat
      /\ s \in Seq(S) /\ t \in Seq(T)
  BY DEF Once
<1>2. /\ u \in Seq(U) /\ Len(u) = Len(s) + Len(t)
      /\ \A i \in 1 .. Len(u) : u[i] = IF i <= Len(s) THEN s[i] ELSE t[i - Len(s)]
  BY <1>1
<1>3. DOMAIN u = 1 .. Len(u) /\ DOMAIN s = 1 .. Len(s) /\ DOMAIN t = 1 .. Len(t)
  BY <1>1, <1>2
<1> HIDE DEF u
<1>4. \A i \in DOMAIN u : \/ i \in DOMAIN s /\ u[i] = s[i] /\ u[i] \in S
                          \/ /\ i - Len(s) \in DOMAIN t /\ u[i] = t[i - Len(s)] /\ u[i] \in T
  BY <1>1, <1>2, <1>3
<1>5. IsInjective(u)
  <2> SUFFICES ASSUME NEW i \in DOMAIN u, NEW j \in DOMAIN u, u[i] = u[j] PROVE i = j
    BY DEF IsInjective
  <2>1. i \in Int /\ j \in Int
    BY <1>3
  <2>2. CASE u[i] \in S
    <3>1. i \in DOMAIN s /\ j \in DOMAIN s /\ u[i] = s[i] /\ u[j] = s[j]
      BY <1>4, <2>2
    <3> QED
      BY <3>1 DEF Once, IsInjective
  <2>3. CASE u[i] \in T
    <3>1. /\ i - Len(s) \in DOMAIN t /\ j - Len(s) \in DOMAIN t
          /\ u[i] = t[i - Len(s)] /\ u[j] = t[j - Len(s)]
      BY <1>4, <2>3
    <3>2. i - Len(s) = j - Len(s)
      BY <3>1 DEF Once, IsInjective
    <3> QED
      BY <1>1, <2>1, <3>2
  <2> QED
    BY <1>4, <2>2, <2>3
<1>6. u = <<>> <=> s = <<>> /\ t = <<>>
  BY <1>1, <1>2
<1> QED
  BY <1>2, <1>5, <1>6 DEF Once, u

(* What each category may recommend, and when it recommends nothing.       *)
StructuredStrings ==
    {"Add_JSON_LD", "Add_high_value_schema_types", "Add_more_specific_schema_types",
     "Add_FAQPage_schema", "Add_more_FAQ_items", "Keep_FAQ_items_under_10",
     "Expand_FAQ_answers", "Keep_FAQ_answers_concise"}
LinkStrings ==
    {"Add_internal_links", "Add_more_internal_links", "Keep_internal_links_focused"}
ContentStrings ==
    {"Lengthen_your_Content", "Make_your_Content_descriptive", "Make_your_content_specific",
     "Long_Content_is_spam", "Use_only_one_H1", "Add_a_single_H1", "Add_more_headings",
     "Add_headings", "Add_H1_and_H2_headings", "Add_H2_headings",
     "Make_headings_more_descriptive", "Keep_headings_concise", "Write_content",
     "Without_content_no_visibility", "Rewrite_content", "Avoid_keyword_stuffing",
     "Enrich_your_content"}
ImageStrings ==
    {"Add_descriptive_alt_text", "Urgently_add_alt_text", "Audit_all_images"}
MetadataStrings ==
    {"Title_is_required", "Title_is_important", "Lengthen_your_Title",
     "Make_your_Title_descriptive", "Make_the_title_short", "Description_is_required",
     "Description_is_important", "Lengthen_your_Description",
     "Make_your_Description_descriptive", "Make_the_description_short",
     "Canonical_URL_is_required", "Remove_restrictive_directives", "Review_restrictions",
     "Consider_index_follow"}

\* The recommendations on the items of an FAQ.
FaqAdvice(p) ==
    When(p.faqs <= 5, <<"Add_more_FAQ_items">>)
    \o When(p.faqs > 10, <<"Keep_FAQ_items_under_10">>)
    \o When(p.answers < 10 * p.faqs, <<"Expand_FAQ_answers">>)
    \o When(p.answers > 50 * p.faqs, <<"Keep_FAQ_answers_concise">>)
FaqStrings ==
    {"Add_more_FAQ_items", "Keep_FAQ_items_under_10", "Expand_FAQ_answers",
     "Keep_FAQ_answers_concise"}

LEMMA FaqAdviceIs ==
    ASSUME NEW p, IsPage(p)
    PROVE  /\ Once(FaqAdvice(p), FaqStrings)
           /\ FaqAdvice(p) = <<>> <=>
                 /\ ~(p.faqs <= 5) /\ ~(p.faqs > 10)
                 /\ ~(p.answers < 10 * p.faqs) /\ ~(p.answers > 50 * p.faqs)
<1> DEFINE
    a1 == When(p.faqs <= 5, <<"Add_more_FAQ_items">>)
    a2 == When(p.faqs > 10, <<"Keep_FAQ_items_under_10">>)
    a3 == When(p.answers < 10 * p.faqs, <<"Expand_FAQ_answers">>)
    a4 == When(p.answers > 50 * p.faqs, <<"Keep_FAQ_answers_concise">>)
    b2 == a1 \o a2
    b3 == b2 \o a3
    b4 == b3 \o a4
<1>1. FaqAdvice(p) = b4
  BY DEF FaqAdvice
<1>2. Once(a1, {"Add_more_FAQ_items"})
  BY OnceEmpty, OnceOne DEF When
<1>3. a1 = <<>> <=> ~(p.faqs <= 5)
  BY OnceOne DEF When
<1>4. Once(a2, {"Keep_FAQ_items_under_10"})
  BY OnceEmpty, OnceOne DEF When
<1>5. a2 = <<>> <=> ~(p.faqs > 10)
  BY OnceOne DEF When
<1>6. Once(a3, {"Expand_FAQ_answers"})
  BY OnceEmpty, OnceOne DEF When
<1>7. a3 = <<>> <=> ~(p.answers < 10 * p.faqs)
  BY OnceOne DEF When
<1>8. Once(a4, {"Keep_FAQ_answers_concise"})
  BY OnceEmpty, OnceOne DEF When
<1>9. a4 = <<>> <=> ~(p.answers > 50 * p.faqs)
  BY OnceOne DEF When
<1> HIDE DEF a1, a2, a3, a4
<1>10. /\ Once(b2, {"Add_more_FAQ_items", "Keep_FAQ_items_under_10"})
       /\ b2 = <<>> <=> a1 = <<>> /\ a2 = <<>>
  BY <1>2, <1>4, OnceBoth
<1> HIDE DEF b2
<1>11. /\ Once(b3, {"Add_more_FAQ_items", "Keep_FAQ_items_under_10", "Expand_FAQ_answers"})
       /\ b3 = <<>> <=> b2 = <<>> /\ a3 = <<>>
  BY <1>10, <1>6, OnceBoth
<1> HIDE DEF b3
<1>12. /\ Once(b4, FaqStrings)
       /\ b4 = <<>> <=> b3 = <<>> /\ a4 = <<>>
  BY <1>11, <1>8, OnceBoth DEF FaqStrings
<1> HIDE DEF b4
<1> QED
  BY <1>1, <1>3, <1>5, <1>7, <1>9, <1>10, <1>11, <1>12, Zenon

LEMMA OnceWider ==
    ASSUME NEW s, NEW S, NEW U, Once(s, S), S \subseteq U
    PROVE  Once(s, U)
BY DEF Once


LEMMA StructuredAdviceIs ==
    ASSUME NEW p, IsPage(p)
    PROVE  /\ Once(StructuredAdvice(p), StructuredStrings)
           /\ StructuredAdvice(p) = <<>> <=>
                 /\ p.schema /\ TypesScore(p) > 10
                 /\ p.faqs \in 6 .. 10 /\ p.answers \in 10 * p.faqs .. 50 * p.faqs
<1> DEFINE
    a1 == When(~p.schema, <<"Add_JSON_LD">>)
    a2 == When(TypesScore(p) = 0, <<"Add_high_value_schema_types">>)
    a3 == When(TypesScore(p) \in 1 .. 10, <<"Add_more_specific_schema_types">>)
    none == <<"Add_FAQPage_schema">>
    a4 == IF p.faqs = 0 THEN none ELSE FaqAdvice(p)
    b2 == a1 \o a2
    b3 == b2 \o a3
    b4 == b3 \o a4
<1>1. StructuredAdvice(p) = b4
  BY DEF StructuredAdvice, FaqAdvice
<1>2. Once(a1, {"Add_JSON_LD"})
  BY OnceEmpty, OnceOne DEF When
<1>3. a1 = <<>> <=> ~(~p.schema)
  BY OnceOne DEF When
<1>4. Once(a2, {"Add_high_value_schema_types"})
  BY OnceEmpty, OnceOne DEF When
<1>5. a2 = <<>> <=> ~(TypesScore(p) = 0)
  BY OnceOne DEF When
<1>6. Once(a3, {"Add_more_specific_schema_types"})
  BY OnceEmpty, OnceOne DEF When
<1>7. a3 = <<>> <=> ~(TypesScore(p) \in 1 .. 10)
  BY OnceOne DEF When
<1>8. Once(a4, {"Add_FAQPage_schema", "Add_more_FAQ_items", "Keep_FAQ_items_under_10",
               "Expand_FAQ_answers", "Keep_FAQ_answers_concise"})
  <2> DEFINE U == {"Add_FAQPage_schema", "Add_more_FAQ_items", "Keep_FAQ_items_under_10",
                   "Expand_FAQ_answers", "Keep_FAQ_answers_concise"}
  <2>1. {"Add_FAQPage_schema"} \subseteq U /\ FaqStrings \subseteq U
    BY DEF FaqStrings
  <2>2. Once(none, {"Add_FAQPage_schema"}) /\ Once(FaqAdvice(p), FaqStrings)
    BY FaqAdviceIs, OnceOne
  <2> HIDE DEF U, none
  <2>3. Once(none, U) /\ Once(FaqAdvice(p), U)
    BY <2>1, <2>2, OnceWider
  <2>4. Once(a4, U)
    BY <2>3
  <2> QED
    BY <2>4 DEF U
<1>9. a4 = <<>> <=> ~(p.faqs = 0) /\ FaqAdvice(p) = <<>>
  BY OnceOne
<1> HIDE DEF a1, a2, a3, a4
<1>10. /\ Once(b2, {"Add_JSON_LD", "Add_high_value_schema_types"})
       /\ b2 = <<>> <=> a1 = <<>> /\ a2 = <<>>
  BY <1>2, <1>4, OnceBoth
<1> HIDE DEF b2
<1>11. /\ Once(b3, {"Add_JSON_LD", "Add_high_value_schema_types",
                    "Add_more_specific_schema_types"})
       /\ b3 = <<>> <=> b2 = <<>> /\ a3 = <<>>
  BY <1>10, <1>6, OnceBoth
<1> HIDE DEF b3
<1>12. /\ Once(b4, StructuredStrings)
       /\ b4 = <<>> <=> b3 = <<>> /\ a4 = <<>>
  BY <1>11, <1>8, OnceBoth DEF StructuredStrings
<1> HIDE DEF b4
<1>13. TypesScore(p) > 10 <=> ~(TypesScore(p) = 0) /\ ~(TypesScore(p) \in 1 .. 10)
  BY TypesRange
<1>14. p.faqs \in 6 .. 10 /\ p.answers \in 10 * p.faqs .. 50 * p.faqs <=>
         /\ ~(p.faqs = 0) /\ ~(p.faqs <= 5) /\ ~(p.faqs > 10)
         /\ ~(p.answers < 10 * p.faqs) /\ ~(p.answers > 50 * p.faqs)
  BY FieldsAre
<1> QED
  BY <1>1, <1>3, <1>5, <1>7, <1>9, <1>10, <1>11, <1>12, <1>13, <1>14, FaqAdviceIs, Zenon

LEMMA LinkAdviceIs ==
    ASSUME NEW p, IsPage(p)
    PROVE  /\ Once(LinkAdvice(p), LinkStrings)
           /\ LinkAdvice(p) = <<>> <=>
                 /\ p.links \in 6 .. 20
<1> DEFINE
    a1 == When(p.links = 0, <<"Add_internal_links">>)
    a2 == When(p.links \in 1 .. 5, <<"Add_more_internal_links">>)
    a3 == When(p.links > 20, <<"Keep_internal_links_focused">>)
    b2 == a1 \o a2
    b3 == b2 \o a3
<1>1. LinkAdvice(p) = b3
  BY DEF LinkAdvice
<1>2. Once(a1, {"Add_internal_links"})
  BY OnceEmpty, OnceOne DEF When
<1>3. a1 = <<>> <=> ~(p.links = 0)
  BY OnceOne DEF When
<1>4. Once(a2, {"Add_more_internal_links"})
  BY OnceEmpty, OnceOne DEF When
<1>5. a2 = <<>> <=> ~(p.links \in 1 .. 5)
  BY OnceOne DEF When
<1>6. Once(a3, {"Keep_internal_links_focused"})
  BY OnceEmpty, OnceOne DEF When
<1>7. a3 = <<>> <=> ~(p.links > 20)
  BY OnceOne DEF When
<1> HIDE DEF a1, a2, a3
<1>8. /\ Once(b2, {"Add_internal_links", "Add_more_internal_links"})
      /\ b2 = <<>> <=> a1 = <<>> /\ a2 = <<>>
  BY <1>2, <1>4, OnceBoth
<1> HIDE DEF b2
<1>9. /\ Once(b3, LinkStrings)
      /\ b3 = <<>> <=> b2 = <<>> /\ a3 = <<>>
  BY <1>8, <1>6, OnceBoth DEF LinkStrings
<1> HIDE DEF b3
<1>10. p.links \in 6 .. 20 <=>
         ~(p.links = 0) /\ ~(p.links \in 1 .. 5) /\ ~(p.links > 20)
  BY FieldsAre
<1> QED
  BY <1>1, <1>3, <1>5, <1>7, <1>8, <1>9, <1>10, Zenon

LEMMA ImageAdviceIs ==
    ASSUME NEW p, IsPage(p)
    PROVE  /\ Once(ImageAdvice(p), ImageStrings)
           /\ ImageAdvice(p) = <<>> <=>
                 /\ p.images = 0
<1> DEFINE
    a1 == When(p.images \in 1 .. 10, <<"Add_descriptive_alt_text">>)
    a2 == When(p.images \in 11 .. 20, <<"Urgently_add_alt_text">>)
    a3 == When(p.images > 20, <<"Audit_all_images">>)
    b2 == a1 \o a2
    b3 == b2 \o a3
<1>1. ImageAdvice(p) = b3
  BY DEF ImageAdvice
<1>2. Once(a1, {"Add_descriptive_alt_text"})
  BY OnceEmpty, OnceOne DEF When
<1>3. a1 = <<>> <=> ~(p.images \in 1 .. 10)
  BY OnceOne DEF When
<1>4. Once(a2, {"Urgently_add_alt_text"})
  BY OnceEmpty, OnceOne DEF When
<1>5. a2 = <<>> <=> ~(p.images \in 11 .. 20)
  BY OnceOne DEF When
<1>6. Once(a3, {"Audit_all_images"})
  BY OnceEmpty, OnceOne DEF When
<1>7. a3 = <<>> <=> ~(p.images > 20)
  BY OnceOne DEF When
<1> HIDE DEF a1, a2, a3
<1>8. /\ Once(b2, {"Add_descriptive_alt_text", "Urgently_add_alt_text"})
      /\ b2 = <<>> <=> a1 = <<>> /\ a2 = <<>>
  BY <1>2, <1>4, OnceBoth
<1> HIDE DEF b2
<1>9. /\ Once(b3, ImageStrings)
      /\ b3 = <<>> <=> b2 = <<>> /\ a3 = <<>>
  BY <1>8, <1>6, OnceBoth DEF ImageStrings
<1> HIDE DEF b3
<1>10. p.images = 0 <=>
         ~(p.images \in 1 .. 10) /\ ~(p.images \in 11 .. 20) /\ ~(p.images > 20)
  BY FieldsAre
<1> QED
  BY <1>1, <1>3, <1>5, <1>7, <1>8, <1>9, <1>10, Zenon

LEMMA MetadataAdviceIs ==
    ASSUME NEW p, IsPage(p)
    PROVE  /\ Once(MetadataAdvice(p), MetadataStrings)
           /\ MetadataAdvice(p) = <<>> <=>
                 /\ p.title \in 5 .. 15 /\ p.description \in 15 .. 20
                 /\ p.canonical /\ RobotsScore(p) > 12
<1> DEFINE
    a1 == When(~p.titled, <<"Title_is_required", "Title_is_important">>)
    a2 == When(p.titled /\ p.title < 5, <<"Lengthen_your_Title", "Make_your_Title_descriptive">>)
    a3 == When(p.title > 15, <<"Make_the_title_short">>)
    a4 == When(~p.described, <<"Description_is_required", "Description_is_important">>)
    a5 == When(p.described /\ p.description < 15,
               <<"Lengthen_your_Description", "Make_your_Description_descriptive">>)
    a6 == When(p.description > 20, <<"Make_the_description_short">>)
    a7 == When(~p.canonical, <<"Canonical_URL_is_required">>)
    a8 == When(RobotsScore(p) = 0, <<"Remove_restrictive_directives">>)
    a9 == When(RobotsScore(p) \in 1 .. 11, <<"Review_restrictions">>)
    a10 == When(RobotsScore(p) = 12, <<"Consider_index_follow">>)
    b2 == a1 \o a2
    b3 == b2 \o a3
    b4 == b3 \o a4
    b5 == b4 \o a5
    b6 == b5 \o a6
    b7 == b6 \o a7
    b8 == b7 \o a8
    b9 == b8 \o a9
    b10 == b9 \o a10
<1>1. MetadataAdvice(p) = b10
  BY DEF MetadataAdvice
<1>2. Once(a1, {"Title_is_required", "Title_is_important"})
  BY OnceEmpty, OnceTwo DEF When
<1>3. a1 = <<>> <=> ~(~p.titled)
  BY OnceTwo DEF When
<1>4. Once(a2, {"Lengthen_your_Title", "Make_your_Title_descriptive"})
  BY OnceEmpty, OnceTwo DEF When
<1>5. a2 = <<>> <=> ~(p.titled /\ p.title < 5)
  BY OnceTwo DEF When
<1>6. Once(a3, {"Make_the_title_short"})
  BY OnceEmpty, OnceOne DEF When
<1>7. a3 = <<>> <=> ~(p.title > 15)
  BY OnceOne DEF When
<1>8. Once(a4, {"Description_is_required", "Description_is_important"})
  BY OnceEmpty, OnceTwo DEF When
<1>9. a4 = <<>> <=> ~(~p.described)
  BY OnceTwo DEF When
<1>10. Once(a5, {"Lengthen_your_Description", "Make_your_Description_descriptive"})
  BY OnceEmpty, OnceTwo DEF When
<1>11. a5 = <<>> <=> ~(p.described /\ p.description < 15)
  BY OnceTwo DEF When
<1>12. Once(a6, {"Make_the_description_short"})
  BY OnceEmpty, OnceOne DEF When
<1>13. a6 = <<>> <=> ~(p.description > 20)
  BY OnceOne DEF When
<1>14. Once(a7, {"Canonical_URL_is_required"})
  BY OnceEmpty, OnceOne DEF When
<1>15. a7 = <<>> <=> ~(~p.canonical)
  BY OnceOne DEF When
<1>16. Once(a8, {"Remove_restrictive_directives"})
  BY OnceEmpty, OnceOne DEF When
<1>17. a8 = <<>> <=> ~(RobotsScore(p) = 0)
  BY OnceOne DEF When
<1>18. Once(a9, {"Review_restrictions"})
  BY OnceEmpty, OnceOne DEF When
<1>19. a9 = <<>> <=> ~(RobotsScore(p) \in 1 .. 11)
  BY OnceOne DEF When
<1>20. Once(a10, {"Consider_index_follow"})
  BY OnceEmpty, OnceOne DEF When
<1>21. a10 = <<>> <=> ~(RobotsScore(p) = 12)
  BY OnceOne DEF When
<1> HIDE DEF a1, a2, a3, a4, a5, a6, a7, a8, a9, a10
<1>22. /\ Once(b2, {"Title_is_required", "Title_is_important", "Lengthen_your_Title",
                    "Make_your_Title_descriptive"})
       /\ b2 = <<>> <=> a1 = <<>> /\ a2 = <<>>
  BY <1>2, <1>4, OnceBoth
<1> HIDE DEF b2
<1>23. /\ Once(b3, {"Title_is_required", "Title_is_important", "Lengthen_your_Title",
                    "Make_your_Title_descriptive", "Make_the_title_short"})
       /\ b3 = <<>> <=> b2 = <<>> /\ a3 = <<>>
  BY <1>22, <1>6, OnceBoth
<1> HIDE DEF b3
<1>24. /\ Once(b4, {"Title_is_required", "Title_is_important", "Lengthen_your_Title",
                    "Make_your_Title_descriptive", "Make_the_title_short",
                    "Description_is_required", "Description_is_important"})
       /\ b4 = <<>> <=> b3 = <<>> /\ a4 = <<>>
  BY <1>23, <1>8, OnceBoth
<1> HIDE DEF b4
<1>25. /\ Once(b5, {"Title_is_required", "Title_is_important", "Lengthen_your_Title",
                    "Make_your_Title_descriptive", "Make_the_title_short",
                    "Description_is_required", "Description_is_important",
                    "Lengthen_your_Description", "Make_your_Description_descriptive"})
       /\ b5 = <<>> <=> b4 = <<>> /\ a5 = <<>>
  BY <1>24, <1>10, OnceBoth
<1> HIDE DEF b5
<1>26. /\ Once(b6, {"Title_is_required", "Title_is_important", "Lengthen_your_Title",
                    "Make_your_Title_descriptive", "Make_the_title_short",
                    "Description_is_required", "Description_is_important",
                    "Lengthen_your_Description", "Make_your_Description_descriptive",
                    "Make_the_description_short"})
       /\ b6 = <<>> <=> b5 = <<>> /\ a6 = <<>>
  BY <1>25, <1>12, OnceBoth
<1> HIDE DEF b6
<1>27. /\ Once(b7, {"Title_is_required", "Title_is_important", "Lengthen_your_Title",
                    "Make_your_Title_descriptive", "Make_the_title_short",
                    "Description_is_required", "Description_is_important",
                    "Lengthen_your_Description", "Make_your_Description_descriptive",
                    "Make_the_description_short", "Canonical_URL_is_required"})
       /\ b7 = <<>> <=> b6 = <<>> /\ a7 = <<>>
  BY <1>26, <1>14, OnceBoth
<1> HIDE DEF b7
<1>28. /\ Once(b8, {"Title_is_required", "Title_is_important", "Lengthen_your_Title",
                    "Make_your_Title_descriptive", "Make_the_title_short",
                    "Description_is_required", "Description_is_important",
                    "Lengthen_your_Description", "Make_your_Description_descriptive",
                    "Make_the_description_short", "Canonical_URL_is_required",
                    "Remove_restrictive_directives"})
       /\ b8 = <<>> <=> b7 = <<>> /\ a8 = <<>>
  BY <1>27, <1>16, OnceBoth
<1> HIDE DEF b8
<1>29. /\ Once(b9, {"Title_is_required", "Title_is_important", "Lengthen_your_Title",
                    "Make_your_Title_descriptive", "Make_the_title_short",
                    "Description_is_required", "Description_is_important",
                    "Lengthen_your_Description", "Make_your_Description_descriptive",
                    "Make_the_description_short", "Canonical_URL_is_required",
                    "Remove_restrictive_directives", "Review_restrictions"})
       /\ b9 = <<>> <=> b8 = <<>> /\ a9 = <<>>
  BY <1>28, <1>18, OnceBoth
<1> HIDE DEF b9
<1>30. /\ Once(b10, MetadataStrings)
       /\ b10 = <<>> <=> b9 = <<>> /\ a10 = <<>>
  BY <1>29, <1>20, OnceBoth DEF MetadataStrings
<1> HIDE DEF b10
<1>31. p.title \in 5 .. 15 <=>
         ~(~p.titled) /\ ~(p.titled /\ p.title < 5) /\ ~(p.title > 15)
  BY FieldsAre
<1>32. p.description \in 15 .. 20 <=>
         /\ ~(~p.described) /\ ~(p.described /\ p.description < 15)
         /\ ~(p.description > 20)
  BY FieldsAre
<1>33. RobotsScore(p) > 12 <=>
         ~(RobotsScore(p) = 0) /\ ~(RobotsScore(p) \in 1 .. 11) /\ ~(RobotsScore(p) = 12)
  BY RobotsRange
<1> QED
  BY <1>1, <1>3, <1>5, <1>7, <1>9, <1>11, <1>13, <1>15, <1>17, <1>19, <1>21, <1>22, <1>23,
     <1>24, <1>25, <1>26, <1>27, <1>28, <1>29, <1>30, <1>31, <1>32, <1>33, Zenon

LEMMA ContentAdviceIs ==
    ASSUME NEW p, IsPage(p)
    PROVE  /\ Once(ContentAdvice(p), ContentStrings)
           /\ ContentAdvice(p) = <<>> <=>
                 /\ p.words \in 800 .. 2500 /\ 10 * p.distinct > 7 * p.words
                 /\ Cardinality(AtLevel(p, "h1")) = 1 /\ ~(AtLevel(p, "h2") = {})
                 /\ Len(p.headings) >= 3 /\ (AverageIn(p, 5, 10) \/ AverageIs(p, 10))
<1> DEFINE
    short == p.words < 800
    long == p.words > 2500
    fit == p.words \in 800 .. 2500 /\ 10 * p.distinct > 7 * p.words
    a1 == When(short, <<"Lengthen_your_Content", "Make_your_Content_descriptive">>)
    a2 == When(long, <<"Make_your_content_specific", "Long_Content_is_spam">>)
    a3 == When(Cardinality(AtLevel(p, "h1")) > 1, <<"Use_only_one_H1">>)
    a4 == When(AtLevel(p, "h1") = {}, <<"Add_a_single_H1">>)
    a5 == When(Len(p.headings) \in 1 .. 2, <<"Add_more_headings">>)
    a6 == When(p.headings = <<>>, <<"Add_headings">>)
    a7 == When(AtLevel(p, "h1") = {}, <<"Add_H1_and_H2_headings">>)
    a8 == When(AtLevel(p, "h1") # {} /\ AtLevel(p, "h2") = {}, <<"Add_H2_headings">>)
    a9 == When(AverageIn(p, 1, 5), <<"Make_headings_more_descriptive">>)
    a10 == When(AverageIn(p, 0, 1) \/ ~(AverageIn(p, 0, 10) \/ AverageIs(p, 10)),
               <<"Keep_headings_concise">>)
    a11 == When(p.words = 0, <<"Write_content", "Without_content_no_visibility">>)
    a12 == When(p.words > 0 /\ 10 * p.distinct < 4 * p.words,
               <<"Rewrite_content", "Avoid_keyword_stuffing">>)
    a13 == When(10 * p.distinct \in 4 * p.words .. 7 * p.words /\ p.words > 0,
               <<"Enrich_your_content">>)
    b2 == a1 \o a2
    b3 == b2 \o a3
    b4 == b3 \o a4
    b5 == b4 \o a5
    b6 == b5 \o a6
    b7 == b6 \o a7
    b8 == b7 \o a8
    b9 == b8 \o a9
    b10 == b9 \o a10
    b11 == b10 \o a11
    b12 == b11 \o a12
    b13 == b12 \o a13
<1>1. ContentAdvice(p) = b13
  BY DEF ContentAdvice
<1>2. Once(a1, {"Lengthen_your_Content", "Make_your_Content_descriptive"})
  BY OnceEmpty, OnceTwo DEF When
<1>3. a1 = <<>> <=> ~(short)
  BY OnceTwo DEF When
<1>4. Once(a2, {"Make_your_content_specific", "Long_Content_is_spam"})
  BY OnceEmpty, OnceTwo DEF When
<1>5. a2 = <<>> <=> ~(long)
  BY OnceTwo DEF When
<1>6. Once(a3, {"Use_only_one_H1"})
  BY OnceEmpty, OnceOne DEF When
<1>7. a3 = <<>> <=> ~(Cardinality(AtLevel(p, "h1")) > 1)
  BY OnceOne DEF When
<1>8. Once(a4, {"Add_a_single_H1"})
  BY OnceEmpty, OnceOne DEF When
<1>9. a4 = <<>> <=> ~(AtLevel(p, "h1") = {})
  BY OnceOne DEF When
<1>10. Once(a5, {"Add_more_headings"})
  BY OnceEmpty, OnceOne DEF When
<1>11. a5 = <<>> <=> ~(Len(p.headings) \in 1 .. 2)
  BY OnceOne DEF When
<1>12. Once(a6, {"Add_headings"})
  BY OnceEmpty, OnceOne DEF When
<1>13. a6 = <<>> <=> ~(p.headings = <<>>)
  BY OnceOne DEF When
<1>14. Once(a7, {"Add_H1_and_H2_headings"})
  BY OnceEmpty, OnceOne DEF When
<1>15. a7 = <<>> <=> ~(AtLevel(p, "h1") = {})
  BY OnceOne DEF When
<1>16. Once(a8, {"Add_H2_headings"})
  BY OnceEmpty, OnceOne DEF When
<1>17. a8 = <<>> <=> ~(AtLevel(p, "h1") # {} /\ AtLevel(p, "h2") = {})
  BY OnceOne DEF When
<1>18. Once(a9, {"Make_headings_more_descriptive"})
  BY OnceEmpty, OnceOne DEF When
<1>19. a9 = <<>> <=> ~(AverageIn(p, 1, 5))
  BY OnceOne DEF When
<1>20. Once(a10, {"Keep_headings_concise"})
  BY OnceEmpty, OnceOne DEF When
<1>21. a10 = <<>> <=> ~(AverageIn(p, 0, 1) \/ ~(AverageIn(p, 0, 10) \/ AverageIs(p, 10)))
  BY OnceOne DEF When
<1>22. Once(a11, {"Write_content", "Without_content_no_visibility"})
  BY OnceEmpty, OnceTwo DEF When
<1>23. a11 = <<>> <=> ~(p.words = 0)
  BY OnceTwo DEF When
<1>24. Once(a12, {"Rewrite_content", "Avoid_keyword_stuffing"})
  BY OnceEmpty, OnceTwo DEF When
<1>25. a12 = <<>> <=> ~(p.words > 0 /\ 10 * p.distinct < 4 * p.words)
  BY OnceTwo DEF When
<1>26. Once(a13, {"Enrich_your_content"})
  BY OnceEmpty, OnceOne DEF When
<1>27. a13 = <<>> <=> ~(10 * p.distinct \in 4 * p.words .. 7 * p.words /\ p.words > 0)
  BY OnceOne DEF When
<1> HIDE DEF short, long, fit, a1, a2, a3, a4, a5, a6, a7, a8, a9, a10, a11, a12, a13
<1>28. /\ Once(b2, {"Lengthen_your_Content", "Make_your_Content_descriptive",
                    "Make_your_content_specific", "Long_Content_is_spam"})
       /\ b2 = <<>> <=> a1 = <<>> /\ a2 = <<>>
  BY <1>2, <1>4, OnceBoth
<1> HIDE DEF b2
<1>29. /\ Once(b3, {"Lengthen_your_Content", "Make_your_Content_descriptive",
                    "Make_your_content_specific", "Long_Content_is_spam", "Use_only_one_H1"})
       /\ b3 = <<>> <=> b2 = <<>> /\ a3 = <<>>
  BY <1>28, <1>6, OnceBoth
<1> HIDE DEF b3
<1>30. /\ Once(b4, {"Lengthen_your_Content", "Make_your_Content_descriptive",
                    "Make_your_content_specific", "Long_Content_is_spam", "Use_only_one_H1",
                    "Add_a_single_H1"})
       /\ b4 = <<>> <=> b3 = <<>> /\ a4 = <<>>
  BY <1>29, <1>8, OnceBoth
<1> HIDE DEF b4
<1>31. /\ Once(b5, {"Lengthen_your_Content", "Make_your_Content_descriptive",
                    "Make_your_content_specific", "Long_Content_is_spam", "Use_only_one_H1",
                    "Add_a_single_H1", "Add_more_headings"})
       /\ b5 = <<>> <=> b4 = <<>> /\ a5 = <<>>
  BY <1>30, <1>10, OnceBoth
<1> HIDE DEF b5
<1>32. /\ Once(b6, {"Lengthen_your_Content", "Make_your_Content_descriptive",
                    "Make_your_content_specific", "Long_Content_is_spam", "Use_only_one_H1",
                    "Add_a_single_H1", "Add_more_headings", "Add_headings"})
       /\ b6 = <<>> <=> b5 = <<>> /\ a6 = <<>>
  BY <1>31, <1>12, OnceBoth
<1> HIDE DEF b6
<1>33. /\ Once(b7, {"Lengthen_your_Content", "Make_your_Content_descriptive",
                    "Make_your_content_specific", "Long_Content_is_spam", "Use_only_one_H1",
                    "Add_a_single_H1", "Add_more_headings", "Add_headings",
                    "Add_H1_and_H2_headings"})
       /\ b7 = <<>> <=> b6 = <<>> /\ a7 = <<>>
  BY <1>32, <1>14, OnceBoth
<1> HIDE DEF b7
<1>34. /\ Once(b8, {"Lengthen_your_Content", "Make_your_Content_descriptive",
                    "Make_your_content_specific", "Long_Content_is_spam", "Use_only_one_H1",
                    "Add_a_single_H1", "Add_more_headings", "Add_headings",
                    "Add_H1_and_H2_headings", "Add_H2_headings"})
       /\ b8 = <<>> <=> b7 = <<>> /\ a8 = <<>>
  BY <1>33, <1>16, OnceBoth
<1> HIDE DEF b8
<1>35. /\ Once(b9, {"Lengthen_your_Content", "Make_your_Content_descriptive",
                    "Make_your_content_specific", "Long_Content_is_spam", "Use_only_one_H1",
                    "Add_a_single_H1", "Add_more_headings", "Add_headings",
                    "Add_H1_and_H2_headings", "Add_H2_headings",
                    "Make_headings_more_descriptive"})
       /\ b9 = <<>> <=> b8 = <<>> /\ a9 = <<>>
  BY <1>34, <1>18, OnceBoth
<1> HIDE DEF b9
<1>36. /\ Once(b10, {"Lengthen_your_Content", "Make_your_Content_descriptive",
                     "Make_your_content_specific", "Long_Content_is_spam", "Use_only_one_H1",
                     "Add_a_single_H1", "Add_more_headings", "Add_headings",
                     "Add_H1_and_H2_headings", "Add_H2_headings",
                     "Make_headings_more_descriptive", "Keep_headings_concise"})
       /\ b10 = <<>> <=> b9 = <<>> /\ a10 = <<>>
  BY <1>35, <1>20, OnceBoth
<1> HIDE DEF b10
<1>37. /\ Once(b11, {"Lengthen_your_Content", "Make_your_Content_descriptive",
                     "Make_your_content_specific", "Long_Content_is_spam", "Use_only_one_H1",
                     "Add_a_single_H1", "Add_more_headings", "Add_headings",
                     "Add_H1_and_H2_headings", "Add_H2_headings",
                     "Make_headings_more_descriptive", "Keep_headings_concise",
                     "Write_content", "Without_content_no_visibility"})
       /\ b11 = <<>> <=> b10 = <<>> /\ a11 = <<>>
  BY <1>36, <1>22, OnceBoth
<1> HIDE DEF b11
<1>38. /\ Once(b12, {"Lengthen_your_Content", "Make_your_Content_descriptive",
                     "Make_your_content_specific", "Long_Content_is_spam", "Use_only_one_H1",
                     "Add_a_single_H1", "Add_more_headings", "Add_headings",
                     "Add_H1_and_H2_headings", "Add_H2_headings",
                     "Make_headings_more_descriptive", "Keep_headings_concise",
                     "Write_content", "Without_content_no_visibility", "Rewrite_content",
                     "Avoid_keyword_stuffing"})
       /\ b12 = <<>> <=> b11 = <<>> /\ a12 = <<>>
  BY <1>37, <1>24, OnceBoth
<1> HIDE DEF b12
<1>39. /\ Once(b13, ContentStrings)
       /\ b13 = <<>> <=> b12 = <<>> /\ a13 = <<>>
  BY <1>38, <1>26, OnceBoth DEF ContentStrings
<1> HIDE DEF b13
<1>40. Len(p.headings) >= 3 <=> ~(Len(p.headings) \in 1 .. 2) /\ ~(p.headings = <<>>)
  <2> DEFINE H == p.headings
  <2>1. Len(H) \in Nat /\ (Len(H) = 0 <=> H = <<>>)
    BY DEF IsPage
  <2> HIDE DEF H
  <2>2. Len(H) >= 3 <=> ~(Len(H) \in 1 .. 2) /\ ~(Len(H) = 0)
    <3> DEFINE m == Len(H)
    <3>1. m \in Nat
      BY <2>1
    <3> HIDE DEF m
    <3>2. m >= 3 <=> ~(m \in 1 .. 2) /\ ~(m = 0)
      BY <3>1
    <3> QED
      BY <3>2 DEF m
  <2>3. Len(H) >= 3 <=> ~(Len(H) \in 1 .. 2) /\ ~(H = <<>>)
    BY <2>1, <2>2, Zenon
  <2> QED
    BY <2>3 DEF H
<1>41. Cardinality(AtLevel(p, "h1")) = 1 <=>
         ~(Cardinality(AtLevel(p, "h1")) > 1) /\ ~(AtLevel(p, "h1") = {})
  <2>1. IsFiniteSet(AtLevel(p, "h1")) /\ Cardinality(AtLevel(p, "h1")) \in Nat
    BY AtLevelFinite
  <2>2. Cardinality(AtLevel(p, "h1")) = 0 <=> AtLevel(p, "h1") = {}
    BY <2>1, FS_EmptySet
  <2> QED
    BY <2>1, <2>2
<1>42. Len(p.headings) >= 3 =>
         (AverageIn(p, 5, 10) \/ AverageIs(p, 10)
          <=> /\ ~AverageIn(p, 1, 5)
              /\ ~(AverageIn(p, 0, 1) \/ ~(AverageIn(p, 0, 10) \/ AverageIs(p, 10))))
  <2> SUFFICES ASSUME Len(p.headings) >= 3
               PROVE  AverageIn(p, 5, 10) \/ AverageIs(p, 10)
                      <=> /\ ~AverageIn(p, 1, 5)
                          /\ ~(\/ AverageIn(p, 0, 1)
                               \/ ~(AverageIn(p, 0, 10) \/ AverageIs(p, 10)))
    OBVIOUS
  <2>1. HeadingWords(p) \in Nat /\ Len(p.headings) \in Nat /\ p.headings # <<>>
    <3>1. HeadingWords(p) \in Nat /\ Len(p.headings) \in Nat
      BY HeadingWordsAre
    <3> QED
      BY <3>1
  <2> QED
    BY <2>1 DEF AverageIn, AverageIs
<1>43. fit <=> /\ ~short /\ ~long /\ ~(p.words = 0)
               /\ ~(p.words > 0 /\ 10 * p.distinct < 4 * p.words)
               /\ ~(10 * p.distinct \in 4 * p.words .. 7 * p.words /\ p.words > 0)
  <2> DEFINE n == p.words
             k == p.distinct
  <2>1. n \in Nat /\ k \in Nat
    BY FieldsAre
  <2> HIDE DEF n, k
  <2>2. n \in 800 .. 2500 /\ 10 * k > 7 * n
        <=> /\ ~(n < 800) /\ ~(n > 2500) /\ ~(n = 0) /\ ~(n > 0 /\ 10 * k < 4 * n)
            /\ ~(10 * k \in 4 * n .. 7 * n /\ n > 0)
    <3>1. n \in 800 .. 2500 <=> ~(n < 800) /\ ~(n > 2500)
      BY <2>1
    <3>2. ASSUME ~(n < 800)
          PROVE  10 * k > 7 * n <=> /\ ~(n = 0) /\ ~(n > 0 /\ 10 * k < 4 * n)
                                    /\ ~(10 * k \in 4 * n .. 7 * n /\ n > 0)
      BY <2>1, <3>2
    <3> QED
      BY <3>1, <3>2
  <2> QED
    BY <2>2 DEF n, k, fit, short, long
<1>44. /\ Once(ContentAdvice(p), ContentStrings)
       /\ ContentAdvice(p) = <<>> <=>
             /\ fit /\ Cardinality(AtLevel(p, "h1")) = 1 /\ ~(AtLevel(p, "h2") = {})
             /\ Len(p.headings) >= 3 /\ (AverageIn(p, 5, 10) \/ AverageIs(p, 10))
  BY <1>1, <1>3, <1>5, <1>7, <1>9, <1>11, <1>13, <1>15, <1>17, <1>19, <1>21, <1>23, <1>25,
     <1>27, <1>28, <1>29, <1>30, <1>31, <1>32, <1>33, <1>34, <1>35, <1>36, <1>37, <1>38,
     <1>39, <1>40, <1>41, <1>42, <1>43, Zenon
<1> QED
  BY <1>44 DEF fit

(* The categories have no recommendation in common.                        *)
AdviceStrings == StructuredStrings \cup LinkStrings \cup ContentStrings \cup ImageStrings
                 \cup MetadataStrings

LEMMA AdviceIs ==
    ASSUME NEW p, IsPage(p)
    PROVE  /\ Once(Advice(p), AdviceStrings)
           /\ Advice(p) = <<>> <=>
                 /\ StructuredAdvice(p) = <<>> /\ LinkAdvice(p) = <<>> /\ ContentAdvice(p) = <<>>
                 /\ ImageAdvice(p) = <<>> /\ MetadataAdvice(p) = <<>>
<1> DEFINE s1 == StructuredAdvice(p)
           s2 == s1 \o LinkAdvice(p)
           s3 == s2 \o ContentAdvice(p)
           s4 == s3 \o ImageAdvice(p)
           s5 == s4 \o MetadataAdvice(p)
           S2 == StructuredStrings \cup LinkStrings
           S3 == S2 \cup ContentStrings
           S4 == S3 \cup ImageStrings
           S5 == S4 \cup MetadataStrings
<1>1. /\ StructuredStrings \cap LinkStrings = {} /\ S2 \cap ContentStrings = {}
      /\ S3 \cap ImageStrings = {} /\ S4 \cap MetadataStrings = {}
  BY DEF StructuredStrings, LinkStrings, ContentStrings, ImageStrings, MetadataStrings
<1>2. /\ StructuredStrings \subseteq S2 /\ LinkStrings \subseteq S2
      /\ S2 \subseteq S3 /\ ContentStrings \subseteq S3
      /\ S3 \subseteq S4 /\ ImageStrings \subseteq S4
      /\ S4 \subseteq S5 /\ MetadataStrings \subseteq S5
  OBVIOUS
<1>3. Advice(p) = s5
  BY DEF Advice
<1>4. /\ Once(StructuredAdvice(p), StructuredStrings) /\ Once(LinkAdvice(p), LinkStrings)
      /\ Once(ContentAdvice(p), ContentStrings) /\ Once(ImageAdvice(p), ImageStrings)
      /\ Once(MetadataAdvice(p), MetadataStrings)
  BY StructuredAdviceIs, LinkAdviceIs, ContentAdviceIs, ImageAdviceIs, MetadataAdviceIs
<1> HIDE DEF S2, S3, S4, S5
<1>5. Once(s2, S2) /\ (s2 = <<>> <=> StructuredAdvice(p) = <<>> /\ LinkAdvice(p) = <<>>)
  BY <1>1, <1>2, <1>4, OnceBoth
<1> HIDE DEF s2
<1>6. Once(s3, S3) /\ (s3 = <<>> <=> s2 = <<>> /\ ContentAdvice(p) = <<>>)
  BY <1>1, <1>2, <1>5, <1>4, OnceBoth
<1> HIDE DEF s3
<1>7. Once(s4, S4) /\ (s4 = <<>> <=> s3 = <<>> /\ ImageAdvice(p) = <<>>)
  BY <1>1, <1>2, <1>6, <1>4, OnceBoth
<1> HIDE DEF s4
<1>8. Once(s5, S5) /\ (s5 = <<>> <=> s4 = <<>> /\ MetadataAdvice(p) = <<>>)
  BY <1>1, <1>2, <1>7, <1>4, OnceBoth
<1> HIDE DEF s5
<1>9. S5 = AdviceStrings
  BY DEF S2, S3, S4, S5, AdviceStrings
<1> QED
  BY <1>3, <1>5, <1>6, <1>7, <1>8, <1>9, Zenon
=============================================================================
