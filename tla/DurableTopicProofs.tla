------------------------- MODULE DurableTopicProofs -------------------------
(***************************************************************************)
(* Proofs about DurableTopic, for every set of subscriptions and emitters, *)
(* every way and policy a subscription may be opened with, every buffer,   *)
(* batch and page size.                                                    *)
(***************************************************************************)
EXTENDS DurableTopic, FiniteSetTheorems, TLAPS

-----------------------------------------------------------------------------
(* Sequences                                                               *)

Distinct(q) == \A i, j \in DOMAIN q : q[i] = q[j] => i = j
Rising(q) == \A i, j \in DOMAIN q : i <= j => q[i] <= q[j]
StrictlyRising(q) == \A i, j \in DOMAIN q : i < j => q[i] < q[j]

(* What one more item at the back does to what a sequence holds.           *)
LEMMA PushedBack ==
  ASSUME NEW S, NEW s \in Seq(S), NEW x \in S
  PROVE  /\ Append(s, x) \in Seq(S)
         /\ Len(Append(s, x)) = Len(s) + 1
         /\ ToSet(Append(s, x)) = ToSet(s) \cup {x}
         /\ Distinct(s) /\ x \notin ToSet(s) => Distinct(Append(s, x))
<1> DEFINE t == Append(s, x)
<1>1. /\ t \in Seq(S) /\ Len(s) \in Nat /\ Len(t) = Len(s) + 1
      /\ DOMAIN s = 1 .. Len(s) /\ DOMAIN t = 1 .. Len(s) + 1
      /\ \A i \in DOMAIN s : t[i] = s[i]
      /\ t[Len(s) + 1] = x
  OBVIOUS
<1> HIDE DEF t
<1>2. ASSUME NEW y PROVE y \in ToSet(t) <=> y \in ToSet(s) \cup {x}
  BY <1>1 DEF ToSet
<1>3. Distinct(s) /\ x \notin ToSet(s) => Distinct(t)
  BY <1>1 DEF Distinct, ToSet
<1> QED BY <1>1, <1>2, <1>3 DEF t

(* What taking the item at the front does.                                 *)
LEMMA TakenOff ==
  ASSUME NEW S, NEW s \in Seq(S), s # <<>>
  PROVE  /\ Head(s) \in S /\ Head(s) \in ToSet(s)
         /\ Tail(s) \in Seq(S)
         /\ Len(Tail(s)) = Len(s) - 1 /\ Len(s) \in Nat \ {0}
         /\ ToSet(s) = ToSet(Tail(s)) \cup {Head(s)}
         /\ Distinct(s) => Distinct(Tail(s)) /\ Head(s) \notin ToSet(Tail(s))
<1> DEFINE t == Tail(s)
<1>1. /\ t \in Seq(S) /\ Len(s) \in Nat \ {0} /\ Len(t) = Len(s) - 1
      /\ DOMAIN s = 1 .. Len(s) /\ DOMAIN t = 1 .. Len(s) - 1
      /\ \A i \in DOMAIN t : t[i] = s[i + 1]
      /\ Head(s) = s[1] /\ s[1] \in S
  OBVIOUS
<1> HIDE DEF t
<1>2. ToSet(s) = ToSet(t) \cup {s[1]}
  <2>1. ASSUME NEW i \in DOMAIN s, i # 1 PROVE s[i] \in ToSet(t)
    <3>1. i - 1 \in DOMAIN t /\ t[i - 1] = s[i]
      BY <1>1, <2>1
    <3> QED BY <3>1 DEF ToSet
  <2>2. ASSUME NEW i \in DOMAIN t PROVE t[i] \in ToSet(s)
    BY <1>1 DEF ToSet
  <2>3. s[1] \in ToSet(s)
    BY <1>1 DEF ToSet
  <2> QED BY <2>1, <2>2, <2>3 DEF ToSet
<1>3. Distinct(s) => Distinct(t) /\ s[1] \notin ToSet(t)
  <2> SUFFICES ASSUME Distinct(s) PROVE Distinct(t) /\ s[1] \notin ToSet(t)
    OBVIOUS
  <2>1. Distinct(t)
    BY <1>1 DEF Distinct
  <2>2. ASSUME NEW i \in DOMAIN t PROVE t[i] # s[1]
    BY <1>1 DEF Distinct
  <2> QED BY <2>1, <2>2 DEF ToSet
<1> QED BY <1>1, <1>2, <1>3 DEF t

(* What list.remove does to a list without duplicates.                     *)
LEMMA Removed ==
  ASSUME NEW S, NEW s \in Seq(S), Distinct(s), NEW x
  PROVE  /\ RemoveFirst(s, x) \in Seq(S)
         /\ Distinct(RemoveFirst(s, x))
         /\ ToSet(RemoveFirst(s, x)) = ToSet(s) \ {x}
<1>1. CASE ~ \E i \in 1 .. Len(s) : s[i] = x
  <2>1. RemoveFirst(s, x) = s
    BY <1>1 DEF RemoveFirst
  <2>2. x \notin ToSet(s)
    BY <1>1 DEF ToSet
  <2> QED BY <2>1, <2>2
<1>2. CASE \E i \in 1 .. Len(s) : s[i] = x
  <2>1. PICK k \in 1 .. Len(s) : s[k] = x
    BY <1>2
  <2>2. {i \in 1 .. Len(s) : s[i] = x} = {k}
    BY <2>1 DEF Distinct
  <2>3. SelectInSeq(s, LAMBDA v : v = x) = k
    BY <2>2 DEF SelectInSeq, Min
  <2> DEFINE t == RemoveAt(s, k)
  <2>4. RemoveFirst(s, x) = t
    BY <1>2, <2>3 DEF RemoveFirst
  <2>5. /\ t \in Seq(S) /\ DOMAIN s = 1 .. Len(s) /\ DOMAIN t = 1 .. Len(s) - 1
        /\ \A i \in DOMAIN t : t[i] = s[IF i < k THEN i ELSE i + 1]
    <3> DEFINE a == SubSeq(s, 1, k - 1)
               b == SubSeq(s, k + 1, Len(s))
    <3>1. /\ a \in Seq(S) /\ Len(a) = k - 1 /\ \A i \in 1 .. k - 1 : a[i] = s[i]
          /\ b \in Seq(S) /\ Len(b) = Len(s) - k
          /\ \A i \in 1 .. Len(s) - k : b[i] = s[k + i]
      OBVIOUS
    <3>2. t = a \o b
      BY DEF RemoveAt
    <3> HIDE DEF a, b, t
    <3>3. t \in Seq(S) /\ Len(t) = Len(s) - 1
      BY <3>1, <3>2
    <3>4. ASSUME NEW i \in 1 .. Len(s) - 1
          PROVE  t[i] = s[IF i < k THEN i ELSE i + 1]
      <4>1. CASE i < k
        BY <3>1, <3>2, <4>1
      <4>2. CASE ~(i < k)
        <5>1. i - (k - 1) \in 1 .. Len(s) - k /\ k + (i - (k - 1)) = i + 1
          BY <4>2
        <5>2. t[i] = b[i - (k - 1)]
          BY <3>1, <3>2, <4>2
        <5> QED BY <3>1, <4>2, <5>1, <5>2
      <4> QED BY <4>1, <4>2
    <3> QED BY <3>3, <3>4
  <2> HIDE DEF t
  <2>6. Distinct(t)
    BY <2>5 DEF Distinct
  <2>7. ToSet(t) = ToSet(s) \ {x}
    <3>1. ASSUME NEW i \in DOMAIN t PROVE t[i] \in ToSet(s) /\ t[i] # x
      BY <2>1, <2>5 DEF ToSet, Distinct
    <3>2. ASSUME NEW i \in DOMAIN s, s[i] # x PROVE s[i] \in ToSet(t)
      <4>1. CASE i < k
        <5>1. i \in DOMAIN t /\ t[i] = s[i]
          BY <2>5, <4>1
        <5> QED BY <5>1 DEF ToSet
      <4>2. CASE i > k
        <5>1. i - 1 \in DOMAIN t /\ t[i - 1] = s[i]
          BY <2>5, <4>2
        <5> QED BY <5>1 DEF ToSet
      <4> QED BY <2>1, <2>5, <3>2, <4>1, <4>2
    <3> QED BY <3>1, <3>2 DEF ToSet
  <2> QED BY <2>4, <2>5, <2>6, <2>7
<1> QED BY <1>1, <1>2

(* The place of a number in a finite set of them.                          *)
Rank(K, k) == Cardinality({j \in K : j < k})

(* Larger numbers have higher ranks, and every rank is somebody's.         *)
LEMMA Ranked ==
  ASSUME NEW n \in Nat, NEW K \in SUBSET (1 .. n)
  PROVE  /\ IsFiniteSet(K) /\ Cardinality(K) \in 0 .. n
         /\ \A k \in K : Rank(K, k) \in 0 .. Cardinality(K) - 1
         /\ \A k, l \in K : k < l => Rank(K, k) < Rank(K, l)
         /\ \A m \in 1 .. Cardinality(K) : \E k \in K : Rank(K, k) = m - 1
<1>0. \A k \in K : k \in Nat
  OBVIOUS
<1>1. IsFiniteSet(K) /\ Cardinality(K) \in Nat /\ Cardinality(K) <= n
  <2>1. IsFiniteSet(1 .. n) /\ Cardinality(1 .. n) = n
    BY FS_Interval
  <2> QED BY <2>1, FS_Subset, FS_CardinalityType
<1>2. ASSUME NEW k \in K
      PROVE  /\ IsFiniteSet({j \in K : j < k}) /\ Rank(K, k) \in Nat
             /\ Rank(K, k) < Cardinality(K)
  <2> DEFINE B == {j \in K : j < k}
  <2>1. B \in SUBSET K /\ k \notin B
    OBVIOUS
  <2> HIDE DEF B
  <2>2. /\ IsFiniteSet(B) /\ Cardinality(B) <= Cardinality(K)
        /\ Cardinality(K) = Cardinality(B) => K = B
    BY <1>1, <2>1, FS_Subset
  <2>3. Cardinality(B) \in Nat
    BY <2>2, FS_CardinalityType
  <2>4. Cardinality(B) < Cardinality(K)
    BY <1>1, <2>1, <2>2, <2>3
  <2> QED BY <2>2, <2>3, <2>4 DEF B, Rank
<1>3. ASSUME NEW k \in K, NEW l \in K, k < l PROVE Rank(K, k) < Rank(K, l)
  <2> DEFINE B == {j \in K : j < k}
             C == {j \in K : j < l}
  <2>1. B \in SUBSET C /\ k \in C /\ k \notin B
    <3>1. ASSUME NEW j \in B PROVE j \in C
      BY <1>0, <1>3
    <3>2. k \in C /\ k \notin B
      BY <1>0, <1>3
    <3> QED BY <3>1, <3>2
  <2>2. IsFiniteSet(C) /\ Cardinality(C) \in Nat /\ Cardinality(B) \in Nat
    BY <1>2 DEF Rank
  <2> HIDE DEF B, C
  <2>3. Cardinality(B) <= Cardinality(C) /\ (Cardinality(C) = Cardinality(B) => C = B)
    BY <2>1, <2>2, FS_Subset
  <2>4. Cardinality(B) < Cardinality(C)
    BY <2>1, <2>2, <2>3
  <2> QED BY <2>4 DEF B, C, Rank
<1>r. ASSUME NEW k \in K
      PROVE  /\ Rank(K, k) \in Nat /\ Rank(K, k) \in 0 .. Cardinality(K) - 1
             /\ Rank(K, k) + 1 \in 1 .. Cardinality(K)
  <2>1. Rank(K, k) \in Nat /\ Rank(K, k) < Cardinality(K)
    BY <1>2
  <2> QED BY <1>1, <2>1
<1>4. ASSUME NEW m \in 1 .. Cardinality(K) PROVE \E k \in K : Rank(K, k) = m - 1
  <2> DEFINE N == 1 .. Cardinality(K)
             f == [k \in K |-> Rank(K, k) + 1]
  <2>0. \A k \in K : Rank(K, k) \in Nat /\ Rank(K, k) + 1 \in N
    BY <1>r
  <2>1. f \in [K -> N] /\ \A k \in K : f[k] = Rank(K, k) + 1
    BY <2>0
  <2>2. ASSUME NEW k \in K, NEW l \in K, f[k] = f[l] PROVE k = l
    <3>1. Rank(K, k) = Rank(K, l) /\ Rank(K, k) \in Nat
      BY <2>0, <2>1, <2>2
    <3>2. ~(k < l) /\ ~(l < k)
      BY <1>3, <3>1
    <3> QED BY <1>0, <3>2
  <2> HIDE DEF f
  <2>3. f \in Injection(K, N)
    BY <2>1, <2>2 DEF Injection, IsInjective
  <2>4. IsFiniteSet(N) /\ Cardinality(N) = Cardinality(K)
    BY <1>1, FS_Interval
  <2>5. f \in Surjection(K, N)
    BY <2>3, <2>4, FS_Injection
  <2>6. \E k \in K : f[k] = m
    BY <2>5 DEF Surjection
  <2>7. PICK k \in K : Rank(K, k) + 1 = m
    BY <2>1, <2>6
  <2>8. Rank(K, k) \in Nat
    BY <2>0
  <2>9. Rank(K, k) = m - 1
    BY <2>7, <2>8
  <2> QED BY <2>9
<1>5. \A k \in K : Rank(K, k) \in 0 .. Cardinality(K) - 1
  BY <1>r
<1>6. Cardinality(K) \in 0 .. n
  BY <1>1
<1> QED BY <1>1, <1>3, <1>4, <1>5, <1>6

(* What a filter of a sequence keeps, and that it keeps the order.         *)
LEMMA Filtered ==
  ASSUME NEW q \in Seq(Nat), NEW K \in SUBSET DOMAIN q
  PROVE  /\ ItemsAt(q, K) \in Seq(Nat) /\ Len(ItemsAt(q, K)) <= Len(q)
         /\ ToSet(ItemsAt(q, K)) = {q[k] : k \in K}
         /\ Rising(q) => Rising(ItemsAt(q, K))
<1> DEFINE c == Cardinality(K)
           at(m) == CHOOSE k \in K : Cardinality({j \in K : j < k}) = m - 1
           f == ItemsAt(q, K)
<1>1. Len(q) \in Nat /\ DOMAIN q = 1 .. Len(q) /\ \A k \in DOMAIN q : q[k] \in Nat
  OBVIOUS
<1>2. /\ c \in 0 .. Len(q)
      /\ \A k \in K : Rank(K, k) \in 0 .. c - 1
      /\ \A k, l \in K : k < l => Rank(K, k) < Rank(K, l)
      /\ \A m \in 1 .. c : \E k \in K : Rank(K, k) = m - 1
  BY <1>1, Ranked
<1>3. ASSUME NEW m \in 1 .. c PROVE at(m) \in K /\ Rank(K, at(m)) = m - 1
  <2>1. \E k \in K : Cardinality({j \in K : j < k}) = m - 1
    BY <1>2 DEF Rank
  <2> QED BY <2>1 DEF Rank
<1>4. f = [m \in 1 .. c |-> q[at(m)]]
  BY DEF ItemsAt
<1> HIDE DEF c, at, f
<1>5. ASSUME NEW k \in K, NEW l \in K, Rank(K, k) <= Rank(K, l) PROVE k <= l
  <2>1. k \in Nat /\ l \in Nat
    BY <1>1
  <2>2. Rank(K, k) \in Nat /\ Rank(K, l) \in Nat
    BY <1>2
  <2>3. CASE l < k
    BY <1>2, <1>5, <2>2, <2>3
  <2> QED BY <2>1, <2>3
<1>6. c \in Nat /\ f \in Seq(Nat) /\ Len(f) = c /\ DOMAIN f = 1 .. c
      /\ \A m \in 1 .. c : f[m] = q[at(m)]
  <2>1. \A m \in 1 .. c : q[at(m)] \in Nat
    BY <1>1, <1>3
  <2>2. c \in Nat
    BY <1>2
  <2> QED BY <1>4, <2>1, <2>2
<1>7. ToSet(f) = {q[k] : k \in K}
  <2>1. ASSUME NEW m \in DOMAIN f PROVE f[m] \in {q[k] : k \in K}
    BY <1>3, <1>6
  <2>2. ASSUME NEW k \in K PROVE q[k] \in ToSet(f)
    <3>1. Rank(K, k) \in 0 .. c - 1
      BY <1>2
    <3> DEFINE m == Rank(K, k) + 1
    <3>2. m \in 1 .. c /\ Rank(K, k) = m - 1 /\ m - 1 \in Nat
      BY <1>6, <3>1
    <3> HIDE DEF m
    <3>3. at(m) \in K /\ Rank(K, at(m)) = Rank(K, k)
      BY <1>3, <3>2
    <3>4. at(m) <= k /\ k <= at(m)
      BY <1>5, <3>2, <3>3
    <3>5. at(m) = k
      BY <1>1, <3>3, <3>4
    <3> QED BY <1>6, <3>2, <3>5 DEF ToSet
  <2> QED BY <2>1, <2>2 DEF ToSet
<1>8. ASSUME Rising(q) PROVE Rising(f)
  <2> SUFFICES ASSUME NEW m \in 1 .. c, NEW n \in 1 .. c, m <= n PROVE f[m] <= f[n]
    BY <1>6 DEF Rising
  <2>1. /\ at(m) \in K /\ Rank(K, at(m)) = m - 1
        /\ at(n) \in K /\ Rank(K, at(n)) = n - 1
    BY <1>3
  <2>2. m - 1 <= n - 1
    BY <1>6
  <2>3. at(m) <= at(n)
    BY <1>5, <2>1, <2>2
  <2> QED BY <1>6, <1>8, <2>1, <2>3 DEF Rising
<1>9. Len(f) <= Len(q)
  BY <1>1, <1>2, <1>6
<1> QED BY <1>6, <1>7, <1>8, <1>9 DEF f

(* What one more item at the end, not less than the others, does to order. *)
LEMMA RisesOn ==
  ASSUME NEW q \in Seq(Nat), NEW x \in Nat
  PROVE  /\ Rising(q) /\ (\A y \in ToSet(q) : y <= x) => Rising(Append(q, x))
         /\ StrictlyRising(q) /\ (\A y \in ToSet(q) : y < x) =>
               StrictlyRising(Append(q, x))
<1> DEFINE t == Append(q, x)
<1>1. /\ Len(q) \in Nat /\ DOMAIN q = 1 .. Len(q) /\ DOMAIN t = 1 .. Len(q) + 1
      /\ \A i \in DOMAIN q : t[i] = q[i] /\ q[i] \in Nat
      /\ t[Len(q) + 1] = x
  OBVIOUS
<1> HIDE DEF t
<1>2. ASSUME NEW i \in DOMAIN t, NEW j \in DOMAIN t, i < j PROVE i \in DOMAIN q
  BY <1>1, <1>2
<1>3. ASSUME NEW j \in DOMAIN t, j \notin DOMAIN q PROVE t[j] = x
  BY <1>1, <1>3
<1>4. ASSUME Rising(q), \A y \in ToSet(q) : y <= x, NEW i \in DOMAIN t, NEW j \in DOMAIN t,
             i <= j
      PROVE  t[i] <= t[j]
  <2>1. CASE i = j
    <3>1. t[i] \in Nat
      BY <1>1, <1>3
    <3> QED BY <2>1, <3>1
  <2>2. CASE i # j /\ j \in DOMAIN q
    BY <1>1, <1>2, <1>4, <2>2 DEF Rising
  <2>3. CASE i # j /\ j \notin DOMAIN q
    <3>1. i < j
      BY <1>1, <1>4, <2>3
    <3>2. i \in DOMAIN q /\ q[i] \in ToSet(q)
      BY <1>2, <3>1 DEF ToSet
    <3> QED BY <1>1, <1>3, <1>4, <2>3, <3>2
  <2> QED BY <2>1, <2>2, <2>3
<1>5. ASSUME StrictlyRising(q), \A y \in ToSet(q) : y < x, NEW i \in DOMAIN t,
             NEW j \in DOMAIN t, i < j
      PROVE  t[i] < t[j]
  <2>1. i \in DOMAIN q /\ q[i] \in ToSet(q)
    BY <1>2, <1>5 DEF ToSet
  <2>2. CASE j \in DOMAIN q
    BY <1>1, <1>5, <2>1, <2>2 DEF StrictlyRising
  <2>3. CASE j \notin DOMAIN q
    BY <1>1, <1>3, <1>5, <2>1, <2>3
  <2> QED BY <2>2, <2>3
<1> QED BY <1>4, <1>5 DEF Rising, StrictlyRising, t

(* The front of a rising sequence is its least, and the rest rises.        *)
LEMMA RisesFrom ==
  ASSUME NEW q \in Seq(Nat), q # <<>>, Rising(q)
  PROVE  Rising(Tail(q)) /\ \A y \in ToSet(q) : Head(q) <= y
<1> DEFINE t == Tail(q)
<1>1. /\ Len(q) \in Nat \ {0} /\ DOMAIN q = 1 .. Len(q) /\ DOMAIN t = 1 .. Len(q) - 1
      /\ \A i \in DOMAIN t : t[i] = q[i + 1]
      /\ Head(q) = q[1]
  OBVIOUS
<1> HIDE DEF t
<1>2. Rising(t)
  BY <1>1 DEF Rising
<1>3. \A y \in ToSet(q) : q[1] <= y
  BY <1>1 DEF Rising, ToSet
<1> QED BY <1>1, <1>2, <1>3 DEF t

-----------------------------------------------------------------------------
(* Pieces of the stream                                                    *)

(* A piece of the stream after p: its entries follow one another and the   *)
(* last is in it, and nothing between p and the first is there any more.   *)
Piece(q, p, last, gone) ==
    /\ q \in Seq(Nat)
    /\ \A k \in DOMAIN q : q[k] = q[1] + k - 1 /\ q[k] <= last
    /\ q # <<>> => p < q[1] /\ (q[1] = p + 1 \/ q[1] <= gone + 1)

(* An answer of XREAD or XRANGE is a piece, and an empty one says that     *)
(* nothing after p is left.                                                *)
LEMMA AnswerPiece ==
  ASSUME stream \in Seq({"own", "other"}), trimmed \in 0 .. Len(stream),
         NEW p \in Nat, NEW n \in Nat \ {0}
  PROVE  /\ Piece(After(p, n), p, Len(stream), trimmed)
         /\ After(p, n) = <<>> => Len(stream) <= p \/ Len(stream) <= trimmed
         /\ After(p, n) # <<>> =>
               After(p, n)[1] = IF p < trimmed THEN trimmed + 1 ELSE p + 1
<1> DEFINE last == Len(stream)
           lo == IF p < trimmed THEN trimmed ELSE p
           hi == IF lo + n < last THEN lo + n ELSE last
           q == [k \in 1 .. hi - lo |-> lo + k]
<1>1. last \in Nat /\ trimmed \in Nat
  OBVIOUS
<1>2. After(p, n) = q
  BY DEF After
<1>3. lo \in Nat /\ hi \in Nat /\ hi <= last /\ p <= lo
  BY <1>1
<1>4. lo < last => lo < hi
  BY <1>1
<1>5. lo = p \/ lo = trimmed
  BY <1>1
<1> HIDE DEF lo, hi, last
<1>6. CASE lo < hi
  <2>1. /\ q \in Seq(Nat) /\ Len(q) = hi - lo /\ DOMAIN q = 1 .. hi - lo
        /\ \A k \in 1 .. hi - lo : q[k] = lo + k
    BY <1>3, <1>6
  <2> HIDE DEF q
  <2>2. q # <<>> /\ q[1] = lo + 1
    BY <1>3, <1>6, <2>1
  <2>3. \A k \in DOMAIN q : q[k] = q[1] + k - 1 /\ q[k] <= last
    BY <1>1, <1>3, <2>1, <2>2 DEF last
  <2>4. p < q[1] /\ (q[1] = p + 1 \/ q[1] <= trimmed + 1)
    BY <1>1, <1>3, <1>5, <2>2
  <2>5. q[1] = IF p < trimmed THEN trimmed + 1 ELSE p + 1
    BY <2>2 DEF lo
  <2> QED BY <1>2, <2>1, <2>2, <2>3, <2>4, <2>5 DEF Piece, last
<1>7. CASE ~(lo < hi)
  <2>1. 1 .. hi - lo = {}
    BY <1>3, <1>7
  <2>2. q = <<>>
    BY <2>1
  <2>3. last <= lo
    BY <1>1, <1>3, <1>4, <1>7 DEF last
  <2> HIDE DEF q
  <2>4. last <= p \/ last <= trimmed
    BY <1>5, <2>3
  <2> QED BY <1>2, <2>2, <2>4 DEF Piece, last
<1> QED BY <1>6, <1>7

(* The rest of a piece is a piece after its first entry, and begins with   *)
(* the next.                                                               *)
LEMMA RestPiece ==
  ASSUME NEW q, NEW p \in Nat, NEW last \in Nat, NEW gone \in Nat,
         Piece(q, p, last, gone), q # <<>>
  PROVE  /\ q[1] \in Nat /\ q[1] <= last /\ Head(q) = q[1]
         /\ Piece(Tail(q), q[1], last, gone)
         /\ Tail(q) # <<>> => Tail(q)[1] = q[1] + 1
<1> DEFINE t == Tail(q)
<1>1. /\ Len(q) \in Nat \ {0} /\ DOMAIN q = 1 .. Len(q) /\ DOMAIN t = 1 .. Len(q) - 1
      /\ \A i \in DOMAIN t : t[i] = q[i + 1]
      /\ t \in Seq(Nat) /\ Len(t) = Len(q) - 1
      /\ Head(q) = q[1] /\ \A i \in DOMAIN q : q[i] \in Nat
  BY DEF Piece
<1> HIDE DEF t
<1>2. 1 \in DOMAIN q
  BY <1>1
<1>3. q[1] \in Nat /\ q[1] <= last
  BY <1>1, <1>2 DEF Piece
<1>4. ASSUME NEW k \in DOMAIN t PROVE t[k] = q[1] + k /\ t[k] <= last
  <2>1. k + 1 \in DOMAIN q /\ t[k] = q[k + 1] /\ k \in Nat
    BY <1>1
  <2>2. q[k + 1] = q[1] + (k + 1) - 1 /\ q[k + 1] <= last
    BY <2>1 DEF Piece
  <2> QED BY <1>3, <2>1, <2>2
<1>5. ASSUME t # <<>> PROVE t[1] = q[1] + 1
  <2>1. 1 \in DOMAIN t
    BY <1>1, <1>5
  <2> QED BY <1>4, <2>1
<1>6. \A k \in DOMAIN t : t[k] = t[1] + k - 1 /\ t[k] <= last
  <2> SUFFICES ASSUME NEW k \in DOMAIN t PROVE t[k] = t[1] + k - 1 /\ t[k] <= last
    OBVIOUS
  <2>1. k \in Nat /\ t # <<>>
    BY <1>1
  <2> QED BY <1>3, <1>4, <1>5, <2>1
<1>7. t # <<>> => q[1] < t[1] /\ t[1] = q[1] + 1
  BY <1>3, <1>5
<1> QED BY <1>1, <1>3, <1>5, <1>6, <1>7 DEF Piece, t

(* A piece stays one as the stream grows and is trimmed.                   *)
LEMMA PieceStays ==
  ASSUME NEW q, NEW p, NEW last \in Nat, NEW gone \in Nat, NEW last2 \in Nat,
         NEW gone2 \in Nat, Piece(q, p, last, gone), last <= last2, gone <= gone2
  PROVE  Piece(q, p, last2, gone2)
<1>1. q \in Seq(Nat) /\ \A k \in DOMAIN q : q[k] \in Nat
  <2>1. q \in Seq(Nat)
    BY DEF Piece
  <2> QED BY <2>1
<1>2. \A k \in DOMAIN q : q[k] = q[1] + k - 1 /\ q[k] <= last2
  <2>1. \A k \in DOMAIN q : q[k] = q[1] + k - 1 /\ q[k] <= last
    BY DEF Piece
  <2> QED BY <1>1, <2>1
<1>3. q # <<>> => p < q[1] /\ (q[1] = p + 1 \/ q[1] <= gone2 + 1)
  <2> SUFFICES ASSUME q # <<>> PROVE p < q[1] /\ (q[1] = p + 1 \/ q[1] <= gone2 + 1)
    OBVIOUS
  <2>1. q[1] \in Nat
    BY <1>1
  <2> QED BY <2>1 DEF Piece
<1> QED BY <1>1, <1>2, <1>3 DEF Piece

-----------------------------------------------------------------------------
(* The types, by what the variables are about.                             *)

StreamShape ==
    /\ stream \in Seq({"own", "other"})
    /\ trimmed \in 0 .. Len(stream)
    /\ outages \in 0 .. MaxOutages

TailShape ==
    /\ tail \in {"off", "fixing", "reading", "read", "handing", "broken", "stopped"}
    /\ position \in Place
    /\ live \in BOOLEAN
    /\ batch \in Seq(Nat)
    /\ todo \in Seq(Subs)
    /\ looked \in BOOLEAN

EmitShape ==
    /\ emitting \in [Emitters -> Place]
    /\ emitTodo \in [Emitters -> Seq(Subs) \cup {None}]

OpenShape ==
    /\ subs \in Seq(Subs)
    /\ mode \in [Subs -> {None, "plain", "new", "since"}]
    /\ policy \in [Subs -> {None, "drop_oldest", "drop_newest", "block", "error"}]
    /\ from \in [Subs -> Nat]
    /\ closed \in [Subs -> BOOLEAN]

BufferShape ==
    /\ buffer \in [Subs -> Seq(Nat)]
    /\ \A s \in Subs : Len(buffer[s]) <= MaxSize
    /\ lost \in [Subs -> SUBSET Nat]

ReadShape ==
    /\ after \in [Subs -> Place]
    /\ got \in [Subs -> Seq(Nat)]
    /\ backlog \in [Subs -> Seq(Nat)]
    /\ replaying \in [Subs -> BOOLEAN]
    /\ asked \in [Subs -> BOOLEAN \cup {None}]
    /\ page \in [Subs -> Seq(Nat) \cup {None}]

(* What the tail holds wherever it is.                                     *)
TailPlace ==
    /\ tail \in {"read", "handing"} <=> batch # <<>>
    /\ tail # "handing" => todo = <<>> /\ ~looked
    /\ looked => todo # <<>>
    /\ tail \in {"reading", "read", "handing"} => position # None
    /\ tail \in {"off", "fixing"} => position = None
    /\ live => position # None
    /\ position # None => position <= Len(stream)
    /\ position # None => Piece(batch, position, Len(stream), trimmed)

(* Who is in Topic._subs, and in the snapshots taken of it.                *)
SubsListed ==
    /\ Distinct(subs)
    /\ \A s \in Subs : s \in ToSet(subs) <=> mode[s] # None /\ ~closed[s]

Opened(q) == Distinct(q) /\ \A s \in Subs : s \in ToSet(q) => mode[s] # None

TodoListed == Opened(todo)
EmitListed == \A e \in Emitters : emitTodo[e] # None => Opened(emitTodo[e])

(* A subscription nobody has opened.                                       *)
Unopened(s) ==
    /\ ~closed[s] /\ buffer[s] = <<>> /\ got[s] = <<>> /\ backlog[s] = <<>>
    /\ ~replaying[s] /\ asked[s] = None /\ page[s] = None

(* Where a reader is in its replay.                                        *)
Replay(s) ==
    /\ mode[s] = None => Unopened(s)
    /\ mode[s] = "plain" => after[s] = None
    /\ mode[s] = "since" => after[s] # None
    /\ replaying[s] => mode[s] = "since"
    /\ asked[s] # None => replaying[s] /\ backlog[s] = <<>>
    /\ page[s] # None => asked[s] # None
    /\ asked[s] = TRUE /\ ~closed[s] => position # None
    /\ backlog[s] # <<>> => replaying[s] /\ Piece(backlog[s], after[s], Len(stream), trimmed)
    /\ page[s] # None => Piece(page[s], after[s], Len(stream), trimmed)

ShapeInv ==
    /\ StreamShape /\ TailShape /\ EmitShape /\ OpenShape /\ BufferShape /\ ReadShape
    /\ TailPlace
    /\ SubsListed /\ TodoListed /\ EmitListed
    /\ \A s \in Subs : Replay(s)

-----------------------------------------------------------------------------
(* The order of what a reader with ids has, and has coming.                *)

(* How far the tail may have handed out entries.                           *)
Reached(x) ==
    /\ position # None
    /\ IF batch # <<>> THEN x <= batch[1] ELSE x <= position + 1 \/ x <= trimmed + 1

Ordered(s) ==
    /\ StrictlyRising(got[s])
    /\ \A x \in Given(s) : after[s] # None /\ x <= after[s]
    /\ Rising(buffer[s])
    /\ ~closed[s] => \A x \in Buffered(s) : Reached(x)

OrderInv == \A s \in Subs : Ids(s) => Ordered(s)

-----------------------------------------------------------------------------
(* What became of the entries a resumed reader asked for.                  *)

Gone(s, i) == i \in Given(s) \cup lost[s] \/ i <= trimmed
Settled(s, i) == i \in Given(s) \cup Buffered(s) \cup lost[s] \/ i <= trimmed

(* The replay has met live delivery, or has the answer that says so.       *)
Met(s) == ~replaying[s] \/ (page[s] = <<>> /\ asked[s] = TRUE)

(* What the reader is past, and what the tail is past.                     *)
Behind(s) == \A i \in from[s] + 1 .. after[s] : Gone(s, i)

Ahead(s) ==
    /\ position # None
    /\ \A i \in from[s] + 1 .. position : Settled(s, i)
    /\ tail = "handing" /\ s \notin ToSet(todo) /\ from[s] < batch[1] =>
          Settled(s, batch[1])

HandedOver(s) == Behind(s) /\ (Met(s) => Ahead(s))

HandInv == \A s \in Subs : mode[s] = "since" /\ ~closed[s] => HandedOver(s)

-----------------------------------------------------------------------------
(* Who gives a plain subscription an entry.                                *)

EmitInv ==
    /\ \A e \in Emitters : emitting[e] # None =>
          emitting[e] \in 1 .. Len(stream) /\ stream[emitting[e]] = "own"
    /\ \A e, f \in Emitters : emitting[e] # None /\ emitting[e] = emitting[f] => e = f
    /\ looked /\ ~Ids(todo[1]) => stream[batch[1]] = "other"

Has(s) == Given(s) \cup Buffered(s)

OnceEach(s) ==
    /\ Distinct(got[s])
    /\ Distinct(buffer[s])
    /\ Given(s) \cap Buffered(s) = {}
    /\ Has(s) \subseteq 1 .. Len(stream)

FromTail(s) ==
    ~closed[s] =>
        \A x \in Has(s) : stream[x] = "other" =>
            /\ position # None
            /\ \/ x <= position
               \/ tail = "handing" /\ x = batch[1] /\ s \notin ToSet(todo)

FromEmit(s) ==
    \A x \in Has(s), e \in Emitters : emitting[e] = x =>
        emitTodo[e] # None /\ s \notin ToSet(emitTodo[e])

Once(s) == OnceEach(s) /\ FromTail(s) /\ FromEmit(s)

(* How a subscription was opened.                                          *)
OpenedAs ==
    \A s \in Subs : mode[s] # None => mode[s] \in Modes[s] /\ policy[s] \in Policies[s]

PlainInv == EmitInv /\ \A s \in Subs : mode[s] = "plain" => Once(s)

(* A plain subscription shares its topic with no other that raises when    *)
(* it is full.                                                             *)
NobodyElseRaises ==
    \A s, t \in Subs : "error" \in Policies[s] /\ "plain" \in Modes[t] => s = t

-----------------------------------------------------------------------------
(* Where everything is: the first layer of the invariant                   *)

(* What no step does to the stream but grow it and trim it.                *)
Grown ==
    /\ Len(stream) \in Nat /\ Len(stream') \in Nat /\ Len(stream) <= Len(stream')
    /\ trimmed \in Nat /\ trimmed' \in Nat /\ trimmed <= trimmed'
    /\ \A i \in 1 .. Len(stream) : stream'[i] = stream[i]

(* Publish adds an entry at the end.                                       *)
LEMMA Published ==
  ASSUME StreamShape, NEW node \in {"own", "other"}, Publish(node),
         UNCHANGED <<trimmed, outages>>
  PROVE  StreamShape' /\ Grown /\ Len(stream') = Len(stream) + 1
                      /\ stream'[Len(stream) + 1] = node
<1>1. /\ stream \in Seq({"own", "other"}) /\ stream' = Append(stream, node)
      /\ trimmed \in 0 .. Len(stream) /\ outages \in 0 .. MaxOutages
  BY DEF StreamShape, Publish
<1>2. /\ stream' \in Seq({"own", "other"}) /\ Len(stream) \in Nat
      /\ Len(stream') = Len(stream) + 1 /\ stream'[Len(stream) + 1] = node
      /\ \A i \in 1 .. Len(stream) : stream'[i] = stream[i]
  BY <1>1
<1>3. trimmed \in Nat /\ trimmed' \in 0 .. Len(stream')
  BY <1>1, <1>2
<1> QED BY <1>1, <1>2, <1>3 DEF StreamShape, Grown

(* A step that leaves the stream alone.                                    *)
LEMMA StreamSame ==
  ASSUME StreamShape, UNCHANGED <<stream, trimmed, outages>>
  PROVE  StreamShape' /\ Grown
<1>1. /\ stream \in Seq({"own", "other"}) /\ trimmed \in 0 .. Len(stream)
      /\ Len(stream) \in Nat
  BY DEF StreamShape
<1>2. trimmed \in Nat
  BY <1>1
<1> QED BY <1>1, <1>2 DEF StreamShape, Grown

(* Every step.                                                             *)
LEMMA StreamGrows ==
  ASSUME StreamShape, Next
  PROVE  StreamShape' /\ Grown
<1> USE DEF redis, tailVars, emitVars, openVars, bufferVars, readVars, replayVars
<1>1. CASE AppendElsewhere
  BY <1>1, Published DEF AppendElsewhere
<1>2. CASE Trim
  <2>1. /\ stream \in Seq({"own", "other"}) /\ trimmed \in 0 .. Len(stream)
        /\ Len(stream) \in Nat /\ stream' = stream /\ trimmed' = trimmed + 1
        /\ trimmed < Len(stream) /\ outages' = outages /\ outages \in 0 .. MaxOutages
    BY <1>2 DEF Trim, StreamShape
  <2>2. trimmed \in Nat /\ trimmed' \in 0 .. Len(stream)
    BY <2>1
  <2> QED BY <2>1, <2>2 DEF StreamShape, Grown
<1>3. CASE Outage
  <2>1. /\ stream \in Seq({"own", "other"}) /\ trimmed \in 0 .. Len(stream)
        /\ Len(stream) \in Nat /\ stream' = stream /\ trimmed' = trimmed
    BY <1>3 DEF Outage, StreamShape
  <2>2. outages' \in 0 .. MaxOutages
    BY <1>3, DurableAssumption DEF Outage, StreamShape
  <2>3. trimmed \in Nat
    BY <2>1
  <2> QED BY <2>1, <2>2, <2>3 DEF StreamShape, Grown
<1>4. ASSUME NEW e \in Emitters, Emit(e) PROVE StreamShape' /\ Grown
  BY <1>4, Published DEF Emit
<1>5. CASE Pump
  <2>1. UNCHANGED <<stream, trimmed, outages>>
    BY <1>5 DEF Pump, FixPosition, Follow, FanOut, TailLook, TailPut, TailRaises,
         TailNext, Reconnect
  <2> QED BY <2>1, StreamSame
<1>6. CASE CloseTopic \/ StopTail
  BY <1>6, StreamSame DEF CloseTopic, StopTail
<1>7. ASSUME NEW e \in Emitters, Emitter(e), ~Emit(e) PROVE StreamShape' /\ Grown
  <2>1. UNCHANGED <<stream, trimmed, outages>>
    BY <1>7 DEF Emitter, EmitLook, EmitReturns, EmitSkips, EmitPut
  <2> QED BY <2>1, StreamSame
<1>8. ASSUME NEW s \in Subs, Subscribe(s) \/ Close(s) \/ Reader(s)
      PROVE  StreamShape' /\ Grown
  <2>1. UNCHANGED <<stream, trimmed, outages>>
    BY <1>8 DEF Subscribe, Close, Reader, ReplayTake, ReplayAsk, History, ReplayPage, Read
  <2> QED BY <2>1, StreamSame
<1> QED BY <1>1, <1>2, <1>3, <1>4, <1>5, <1>6, <1>7, <1>8 DEF Next

(* Put on a subscription's buffer, and what a full `block` buffer costs    *)
(* the tail: an entry is appended, or lost, or takes the place of another. *)
Lands(s, i) ==
    \/ buffer'[s] = buffer[s] /\ lost'[s] = IF closed[s] THEN lost[s] ELSE lost[s] \cup {i}
    \/ ~closed[s] /\ buffer'[s] = Append(buffer[s], i) /\ lost'[s] = lost[s]
    \/ /\ ~closed[s] /\ buffer[s] # <<>>
       /\ buffer'[s] = Append(Tail(buffer[s]), i)
       /\ lost'[s] = lost[s] \cup {Head(buffer[s])}

(* What a put does to the buffer it is meant for, and that it leaves the   *)
(* others alone.                                                           *)
LEMMA PutLands ==
  ASSUME BufferShape, NEW s \in Subs, NEW i \in Nat,
         \/ Put(s, i)
         \/ ~closed[s] /\ lost' = Set(lost, s, lost[s] \cup {i}) /\ UNCHANGED buffer
  PROVE  /\ BufferShape'
         /\ Lands(s, i)
         /\ \A x \in Subs \ {s} : buffer'[x] = buffer[x] /\ lost'[x] = lost[x]
<1>1. /\ buffer \in [Subs -> Seq(Nat)] /\ lost \in [Subs -> SUBSET Nat]
      /\ \A x \in Subs : Len(buffer[x]) <= MaxSize
      /\ buffer[s] \in Seq(Nat) /\ Len(buffer[s]) \in Nat /\ Len(buffer[s]) <= MaxSize
      /\ MaxSize \in Nat \ {0} /\ lost[s] \in SUBSET Nat
  BY DurableAssumption DEF BufferShape
<1>2. CASE UNCHANGED buffer /\ lost' = Set(lost, s, IF closed[s] THEN lost[s]
                                                  ELSE lost[s] \cup {i})
  <2>1. lost' \in [Subs -> SUBSET Nat]
    BY <1>1, <1>2 DEF Set
  <2>2. BufferShape'
    BY <1>1, <1>2, <2>1 DEF BufferShape
  <2>3. Lands(s, i)
    BY <1>1, <1>2 DEF Lands, Set
  <2> QED BY <1>1, <1>2, <2>2, <2>3 DEF Set
<1>3. CASE ~closed[s] /\ ~Full(s) /\ buffer' = Set(buffer, s, Append(buffer[s], i))
           /\ UNCHANGED lost
  <2>1. /\ Append(buffer[s], i) \in Seq(Nat)
        /\ Len(Append(buffer[s], i)) = Len(buffer[s]) + 1
    BY <1>1, PushedBack
  <2>2. Len(Append(buffer[s], i)) <= MaxSize
    BY <1>1, <1>3, <2>1 DEF Full
  <2>3. BufferShape'
    BY <1>1, <1>3, <2>1, <2>2 DEF BufferShape, Set
  <2> QED BY <1>1, <1>3, <2>3 DEF Lands, Set
<1>4. CASE ~closed[s] /\ Full(s) /\ buffer' = Set(buffer, s, Append(Tail(buffer[s]), i))
           /\ lost' = Set(lost, s, lost[s] \cup {Head(buffer[s])})
  <2>1. buffer[s] # <<>>
    BY <1>1, <1>4 DEF Full
  <2>2. /\ Tail(buffer[s]) \in Seq(Nat) /\ Head(buffer[s]) \in Nat
        /\ Len(Tail(buffer[s])) = Len(buffer[s]) - 1
    BY <1>1, <2>1, TakenOff
  <2>3. /\ Append(Tail(buffer[s]), i) \in Seq(Nat)
        /\ Len(Append(Tail(buffer[s]), i)) = Len(Tail(buffer[s])) + 1
    BY <2>2, PushedBack
  <2>4. Len(Append(Tail(buffer[s]), i)) <= MaxSize
    BY <1>1, <2>2, <2>3
  <2>5. BufferShape'
    <3>1. lost' \in [Subs -> SUBSET Nat]
      BY <1>1, <1>4, <2>2 DEF Set
    <3>2. /\ buffer' \in [Subs -> Seq(Nat)]
          /\ \A x \in Subs : Len(buffer'[x]) <= MaxSize
      BY <1>1, <1>4, <2>3, <2>4 DEF Set
    <3> QED BY <3>1, <3>2 DEF BufferShape
  <2> QED BY <1>1, <1>4, <2>1, <2>5 DEF Lands, Set
<1>5. CASE Put(s, i)
  <2>1. CASE closed[s]
    <3>1. buffer' = buffer /\ lost' = lost
      BY <1>5, <2>1 DEF Put
    <3>2. Set(lost, s, lost[s]) = lost
      BY <1>1 DEF Set
    <3> QED BY <1>2, <2>1, <3>1, <3>2
  <2>2. CASE ~closed[s] /\ ~Full(s)
    BY <1>3, <1>5, <2>2 DEF Put
  <2>3. CASE ~closed[s] /\ Full(s) /\ policy[s] = "drop_newest"
    BY <1>2, <1>5, <2>3 DEF Put
  <2>4. CASE ~closed[s] /\ Full(s) /\ policy[s] = "drop_oldest"
    BY <1>4, <1>5, <2>4 DEF Put
  <2> QED BY <1>5, <2>1, <2>2, <2>3, <2>4 DEF Put
<1> QED BY <1>2, <1>5

(* The parts of the invariant that a step leaves alone.                    *)
Untouched(x) ==
    /\ mode'[x] = mode[x] /\ after'[x] = after[x] /\ backlog'[x] = backlog[x]
    /\ replaying'[x] = replaying[x] /\ asked'[x] = asked[x] /\ page'[x] = page[x]
    /\ closed[x] => closed'[x]
    /\ mode[x] = None =>
          buffer'[x] = buffer[x] /\ got'[x] = got[x] /\ closed'[x] = closed[x]

(* A reader whose replay a step leaves alone stays where it is in it.      *)
LEMMA ReplayKept ==
  ASSUME Grown, ReadShape, OpenShape, OpenShape', NEW x \in Subs, Replay(x), Untouched(x),
         ~closed'[x] /\ position # None => position' # None
  PROVE  Replay(x)'
<1>1. /\ backlog[x] # <<>> => Piece(backlog[x], after[x], Len(stream'), trimmed')
      /\ page[x] # None => Piece(page[x], after[x], Len(stream'), trimmed')
  <2>1. CASE backlog[x] # <<>>
    BY <2>1, PieceStays DEF Grown, Replay
  <2>2. CASE page[x] # None
    BY <2>2, PieceStays DEF Grown, Replay
  <2> QED BY <2>1, <2>2
<1>2. mode[x] = None => Unopened(x)'
  BY DEF Replay, Unopened, Untouched
<1>3. asked[x] = TRUE /\ ~closed'[x] => position' # None
  BY DEF Replay, Untouched, OpenShape
<1> QED BY <1>1, <1>2, <1>3 DEF Replay, Untouched

(* A tail that a step leaves alone stays where it is, whatever is appended *)
(* or trimmed.                                                             *)
LEMMA TailKept ==
  ASSUME Grown, TailShape, TailPlace,
         UNCHANGED <<tail, position, live, batch, todo, looked>>
  PROVE  TailShape' /\ TailPlace'
<1>1. TailShape'
  BY DEF TailShape
<1>2. position # None => Piece(batch, position, Len(stream'), trimmed')
  BY PieceStays DEF Grown, TailPlace
<1>3. position # None => position <= Len(stream')
  BY DurableAssumption DEF Grown, TailPlace, TailShape, Place
<1> QED BY <1>1, <1>2, <1>3 DEF TailPlace

(* A step that opens and closes nothing.                                   *)
LEMMA SubsKept ==
  ASSUME SubsListed, OpenShape, UNCHANGED <<subs, mode, policy, from, closed>>
  PROVE  SubsListed' /\ OpenShape'
BY DEF SubsListed, OpenShape

(* A snapshot stays one: what was opened stays opened.                     *)
LEMMA OpenedKept ==
  ASSUME NEW q, Opened(q), \A x \in Subs : mode[x] # None => mode'[x] # None
  PROVE  Distinct(q) /\ \A x \in Subs : x \in ToSet(q) => mode'[x] # None
BY DEF Opened

(* A step that leaves the snapshots alone, and opens no subscription       *)
(* twice.                                                                  *)
LEMMA TodosKept ==
  ASSUME UNCHANGED <<todo, emitTodo, emitting>>, TodoListed, EmitListed, EmitShape,
         \A x \in Subs : mode[x] # None => mode'[x] # None
  PROVE  TodoListed' /\ EmitListed' /\ EmitShape'
<1>1. TodoListed'
  BY DEF TodoListed, Opened
<1>2. EmitListed'
  BY DEF EmitListed, Opened
<1> QED BY <1>1, <1>2 DEF EmitShape

(* A step of the tail that gives nothing to anybody.                       *)
LEMMA TailOnly ==
  ASSUME ShapeInv, StreamShape', Grown, TailShape', TailPlace', TodoListed',
         UNCHANGED <<emitting, emitTodo, subs, mode, policy, from, closed, buffer, lost,
                     after, got, backlog, replaying, asked, page>>,
         position # None => position' # None
  PROVE  ShapeInv'
<1>1. SubsListed' /\ OpenShape'
  BY SubsKept DEF ShapeInv
<1>2. EmitListed' /\ EmitShape'
  BY DEF ShapeInv, EmitListed, EmitShape, Opened
<1>3. BufferShape' /\ ReadShape'
  BY DEF ShapeInv, BufferShape, ReadShape
<1>4. ASSUME NEW x \in Subs PROVE Replay(x)'
  <2>1. Untouched(x) /\ Replay(x)
    BY DEF Untouched, ShapeInv
  <2> QED BY <1>1, <2>1, ReplayKept DEF ShapeInv
<1> QED BY <1>1, <1>2, <1>3, <1>4 DEF ShapeInv

(* The stream grows or is trimmed.                                         *)
LEMMA RedisShape ==
  ASSUME ShapeInv, AppendElsewhere \/ Trim
  PROVE  ShapeInv'
<1> USE DEF tailVars, emitVars, openVars, bufferVars, readVars, replayVars
<1>1. StreamShape' /\ Grown
  BY StreamGrows DEF ShapeInv, Next
<1>2. UNCHANGED <<tail, position, live, batch, todo, looked>>
  BY DEF AppendElsewhere, Trim
<1>3. UNCHANGED <<emitting, emitTodo, subs, mode, policy, from, closed, buffer, lost,
                  after, got, backlog, replaying, asked, page>>
  BY DEF AppendElsewhere, Trim
<1>4. TailShape' /\ TailPlace'
  BY <1>1, <1>2, TailKept DEF ShapeInv
<1>5. TodoListed'
  BY <1>2, <1>3, TodosKept DEF ShapeInv
<1> QED BY <1>1, <1>2, <1>3, <1>4, <1>5, TailOnly

(* Nothing of the stream is a piece of it.                                 *)
LEMMA EmptyPiece == \A p, last, gone : Piece(<<>>, p, last, gone)
BY DEF Piece

(* The tail on its way, with nothing to hand out.                          *)
LEMMA TravelShape ==
  ASSUME ShapeInv, Outage \/ FixPosition \/ Reconnect \/ StopTail
  PROVE  ShapeInv'
<1> USE DEF redis, emitVars, openVars, bufferVars, readVars, replayVars
<1>1. StreamShape' /\ Grown
  BY StreamGrows DEF ShapeInv, Next, Pump
<1>2. UNCHANGED <<emitting, emitTodo, subs, mode, policy, from, closed, buffer, lost,
                  after, got, backlog, replaying, asked, page>>
  BY DEF Outage, FixPosition, Reconnect, StopTail
<1>3. /\ UNCHANGED <<stream, trimmed, batch, todo, looked>>
      /\ tail \notin {"read", "handing"}
  BY DEF Outage, FixPosition, Reconnect, StopTail
<1>4. batch = <<>> /\ todo = <<>> /\ ~looked
  BY <1>3 DEF ShapeInv, TailPlace
<1>5. TodoListed'
  BY <1>2, <1>3, TodosKept DEF ShapeInv
<1>6. Piece(batch', position', Len(stream'), trimmed')
  BY <1>3, <1>4, EmptyPiece
<1>7. Len(stream) \in Nat
  BY <1>1 DEF Grown
<1>8. CASE Outage
  <2>1. /\ UNCHANGED <<position, live>> /\ tail \in {"fixing", "reading"}
        /\ tail' = "broken"
    BY <1>8 DEF Outage
  <2>2. TailShape'
    BY <1>3, <2>1 DEF ShapeInv, TailShape
  <2>3. TailPlace'
    BY <1>3, <1>4, <1>6, <2>1 DEF ShapeInv, TailPlace
  <2> QED BY <1>1, <1>2, <1>5, <2>1, <2>2, <2>3, TailOnly
<1>9. CASE FixPosition
  <2>1. position' \in 0 .. Len(stream) /\ live' = TRUE /\ tail' = "reading"
    BY <1>7, <1>9 DEF FixPosition
  <2>2. position' \in Nat /\ position' # None /\ position' <= Len(stream')
    BY <1>3, <1>7, <2>1, DurableAssumption
  <2>3. TailShape'
    BY <1>3, <2>1, <2>2 DEF ShapeInv, TailShape, Place
  <2>4. TailPlace'
    BY <1>3, <1>4, <1>6, <2>1, <2>2 DEF ShapeInv, TailPlace
  <2> QED BY <1>1, <1>2, <1>5, <2>2, <2>3, <2>4, TailOnly
<1>10. CASE Reconnect
  <2>1. /\ UNCHANGED <<position, live>>
        /\ tail' = IF position = None THEN "fixing" ELSE "reading"
    BY <1>10 DEF Reconnect
  <2>2. TailShape'
    BY <1>3, <2>1 DEF ShapeInv, TailShape
  <2>3. TailPlace'
    BY <1>3, <1>4, <1>6, <2>1 DEF ShapeInv, TailPlace
  <2> QED BY <1>1, <1>2, <1>5, <2>1, <2>2, <2>3, TailOnly
<1>11. CASE StopTail
  <2>1. UNCHANGED position /\ live' = FALSE /\ tail' = "stopped"
    BY <1>11 DEF StopTail
  <2>2. TailShape'
    BY <1>3, <2>1 DEF ShapeInv, TailShape
  <2>3. TailPlace'
    BY <1>3, <1>4, <1>6, <2>1 DEF ShapeInv, TailPlace
  <2> QED BY <1>1, <1>2, <1>5, <2>1, <2>2, <2>3, TailOnly
<1> QED BY <1>8, <1>9, <1>10, <1>11

(* What the tail has in its hands while it hands out a batch.              *)
LEMMA InHand ==
  ASSUME ShapeInv, batch # <<>>
  PROVE  /\ position \in Nat /\ position # None /\ position < batch[1]
         /\ batch[1] \in 1 .. Len(stream) /\ Head(batch) = batch[1]
         /\ batch[1] = position + 1 \/ batch[1] <= trimmed + 1
         /\ Tail(batch) \in Seq(Nat)
         /\ Piece(Tail(batch), batch[1], Len(stream), trimmed)
         /\ Tail(batch) # <<>> => Tail(batch)[1] = batch[1] + 1
<1>1. /\ position \in Nat /\ position # None /\ Len(stream) \in Nat /\ trimmed \in Nat
      /\ Piece(batch, position, Len(stream), trimmed)
  <2>1. tail \in {"read", "handing"}
    BY DEF ShapeInv, TailPlace
  <2>2. position # None /\ position \in Place
    BY <2>1 DEF ShapeInv, TailPlace, TailShape
  <2>3. Piece(batch, position, Len(stream), trimmed)
    BY <2>2 DEF ShapeInv, TailPlace
  <2>4. Len(stream) \in Nat /\ trimmed \in Nat
    BY DEF ShapeInv, StreamShape
  <2> QED BY <2>2, <2>3, <2>4 DEF Place
<1>2. /\ batch[1] \in Nat /\ batch[1] <= Len(stream) /\ Head(batch) = batch[1]
      /\ Piece(Tail(batch), batch[1], Len(stream), trimmed)
      /\ Tail(batch) # <<>> => Tail(batch)[1] = batch[1] + 1
  BY <1>1, RestPiece
<1>3. position < batch[1] /\ (batch[1] = position + 1 \/ batch[1] <= trimmed + 1)
  BY <1>1 DEF Piece
<1>4. Tail(batch) \in Seq(Nat)
  BY <1>2 DEF Piece
<1>5. batch[1] \in 1 .. Len(stream)
  BY <1>1, <1>2, <1>3
<1> QED BY <1>1, <1>2, <1>3, <1>4, <1>5

(* The rest of a snapshot, and who is next in it.                          *)
LEMMA NextListed ==
  ASSUME NEW q \in Seq(Subs), Opened(q), q # <<>>
  PROVE  /\ Head(q) \in Subs /\ Head(q) = q[1] /\ mode[Head(q)] # None
         /\ Tail(q) \in Seq(Subs) /\ Opened(Tail(q))
         /\ ToSet(q) = ToSet(Tail(q)) \cup {Head(q)} /\ Head(q) \notin ToSet(Tail(q))
<1>1. /\ Head(q) \in Subs /\ Head(q) \in ToSet(q) /\ Tail(q) \in Seq(Subs)
      /\ ToSet(q) = ToSet(Tail(q)) \cup {Head(q)}
      /\ Distinct(Tail(q)) /\ Head(q) \notin ToSet(Tail(q))
  BY TakenOff DEF Opened
<1>2. Head(q) = q[1]
  OBVIOUS
<1> QED BY <1>1, <1>2 DEF Opened

(* The tail with a batch in its hands, up to the put.                      *)
LEMMA BatchShape ==
  ASSUME ShapeInv, Follow \/ FanOut \/ TailLook \/ TailRaises \/ TailNext
  PROVE  ShapeInv'
<1> USE DEF redis, emitVars, openVars, bufferVars, readVars, replayVars
<1>1. StreamShape' /\ Grown
  BY StreamGrows DEF ShapeInv, Next, Pump
<1>2. /\ UNCHANGED <<emitting, emitTodo, subs, mode, policy, from, closed, buffer, lost,
                     after, got, backlog, replaying, asked, page>>
      /\ UNCHANGED <<stream, trimmed, live>>
  BY DEF Follow, FanOut, TailLook, TailRaises, TailNext
<1>3. /\ batch \in Seq(Nat) /\ todo \in Seq(Subs) /\ position \in Place /\ live \in BOOLEAN
      /\ looked \in BOOLEAN
  BY DEF ShapeInv, TailShape
<1>4. CASE Follow
  <2>1. /\ tail = "reading" /\ tail' = "read" /\ batch' = After(position, Batch)
        /\ batch' # <<>> /\ UNCHANGED <<position, todo, looked>>
    BY <1>4 DEF Follow
  <2>2. position \in Nat /\ position # None
    BY <1>3, <2>1 DEF ShapeInv, TailPlace, Place
  <2>3. Piece(batch', position, Len(stream), trimmed)
    BY <2>1, <2>2, AnswerPiece, DurableAssumption DEF ShapeInv, StreamShape
  <2>4. TailShape'
    BY <1>2, <1>3, <2>1, <2>3 DEF TailShape, Piece
  <2>5. TailPlace'
    BY <1>2, <2>1, <2>2, <2>3 DEF ShapeInv, TailPlace
  <2>6. TodoListed'
    BY <1>2, <2>1, TodosKept DEF ShapeInv
  <2> QED BY <1>1, <1>2, <2>1, <2>4, <2>5, <2>6, TailOnly
<1>5. CASE FanOut
  <2>1. /\ tail = "read" /\ tail' = "handing" /\ todo' = subs
        /\ UNCHANGED <<position, batch, looked>>
    BY <1>5 DEF FanOut
  <2>2. TailShape'
    BY <1>2, <1>3, <2>1 DEF ShapeInv, TailShape, OpenShape
  <2>3. TailPlace'
    BY <1>2, <2>1 DEF ShapeInv, TailPlace
  <2>4. TodoListed'
    BY <1>2, <2>1 DEF ShapeInv, SubsListed, TodoListed, Opened
  <2> QED BY <1>1, <1>2, <2>1, <2>2, <2>3, <2>4, TailOnly
<1>6. CASE TailLook
  <2>1. /\ tail = "handing" /\ todo # <<>> /\ ~looked /\ UNCHANGED <<tail, position, batch>>
        /\ \/ todo' = Tail(todo) /\ looked' = looked
           \/ todo' = todo /\ looked' = TRUE
    BY <1>6 DEF TailLook
  <2>2. Tail(todo) \in Seq(Subs) /\ Opened(Tail(todo)) /\ Opened(todo)
    BY <1>3, <2>1, NextListed DEF ShapeInv, TodoListed
  <2>3. TailShape'
    BY <1>2, <1>3, <2>1, <2>2 DEF ShapeInv, TailShape
  <2>4. TailPlace'
    BY <1>2, <2>1 DEF ShapeInv, TailPlace
  <2>5. TodoListed'
    BY <1>2, <2>1, <2>2 DEF TodoListed, Opened
  <2> QED BY <1>1, <1>2, <2>1, <2>3, <2>4, <2>5, TailOnly
<1>7. CASE TailRaises
  <2>1. /\ tail = "handing" /\ tail' = "broken" /\ batch' = <<>> /\ todo' = <<>>
        /\ looked' = FALSE /\ UNCHANGED position
    BY <1>7 DEF TailRaises
  <2>2. TailShape'
    <3>1. <<>> \in Seq(Nat)
      OBVIOUS
    <3>2. <<>> \in Seq(Subs)
      OBVIOUS
    <3>3. batch' \in Seq(Nat) /\ todo' \in Seq(Subs) /\ looked' \in BOOLEAN
      BY <2>1, <3>1, <3>2
    <3> QED BY <1>2, <1>3, <2>1, <3>3 DEF TailShape
  <2>3. TailPlace'
    BY <1>2, <2>1, EmptyPiece DEF ShapeInv, TailPlace
  <2>4. TodoListed'
    BY <2>1 DEF TodoListed, Opened, Distinct, ToSet
  <2> QED BY <1>1, <1>2, <2>1, <2>2, <2>3, <2>4, TailOnly
<1>8. CASE TailNext
  <2>1. /\ tail = "handing" /\ position' = Head(batch) /\ batch' = Tail(batch)
        /\ tail' = IF Tail(batch) = <<>> THEN "reading" ELSE "read"
        /\ UNCHANGED <<todo, looked>> /\ todo = <<>>
    BY <1>8 DEF TailNext
  <2>2. batch # <<>>
    BY <2>1 DEF ShapeInv, TailPlace
  <2>3. /\ Head(batch) = batch[1] /\ batch[1] \in 1 .. Len(stream)
        /\ Tail(batch) \in Seq(Nat)
        /\ Piece(Tail(batch), batch[1], Len(stream), trimmed)
    BY <2>2, InHand
  <2>4. position' \in Nat /\ position' # None /\ position' <= Len(stream')
    BY <1>2, <2>1, <2>3, DurableAssumption
  <2>5. TailShape'
    BY <1>2, <1>3, <2>1, <2>3, <2>4 DEF ShapeInv, TailShape, Place
  <2>6. TailPlace'
    <3>1. Piece(batch', position', Len(stream'), trimmed')
      BY <1>2, <2>1, <2>3
    <3>2. ~looked'
      BY <2>1 DEF ShapeInv, TailPlace
    <3> QED BY <2>1, <2>4, <3>1, <3>2 DEF TailPlace
  <2>7. TodoListed'
    BY <1>2, <2>1, TodosKept DEF ShapeInv
  <2> QED BY <1>1, <1>2, <2>4, <2>5, <2>6, <2>7, TailOnly
<1> QED BY <1>4, <1>5, <1>6, <1>7, <1>8

(* The tail puts an entry.                                                 *)
LEMMA TailPutShape ==
  ASSUME ShapeInv, TailPut
  PROVE  /\ ShapeInv'
         /\ \E s \in Subs : /\ s = Head(todo) /\ mode[s] # None
                            /\ Lands(s, batch[1])
                            /\ \A x \in Subs \ {s} : buffer'[x] = buffer[x] /\ lost'[x] = lost[x]
<1> USE DEF redis, emitVars, openVars, readVars, replayVars
<1>1. StreamShape' /\ Grown
  BY StreamGrows DEF ShapeInv, Next, Pump
<1>2. /\ UNCHANGED <<emitting, emitTodo, subs, mode, policy, from, closed,
                     after, got, backlog, replaying, asked, page>>
      /\ UNCHANGED <<stream, trimmed, live, tail, position, batch>>
  BY DEF TailPut
<1>3. tail = "handing" /\ looked /\ looked' = FALSE /\ todo' = Tail(todo)
  BY DEF TailPut
<1>4. todo # <<>> /\ todo \in Seq(Subs) /\ Opened(todo) /\ batch # <<>>
  BY <1>3 DEF ShapeInv, TailPlace, TailShape, TodoListed
<1> DEFINE s == Head(todo)
<1>5. s \in Subs /\ mode[s] # None /\ Tail(todo) \in Seq(Subs) /\ Opened(Tail(todo))
  BY <1>4, NextListed
<1>6. Head(batch) = batch[1] /\ batch[1] \in Nat
  BY <1>4, InHand
<1>7. \/ Put(s, batch[1])
      \/ ~closed[s] /\ lost' = Set(lost, s, lost[s] \cup {batch[1]}) /\ UNCHANGED buffer
  BY <1>6 DEF TailPut
<1> HIDE DEF s
<1>8. /\ BufferShape' /\ Lands(s, batch[1])
      /\ \A x \in Subs \ {s} : buffer'[x] = buffer[x] /\ lost'[x] = lost[x]
  BY <1>5, <1>6, <1>7, PutLands DEF ShapeInv
<1>9. TailShape'
  BY <1>2, <1>3, <1>5 DEF ShapeInv, TailShape
<1>10. TailPlace'
  BY <1>2, <1>3 DEF ShapeInv, TailPlace
<1>11. TodoListed' /\ EmitListed' /\ EmitShape'
  <2>1. TodoListed'
    BY <1>2, <1>3, <1>5 DEF TodoListed, Opened
  <2> QED BY <1>2, <2>1 DEF ShapeInv, EmitListed, EmitShape, Opened
<1>12. SubsListed' /\ OpenShape'
  BY <1>2, SubsKept DEF ShapeInv
<1>13. ReadShape'
  BY <1>2 DEF ShapeInv, ReadShape
<1>14. ASSUME NEW x \in Subs PROVE Replay(x)'
  <2>1. Untouched(x) /\ Replay(x)
    BY <1>2, <1>5, <1>8 DEF Untouched, ShapeInv
  <2> QED BY <1>1, <1>2, <1>12, <2>1, ReplayKept DEF ShapeInv
<1>15. ShapeInv'
  BY <1>1, <1>8, <1>9, <1>10, <1>11, <1>12, <1>13, <1>14 DEF ShapeInv
<1> QED BY <1>5, <1>8, <1>15 DEF s

(* Topic.close.                                                            *)
LEMMA CloseTopicShape ==
  ASSUME ShapeInv, CloseTopic
  PROVE  ShapeInv'
<1> USE DEF redis, emitVars, bufferVars, readVars, replayVars
<1>1. StreamShape' /\ Grown
  BY StreamGrows DEF ShapeInv, Next
<1>2. /\ UNCHANGED <<emitting, emitTodo, mode, policy, from, buffer, lost,
                     after, got, backlog, replaying, asked, page>>
      /\ UNCHANGED <<stream, trimmed, batch, todo, looked>>
      /\ tail \in {"fixing", "reading", "broken"} /\ tail' = "off" /\ position' = None
      /\ live' = FALSE /\ subs' = <<>>
      /\ closed' = [s \in Subs |-> closed[s] \/ mode[s] # None]
  BY DEF CloseTopic
<1>3. TailShape'
  BY <1>2 DEF ShapeInv, TailShape, Place
<1>4. TailPlace'
  BY <1>2 DEF ShapeInv, TailPlace
<1>5. TodoListed' /\ EmitListed' /\ EmitShape'
  BY <1>2, TodosKept DEF ShapeInv
<1>6. BufferShape' /\ ReadShape'
  BY <1>2 DEF ShapeInv, BufferShape, ReadShape
<1>7. /\ closed' \in [Subs -> BOOLEAN]
      /\ \A x \in Subs : closed'[x] = (closed[x] \/ mode[x] # None)
  BY <1>2 DEF ShapeInv, OpenShape
<1>8. OpenShape'
  BY <1>2, <1>7 DEF ShapeInv, OpenShape
<1>9. SubsListed'
  <2>1. Distinct(<<>>) /\ ToSet(<<>>) = {}
    BY DEF Distinct, ToSet
  <2> QED BY <1>2, <1>7, <2>1 DEF SubsListed
<1>10. ASSUME NEW x \in Subs PROVE Replay(x)'
  <2>1. Replay(x) /\ closed[x] \in BOOLEAN
    BY DEF ShapeInv, OpenShape
  <2>2. mode[x] = None => ~closed[x] /\ asked[x] = None
    BY <2>1 DEF Replay, Unopened
  <2>3. Untouched(x)
    BY <1>2, <1>7, <2>1, <2>2 DEF Untouched
  <2>4. CASE mode[x] # None
    BY <1>1, <1>7, <1>8, <2>1, <2>3, <2>4, ReplayKept DEF ShapeInv
  <2>5. CASE mode[x] = None
    <3>1. Unopened(x)'
      BY <2>1, <2>3, <2>5 DEF Replay, Unopened, Untouched
    <3> QED BY <2>1, <2>3, <2>5, <3>1, DurableAssumption DEF Replay, Unopened, Untouched
  <2> QED BY <2>4, <2>5
<1> QED BY <1>1, <1>3, <1>4, <1>5, <1>6, <1>8, <1>9, <1>10 DEF ShapeInv

(* A step of an emitter, a subscriber or a reader leaves the tail alone.   *)
LEMMA TailRests ==
  ASSUME ShapeInv, Next, UNCHANGED <<tail, position, live, batch, todo, looked>>
  PROVE  StreamShape' /\ Grown /\ TailShape' /\ TailPlace'
<1>1. StreamShape' /\ Grown
  BY StreamGrows DEF ShapeInv
<1> QED BY <1>1, TailKept DEF ShapeInv

(* What an emitter writes to its own place.                                *)
LEMMA EmitSet ==
  ASSUME EmitShape, EmitListed, NEW e \in Emitters, UNCHANGED mode,
         emitting' \in [Emitters -> Place], NEW q \in Seq(Subs) \cup {None},
         q # None => Opened(q), emitTodo' = Set(emitTodo, e, q)
  PROVE  EmitShape' /\ EmitListed'
<1>1. /\ emitTodo' \in [Emitters -> Seq(Subs) \cup {None}]
      /\ emitTodo'[e] = q /\ \A f \in Emitters \ {e} : emitTodo'[f] = emitTodo[f]
  BY DEF EmitShape, Set
<1>2. EmitShape'
  BY <1>1 DEF EmitShape
<1>3. ASSUME NEW f \in Emitters, emitTodo'[f] # None PROVE Opened(emitTodo[f])'
  <2>1. Opened(emitTodo'[f])
    BY <1>1, <1>3 DEF EmitListed
  <2> QED BY <2>1 DEF Opened
<1> QED BY <1>2, <1>3 DEF EmitListed

(* An emitter that puts nothing.                                           *)
LEMMA EmitterShape ==
  ASSUME ShapeInv, NEW e \in Emitters,
         Emit(e) \/ EmitLook(e) \/ EmitReturns(e) \/ \E s \in Subs : EmitSkips(e, s)
  PROVE  ShapeInv'
<1> USE DEF redis, tailVars, openVars, bufferVars, readVars, replayVars
<1>1. Next
  BY DEF Next, Emitter
<1>2. /\ UNCHANGED <<tail, position, live, batch, todo, looked>>
      /\ UNCHANGED <<subs, mode, policy, from, closed, buffer, lost, after, got, backlog,
                     replaying, asked, page>>
  BY DEF Emit, EmitLook, EmitReturns, EmitSkips
<1>3. StreamShape' /\ Grown /\ TailShape' /\ TailPlace'
  BY <1>1, <1>2, TailRests
<1>4. /\ emitting \in [Emitters -> Place] /\ emitTodo \in [Emitters -> Seq(Subs) \cup {None}]
      /\ Len(stream) + 1 \in Place /\ None \in Place
  BY <1>3 DEF ShapeInv, EmitShape, Place, Grown
<1>5. EmitShape' /\ EmitListed'
  <2>1. CASE Emit(e)
    <3>1. emitting' = Set(emitting, e, Len(stream) + 1) /\ emitTodo' = Set(emitTodo, e, None)
      BY <2>1 DEF Emit
    <3>2. emitting' \in [Emitters -> Place]
      BY <1>4, <3>1 DEF Set
    <3> QED BY <1>2, <3>1, <3>2, EmitSet DEF ShapeInv
  <2>2. CASE EmitLook(e)
    <3>1. emitting' = emitting /\ emitTodo' = Set(emitTodo, e, subs)
      BY <2>2 DEF EmitLook
    <3>2. subs \in Seq(Subs) /\ Opened(subs)
      BY DEF ShapeInv, OpenShape, SubsListed, Opened
    <3> QED BY <1>2, <1>4, <3>1, <3>2, EmitSet DEF ShapeInv
  <2>3. CASE EmitReturns(e)
    <3>1. emitting' = Set(emitting, e, None) /\ emitTodo' = Set(emitTodo, e, <<>>)
      BY <2>3 DEF EmitReturns
    <3>2. emitting' \in [Emitters -> Place]
      BY <1>4, <3>1 DEF Set
    <3>3. <<>> \in Seq(Subs)
      OBVIOUS
    <3>4. Opened(<<>>)
      BY DEF Opened, Distinct, ToSet
    <3> QED BY <1>2, <3>1, <3>2, <3>3, <3>4, EmitSet DEF ShapeInv
  <2>4. ASSUME NEW s \in Subs, EmitSkips(e, s) PROVE EmitShape' /\ EmitListed'
    <3>1. /\ emitting' = emitting /\ emitTodo' = Set(emitTodo, e, Tail(emitTodo[e]))
          /\ emitTodo[e] # None /\ emitTodo[e] # <<>>
      BY <2>4 DEF EmitSkips, Emits
    <3>2. emitTodo[e] \in Seq(Subs) /\ Opened(emitTodo[e])
      BY <1>4, <3>1 DEF ShapeInv, EmitListed
    <3>3. Tail(emitTodo[e]) \in Seq(Subs) /\ Opened(Tail(emitTodo[e]))
      BY <3>1, <3>2, NextListed
    <3> QED BY <1>2, <1>4, <3>1, <3>3, EmitSet DEF ShapeInv
  <2> QED BY <2>1, <2>2, <2>3, <2>4
<1>6. SubsListed' /\ OpenShape'
  BY <1>2, SubsKept DEF ShapeInv
<1>7. TodoListed'
  BY <1>2 DEF ShapeInv, TodoListed, Opened
<1>8. BufferShape' /\ ReadShape'
  BY <1>2 DEF ShapeInv, BufferShape, ReadShape
<1>9. ASSUME NEW x \in Subs PROVE Replay(x)'
  <2>1. Untouched(x) /\ Replay(x)
    BY <1>2 DEF Untouched, ShapeInv
  <2> QED BY <1>2, <1>3, <1>6, <2>1, ReplayKept DEF ShapeInv
<1> QED BY <1>3, <1>5, <1>6, <1>7, <1>8, <1>9 DEF ShapeInv

(* An emitter gives a plain subscription its message.                      *)
LEMMA EmitPutShape ==
  ASSUME ShapeInv, NEW e \in Emitters, NEW s \in Subs, EmitPut(e, s)
  PROVE  /\ ShapeInv' /\ mode[s] = "plain"
         /\ emitting[e] \in Nat /\ Lands(s, emitting[e])
         /\ \A x \in Subs \ {s} : buffer'[x] = buffer[x] /\ lost'[x] = lost[x]
<1> USE DEF redis, tailVars, openVars, readVars, replayVars
<1>1. Next
  BY DEF Next, Emitter
<1>2. /\ UNCHANGED <<tail, position, live, batch, todo, looked>>
      /\ UNCHANGED <<subs, mode, policy, from, closed, after, got, backlog, replaying,
                     asked, page, emitting>>
      /\ Emits(e, s) /\ ~Ids(s) /\ Put(s, emitting[e])
      /\ emitTodo' = Set(emitTodo, e, Tail(emitTodo[e]))
  BY DEF EmitPut
<1>3. StreamShape' /\ Grown /\ TailShape' /\ TailPlace'
  BY <1>1, <1>2, TailRests
<1>4. /\ emitting \in [Emitters -> Place] /\ emitTodo[e] \in Seq(Subs) /\ emitTodo[e] # <<>>
      /\ emitTodo[e] # None /\ s = Head(emitTodo[e]) /\ emitting[e] # None
  BY <1>2 DEF ShapeInv, EmitShape, Emits
<1>5. emitting[e] \in Nat
  BY <1>4 DEF Place
<1>6. Opened(emitTodo[e])
  BY <1>4 DEF ShapeInv, EmitListed
<1>7. Tail(emitTodo[e]) \in Seq(Subs) /\ Opened(Tail(emitTodo[e])) /\ mode[s] # None
  BY <1>4, <1>6, NextListed
<1>8. mode[s] = "plain"
  BY <1>2, <1>7 DEF Ids, ShapeInv, OpenShape
<1>9. EmitShape' /\ EmitListed'
  BY <1>2, <1>4, <1>7, EmitSet DEF ShapeInv
<1>10. /\ BufferShape' /\ Lands(s, emitting[e])
       /\ \A x \in Subs \ {s} : buffer'[x] = buffer[x] /\ lost'[x] = lost[x]
  BY <1>2, <1>5, PutLands DEF ShapeInv
<1>11. SubsListed' /\ OpenShape'
  BY <1>2, SubsKept DEF ShapeInv
<1>12. TodoListed'
  BY <1>2 DEF ShapeInv, TodoListed, Opened
<1>13. ReadShape'
  BY <1>2 DEF ShapeInv, ReadShape
<1>14. ASSUME NEW x \in Subs PROVE Replay(x)'
  <2>1. Untouched(x) /\ Replay(x)
    BY <1>2, <1>7, <1>10 DEF Untouched, ShapeInv
  <2> QED BY <1>2, <1>3, <1>11, <2>1, ReplayKept DEF ShapeInv
<1>15. ShapeInv'
  BY <1>3, <1>9, <1>10, <1>11, <1>12, <1>13, <1>14 DEF ShapeInv
<1> QED BY <1>5, <1>8, <1>10, <1>15

(* subscribe.                                                              *)
LEMMA SubscribeShape ==
  ASSUME ShapeInv, NEW s \in Subs, Subscribe(s)
  PROVE  /\ ShapeInv'
         /\ Unopened(s) /\ mode[s] = None /\ mode'[s] \in {"plain", "new", "since"}
         /\ \A x \in Subs \ {s} :
               /\ mode'[x] = mode[x] /\ after'[x] = after[x] /\ from'[x] = from[x]
               /\ replaying'[x] = replaying[x]
         /\ mode'[s] = "since" => replaying'[s] /\ after'[s] = from'[s]
<1> USE DEF redis, emitVars, bufferVars
<1>1. Next
  BY DEF Next
<1>2. /\ UNCHANGED <<stream, trimmed, position, live, batch, todo, looked, outages>>
      /\ UNCHANGED <<emitting, emitTodo, closed, buffer, lost, backlog, asked, page, got>>
      /\ mode[s] = None /\ subs' = Append(subs, s) /\ tail # "stopped"
      /\ tail' = IF tail = "off" THEN "fixing" ELSE tail
  BY DEF Subscribe
<1>3. PICK m \in Modes[s], p \in 0 .. Len(stream) :
        /\ mode' = Set(mode, s, m)
        /\ from' = Set(from, s, p)
        /\ after' = Set(after, s, IF m = "since" THEN p ELSE None)
        /\ replaying' = Set(replaying, s, m = "since")
  BY DEF Subscribe
<1>4. PICK l \in Policies[s] : policy' = Set(policy, s, l)
  BY DEF Subscribe
<1>5. /\ m \in {"plain", "new", "since"} /\ m # None
      /\ l \in {"drop_oldest", "drop_newest", "block", "error"}
  BY DurableAssumption
<1>6. StreamShape' /\ Grown
  BY <1>1, StreamGrows DEF ShapeInv
<1>7. p \in Nat /\ p # None
  BY <1>6, DurableAssumption DEF Grown
<1>8. Replay(s) /\ Unopened(s)
  BY <1>2 DEF ShapeInv, Replay
<1>9. /\ subs \in Seq(Subs) /\ Distinct(subs) /\ s \notin ToSet(subs)
  BY <1>2 DEF ShapeInv, OpenShape, SubsListed
<1>10. /\ subs' \in Seq(Subs) /\ ToSet(subs') = ToSet(subs) \cup {s} /\ Distinct(subs')
  BY <1>2, <1>9, PushedBack
<1>11. /\ mode' \in [Subs -> {None, "plain", "new", "since"}] /\ mode'[s] = m
       /\ from' \in [Subs -> Nat] /\ from'[s] = p
       /\ \A x \in Subs \ {s} : mode'[x] = mode[x] /\ from'[x] = from[x]
  BY <1>3, <1>5, <1>7 DEF ShapeInv, OpenShape, Set
<1>12. policy' \in [Subs -> {None, "drop_oldest", "drop_newest", "block", "error"}]
  BY <1>4, <1>5 DEF ShapeInv, OpenShape, Set
<1>13. /\ after' \in [Subs -> Place] /\ after'[s] = IF m = "since" THEN p ELSE None
       /\ \A x \in Subs \ {s} : after'[x] = after[x]
  BY <1>3, <1>7 DEF ShapeInv, ReadShape, Set, Place
<1>14. /\ replaying' \in [Subs -> BOOLEAN] /\ replaying'[s] = (m = "since")
       /\ \A x \in Subs \ {s} : replaying'[x] = replaying[x]
  BY <1>3 DEF ShapeInv, ReadShape, Set
<1>15. OpenShape'
  BY <1>2, <1>10, <1>11, <1>12 DEF ShapeInv, OpenShape
<1>16. ReadShape' /\ BufferShape'
  BY <1>2, <1>13, <1>14 DEF ShapeInv, ReadShape, BufferShape
<1>17. TailShape'
  BY <1>2 DEF ShapeInv, TailShape
<1>18. TailPlace'
  BY <1>2 DEF ShapeInv, TailPlace
<1>19. SubsListed'
  <2>1. ASSUME NEW x \in Subs PROVE x \in ToSet(subs') <=> mode'[x] # None /\ ~closed'[x]
    <3>1. CASE x = s
      BY <1>2, <1>5, <1>8, <1>10, <1>11, <3>1 DEF Unopened
    <3>2. CASE x # s
      BY <1>2, <1>10, <1>11, <3>2 DEF ShapeInv, SubsListed
    <3> QED BY <3>1, <3>2
  <2> QED BY <1>10, <2>1 DEF SubsListed
<1>20. TodoListed' /\ EmitListed' /\ EmitShape'
  <2>1. \A x \in Subs : mode[x] # None => mode'[x] # None
    BY <1>2, <1>11
  <2> QED BY <1>2, <2>1, TodosKept DEF ShapeInv
<1>21. ASSUME NEW x \in Subs PROVE Replay(x)'
  <2>1. CASE x # s
    <3>1. Untouched(x) /\ Replay(x)
      BY <1>2, <1>11, <1>13, <1>14, <2>1 DEF Untouched, ShapeInv
    <3> QED BY <1>2, <1>6, <1>15, <3>1, ReplayKept DEF ShapeInv
  <2>2. CASE x = s
    BY <1>2, <1>5, <1>7, <1>8, <1>11, <1>13, <1>14, <2>2 DEF Replay, Unopened
  <2> QED BY <2>1, <2>2
<1>22. ShapeInv'
  BY <1>6, <1>15, <1>16, <1>17, <1>18, <1>19, <1>20, <1>21 DEF ShapeInv
<1> QED BY <1>2, <1>5, <1>8, <1>11, <1>13, <1>14, <1>22

(* close of a subscription.                                                *)
LEMMA CloseShape ==
  ASSUME ShapeInv, NEW s \in Subs, Close(s)
  PROVE  /\ ShapeInv' /\ closed'[s]
         /\ \A x \in Subs \ {s} : closed'[x] = closed[x]
<1> USE DEF redis, tailVars, emitVars, bufferVars, readVars, replayVars
<1>1. Next
  BY DEF Next
<1>2. /\ UNCHANGED <<tail, position, live, batch, todo, looked>>
      /\ UNCHANGED <<emitting, emitTodo, mode, policy, from, buffer, lost, after, got,
                     backlog, replaying, asked, page>>
      /\ mode[s] # None /\ closed' = Set(closed, s, TRUE)
      /\ subs' = RemoveFirst(subs, s)
  BY DEF Close
<1>3. StreamShape' /\ Grown /\ TailShape' /\ TailPlace'
  BY <1>1, <1>2, TailRests
<1>4. /\ closed' \in [Subs -> BOOLEAN] /\ closed'[s]
      /\ \A x \in Subs \ {s} : closed'[x] = closed[x]
  BY <1>2 DEF ShapeInv, OpenShape, Set
<1>5. subs \in Seq(Subs) /\ Distinct(subs)
  BY DEF ShapeInv, OpenShape, SubsListed
<1>6. subs' \in Seq(Subs) /\ Distinct(subs') /\ ToSet(subs') = ToSet(subs) \ {s}
  BY <1>2, <1>5, Removed
<1>7. OpenShape'
  BY <1>2, <1>4, <1>6 DEF ShapeInv, OpenShape
<1>8. SubsListed'
  BY <1>2, <1>4, <1>6 DEF ShapeInv, SubsListed
<1>9. TodoListed' /\ EmitListed' /\ EmitShape'
  BY <1>2, TodosKept DEF ShapeInv
<1>10. BufferShape' /\ ReadShape'
  BY <1>2 DEF ShapeInv, BufferShape, ReadShape
<1>11. ASSUME NEW x \in Subs PROVE Replay(x)'
  <2>1. Untouched(x) /\ Replay(x)
    BY <1>2, <1>4 DEF Untouched, ShapeInv
  <2> QED BY <1>2, <1>3, <1>7, <2>1, ReplayKept DEF ShapeInv
<1>12. ShapeInv'
  BY <1>3, <1>7, <1>8, <1>9, <1>10, <1>11 DEF ShapeInv
<1> QED BY <1>4, <1>12

(* What a step of a reader leaves alone.                                   *)
LEMMA ReaderOthers ==
  ASSUME ShapeInv, NEW s \in Subs, Reader(s)
  PROVE  /\ UNCHANGED <<stream, trimmed, tail, position, live, batch, todo, looked>>
         /\ UNCHANGED <<emitting, emitTodo, subs, mode, policy, from, closed, lost>>
         /\ \A x \in Subs \ {s} :
               /\ buffer'[x] = buffer[x] /\ after'[x] = after[x] /\ got'[x] = got[x]
               /\ backlog'[x] = backlog[x] /\ replaying'[x] = replaying[x]
               /\ asked'[x] = asked[x] /\ page'[x] = page[x]
<1> USE DEF redis, tailVars, emitVars, openVars, bufferVars, readVars, replayVars
<1>1. UNCHANGED <<stream, trimmed, tail, position, live, batch, todo, looked>>
  BY DEF Reader, ReplayTake, ReplayAsk, History, ReplayPage, Read
<1>2. UNCHANGED <<emitting, emitTodo, subs, mode, policy, from, closed, lost>>
  BY DEF Reader, ReplayTake, ReplayAsk, History, ReplayPage, Read
<1>3. ASSUME NEW x \in Subs \ {s}, NEW f, NEW v, NEW T, f \in [Subs -> T]
      PROVE  Set(f, s, v)[x] = f[x]
  BY <1>3 DEF Set
<1>4. /\ buffer \in [Subs -> Seq(Nat)] /\ after \in [Subs -> Place]
      /\ got \in [Subs -> Seq(Nat)] /\ backlog \in [Subs -> Seq(Nat)]
      /\ replaying \in [Subs -> BOOLEAN] /\ asked \in [Subs -> BOOLEAN \cup {None}]
      /\ page \in [Subs -> Seq(Nat) \cup {None}]
  BY DEF ShapeInv, BufferShape, ReadShape
<1>5. ASSUME NEW x \in Subs \ {s}
      PROVE  buffer'[x] = buffer[x] /\ after'[x] = after[x] /\ got'[x] = got[x]
  <2>1. \/ buffer' = buffer
        \/ \E v : buffer' = Set(buffer, s, v)
    BY DEF Reader, ReplayTake, ReplayAsk, History, ReplayPage, Read
  <2>2. \/ after' = after
        \/ \E v : after' = Set(after, s, v)
    BY DEF Reader, ReplayTake, ReplayAsk, History, ReplayPage, Read, Deliver
  <2>3. \/ got' = got
        \/ \E v : got' = Set(got, s, v)
    BY DEF Reader, ReplayTake, ReplayAsk, History, ReplayPage, Read, Deliver
  <2> QED BY <1>3, <1>4, <2>1, <2>2, <2>3
<1>6. ASSUME NEW x \in Subs \ {s}
      PROVE  /\ backlog'[x] = backlog[x] /\ replaying'[x] = replaying[x]
             /\ asked'[x] = asked[x] /\ page'[x] = page[x]
  <2>1. \/ backlog' = backlog
        \/ \E v : backlog' = Set(backlog, s, v)
    BY DEF Reader, ReplayTake, ReplayAsk, History, ReplayPage, Read
  <2>2. \/ replaying' = replaying
        \/ \E v : replaying' = Set(replaying, s, v)
    BY DEF Reader, ReplayTake, ReplayAsk, History, ReplayPage, Read
  <2>3. \/ asked' = asked
        \/ \E v : asked' = Set(asked, s, v)
    BY DEF Reader, ReplayTake, ReplayAsk, History, ReplayPage, Read
  <2>4. \/ page' = page
        \/ \E v : page' = Set(page, s, v)
    BY DEF Reader, ReplayTake, ReplayAsk, History, ReplayPage, Read
  <2>5. backlog'[x] = backlog[x]
    BY <1>3, <1>4, <2>1
  <2>8. replaying'[x] = replaying[x]
    BY <1>3, <1>4, <2>2
  <2>6. asked'[x] = asked[x]
    BY <1>3, <1>4, <2>3
  <2>7. page'[x] = page[x]
    BY <1>3, <1>4, <2>4
  <2> QED BY <2>5, <2>6, <2>7, <2>8
<1> QED BY <1>1, <1>2, <1>5, <1>6

(* Only its own place in the replay is left to show for a reader's step.   *)
LEMMA ReaderFrame ==
  ASSUME ShapeInv, NEW s \in Subs, Reader(s), BufferShape', ReadShape', Replay(s)'
  PROVE  ShapeInv'
<1>1. Next
  BY DEF Next
<1>2. /\ UNCHANGED <<tail, position, live, batch, todo, looked>>
      /\ UNCHANGED <<emitting, emitTodo, subs, mode, policy, from, closed>>
      /\ \A x \in Subs \ {s} :
            /\ buffer'[x] = buffer[x] /\ after'[x] = after[x] /\ got'[x] = got[x]
            /\ backlog'[x] = backlog[x] /\ replaying'[x] = replaying[x]
            /\ asked'[x] = asked[x] /\ page'[x] = page[x]
  BY ReaderOthers
<1>3. StreamShape' /\ Grown /\ TailShape' /\ TailPlace'
  BY <1>1, <1>2, TailRests
<1>4. SubsListed' /\ OpenShape'
  BY <1>2, SubsKept DEF ShapeInv
<1>5. TodoListed' /\ EmitListed' /\ EmitShape'
  BY <1>2, TodosKept DEF ShapeInv
<1>6. ASSUME NEW x \in Subs PROVE Replay(x)'
  <2>1. CASE x # s
    <3>1. Untouched(x) /\ Replay(x)
      BY <1>2, <2>1 DEF Untouched, ShapeInv
    <3> QED BY <1>2, <1>3, <1>4, <3>1, ReplayKept DEF ShapeInv
  <2> QED BY <2>1
<1> QED BY <1>3, <1>4, <1>5, <1>6 DEF ShapeInv

(* A reader with ids takes an entry of its backlog.                        *)
LEMMA TakeShape ==
  ASSUME ShapeInv, NEW s \in Subs, ReplayTake(s)
  PROVE  /\ ShapeInv' /\ mode[s] = "since" /\ replaying[s]
         /\ after[s] \in Nat /\ backlog[s][1] \in 1 .. Len(stream)
         /\ after[s] < backlog[s][1]
         /\ backlog[s][1] = after[s] + 1 \/ backlog[s][1] <= trimmed + 1
         /\ after'[s] = backlog[s][1] /\ got'[s] = Append(got[s], backlog[s][1])
         /\ UNCHANGED <<replaying, asked, page, buffer>> /\ page[s] = None
<1> USE DEF redis, tailVars, emitVars, openVars, bufferVars, readVars, replayVars
<1>1. /\ mode[s] # None /\ asked[s] = None /\ replaying[s] /\ backlog[s] # <<>>
      /\ Deliver(s, Head(backlog[s])) /\ backlog' = Set(backlog, s, Tail(backlog[s]))
      /\ UNCHANGED <<replaying, asked, page, buffer, lost>>
  BY DEF ReplayTake, Reads
<1>2. Reader(s)
  BY DEF Reader
<1>3. /\ UNCHANGED <<stream, trimmed, position, mode, closed>>
  BY <1>2, ReaderOthers
<1>4. /\ mode[s] = "since" /\ Piece(backlog[s], after[s], Len(stream), trimmed)
      /\ after[s] # None /\ page[s] = None
  BY <1>1 DEF ShapeInv, Replay
<1>5. Len(stream) \in Nat /\ trimmed \in Nat /\ after[s] \in Nat
  BY <1>4 DEF ShapeInv, StreamShape, ReadShape, Place
<1> DEFINE i == backlog[s][1]
<1>6. /\ i \in Nat /\ i <= Len(stream) /\ Head(backlog[s]) = i
      /\ Piece(Tail(backlog[s]), i, Len(stream), trimmed)
  BY <1>1, <1>4, <1>5, RestPiece
<1>7. after[s] < i /\ (i = after[s] + 1 \/ i <= trimmed + 1)
  BY <1>1, <1>4 DEF Piece
<1>8. i \in 1 .. Len(stream) /\ i # None
  BY <1>5, <1>6, <1>7, DurableAssumption
<1>9. Tail(backlog[s]) \in Seq(Nat)
  BY <1>6 DEF Piece
<1> HIDE DEF i
<1>10. got' = Set(got, s, Append(got[s], i)) /\ after' = Set(after, s, i)
  BY <1>1, <1>4, <1>6 DEF Deliver, Ids
<1>11. /\ got \in [Subs -> Seq(Nat)] /\ after \in [Subs -> Place]
       /\ backlog \in [Subs -> Seq(Nat)] /\ i \in Place
  BY <1>6 DEF ShapeInv, ReadShape, Place
<1>12. got' \in [Subs -> Seq(Nat)] /\ got'[s] = Append(got[s], i)
  <2>1. Append(got[s], i) \in Seq(Nat)
    BY <1>6, <1>11, PushedBack
  <2> QED BY <1>10, <1>11, <2>1 DEF Set
<1>13. after' \in [Subs -> Place] /\ after'[s] = i
  BY <1>10, <1>11 DEF Set
<1>14. backlog' \in [Subs -> Seq(Nat)] /\ backlog'[s] = Tail(backlog[s])
  BY <1>1, <1>9, <1>11 DEF Set
<1>15. ReadShape' /\ BufferShape'
  BY <1>1, <1>12, <1>13, <1>14 DEF ShapeInv, ReadShape, BufferShape
<1>16. Replay(s)'
  BY <1>1, <1>3, <1>4, <1>6, <1>8, <1>13, <1>14, DurableAssumption DEF Replay, Unopened
<1>17. ShapeInv'
  BY <1>2, <1>15, <1>16, ReaderFrame
<1> QED BY <1>1, <1>4, <1>5, <1>7, <1>8, <1>12, <1>13, <1>17 DEF i

(* A reader looks whether it is closed, and asks for a page.               *)
LEMMA AskShape ==
  ASSUME ShapeInv, NEW s \in Subs, ReplayAsk(s)
  PROVE  /\ ShapeInv' /\ mode[s] = "since" /\ replaying[s] /\ page[s] = None
         /\ UNCHANGED <<after, got, backlog, page, buffer>>
         /\ ~closed[s] => replaying'[s]
<1> USE DEF redis, tailVars, emitVars, openVars, bufferVars, readVars, replayVars
<1>1. /\ mode[s] # None /\ asked[s] = None /\ replaying[s] /\ backlog[s] = <<>>
      /\ IF closed[s] THEN replaying' = Set(replaying, s, FALSE) /\ UNCHANGED asked
         ELSE asked' = Set(asked, s, live) /\ UNCHANGED replaying
      /\ UNCHANGED <<after, got, backlog, page, buffer, lost>>
  BY DEF ReplayAsk, Reads
<1>2. Reader(s)
  BY DEF Reader
<1>3. /\ UNCHANGED <<stream, trimmed, position, mode, closed>>
  BY <1>2, ReaderOthers
<1>4. Replay(s) /\ mode[s] = "since" /\ page[s] = None
  BY <1>1 DEF ShapeInv, Replay
<1>5. /\ replaying \in [Subs -> BOOLEAN] /\ asked \in [Subs -> BOOLEAN \cup {None}]
      /\ live \in BOOLEAN
  BY DEF ShapeInv, ReadShape, TailShape
<1>6. live => position # None
  BY DEF ShapeInv, TailPlace
<1>7. CASE closed[s]
  <2>1. asked' = asked /\ replaying' \in [Subs -> BOOLEAN] /\ ~replaying'[s]
    BY <1>1, <1>5, <1>7 DEF Set
  <2>2. ReadShape' /\ BufferShape'
    BY <1>1, <2>1 DEF ShapeInv, ReadShape, BufferShape
  <2>3. Replay(s)'
    BY <1>1, <1>3, <1>4, <2>1, DurableAssumption DEF Replay, Unopened
  <2> QED BY <1>1, <1>2, <1>4, <1>7, <2>2, <2>3, ReaderFrame
<1>8. CASE ~closed[s]
  <2>1. /\ replaying' = replaying /\ asked' \in [Subs -> BOOLEAN \cup {None}]
        /\ asked'[s] = live
    BY <1>1, <1>5, <1>8 DEF Set
  <2>2. ReadShape' /\ BufferShape'
    BY <1>1, <2>1 DEF ShapeInv, ReadShape, BufferShape
  <2>3. Replay(s)'
    BY <1>1, <1>3, <1>4, <1>6, <2>1, DurableAssumption DEF Replay, Unopened
  <2> QED BY <1>1, <1>2, <1>4, <1>8, <2>1, <2>2, <2>3, ReaderFrame
<1> QED BY <1>7, <1>8

(* Redis answers: a piece after what the reader has.                       *)
LEMMA HistoryShape ==
  ASSUME ShapeInv, NEW s \in Subs, History(s)
  PROVE  /\ ShapeInv' /\ mode[s] = "since" /\ replaying[s] /\ page[s] = None
         /\ after[s] \in Nat
         /\ page'[s] = <<>> => Len(stream) <= after[s] \/ Len(stream) <= trimmed
         /\ UNCHANGED <<after, got, backlog, replaying, asked, buffer>>
<1> USE DEF redis, tailVars, emitVars, openVars, bufferVars, readVars, replayVars
<1>1. /\ asked[s] # None /\ page[s] = None
      /\ page' = Set(page, s, After(after[s], Page))
      /\ UNCHANGED <<after, got, backlog, replaying, asked, buffer, lost>>
  BY DEF History
<1>2. Reader(s)
  BY DEF Reader
<1>3. /\ UNCHANGED <<stream, trimmed, position, mode, closed>>
  BY <1>2, ReaderOthers
<1>4. Replay(s) /\ mode[s] = "since" /\ replaying[s] /\ after[s] # None
  BY <1>1 DEF ShapeInv, Replay
<1>5. after[s] \in Nat
  BY <1>4 DEF ShapeInv, ReadShape, Place
<1>6. stream \in Seq({"own", "other"}) /\ trimmed \in 0 .. Len(stream) /\ Page \in Nat \ {0}
  BY DurableAssumption DEF ShapeInv, StreamShape
<1> DEFINE q == After(after[s], Page)
<1>7. /\ Piece(q, after[s], Len(stream), trimmed)
      /\ q = <<>> => Len(stream) <= after[s] \/ Len(stream) <= trimmed
  BY <1>5, <1>6, AnswerPiece
<1> HIDE DEF q
<1>8. q \in Seq(Nat)
  BY <1>7 DEF Piece
<1>9. page' \in [Subs -> Seq(Nat) \cup {None}] /\ page'[s] = q
  BY <1>1, <1>8 DEF ShapeInv, ReadShape, Set, q
<1>10. ReadShape' /\ BufferShape'
  BY <1>1, <1>9 DEF ShapeInv, ReadShape, BufferShape
<1>11. Replay(s)'
  BY <1>1, <1>3, <1>4, <1>7, <1>9, DurableAssumption DEF Replay, Unopened
<1>12. ShapeInv'
  BY <1>2, <1>10, <1>11, ReaderFrame
<1> QED BY <1>1, <1>4, <1>5, <1>7, <1>9, <1>12

(* A page has come: it becomes the backlog, or, empty and asked for while  *)
(* the tail was live, it ends the replay and prunes the buffer.            *)
LEMMA PageShape ==
  ASSUME ShapeInv, NEW s \in Subs, ReplayPage(s)
  PROVE  /\ ShapeInv' /\ mode[s] = "since" /\ replaying[s]
         /\ UNCHANGED <<after, got>> /\ after[s] \in Nat /\ page'[s] = None
         /\ ~(page[s] = <<>> /\ asked[s] = TRUE) => replaying'[s] /\ buffer' = buffer
         /\ page[s] = <<>> /\ asked[s] = TRUE =>
               /\ ~replaying'[s]
               /\ ToSet(buffer'[s]) = {x \in ToSet(buffer[s]) : x > after[s]}
               /\ Rising(buffer[s]) => Rising(buffer'[s])
<1> USE DEF redis, tailVars, emitVars, openVars, bufferVars, readVars, replayVars
<1> DEFINE over == page[s] = <<>> /\ asked[s] = TRUE
<1>1. Reader(s) /\ page[s] # None
  BY DEF Reader, ReplayPage
<1>2. /\ UNCHANGED <<stream, trimmed, position, mode, closed, lost>>
  BY <1>1, ReaderOthers
<1>3. /\ Replay(s) /\ mode[s] = "since" /\ replaying[s] /\ after[s] # None
      /\ asked[s] # None /\ Piece(page[s], after[s], Len(stream), trimmed)
  BY <1>1 DEF ShapeInv, Replay
<1>4. asked[s] \in BOOLEAN /\ after[s] \in Nat /\ page[s] \in Seq(Nat)
  BY <1>1, <1>3 DEF ShapeInv, ReadShape, Place
<1>5. /\ backlog' = Set(backlog, s, page[s])
      /\ replaying' = Set(replaying, s, ~over)
      /\ buffer' = IF over THEN Set(buffer, s, Pruned(s)) ELSE buffer
      /\ asked' = Set(asked, s, None) /\ page' = Set(page, s, None)
      /\ UNCHANGED <<after, got>>
  BY <1>4 DEF ReplayPage, Asked
<1>6. over \in BOOLEAN
  OBVIOUS
<1> HIDE DEF over
<1>7. /\ backlog' \in [Subs -> Seq(Nat)] /\ backlog'[s] = page[s]
      /\ replaying' \in [Subs -> BOOLEAN] /\ replaying'[s] = ~over
  BY <1>4, <1>5, <1>6 DEF ShapeInv, ReadShape, Set
<1>8. /\ asked' \in [Subs -> BOOLEAN \cup {None}] /\ asked'[s] = None
      /\ page' \in [Subs -> Seq(Nat) \cup {None}] /\ page'[s] = None
  BY <1>5 DEF ShapeInv, ReadShape, Set
<1>9. ReadShape'
  BY <1>5, <1>7, <1>8 DEF ShapeInv, ReadShape
<1>10. Replay(s)'
  <2>1. page[s] # <<>> => ~over
    BY DEF over
  <2> QED BY <1>1, <1>2, <1>3, <1>5, <1>7, <1>8, <2>1, DurableAssumption DEF Replay, Unopened
<1> DEFINE q == buffer[s]
           K == {k \in DOMAIN q : q[k] > after[s]}
<1>11. q \in Seq(Nat) /\ K \in SUBSET DOMAIN q /\ Len(q) \in Nat /\ Len(q) <= MaxSize
  BY DEF ShapeInv, BufferShape
<1>12. Pruned(s) = ItemsAt(q, K)
  BY DEF Pruned
<1>13. {q[k] : k \in K} = {x \in ToSet(q) : x > after[s]}
  BY DEF ToSet
<1> HIDE DEF q, K
<1>14. /\ Pruned(s) \in Seq(Nat) /\ Len(Pruned(s)) <= Len(q)
       /\ ToSet(Pruned(s)) = {x \in ToSet(q) : x > after[s]}
       /\ Rising(q) => Rising(Pruned(s))
  BY <1>11, <1>12, <1>13, Filtered
<1>15. Len(Pruned(s)) \in Nat /\ Len(Pruned(s)) <= MaxSize
  BY <1>11, <1>14, DurableAssumption
<1>16. over => buffer'[s] = Pruned(s)
  BY <1>5 DEF ShapeInv, BufferShape, Set
<1>17. BufferShape'
  <2>1. CASE ~over
    BY <1>2, <1>5, <2>1 DEF ShapeInv, BufferShape
  <2>2. CASE over
    <3>1. /\ buffer' \in [Subs -> Seq(Nat)]
          /\ \A x \in Subs : buffer'[x] = IF x = s THEN Pruned(s) ELSE buffer[x]
      BY <1>5, <1>14, <2>2 DEF ShapeInv, BufferShape, Set
    <3> QED BY <1>2, <1>15, <3>1 DEF ShapeInv, BufferShape
  <2> QED BY <2>1, <2>2
<1>18. ShapeInv'
  BY <1>1, <1>9, <1>10, <1>17, ReaderFrame
<1>19. ~over => replaying'[s] /\ buffer' = buffer
  BY <1>5, <1>7
<1>20. over => /\ ~replaying'[s]
               /\ ToSet(buffer'[s]) = {x \in ToSet(buffer[s]) : x > after[s]}
               /\ Rising(buffer[s]) => Rising(buffer'[s])
  BY <1>7, <1>14, <1>16 DEF q
<1> QED BY <1>3, <1>4, <1>5, <1>8, <1>18, <1>19, <1>20 DEF over

(* A reader takes from its buffer, and returns it unless the replay did.   *)
LEMMA ReadActShape ==
  ASSUME ShapeInv, NEW s \in Subs, Read(s)
  PROVE  /\ ShapeInv' /\ mode[s] # None /\ ~replaying[s] /\ buffer[s] # <<>>
         /\ UNCHANGED <<backlog, replaying, asked, page>> /\ page[s] = None
         /\ buffer'[s] = Tail(buffer[s])
         /\ \/ Stale(s, Head(buffer[s])) /\ UNCHANGED <<after, got>>
            \/ /\ ~Stale(s, Head(buffer[s]))
               /\ got'[s] = Append(got[s], Head(buffer[s]))
               /\ after'[s] = IF Ids(s) THEN Head(buffer[s]) ELSE after[s]
<1> USE DEF redis, tailVars, emitVars, openVars, bufferVars, readVars, replayVars
<1> DEFINE h == Head(buffer[s])
<1>1. /\ mode[s] # None /\ asked[s] = None /\ ~replaying[s] /\ buffer[s] # <<>>
      /\ IF Stale(s, h) THEN UNCHANGED <<after, got>> ELSE Deliver(s, h)
      /\ buffer' = Set(buffer, s, Tail(buffer[s]))
      /\ UNCHANGED <<backlog, replaying, asked, page, lost>>
  BY DEF Read, Reads
<1>2. Reader(s)
  BY DEF Reader
<1>3. /\ UNCHANGED <<stream, trimmed, position, mode, closed, lost>>
  BY <1>2, ReaderOthers
<1>4. Replay(s) /\ page[s] = None /\ backlog[s] = <<>>
  BY <1>1 DEF ShapeInv, Replay
<1>5. /\ buffer \in [Subs -> Seq(Nat)] /\ buffer[s] \in Seq(Nat) /\ Len(buffer[s]) <= MaxSize
      /\ after \in [Subs -> Place] /\ got \in [Subs -> Seq(Nat)]
  BY DEF ShapeInv, BufferShape, ReadShape
<1>6. /\ h \in Nat /\ Tail(buffer[s]) \in Seq(Nat) /\ Len(buffer[s]) \in Nat
      /\ Len(Tail(buffer[s])) = Len(buffer[s]) - 1
  BY <1>1, <1>5, TakenOff
<1> HIDE DEF h
<1>7. Len(Tail(buffer[s])) <= MaxSize
  BY <1>5, <1>6, DurableAssumption
<1>8. /\ buffer' \in [Subs -> Seq(Nat)]
      /\ \A x \in Subs : buffer'[x] = IF x = s THEN Tail(buffer[s]) ELSE buffer[x]
  BY <1>1, <1>5, <1>6 DEF Set
<1>9. BufferShape'
  BY <1>3, <1>7, <1>8 DEF ShapeInv, BufferShape
<1>10. h \in Place /\ h # None /\ Append(got[s], h) \in Seq(Nat)
  BY <1>5, <1>6, PushedBack, DurableAssumption DEF Place
<1>11. /\ after' \in [Subs -> Place] /\ got' \in [Subs -> Seq(Nat)]
       /\ \/ Stale(s, h) /\ UNCHANGED <<after, got>>
          \/ /\ ~Stale(s, h) /\ got'[s] = Append(got[s], h)
             /\ after'[s] = IF Ids(s) THEN h ELSE after[s]
  <2>1. CASE Stale(s, h)
    BY <1>1, <1>5, <2>1
  <2>2. CASE ~Stale(s, h)
    <3>1. /\ got' = Set(got, s, Append(got[s], h))
          /\ after' = IF Ids(s) THEN Set(after, s, h) ELSE after
      BY <1>1, <2>2 DEF Deliver
    <3>2. got' \in [Subs -> Seq(Nat)] /\ got'[s] = Append(got[s], h)
      BY <1>5, <1>10, <3>1 DEF Set
    <3>3. after' \in [Subs -> Place] /\ after'[s] = IF Ids(s) THEN h ELSE after[s]
      BY <1>5, <1>10, <3>1 DEF Set
    <3> QED BY <2>2, <3>2, <3>3
  <2> QED BY <2>1, <2>2
<1>12. ReadShape'
  BY <1>1, <1>11 DEF ShapeInv, ReadShape
<1>13. Replay(s)'
  <2>1. mode[s] = "plain" => after'[s] = None
    BY <1>4, <1>11 DEF Replay, Ids
  <2>2. mode[s] = "since" => after'[s] # None
    BY <1>4, <1>10, <1>11 DEF Replay, Ids
  <2> QED BY <1>1, <1>3, <1>4, <2>1, <2>2 DEF Replay
<1>14. ShapeInv'
  BY <1>2, <1>9, <1>12, <1>13, ReaderFrame
<1> QED BY <1>1, <1>4, <1>8, <1>11, <1>14 DEF h

(* Nothing is there at first.                                              *)
LEMMA InitShape == Init => ShapeInv
<1> SUFFICES ASSUME Init PROVE ShapeInv
  OBVIOUS
<1>1. <<>> \in Seq({"own", "other"}) /\ Len(<<>>) = 0
  OBVIOUS
<1>2. <<>> \in Seq(Nat)
  OBVIOUS
<1>3. <<>> \in Seq(Subs)
  OBVIOUS
<1>4. Distinct(<<>>) /\ ToSet(<<>>) = {}
  BY DEF Distinct, ToSet
<1>5. StreamShape
  <2>1. 0 \in 0 .. Len(<<>>) /\ 0 \in 0 .. MaxOutages
    BY <1>1, DurableAssumption
  <2> QED BY <1>1, <2>1 DEF Init, StreamShape
<1>6. TailShape
  BY <1>2, <1>3 DEF Init, TailShape, Place
<1>7. EmitShape
  BY <1>3 DEF Init, EmitShape, Place
<1>8. OpenShape
  BY <1>3 DEF Init, OpenShape
<1>9. BufferShape
  BY <1>1, <1>2, DurableAssumption DEF Init, BufferShape
<1>10. ReadShape
  BY <1>2 DEF Init, ReadShape, Place
<1>11. TailPlace
  BY DEF Init, TailPlace
<1>12. SubsListed /\ TodoListed
  BY <1>4 DEF Init, SubsListed, TodoListed, Opened
<1>13. EmitListed
  BY <1>4 DEF Init, EmitListed, Opened
<1>14. ASSUME NEW s \in Subs PROVE Replay(s)
  BY DurableAssumption DEF Init, Replay, Unopened
<1> QED BY <1>5, <1>6, <1>7, <1>8, <1>9, <1>10, <1>11, <1>12, <1>13, <1>14 DEF ShapeInv

(* Every step keeps it.                                                    *)
LEMMA NextShape ==
  ASSUME ShapeInv, [Next]_vars
  PROVE  ShapeInv'
<1>1. CASE AppendElsewhere \/ Trim
  BY <1>1, RedisShape
<1>2. CASE Outage \/ StopTail
  BY <1>2, TravelShape
<1>3. CASE Pump
  BY <1>3, TravelShape, BatchShape, TailPutShape DEF Pump
<1>4. CASE CloseTopic
  BY <1>4, CloseTopicShape
<1>5. ASSUME NEW e \in Emitters, Emitter(e) PROVE ShapeInv'
  BY <1>5, EmitterShape, EmitPutShape DEF Emitter
<1>6. ASSUME NEW s \in Subs, Subscribe(s) \/ Close(s) PROVE ShapeInv'
  BY <1>6, SubscribeShape, CloseShape
<1>7. ASSUME NEW s \in Subs, Reader(s) PROVE ShapeInv'
  BY <1>7, TakeShape, AskShape, HistoryShape, PageShape, ReadActShape DEF Reader
<1>8. CASE UNCHANGED vars
  BY <1>8 DEF vars, redis, tailVars, emitVars, openVars, bufferVars, readVars, replayVars,
       ShapeInv, StreamShape, TailShape, EmitShape, OpenShape, BufferShape, ReadShape,
       TailPlace, SubsListed, TodoListed, EmitListed, Opened, Replay, Unopened
<1> QED BY <1>1, <1>2, <1>3, <1>4, <1>5, <1>6, <1>7, <1>8 DEF Next

-----------------------------------------------------------------------------
(* The order of what a reader with ids gets                                *)

(* Whatever happens to the topic but its close, the tail is as far.        *)
LEMMA ReachedOn ==
  ASSUME ShapeInv, [Next]_vars, ~CloseTopic, NEW x \in Nat, Reached(x)
  PROVE  Reached(x)'
<1> USE DEF redis, tailVars, emitVars, openVars, bufferVars, readVars, replayVars
<1>1. Grown
  BY StreamGrows, StreamSame DEF ShapeInv, vars
<1>2. position # None /\ position \in Nat
  BY DEF Reached, ShapeInv, TailShape, Place
<1>t. trimmed \in Nat /\ trimmed' \in Nat /\ trimmed <= trimmed'
  BY <1>1 DEF Grown
<1>3. CASE UNCHANGED <<position, batch>>
  <2>1. ASSUME NEW a \in Nat, NEW b \in Nat, a <= b PROVE x <= a + 1 => x <= b + 1
    BY <2>1
  <2>2. x <= trimmed + 1 => x <= trimmed' + 1
    BY <1>t, <2>1
  <2> QED BY <1>3, <2>2 DEF Reached
<1>4. CASE FixPosition
  BY <1>2, <1>4 DEF FixPosition, ShapeInv, TailPlace
<1>5. CASE Follow
  <2>1. /\ batch = <<>> /\ UNCHANGED <<position, trimmed>>
        /\ batch' = After(position, Batch) /\ batch' # <<>>
    BY <1>5 DEF Follow, ShapeInv, TailPlace
  <2>2. batch'[1] = IF position < trimmed THEN trimmed + 1 ELSE position + 1
    BY <1>2, <2>1, AnswerPiece, DurableAssumption DEF ShapeInv, StreamShape
  <2>3. x <= position + 1 \/ x <= trimmed + 1
    BY <2>1 DEF Reached
  <2>4. x <= batch'[1]
    BY <1>2, <1>t, <2>2, <2>3
  <2> QED BY <1>2, <2>1, <2>4 DEF Reached
<1>6. CASE TailRaises
  <2>1. batch # <<>> /\ batch' = <<>> /\ UNCHANGED <<position, trimmed>>
    BY <1>6 DEF TailRaises, ShapeInv, TailPlace
  <2>2. batch[1] = position + 1 \/ batch[1] <= trimmed + 1
    BY <2>1, InHand
  <2>3. batch[1] \in 1 .. Len(stream)
    BY <2>1, InHand
  <2>4. x <= position + 1 \/ x <= trimmed + 1
    BY <1>2, <1>t, <2>1, <2>2, <2>3 DEF Reached
  <2> QED BY <1>2, <2>1, <2>4 DEF Reached
<1>7. CASE TailNext
  <2>1. batch # <<>> /\ batch' = Tail(batch) /\ position' = Head(batch) /\ UNCHANGED trimmed
    BY <1>7 DEF TailNext, ShapeInv, TailPlace
  <2>2. /\ Head(batch) = batch[1] /\ batch[1] \in Nat
        /\ Tail(batch) # <<>> => Tail(batch)[1] = batch[1] + 1
    BY <2>1, InHand
  <2>3. x <= batch[1] + 1 /\ position' # None
    BY <2>1, <2>2, DurableAssumption DEF Reached
  <2> QED BY <2>1, <2>2, <2>3 DEF Reached
<1>8. CASE Outage \/ StopTail \/ Reconnect \/ FanOut \/ TailLook \/ TailPut
  <2>1. UNCHANGED <<position, batch>>
    BY <1>8 DEF Outage, StopTail, Reconnect, FanOut, TailLook, TailPut
  <2> QED BY <1>3, <2>1
<1>9. CASE AppendElsewhere \/ Trim \/ UNCHANGED vars
  <2>1. UNCHANGED <<position, batch>>
    BY <1>9 DEF AppendElsewhere, Trim, vars
  <2> QED BY <1>3, <2>1
<1>10. ASSUME NEW e \in Emitters, Emitter(e) PROVE Reached(x)'
  <2>1. UNCHANGED <<position, batch>>
    BY <1>10 DEF Emitter, Emit, EmitLook, EmitReturns, EmitSkips, EmitPut
  <2> QED BY <1>3, <2>1
<1>11. ASSUME NEW s \in Subs, Subscribe(s) \/ Close(s) \/ Reader(s) PROVE Reached(x)'
  <2>1. UNCHANGED <<position, batch>>
    BY <1>11 DEF Subscribe, Close, Reader, ReplayTake, ReplayAsk, History, ReplayPage, Read
  <2> QED BY <1>3, <2>1
<1> QED BY <1>4, <1>5, <1>6, <1>7, <1>8, <1>9, <1>10, <1>11 DEF Next, Pump

(* A reader that a step leaves alone.                                      *)
LEMMA OrderKept ==
  ASSUME ShapeInv, [Next]_vars, NEW s \in Subs, Ordered(s), closed[s] => closed'[s],
         CloseTopic => closed'[s],
         buffer'[s] = buffer[s], got'[s] = got[s], after'[s] = after[s]
  PROVE  Ordered(s)'
<1>1. buffer[s] \in Seq(Nat) /\ closed[s] \in BOOLEAN
  BY DEF ShapeInv, BufferShape, OpenShape
<1>2. ASSUME NEW x \in Buffered(s), ~closed'[s] PROVE Reached(x)'
  <2>1. x \in Nat /\ Reached(x) /\ ~CloseTopic
    BY <1>1, <1>2 DEF Ordered, Buffered
  <2> QED BY <2>1, ReachedOn
<1>3. Buffered(s)' = Buffered(s) /\ Given(s)' = Given(s)
  BY DEF Buffered, Given
<1>4. \A x \in Given(s)' : after'[s] # None /\ x <= after'[s]
  BY <1>3 DEF Ordered
<1>5. \A x \in Buffered(s)' : ~closed'[s] => Reached(x)'
  BY <1>2, <1>3
<1> QED BY <1>4, <1>5 DEF Ordered

(* One more entry for a reader with ids.                                   *)
LEMMA OrderTaken ==
  ASSUME NEW s \in Subs, NEW i \in Nat, got[s] \in Seq(Nat), after[s] \in Place,
         Ordered(s), after[s] # None => after[s] < i, got'[s] = Append(got[s], i),
         after'[s] = i
  PROVE  /\ StrictlyRising(got'[s])
         /\ \A x \in Given(s)' : after'[s] # None /\ x <= after'[s]
<1>1. \A x \in ToSet(got[s]) : x \in Nat
  BY DEF ToSet
<1>2. ASSUME NEW x \in ToSet(got[s]) PROVE x < i
  <2>1. after[s] # None /\ x <= after[s]
    BY DEF Ordered, Given, ToSet
  <2> QED BY <1>1, <2>1 DEF Place
<1>3. StrictlyRising(Append(got[s], i))
  BY <1>2, RisesOn DEF Ordered
<1>4. ToSet(Append(got[s], i)) = ToSet(got[s]) \cup {i}
  BY PushedBack
<1>5. Given(s)' = ToSet(got[s]) \cup {i}
  BY <1>4 DEF Given, ToSet
<1>6. i # None
  BY DurableAssumption
<1> QED BY <1>1, <1>2, <1>3, <1>5, <1>6

(* A reader's step.                                                        *)
LEMMA OrderReader ==
  ASSUME ShapeInv, NEW s \in Subs, Ids(s), Ordered(s), Reader(s)
  PROVE  Ordered(s)'
<1>1. /\ UNCHANGED <<position, batch, trimmed, mode, closed>> /\ [Next]_vars
      /\ ~closed[s] => ~closed'[s]
  BY ReaderOthers DEF Next
<1>2. /\ got[s] \in Seq(Nat) /\ after[s] \in Place /\ buffer[s] \in Seq(Nat)
  BY DEF ShapeInv, ReadShape, BufferShape
<1>3. \A x : Reached(x)' <=> Reached(x)
  BY <1>1 DEF Reached
<1>4. /\ Buffered(s) = ToSet(buffer[s]) /\ Buffered(s)' = ToSet(buffer'[s])
  BY DEF Buffered, ToSet
<1>5. CASE ReplayTake(s)
  <2>1. /\ backlog[s][1] \in Nat /\ after[s] < backlog[s][1]
        /\ after'[s] = backlog[s][1] /\ got'[s] = Append(got[s], backlog[s][1])
        /\ buffer' = buffer
    BY <1>5, TakeShape
  <2>2. /\ StrictlyRising(got'[s])
        /\ \A x \in Given(s)' : after'[s] # None /\ x <= after'[s]
    BY <1>2, <2>1, OrderTaken
  <2> QED BY <1>1, <1>3, <1>4, <2>1, <2>2 DEF Ordered
<1>6. CASE ReplayAsk(s) \/ History(s)
  <2>1. UNCHANGED <<after, got, buffer>>
    BY <1>6, AskShape, HistoryShape
  <2>2. ~CloseTopic
    <3>1. tail' = tail
      BY ReaderOthers
    <3> QED BY <3>1 DEF CloseTopic
  <2> QED BY <1>1, <2>1, <2>2, OrderKept
<1>7. CASE ReplayPage(s)
  <2>1. UNCHANGED <<after, got>>
    BY <1>7, PageShape
  <2>2. /\ ToSet(buffer'[s]) \subseteq ToSet(buffer[s])
        /\ Rising(buffer[s]) => Rising(buffer'[s])
    BY <1>7, PageShape
  <2>3. Given(s)' = Given(s)
    BY <2>1 DEF Given
  <2>4. \A x \in Given(s)' : after'[s] # None /\ x <= after'[s]
    BY <2>1, <2>3 DEF Ordered
  <2> QED BY <1>1, <1>3, <1>4, <2>1, <2>2, <2>4 DEF Ordered
<1>8. CASE Read(s)
  <2>1. buffer[s] # <<>> /\ buffer'[s] = Tail(buffer[s])
    BY <1>8, ReadActShape
  <2> DEFINE h == Head(buffer[s])
  <2>2. h \in Nat /\ ToSet(buffer[s]) = ToSet(Tail(buffer[s])) \cup {h}
    BY <1>2, <2>1, TakenOff
  <2>3. Rising(Tail(buffer[s]))
    BY <1>2, <2>1, RisesFrom DEF Ordered
  <2>4. /\ \A x \in Buffered(s)' : ~closed'[s] => Reached(x)'
        /\ Rising(buffer'[s])
    BY <1>1, <1>3, <1>4, <2>1, <2>2, <2>3 DEF Ordered
  <2>5. \/ UNCHANGED <<after, got>>
        \/ ~Stale(s, h) /\ got'[s] = Append(got[s], h) /\ after'[s] = h
    BY <1>8, ReadActShape
  <2> HIDE DEF h
  <2>6. /\ StrictlyRising(got'[s])
        /\ \A x \in Given(s)' : after'[s] # None /\ x <= after'[s]
    <3>1. CASE UNCHANGED <<after, got>>
      <4>1. Given(s)' = Given(s)
        BY <3>1 DEF Given
      <4> QED BY <3>1, <4>1 DEF Ordered
    <3>2. CASE ~Stale(s, h) /\ got'[s] = Append(got[s], h) /\ after'[s] = h
      <4>1. after[s] # None => after[s] < h
        BY <1>2, <2>2, <3>2 DEF Stale, Place
      <4> QED BY <1>2, <2>2, <3>2, <4>1, OrderTaken
    <3> QED BY <2>5, <3>1, <3>2
  <2> QED BY <2>4, <2>6 DEF Ordered
<1> QED BY <1>5, <1>6, <1>7, <1>8 DEF Reader

(* The tail's put.                                                         *)
LEMMA OrderPut ==
  ASSUME ShapeInv, NEW s \in Subs, Ids(s), Ordered(s), TailPut
  PROVE  Ordered(s)'
<1> USE DEF redis, tailVars, emitVars, openVars, readVars, replayVars
<1>1. /\ UNCHANGED <<position, batch, trimmed, mode, closed, after, got>> /\ batch # <<>>
      /\ [Next]_vars /\ ~CloseTopic
  BY DEF TailPut, ShapeInv, TailPlace, Next, Pump, CloseTopic
<1>2. buffer[s] \in Seq(Nat) /\ batch[1] \in Nat
  BY <1>1, InHand DEF ShapeInv, BufferShape
<1>3. \/ buffer'[s] = buffer[s]
      \/ Lands(s, batch[1])
  BY TailPutShape
<1>4. CASE buffer'[s] = buffer[s]
  BY <1>1, <1>4, OrderKept
<1>5. CASE Lands(s, batch[1]) /\ buffer'[s] # buffer[s]
  <2>1. /\ ~closed[s]
        /\ \/ buffer'[s] = Append(buffer[s], batch[1])
           \/ buffer[s] # <<>> /\ buffer'[s] = Append(Tail(buffer[s]), batch[1])
    BY <1>5 DEF Lands
  <2>2. \A y \in ToSet(buffer[s]) : Reached(y) /\ y <= batch[1]
    BY <1>1, <2>1 DEF Ordered, Buffered, ToSet, Reached
  <2>3. position # None
    BY <1>1, InHand
  <2>4. Reached(batch[1])
    BY <1>1, <1>2, <2>3 DEF Reached
  <2>5. Rising(buffer[s])
    BY DEF Ordered
  <2>6. Rising(buffer'[s]) /\ \A y \in ToSet(buffer'[s]) : Reached(y)
    <3>1. CASE buffer'[s] = Append(buffer[s], batch[1])
      <4>1. Rising(buffer'[s])
        BY <1>2, <2>2, <2>5, <3>1, RisesOn
      <4>2. ToSet(buffer'[s]) = ToSet(buffer[s]) \cup {batch[1]}
        BY <1>2, <3>1, PushedBack
      <4> QED BY <2>2, <2>4, <4>1, <4>2
    <3>2. CASE buffer[s] # <<>> /\ buffer'[s] = Append(Tail(buffer[s]), batch[1])
      <4>1. Tail(buffer[s]) \in Seq(Nat) /\ ToSet(Tail(buffer[s])) \subseteq ToSet(buffer[s])
        BY <1>2, <3>2, TakenOff
      <4>2. Rising(Tail(buffer[s]))
        BY <1>2, <2>5, <3>2, RisesFrom
      <4>3. Rising(buffer'[s])
        BY <1>2, <2>2, <3>2, <4>1, <4>2, RisesOn
      <4>4. ToSet(Append(Tail(buffer[s]), batch[1])) = ToSet(Tail(buffer[s])) \cup {batch[1]}
        <5> DEFINE q == Tail(buffer[s])
        <5> HIDE DEF q
        <5>1. q \in Seq(Nat)
          BY <4>1 DEF q
        <5>2. ToSet(Append(q, batch[1])) = ToSet(q) \cup {batch[1]}
          BY <1>2, <5>1, PushedBack
        <5> QED BY <5>2 DEF q
      <4> QED BY <2>2, <2>4, <3>2, <4>1, <4>3, <4>4
    <3> QED BY <2>1, <3>1, <3>2
  <2>7. \A x : Reached(x)' <=> Reached(x)
    BY <1>1 DEF Reached
  <2>8. Given(s)' = Given(s) /\ Buffered(s)' = ToSet(buffer'[s])
    BY <1>1 DEF Given, Buffered, ToSet
  <2>9. \A x \in Given(s)' : after'[s] # None /\ x <= after'[s]
    BY <1>1, <2>8 DEF Ordered
  <2> QED BY <1>1, <2>6, <2>7, <2>8, <2>9 DEF Ordered
<1> QED BY <1>3, <1>4, <1>5

(* What a step leaves alone of a subscription.                             *)
LeftSame(s) ==
    /\ mode'[s] = mode[s] /\ from'[s] = from[s]
    /\ buffer'[s] = buffer[s] /\ lost'[s] = lost[s]
    /\ got'[s] = got[s] /\ after'[s] = after[s]
    /\ backlog'[s] = backlog[s] /\ replaying'[s] = replaying[s]
    /\ asked'[s] = asked[s] /\ page'[s] = page[s]
    /\ closed[s] => closed'[s]
    /\ CloseTopic => closed'[s]

(* What a step of anything but its reader and a put does to an open        *)
(* subscription: nothing, unless it closes it.                             *)
LEMMA LeftAlone ==
  ASSUME ShapeInv, [Next]_vars, NEW s \in Subs, mode[s] # None, ~Reader(s), ~TailPut,
         \A e \in Emitters : ~EmitPut(e, s)
  PROVE  LeftSame(s)
<1> USE DEF redis, tailVars, emitVars, openVars, bufferVars, readVars, replayVars
<1>0. mode[s] # None /\ closed \in [Subs -> BOOLEAN]
  BY DEF ShapeInv, OpenShape
<1>1. CASE AppendElsewhere \/ Trim \/ Outage \/ StopTail \/ UNCHANGED vars
  BY <1>1 DEF AppendElsewhere, Trim, Outage, StopTail, vars, CloseTopic, LeftSame
<1>2. CASE Pump
  BY <1>2 DEF Pump, FixPosition, Follow, FanOut, TailLook, TailRaises, TailNext, Reconnect,
       CloseTopic, LeftSame
<1>3. CASE CloseTopic
  BY <1>0, <1>3 DEF CloseTopic, LeftSame
<1>4. ASSUME NEW e \in Emitters, Emitter(e), \A x \in Subs : ~EmitPut(e, x)
      PROVE  /\ UNCHANGED <<mode, from, buffer, lost, got, after, backlog, replaying,
                            asked, page, closed, tail, position>>
             /\ ~CloseTopic
  <2>1. UNCHANGED <<mode, from, buffer, lost, got, after, backlog, replaying,
                            asked, page, closed, tail>>
    BY <1>4 DEF Emitter, Emit, EmitLook, EmitReturns, EmitSkips
  <2>2. UNCHANGED position /\ ~CloseTopic
    BY <1>4, <2>1 DEF Emitter, Emit, EmitLook, EmitReturns, EmitSkips, CloseTopic
  <2> QED BY <2>1, <2>2
<1>5. ASSUME NEW e \in Emitters, NEW x \in Subs, EmitPut(e, x)
      PROVE  /\ UNCHANGED <<mode, from, got, after, backlog, replaying, asked, page, closed>>
             /\ buffer'[s] = buffer[s] /\ lost'[s] = lost[s] /\ ~CloseTopic
  <2>1. /\ UNCHANGED <<mode, from, got, after, backlog, replaying, asked, page, closed>>
        /\ ~CloseTopic
    BY <1>5 DEF EmitPut, CloseTopic
  <2>2. x # s /\ \A y \in Subs \ {x} : buffer'[y] = buffer[y] /\ lost'[y] = lost[y]
    BY <1>5, EmitPutShape
  <2> QED BY <2>1, <2>2
<1>6. ASSUME NEW x \in Subs, Subscribe(x)
      PROVE  /\ UNCHANGED <<buffer, lost, got, backlog, asked, page, closed>>
             /\ mode'[s] = mode[s] /\ from'[s] = from[s] /\ after'[s] = after[s]
             /\ replaying'[s] = replaying[s] /\ ~CloseTopic
  <2>1. UNCHANGED <<buffer, lost, got, backlog, asked, page, closed>>
    BY <1>6 DEF Subscribe
  <2>2. x # s /\ \A y \in Subs \ {x} :
            /\ mode'[y] = mode[y] /\ after'[y] = after[y] /\ from'[y] = from[y]
            /\ replaying'[y] = replaying[y]
    BY <1>0, <1>6, SubscribeShape
  <2>3. ~CloseTopic
    BY <1>6 DEF Subscribe, CloseTopic
  <2> QED BY <2>1, <2>2, <2>3
<1>7. ASSUME NEW x \in Subs, Close(x)
      PROVE  /\ UNCHANGED <<mode, from, buffer, lost, got, after, backlog, replaying,
                            asked, page>>
             /\ closed[s] => closed'[s]
             /\ ~CloseTopic
  <2>1. UNCHANGED <<mode, from, buffer, lost, got, after, backlog, replaying,
                            asked, page>>
    BY <1>7 DEF Close
  <2>2. closed[s] => closed'[s]
    BY <1>7, CloseShape
  <2>3. ~CloseTopic
    BY <1>7 DEF Close, CloseTopic
  <2> QED BY <2>1, <2>2, <2>3
<1>8. ASSUME NEW x \in Subs, Reader(x)
      PROVE  /\ UNCHANGED <<mode, from, lost, closed>>
             /\ buffer'[s] = buffer[s] /\ after'[s] = after[s] /\ got'[s] = got[s]
             /\ backlog'[s] = backlog[s] /\ replaying'[s] = replaying[s]
             /\ asked'[s] = asked[s] /\ page'[s] = page[s] /\ ~CloseTopic
  <2>1. x # s
    BY <1>8
  <2>2. ~CloseTopic
    <3>1. tail' = tail
      BY <1>8, ReaderOthers
    <3> QED BY <3>1 DEF CloseTopic
  <2> QED BY <1>8, <2>1, <2>2, ReaderOthers
<1>9. ASSUME NEW e \in Emitters, Emitter(e) PROVE LeftSame(s)
  <2>1. CASE \A x \in Subs : ~EmitPut(e, x)
    BY <1>4, <1>9, <2>1 DEF LeftSame
  <2>2. ASSUME NEW x \in Subs, EmitPut(e, x) PROVE LeftSame(s)
    BY <1>5, <2>2 DEF LeftSame
  <2> QED BY <2>1, <2>2
<1>10. ASSUME NEW x \in Subs, Subscribe(x) \/ Close(x) \/ Reader(x) PROVE LeftSame(s)
  <2>1. CASE Subscribe(x)
    BY <1>6, <2>1 DEF LeftSame
  <2>2. CASE Close(x)
    BY <1>7, <2>2 DEF LeftSame
  <2>3. CASE Reader(x)
    BY <1>8, <2>3 DEF LeftSame
  <2> QED BY <1>10, <2>1, <2>2, <2>3
<1>11. CASE AppendElsewhere \/ Trim \/ Outage \/ StopTail \/ UNCHANGED vars \/ Pump \/ CloseTopic
  BY <1>1, <1>2, <1>3, <1>11 DEF LeftSame
<1>12. CASE UNCHANGED vars
  BY <1>11, <1>12
<1>13. CASE Next
  <2>1. CASE \E e \in Emitters : Emitter(e)
    BY <1>9, <2>1
  <2>2. CASE \E x \in Subs : Subscribe(x) \/ Close(x) \/ Reader(x)
    BY <1>10, <2>2
  <2> QED BY <1>11, <1>13, <2>1, <2>2 DEF Next
<1> QED BY <1>12, <1>13

(* Nothing is put in order at first, and a step keeps the order.           *)
LEMMA InitOrder == Init => OrderInv
BY DurableAssumption DEF Init, OrderInv, Ids

(* A step opens a subscription, or it had ids before.                      *)
LEMMA IdsBefore ==
  ASSUME ShapeInv, [Next]_vars, NEW s \in Subs, ~(mode'[s] = mode[s])
  PROVE  Subscribe(s) /\ mode[s] = None
<1> USE DEF redis, tailVars, emitVars, openVars, bufferVars, readVars, replayVars
<1>1. CASE AppendElsewhere \/ Trim \/ Outage \/ StopTail \/ UNCHANGED vars \/ CloseTopic
  BY <1>1 DEF AppendElsewhere, Trim, Outage, StopTail, vars, CloseTopic
<1>2. CASE Pump
  BY <1>2 DEF Pump, FixPosition, Follow, FanOut, TailLook, TailPut, TailRaises, TailNext,
       Reconnect
<1>3. ASSUME NEW e \in Emitters, Emitter(e) PROVE FALSE
  BY <1>3 DEF Emitter, Emit, EmitLook, EmitReturns, EmitSkips, EmitPut
<1>4. ASSUME NEW x \in Subs, Close(x) \/ Reader(x) PROVE FALSE
  BY <1>4, ReaderOthers DEF Close
<1>5. ASSUME NEW x \in Subs, Subscribe(x) PROVE x = s /\ mode[s] = None
  BY <1>5, SubscribeShape
<1> QED BY <1>1, <1>2, <1>3, <1>4, <1>5 DEF Next

(* Every step keeps the order.                                             *)
LEMMA NextOrder ==
  ASSUME ShapeInv, OrderInv, [Next]_vars
  PROVE  OrderInv'
<1> SUFFICES ASSUME NEW s \in Subs, Ids(s)' PROVE Ordered(s)'
  BY DEF OrderInv
<1>1. CASE mode'[s] = mode[s]
  <2>1. Ids(s) /\ Ordered(s)
    BY <1>1 DEF Ids, OrderInv
  <2>2. CASE Reader(s)
    BY <2>1, <2>2, OrderReader
  <2>3. CASE TailPut
    BY <2>1, <2>3, OrderPut
  <2>4. CASE ~Reader(s) /\ ~TailPut
    <3>0. mode[s] # None /\ \A e \in Emitters : ~EmitPut(e, s)
      BY <2>1, DurableAssumption DEF Ids, EmitPut
    <3>1. /\ buffer'[s] = buffer[s] /\ got'[s] = got[s] /\ after'[s] = after[s]
          /\ closed[s] => closed'[s]
          /\ CloseTopic => closed'[s]
      BY <2>4, <3>0, LeftAlone DEF LeftSame
    <3> QED BY <2>1, <3>1, OrderKept
  <2> QED BY <2>2, <2>3, <2>4
<1>2. CASE mode'[s] # mode[s]
  <2>1. Subscribe(s) /\ Unopened(s)
    BY <1>2, IdsBefore, SubscribeShape
  <2>2. buffer'[s] = <<>> /\ got'[s] = <<>>
    BY <2>1 DEF Subscribe, Unopened, bufferVars
  <2>3. Given(s)' = {} /\ Buffered(s)' = {} /\ Rising(<<>>) /\ StrictlyRising(<<>>)
    BY <2>2 DEF Given, Buffered, Rising, StrictlyRising
  <2> QED BY <2>2, <2>3 DEF Ordered
<1> QED BY <1>1, <1>2

-----------------------------------------------------------------------------
(* Nothing is missed across the switch                                     *)

(* What is gone stays gone.                                                *)
LEMMA GoneKept ==
  ASSUME Grown, NEW s \in Subs, Given(s) \subseteq Given(s)', lost[s] \subseteq lost'[s],
         NEW i \in Nat, Gone(s, i)
  PROVE  Gone(s, i)'
<1>1. i <= trimmed => i <= trimmed'
  BY DEF Grown
<1> QED BY <1>1 DEF Gone

(* What is settled stays settled.                                          *)
LEMMA SettledKept ==
  ASSUME Grown, NEW s \in Subs, Given(s) \subseteq Given(s)', lost[s] \subseteq lost'[s],
         Buffered(s) \subseteq Given(s)' \cup Buffered(s)' \cup lost'[s],
         NEW i \in Nat, Settled(s, i)
  PROVE  Settled(s, i)'
<1>1. i <= trimmed => i <= trimmed'
  BY DEF Grown
<1> QED BY <1>1 DEF Settled

(* The types a resumed reader's places have.                               *)
LEMMA Resumed ==
  ASSUME ShapeInv, NEW s \in Subs, mode[s] = "since"
  PROVE  /\ from[s] \in Nat /\ after[s] \in Nat /\ after[s] # None
         /\ Ids(s) /\ mode[s] # None
         /\ Len(stream) \in Nat /\ trimmed \in Nat
         /\ position # None => position \in Nat /\ position <= Len(stream)
<1>1. from[s] \in Nat /\ after[s] \in Place /\ after[s] # None
  BY DEF ShapeInv, OpenShape, ReadShape, Replay
<1>2. Len(stream) \in Nat /\ trimmed \in Nat
  BY DEF ShapeInv, StreamShape
<1>3. position # None => position \in Nat /\ position <= Len(stream)
  BY DEF ShapeInv, TailShape, TailPlace, Place
<1> QED BY <1>1, <1>2, <1>3, DurableAssumption DEF Place, Ids

(* The reader stays where it is.                                           *)
LEMMA BehindKept ==
  ASSUME ShapeInv, Grown, NEW s \in Subs, mode[s] = "since", Behind(s),
         from'[s] = from[s], after'[s] = after[s],
         Given(s) \subseteq Given(s)', lost[s] \subseteq lost'[s]
  PROVE  Behind(s)'
<1>1. from[s] \in Nat /\ after[s] \in Nat
  BY Resumed
<1> SUFFICES ASSUME NEW i \in from[s] + 1 .. after[s] PROVE Gone(s, i)'
  BY DEF Behind
<1>2. Gone(s, i) /\ i \in Nat
  BY <1>1 DEF Behind
<1> QED BY <1>2, GoneKept

(* A step of the tail that is neither its put nor stopped by a close.      *)
LEMMA AheadTail ==
  ASSUME ShapeInv, NEW s \in Subs, mode[s] = "since", ~closed[s],
         Pump \/ Outage \/ StopTail, ~TailPut,
         LeftSame(s), Behind(s), Ahead(s)
  PROVE  Ahead(s)'
<1> USE DEF redis, tailVars, emitVars, openVars, bufferVars, readVars, replayVars
<1>1. /\ from[s] \in Nat /\ after[s] \in Nat /\ Ids(s) /\ mode[s] # None /\ trimmed \in Nat
      /\ position # None => position \in Nat /\ position <= Len(stream)
  BY Resumed
<1>2. Grown
  BY StreamGrows DEF ShapeInv, Next
<1>3. position \in Nat /\ position # None
  BY <1>1 DEF Ahead
<1>4. /\ Given(s)' = Given(s) /\ Buffered(s)' = Buffered(s) /\ lost'[s] = lost[s]
      /\ from'[s] = from[s]
  BY DEF LeftSame, Given, Buffered
<1>5. ASSUME NEW i \in Nat, Settled(s, i) PROVE Settled(s, i)'
  BY <1>2, <1>4, <1>5, SettledKept
<1>6. ASSUME NEW i \in from[s] + 1 .. position PROVE Settled(s, i)'
  <2>1. i \in Nat /\ Settled(s, i)
    BY <1>1, <1>3 DEF Ahead
  <2> QED BY <1>5, <2>1
<1>7. CASE position' = position /\ tail' # "handing"
  BY <1>3, <1>4, <1>6, <1>7 DEF Ahead
<1>8. CASE FixPosition
  BY <1>3, <1>8 DEF FixPosition, ShapeInv, TailPlace
<1>9. CASE Follow \/ TailRaises \/ Reconnect \/ Outage \/ StopTail
  <2>1. position' = position /\ tail' # "handing"
    BY <1>9 DEF Follow, TailRaises, Reconnect, Outage, StopTail
  <2> QED BY <1>7, <2>1
<1>10. CASE FanOut
  <2>1. position' = position /\ todo' = subs
    BY <1>10 DEF FanOut
  <2>2. s \in ToSet(subs)
    BY <1>1 DEF ShapeInv, SubsListed
  <2> QED BY <1>3, <1>4, <1>6, <2>1, <2>2 DEF Ahead
<1>11. CASE TailLook
  <2>1. /\ tail = "handing" /\ todo # <<>> /\ UNCHANGED <<position, batch>>
        /\ \/ TailSkips(Head(todo)) /\ todo' = Tail(todo)
           \/ todo' = todo
    BY <1>11 DEF TailLook
  <2>2. batch # <<>>
    BY <2>1 DEF ShapeInv, TailPlace
  <2>3. Head(batch) = batch[1] /\ batch[1] \in Nat
    BY <2>2, InHand
  <2>4. ASSUME s \notin ToSet(todo'), from[s] < batch[1] PROVE Settled(s, batch[1])'
    <3>1. CASE s \notin ToSet(todo)
      <4>1. Settled(s, batch[1])
        BY <2>1, <2>4, <3>1 DEF Ahead
      <4> QED BY <1>5, <2>1, <2>3, <4>1
    <3>2. CASE s \in ToSet(todo)
      <4>1. TailSkips(Head(todo)) /\ todo' = Tail(todo)
        BY <2>1, <2>4, <3>2
      <4>2. ToSet(todo) = ToSet(Tail(todo)) \cup {Head(todo)}
        BY <2>1, NextListed DEF ShapeInv, TailShape, TodoListed
      <4>3. TailSkips(s)
        BY <2>4, <3>2, <4>1, <4>2
      <4>4. batch[1] <= after[s]
        BY <1>1, <2>3, <4>3 DEF TailSkips
      <4>5. batch[1] \in from[s] + 1 .. after[s]
        BY <1>1, <2>3, <2>4, <4>4
      <4>6. Settled(s, batch[1])
        BY <4>5 DEF Behind, Gone, Settled
      <4> QED BY <1>5, <2>1, <2>3, <4>6
    <3> QED BY <3>1, <3>2
  <2> QED BY <1>3, <1>4, <1>6, <2>1, <2>4 DEF Ahead
<1>12. CASE TailNext
  <2>1. /\ tail = "handing" /\ todo = <<>> /\ position' = Head(batch) /\ tail' # "handing"
        /\ UNCHANGED trimmed
    BY <1>12 DEF TailNext
  <2>2. batch # <<>>
    BY <2>1 DEF ShapeInv, TailPlace
  <2>3. /\ Head(batch) = batch[1] /\ batch[1] \in Nat /\ position < batch[1]
        /\ batch[1] = position + 1 \/ batch[1] <= trimmed + 1
    BY <2>2, InHand
  <2>4. s \notin ToSet(todo)
    BY <2>1 DEF ToSet
  <2>5. ASSUME NEW i \in from[s] + 1 .. batch[1] PROVE Settled(s, i)
    <3>1. i \in Nat /\ from[s] < i /\ i <= batch[1]
      BY <1>1, <2>3
    <3>2. CASE i <= position
      BY <1>1, <1>3, <3>1, <3>2 DEF Ahead
    <3>3. CASE i = batch[1]
      BY <2>1, <2>4, <3>1, <3>3 DEF Ahead
    <3>4. CASE ~(i <= position) /\ i # batch[1]
      <4>1. i <= trimmed
        BY <1>1, <1>3, <2>3, <3>1, <3>4
      <4> QED BY <4>1 DEF Settled
    <3> QED BY <3>2, <3>3, <3>4
  <2>6. ASSUME NEW i \in from[s] + 1 .. batch[1] PROVE Settled(s, i)'
    <3>1. i \in Nat
      BY <1>1, <2>3
    <3> QED BY <1>5, <2>5, <3>1
  <2>7. position' = batch[1] /\ position' # None
    BY <2>1, <2>3, DurableAssumption
  <2> QED BY <1>4, <2>1, <2>6, <2>7 DEF Ahead
<1> QED BY <1>8, <1>9, <1>10, <1>11, <1>12 DEF Pump

(* Every step but the tail's put, for a subscription it leaves alone.      *)
LEMMA AheadKept ==
  ASSUME ShapeInv, [Next]_vars, NEW s \in Subs, mode[s] = "since", ~closed[s],
         ~Reader(s), ~TailPut, ~CloseTopic, LeftSame(s), Behind(s), Ahead(s)
  PROVE  Ahead(s)'
<1> USE DEF redis, tailVars, emitVars, openVars, bufferVars, readVars, replayVars
<1>1. CASE Pump \/ Outage \/ StopTail
  BY <1>1, AheadTail
<1>2. CASE /\ UNCHANGED <<position, batch, todo>>
           /\ tail' = "handing" => tail = "handing"
  <2>1. /\ from[s] \in Nat /\ position \in Nat /\ position # None
    BY Resumed DEF Ahead
  <2>2. Grown
    BY StreamGrows, StreamSame DEF ShapeInv, vars
  <2>3. /\ Given(s)' = Given(s) /\ Buffered(s)' = Buffered(s) /\ lost'[s] = lost[s]
        /\ from'[s] = from[s]
    BY DEF LeftSame, Given, Buffered
  <2>4. ASSUME NEW i \in Nat, Settled(s, i) PROVE Settled(s, i)'
    BY <2>2, <2>3, <2>4, SettledKept
  <2>5. ASSUME NEW i \in from[s] + 1 .. position PROVE Settled(s, i)'
    <3>1. i \in Nat /\ Settled(s, i)
      BY <2>1 DEF Ahead
    <3> QED BY <2>4, <3>1
  <2>6. ASSUME tail' = "handing", s \notin ToSet(todo'), from[s] < batch[1]
        PROVE  Settled(s, batch[1])'
    <3>1. tail = "handing" /\ Settled(s, batch[1])
      BY <1>2, <2>6 DEF Ahead
    <3>2. batch[1] \in Nat
      BY <3>1, InHand DEF ShapeInv, TailPlace
    <3> QED BY <1>2, <2>4, <3>1, <3>2
  <2> QED BY <1>2, <2>1, <2>3, <2>5, <2>6 DEF Ahead
<1>3. CASE AppendElsewhere \/ Trim \/ UNCHANGED vars
  BY <1>2, <1>3 DEF AppendElsewhere, Trim, vars
<1>4. ASSUME NEW e \in Emitters, Emitter(e) PROVE Ahead(s)'
  <2>1. UNCHANGED <<position, batch, todo, tail>>
    BY <1>4 DEF Emitter, Emit, EmitLook, EmitReturns, EmitSkips, EmitPut
  <2> QED BY <1>2, <2>1
<1>5. ASSUME NEW x \in Subs, Subscribe(x) PROVE Ahead(s)'
  <2>1. UNCHANGED <<position, batch, todo>> /\ (tail' = "handing" => tail = "handing")
    BY <1>5 DEF Subscribe
  <2> QED BY <1>2, <2>1
<1>6. ASSUME NEW x \in Subs, Close(x) \/ Reader(x) PROVE Ahead(s)'
  <2>1. UNCHANGED <<position, batch, todo, tail>>
    BY <1>6, ReaderOthers DEF Close
  <2> QED BY <1>2, <2>1
<1> QED BY <1>1, <1>3, <1>4, <1>5, <1>6 DEF Next

(* The tail puts an entry in somebody's buffer.                            *)
LEMMA HandPut ==
  ASSUME ShapeInv, NEW s \in Subs, mode[s] = "since", ~closed[s], HandedOver(s), TailPut
  PROVE  HandedOver(s)'
<1> USE DEF redis, tailVars, emitVars, openVars, readVars, replayVars
<1>1. /\ UNCHANGED <<stream, trimmed, tail, position, batch, mode, from, closed, after, got>>
      /\ UNCHANGED <<replaying, asked, page>>
      /\ tail = "handing" /\ looked /\ todo' = Tail(todo)
  BY DEF TailPut
<1>2. Grown
  BY StreamGrows DEF ShapeInv, Next, Pump
<1>3. todo # <<>> /\ todo \in Seq(Subs) /\ Opened(todo) /\ batch # <<>>
  BY <1>1 DEF ShapeInv, TailPlace, TailShape, TodoListed
<1>4. batch[1] \in Nat /\ buffer[s] \in Seq(Nat)
  BY <1>3, InHand DEF ShapeInv, BufferShape
<1>5. /\ s # Head(todo) => buffer'[s] = buffer[s] /\ lost'[s] = lost[s]
      /\ s = Head(todo) => Lands(s, batch[1])
  BY TailPutShape
<1>6. ToSet(todo) = ToSet(Tail(todo)) \cup {Head(todo)}
  BY <1>3, NextListed
<1>7. /\ Buffered(s) = ToSet(buffer[s]) /\ Buffered(s)' = ToSet(buffer'[s])
      /\ Given(s)' = Given(s)
  BY <1>1 DEF Buffered, Given, ToSet
<1>8. /\ lost[s] \subseteq lost'[s]
      /\ Buffered(s) \subseteq Buffered(s)' \cup lost'[s]
      /\ s = Head(todo) => batch[1] \in Buffered(s)' \cup lost'[s]
  <2>1. CASE buffer'[s] = buffer[s] /\ lost'[s] = lost[s] /\ s # Head(todo)
    BY <1>7, <2>1
  <2>2. CASE buffer'[s] = buffer[s] /\ lost'[s] = lost[s] \cup {batch[1]}
    BY <1>7, <2>2
  <2>3. CASE buffer'[s] = Append(buffer[s], batch[1]) /\ lost'[s] = lost[s]
    <3>1. ToSet(buffer'[s]) = ToSet(buffer[s]) \cup {batch[1]}
      BY <1>4, <2>3, PushedBack
    <3> QED BY <1>7, <2>3, <3>1
  <2>4. CASE /\ buffer[s] # <<>> /\ buffer'[s] = Append(Tail(buffer[s]), batch[1])
             /\ lost'[s] = lost[s] \cup {Head(buffer[s])}
    <3> DEFINE q == Tail(buffer[s])
    <3>1. q \in Seq(Nat) /\ ToSet(buffer[s]) = ToSet(q) \cup {Head(buffer[s])}
      BY <1>4, <2>4, TakenOff
    <3> HIDE DEF q
    <3>2. ToSet(Append(q, batch[1])) = ToSet(q) \cup {batch[1]}
      BY <1>4, <3>1, PushedBack
    <3>3. buffer'[s] = Append(q, batch[1])
      BY <2>4 DEF q
    <3>4. /\ Buffered(s) = ToSet(q) \cup {Head(buffer[s])}
          /\ Buffered(s)' = ToSet(q) \cup {batch[1]}
          /\ lost'[s] = lost[s] \cup {Head(buffer[s])}
      BY <1>7, <2>4, <3>1, <3>2, <3>3
    <3> HIDE DEF q
    <3> QED BY <3>4, Zenon
  <2>5. ASSUME s = Head(todo)
        PROVE  \/ buffer'[s] = buffer[s] /\ lost'[s] = lost[s] \cup {batch[1]}
               \/ buffer'[s] = Append(buffer[s], batch[1]) /\ lost'[s] = lost[s]
               \/ /\ buffer[s] # <<>> /\ buffer'[s] = Append(Tail(buffer[s]), batch[1])
                  /\ lost'[s] = lost[s] \cup {Head(buffer[s])}
    BY <1>5, <2>5 DEF Lands
  <2> QED BY <1>5, <2>1, <2>2, <2>3, <2>4, <2>5
<1>9. Behind(s)'
  BY <1>1, <1>2, <1>7, <1>8, BehindKept DEF HandedOver
<1>10. ASSUME Met(s)' PROVE Ahead(s)'
  <2>1. Ahead(s)
    BY <1>1, <1>10 DEF Met, HandedOver
  <2>2. /\ from[s] \in Nat /\ position \in Nat /\ position # None
    BY <2>1, Resumed DEF Ahead
  <2>3. ASSUME NEW i \in Nat, Settled(s, i) PROVE Settled(s, i)'
    BY <1>2, <1>7, <1>8, <2>3, SettledKept
  <2>4. ASSUME NEW i \in from[s] + 1 .. position PROVE Settled(s, i)'
    <3>1. i \in Nat /\ Settled(s, i)
      BY <2>1, <2>2 DEF Ahead
    <3> QED BY <2>3, <3>1
  <2>5. ASSUME s \notin ToSet(todo'), from[s] < batch[1] PROVE Settled(s, batch[1])'
    <3>1. CASE s = Head(todo)
      BY <1>1, <1>8, <3>1 DEF Settled
    <3>2. CASE s # Head(todo)
      <4>1. Settled(s, batch[1])
        BY <1>1, <1>6, <2>1, <2>5, <3>2 DEF Ahead
      <4> QED BY <1>1, <1>4, <2>3, <4>1
    <3> QED BY <3>1, <3>2
  <2> QED BY <1>1, <2>2, <2>4, <2>5 DEF Ahead
<1> QED BY <1>9, <1>10 DEF HandedOver

(* A reader in its replay.                                                 *)
LEMMA HandReplay ==
  ASSUME ShapeInv, NEW s \in Subs, mode[s] = "since", ~closed[s], HandedOver(s),
         ReplayTake(s) \/ ReplayAsk(s) \/ History(s)
  PROVE  HandedOver(s)'
<1>1. Reader(s)
  BY DEF Reader
<1>2. UNCHANGED <<stream, trimmed, tail, position, batch, todo, mode, from, closed, lost>>
  BY <1>1, ReaderOthers
<1>3. Grown
  BY <1>1, StreamGrows DEF ShapeInv, Next
<1>4. /\ from[s] \in Nat /\ after[s] \in Nat /\ Len(stream) \in Nat /\ trimmed \in Nat
      /\ position # None => position \in Nat /\ position <= Len(stream)
  BY Resumed
<1>5. None # <<>>
  <2>1. <<>> \in Seq(Nat)
    OBVIOUS
  <2> QED BY <2>1, DurableAssumption
<1>6. CASE ReplayTake(s)
  <2> DEFINE h == backlog[s][1]
  <2>1. /\ replaying[s] /\ page[s] = None /\ UNCHANGED <<replaying, page, buffer>>
        /\ h \in Nat /\ after[s] < h /\ (h = after[s] + 1 \/ h <= trimmed + 1)
        /\ after'[s] = h /\ got'[s] = Append(got[s], h) /\ h \in 1 .. Len(stream)
    BY <1>6, TakeShape
  <2>2. got[s] \in Seq(Nat)
    BY DEF ShapeInv, ReadShape
  <2> HIDE DEF h
  <2>3. ToSet(Append(got[s], h)) = ToSet(got[s]) \cup {h}
    BY <2>1, <2>2, PushedBack
  <2>4. Given(s)' = Given(s) \cup {h}
    BY <2>1, <2>3 DEF Given, ToSet
  <2>5. ASSUME NEW i \in from[s] + 1 .. h PROVE Gone(s, i)'
    <3>1. i \in Nat /\ from[s] < i /\ i <= h
      BY <1>4, <2>1
    <3>2. CASE i <= after[s]
      <4>1. Gone(s, i)
        BY <1>4, <3>1, <3>2 DEF HandedOver, Behind
      <4> QED BY <1>2, <1>3, <2>4, <3>1, <4>1, GoneKept
    <3>3. CASE i = h
      BY <2>4, <3>3 DEF Gone
    <3>4. CASE ~(i <= after[s]) /\ i # h
      <4>1. i <= trimmed
        BY <1>4, <2>1, <3>1, <3>4
      <4> QED BY <1>2, <4>1 DEF Gone
    <3> QED BY <3>2, <3>3, <3>4
  <2>6. Behind(s)'
    BY <1>2, <2>1, <2>5 DEF Behind
  <2>7. ~Met(s)'
    BY <1>5, <2>1 DEF Met
  <2> QED BY <2>6, <2>7 DEF HandedOver
<1>7. CASE ReplayAsk(s)
  <2>1. UNCHANGED <<after, got, page, buffer>> /\ page[s] = None /\ replaying'[s]
    BY <1>7, AskShape
  <2>2. Given(s)' = Given(s)
    BY <2>1 DEF Given
  <2>3. Behind(s)'
    BY <1>2, <1>3, <2>1, <2>2, BehindKept DEF HandedOver
  <2>4. ~Met(s)'
    BY <1>5, <2>1 DEF Met
  <2> QED BY <2>3, <2>4 DEF HandedOver
<1>8. CASE History(s)
  <2>1. /\ UNCHANGED <<after, got, replaying, asked, buffer>> /\ replaying[s]
        /\ page'[s] = <<>> => Len(stream) <= after[s] \/ Len(stream) <= trimmed
    BY <1>8, HistoryShape
  <2>2. Given(s)' = Given(s)
    BY <2>1 DEF Given
  <2>3. Behind(s)'
    BY <1>2, <1>3, <2>1, <2>2, BehindKept DEF HandedOver
  <2>4. ASSUME Met(s)' PROVE Ahead(s)'
    <3>1. page'[s] = <<>> /\ asked[s] = TRUE
      BY <2>1, <2>4 DEF Met
    <3>2. position # None
      BY <3>1 DEF ShapeInv, Replay
    <3>3. ASSUME NEW i \in Nat, from[s] < i, i <= Len(stream) PROVE Settled(s, i)'
      <4>1. CASE Len(stream) <= trimmed
        <5>1. i <= trimmed'
          BY <1>2, <1>4, <3>3, <4>1
        <5> QED BY <5>1 DEF Settled
      <4>2. CASE Len(stream) <= after[s]
        <5>1. i \in from'[s] + 1 .. after'[s]
          BY <1>2, <1>4, <2>1, <3>3, <4>2
        <5>2. Gone(s, i)'
          BY <2>3, <5>1 DEF Behind
        <5> QED BY <5>2 DEF Gone, Settled
      <4> QED BY <2>1, <3>1, <4>1, <4>2
    <3>4. ASSUME NEW i \in from[s] + 1 .. position PROVE Settled(s, i)'
      <4>1. i \in Nat /\ from[s] < i /\ i <= Len(stream)
        BY <1>4, <3>2
      <4> QED BY <3>3, <4>1
    <3>5. ASSUME tail = "handing", from[s] < batch[1] PROVE Settled(s, batch[1])'
      <4>1. batch[1] \in 1 .. Len(stream)
        BY <3>5, InHand DEF ShapeInv, TailPlace
      <4>2. batch[1] \in Nat /\ batch[1] <= Len(stream)
        BY <1>4, <4>1
      <4> QED BY <1>2, <3>3, <3>5, <4>2
    <3> QED BY <1>2, <3>2, <3>4, <3>5 DEF Ahead
  <2> QED BY <2>3, <2>4 DEF HandedOver
<1> QED BY <1>6, <1>7, <1>8

(* The answer to a page: the replay ends, or goes on.                      *)
LEMMA HandPage ==
  ASSUME ShapeInv, NEW s \in Subs, mode[s] = "since", ~closed[s], HandedOver(s),
         ReplayPage(s)
  PROVE  HandedOver(s)'
<1>1. Reader(s)
  BY DEF Reader
<1>2. UNCHANGED <<stream, trimmed, tail, position, batch, todo, mode, from, closed, lost>>
  BY <1>1, ReaderOthers
<1>3. Grown
  BY <1>1, StreamGrows DEF ShapeInv, Next
<1>4. /\ from[s] \in Nat /\ after[s] \in Nat
      /\ position # None => position \in Nat
  BY Resumed
<1>5. UNCHANGED <<after, got>> /\ page'[s] = None
  BY PageShape
<1>6. Given(s)' = Given(s)
  BY <1>5 DEF Given
<1>7. Behind(s)'
  BY <1>2, <1>3, <1>5, <1>6, BehindKept DEF HandedOver
<1>8. CASE ~(page[s] = <<>> /\ asked[s] = TRUE)
  <2>1. replaying'[s]
    BY <1>8, PageShape
  <2>2. None # <<>>
    <3>1. <<>> \in Seq(Nat)
      OBVIOUS
    <3> QED BY <3>1, DurableAssumption
  <2>3. ~Met(s)'
    BY <1>5, <2>1, <2>2 DEF Met
  <2> QED BY <1>7, <2>3 DEF HandedOver
<1>9. CASE page[s] = <<>> /\ asked[s] = TRUE
  <2>1. ToSet(buffer'[s]) = {x \in ToSet(buffer[s]) : x > after[s]}
    BY <1>9, PageShape
  <2>2. Buffered(s) = ToSet(buffer[s]) /\ Buffered(s)' = ToSet(buffer'[s])
    BY DEF Buffered, ToSet
  <2>3. Ahead(s)
    BY <1>9 DEF HandedOver, Met
  <2>4. ASSUME NEW i \in Nat, from[s] < i, Settled(s, i) PROVE Settled(s, i)'
    <3>1. CASE i \in Buffered(s) /\ i <= after[s]
      <4>1. i \in from[s] + 1 .. after[s]
        BY <1>4, <2>4, <3>1
      <4>2. Gone(s, i)'
        BY <1>2, <1>5, <1>7, <4>1 DEF Behind
      <4> QED BY <4>2 DEF Gone, Settled
    <3>2. CASE i \in Buffered(s) /\ i > after[s]
      BY <2>1, <2>2, <3>2 DEF Settled
    <3>3. CASE i \notin Buffered(s)
      BY <1>2, <1>6, <2>4, <3>3 DEF Settled
    <3> QED BY <1>4, <3>1, <3>2, <3>3
  <2>5. position # None /\ position \in Nat
    BY <1>4, <2>3 DEF Ahead
  <2>6. ASSUME NEW i \in from[s] + 1 .. position PROVE Settled(s, i)'
    <3>1. i \in Nat /\ from[s] < i /\ Settled(s, i)
      BY <1>4, <2>3, <2>5 DEF Ahead
    <3> QED BY <2>4, <3>1
  <2>7. ASSUME tail = "handing", s \notin ToSet(todo), from[s] < batch[1]
        PROVE  Settled(s, batch[1])'
    <3>1. batch[1] \in Nat
      BY <2>7, InHand DEF ShapeInv, TailPlace
    <3>2. Settled(s, batch[1])
      BY <2>3, <2>7 DEF Ahead
    <3> QED BY <1>2, <2>4, <2>7, <3>1, <3>2
  <2>8. Ahead(s)'
    BY <1>2, <2>5, <2>6, <2>7 DEF Ahead
  <2> QED BY <1>7, <2>8 DEF HandedOver
<1> QED BY <1>8, <1>9

(* A reader past its replay reads on.                                      *)
LEMMA HandRead ==
  ASSUME ShapeInv, NEW s \in Subs, mode[s] = "since", ~closed[s], HandedOver(s),
         Ordered(s), Read(s)
  PROVE  HandedOver(s)'
<1>1. Reader(s)
  BY DEF Reader
<1>2. UNCHANGED <<stream, trimmed, tail, position, batch, todo, mode, from, closed, lost>>
  BY <1>1, ReaderOthers
<1>3. Grown
  BY <1>1, StreamGrows DEF ShapeInv, Next
<1>4. /\ from[s] \in Nat /\ after[s] \in Nat /\ Ids(s) /\ trimmed \in Nat
      /\ position # None => position \in Nat
  BY Resumed
<1>h. PICK h : h = Head(buffer[s])
  OBVIOUS
<1>5. /\ ~replaying[s] /\ buffer[s] # <<>> /\ buffer'[s] = Tail(buffer[s])
      /\ \/ Stale(s, h) /\ UNCHANGED <<after, got>>
         \/ ~Stale(s, h) /\ got'[s] = Append(got[s], h) /\ after'[s] = h
  BY <1>4, <1>h, ReadActShape
<1>6. buffer[s] \in Seq(Nat) /\ got[s] \in Seq(Nat)
  BY DEF ShapeInv, BufferShape, ReadShape
<1>7. /\ h \in Nat /\ h \in ToSet(buffer[s])
      /\ ToSet(buffer[s]) = ToSet(Tail(buffer[s])) \cup {h}
  BY <1>5, <1>6, <1>h, TakenOff
<1>8. \A y \in ToSet(buffer[s]) : h <= y
  BY <1>5, <1>6, <1>h, RisesFrom DEF Ordered
<1>9. Buffered(s) = ToSet(buffer[s]) /\ Buffered(s)' = ToSet(Tail(buffer[s]))
  BY <1>5 DEF Buffered, ToSet
<1>10. Ahead(s) /\ Behind(s) /\ position \in Nat /\ position # None
  BY <1>4, <1>5 DEF HandedOver, Met, Ahead
<1>11. Reached(h)
  BY <1>7, <1>9 DEF Ordered
<1>12. ASSUME NEW i \in Nat, from[s] < i, i < h PROVE Gone(s, i)
  <2>1. CASE i <= position
    <3>1. Settled(s, i)
      BY <1>4, <1>10, <1>12, <2>1 DEF Ahead
    <3>2. i \notin Buffered(s)
      BY <1>7, <1>8, <1>9, <1>12
    <3> QED BY <3>1, <3>2 DEF Settled, Gone
  <2>2. CASE ~(i <= position)
    <3>1. i <= trimmed
      <4>1. CASE batch # <<>>
        <5>1. /\ batch[1] \in Nat /\ h <= batch[1]
              /\ batch[1] = position + 1 \/ batch[1] <= trimmed + 1
          BY <1>11, <4>1, InHand DEF Reached
        <5> QED BY <1>4, <1>7, <1>10, <1>12, <2>2, <5>1
      <4>2. CASE batch = <<>>
        <5>1. h <= position + 1 \/ h <= trimmed + 1
          BY <1>11, <4>2 DEF Reached
        <5> QED BY <1>4, <1>7, <1>10, <1>12, <2>2, <5>1
      <4> QED BY <4>1, <4>2
    <3> QED BY <3>1 DEF Gone
  <2> QED BY <2>1, <2>2
<1>13. /\ Given(s) \subseteq Given(s)' /\ Behind(s)'
       /\ from[s] < h => Gone(s, h)'
  <2>1. CASE Stale(s, h) /\ UNCHANGED <<after, got>>
    <3>1. Given(s)' = Given(s)
      BY <2>1 DEF Given
    <3>2. Behind(s)'
      BY <1>2, <1>3, <1>10, <2>1, <3>1, BehindKept
    <3>3. h <= after[s]
      BY <2>1 DEF Stale
    <3>4. ASSUME from[s] < h PROVE Gone(s, h)'
      <4>1. h \in from[s] + 1 .. after[s]
        BY <1>4, <1>7, <3>3, <3>4
      <4>2. Gone(s, h)
        BY <1>10, <4>1 DEF Behind
      <4> QED BY <1>2, <3>1, <4>2 DEF Gone
    <3> QED BY <3>1, <3>2, <3>4
  <2>2. CASE ~Stale(s, h) /\ got'[s] = Append(got[s], h) /\ after'[s] = h
    <3>1. ToSet(Append(got[s], h)) = ToSet(got[s]) \cup {h}
      BY <1>6, <1>7, PushedBack
    <3>2. Given(s)' = Given(s) \cup {h}
      BY <2>2, <3>1 DEF Given, ToSet
    <3>3. ASSUME NEW i \in from[s] + 1 .. h PROVE Gone(s, i)'
      <4>1. i \in Nat /\ from[s] < i /\ i <= h
        BY <1>4, <1>7
      <4>2. CASE i = h
        BY <3>2, <4>2 DEF Gone
      <4>3. CASE i # h
        <5>1. Gone(s, i)
          BY <1>7, <1>12, <4>1, <4>3
        <5> QED BY <1>2, <1>3, <3>2, <4>1, <5>1, GoneKept
      <4> QED BY <4>2, <4>3
    <3>4. Behind(s)'
      BY <1>2, <2>2, <3>3 DEF Behind
    <3> QED BY <3>2, <3>4 DEF Gone
  <2> QED BY <1>5, <2>1, <2>2
<1>14. ASSUME NEW i \in Nat, from[s] < i, Settled(s, i) PROVE Settled(s, i)'
  <2>1. CASE i = h
    BY <1>13, <1>14, <2>1 DEF Gone, Settled
  <2>2. CASE i # h
    BY <1>2, <1>7, <1>9, <1>13, <1>14, <2>2 DEF Settled
  <2> QED BY <2>1, <2>2
<1>15. ASSUME NEW i \in from[s] + 1 .. position PROVE Settled(s, i)'
  <2>1. i \in Nat /\ from[s] < i /\ Settled(s, i)
    BY <1>4, <1>10 DEF Ahead
  <2> QED BY <1>14, <2>1
<1>16. ASSUME tail = "handing", s \notin ToSet(todo), from[s] < batch[1]
       PROVE  Settled(s, batch[1])'
  <2>1. batch[1] \in Nat
    BY <1>16, InHand DEF ShapeInv, TailPlace
  <2>2. Settled(s, batch[1])
    BY <1>10, <1>16 DEF Ahead
  <2> QED BY <1>2, <1>14, <1>16, <2>1, <2>2
<1>17. Ahead(s)'
  BY <1>2, <1>10, <1>15, <1>16 DEF Ahead
<1> QED BY <1>13, <1>17 DEF HandedOver

(* Nobody has asked for anything at first.                                 *)
LEMMA InitHand == Init => HandInv
BY DurableAssumption DEF Init, HandInv

(* Every step keeps what the resumed readers are due.                      *)
LEMMA NextHand ==
  ASSUME ShapeInv, OrderInv, HandInv, [Next]_vars
  PROVE  HandInv'
<1> SUFFICES ASSUME NEW s \in Subs, mode'[s] = "since", ~closed'[s] PROVE HandedOver(s)'
  BY DEF HandInv
<1>0. closed[s] \in BOOLEAN
  BY DEF ShapeInv, OpenShape
<1>1. CASE mode'[s] = mode[s]
  <2>1. mode[s] = "since" /\ Ids(s)
    BY <1>1 DEF Ids
  <2>2. CASE Reader(s)
    <3>1. ~closed[s] /\ HandedOver(s) /\ Ordered(s)
      BY <2>1, <2>2, ReaderOthers DEF HandInv, OrderInv
    <3> QED BY <2>1, <2>2, <3>1, HandReplay, HandPage, HandRead DEF Reader
  <2>3. CASE TailPut
    <3>1. ~closed[s] /\ HandedOver(s)
      BY <2>1, <2>3 DEF TailPut, HandInv
    <3> QED BY <2>1, <2>3, <3>1, HandPut
  <2>4. CASE ~Reader(s) /\ ~TailPut
    <3>0. mode[s] # None /\ \A e \in Emitters : ~EmitPut(e, s)
      BY <2>1, DurableAssumption DEF Ids, EmitPut
    <3>1. LeftSame(s)
      BY <2>4, <3>0, LeftAlone
    <3>2. ~closed[s] /\ ~CloseTopic /\ HandedOver(s)
      BY <1>0, <2>1, <3>1 DEF LeftSame, HandInv
    <3>3. Grown
      BY StreamGrows, StreamSame DEF ShapeInv, vars, redis, tailVars
    <3>4. Given(s)' = Given(s) /\ (Met(s)' <=> Met(s))
      BY <3>1 DEF LeftSame, Given, Met
    <3>5. Behind(s)'
      BY <2>1, <3>1, <3>2, <3>3, <3>4, BehindKept DEF LeftSame, HandedOver
    <3>6. Met(s) => Ahead(s)'
      BY <2>1, <2>4, <3>1, <3>2, AheadKept DEF HandedOver
    <3> QED BY <3>4, <3>5, <3>6 DEF HandedOver
  <2> QED BY <2>2, <2>3, <2>4
<1>2. CASE mode'[s] # mode[s]
  <2>1. Subscribe(s) /\ Unopened(s) /\ replaying'[s] /\ after'[s] = from'[s]
    BY <1>2, IdsBefore, SubscribeShape
  <2>2. page'[s] = None
    BY <2>1 DEF Subscribe, Unopened
  <2>3. None # <<>>
    <3>1. <<>> \in Seq(Nat)
      OBVIOUS
    <3> QED BY <3>1, DurableAssumption
  <2>4. ~Met(s)'
    BY <2>1, <2>2, <2>3 DEF Met
  <2>5. from'[s] \in Nat
    BY NextShape DEF ShapeInv, OpenShape
  <2>6. from'[s] + 1 .. after'[s] = {}
    BY <2>1, <2>5
  <2>7. Behind(s)'
    BY <2>6 DEF Behind
  <2> QED BY <2>4, <2>7 DEF HandedOver
<1> QED BY <1>1, <1>2

(* What a resumed reader can rely on, whoever else subscribes: the types,  *)
(* strictly rising ids, and nothing missed across the switch.              *)
THEOREM ResumedSafe == Spec => [](TypeOK /\ ResumedInOrder /\ HandOverComplete)
<1> DEFINE Inv == ShapeInv /\ OrderInv /\ HandInv
<1>1. Init => Inv
  BY InitShape, InitOrder, InitHand
<1>2. Inv /\ [Next]_vars => Inv'
  BY NextShape, NextOrder, NextHand
<1>3. Inv => TypeOK
  <2> SUFFICES ASSUME ShapeInv PROVE TypeOK
    OBVIOUS
  <2>1. trimmed \in Nat
    BY DEF ShapeInv, StreamShape
  <2> QED BY <2>1 DEF ShapeInv, StreamShape, TailShape, EmitShape, OpenShape, BufferShape,
            ReadShape, TypeOK
<1>4. Inv => ResumedInOrder
  BY DEF OrderInv, Ordered, StrictlyRising, ResumedInOrder
<1>5. Inv => HandOverComplete
  <2> SUFFICES ASSUME ShapeInv, HandInv, NEW s \in Subs, mode[s] = "since",
                      ~replaying[s], ~closed[s], NEW i \in from[s] + 1 .. Len(stream),
                      position # None, i <= position
               PROVE  i \in Given(s) \cup Buffered(s) \cup lost[s] \/ i <= trimmed
    BY DEF HandOverComplete
  <2>1. from[s] \in Nat /\ position \in Nat /\ Len(stream) \in Nat
    BY Resumed
  <2>2. Ahead(s)
    BY DEF HandInv, HandedOver, Met
  <2>3. i \in from[s] + 1 .. position
    BY <2>1
  <2> QED BY <2>2, <2>3 DEF Ahead, Settled
<1> QED BY <1>1, <1>2, <1>3, <1>4, <1>5, PTL DEF Spec

-----------------------------------------------------------------------------
(* A plain subscription gets each entry once                               *)

(* Only subscribe says how a subscription is opened.                       *)
LEMMA NextOpenedAs ==
  ASSUME ShapeInv, OpenedAs, [Next]_vars
  PROVE  OpenedAs'
<1> USE DEF redis, tailVars, emitVars, openVars, bufferVars, readVars, replayVars
<1>1. CASE UNCHANGED <<mode, policy>>
  BY <1>1 DEF OpenedAs
<1>2. CASE AppendElsewhere \/ Trim \/ Outage \/ StopTail \/ UNCHANGED vars \/ CloseTopic
  <2>1. UNCHANGED <<mode, policy>>
    BY <1>2 DEF AppendElsewhere, Trim, Outage, StopTail, vars, CloseTopic
  <2> QED BY <1>1, <2>1
<1>3. CASE Pump
  <2>1. UNCHANGED <<mode, policy>>
    BY <1>3 DEF Pump, FixPosition, Follow, FanOut, TailLook, TailPut, TailRaises, TailNext,
         Reconnect
  <2> QED BY <1>1, <2>1
<1>4. ASSUME NEW e \in Emitters, Emitter(e) PROVE OpenedAs'
  <2>1. UNCHANGED <<mode, policy>>
    BY <1>4 DEF Emitter, Emit, EmitLook, EmitReturns, EmitSkips, EmitPut
  <2> QED BY <1>1, <2>1
<1>5. ASSUME NEW s \in Subs, Close(s) \/ Reader(s) PROVE OpenedAs'
  <2>1. UNCHANGED <<mode, policy>>
    BY <1>5, ReaderOthers DEF Close
  <2> QED BY <1>1, <2>1
<1>6. ASSUME NEW s \in Subs, Subscribe(s) PROVE OpenedAs'
  <2>1. PICK m \in Modes[s] : mode' = Set(mode, s, m)
    BY <1>6 DEF Subscribe
  <2>2. PICK l \in Policies[s] : policy' = Set(policy, s, l)
    BY <1>6 DEF Subscribe
  <2>3. \A x \in Subs : mode'[x] = IF x = s THEN m ELSE mode[x]
    BY <2>1 DEF ShapeInv, OpenShape, Set
  <2>4. \A x \in Subs : policy'[x] = IF x = s THEN l ELSE policy[x]
    BY <2>2 DEF ShapeInv, OpenShape, Set
  <2> QED BY <2>3, <2>4 DEF OpenedAs
<1> QED BY <1>2, <1>3, <1>4, <1>5, <1>6 DEF Next

(* The entries emitters deliver are theirs, each one's own; and what the   *)
(* tail is about to put on a plain subscription came from elsewhere.       *)
LEMMA NextEmitInv ==
  ASSUME ShapeInv, EmitInv, [Next]_vars
  PROVE  EmitInv'
<1> USE DEF redis, tailVars, openVars, bufferVars, readVars, replayVars
<1>1. Grown
  BY StreamGrows, StreamSame DEF ShapeInv, vars
<1>2. ASSUME NEW i \in 1 .. Len(stream)
      PROVE  i \in Nat /\ i \in 1 .. Len(stream') /\ stream'[i] = stream[i]
  BY <1>1 DEF Grown
<1>3. ASSUME UNCHANGED emitting
      PROVE  /\ \A e \in Emitters : emitting'[e] # None =>
                   emitting'[e] \in 1 .. Len(stream') /\ stream'[emitting'[e]] = "own"
             /\ \A e, f \in Emitters :
                   emitting'[e] # None /\ emitting'[e] = emitting'[f] => e = f
  BY <1>2, <1>3 DEF EmitInv
<1>4. ASSUME looked, looked', UNCHANGED <<todo, batch>>, ~Ids(todo[1])'
      PROVE  stream'[batch'[1]] = "other"
  <2>1. todo # <<>> /\ batch # <<>> /\ todo \in Seq(Subs) /\ Opened(todo)
    BY <1>4 DEF ShapeInv, TailPlace, TailShape, TodoListed
  <2>2. todo[1] \in Subs /\ mode[todo[1]] # None
    BY <2>1, NextListed
  <2>3. mode'[todo[1]] = mode[todo[1]]
    BY <2>2, IdsBefore
  <2>4. ~Ids(todo[1])
    BY <1>4, <2>3 DEF Ids
  <2>5. stream[batch[1]] = "other" /\ batch[1] \in 1 .. Len(stream)
    BY <1>4, <2>1, <2>4, InHand DEF EmitInv
  <2> QED BY <1>2, <1>4, <2>5
<1>5. CASE UNCHANGED <<emitting, todo, batch, looked>>
  BY <1>3, <1>4, <1>5 DEF EmitInv
<1>6. CASE AppendElsewhere \/ Trim \/ UNCHANGED vars \/ Outage \/ StopTail \/ CloseTopic
  <2>1. UNCHANGED <<emitting, todo, batch, looked>>
    BY <1>6 DEF AppendElsewhere, Trim, vars, Outage, StopTail, CloseTopic, emitVars
  <2> QED BY <1>5, <2>1
<1>7. CASE FixPosition \/ Reconnect
  <2>1. UNCHANGED <<emitting, todo, batch, looked>>
    BY <1>7 DEF FixPosition, Reconnect, emitVars
  <2> QED BY <1>5, <2>1
<1>8. CASE Follow \/ FanOut \/ TailPut \/ TailRaises \/ TailNext
  <2>1. UNCHANGED emitting
    BY <1>8 DEF Follow, FanOut, TailPut, TailRaises, TailNext, emitVars
  <2>2. ~looked'
    BY <1>8 DEF Follow, FanOut, TailPut, TailRaises, TailNext, ShapeInv, TailPlace
  <2> QED BY <1>3, <2>1, <2>2 DEF EmitInv
<1>9. CASE TailLook
  <2>1. /\ UNCHANGED <<emitting, batch, mode, stream>> /\ ~looked /\ todo # <<>>
        /\ tail = "handing"
    BY <1>9 DEF TailLook, emitVars
  <2>2. looked' => todo' = todo /\ ~TailSkips(Head(todo))
    BY <1>9, <2>1 DEF TailLook
  <2>3. batch # <<>> /\ todo \in Seq(Subs)
    BY <2>1 DEF ShapeInv, TailPlace, TailShape
  <2>4. Head(batch) = batch[1] /\ batch[1] \in 1 .. Len(stream) /\ Head(todo) = todo[1]
    BY <2>1, <2>3, InHand
  <2>5. stream[batch[1]] \in {"own", "other"}
    BY <2>4 DEF ShapeInv, StreamShape
  <2>6. ASSUME looked', ~Ids(todo[1])' PROVE stream'[batch'[1]] = "other"
    <3>1. ~Ids(todo[1])
      BY <2>1, <2>2, <2>6 DEF Ids
    <3> QED BY <2>1, <2>2, <2>4, <2>5, <2>6, <3>1 DEF TailSkips
  <2> QED BY <1>3, <2>1, <2>6 DEF EmitInv
<1>10. ASSUME NEW e \in Emitters, Emit(e) PROVE EmitInv'
  <2>1. UNCHANGED <<todo, batch, looked>> /\ emitting' = Set(emitting, e, Len(stream) + 1)
    BY <1>10 DEF Emit
  <2>2. Len(stream') = Len(stream) + 1 /\ stream'[Len(stream) + 1] = "own"
    BY <1>10, Published DEF Emit, ShapeInv
  <2>3. Len(stream) \in Nat
    BY <1>1 DEF Grown
  <2> DEFINE n == Len(stream) + 1
  <2>4. n \in Nat /\ n \in 1 .. Len(stream') /\ n \notin 1 .. Len(stream)
    BY <2>2, <2>3
  <2> HIDE DEF n
  <2>5. \A f \in Emitters : emitting'[f] = IF f = e THEN n ELSE emitting[f]
    BY <2>1 DEF ShapeInv, EmitShape, Set, n
  <2>6. stream'[n] = "own"
    BY <2>2 DEF n
  <2>7. \A f \in Emitters : emitting'[f] # None =>
           emitting'[f] \in 1 .. Len(stream') /\ stream'[emitting'[f]] = "own"
    BY <1>2, <2>4, <2>5, <2>6 DEF EmitInv
  <2>8. \A f, g \in Emitters : emitting'[f] # None /\ emitting'[f] = emitting'[g] => f = g
    BY <2>4, <2>5, DurableAssumption DEF EmitInv
  <2> QED BY <1>4, <2>1, <2>7, <2>8 DEF EmitInv
<1>11. ASSUME NEW e \in Emitters, EmitReturns(e) PROVE EmitInv'
  <2>1. UNCHANGED <<todo, batch, looked>> /\ emitting' = Set(emitting, e, None)
    BY <1>11 DEF EmitReturns
  <2>2. \A f \in Emitters : emitting'[f] = IF f = e THEN None ELSE emitting[f]
    BY <2>1 DEF ShapeInv, EmitShape, Set
  <2>3. \A f \in Emitters : emitting'[f] # None =>
           emitting'[f] \in 1 .. Len(stream') /\ stream'[emitting'[f]] = "own"
    BY <1>2, <2>2 DEF EmitInv
  <2>4. \A f, g \in Emitters : emitting'[f] # None /\ emitting'[f] = emitting'[g] => f = g
    BY <2>2 DEF EmitInv
  <2> QED BY <1>4, <2>1, <2>3, <2>4 DEF EmitInv
<1>12. ASSUME NEW e \in Emitters, NEW s \in Subs, EmitSkips(e, s) \/ EmitPut(e, s)
       PROVE  EmitInv'
  <2>1. UNCHANGED <<emitting, todo, batch, looked>>
    BY <1>12 DEF EmitSkips, EmitPut
  <2> QED BY <1>5, <2>1
<1>13. ASSUME NEW e \in Emitters, EmitLook(e) PROVE EmitInv'
  <2>1. UNCHANGED <<emitting, todo, batch, looked>>
    BY <1>13 DEF EmitLook
  <2> QED BY <1>5, <2>1
<1>14. ASSUME NEW s \in Subs, Subscribe(s) \/ Close(s) \/ Reader(s) PROVE EmitInv'
  <2>1. UNCHANGED <<emitting, todo, batch, looked>>
    BY <1>14, ReaderOthers DEF Subscribe, Close, emitVars
  <2> QED BY <1>5, <2>1
<1> QED BY <1>6, <1>7, <1>8, <1>9, <1>10, <1>11, <1>12, <1>13, <1>14 DEF Next, Pump, Emitter

(* A put of an entry that a plain subscription does not have yet.          *)
LEMMA LandsOnce ==
  ASSUME ShapeInv, NEW s \in Subs, OnceEach(s), NEW i \in 1 .. Len(stream), i \notin Has(s),
         Lands(s, i), got'[s] = got[s], UNCHANGED stream
  PROVE  OnceEach(s)' /\ Has(s)' \subseteq Has(s) \cup {i}
<1>1. buffer[s] \in Seq(Nat) /\ Len(stream) \in Nat
  BY DEF ShapeInv, BufferShape, StreamShape
<1>2. i \in Nat
  BY <1>1
<1>3. /\ Buffered(s) = ToSet(buffer[s]) /\ Buffered(s)' = ToSet(buffer'[s])
      /\ Given(s)' = Given(s)
  BY DEF Buffered, Given, ToSet
<1>4. /\ Distinct(got[s]) /\ Distinct(buffer[s])
      /\ Given(s) \cap ToSet(buffer[s]) = {}
      /\ Given(s) \cup ToSet(buffer[s]) \subseteq 1 .. Len(stream)
      /\ i \notin Given(s) /\ i \notin ToSet(buffer[s])
  BY <1>3 DEF OnceEach, Has
<1>5. Distinct(buffer'[s]) /\ ToSet(buffer'[s]) \subseteq ToSet(buffer[s]) \cup {i}
  <2>1. CASE buffer'[s] = buffer[s]
    BY <1>4, <2>1
  <2>2. CASE buffer'[s] = Append(buffer[s], i)
    BY <1>1, <1>2, <1>4, <2>2, PushedBack
  <2>3. CASE buffer[s] # <<>> /\ buffer'[s] = Append(Tail(buffer[s]), i)
    <3> DEFINE q == Tail(buffer[s])
    <3>1. q \in Seq(Nat) /\ Distinct(q) /\ ToSet(q) \subseteq ToSet(buffer[s])
      BY <1>1, <1>4, <2>3, TakenOff
    <3>2. buffer'[s] = Append(q, i)
      BY <2>3
    <3> HIDE DEF q
    <3>3. i \notin ToSet(q)
      BY <1>4, <3>1
    <3>4. Distinct(Append(q, i)) /\ ToSet(Append(q, i)) = ToSet(q) \cup {i}
      BY <1>2, <3>1, <3>3, PushedBack
    <3> QED BY <3>1, <3>2, <3>4
  <2> QED BY <2>1, <2>2, <2>3 DEF Lands
<1>6. Has(s)' = Given(s) \cup ToSet(buffer'[s]) /\ Has(s) = Given(s) \cup ToSet(buffer[s])
  BY <1>3 DEF Has
<1>7. Has(s)' \subseteq Has(s) \cup {i} /\ Has(s)' \subseteq 1 .. Len(stream')
  BY <1>4, <1>5, <1>6
<1>8. Given(s)' \cap Buffered(s)' = {}
  BY <1>3, <1>4, <1>5
<1> QED BY <1>4, <1>5, <1>7, <1>8 DEF OnceEach

(* A plain subscription's reader takes what is at the front.               *)
LEMMA ReadOnce ==
  ASSUME ShapeInv, NEW s \in Subs, mode[s] = "plain", OnceEach(s), Reader(s)
  PROVE  OnceEach(s)' /\ Has(s)' \subseteq Has(s)
<1>1. UNCHANGED stream /\ ~Ids(s)
  BY ReaderOthers DEF Ids
<1>2. Read(s)
  BY TakeShape, AskShape, HistoryShape, PageShape DEF Reader
<1> DEFINE h == Head(buffer[s])
<1>3. /\ buffer[s] # <<>> /\ buffer'[s] = Tail(buffer[s])
      /\ got'[s] = Append(got[s], h)
  BY <1>1, <1>2, ReadActShape DEF Stale
<1>4. buffer[s] \in Seq(Nat) /\ got[s] \in Seq(Nat)
  BY DEF ShapeInv, BufferShape, ReadShape
<1>5. /\ h \in Nat /\ h \in ToSet(buffer[s])
      /\ ToSet(buffer[s]) = ToSet(Tail(buffer[s])) \cup {h}
      /\ Distinct(buffer[s]) => Distinct(Tail(buffer[s])) /\ h \notin ToSet(Tail(buffer[s]))
  BY <1>3, <1>4, TakenOff
<1> HIDE DEF h
<1>6. /\ Buffered(s) = ToSet(buffer[s]) /\ Buffered(s)' = ToSet(Tail(buffer[s]))
      /\ Given(s) = ToSet(got[s]) /\ Given(s)' = ToSet(Append(got[s], h))
  BY <1>3 DEF Buffered, Given, ToSet
<1>7. Distinct(got[s]) /\ Distinct(buffer[s]) /\ ToSet(got[s]) \cap ToSet(buffer[s]) = {}
  BY <1>6 DEF OnceEach
<1>8. /\ ToSet(Append(got[s], h)) = ToSet(got[s]) \cup {h}
      /\ Distinct(Append(got[s], h))
  BY <1>4, <1>5, <1>7, PushedBack
<1>9. Has(s)' = Has(s)
  BY <1>5, <1>6, <1>8 DEF Has
<1>10. Given(s)' \cap Buffered(s)' = {}
  BY <1>5, <1>6, <1>7, <1>8
<1>11. Distinct(got'[s]) /\ Distinct(buffer'[s])
  BY <1>3, <1>5, <1>7, <1>8
<1>12. Has(s)' \subseteq 1 .. Len(stream')
  BY <1>1, <1>9 DEF OnceEach
<1> QED BY <1>9, <1>10, <1>11, <1>12 DEF OnceEach

(* What the tail has given, it is past, though it is stopped, closed or    *)
(* broken off by a subscription that raises.                               *)
LEMMA FromTailKept ==
  ASSUME ShapeInv, OpenedAs, NobodyElseRaises, [Next]_vars, ~TailPut,
         NEW s \in Subs, mode[s] = "plain", FromTail(s), OnceEach(s),
         closed[s] => closed'[s], CloseTopic => closed'[s],
         \A x \in Has(s)' : x \in Has(s) \/ stream[x] = "own",
         Has(s)' \subseteq 1 .. Len(stream)
  PROVE  FromTail(s)'
<1> USE DEF redis, tailVars, emitVars, openVars, bufferVars, readVars, replayVars
<1>1. Grown
  BY StreamGrows, StreamSame DEF ShapeInv, vars
<1> SUFFICES ASSUME ~closed'[s], NEW x \in Has(s)', stream'[x] = "other"
             PROVE  /\ position' # None
                    /\ \/ x <= position'
                       \/ tail' = "handing" /\ x = batch'[1] /\ s \notin ToSet(todo')
  BY DEF FromTail
<1>2. closed[s] \in BOOLEAN
  BY DEF ShapeInv, OpenShape
<1>3. ~closed[s] /\ ~CloseTopic
  BY <1>2
<1>4. x \in 1 .. Len(stream) /\ stream[x] = "other" /\ x \in Has(s) /\ x \in Nat
  BY <1>1 DEF Grown
<1>5. /\ position # None
      /\ x <= position \/ (tail = "handing" /\ x = batch[1] /\ s \notin ToSet(todo))
  BY <1>3, <1>4 DEF FromTail
<1>6. position \in Nat
  BY <1>5 DEF ShapeInv, TailShape, Place
<1>7. CASE UNCHANGED <<position, tail, batch, todo>>
  BY <1>5, <1>7
<1>8. CASE FixPosition
  BY <1>5, <1>8 DEF FixPosition, ShapeInv, TailPlace
<1>9. CASE Follow \/ FanOut \/ Reconnect \/ Outage \/ StopTail
  <2>1. position' = position /\ tail # "handing"
    BY <1>9 DEF Follow, FanOut, Reconnect, Outage, StopTail
  <2> QED BY <1>5, <2>1
<1>10. CASE TailLook
  <2>1. /\ UNCHANGED <<position, tail, batch>> /\ todo # <<>>
        /\ todo' = todo \/ todo' = Tail(todo)
    BY <1>10 DEF TailLook
  <2>2. ToSet(Tail(todo)) \subseteq ToSet(todo)
    BY <2>1, NextListed DEF ShapeInv, TailShape, TodoListed
  <2> QED BY <1>5, <2>1, <2>2
<1>11. CASE TailRaises
  <2>1. /\ position' = position /\ looked /\ tail = "handing"
        /\ policy[Head(todo)] = "error"
    BY <1>11 DEF TailRaises
  <2>2. todo # <<>> /\ todo \in Seq(Subs) /\ Opened(todo)
    BY <2>1 DEF ShapeInv, TailPlace, TailShape, TodoListed
  <2>3. Head(todo) \in Subs /\ mode[Head(todo)] # None /\ Head(todo) \in ToSet(todo)
    BY <2>2, NextListed
  <2>4. "error" \in Policies[Head(todo)]
    BY <2>1, <2>3 DEF OpenedAs
  <2>5. "plain" \in Modes[s]
    BY DurableAssumption DEF OpenedAs
  <2>6. s = Head(todo)
    BY <2>3, <2>4, <2>5 DEF NobodyElseRaises
  <2> QED BY <1>5, <2>1, <2>3, <2>6
<1>12. CASE TailNext
  <2>1. position' = Head(batch) /\ tail = "handing"
    BY <1>12 DEF TailNext
  <2>2. Head(batch) = batch[1] /\ batch[1] \in Nat /\ position < batch[1]
    BY <2>1, InHand DEF ShapeInv, TailPlace
  <2>3. position' # None
    BY <2>1, <2>2, DurableAssumption
  <2>4. x <= position'
    BY <1>4, <1>5, <1>6, <2>1, <2>2
  <2> QED BY <2>3, <2>4
<1>13. CASE AppendElsewhere \/ Trim \/ UNCHANGED vars
  BY <1>7, <1>13 DEF AppendElsewhere, Trim, vars
<1>14. ASSUME NEW e \in Emitters, Emitter(e) PROVE UNCHANGED <<position, tail, batch, todo>>
  BY <1>14 DEF Emitter, Emit, EmitLook, EmitReturns, EmitSkips, EmitPut
<1>15. ASSUME NEW y \in Subs, Close(y) \/ Reader(y) PROVE UNCHANGED <<position, tail, batch, todo>>
  BY <1>15, ReaderOthers DEF Close
<1>16. ASSUME NEW y \in Subs, Subscribe(y)
       PROVE  /\ UNCHANGED <<position, batch, todo>>
              /\ tail = "handing" => tail' = "handing"
  BY <1>16 DEF Subscribe
<1>17. CASE \E y \in Subs : Subscribe(y)
  <2>1. UNCHANGED <<position, batch, todo>> /\ (tail = "handing" => tail' = "handing")
    BY <1>16, <1>17
  <2> QED BY <1>5, <2>1
<1>18. CASE (\E e \in Emitters : Emitter(e)) \/ \E y \in Subs : Close(y) \/ Reader(y)
  <2>1. UNCHANGED <<position, tail, batch, todo>>
    BY <1>14, <1>15, <1>18
  <2> QED BY <1>7, <2>1
<1> QED BY <1>3, <1>8, <1>9, <1>10, <1>11, <1>12, <1>13, <1>17, <1>18 DEF Next, Pump

(* An emitter that has given its entry to a subscription is past it.       *)
LEMMA FromEmitKept ==
  ASSUME ShapeInv, EmitInv, [Next]_vars, NEW s \in Subs, FromEmit(s),
         \A e \in Emitters : ~EmitPut(e, s),
         \A x \in Has(s)' : x \in Has(s) \/ stream[x] = "other",
         Has(s)' \subseteq 1 .. Len(stream)
  PROVE  FromEmit(s)'
<1> USE DEF redis, tailVars, openVars, bufferVars, readVars, replayVars
<1>1. emitting \in [Emitters -> Place] /\ emitTodo \in [Emitters -> Seq(Subs) \cup {None}]
  BY DEF ShapeInv, EmitShape
<1>2. Len(stream) \in Nat
  BY DEF ShapeInv, StreamShape
<1>3. \A x \in Has(s)' : x \in Nat /\ x # None /\ x \in 1 .. Len(stream)
  BY <1>2, DurableAssumption
<1>4. ASSUME NEW x \in Has(s)', NEW e \in Emitters, emitting[e] = x
      PROVE  emitTodo[e] # None /\ s \notin ToSet(emitTodo[e])
  <2>1. stream[x] = "own"
    BY <1>3, <1>4 DEF EmitInv
  <2>2. x \in Has(s)
    BY <2>1
  <2> QED BY <1>4, <2>2 DEF FromEmit
<1>5. CASE UNCHANGED <<emitting, emitTodo>>
  BY <1>4, <1>5 DEF FromEmit
<1>6. ASSUME NEW e \in Emitters, Emit(e) PROVE FromEmit(s)'
  <2>1. emitting' = Set(emitting, e, Len(stream) + 1) /\ emitTodo' = Set(emitTodo, e, None)
    BY <1>6 DEF Emit
  <2>2. /\ emitting'[e] = Len(stream) + 1
        /\ \A f \in Emitters \ {e} : emitting'[f] = emitting[f] /\ emitTodo'[f] = emitTodo[f]
    BY <1>1, <2>1 DEF Set
  <2>3. Len(stream) + 1 \notin 1 .. Len(stream)
    BY <1>2
  <2> QED BY <1>3, <1>4, <2>2, <2>3 DEF FromEmit
<1>7. ASSUME NEW e \in Emitters, EmitLook(e) PROVE FromEmit(s)'
  <2>1. /\ emitTodo[e] = None /\ emitting' = emitting
        /\ emitTodo' = Set(emitTodo, e, subs)
    BY <1>7 DEF EmitLook
  <2>2. \A f \in Emitters \ {e} : emitTodo'[f] = emitTodo[f]
    BY <1>1, <2>1 DEF Set
  <2> QED BY <1>4, <2>1, <2>2 DEF FromEmit
<1>8. ASSUME NEW e \in Emitters, EmitReturns(e) PROVE FromEmit(s)'
  <2>1. emitting' = Set(emitting, e, None) /\ emitTodo' = Set(emitTodo, e, <<>>)
    BY <1>8 DEF EmitReturns
  <2>2. /\ emitting'[e] = None
        /\ \A f \in Emitters \ {e} : emitting'[f] = emitting[f] /\ emitTodo'[f] = emitTodo[f]
    BY <1>1, <2>1 DEF Set
  <2> QED BY <1>3, <1>4, <2>2 DEF FromEmit
<1>9. ASSUME NEW e \in Emitters, NEW t \in Subs, EmitSkips(e, t) \/ EmitPut(e, t)
      PROVE  FromEmit(s)'
  <2>1. /\ emitting' = emitting /\ emitTodo' = Set(emitTodo, e, Tail(emitTodo[e]))
        /\ emitTodo[e] # None /\ emitTodo[e] # <<>>
    BY <1>9 DEF EmitSkips, EmitPut, Emits
  <2>2. emitTodo[e] \in Seq(Subs) /\ Opened(emitTodo[e])
    BY <1>1, <2>1 DEF ShapeInv, EmitListed
  <2>3. Tail(emitTodo[e]) \in Seq(Subs) /\ ToSet(Tail(emitTodo[e])) \subseteq ToSet(emitTodo[e])
    BY <2>1, <2>2, NextListed
  <2>4. /\ emitTodo'[e] = Tail(emitTodo[e]) /\ Tail(emitTodo[e]) # None
        /\ \A f \in Emitters \ {e} : emitTodo'[f] = emitTodo[f]
    BY <1>1, <2>1, <2>3, DurableAssumption DEF Set
  <2> QED BY <1>4, <2>1, <2>3, <2>4 DEF FromEmit
<1>10. CASE AppendElsewhere \/ Trim \/ Outage \/ StopTail \/ UNCHANGED vars \/ CloseTopic
  <2>1. UNCHANGED <<emitting, emitTodo>>
    BY <1>10 DEF AppendElsewhere, Trim, Outage, StopTail, vars, CloseTopic, emitVars
  <2> QED BY <1>5, <2>1
<1>11. CASE Pump
  <2>1. UNCHANGED <<emitting, emitTodo>>
    BY <1>11 DEF Pump, FixPosition, Follow, FanOut, TailLook, TailPut, TailRaises, TailNext,
         Reconnect, emitVars
  <2> QED BY <1>5, <2>1
<1>12. ASSUME NEW t \in Subs, Subscribe(t) \/ Close(t) \/ Reader(t) PROVE FromEmit(s)'
  <2>1. UNCHANGED <<emitting, emitTodo>>
    BY <1>12, ReaderOthers DEF Subscribe, Close, emitVars
  <2> QED BY <1>5, <2>1
<1> QED BY <1>6, <1>7, <1>8, <1>9, <1>10, <1>11, <1>12 DEF Next, Emitter

(* An emitter gives a plain subscription its entry, for the first time.    *)
LEMMA OnceEmitted ==
  ASSUME ShapeInv, OpenedAs, NobodyElseRaises, EmitInv, NEW s \in Subs,
         mode[s] = "plain", Once(s), NEW e \in Emitters, EmitPut(e, s)
  PROVE  Once(s)'
<1> USE DEF redis, tailVars, openVars, readVars, replayVars
<1>1. /\ UNCHANGED <<stream, position, tail, batch, todo, closed, got, emitting>>
      /\ Emits(e, s) /\ emitTodo' = Set(emitTodo, e, Tail(emitTodo[e]))
  BY DEF EmitPut
<1>2. PICK i : i = emitting[e]
  OBVIOUS
<1>3. /\ i # None /\ emitTodo[e] # None /\ emitTodo[e] # <<>> /\ s = Head(emitTodo[e])
  BY <1>1, <1>2 DEF Emits
<1>4. i \in 1 .. Len(stream) /\ stream[i] = "own"
  BY <1>2, <1>3 DEF EmitInv
<1>5. /\ emitTodo \in [Emitters -> Seq(Subs) \cup {None}] /\ emitTodo[e] \in Seq(Subs)
      /\ Opened(emitTodo[e])
  BY <1>3 DEF ShapeInv, EmitShape, EmitListed
<1>6. /\ Tail(emitTodo[e]) \in Seq(Subs) /\ s \notin ToSet(Tail(emitTodo[e]))
      /\ s \in ToSet(emitTodo[e])
  BY <1>3, <1>5, NextListed
<1>7. i \notin Has(s)
  BY <1>2, <1>6 DEF Once, FromEmit
<1>8. Lands(s, i)
  BY <1>2, EmitPutShape
<1>9. OnceEach(s)' /\ Has(s)' \subseteq Has(s) \cup {i}
  BY <1>1, <1>4, <1>7, <1>8, LandsOnce DEF Once
<1>10. FromTail(s)'
  <2>1. [Next]_vars /\ ~TailPut /\ ~CloseTopic
    <3>1. [Next]_vars
      BY DEF Next, Emitter
    <3>2. ~CloseTopic
      BY <1>1 DEF CloseTopic
    <3>3. ~TailPut
      BY <1>1, <1>5, <1>3, <1>6 DEF TailPut, ShapeInv, TailShape, TailPlace, EmitPut
    <3> QED BY <3>1, <3>2, <3>3
  <2>2. Has(s)' \subseteq 1 .. Len(stream)
    BY <1>1, <1>9 DEF OnceEach
  <2>3. \A x \in Has(s)' : x \in Has(s) \/ stream[x] = "own"
    BY <1>4, <1>9
  <2> QED BY <1>1, <2>1, <2>2, <2>3, FromTailKept DEF Once
<1>11. /\ emitTodo'[e] = Tail(emitTodo[e]) /\ Tail(emitTodo[e]) # None
       /\ \A f \in Emitters \ {e} : emitTodo'[f] = emitTodo[f]
  BY <1>1, <1>5, <1>6, DurableAssumption DEF Set
<1>12. ASSUME NEW x \in Has(s)', NEW f \in Emitters, emitting[f] = x
       PROVE  emitTodo'[f] # None /\ s \notin ToSet(emitTodo'[f])
  <2>1. CASE f = e
    BY <1>6, <1>11, <2>1
  <2>2. CASE f # e
    <3>1. x # i
      BY <1>2, <1>3, <1>12, <2>2 DEF EmitInv
    <3> QED BY <1>9, <1>11, <1>12, <2>2, <3>1 DEF Once, FromEmit
  <2> QED BY <2>1, <2>2
<1>13. FromEmit(s)'
  BY <1>1, <1>12 DEF FromEmit
<1> QED BY <1>9, <1>10, <1>13 DEF Once

(* The tail gives a plain subscription an entry of another process, for    *)
(* the first time.                                                         *)
LEMMA OnceTailed ==
  ASSUME ShapeInv, EmitInv, NEW s \in Subs, mode[s] = "plain", Once(s), TailPut
  PROVE  Once(s)'
<1> USE DEF redis, tailVars, emitVars, openVars, readVars, replayVars
<1>1. /\ UNCHANGED <<stream, position, tail, batch, closed, got, emitting, emitTodo>>
      /\ todo' = Tail(todo) /\ tail = "handing" /\ looked
  BY DEF TailPut
<1>2. todo # <<>> /\ todo \in Seq(Subs) /\ Opened(todo) /\ batch # <<>>
  BY <1>1 DEF ShapeInv, TailPlace, TailShape, TodoListed
<1>3. PICK i : i = batch[1]
  OBVIOUS
<1>4. /\ i \in Nat /\ i \in 1 .. Len(stream) /\ position < i /\ position \in Nat
      /\ position # None
  BY <1>2, <1>3, InHand
<1>5. /\ Head(todo) = todo[1] /\ ToSet(todo) = ToSet(Tail(todo)) \cup {Head(todo)}
      /\ Head(todo) \notin ToSet(Tail(todo))
  BY <1>2, NextListed
<1>6. /\ s # Head(todo) => buffer'[s] = buffer[s]
      /\ s = Head(todo) => Lands(s, i)
  BY <1>3, TailPutShape
<1>7. [Next]_vars /\ ~CloseTopic /\ \A e \in Emitters : ~EmitPut(e, s)
  <2>1. [Next]_vars
    BY DEF Next, Pump
  <2>2. ~CloseTopic
    BY <1>1 DEF CloseTopic
  <2>3. ASSUME NEW e \in Emitters, EmitPut(e, s) PROVE FALSE
    BY <1>1, <1>2, <2>3 DEF EmitPut, TailPut
  <2> QED BY <2>1, <2>2, <2>3
<1>8. closed[s] \in BOOLEAN
  BY DEF ShapeInv, OpenShape
<1>9. CASE buffer'[s] = buffer[s]
  <2>1. Has(s)' = Has(s) /\ Given(s)' = Given(s) /\ Buffered(s)' = Buffered(s)
    BY <1>1, <1>9 DEF Has, Given, Buffered
  <2>2. OnceEach(s)'
    BY <1>1, <1>9, <2>1 DEF Once, OnceEach
  <2>3. FromTail(s)'
    BY <1>1, <1>5, <2>1 DEF Once, FromTail
  <2>4. FromEmit(s)'
    BY <1>1, <2>1 DEF Once, FromEmit
  <2> QED BY <2>2, <2>3, <2>4 DEF Once
<1>10. CASE buffer'[s] # buffer[s]
  <2>1. s = Head(todo) /\ Lands(s, i) /\ ~closed[s]
    BY <1>6, <1>8, <1>10 DEF Lands
  <2>2. stream[i] = "other"
    BY <1>1, <1>3, <1>5, <2>1 DEF EmitInv, Ids
  <2>3. i \notin Has(s)
    <3>1. s \in ToSet(todo) /\ ~(i <= position)
      BY <1>4, <1>5, <2>1
    <3> QED BY <1>3, <2>1, <2>2, <3>1 DEF Once, FromTail
  <2>4. OnceEach(s)' /\ Has(s)' \subseteq Has(s) \cup {i}
    BY <1>1, <1>4, <2>1, <2>3, LandsOnce DEF Once
  <2>5. FromTail(s)'
    <3> SUFFICES ASSUME NEW x \in Has(s)', stream[x] = "other"
                 PROVE  \/ x <= position
                        \/ x = batch[1] /\ s \notin ToSet(Tail(todo))
      BY <1>1, <1>4 DEF FromTail
    <3>1. CASE x = i
      BY <1>3, <1>5, <2>1, <3>1
    <3>2. CASE x \in Has(s)
      BY <1>5, <2>1, <3>2 DEF Once, FromTail
    <3> QED BY <2>4, <3>1, <3>2
  <2>6. FromEmit(s)'
    <3>1. Has(s)' \subseteq 1 .. Len(stream)
      BY <1>1, <2>4 DEF OnceEach
    <3>2. \A x \in Has(s)' : x \in Has(s) \/ stream[x] = "other"
      BY <2>2, <2>4
    <3> QED BY <1>7, <3>1, <3>2, FromEmitKept DEF Once
  <2> QED BY <2>4, <2>5, <2>6 DEF Once
<1> QED BY <1>9, <1>10

(* Every step leaves a plain subscription with each entry at most once.    *)
LEMMA NextPlain ==
  ASSUME ShapeInv, OpenedAs, NobodyElseRaises, PlainInv, [Next]_vars
  PROVE  PlainInv'
<1>1. EmitInv /\ EmitInv'
  BY NextEmitInv DEF PlainInv
<1> SUFFICES ASSUME NEW s \in Subs, mode'[s] = "plain" PROVE Once(s)'
  BY <1>1 DEF PlainInv
<1>2. CASE mode'[s] # mode[s]
  <2>1. Subscribe(s) /\ Unopened(s)
    BY <1>2, IdsBefore, SubscribeShape
  <2>2. buffer'[s] = <<>> /\ got'[s] = <<>>
    BY <2>1 DEF Subscribe, Unopened, bufferVars
  <2>3. Given(s)' = {} /\ Buffered(s)' = {} /\ Has(s)' = {} /\ Distinct(<<>>)
    BY <2>2 DEF Given, Buffered, Has, Distinct
  <2> QED BY <2>2, <2>3 DEF Once, OnceEach, FromTail, FromEmit
<1>3. CASE mode'[s] = mode[s]
  <2>1. mode[s] = "plain" /\ Once(s) /\ mode[s] # None
    BY <1>3, DurableAssumption DEF PlainInv
  <2>2. Grown
    BY StreamGrows, StreamSame DEF ShapeInv, vars, redis, tailVars
  <2>3. ASSUME OnceEach(s)', Has(s)' \subseteq Has(s), closed[s] => closed'[s],
               CloseTopic => closed'[s], ~TailPut, \A e \in Emitters : ~EmitPut(e, s)
        PROVE  Once(s)'
    <3>1. Has(s)' \subseteq 1 .. Len(stream)
      BY <2>1, <2>3 DEF Once, OnceEach
    <3>2. FromTail(s)'
      BY <2>1, <2>3, <3>1, FromTailKept DEF Once
    <3>3. FromEmit(s)'
      BY <1>1, <2>1, <2>3, <3>1, FromEmitKept DEF Once
    <3> QED BY <2>3, <3>2, <3>3 DEF Once
  <2>4. CASE Reader(s)
    <3>1. UNCHANGED <<tail, todo, looked, emitTodo, closed, emitting>>
      BY <2>4, ReaderOthers
    <3>2. OnceEach(s)' /\ Has(s)' \subseteq Has(s)
      BY <2>1, <2>4, ReadOnce DEF Once
    <3>3. ~CloseTopic
      BY <3>1 DEF CloseTopic
    <3>4. ~TailPut
      BY <3>1 DEF TailPut
    <3>5. \A e \in Emitters : ~EmitPut(e, s)
      <4>1. ASSUME NEW e \in Emitters, EmitPut(e, s) PROVE FALSE
        <5>1. Tail(emitTodo[e]) = emitTodo[e]
          BY <3>1, <4>1 DEF EmitPut, Set, ShapeInv, EmitShape
        <5>2. emitTodo[e] \in Seq(Subs) /\ emitTodo[e] # <<>>
          BY <4>1 DEF EmitPut, Emits, ShapeInv, EmitShape
        <5>3. Len(Tail(emitTodo[e])) = Len(emitTodo[e]) - 1 /\ Len(emitTodo[e]) \in Nat
          BY <5>2, TakenOff
        <5>4. Len(emitTodo[e]) = Len(emitTodo[e]) - 1
          BY <5>1, <5>3
        <5>5. \A n \in Nat : n # n - 1
          OBVIOUS
        <5> QED BY <5>3, <5>4, <5>5
      <4> QED BY <4>1
    <3> QED BY <2>3, <3>1, <3>2, <3>3, <3>4, <3>5
  <2>5. CASE TailPut
    BY <1>1, <2>1, <2>5, OnceTailed
  <2>6. CASE \E e \in Emitters : EmitPut(e, s)
    BY <1>1, <2>1, <2>6, OnceEmitted
  <2>7. CASE ~Reader(s) /\ ~TailPut /\ \A e \in Emitters : ~EmitPut(e, s)
    <3>1. LeftSame(s)
      BY <2>1, <2>7, LeftAlone
    <3>2. Given(s)' = Given(s) /\ Buffered(s)' = Buffered(s) /\ Has(s)' = Has(s)
      BY <3>1 DEF LeftSame, Given, Buffered, Has
    <3>3. Has(s)' \subseteq 1 .. Len(stream')
      BY <2>1, <2>2, <3>2 DEF Once, OnceEach, Grown
    <3>4. OnceEach(s)'
      BY <2>1, <3>1, <3>2, <3>3 DEF Once, OnceEach, LeftSame
    <3> QED BY <2>3, <2>7, <3>1, <3>2, <3>4 DEF LeftSame
  <2> QED BY <2>4, <2>5, <2>6, <2>7
<1> QED BY <1>2, <1>3

(* What the reader of a durable topic can rely on: Safety, where a plain   *)
(* subscription shares its topic with no other that raises TopicFull into  *)
(* the tail (_fan_out leaves the position before the entry it raised on).  *)
THEOREM DurableSafe ==
  ASSUME NobodyElseRaises
  PROVE  Spec => []Safety
<1> DEFINE Inv == ShapeInv /\ OpenedAs /\ PlainInv
<1>1. Init => Inv
  <2>1. Init => OpenedAs
    BY DEF Init, OpenedAs
  <2>2. Init => PlainInv
    BY DurableAssumption DEF Init, PlainInv, EmitInv
  <2> QED BY <2>1, <2>2, InitShape
<1>2. Inv /\ [Next]_vars => Inv'
  BY NextShape, NextOpenedAs, NextPlain
<1>3. ASSUME Inv, NEW s \in Subs, ~Ids(s) PROVE Distinct(got[s])
  <2>1. CASE mode[s] = "plain"
    BY <1>3, <2>1 DEF PlainInv, Once, OnceEach
  <2>2. CASE mode[s] = None
    BY <1>3, <2>2 DEF ShapeInv, Replay, Unopened, Distinct
  <2> QED BY <1>3, <2>1, <2>2 DEF ShapeInv, OpenShape, Ids
<1>4. Inv => PlainOnce
  BY <1>3 DEF PlainOnce, Distinct
<1>5. Spec => [](TypeOK /\ ResumedInOrder /\ HandOverComplete)
  BY ResumedSafe
<1>6. TypeOK /\ ResumedInOrder /\ HandOverComplete /\ PlainOnce => Safety
  BY DEF Safety
<1> QED BY <1>1, <1>2, <1>4, <1>5, <1>6, PTL DEF Spec

=============================================================================
