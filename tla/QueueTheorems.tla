--------------------------- MODULE QueueTheorems ---------------------------
(***************************************************************************)
(* Lemmas about the operations of the play queue (QueueModel), for queues  *)
(* of any length: what each does to the entries, to the permutation and to *)
(* the pointer.                                                            *)
(***************************************************************************)
EXTENDS QueueModel, FiniteSetTheorems, SequenceTheorems, WellFoundedInduction, TLAPS

-----------------------------------------------------------------------------
(* Ranks: the places kept, in their order.                                   *)

LEMMA RankIs ==
  ASSUME NEW n \in Nat, NEW P \in SUBSET (1 .. n)
  PROVE  /\ IsFiniteSet(P) /\ Cardinality(P) \in Nat /\ Cardinality(P) <= n
         /\ \A i \in P : Rank(P, i) \in 1 .. Cardinality(P) /\ Rank(P, i) <= i
         /\ \A i \in 1 .. n : Rank(P, i) \in 0 .. Cardinality(P)
         /\ \A i \in P, j \in P : i < j => Rank(P, i) < Rank(P, j)
<1>0. \A j \in P : j \in Nat /\ j \in 1 .. n
  OBVIOUS
<1>1. IsFiniteSet(P) /\ Cardinality(P) \in Nat /\ Cardinality(P) <= n
  <2>1. IsFiniteSet(1 .. n) /\ Cardinality(1 .. n) = n
    BY FS_Interval
  <2> QED
    BY <2>1, FS_Subset, FS_CardinalityType
<1> DEFINE below(i) == {j \in P : j <= i}
<1>2. \A i \in 1 .. n : IsFiniteSet(below(i)) /\ Rank(P, i) \in 0 .. Cardinality(P)
                        /\ Rank(P, i) = Cardinality(below(i))
  <2> TAKE i \in 1 .. n
  <2>1. below(i) \in SUBSET P
    OBVIOUS
  <2>2. IsFiniteSet(below(i)) /\ Cardinality(below(i)) <= Cardinality(P)
    BY <1>1, <2>1, FS_Subset
  <2>3. Cardinality(below(i)) \in Nat
    BY <2>2, FS_CardinalityType
  <2> QED
    BY <1>1, <2>2, <2>3 DEF Rank
<1>3. \A i \in P : Rank(P, i) # 0 /\ Rank(P, i) <= i
  <2> TAKE i \in P
  <2>1. i \in below(i) /\ IsFiniteSet(below(i))
    BY <1>2
  <2>2. Cardinality(below(i)) # 0
    BY <2>1, FS_EmptySet
  <2>3. below(i) \in SUBSET (1 .. i) /\ i \in Nat
    <3>1. \A j \in P : j <= i => j \in 1 .. i
      BY <1>0
    <3>2. i \in Nat
      BY <1>0
    <3> QED
      BY <3>1, <3>2
  <2>4. IsFiniteSet(1 .. i) /\ Cardinality(1 .. i) = i
    BY <2>3, FS_Interval
  <2>5. Cardinality(below(i)) <= i
    BY <2>3, <2>4, FS_Subset
  <2> QED
    BY <2>2, <2>5, <1>0, <1>2
<1>4. ASSUME NEW i \in P, NEW j \in P, i < j PROVE Rank(P, i) < Rank(P, j)
  <2>1. below(i) \cup {j} \in SUBSET below(j) /\ j \notin below(i)
    <3>1. ~(j <= i) /\ j <= j /\ \A k \in P : k <= i => k <= j
      BY <1>0, <1>4
    <3> QED
      BY <3>1
  <2>2. Cardinality(below(i) \cup {j}) = Cardinality(below(i)) + 1
    BY <2>1, <1>2, FS_AddElement
  <2>3. Cardinality(below(i) \cup {j}) <= Cardinality(below(j))
    BY <2>1, <1>2, FS_Subset
  <2> QED
    BY <1>0, <1>2, <2>2, <2>3
<1> HIDE DEF below
<1>5. \A i \in P : Rank(P, i) \in 1 .. Cardinality(P)
  BY <1>0, <1>1, <1>2, <1>3
<1> QED
  BY <1>1, <1>2, <1>3, <1>4, <1>5

\* Every rank is that of one place.
LEMMA RankIsOnto ==
  ASSUME NEW n \in Nat, NEW P \in SUBSET (1 .. n), NEW k \in 1 .. Cardinality(P)
  PROVE  \E i \in P : Rank(P, i) = k
<1>1. /\ IsFiniteSet(P) /\ Cardinality(P) \in Nat
      /\ \A i \in P : Rank(P, i) \in 1 .. Cardinality(P)
      /\ \A i \in P, j \in P : i < j => Rank(P, i) < Rank(P, j)
  BY RankIs
<1> DEFINE f == [i \in P |-> Rank(P, i)]
           T == 1 .. Cardinality(P)
<1>2. f \in [P -> T]
  BY <1>1
<1>3. \A i, j \in P : f[i] = f[j] => i = j
  BY <1>1
<1>4. f \in Injection(P, T)
  BY <1>2, <1>3 DEF Injection, IsInjective
<1>5. IsFiniteSet(T) /\ Cardinality(T) = Cardinality(P)
  BY <1>1, FS_Interval
<1>6. f \in Surjection(P, T)
  BY <1>4, <1>5, FS_Injection
<1>7. \A t \in T : \E i \in P : f[i] = t
  BY <1>6 DEF Surjection
<1> QED
  BY <1>7

LEMMA RankOfInitial ==
  ASSUME NEW n \in Nat, NEW i \in 1 .. n
  PROVE  Rank(1 .. n, i) = i
<1>1. {j \in 1 .. n : j <= i} = 1 .. i
  OBVIOUS
<1>2. Cardinality(1 .. i) = i
  BY FS_Interval
<1> QED
  BY <1>1, <1>2 DEF Rank

\* The laws of sequences below are named, and cited unexpanded: each gives the
\* provers a new sequence, to which they would otherwise apply it again.

\* A selection keeps the elements at the places, in their order.
Placed(u, S, s, P) ==
    /\ u \in Seq(S)
    /\ Len(u) = Cardinality(P)
    /\ Cardinality(P) \in Nat /\ Cardinality(P) <= Len(s)
    /\ \A i \in P : Rank(P, i) \in 1 .. Cardinality(P) /\ u[Rank(P, i)] = s[i]
    /\ \A i \in P, j \in P : i < j => Rank(P, i) < Rank(P, j)
    /\ \A k \in 1 .. Cardinality(P) : \E i \in P : Rank(P, i) = k /\ u[k] = s[i]

LEMMA AtPlacesIs ==
  ASSUME NEW S, NEW s \in Seq(S), NEW P \in SUBSET (1 .. Len(s))
  PROVE  Placed(AtPlaces(s, P), S, s, P)
<1> DEFINE n == Len(s)
           at(k) == CHOOSE i \in P : Rank(P, i) = k
<1>1. n \in Nat /\ P \in SUBSET (1 .. n) /\ \A i \in P : s[i] \in S
  OBVIOUS
<1> HIDE DEF n
<1>2. /\ Cardinality(P) \in Nat /\ Cardinality(P) <= n
      /\ \A i \in P : Rank(P, i) \in 1 .. Cardinality(P)
      /\ \A i \in P, j \in P : i < j => Rank(P, i) < Rank(P, j)
  BY <1>1, RankIs
<1>3. \A k \in 1 .. Cardinality(P) : at(k) \in P /\ Rank(P, at(k)) = k
  BY <1>1, RankIsOnto
<1>4. AtPlaces(s, P) = [k \in 1 .. Cardinality(P) |-> s[at(k)]]
  BY DEF AtPlaces
<1> HIDE DEF at
<1>5. AtPlaces(s, P) \in Seq(S) /\ Len(AtPlaces(s, P)) = Cardinality(P)
  <2>1. \A k \in 1 .. Cardinality(P) : s[at(k)] \in S
    BY <1>1, <1>3
  <2> QED
    BY <1>2, <1>4, <2>1, IsASeq
<1>6. \A i, j \in P : Rank(P, i) = Rank(P, j) => i = j
  BY <1>1, <1>2
<1>7. \A i \in P : at(Rank(P, i)) = i
  BY <1>2, <1>3, <1>6
<1> QED
  BY <1>2, <1>3, <1>4, <1>5, <1>7 DEF n, Placed

\* Only order and membership matter: the elements kept of a set.
LEMMA KeptIs ==
  ASSUME NEW S, NEW s \in Seq(S), NEW K
  PROVE  /\ Kept(s, K) \in Seq(S)
         /\ Len(Kept(s, K)) \in Nat /\ Len(Kept(s, K)) <= Len(s)
         /\ \A k \in 1 .. Len(Kept(s, K)) :
               \E i \in 1 .. Len(s) : s[i] \in K /\ Kept(s, K)[k] = s[i]
<1> DEFINE P == {i \in DOMAIN s : s[i] \in K}
<1>1. DOMAIN s = 1 .. Len(s) /\ P \in SUBSET (1 .. Len(s))
  OBVIOUS
<1> QED
  BY <1>1, AtPlacesIs DEF Kept, Placed

-----------------------------------------------------------------------------
(* Sequences, pointwise.                                                     *)

Part(u, S, s, a, b) ==
    /\ u \in Seq(S)
    /\ Len(u) = IF a <= b THEN b - a + 1 ELSE 0
    /\ \A i \in 1 .. b - a + 1 : u[i] = s[a + i - 1]

LEMMA PartIs ==
  ASSUME NEW S, NEW s \in Seq(S), NEW a \in Nat, NEW b \in Nat, 1 <= a, b <= Len(s)
  PROVE  Part(SubSeq(s, a, b), S, s, a, b)
<1>1. \A i \in a .. b : s[i] \in S
  OBVIOUS
<1>2. /\ SubSeq(s, a, b) \in Seq(S)
      /\ Len(SubSeq(s, a, b)) = IF a <= b THEN b - a + 1 ELSE 0
      /\ \A i \in 1 .. b - a + 1 : SubSeq(s, a, b)[i] = s[a + i - 1]
  BY <1>1, SubSeqProperties
<1> QED
  BY <1>2 DEF Part

Spliced(u, S, s, pos, t) ==
    /\ u \in Seq(S)
    /\ Len(u) = Len(s) + Len(t)
    /\ \A i \in 1 .. pos : u[i] = s[i]
    /\ \A i \in 1 .. Len(t) : u[pos + i] = t[i]
    /\ \A i \in pos + 1 .. Len(s) : u[i + Len(t)] = s[i]

LEMMA SpliceIs ==
  ASSUME NEW S, NEW s \in Seq(S), NEW t \in Seq(S), NEW pos \in 0 .. Len(s)
  PROVE  Spliced(Splice(s, pos, t), S, s, pos, t)
<1> DEFINE front == SubSeq(s, 1, pos)
           back == SubSeq(s, pos + 1, Len(s))
           n == Len(s)
           m == Len(t)
<1>0. n \in Nat /\ m \in Nat /\ pos \in Nat /\ pos <= n
  OBVIOUS
<1>1. /\ front \in Seq(S) /\ Len(front) = pos
      /\ \A i \in 1 .. pos : front[i] = s[i]
  <2>1. /\ front \in Seq(S) /\ Len(front) = IF 1 <= pos THEN pos - 1 + 1 ELSE 0
        /\ \A i \in 1 .. pos - 1 + 1 : front[i] = s[1 + i - 1]
    BY <1>0, PartIs DEF Part
  <2> HIDE DEF front
  <2> QED
    BY <1>0, <2>1
<1>2. /\ back \in Seq(S) /\ Len(back) = n - pos
      /\ \A i \in 1 .. n - pos : back[i] = s[pos + i]
  <2>1. /\ back \in Seq(S) /\ Len(back) = IF pos + 1 <= n THEN n - (pos + 1) + 1 ELSE 0
        /\ \A i \in 1 .. n - (pos + 1) + 1 : back[i] = s[(pos + 1) + i - 1]
    BY <1>0, PartIs DEF Part
  <2> HIDE DEF back, n
  <2>2. n - (pos + 1) + 1 = n - pos /\ \A i \in 1 .. n - pos : (pos + 1) + i - 1 = pos + i
    BY <1>0
  <2>3. pos + 1 <= n \/ n = pos
    BY <1>0
  <2> QED
    BY <1>0, <2>1, <2>2, <2>3
<1>3. Splice(s, pos, t) = (front \o t) \o back
  BY DEF Splice
<1> HIDE DEF front, back, n, m
<1> DEFINE ft == front \o t
<1>4. /\ ft \in Seq(S) /\ Len(ft) = pos + m
      /\ \A i \in 1 .. pos + m : ft[i] = IF i <= pos THEN front[i] ELSE t[i - pos]
  BY <1>0, <1>1, ConcatProperties DEF m
<1> HIDE DEF ft
<1>5. /\ ft \o back \in Seq(S) /\ Len(ft \o back) = n + m
      /\ \A i \in 1 .. n + m : (ft \o back)[i] = IF i <= pos + m THEN ft[i] ELSE back[i - (pos + m)]
  <2>1. /\ ft \o back \in Seq(S) /\ Len(ft \o back) = Len(ft) + Len(back)
        /\ \A i \in 1 .. Len(ft) + Len(back) :
              (ft \o back)[i] = IF i <= Len(ft) THEN ft[i] ELSE back[i - Len(ft)]
    BY <1>2, <1>4, ConcatProperties
  <2>2. Len(ft) + Len(back) = n + m
    BY <1>0, <1>2, <1>4
  <2> QED
    BY <1>4, <2>1, <2>2
<1>6. ASSUME NEW i \in 1 .. pos PROVE (ft \o back)[i] = s[i]
  <2>1. i \in 1 .. n + m /\ i \in 1 .. pos + m /\ i <= pos + m /\ i <= pos
    BY <1>0
  <2> QED
    BY <1>1, <1>4, <1>5, <2>1
<1>7. ASSUME NEW i \in 1 .. m PROVE (ft \o back)[pos + i] = t[i]
  <2>1. /\ pos + i \in 1 .. n + m /\ pos + i \in 1 .. pos + m /\ pos + i <= pos + m
        /\ ~(pos + i <= pos) /\ (pos + i) - pos = i
    BY <1>0
  <2> QED
    BY <1>4, <1>5, <2>1
<1>8. ASSUME NEW i \in pos + 1 .. n PROVE (ft \o back)[i + m] = s[i]
  <2>1. /\ i + m \in 1 .. n + m /\ ~(i + m <= pos + m) /\ (i + m) - (pos + m) = i - pos
        /\ i - pos \in 1 .. n - pos /\ pos + (i - pos) = i
    BY <1>0
  <2> QED
    BY <1>2, <1>5, <2>1
<1> QED
  BY <1>3, <1>5, <1>6, <1>7, <1>8 DEF n, m, ft, Spliced

Removed(u, S, s, at) ==
    /\ u \in Seq(S)
    /\ Len(u) = Len(s) - 1
    /\ \A i \in 1 .. at - 1 : u[i] = s[i]
    /\ \A i \in at .. Len(s) - 1 : u[i] = s[i + 1]

LEMMA RemoveAtIs ==
  ASSUME NEW S, NEW s \in Seq(S), NEW at \in 1 .. Len(s)
  PROVE  Removed(RemoveAt(s, at), S, s, at)
<1> DEFINE front == SubSeq(s, 1, at - 1)
           back == SubSeq(s, at + 1, Len(s))
           n == Len(s)
<1>0. n \in Nat /\ at \in Nat /\ 1 <= at /\ at <= n /\ at - 1 \in Nat /\ at - 1 <= n
  OBVIOUS
<1>1. /\ front \in Seq(S) /\ Len(front) = at - 1
      /\ \A i \in 1 .. at - 1 : front[i] = s[i]
  <2>1. /\ front \in Seq(S) /\ Len(front) = IF 1 <= at - 1 THEN (at - 1) - 1 + 1 ELSE 0
        /\ \A i \in 1 .. (at - 1) - 1 + 1 : front[i] = s[1 + i - 1]
    BY <1>0, PartIs DEF Part
  <2> HIDE DEF front
  <2> QED
    BY <1>0, <2>1
<1>2. /\ back \in Seq(S) /\ Len(back) = n - at
      /\ \A i \in 1 .. n - at : back[i] = s[at + i]
  <2>1. /\ back \in Seq(S) /\ Len(back) = IF at + 1 <= n THEN n - (at + 1) + 1 ELSE 0
        /\ \A i \in 1 .. n - (at + 1) + 1 : back[i] = s[(at + 1) + i - 1]
    BY <1>0, PartIs DEF Part
  <2> HIDE DEF back, n
  <2>2. n - (at + 1) + 1 = n - at /\ \A i \in 1 .. n - at : (at + 1) + i - 1 = at + i
    BY <1>0
  <2>3. at + 1 <= n \/ n = at
    BY <1>0
  <2> QED
    BY <1>0, <2>1, <2>2, <2>3
<1>3. RemoveAt(s, at) = front \o back
  BY DEF RemoveAt
<1> HIDE DEF front, back, n
<1>4. /\ front \o back \in Seq(S) /\ Len(front \o back) = n - 1
      /\ \A i \in 1 .. n - 1 : (front \o back)[i] = IF i <= at - 1 THEN front[i] ELSE back[i - (at - 1)]
  <2>1. /\ front \o back \in Seq(S) /\ Len(front \o back) = Len(front) + Len(back)
        /\ \A i \in 1 .. Len(front) + Len(back) :
              (front \o back)[i] = IF i <= Len(front) THEN front[i] ELSE back[i - Len(front)]
    BY <1>1, <1>2, ConcatProperties
  <2>2. Len(front) + Len(back) = n - 1
    BY <1>0, <1>1, <1>2
  <2> QED
    BY <1>1, <2>1, <2>2
<1>5. ASSUME NEW i \in 1 .. at - 1 PROVE (front \o back)[i] = s[i]
  <2>1. i \in 1 .. n - 1 /\ i <= at - 1
    BY <1>0
  <2> QED
    BY <1>1, <1>4, <2>1
<1>6. ASSUME NEW i \in at .. n - 1 PROVE (front \o back)[i] = s[i + 1]
  <2>1. /\ i \in 1 .. n - 1 /\ ~(i <= at - 1) /\ i - (at - 1) \in 1 .. n - at
        /\ at + (i - (at - 1)) = i + 1
    BY <1>0
  <2> QED
    BY <1>2, <1>4, <2>1
<1> QED
  BY <1>3, <1>4, <1>5, <1>6 DEF n, Removed

LEMMA RemapAt ==
  ASSUME NEW p \in Nat, NEW a \in Nat, NEW b \in Nat
  PROVE  RemapQueueIndex(p, a, b) =
               IF p = a THEN b
               ELSE IF a < b /\ a < p /\ p <= b THEN p - 1
               ELSE IF b < a /\ b <= p /\ p < a THEN p + 1 ELSE p
<1> DEFINE C1 == p = a
           C2 == p # a /\ a < b /\ p \in a .. b
           C3 == p # a /\ b < a /\ p \in b .. a
<1>1. RemapQueueIndex(p, a, b) = CASE C1 -> b [] C2 -> p - 1 [] C3 -> p + 1 [] OTHER -> p
  BY DEF RemapQueueIndex
<1>2. /\ C1 => ~C2 /\ ~C3
      /\ C2 => ~C3
      /\ C2 <=> ~C1 /\ a < b /\ a < p /\ p <= b
      /\ C3 <=> ~C1 /\ b < a /\ b <= p /\ p < a
  OBVIOUS
<1> HIDE DEF C1, C2, C3
<1>3. RemapQueueIndex(p, a, b) = IF C1 THEN b ELSE IF C2 THEN p - 1 ELSE IF C3 THEN p + 1 ELSE p
  BY <1>1, <1>2
<1> QED
  BY <1>2, <1>3 DEF C1

\* It is a permutation of the positions.
Remaps(n, a, b) ==
    /\ \A p \in 0 .. n - 1 : RemapQueueIndex(p, a, b) \in 0 .. n - 1
    /\ \A p, r \in 0 .. n - 1 : RemapQueueIndex(p, a, b) = RemapQueueIndex(r, a, b) => p = r
    /\ \A k \in 0 .. n - 1 : \E p \in 0 .. n - 1 : RemapQueueIndex(p, a, b) = k

LEMMA RemapIs ==
  ASSUME NEW n \in Nat, NEW a \in 0 .. n - 1, NEW b \in 0 .. n - 1
  PROVE  Remaps(n, a, b)
<1>1. ASSUME NEW p \in 0 .. n - 1
      PROVE  RemapQueueIndex(p, a, b) =
               IF p = a THEN b
               ELSE IF a < b /\ a < p /\ p <= b THEN p - 1
               ELSE IF b < a /\ b <= p /\ p < a THEN p + 1 ELSE p
  BY RemapAt
<1>2. \A p \in 0 .. n - 1 : RemapQueueIndex(p, a, b) \in 0 .. n - 1
  BY <1>1
<1>3. \A p, r \in 0 .. n - 1 : RemapQueueIndex(p, a, b) = RemapQueueIndex(r, a, b) => p = r
  BY <1>1
<1>4. ASSUME NEW k \in 0 .. n - 1
      PROVE  \E p \in 0 .. n - 1 : RemapQueueIndex(p, a, b) = k
  <2> DEFINE p == IF k = b THEN a
                  ELSE IF a < b /\ a <= k /\ k < b THEN k + 1
                  ELSE IF b < a /\ b < k /\ k <= a THEN k - 1 ELSE k
  <2>1. p \in 0 .. n - 1
    OBVIOUS
  <2>2. RemapQueueIndex(p, a, b) = k
    BY <1>1, <2>1
  <2> QED
    BY <2>1, <2>2
<1> QED
  BY <1>2, <1>3, <1>4 DEF Remaps

\* Every entry moves to where RemapQueueIndex sends it.
MovedEntries(u, S, s, a, b) ==
    /\ u \in Seq(S)
    /\ Len(u) = Len(s)
    /\ \A p \in 0 .. Len(s) - 1 : u[RemapQueueIndex(p, a, b) + 1] = s[p + 1]

LEMMA MovedIs ==
  ASSUME NEW S, NEW s \in Seq(S), NEW a \in 0 .. Len(s) - 1, NEW b \in 0 .. Len(s) - 1
  PROVE  MovedEntries(Moved(s, a, b), S, s, a, b)
<1> DEFINE n == Len(s)
           r == RemoveAt(s, a + 1)
           x == s[a + 1]
           y == <<x>>
           m == Splice(r, b, y)
<1>0. n \in Nat /\ a \in Nat /\ b \in Nat /\ a < n /\ b < n /\ a + 1 \in 1 .. n /\ x \in S
  OBVIOUS
<1>1. /\ r \in Seq(S) /\ Len(r) = n - 1
      /\ \A i \in 1 .. a : r[i] = s[i]
      /\ \A i \in a + 1 .. n - 1 : r[i] = s[i + 1]
  <2>1. Removed(r, S, s, a + 1)
    BY <1>0, RemoveAtIs
  <2>2. (a + 1) - 1 = a
    BY <1>0
  <2> HIDE DEF r
  <2> QED
    BY <2>1, <2>2 DEF Removed
<1>2. y \in Seq(S) /\ Len(y) = 1 /\ y[1] = x
  BY <1>0
<1> HIDE DEF r, n, x, y
<1>3. Spliced(m, S, r, b, y)
  <2>1. b \in 0 .. Len(r)
    BY <1>0, <1>1
  <2> QED
    BY <1>1, <1>2, <2>1, SpliceIs
<1>4. Moved(s, a, b) = m
  BY DEF Moved, r, x, y
<1> HIDE DEF m
<1>5. /\ m \in Seq(S) /\ Len(m) = n
      /\ \A i \in 1 .. b : m[i] = r[i]
      /\ m[b + 1] = x
      /\ \A i \in b + 1 .. n - 1 : m[i + 1] = r[i]
  <2>1. (n - 1) + 1 = n /\ 1 \in 1 .. 1
    BY <1>0
  <2> QED
    BY <1>1, <1>2, <1>3, <2>1 DEF Spliced
<1>6. ASSUME NEW p \in 0 .. n - 1 PROVE m[RemapQueueIndex(p, a, b) + 1] = s[p + 1]
  <2>0. p \in Nat /\ p < n
    BY <1>0
  <2>1. RemapQueueIndex(p, a, b) =
               IF p = a THEN b
               ELSE IF a < b /\ a < p /\ p <= b THEN p - 1
               ELSE IF b < a /\ b <= p /\ p < a THEN p + 1 ELSE p
    BY <1>0, <2>0, RemapAt
  <2>2. CASE p = a
    BY <1>5, <2>1, <2>2 DEF x
  <2>3. CASE a < b /\ a < p /\ p <= b
    <3>1. p \in 1 .. b /\ p \in a + 1 .. n - 1 /\ (p - 1) + 1 = p /\ p # a
      BY <1>0, <2>0, <2>3
    <3> QED
      BY <1>1, <1>5, <2>1, <2>3, <3>1
  <2>4. CASE b < a /\ b <= p /\ p < a
    <3>1. p + 1 \in b + 1 .. n - 1 /\ p + 1 \in 1 .. a /\ p # a /\ ~(a < b)
      BY <1>0, <2>0, <2>4
    <3> QED
      BY <1>1, <1>5, <2>1, <2>4, <3>1
  <2>5. CASE p < a /\ p < b
    <3>1. p + 1 \in 1 .. b /\ p + 1 \in 1 .. a /\ RemapQueueIndex(p, a, b) = p
      BY <1>0, <2>0, <2>1, <2>5
    <3> QED
      BY <1>1, <1>5, <3>1
  <2>6. CASE a < p /\ b < p
    <3>1. p \in b + 1 .. n - 1 /\ p \in a + 1 .. n - 1 /\ RemapQueueIndex(p, a, b) = p
      BY <1>0, <2>0, <2>1, <2>6
    <3> QED
      BY <1>1, <1>5, <3>1
  <2> QED
    BY <1>0, <2>0, <2>2, <2>3, <2>4, <2>5, <2>6
<1> QED
  BY <1>4, <1>5, <1>6 DEF n, MovedEntries

-----------------------------------------------------------------------------
(* Permutations.                                                             *)

\* order is a permutation of 0 .. n - 1, without counting: what Covers says.
Permutes(order, n) ==
    /\ Len(order) = n
    /\ \A i \in 1 .. n : order[i] \in 0 .. n - 1
    /\ \A i, j \in 1 .. n : order[i] = order[j] => i = j

LEMMA PermutesIsOnto ==
  ASSUME NEW n \in Nat, NEW o \in Seq(Nat), Permutes(o, n)
  PROVE  \A k \in 0 .. n - 1 : \E i \in 1 .. n : o[i] = k
<1> DEFINE D == 1 .. n
           T == 0 .. n - 1
<1>1. /\ Len(o) = n
      /\ \A i \in 1 .. n : o[i] \in 0 .. n - 1
      /\ \A i, j \in 1 .. n : o[i] = o[j] => i = j
  BY DEF Permutes
<1>2. o \in [D -> T] /\ \A i, j \in D : o[i] = o[j] => i = j
  BY <1>1
<1>3. o \in Injection(D, T)
  BY <1>2 DEF Injection, IsInjective
<1>4. IsFiniteSet(D) /\ Cardinality(D) = n
  BY FS_Interval
<1>5. IsFiniteSet(T) /\ Cardinality(T) = n
  <2>1. IsFiniteSet(T) /\ Cardinality(T) = IF 0 > n - 1 THEN 0 ELSE (n - 1) - 0 + 1
    BY FS_Interval
  <2> QED
    BY <2>1
<1>6. o \in Surjection(D, T)
  BY <1>3, <1>4, <1>5, FS_Injection
<1> QED
  BY <1>6 DEF Surjection

LEMMA CoversPermutes ==
  ASSUME NEW n \in Nat, NEW o \in Seq(Nat)
  PROVE  Covers(o, n) <=> Permutes(o, n)
<1> DEFINE D == 1 .. n
           T == 0 .. n - 1
<1>1. Len(o) \in Nat /\ DOMAIN o = 1 .. Len(o)
  OBVIOUS
<1>2. ASSUME Covers(o, n) PROVE Permutes(o, n)
  <2>1. Len(o) = n /\ ToSet(o) = T
    BY <1>2 DEF Covers
  <2>2. o \in [D -> T]
    BY <1>1, <2>1 DEF ToSet
  <2>3. \A k \in T : \E i \in D : o[i] = k
    BY <1>1, <2>1 DEF ToSet
  <2>4. o \in Surjection(D, T)
    BY <2>2, <2>3 DEF Surjection
  <2>5. IsFiniteSet(D) /\ Cardinality(D) = n
    BY FS_Interval
  <2>6. Cardinality(T) = n
    <3>1. Cardinality(T) = IF 0 > n - 1 THEN 0 ELSE (n - 1) - 0 + 1
      BY FS_Interval
    <3> QED
      BY <3>1
  <2>7. o \in Injection(D, T)
    BY <2>4, <2>5, <2>6, FS_SurjSameCardinalityImpliesInj
  <2> QED
    BY <2>1, <2>2, <2>7 DEF Permutes, Injection, IsInjective
<1>3. ASSUME Permutes(o, n) PROVE Covers(o, n)
  <2>1. \A k \in T : \E i \in D : o[i] = k
    BY <1>3, PermutesIsOnto
  <2>2. Len(o) = n /\ \A i \in D : o[i] \in T
    BY <1>3 DEF Permutes
  <2>3. ToSet(o) = T
    BY <1>1, <2>1, <2>2 DEF ToSet
  <2> QED
    BY <2>2, <2>3 DEF Covers
<1> QED
  BY <1>2, <1>3
-----------------------------------------------------------------------------
(* Queues.                                                                   *)

QueueRecord(T) ==
    [items : Seq(T), history : Seq(Nat), shuffle : BOOLEAN,
     order : Seq(Nat), current : Nat, loop : LoopModes]

\* While shuffling the order is a permutation of the queue.
Sound(q) == q.shuffle => Permutes(q.order, Len(q.items))

\* The pointer is on a track, and on zero in an empty queue.
Pointing(q) == IF q.items = <<>> THEN q.current = 0 ELSE q.current < Len(q.items)

GoodQueue(q, T) == q \in QueueRecord(T) /\ Sound(q) /\ Pointing(q)

\* An order that covers the queue is never repaired, and every position below
\* the queue's length has a track.
LEMMA SoundQueue ==
  ASSUME NEW T, NEW q \in QueueRecord(T), Sound(q)
  PROVE  /\ Len(q.items) \in Nat
         /\ QueueLen(q) = Len(q.items)
         /\ Ready(q) = {q}
         /\ \A pos \in Nat : HasTrack(q, pos) <=> pos < Len(q.items)
<1>1. q.items \in Seq(T) /\ q.order \in Seq(Nat) /\ q.shuffle \in BOOLEAN
  BY DEF QueueRecord
<1>2. Len(q.items) \in Nat
  BY <1>1
<1>3. CASE q.shuffle
  <2>1. Permutes(q.order, Len(q.items)) /\ Covers(q.order, Len(q.items))
    BY <1>1, <1>2, <1>3, CoversPermutes DEF Sound
  <2>2. \A pos \in Nat : pos < Len(q.items) => q.order[pos + 1] < Len(q.items)
    BY <1>2, <2>1 DEF Permutes
  <2>3. Len(q.order) = Len(q.items)
    BY <2>1 DEF Permutes
  <2> QED
    BY <1>2, <1>3, <2>1, <2>2, <2>3 DEF QueueLen, Ready, Repaired, HasTrack
<1>4. CASE ~q.shuffle
  BY <1>2, <1>4 DEF QueueLen, Ready, HasTrack
<1> QED
  BY <1>1, <1>3, <1>4

\* A tuple that lists a set: a permutation of it.
Lists(f, S) ==
    /\ f \in Seq(S) /\ Len(f) = Cardinality(S) /\ Cardinality(S) \in Nat
    /\ \A i, j \in 1 .. Cardinality(S) : f[i] = f[j] => i = j
    /\ \A x \in S : \E i \in 1 .. Cardinality(S) : f[i] = x

LEMMA SetToSeqsIs ==
  ASSUME NEW S, IsFiniteSet(S), NEW f \in SetToSeqs(S)
  PROVE  Lists(f, S)
<1> DEFINE n == Cardinality(S)
           D == 1 .. n
<1>1. n \in Nat
  BY FS_CardinalityType
<1>2. f \in [D -> S] /\ \A i, j \in D : i # j => f[i] # f[j]
  BY DEF SetToSeqs
<1>3. f \in Injection(D, S)
  BY <1>2 DEF Injection, IsInjective
<1>4. IsFiniteSet(D) /\ Cardinality(D) = n
  BY <1>1, FS_Interval
<1>5. f \in Surjection(D, S)
  BY <1>3, <1>4, FS_Injection
<1>6. f \in Seq(S) /\ Len(f) = n
  BY <1>1, <1>2
<1> QED
  BY <1>1, <1>2, <1>5, <1>6 DEF Surjection, Lists

-----------------------------------------------------------------------------
(* Insertions.                                                               *)

\* r is q with t inserted at play-order position at: nothing is lost, the
\* tracks keep their order and t is in one piece.
Inserted(r, q, T, at, t) ==
    /\ r \in QueueRecord(T) /\ Sound(r)
    /\ r.shuffle = q.shuffle /\ r.loop = q.loop
    /\ Len(r.items) = Len(q.items) + Len(t)
    /\ \A pos \in 0 .. Len(q.items) - 1 :
          TrackAt(r, IF pos < at THEN pos ELSE pos + Len(t)) = TrackAt(q, pos)
    /\ \A i \in 1 .. Len(t) : TrackAt(r, at + i - 1) = t[i]

\* Tracks go in at play-order position at, physically at ph.
LEMMA InsertionIs ==
  ASSUME NEW T, NEW q \in QueueRecord(T), Sound(q), NEW t \in Seq(T),
         NEW at \in 0 .. Len(q.items), NEW ph \in 0 .. Len(q.items),
         NEW r \in QueueRecord(T), r.shuffle = q.shuffle, r.loop = q.loop,
         ~q.shuffle => ph = at,
         Spliced(r.items, T, q.items, ph, t),
         q.shuffle => Spliced(r.order, Nat, ShiftAtOrAfter(q.order, ph, Len(t)), at,
                              [i \in 1 .. Len(t) |-> ph + i - 1])
  PROVE  Inserted(r, q, T, at, t)
<1> DEFINE n == Len(q.items)
           c == Len(t)
           Follow == \A pos \in 0 .. n - 1 :
                        TrackAt(r, IF pos < at THEN pos ELSE pos + c) = TrackAt(q, pos)
           Fresh == \A i \in 1 .. c : TrackAt(r, at + i - 1) = t[i]
<1>0. n \in Nat /\ c \in Nat /\ at \in Nat /\ ph \in Nat /\ at <= n /\ ph <= n
  BY DEF QueueRecord
<1>1. /\ Len(r.items) = n + c
      /\ \A i \in 1 .. ph : r.items[i] = q.items[i]
      /\ \A i \in 1 .. c : r.items[ph + i] = t[i]
      /\ \A i \in ph + 1 .. n : r.items[i + c] = q.items[i]
  BY DEF Spliced
<1> HIDE DEF n, c, Follow, Fresh
<1>2. CASE ~q.shuffle
  <2>1. Sound(r)
    BY <1>2 DEF Sound
  <2>2. ASSUME NEW pos \in 0 .. n - 1
        PROVE  TrackAt(r, IF pos < at THEN pos ELSE pos + c) = TrackAt(q, pos)
    <3>1. /\ TrackAt(q, pos) = q.items[pos + 1]
          /\ TrackAt(r, IF pos < at THEN pos ELSE pos + c)
                = r.items[(IF pos < at THEN pos ELSE pos + c) + 1]
      BY <1>2 DEF TrackAt, PhysicalIndexOf
    <3>2. CASE pos < at
      <4>1. pos + 1 \in 1 .. ph
        BY <1>0, <1>2, <3>2
      <4> QED
        BY <1>1, <3>1, <3>2, <4>1
    <3>3. CASE ~(pos < at)
      <4>1. pos + 1 \in ph + 1 .. n /\ (pos + c) + 1 = (pos + 1) + c
        BY <1>0, <1>2, <3>3
      <4> QED
        BY <1>1, <3>1, <3>3, <4>1
    <3> QED
      BY <3>2, <3>3
  <2>3. ASSUME NEW i \in 1 .. c PROVE TrackAt(r, at + i - 1) = t[i]
    <3>1. TrackAt(r, at + i - 1) = r.items[(at + i - 1) + 1]
      BY <1>2 DEF TrackAt, PhysicalIndexOf
    <3>2. (at + i - 1) + 1 = ph + i
      BY <1>0, <1>2
    <3> QED
      BY <1>1, <3>1, <3>2
  <2>4. Follow
    BY <2>2 DEF Follow
  <2>5. Fresh
    BY <2>3 DEF Fresh
  <2> QED
    BY <1>1, <2>1, <2>4, <2>5 DEF Inserted, Follow, Fresh, n, c
<1>3. CASE q.shuffle
  <2> DEFINE o == q.order
             u == r.order
             sh(v) == IF v >= ph THEN v + c ELSE v
  <2>1. /\ o \in Seq(Nat) /\ Len(o) = n /\ DOMAIN o = 1 .. n
        /\ \A i \in 1 .. n : o[i] \in 0 .. n - 1
        /\ \A i, j \in 1 .. n : o[i] = o[j] => i = j
    BY <1>0, <1>3 DEF Sound, Permutes, QueueRecord, n
  <2>2. /\ Len(u) = n + c
        /\ \A i \in 1 .. at : u[i] = sh(o[i])
        /\ \A i \in 1 .. c : u[at + i] = ph + i - 1
        /\ \A i \in at + 1 .. n : u[i + c] = sh(o[i])
    <3> DEFINE s == ShiftAtOrAfter(q.order, ph, c)
               w == [i \in 1 .. c |-> ph + i - 1]
    <3>1. Spliced(u, Nat, s, at, w)
      BY <1>3 DEF c
    <3>2. s = [i \in 1 .. n |-> sh(o[i])]
      BY <2>1 DEF ShiftAtOrAfter
    <3>3. Len(s) = n /\ \A i \in 1 .. n : s[i] = sh(o[i])
      BY <1>0, <3>2
    <3>4. Len(w) = c /\ \A i \in 1 .. c : w[i] = ph + i - 1
      BY <1>0
    <3> HIDE DEF s, w, u
    <3>5. /\ Len(u) = Len(s) + Len(w)
          /\ \A i \in 1 .. at : u[i] = s[i]
          /\ \A i \in 1 .. Len(w) : u[at + i] = w[i]
          /\ \A i \in at + 1 .. Len(s) : u[i + Len(w)] = s[i]
      BY <3>1 DEF Spliced
    <3> HIDE DEF sh
    <3>6. Len(u) = n + c
      BY <3>3, <3>4, <3>5
    <3>7. \A i \in 1 .. at : i \in 1 .. n
      BY <1>0
    <3>8. \A i \in 1 .. at : u[i] = sh(o[i])
      BY <3>3, <3>5, <3>7
    <3>9. \A i \in at + 1 .. n : i \in 1 .. n
      BY <1>0
    <3>10. \A i \in at + 1 .. n : u[i + c] = sh(o[i])
      BY <3>3, <3>4, <3>5, <3>9
    <3>11. \A i \in 1 .. c : u[at + i] = ph + i - 1
      BY <3>4, <3>5
    <3> QED
      BY <3>6, <3>8, <3>10, <3>11
  <2> HIDE DEF o, u
  <2>3. \A i \in 1 .. n : sh(o[i]) \in 0 .. (n + c) - 1 /\ sh(o[i]) \notin ph .. ph + c - 1
    BY <1>0, <2>1
  <2>4. \A i, j \in 1 .. n : sh(o[i]) = sh(o[j]) => i = j
    BY <1>0, <2>1
  <2>5. \A i \in 1 .. n + c :
           \/ i \in 1 .. at /\ u[i] = sh(o[i])
           \/ i - c \in at + 1 .. n /\ u[i] = sh(o[i - c])
           \/ i - at \in 1 .. c /\ u[i] = ph + (i - at) - 1
    <3> TAKE i \in 1 .. n + c
    <3>1. \/ i \in 1 .. at
          \/ i - c \in at + 1 .. n /\ (i - c) + c = i
          \/ i - at \in 1 .. c /\ at + (i - at) = i
      BY <1>0
    <3> QED
      BY <2>2, <3>1
  <2> HIDE DEF sh
  <2>6. \A i \in 1 .. n + c : u[i] \in 0 .. (n + c) - 1
    <3> TAKE i \in 1 .. n + c
    <3>1. CASE i \in 1 .. at /\ u[i] = sh(o[i])
      BY <1>0, <2>3, <3>1
    <3>2. CASE i - c \in at + 1 .. n /\ u[i] = sh(o[i - c])
      <4>1. i - c \in 1 .. n
        BY <1>0, <3>2
      <4> QED
        BY <2>3, <3>2, <4>1
    <3>3. CASE i - at \in 1 .. c /\ u[i] = ph + (i - at) - 1
      BY <1>0, <3>3
    <3> QED
      BY <2>5, <3>1, <3>2, <3>3
  <2>7. ASSUME NEW i \in 1 .. n + c, NEW j \in 1 .. n + c, u[i] = u[j] PROVE i = j
    <3> DEFINE A(k) == k \in 1 .. at /\ u[k] = sh(o[k])
               B(k) == k - c \in at + 1 .. n /\ u[k] = sh(o[k - c])
               C(k) == k - at \in 1 .. c /\ u[k] = ph + (k - at) - 1
    <3>1. (A(i) \/ B(i) \/ C(i)) /\ (A(j) \/ B(j) \/ C(j))
      BY <2>5
    <3>2. \A k \in 1 .. n + c : (A(k) => k \in 1 .. n) /\ (B(k) => k - c \in 1 .. n)
      BY <1>0
    <3>3. \A k \in 1 .. n + c : A(k) \/ B(k) => u[k] \notin ph .. ph + c - 1
      BY <2>3, <3>2
    <3>4. \A k \in 1 .. n + c : C(k) => u[k] \in ph .. ph + c - 1
      BY <1>0
    <3>5. CASE C(i) /\ C(j)
      <4>1. ph + (i - at) - 1 = ph + (j - at) - 1
        BY <2>7, <3>5
      <4> QED
        BY <1>0, <4>1
    <3>6. CASE A(i) /\ A(j)
      BY <2>4, <2>7, <3>2, <3>6
    <3>7. CASE B(i) /\ B(j)
      <4>1. i - c = j - c
        BY <2>4, <2>7, <3>2, <3>7
      <4> QED
        BY <1>0, <4>1
    <3>8. CASE A(i) /\ B(j)
      <4>1. i = j - c
        BY <2>4, <2>7, <3>2, <3>8
      <4> QED
        BY <1>0, <3>8, <4>1
    <3>9. CASE B(i) /\ A(j)
      <4>1. i - c = j
        BY <2>4, <2>7, <3>2, <3>9
      <4> QED
        BY <1>0, <3>9, <4>1
    <3> HIDE DEF A, B, C
    <3> QED
      BY <2>7, <3>1, <3>3, <3>4, <3>5, <3>6, <3>7, <3>8, <3>9
  <2>8. Sound(r)
    <3>1. \A i, j \in 1 .. n + c : u[i] = u[j] => i = j
      BY <2>7
    <3>2. Len(u) = n + c
      BY <2>2
    <3>3. Permutes(u, n + c)
      BY <2>6, <3>1, <3>2 DEF Permutes
    <3> QED
      BY <1>1, <3>3 DEF Sound, u
  <2>9. ASSUME NEW pos \in 0 .. n - 1
        PROVE  TrackAt(r, IF pos < at THEN pos ELSE pos + c) = TrackAt(q, pos)
    <3> DEFINE new == IF pos < at THEN pos ELSE pos + c
               v == o[pos + 1]
    <3>1. pos + 1 \in 1 .. n
      BY <1>0
    <3>2. TrackAt(q, pos) = q.items[v + 1] /\ TrackAt(r, new) = r.items[u[new + 1] + 1]
      BY <1>3 DEF TrackAt, PhysicalIndexOf, o, u
    <3>3. u[new + 1] = sh(v)
      <4>1. CASE pos < at
        <5>1. pos + 1 \in 1 .. at
          BY <1>0, <4>1
        <5> QED
          BY <2>2, <4>1, <5>1 DEF sh
      <4>2. CASE ~(pos < at)
        <5>1. pos + 1 \in at + 1 .. n /\ new + 1 = (pos + 1) + c
          BY <1>0, <4>2
        <5> QED
          BY <2>2, <5>1 DEF sh
      <4> QED
        BY <4>1, <4>2
    <3>4. v \in 0 .. n - 1
      BY <2>1, <3>1
    <3> HIDE DEF v, new
    <3>5. r.items[sh(v) + 1] = q.items[v + 1]
      <4>1. CASE v >= ph
        <5>1. v + 1 \in ph + 1 .. n /\ sh(v) + 1 = (v + 1) + c
          BY <1>0, <3>4, <4>1 DEF sh
        <5> QED
          BY <1>1, <5>1
      <4>2. CASE ~(v >= ph)
        <5>1. v + 1 \in 1 .. ph /\ sh(v) = v
          BY <1>0, <3>4, <4>2 DEF sh
        <5> QED
          BY <1>1, <5>1
      <4> QED
        BY <4>1, <4>2
    <3> QED
      BY <3>2, <3>3, <3>5 DEF new
  <2>10. ASSUME NEW i \in 1 .. c PROVE TrackAt(r, at + i - 1) = t[i]
    <3>1. TrackAt(r, at + i - 1) = r.items[u[(at + i - 1) + 1] + 1]
      BY <1>3 DEF TrackAt, PhysicalIndexOf, u
    <3>2. (at + i - 1) + 1 = at + i /\ (ph + i - 1) + 1 = ph + i
      BY <1>0
    <3> QED
      BY <1>1, <2>2, <3>1, <3>2
  <2>11. Follow
    BY <2>9 DEF Follow
  <2>12. Fresh
    BY <2>10 DEF Fresh
  <2> QED
    BY <1>1, <2>8, <2>11, <2>12 DEF Inserted, Follow, Fresh, n, c
<1> QED
  BY <1>2, <1>3

LEMMA ShiftIs ==
  ASSUME NEW p \in Seq(Nat), NEW at \in Nat, NEW by \in Nat
  PROVE  ShiftAtOrAfter(p, at, by) \in Seq(Nat)
<1>1. Len(p) \in Nat /\ DOMAIN p = 1 .. Len(p)
  OBVIOUS
<1>2. \A i \in 1 .. Len(p) : (IF p[i] >= at THEN p[i] + by ELSE p[i]) \in Nat
  OBVIOUS
<1>3. [i \in 1 .. Len(p) |-> IF p[i] >= at THEN p[i] + by ELSE p[i]] \in Seq(Nat)
  BY <1>1, <1>2, IsASeq
<1> QED
  BY <1>1, <1>3 DEF ShiftAtOrAfter

\* The positions from a on, as an insertion numbers them.
LEMMA RunIs ==
  ASSUME NEW a \in Nat, NEW c \in Nat
  PROVE  /\ [i \in 1 .. c |-> a + i - 1] \in Seq(Nat)
         /\ Len([i \in 1 .. c |-> a + i - 1]) = c
<1>1. \A i \in 1 .. c : a + i - 1 \in Nat
  OBVIOUS
<1>2. [i \in 1 .. c |-> a + i - 1] \in Seq(Nat)
  BY <1>1, IsASeq
<1> QED
  BY <1>2

\* A concatenation is a splice at the end.
LEMMA AppendedIs ==
  ASSUME NEW S, NEW s \in Seq(S), NEW t \in Seq(S)
  PROVE  Spliced(s \o t, S, s, Len(s), t)
<1>1. /\ s \o t \in Seq(S) /\ Len(s \o t) = Len(s) + Len(t)
      /\ \A i \in 1 .. Len(s) + Len(t) :
            (s \o t)[i] = IF i <= Len(s) THEN s[i] ELSE t[i - Len(s)]
  BY ConcatProperties
<1>2. Len(s) \in Nat /\ Len(t) \in Nat
  OBVIOUS
<1> DEFINE u == s \o t
           n == Len(s)
           m == Len(t)
<1> HIDE DEF u, n, m
<1>3. \A i \in 1 .. n : u[i] = s[i]
  BY <1>1, <1>2 DEF u, n, m
<1>4. \A i \in 1 .. m : u[n + i] = t[i]
  <2> TAKE i \in 1 .. m
  <2>1. n + i \in 1 .. n + m /\ ~(n + i <= n) /\ (n + i) - n = i
    BY <1>2 DEF n, m
  <2> QED
    BY <1>1, <2>1 DEF u, n, m
<1>5. \A i \in n + 1 .. n : u[i + m] = s[i]
  BY <1>2 DEF n
<1> QED
  BY <1>1, <1>3, <1>4, <1>5 DEF u, n, m, Spliced

\* Nothing in the order is at or after the queue's end.
LEMMA ShiftedAtEnd ==
  ASSUME NEW n \in Nat, NEW o \in Seq(Nat), Permutes(o, n), NEW c
  PROVE  ShiftAtOrAfter(o, n, c) = o
<1>1. o = [i \in 1 .. Len(o) |-> o[i]] /\ DOMAIN o = 1 .. Len(o)
  OBVIOUS
<1>2. \A i \in 1 .. Len(o) : ~(o[i] >= n)
  BY DEF Permutes
<1> QED
  BY <1>1, <1>2 DEF ShiftAtOrAfter

LEMMA AddIs ==
  ASSUME NEW T, NEW q, GoodQueue(q, T), NEW t \in Seq(T)
  PROVE  /\ Inserted(Add(q, t), q, T, Len(q.items), t)
         /\ Add(q, t).current = q.current
         /\ Add(q, t).history = q.history
<1> DEFINE n == Len(q.items)
           c == Len(t)
           r == Add(q, t)
           w == [i \in 1 .. c |-> n + i - 1]
<1>0. q \in QueueRecord(T) /\ Sound(q) /\ n \in Nat /\ c \in Nat
  BY DEF GoodQueue, QueueRecord
<1>1. /\ r.items = q.items \o t
      /\ r.order = IF q.shuffle THEN q.order \o w ELSE q.order
      /\ r.shuffle = q.shuffle /\ r.loop = q.loop
      /\ r.current = q.current /\ r.history = q.history
  BY <1>0 DEF Add, QueueRecord
<1>2. r = [q EXCEPT !.items = r.items, !.order = r.order]
  BY <1>0, <1>1 DEF Add, QueueRecord
<1> HIDE DEF r
<1>3. Spliced(r.items, T, q.items, n, t)
  BY <1>0, <1>1, AppendedIs DEF QueueRecord
<1>4. w \in Seq(Nat) /\ Len(w) = c
  BY <1>0, RunIs
<1>5. q.shuffle => Spliced(r.order, Nat, ShiftAtOrAfter(q.order, n, c), n, w)
  <2> HAVE q.shuffle
  <2>1. Permutes(q.order, n) /\ q.order \in Seq(Nat)
    BY <1>0 DEF Sound, QueueRecord
  <2>2. ShiftAtOrAfter(q.order, n, c) = q.order /\ Len(q.order) = n
    BY <1>0, <2>1, ShiftedAtEnd DEF Permutes
  <2>3. Spliced(q.order \o w, Nat, q.order, Len(q.order), w)
    BY <1>4, <2>1, AppendedIs
  <2> QED
    BY <1>1, <2>2, <2>3
<1>6. r \in QueueRecord(T)
  <2>1. r.items \in Seq(T)
    BY <1>3 DEF Spliced
  <2>2. r.order \in Seq(Nat)
    BY <1>0, <1>1, <1>5 DEF Spliced, QueueRecord
  <2> QED
    BY <1>0, <1>2, <2>1, <2>2 DEF QueueRecord
<1>7. Inserted(r, q, T, n, t)
  <2>1. /\ n \in 0 .. Len(q.items) /\ r.shuffle = q.shuffle /\ r.loop = q.loop
        /\ Spliced(r.items, T, q.items, n, t)
        /\ q.shuffle => Spliced(r.order, Nat, ShiftAtOrAfter(q.order, n, Len(t)), n,
                                [i \in 1 .. Len(t) |-> n + i - 1])
    BY <1>0, <1>1, <1>3, <1>5
  <2> HIDE DEF n, c, w
  <2> QED
    BY <1>0, <1>6, <2>1, InsertionIs
<1> QED
  BY <1>1, <1>7 DEF r

\* play next: right after the current track, and first in an empty queue.
LEMMA InsertNextIs ==
  ASSUME NEW T, NEW q, GoodQueue(q, T), NEW t \in Seq(T), t # <<>>,
         NEW at \in 0 .. Len(q.items),
         at = IF q.current + 1 < Len(q.items) THEN q.current + 1 ELSE Len(q.items)
  PROVE  /\ Inserted(InsertNext(q, t), q, T, at, t)
         /\ InsertNext(q, t).current = q.current
         /\ InsertNext(q, t).history = ShiftAtOrAfter(q.history, at, Len(t))
<1> DEFINE n == Len(q.items)
           c == Len(t)
           r == InsertNext(q, t)
           ph == IF q.shuffle THEN n ELSE at
           w == [i \in 1 .. c |-> n + i - 1]
<1>0. /\ q \in QueueRecord(T) /\ Sound(q) /\ n \in Nat /\ c \in Nat /\ c # 0
      /\ at \in Nat /\ QueueLen(q) = n
  <2>1. q \in QueueRecord(T) /\ Sound(q)
    BY DEF GoodQueue
  <2>2. QueueLen(q) = n
    BY <2>1, SoundQueue
  <2> QED
    BY <2>1, <2>2 DEF QueueRecord
<1>1. /\ r.items = IF q.shuffle THEN q.items \o t ELSE Splice(q.items, at, t)
      /\ r.order = IF q.shuffle THEN Splice(q.order, at, w) ELSE q.order
      /\ r.history = ShiftAtOrAfter(q.history, at, c)
      /\ r.shuffle = q.shuffle /\ r.loop = q.loop /\ r.current = q.current
      /\ r = [q EXCEPT !.items = r.items, !.order = r.order, !.history = r.history]
  <2> DEFINE x == IF q.shuffle THEN q.items \o t ELSE Splice(q.items, at, t)
             y == IF q.shuffle THEN Splice(q.order, at, w) ELSE q.order
             z == ShiftAtOrAfter(q.history, at, c)
  <2>1. r = [q EXCEPT !.items = x, !.order = y, !.history = z]
    BY <1>0 DEF InsertNext
  <2> HIDE DEF x, y, z, r
  <2>2. /\ r.items = x /\ r.order = y /\ r.history = z
        /\ r.shuffle = q.shuffle /\ r.loop = q.loop /\ r.current = q.current
    BY <1>0, <2>1 DEF QueueRecord
  <2> QED
    BY <2>1, <2>2 DEF x, y, z
<1> HIDE DEF r
<1>2. ph \in 0 .. n /\ (~q.shuffle => ph = at)
  BY <1>0
<1>3. Spliced(r.items, T, q.items, ph, t)
  <2>1. q.items \in Seq(T)
    BY <1>0 DEF QueueRecord
  <2>2. CASE q.shuffle
    <3>1. Spliced(q.items \o t, T, q.items, Len(q.items), t)
      BY <2>1, AppendedIs
    <3> QED
      BY <1>1, <2>2, <3>1
  <2>3. CASE ~q.shuffle
    <3>1. Spliced(Splice(q.items, at, t), T, q.items, at, t)
      BY <2>1, SpliceIs
    <3> QED
      BY <1>1, <2>3, <3>1
  <2> QED
    BY <2>2, <2>3
<1>4. w \in Seq(Nat) /\ Len(w) = c
  BY <1>0, RunIs
<1>5. q.shuffle => Spliced(r.order, Nat, ShiftAtOrAfter(q.order, ph, c), at,
                           [i \in 1 .. c |-> ph + i - 1])
  <2> HAVE q.shuffle
  <2>1. Permutes(q.order, n) /\ q.order \in Seq(Nat)
    BY <1>0 DEF Sound, QueueRecord
  <2>2. ShiftAtOrAfter(q.order, n, c) = q.order /\ Len(q.order) = n
    BY <1>0, <2>1, ShiftedAtEnd DEF Permutes
  <2>3. at \in 0 .. Len(q.order)
    BY <2>2
  <2>4. Spliced(Splice(q.order, at, w), Nat, q.order, at, w)
    BY <1>4, <2>1, <2>3, SpliceIs
  <2> QED
    BY <1>1, <2>2, <2>4
<1>6. r \in QueueRecord(T)
  <2>1. r.items \in Seq(T)
    BY <1>3 DEF Spliced
  <2>2. r.order \in Seq(Nat)
    BY <1>0, <1>1, <1>5 DEF Spliced, QueueRecord
  <2>3. r.history \in Seq(Nat)
    <3>1. q.history \in Seq(Nat)
      BY <1>0 DEF QueueRecord
    <3> QED
      BY <1>0, <1>1, <3>1, ShiftIs
  <2> QED
    BY <1>0, <1>1, <2>1, <2>2, <2>3 DEF QueueRecord
<1> HIDE DEF n, c, w, ph
<1>7. Inserted(r, q, T, at, t)
  <2>1. /\ ph \in 0 .. Len(q.items) /\ r.shuffle = q.shuffle /\ r.loop = q.loop
        /\ ~q.shuffle => ph = at
        /\ Spliced(r.items, T, q.items, ph, t)
        /\ q.shuffle => Spliced(r.order, Nat, ShiftAtOrAfter(q.order, ph, Len(t)), at,
                                [i \in 1 .. Len(t) |-> ph + i - 1])
    BY <1>1, <1>2, <1>3, <1>5 DEF n, c
  <2> QED
    BY <1>0, <1>6, <2>1, InsertionIs
<1> QED
  BY <1>1, <1>7 DEF r, c

\* An insertion by position moves the pointer and the history along.
LEMMA InsertAtIs ==
  ASSUME NEW T, NEW q, GoodQueue(q, T), NEW t \in Seq(T), NEW position \in Nat,
         NEW at \in 0 .. Len(q.items),
         at = IF position < Len(q.items) THEN position ELSE Len(q.items)
  PROVE  /\ Inserted(InsertAtReady(q, position, t), q, T, at, t)
         /\ InsertAtReady(q, position, t).current =
               IF at <= q.current /\ q.items # <<>> THEN q.current + Len(t) ELSE q.current
         /\ InsertAtReady(q, position, t).history = ShiftAtOrAfter(q.history, at, Len(t))
<1> DEFINE n == Len(q.items)
           c == Len(t)
           r == InsertAtReady(q, position, t)
           ph == IF q.shuffle /\ at < Len(q.order) THEN q.order[at + 1]
                 ELSE IF q.shuffle THEN n ELSE at
           w == [i \in 1 .. c |-> ph + i - 1]
           s == ShiftAtOrAfter(q.order, ph, c)
<1>0. /\ q \in QueueRecord(T) /\ Sound(q) /\ n \in Nat /\ c \in Nat
      /\ at \in Nat /\ QueueLen(q) = n
  <2>1. q \in QueueRecord(T) /\ Sound(q)
    BY DEF GoodQueue
  <2>2. QueueLen(q) = n
    BY <2>1, SoundQueue
  <2> QED
    BY <2>1, <2>2 DEF QueueRecord
<1>1. /\ r.items = Splice(q.items, ph, t)
      /\ r.order = IF q.shuffle THEN Splice(s, at, w) ELSE q.order
      /\ r.current = IF at <= q.current /\ q.items # <<>> THEN q.current + c ELSE q.current
      /\ r.history = ShiftAtOrAfter(q.history, at, c)
      /\ r.shuffle = q.shuffle /\ r.loop = q.loop
      /\ r = [q EXCEPT !.items = r.items, !.order = r.order, !.current = r.current,
                       !.history = r.history]
  <2> DEFINE x == Splice(q.items, ph, t)
             y == IF q.shuffle THEN Splice(s, at, w) ELSE q.order
             v == IF at <= q.current /\ q.items # <<>> THEN q.current + c ELSE q.current
             z == ShiftAtOrAfter(q.history, at, c)
  <2>1. r = [q EXCEPT !.items = x, !.order = y, !.current = v, !.history = z]
    BY <1>0 DEF InsertAtReady
  <2> HIDE DEF x, y, v, z, r
  <2>2. /\ r.items = x /\ r.order = y /\ r.history = z /\ r.current = v
        /\ r.shuffle = q.shuffle /\ r.loop = q.loop
    BY <1>0, <2>1 DEF QueueRecord
  <2> QED
    BY <2>1, <2>2 DEF x, y, v, z
<1> HIDE DEF r
<1>2. ph \in 0 .. n /\ ph \in Nat /\ (~q.shuffle => ph = at)
  <2>1. CASE q.shuffle
    <3>1. Permutes(q.order, n)
      BY <1>0, <2>1 DEF Sound
    <3>2. at < Len(q.order) => q.order[at + 1] \in 0 .. n - 1
      BY <1>0, <3>1 DEF Permutes
    <3> QED
      BY <1>0, <2>1, <3>2
  <2>2. CASE ~q.shuffle
    BY <1>0, <2>2
  <2> QED
    BY <2>1, <2>2
<1> HIDE DEF ph
<1>3. Spliced(r.items, T, q.items, ph, t)
  <2>1. q.items \in Seq(T)
    BY <1>0 DEF QueueRecord
  <2> QED
    BY <1>1, <1>2, <2>1, SpliceIs
<1>4. w \in Seq(Nat) /\ Len(w) = c
  BY <1>0, <1>2, RunIs
<1>5. q.shuffle => Spliced(r.order, Nat, s, at, w)
  <2> HAVE q.shuffle
  <2>1. Permutes(q.order, n) /\ q.order \in Seq(Nat)
    BY <1>0 DEF Sound, QueueRecord
  <2>2. s \in Seq(Nat)
    BY <1>0, <1>2, <2>1, ShiftIs
  <2>3. Len(s) = n
    BY <2>1 DEF Permutes, ShiftAtOrAfter
  <2>4. Spliced(Splice(s, at, w), Nat, s, at, w)
    BY <1>4, <2>2, <2>3, SpliceIs
  <2> QED
    BY <1>1, <2>4
<1>6. r \in QueueRecord(T)
  <2>1. r.items \in Seq(T)
    BY <1>3 DEF Spliced
  <2>2. r.order \in Seq(Nat)
    BY <1>0, <1>1, <1>5 DEF Spliced, QueueRecord
  <2>3. r.history \in Seq(Nat) /\ r.current \in Nat
    <3>1. q.history \in Seq(Nat) /\ q.current \in Nat
      BY <1>0 DEF QueueRecord
    <3>2. ShiftAtOrAfter(q.history, at, c) \in Seq(Nat)
      BY <1>0, <3>1, ShiftIs
    <3>3. r.current \in Nat
      BY <1>0, <1>1, <3>1
    <3> QED
      BY <1>1, <3>2, <3>3
  <2> QED
    BY <1>0, <1>1, <2>1, <2>2, <2>3 DEF QueueRecord
<1> HIDE DEF n, c
<1>7. Inserted(r, q, T, at, t)
  <2>1. /\ ph \in 0 .. Len(q.items) /\ r.shuffle = q.shuffle /\ r.loop = q.loop
        /\ ~q.shuffle => ph = at
        /\ Spliced(r.items, T, q.items, ph, t)
        /\ q.shuffle => Spliced(r.order, Nat, ShiftAtOrAfter(q.order, ph, Len(t)), at,
                                [i \in 1 .. Len(t) |-> ph + i - 1])
    BY <1>1, <1>2, <1>3, <1>5 DEF n, c
  <2> QED
    BY <1>0, <1>6, <2>1, InsertionIs
<1> QED
  BY <1>1, <1>7 DEF r, c

\* What is playing still plays after an insertion the pointer went along with.
LEMMA InsertedKeepsPointer ==
  ASSUME NEW T, NEW q, GoodQueue(q, T), NEW t \in Seq(T), NEW at \in 0 .. Len(q.items),
         NEW r, Inserted(r, q, T, at, t),
         q.items # <<>> => r.current = IF q.current < at THEN q.current
                                       ELSE q.current + Len(t),
         q.items = <<>> => r.current = 0
  PROVE  /\ GoodQueue(r, T)
         /\ q.items # <<>> => CurrentTrack(r) = CurrentTrack(q)
<1>0. /\ q \in QueueRecord(T) /\ Sound(q) /\ Pointing(q) /\ r \in QueueRecord(T) /\ Sound(r)
      /\ Len(r.items) = Len(q.items) + Len(t)
  BY DEF GoodQueue, Inserted
<1>1. /\ q.items \in Seq(T) /\ r.items \in Seq(T) /\ Len(q.items) \in Nat /\ Len(t) \in Nat
      /\ q.current \in Nat /\ r.current \in Nat
  BY <1>0 DEF QueueRecord
<1>2. /\ q.items = <<>> <=> Len(q.items) = 0
      /\ r.items = <<>> <=> Len(r.items) = 0
  BY <1>1, EmptySeq
<1>3. q.items # <<>> => q.current < Len(q.items) /\ r.current < Len(r.items)
  BY <1>0, <1>1 DEF Pointing
<1>4. GoodQueue(r, T)
  BY <1>0, <1>1, <1>2, <1>3 DEF GoodQueue, Pointing
<1>5. ASSUME q.items # <<>> PROVE CurrentTrack(r) = CurrentTrack(q)
  <2>1. HasTrack(q, q.current) /\ HasTrack(r, r.current)
    BY <1>0, <1>1, <1>3, <1>5, SoundQueue
  <2>2. q.current \in 0 .. Len(q.items) - 1
    BY <1>1, <1>3, <1>5
  <2>3. TrackAt(r, r.current) = TrackAt(q, q.current)
    BY <1>5, <2>2 DEF Inserted
  <2> QED
    BY <2>1, <2>3 DEF CurrentTrack, TrackOrGone
<1> QED
  BY <1>4, <1>5

-----------------------------------------------------------------------------
(* Truncation, shuffle, move, removal.                                       *)

\* r is q up to play-order position cut.
Truncated(r, q, T, cut) ==
    /\ r \in QueueRecord(T) /\ Sound(r)
    /\ r.shuffle = q.shuffle /\ r.loop = q.loop /\ r.current = q.current
    /\ Len(r.items) = cut
    /\ \A pos \in 0 .. cut - 1 : TrackAt(r, pos) = TrackAt(q, pos)

PlacesUpTo(q, cut) == {PhysicalIndexOf(q, k - 1) + 1 : k \in 1 .. cut}

\* The tracks up to cut are kept; f lists their places in the order they play.
LEMMA TruncationIs ==
  ASSUME NEW T, NEW q \in QueueRecord(T), Sound(q), NEW cut \in 0 .. Len(q.items),
         NEW P \in SUBSET (1 .. Len(q.items)),
         P = PlacesUpTo(q, cut),
         NEW r \in QueueRecord(T),
         r.shuffle = q.shuffle, r.loop = q.loop, r.current = q.current,
         r.items = AtPlaces(q.items, P),
         q.shuffle => r.order = [k \in 1 .. cut |-> Rank(P, q.order[k] + 1) - 1]
  PROVE  Truncated(r, q, T, cut)
<1> DEFINE n == Len(q.items)
           D == 1 .. cut
           f == [k \in D |-> PhysicalIndexOf(q, k - 1) + 1]
<1>0. n \in Nat /\ cut \in Nat /\ cut <= n /\ q.items \in Seq(T)
  BY DEF QueueRecord
<1>1. \A k \in D : f[k] = IF q.shuffle THEN q.order[k] + 1 ELSE k
  BY <1>0 DEF PhysicalIndexOf
<1>2. \A i, j \in D : f[i] = f[j] => i = j
  <2>1. q.shuffle => /\ \A i \in 1 .. n : q.order[i] \in 0 .. n - 1
                     /\ \A i, j \in 1 .. n : q.order[i] = q.order[j] => i = j
    BY DEF Sound, Permutes
  <2> HIDE DEF f
  <2>2. \A i \in D : i \in 1 .. n
    BY <1>0
  <2>3. CASE q.shuffle
    BY <1>0, <1>1, <2>1, <2>2, <2>3
  <2>4. CASE ~q.shuffle
    BY <1>1, <2>4
  <2> QED
    BY <2>3, <2>4
<1>3. f \in [D -> P] /\ \A i \in P : \E k \in D : f[k] = i
  BY DEF PlacesUpTo
<1> HIDE DEF f
<1>4. IsFiniteSet(D) /\ Cardinality(D) = cut
  BY <1>0, FS_Interval
<1>5. f \in Injection(D, P) /\ f \in Surjection(D, P)
  BY <1>2, <1>3 DEF Injection, Surjection, IsInjective
<1>6. Cardinality(P) = cut
  <2>1. IsFiniteSet(P) /\ Cardinality(P) <= cut
    BY <1>4, <1>5, FS_Surjection
  <2>2. cut <= Cardinality(P)
    BY <2>1, <1>4, <1>5, FS_Injection
  <2>3. Cardinality(P) \in Nat
    BY <2>1, FS_CardinalityType
  <2> QED
    BY <1>0, <2>1, <2>2, <2>3
<1>7. /\ Len(r.items) = cut
      /\ \A i \in P : Rank(P, i) \in 1 .. cut /\ r.items[Rank(P, i)] = q.items[i]
      /\ \A i \in P, j \in P : i < j => Rank(P, i) < Rank(P, j)
  <2>1. Placed(r.items, T, q.items, P)
    BY <1>0, AtPlacesIs
  <2> QED
    BY <1>6, <2>1 DEF Placed
<1>8. \A i \in P : i \in 1 .. n
  OBVIOUS
<1>9. \A i, j \in P : Rank(P, i) = Rank(P, j) => i = j
  <2> TAKE i, j \in P
  <2>1. i < j \/ j < i \/ i = j
    BY <1>0, <1>8
  <2> QED
    BY <1>7, <2>1
<1>10. CASE q.shuffle
  <2> DEFINE u == r.order
  <2>1. \A k \in D : u[k] = Rank(P, f[k]) - 1
    BY <1>1, <1>10
  <2>2. Len(u) = cut
    BY <1>0, <1>10
  <2> HIDE DEF u
  <2>3. \A k \in D : u[k] \in 0 .. cut - 1
    <3> TAKE k \in D
    <3>1. f[k] \in P
      BY <1>3
    <3>2. Rank(P, f[k]) \in 1 .. cut
      BY <1>7, <3>1
    <3> QED
      BY <1>0, <2>1, <3>2
  <2>4. ASSUME NEW i \in D, NEW j \in D, u[i] = u[j] PROVE i = j
    <3>1. f[i] \in P /\ f[j] \in P
      BY <1>3
    <3>2. Rank(P, f[i]) = Rank(P, f[j])
      <4>1. Rank(P, f[i]) - 1 = Rank(P, f[j]) - 1
        BY <2>1, <2>4
      <4>2. Rank(P, f[i]) \in 1 .. cut /\ Rank(P, f[j]) \in 1 .. cut
        BY <1>7, <3>1
      <4> QED
        BY <1>0, <4>1, <4>2
    <3> QED
      BY <1>2, <1>9, <3>1, <3>2
  <2>5. \A i, j \in 1 .. cut : u[i] = u[j] => i = j
    BY <2>4
  <2>6. Permutes(u, cut)
    BY <2>2, <2>3, <2>5 DEF Permutes
  <2>7. Sound(r)
    BY <1>7, <2>6 DEF Sound, u
  <2>8. ASSUME NEW pos \in 0 .. cut - 1 PROVE TrackAt(r, pos) = TrackAt(q, pos)
    <3>1. pos + 1 \in D
      BY <1>0
    <3>2. TrackAt(r, pos) = r.items[u[pos + 1] + 1] /\ TrackAt(q, pos) = q.items[q.order[pos + 1] + 1]
      BY <1>10 DEF TrackAt, PhysicalIndexOf, u
    <3>3. f[pos + 1] \in P /\ f[pos + 1] = q.order[pos + 1] + 1
      BY <1>1, <1>3, <1>10, <3>1
    <3>4. Rank(P, f[pos + 1]) \in 1 .. cut /\ r.items[Rank(P, f[pos + 1])] = q.items[f[pos + 1]]
      BY <1>7, <3>3
    <3>5. u[pos + 1] + 1 = Rank(P, f[pos + 1])
      <4>1. u[pos + 1] = Rank(P, f[pos + 1]) - 1
        BY <2>1, <3>1
      <4> QED
        BY <1>0, <3>4, <4>1
    <3> QED
      BY <3>2, <3>3, <3>4, <3>5
  <2> QED
    BY <1>7, <2>7, <2>8 DEF Truncated
<1>11. CASE ~q.shuffle
  <2>1. P = 1 .. cut
    <3>1. \A i \in P : i \in D
      BY <1>1, <1>3, <1>11
    <3>2. \A k \in D : k \in P
      BY <1>1, <1>3, <1>11
    <3> QED
      BY <3>1, <3>2
  <2>2. ASSUME NEW i \in 1 .. cut PROVE Rank(P, i) = i
    BY <1>0, <2>1, RankOfInitial
  <2>3. ASSUME NEW pos \in 0 .. cut - 1 PROVE TrackAt(r, pos) = TrackAt(q, pos)
    <3>1. pos + 1 \in 1 .. cut
      BY <1>0
    <3>2. r.items[pos + 1] = q.items[pos + 1]
      BY <1>7, <2>1, <2>2, <3>1
    <3> QED
      BY <1>11, <3>2 DEF TrackAt, PhysicalIndexOf
  <2>4. Sound(r)
    BY <1>11 DEF Sound
  <2> QED
    BY <1>7, <2>3, <2>4 DEF Truncated
<1> QED
  BY <1>10, <1>11

\* What drop_from keeps is what plays before from.
DroppedPlaces(q, from, cut) ==
    IF q.shuffle THEN ToSet(SubSeq(q.order, cut + 1, Len(q.order)))
    ELSE {i \in IndexSet(q) : i >= from}

PlacesLeft(q, from, cut) == {i \in DOMAIN q.items : i - 1 \notin DroppedPlaces(q, from, cut)}

LEMMA PlacesKept ==
  ASSUME NEW T, NEW q \in QueueRecord(T), Sound(q), NEW from \in Nat, NEW cut \in 0 .. Len(q.items),
         cut = IF from < Len(q.items) THEN from ELSE Len(q.items)
  PROVE  PlacesLeft(q, from, cut) = PlacesUpTo(q, cut)
<1> DEFINE n == Len(q.items)
           dropped == DroppedPlaces(q, from, cut)
           P == {i \in DOMAIN q.items : i - 1 \notin dropped}
<1>d. /\ dropped = IF q.shuffle THEN ToSet(SubSeq(q.order, cut + 1, Len(q.order)))
                   ELSE {i \in IndexSet(q) : i >= from}
      /\ PlacesLeft(q, from, cut) = P
  BY DEF DroppedPlaces, PlacesLeft
<1> HIDE DEF dropped
<1>0. n \in Nat /\ DOMAIN q.items = 1 .. n /\ cut \in Nat /\ cut <= n
  BY DEF QueueRecord
<1>1. CASE q.shuffle
  <2> DEFINE o == q.order
             s == SubSeq(o, cut + 1, Len(o))
  <2>1. Permutes(o, n) /\ o \in Seq(Nat)
    BY <1>1 DEF Sound, QueueRecord
  <2>2. /\ Len(o) = n
        /\ \A i \in 1 .. n : o[i] \in 0 .. n - 1
        /\ \A i, j \in 1 .. n : o[i] = o[j] => i = j
    BY <2>1 DEF Permutes
  <2>3. \A k \in 0 .. n - 1 : \E i \in 1 .. n : o[i] = k
    BY <1>0, <2>1, PermutesIsOnto
  <2>4. \A v : v \in dropped <=> \E i \in cut + 1 .. n : o[i] = v
    <3>1. Part(s, Nat, o, cut + 1, n)
      <4>1. cut + 1 \in Nat /\ 1 <= cut + 1 /\ n <= Len(o) /\ s = SubSeq(o, cut + 1, n)
        BY <1>0, <2>2
      <4> HIDE DEF s, o, n
      <4> QED
        BY <1>0, <2>1, <4>1, PartIs
    <3> HIDE DEF s, o, n
    <3>2. DOMAIN s = 1 .. n - cut /\ \A i \in 1 .. n - cut : s[i] = o[cut + i]
      <4>1. n - (cut + 1) + 1 = n - cut /\ \A i \in 1 .. n - cut : (cut + 1) + i - 1 = cut + i
        BY <1>0
      <4>2. cut + 1 <= n \/ n = cut
        BY <1>0
      <4>3. Len(s) = IF cut + 1 <= n THEN n - (cut + 1) + 1 ELSE 0
        BY <3>1 DEF Part
      <4>4. Len(s) = n - cut
        <5>1. CASE cut + 1 <= n
          BY <4>1, <4>3, <5>1
        <5>2. CASE n = cut
          <6>1. ~(cut + 1 <= n) /\ n - cut = 0
            BY <1>0, <5>2
          <6> QED
            BY <4>3, <6>1
        <5> QED
          BY <4>2, <5>1, <5>2
      <4>5. s \in Seq(Nat) /\ \A i \in 1 .. n - (cut + 1) + 1 : s[i] = o[(cut + 1) + i - 1]
        BY <3>1 DEF Part
      <4>6. DOMAIN s = 1 .. n - cut
        BY <4>4, <4>5
      <4> QED
        BY <4>1, <4>5, <4>6
    <3>3. dropped = {s[i] : i \in DOMAIN s}
      BY <1>1, <1>d DEF ToSet, s, o
    <3>4. \A i \in 1 .. n - cut : cut + i \in cut + 1 .. n
      BY <1>0
    <3>5. \A i \in cut + 1 .. n : i - cut \in 1 .. n - cut /\ cut + (i - cut) = i
      BY <1>0
    <3> QED
      BY <3>2, <3>3, <3>4, <3>5
  <2> HIDE DEF o
  <2>5. PlacesUpTo(q, cut) = {o[k] + 1 : k \in 1 .. cut}
    <3>1. \A k \in 1 .. cut : PhysicalIndexOf(q, k - 1) + 1 = o[k] + 1
      BY <1>0, <1>1 DEF PhysicalIndexOf, o
    <3> QED
      BY <3>1 DEF PlacesUpTo
  <2>6. ASSUME NEW i \in P PROVE i \in PlacesUpTo(q, cut)
    <3>1. i \in 1 .. n /\ i - 1 \notin dropped /\ i - 1 \in 0 .. n - 1
      BY <1>0
    <3>2. PICK k \in 1 .. n : o[k] = i - 1
      BY <2>3, <3>1
    <3>3. k \in 1 .. cut
      <4>1. k \notin cut + 1 .. n
        BY <2>4, <3>1, <3>2
      <4> QED
        BY <1>0, <4>1
    <3>4. o[k] + 1 = i
      BY <1>0, <3>1, <3>2
    <3> QED
      BY <2>5, <3>3, <3>4
  <2>7. ASSUME NEW k \in 1 .. cut PROVE o[k] + 1 \in P
    <3>1. k \in 1 .. n /\ k \notin cut + 1 .. n
      BY <1>0
    <3>2. o[k] \in 0 .. n - 1
      BY <2>2, <3>1
    <3>3. o[k] \notin dropped
      <4> SUFFICES ASSUME NEW j \in cut + 1 .. n, o[j] = o[k] PROVE FALSE
        BY <2>4
      <4>1. j \in 1 .. n
        BY <1>0
      <4> QED
        BY <2>2, <3>1, <4>1
    <3>4. (o[k] + 1) - 1 = o[k] /\ o[k] + 1 \in 1 .. n
      BY <1>0, <3>2
    <3> QED
      BY <1>0, <3>3, <3>4
  <2>8. \A i \in PlacesUpTo(q, cut) : i \in P
    BY <2>5, <2>7
  <2> HIDE DEF P
  <2>9. P = PlacesUpTo(q, cut)
    <3>1. \A i : i \in P <=> i \in PlacesUpTo(q, cut)
      BY <2>6, <2>8
    <3> QED
      BY <3>1
  <2> QED
    BY <1>d, <2>9
<1>2. CASE ~q.shuffle
  <2>1. \A i \in 1 .. n : i - 1 \notin dropped <=> i \in 1 .. cut
    <3> TAKE i \in 1 .. n
    <3>1. i - 1 \in 0 .. n - 1
      BY <1>0
    <3>2. i - 1 \in dropped <=> i - 1 >= from
      BY <1>2, <1>d, <3>1 DEF IndexSet
    <3> QED
      BY <1>0, <3>2
  <2>2. PlacesUpTo(q, cut) = 1 .. cut
    <3>1. \A k \in 1 .. cut : PhysicalIndexOf(q, k - 1) + 1 = k
      BY <1>0, <1>2 DEF PhysicalIndexOf
    <3> QED
      BY <3>1 DEF PlacesUpTo
  <2>3. \A i \in 1 .. cut : i \in 1 .. n
    BY <1>0
  <2> QED
    BY <1>d, <1>0, <2>1, <2>2, <2>3
<1> QED
  BY <1>1, <1>2

LEMMA DropIs ==
  ASSUME NEW T, NEW q \in QueueRecord(T), Sound(q), NEW from \in Nat, NEW cut \in 0 .. Len(q.items),
         cut = IF from < Len(q.items) THEN from ELSE Len(q.items)
  PROVE  /\ DropFrom(q, from) = {DropFromReady(q, from)}
         /\ Truncated(DropFromReady(q, from), q, T, cut)
         /\ DropFromReady(q, from).history = Kept(q.history, 0 .. from - 1)
<1> DEFINE n == Len(q.items)
           P == PlacesLeft(q, from, cut)
           x == AtPlaces(q.items, P)
           y == IF q.shuffle THEN [k \in 1 .. cut |-> Rank(P, q.order[k] + 1) - 1]
                ELSE Kept(q.order, 0 .. Cardinality(P) - 1)
           z == Kept(q.history, 0 .. from - 1)
           r == DropFromReady(q, from)
<1>0. /\ n \in Nat /\ cut \in Nat /\ q.items \in Seq(T) /\ DOMAIN q.items = 1 .. n
      /\ QueueLen(q) = n /\ Ready(q) = {q}
      /\ q.order \in Seq(Nat) /\ q.history \in Seq(Nat)
  BY SoundQueue DEF QueueRecord
<1>1. DropFrom(q, from) = {r}
  BY <1>0 DEF DropFrom
<1>2. r = [q EXCEPT !.items = x, !.order = y, !.history = z]
  BY <1>0 DEF DropFromReady, PlacesLeft, DroppedPlaces
<1>3. P \in SUBSET (1 .. n) /\ P = PlacesUpTo(q, cut)
  <2>1. P = PlacesUpTo(q, cut)
    BY PlacesKept
  <2> QED
    BY <1>0, <2>1 DEF PlacesLeft
<1> HIDE DEF P, x, y, z, r
<1>4. Placed(x, T, q.items, P)
  BY <1>0, <1>3, AtPlacesIs DEF x
<1>5. z \in Seq(Nat)
  BY <1>0, KeptIs DEF z
<1>6. y \in Seq(Nat)
  <2>1. CASE ~q.shuffle
    BY <1>0, <2>1, KeptIs DEF y
  <2>2. CASE q.shuffle
    <3>1. ASSUME NEW k \in 1 .. cut PROVE Rank(P, q.order[k] + 1) - 1 \in Nat
      <4>1. q.order[k] + 1 \in P
        BY <1>0, <1>3, <2>2 DEF PlacesUpTo, PhysicalIndexOf
      <4>2. Rank(P, q.order[k] + 1) \in 1 .. Cardinality(P) /\ Cardinality(P) \in Nat
        BY <1>4, <4>1 DEF Placed
      <4> QED
        BY <4>2
    <3>2. [k \in 1 .. cut |-> Rank(P, q.order[k] + 1) - 1] \in Seq(Nat)
      BY <1>0, <3>1, IsASeq
    <3> QED
      BY <2>2, <3>2 DEF y
  <2> QED
    BY <2>1, <2>2
<1>7. /\ r.items = x /\ r.order = y /\ r.history = z
      /\ r.shuffle = q.shuffle /\ r.loop = q.loop /\ r.current = q.current
  BY <1>2 DEF QueueRecord
<1>8. r \in QueueRecord(T)
  BY <1>2, <1>4, <1>5, <1>6 DEF QueueRecord, Placed
<1>9. Truncated(r, q, T, cut)
  <2>1. /\ r.items = AtPlaces(q.items, P)
        /\ q.shuffle => r.order = [k \in 1 .. cut |-> Rank(P, q.order[k] + 1) - 1]
    BY <1>7 DEF x, y
  <2> QED
    BY <1>3, <1>7, <1>8, <2>1, TruncationIs
<1> QED
  BY <1>1, <1>7, <1>9 DEF r, z

\* r is q with the positions from from on permuted: slot k holds source[k].
TailShuffled(r, q, T, from, source) ==
    /\ r \in QueueRecord(T) /\ Sound(r)
    /\ r.shuffle = q.shuffle /\ r.loop = q.loop /\ r.current = q.current
    /\ Len(r.items) = Len(q.items)
    /\ \A pos \in 0 .. from - 1 : TrackAt(r, pos) = TrackAt(q, pos)
    /\ \A k \in 1 .. Len(q.items) - from : TrackAt(r, from + k - 1) = TrackAt(q, source[k])

\* Positions, in the order a permuted tail plays them: a permutation again.
TailPlaces(n, from, source) == [i \in 1 .. n |-> IF i <= from THEN i ELSE source[i - from] + 1]

PermutesTail(g, n, from, source) ==
    /\ \A k \in 1 .. n - from : source[k] \in from .. n - 1
    /\ DOMAIN source = 1 .. n - from
    /\ \A p \in from .. n - 1 : \E k \in 1 .. n - from : source[k] = p
    /\ \A i \in 1 .. n : g[i] \in 1 .. n
    /\ \A i, j \in 1 .. n : g[i] = g[j] => i = j

LEMMA TailPlacesIs ==
  ASSUME NEW n \in Nat, NEW from \in 0 .. n, NEW source \in SetToSeqs(from .. (n - 1))
  PROVE  PermutesTail(TailPlaces(n, from, source), n, from, source)
<1> DEFINE S == from .. (n - 1)
           g == TailPlaces(n, from, source)
<1>0. from \in Nat /\ from <= n
  OBVIOUS
<1>1. IsFiniteSet(S) /\ Cardinality(S) = n - from
  <2>1. IsFiniteSet(S) /\ Cardinality(S) = IF from > n - 1 THEN 0 ELSE (n - 1) - from + 1
    BY <1>0, FS_Interval
  <2> QED
    BY <1>0, <2>1
<1>2. /\ source \in Seq(S) /\ Len(source) = n - from
      /\ \A i, j \in 1 .. n - from : source[i] = source[j] => i = j
      /\ \A x \in S : \E i \in 1 .. n - from : source[i] = x
  <2>1. source \in SetToSeqs(S)
    OBVIOUS
  <2> HIDE DEF S
  <2>2. Lists(source, S)
    BY <1>1, <2>1, SetToSeqsIs
  <2> QED
    BY <1>1, <2>2 DEF Lists
<1>3. \A k \in 1 .. n - from : source[k] \in from .. n - 1
  BY <1>2
<1>4. DOMAIN source = 1 .. n - from
  BY <1>2
<1>5. \A i \in 1 .. n : g[i] = IF i <= from THEN i ELSE source[i - from] + 1
  BY DEF TailPlaces
<1> HIDE DEF S, g
<1>6. \A i \in 1 .. n : i <= from \/ i - from \in 1 .. n - from
  BY <1>0
<1>7. \A i \in 1 .. n : g[i] \in 1 .. n /\ (g[i] <= from <=> i <= from)
  <2> TAKE i \in 1 .. n
  <2>1. CASE i <= from
    BY <1>5, <2>1
  <2>2. CASE ~(i <= from)
    <3>1. source[i - from] \in from .. n - 1
      BY <1>3, <1>6, <2>2
    <3> QED
      BY <1>0, <1>5, <2>2, <3>1
  <2> QED
    BY <2>1, <2>2
<1>8. ASSUME NEW i \in 1 .. n, NEW j \in 1 .. n, g[i] = g[j] PROVE i = j
  <2>1. CASE i <= from
    BY <1>5, <1>7, <1>8, <2>1
  <2>2. CASE ~(i <= from)
    <3>1. ~(j <= from)
      BY <1>7, <1>8, <2>2
    <3>2. i - from \in 1 .. n - from /\ j - from \in 1 .. n - from
      BY <1>6, <2>2, <3>1
    <3>3. source[i - from] \in Nat /\ source[j - from] \in Nat
      BY <1>0, <1>3, <3>2
    <3>4. source[i - from] = source[j - from]
      <4>1. g[i] = source[i - from] + 1
        BY <1>5, <2>2
      <4>2. g[j] = source[j - from] + 1
        BY <1>5, <3>1
      <4>3. source[i - from] + 1 = source[j - from] + 1
        BY <1>8, <4>1, <4>2
      <4> QED
        BY <3>3, <4>3
    <3>5. i - from = j - from
      BY <1>2, <3>2, <3>4
    <3> QED
      BY <1>0, <3>5
  <2> QED
    BY <2>1, <2>2
<1>9. \A i \in 1 .. n : g[i] \in 1 .. n
  BY <1>7
<1>10. \A i, j \in 1 .. n : g[i] = g[j] => i = j
  BY <1>8
<1>11. \A p \in from .. n - 1 : \E k \in 1 .. n - from : source[k] = p
  BY <1>2 DEF S
<1> QED
  BY <1>3, <1>4, <1>9, <1>10, <1>11 DEF g, PermutesTail

LEMMA ShuffledTailIs ==
  ASSUME NEW T, NEW q \in QueueRecord(T), Sound(q), NEW from \in 0 .. Len(q.items),
         NEW source \in SetToSeqs(from .. (Len(q.items) - 1))
  PROVE  TailShuffled(ShuffledTail(q, from, source), q, T, from, source)
<1> DEFINE n == Len(q.items)
           g == TailPlaces(n, from, source)
           re(s) == [i \in 1 .. Len(s) |-> IF i <= from THEN s[i] ELSE s[source[i - from] + 1]]
           new(pos) == from - 1 + (CHOOSE i \in DOMAIN source : source[i] = pos)
           x == IF q.shuffle THEN q.items ELSE re(q.items)
           y == IF q.shuffle THEN re(q.order) ELSE q.order
           z == [i \in DOMAIN q.history |-> IF q.history[i] \in Range(source)
                                            THEN new(q.history[i]) ELSE q.history[i]]
           r == ShuffledTail(q, from, source)
<1>0. /\ n \in Nat /\ from \in Nat /\ from <= n /\ q.items \in Seq(T)
      /\ q.order \in Seq(Nat) /\ q.history \in Seq(Nat)
  BY DEF QueueRecord
<1>1. /\ \A k \in 1 .. n - from : source[k] \in from .. n - 1
      /\ DOMAIN source = 1 .. n - from
      /\ \A i \in 1 .. n : g[i] \in 1 .. n
      /\ \A i, j \in 1 .. n : g[i] = g[j] => i = j
  <2>1. PermutesTail(g, n, from, source)
    BY <1>0, TailPlacesIs
  <2> QED
    BY <2>1 DEF PermutesTail
<1>2. \A i \in 1 .. n : g[i] = IF i <= from THEN i ELSE source[i - from] + 1
  BY DEF TailPlaces
<1>3. r = [q EXCEPT !.items = x, !.order = y, !.history = z]
  BY DEF ShuffledTail
<1> HIDE DEF x, y, z, r, g, n
<1>4. ASSUME NEW S, NEW s \in Seq(S), Len(s) = n
      PROVE  re(s) \in Seq(S) /\ Len(re(s)) = n /\ \A i \in 1 .. n : re(s)[i] = s[g[i]]
  <2>1. \A i \in 1 .. n : (IF i <= from THEN s[i] ELSE s[source[i - from] + 1]) = s[g[i]]
    BY <1>2
  <2>2. re(s) = [i \in 1 .. n |-> s[g[i]]]
    BY <1>4, <2>1
  <2>3. \A i \in 1 .. n : s[g[i]] \in S
    BY <1>1, <1>4
  <2>4. [i \in 1 .. n |-> s[g[i]]] \in Seq(S)
    BY <1>0, <2>3, IsASeq
  <2> HIDE DEF re
  <2>5. Len(re(s)) = n
    BY <1>0, <2>2, <2>4
  <2> QED
    BY <2>2, <2>4, <2>5
<1>5. z \in Seq(Nat)
  <2>1. ASSUME NEW p \in Nat, p \in Range(source) PROVE new(p) \in Nat
    <3>1. \E i \in DOMAIN source : source[i] = p
      BY <2>1 DEF Range
    <3>2. (CHOOSE i \in DOMAIN source : source[i] = p) \in 1 .. n - from
      BY <1>1, <3>1
    <3> QED
      BY <1>0, <3>2
  <2> HIDE DEF new
  <2>2. Len(q.history) \in Nat /\ DOMAIN q.history = 1 .. Len(q.history)
    BY <1>0
  <2>3. \A i \in 1 .. Len(q.history) :
           (IF q.history[i] \in Range(source) THEN new(q.history[i]) ELSE q.history[i]) \in Nat
    BY <1>0, <2>1
  <2>4. [i \in 1 .. Len(q.history) |-> IF q.history[i] \in Range(source)
                                       THEN new(q.history[i]) ELSE q.history[i]] \in Seq(Nat)
    BY <2>2, <2>3, IsASeq
  <2> QED
    BY <2>2, <2>4 DEF z
<1> HIDE DEF new
<1>6. /\ r.items = x /\ r.order = y /\ r.history = z
      /\ r.shuffle = q.shuffle /\ r.loop = q.loop /\ r.current = q.current
  BY <1>3 DEF QueueRecord
<1>7. CASE q.shuffle
  <2>1. Permutes(q.order, n) /\ Len(q.order) = n
    BY <1>7 DEF Sound, Permutes, n
  <2>2. y \in Seq(Nat) /\ Len(y) = n /\ \A i \in 1 .. n : y[i] = q.order[g[i]]
    BY <1>0, <1>4, <1>7, <2>1 DEF y
  <2>3. x = q.items
    BY <1>7 DEF x
  <2> HIDE DEF re
  <2>4. r \in QueueRecord(T)
    BY <1>0, <1>3, <1>5, <2>2, <2>3 DEF QueueRecord
  <2>5. /\ \A i \in 1 .. n : q.order[i] \in 0 .. n - 1
        /\ \A i, j \in 1 .. n : q.order[i] = q.order[j] => i = j
    BY <2>1 DEF Permutes
  <2>6. \A i \in 1 .. n : y[i] \in 0 .. n - 1
    BY <1>1, <2>2, <2>5
  <2>7. \A i, j \in 1 .. n : y[i] = y[j] => i = j
    <3> TAKE i, j \in 1 .. n
    <3> HAVE y[i] = y[j]
    <3>1. g[i] \in 1 .. n /\ g[j] \in 1 .. n /\ q.order[g[i]] = q.order[g[j]]
      BY <1>1, <2>2
    <3>2. g[i] = g[j]
      BY <2>5, <3>1
    <3> QED
      BY <1>1, <3>2
  <2>8. Permutes(y, n)
    BY <2>2, <2>6, <2>7 DEF Permutes
  <2>9. Sound(r)
    BY <1>6, <2>3, <2>8 DEF Sound, n
  <2>10. \A pos \in 0 .. n - 1 :
            TrackAt(r, pos) = q.items[q.order[g[pos + 1]] + 1]
    <3> TAKE pos \in 0 .. n - 1
    <3>1. pos + 1 \in 1 .. n
      BY <1>0
    <3> QED
      BY <1>6, <1>7, <2>2, <2>3, <3>1 DEF TrackAt, PhysicalIndexOf
  <2>11. ASSUME NEW pos \in 0 .. from - 1 PROVE TrackAt(r, pos) = TrackAt(q, pos)
    <3>1. pos \in 0 .. n - 1 /\ pos + 1 \in 1 .. n /\ pos + 1 <= from
      BY <1>0
    <3>2. g[pos + 1] = pos + 1
      BY <1>2, <3>1
    <3> QED
      BY <1>7, <2>10, <3>1, <3>2 DEF TrackAt, PhysicalIndexOf
  <2>12. ASSUME NEW k \in 1 .. n - from PROVE TrackAt(r, from + k - 1) = TrackAt(q, source[k])
    <3>1. /\ from + k - 1 \in 0 .. n - 1 /\ (from + k - 1) + 1 = from + k
          /\ from + k \in 1 .. n /\ ~(from + k <= from) /\ (from + k) - from = k
      BY <1>0
    <3>2. g[from + k] = source[k] + 1
      BY <1>2, <3>1
    <3>3. TrackAt(r, from + k - 1) = q.items[q.order[g[from + k]] + 1]
      BY <2>10, <3>1
    <3>4. TrackAt(q, source[k]) = q.items[q.order[source[k] + 1] + 1]
      BY <1>7 DEF TrackAt, PhysicalIndexOf
    <3> QED
      BY <3>2, <3>3, <3>4
  <2>13. Len(r.items) = n
    BY <1>6, <2>3 DEF n
  <2> QED
    BY <1>6, <2>4, <2>9, <2>11, <2>12, <2>13 DEF TailShuffled, n, r
<1>8. CASE ~q.shuffle
  <2>1. x \in Seq(T) /\ Len(x) = n /\ \A i \in 1 .. n : x[i] = q.items[g[i]]
    BY <1>0, <1>4, <1>8 DEF x, n
  <2>2. y = q.order
    BY <1>8 DEF y
  <2> HIDE DEF re
  <2>3. r \in QueueRecord(T)
    BY <1>0, <1>3, <1>5, <2>1, <2>2 DEF QueueRecord
  <2>4. Sound(r)
    BY <1>6, <1>8 DEF Sound
  <2>5. ASSUME NEW pos \in 0 .. from - 1 PROVE TrackAt(r, pos) = TrackAt(q, pos)
    <3>1. pos + 1 \in 1 .. n /\ pos + 1 <= from
      BY <1>0
    <3>2. g[pos + 1] = pos + 1
      BY <1>2, <3>1
    <3> QED
      BY <1>6, <1>8, <2>1, <3>1, <3>2 DEF TrackAt, PhysicalIndexOf
  <2>6. ASSUME NEW k \in 1 .. n - from PROVE TrackAt(r, from + k - 1) = TrackAt(q, source[k])
    <3>1. /\ (from + k - 1) + 1 = from + k
          /\ from + k \in 1 .. n /\ ~(from + k <= from) /\ (from + k) - from = k
      BY <1>0
    <3>2. g[from + k] = source[k] + 1
      BY <1>2, <3>1
    <3> QED
      BY <1>6, <1>8, <2>1, <3>1, <3>2 DEF TrackAt, PhysicalIndexOf
  <2>7. Len(r.items) = n
    BY <1>6, <2>1
  <2> QED
    BY <1>6, <2>3, <2>4, <2>5, <2>6, <2>7 DEF TailShuffled, n, r
<1> QED
  BY <1>7, <1>8

\* r is q with the entry at position a moved to position b.
EntryMoved(r, q, T, a, b) ==
    /\ r \in QueueRecord(T) /\ Sound(r)
    /\ r.shuffle = q.shuffle /\ r.loop = q.loop
    /\ r.current = RemapQueueIndex(q.current, a, b)
    /\ Len(r.items) = Len(q.items)
    /\ \A pos \in 0 .. Len(q.items) - 1 :
          TrackAt(r, RemapQueueIndex(pos, a, b)) = TrackAt(q, pos)

LEMMA MoveItemIs ==
  ASSUME NEW T, NEW q \in QueueRecord(T), Sound(q),
         NEW a \in 0 .. Len(q.items) - 1, NEW b \in 0 .. Len(q.items) - 1, a # b
  PROVE  EntryMoved(MoveItem(q, a, b), q, T, a, b)
<1> DEFINE n == Len(q.items)
           x == IF q.shuffle THEN q.items ELSE Moved(q.items, a, b)
           y == IF q.shuffle THEN Moved(q.order, a, b) ELSE q.order
           v == RemapQueueIndex(q.current, a, b)
           z == [i \in DOMAIN q.history |-> RemapQueueIndex(q.history[i], a, b)]
           r == MoveItem(q, a, b)
           map(p) == RemapQueueIndex(p, a, b)
<1>0. /\ n \in Nat /\ q.items \in Seq(T) /\ QueueLen(q) = n
      /\ q.order \in Seq(Nat) /\ q.history \in Seq(Nat) /\ q.current \in Nat
      /\ a \in Nat /\ b \in Nat /\ a < n /\ b < n
  BY SoundQueue DEF QueueRecord
<1>1. r = [q EXCEPT !.items = x, !.order = y, !.current = v, !.history = z]
  BY <1>0 DEF MoveItem
<1>2. Remaps(n, a, b)
  BY <1>0, RemapIs
<1>3. \A p \in Nat : map(p) \in Nat
  <2> TAKE p \in Nat
  <2>1. map(p) = IF p = a THEN b
                 ELSE IF a < b /\ a < p /\ p <= b THEN p - 1
                 ELSE IF b < a /\ b <= p /\ p < a THEN p + 1 ELSE p
    BY <1>0, RemapAt
  <2> HIDE DEF map
  <2> QED
    BY <1>0, <2>1
<1>4. z \in Seq(Nat) /\ v \in Nat
  <2>1. Len(q.history) \in Nat /\ DOMAIN q.history = 1 .. Len(q.history)
    BY <1>0
  <2>2. \A i \in 1 .. Len(q.history) : map(q.history[i]) \in Nat
    <3>1. \A i \in 1 .. Len(q.history) : q.history[i] \in Nat
      BY <1>0
    <3> HIDE DEF map
    <3> QED
      BY <1>3, <3>1
  <2>3. [i \in 1 .. Len(q.history) |-> map(q.history[i])] \in Seq(Nat)
    BY <2>1, <2>2, IsASeq
  <2> QED
    BY <1>0, <1>3, <2>1, <2>3
<1>5. \A p \in 0 .. n - 1 : map(p) \in 0 .. n - 1
  BY <1>2 DEF Remaps
<1>6. \A k \in 0 .. n - 1 : \E p \in 0 .. n - 1 : map(p) = k
  BY <1>2 DEF Remaps
<1>m. \A p : RemapQueueIndex(p, a, b) = map(p)
  OBVIOUS
<1> HIDE DEF map, x, y, z, r, v, n
<1>7. /\ r.items = x /\ r.order = y /\ r.history = z /\ r.current = v
      /\ r.shuffle = q.shuffle /\ r.loop = q.loop
  BY <1>1 DEF QueueRecord
<1>8. CASE q.shuffle
  <2>1. Permutes(q.order, n) /\ Len(q.order) = n
    BY <1>8 DEF Sound, Permutes, n
  <2>2. MovedEntries(y, Nat, q.order, a, b)
    <3>1. y = Moved(q.order, a, b)
      BY <1>8 DEF y
    <3>2. a \in 0 .. Len(q.order) - 1 /\ b \in 0 .. Len(q.order) - 1
      BY <1>0, <2>1
    <3> QED
      BY <1>0, <3>1, <3>2, MovedIs
  <2>3. /\ y \in Seq(Nat) /\ Len(y) = n
        /\ \A p \in 0 .. n - 1 : y[map(p) + 1] = q.order[p + 1]
    BY <1>m, <2>1, <2>2 DEF MovedEntries
  <2>4. x = q.items
    BY <1>8 DEF x
  <2>5. r \in QueueRecord(T)
    BY <1>0, <1>1, <1>4, <2>3, <2>4 DEF QueueRecord
  <2>6. /\ \A i \in 1 .. n : q.order[i] \in 0 .. n - 1
        /\ \A i, j \in 1 .. n : q.order[i] = q.order[j] => i = j
    BY <2>1 DEF Permutes
  <2>7. ASSUME NEW i \in 1 .. n
        PROVE  \E p \in 0 .. n - 1 : map(p) + 1 = i /\ y[i] = q.order[p + 1]
    <3>1. i - 1 \in 0 .. n - 1
      BY <1>0
    <3>2. PICK p \in 0 .. n - 1 : map(p) = i - 1
      BY <1>6, <3>1
    <3>3. map(p) + 1 = i
      BY <1>0, <3>2
    <3> QED
      BY <2>3, <3>3
  <2>8. \A i \in 1 .. n : y[i] \in 0 .. n - 1
    <3> TAKE i \in 1 .. n
    <3>1. PICK p \in 0 .. n - 1 : y[i] = q.order[p + 1]
      BY <2>7
    <3>2. p + 1 \in 1 .. n
      BY <1>0
    <3> QED
      BY <2>6, <3>1, <3>2
  <2>9. \A i, j \in 1 .. n : y[i] = y[j] => i = j
    <3> TAKE i, j \in 1 .. n
    <3> HAVE y[i] = y[j]
    <3>1. PICK p \in 0 .. n - 1 : map(p) + 1 = i /\ y[i] = q.order[p + 1]
      BY <2>7
    <3>2. PICK u \in 0 .. n - 1 : map(u) + 1 = j /\ y[j] = q.order[u + 1]
      BY <2>7
    <3>3. p + 1 \in 1 .. n /\ u + 1 \in 1 .. n
      BY <1>0
    <3>4. p + 1 = u + 1
      BY <2>6, <3>1, <3>2, <3>3
    <3>5. p = u
      BY <1>0, <3>4
    <3> QED
      BY <3>1, <3>2, <3>5
  <2>10. Sound(r)
    <3>1. Permutes(y, n)
      BY <2>3, <2>8, <2>9 DEF Permutes
    <3> QED
      BY <1>7, <2>4, <3>1 DEF Sound, n
  <2>11. ASSUME NEW pos \in 0 .. n - 1 PROVE TrackAt(r, map(pos)) = TrackAt(q, pos)
    <3>1. TrackAt(r, map(pos)) = q.items[y[map(pos) + 1] + 1]
      BY <1>7, <1>8, <2>4 DEF TrackAt, PhysicalIndexOf
    <3>2. TrackAt(q, pos) = q.items[q.order[pos + 1] + 1]
      BY <1>8 DEF TrackAt, PhysicalIndexOf
    <3> QED
      BY <2>3, <3>1, <3>2
  <2>12. \A pos \in 0 .. n - 1 : TrackAt(r, RemapQueueIndex(pos, a, b)) = TrackAt(q, pos)
    BY <1>m, <2>11
  <2>13. Len(r.items) = n
    BY <1>7, <2>4 DEF n
  <2> QED
    BY <1>7, <2>5, <2>10, <2>12, <2>13 DEF EntryMoved, n, r, v
<1>9. CASE ~q.shuffle
  <2>1. MovedEntries(x, T, q.items, a, b)
    BY <1>0, <1>9, MovedIs DEF x
  <2>2. /\ x \in Seq(T) /\ Len(x) = n
        /\ \A p \in 0 .. n - 1 : x[map(p) + 1] = q.items[p + 1]
    BY <1>m, <2>1 DEF MovedEntries, n
  <2>3. y = q.order
    BY <1>9 DEF y
  <2>4. r \in QueueRecord(T)
    BY <1>0, <1>1, <1>4, <2>2, <2>3 DEF QueueRecord
  <2>5. Sound(r)
    BY <1>7, <1>9 DEF Sound
  <2>6. ASSUME NEW pos \in 0 .. n - 1 PROVE TrackAt(r, map(pos)) = TrackAt(q, pos)
    <3>1. TrackAt(r, map(pos)) = x[map(pos) + 1] /\ TrackAt(q, pos) = q.items[pos + 1]
      BY <1>7, <1>9 DEF TrackAt, PhysicalIndexOf
    <3> QED
      BY <2>2, <3>1
  <2>7. \A pos \in 0 .. n - 1 : TrackAt(r, RemapQueueIndex(pos, a, b)) = TrackAt(q, pos)
    BY <1>m, <2>6
  <2> QED
    BY <1>7, <2>2, <2>4, <2>5, <2>7 DEF EntryMoved, n, r, v
<1> QED
  BY <1>8, <1>9

\* r is q without the entry at position at.
EntryRemoved(r, q, T, at) ==
    /\ r \in QueueRecord(T) /\ Sound(r)
    /\ r.shuffle = q.shuffle /\ r.loop = q.loop
    /\ Len(r.items) = Len(q.items) - 1
    /\ \A pos \in 0 .. Len(q.items) - 1 :
          pos # at => TrackAt(r, IF pos < at THEN pos ELSE pos - 1) = TrackAt(q, pos)

\* The physical indices left, once the gap is closed.
GapClosed(s, gap) == [i \in DOMAIN s |-> IF s[i] > gap THEN s[i] - 1 ELSE s[i]]

LEMMA GapClosedIs ==
  ASSUME NEW s \in Seq(Nat), NEW gap \in Nat
  PROVE  /\ GapClosed(s, gap) \in Seq(Nat) /\ Len(GapClosed(s, gap)) = Len(s)
         /\ \A i \in 1 .. Len(s) : GapClosed(s, gap)[i] = IF s[i] > gap THEN s[i] - 1 ELSE s[i]
<1>1. Len(s) \in Nat /\ DOMAIN s = 1 .. Len(s)
  OBVIOUS
<1>2. \A i \in 1 .. Len(s) : (IF s[i] > gap THEN s[i] - 1 ELSE s[i]) \in Nat
  OBVIOUS
<1>3. [i \in 1 .. Len(s) |-> IF s[i] > gap THEN s[i] - 1 ELSE s[i]] \in Seq(Nat)
  BY <1>1, <1>2, IsASeq
<1> QED
  BY <1>1, <1>3 DEF GapClosed

LEMMA RemoveEntryIs ==
  ASSUME NEW T, NEW q \in QueueRecord(T), Sound(q), NEW at \in 0 .. Len(q.items) - 1
  PROVE  /\ EntryRemoved(RemoveEntry(q, at), q, T, at)
         /\ RemoveEntry(q, at).current =
               LET left  == Len(q.items) - 1
                   moved == IF at < q.current THEN q.current - 1 ELSE q.current
               IN  IF left = 0 THEN 0 ELSE IF moved >= left THEN left - 1 ELSE moved
<1> DEFINE n == Len(q.items)
           ph == PhysicalIndexOf(q, at)
           rest == IF q.shuffle THEN RemoveAt(q.order, at + 1) ELSE Kept(q.order, Nat \ {ph})
           past == Kept(q.history, Nat \ {at})
           moved == IF at < q.current THEN q.current - 1 ELSE q.current
           x == RemoveAt(q.items, ph + 1)
           y == GapClosed(rest, ph)
           z == GapClosed(past, at)
           v == IF n - 1 = 0 THEN 0 ELSE IF moved >= n - 1 THEN n - 1 - 1 ELSE moved
           r == RemoveEntry(q, at)
<1>0. /\ n \in Nat /\ q.items \in Seq(T) /\ at \in Nat /\ at < n /\ HasTrack(q, at)
      /\ q.order \in Seq(Nat) /\ q.history \in Seq(Nat) /\ q.current \in Nat
      /\ q.shuffle \in BOOLEAN
  BY SoundQueue DEF QueueRecord
<1>1. r = [q EXCEPT !.items = x, !.order = y, !.history = z, !.current = v]
  BY <1>0 DEF RemoveEntry, GapClosed
<1>2. ph \in 0 .. n - 1 /\ ph \in Nat
  <2>1. CASE q.shuffle
    <3>1. Permutes(q.order, n) /\ at + 1 \in 1 .. n
      BY <1>0, <2>1 DEF Sound
    <3> QED
      BY <2>1, <3>1 DEF Permutes, PhysicalIndexOf
  <2>2. CASE ~q.shuffle
    BY <1>0, <2>2 DEF PhysicalIndexOf
  <2> QED
    BY <2>1, <2>2
<1>p. /\ q.shuffle => ph = q.order[at + 1]
      /\ ~q.shuffle => ph = at
  BY DEF PhysicalIndexOf
<1> HIDE DEF x, y, z, r, n, ph, rest
<1>3. v \in Nat
  BY <1>0
<1>v. v = LET left  == n - 1
              mv == IF at < q.current THEN q.current - 1 ELSE q.current
          IN  IF left = 0 THEN 0 ELSE IF mv >= left THEN left - 1 ELSE mv
  OBVIOUS
<1> HIDE DEF v, moved
<1>4. /\ r.items = x /\ r.order = y /\ r.history = z /\ r.current = v
      /\ r.shuffle = q.shuffle /\ r.loop = q.loop
  BY <1>1 DEF QueueRecord
<1>5. /\ x \in Seq(T) /\ Len(x) = n - 1
      /\ \A i \in 1 .. ph : x[i] = q.items[i]
      /\ \A i \in ph + 1 .. n - 1 : x[i] = q.items[i + 1]
  <2>1. ph + 1 \in 1 .. n /\ (ph + 1) - 1 = ph
    BY <1>0, <1>2
  <2>2. Removed(x, T, q.items, ph + 1)
    BY <1>0, <2>1, RemoveAtIs DEF n, x
  <2> QED
    BY <2>1, <2>2 DEF Removed, n
<1>6. past \in Seq(Nat)
  BY <1>0, KeptIs
<1> HIDE DEF past
<1>7. z \in Seq(Nat)
  BY <1>0, <1>6, GapClosedIs DEF z
<1>8. CASE ~q.shuffle
  <2>1. rest \in Seq(Nat)
    BY <1>0, <1>8, KeptIs DEF rest
  <2>2. y \in Seq(Nat)
    BY <1>2, <2>1, GapClosedIs DEF y
  <2>3. r \in QueueRecord(T)
    BY <1>1, <1>3, <1>5, <1>7, <2>2 DEF QueueRecord
  <2>4. Sound(r)
    BY <1>4, <1>8 DEF Sound
  <2>5. ASSUME NEW pos \in 0 .. n - 1, pos # at
        PROVE  TrackAt(r, IF pos < at THEN pos ELSE pos - 1) = TrackAt(q, pos)
    <3> DEFINE new == IF pos < at THEN pos ELSE pos - 1
    <3>1. TrackAt(r, new) = x[new + 1] /\ TrackAt(q, pos) = q.items[pos + 1]
      BY <1>4, <1>8 DEF TrackAt, PhysicalIndexOf
    <3>2. CASE pos < at
      <4>1. pos + 1 \in 1 .. ph /\ new = pos
        BY <1>0, <1>p, <1>8, <3>2
      <4> QED
        BY <1>5, <3>1, <4>1
    <3>3. CASE ~(pos < at)
      <4>1. pos \in ph + 1 .. n - 1 /\ new + 1 = pos
        BY <1>0, <1>p, <1>8, <2>5, <3>3
      <4> QED
        BY <1>5, <3>1, <4>1
    <3> QED
      BY <3>2, <3>3
  <2>6. \A pos \in 0 .. n - 1 :
           pos # at => TrackAt(r, IF pos < at THEN pos ELSE pos - 1) = TrackAt(q, pos)
    BY <2>5
  <2>7. Len(r.items) = n - 1
    BY <1>4, <1>5
  <2>8. EntryRemoved(r, q, T, at)
    BY <1>4, <2>3, <2>4, <2>6, <2>7 DEF EntryRemoved, n
  <2> QED
    BY <1>4, <1>v, <2>8 DEF r, n
<1>9. CASE q.shuffle
  <2> DEFINE o == q.order
             gap(k) == IF k > ph THEN k - 1 ELSE k
  <2>1. /\ Len(o) = n /\ o \in Seq(Nat) /\ o[at + 1] = ph
        /\ \A i \in 1 .. n : o[i] \in 0 .. n - 1
        /\ \A i, j \in 1 .. n : o[i] = o[j] => i = j
    BY <1>0, <1>9, <1>p DEF Sound, Permutes, n
  <2>2. /\ rest \in Seq(Nat) /\ Len(rest) = n - 1
        /\ \A i \in 1 .. at : rest[i] = o[i]
        /\ \A i \in at + 1 .. n - 1 : rest[i] = o[i + 1]
    <3>1. at + 1 \in 1 .. n /\ (at + 1) - 1 = at
      BY <1>0
    <3>2. Removed(rest, Nat, o, at + 1)
      BY <1>0, <1>9, <2>1, <3>1, RemoveAtIs DEF rest
    <3> HIDE DEF o
    <3> QED
      BY <2>1, <3>1, <3>2 DEF Removed
  <2>3. /\ y \in Seq(Nat) /\ Len(y) = n - 1
        /\ \A i \in 1 .. n - 1 : y[i] = gap(rest[i])
    BY <1>2, <2>2, GapClosedIs DEF y
  <2>4. r \in QueueRecord(T)
    BY <1>1, <1>3, <1>5, <1>7, <2>3 DEF QueueRecord
  <2> HIDE DEF o
  \* where an entry of the shorter order was in the longer one
  <2> DEFINE old(i) == IF i <= at THEN i ELSE i + 1
  <2>5. \A i \in 1 .. n - 1 : old(i) \in 1 .. n /\ old(i) # at + 1 /\ y[i] = gap(o[old(i)])
    <3> TAKE i \in 1 .. n - 1
    <3>1. old(i) \in 1 .. n /\ old(i) # at + 1
      BY <1>0
    <3>2. rest[i] = o[old(i)]
      BY <1>0, <2>2
    <3> HIDE DEF old, gap
    <3> QED
      BY <2>3, <3>1, <3>2
  <2>6. \A i \in 1 .. n : i # at + 1 => o[i] \in 0 .. n - 1 /\ o[i] # ph
    <3>1. at + 1 \in 1 .. n
      BY <1>0
    <3> QED
      BY <2>1, <3>1
  <2>7. \A k, l \in 0 .. n - 1 : k # ph /\ l # ph /\ gap(k) = gap(l) => k = l
    BY <1>2
  <2>8. \A k \in 0 .. n - 1 : k # ph => gap(k) \in 0 .. (n - 1) - 1
    BY <1>0, <1>2
  <2>9. \A i, j \in 1 .. n - 1 : old(i) = old(j) => i = j
    BY <1>0
  <2> HIDE DEF old, gap
  <2>10. \A i \in 1 .. n - 1 : y[i] \in 0 .. (n - 1) - 1
    BY <2>5, <2>6, <2>8
  <2>11. \A i, j \in 1 .. n - 1 : y[i] = y[j] => i = j
    <3> TAKE i, j \in 1 .. n - 1
    <3> HAVE y[i] = y[j]
    <3>1. gap(o[old(i)]) = gap(o[old(j)])
      BY <2>5
    <3>2. o[old(i)] = o[old(j)]
      BY <2>5, <2>6, <2>7, <3>1
    <3>3. old(i) = old(j)
      BY <2>1, <2>5, <3>2
    <3> QED
      BY <2>9, <3>3
  <2>12. Sound(r)
    <3>1. Permutes(y, n - 1)
      BY <2>3, <2>10, <2>11 DEF Permutes
    <3> QED
      BY <1>4, <1>5, <3>1 DEF Sound
  <2>13. ASSUME NEW pos \in 0 .. n - 1, pos # at
        PROVE  TrackAt(r, IF pos < at THEN pos ELSE pos - 1) = TrackAt(q, pos)
    <3> DEFINE new == IF pos < at THEN pos ELSE pos - 1
               k == o[pos + 1]
    <3>1. TrackAt(r, new) = x[y[new + 1] + 1] /\ TrackAt(q, pos) = q.items[k + 1]
      BY <1>4, <1>9 DEF TrackAt, PhysicalIndexOf, o
    <3>2. new + 1 \in 1 .. n - 1 /\ old(new + 1) = pos + 1
      BY <1>0, <2>13 DEF old
    <3>3. y[new + 1] = gap(k) /\ k \in 0 .. n - 1 /\ k # ph
      <4>1. pos + 1 \in 1 .. n /\ pos + 1 # at + 1
        BY <1>0, <2>13
      <4> QED
        BY <2>5, <2>6, <3>2, <4>1
    <3> HIDE DEF k, new
    <3>4. x[gap(k) + 1] = q.items[k + 1]
      <4>1. CASE k < ph
        <5>1. k + 1 \in 1 .. ph /\ gap(k) = k
          BY <1>2, <3>3, <4>1 DEF gap
        <5> QED
          BY <1>5, <5>1
      <4>2. CASE k > ph
        <5>1. k \in ph + 1 .. n - 1 /\ gap(k) + 1 = k
          BY <1>0, <1>2, <3>3, <4>2 DEF gap
        <5> QED
          BY <1>5, <5>1
      <4> QED
        BY <1>0, <1>2, <3>3, <4>1, <4>2
    <3> QED
      BY <3>1, <3>3, <3>4 DEF new
  <2>14. \A pos \in 0 .. n - 1 :
           pos # at => TrackAt(r, IF pos < at THEN pos ELSE pos - 1) = TrackAt(q, pos)
    BY <2>13
  <2>15. Len(r.items) = n - 1
    BY <1>4, <1>5
  <2>16. EntryRemoved(r, q, T, at)
    BY <1>4, <2>4, <2>12, <2>14, <2>15 DEF EntryRemoved, n
  <2> QED
    BY <1>4, <1>v, <2>16 DEF r, n
<1> QED
  BY <1>0, <1>8, <1>9

-----------------------------------------------------------------------------
(* The shuffle mode, jumps, Next and Previous, restores.                     *)

\* A rebuilt order starts with the track the pointer was on.
RebuiltFrom(r, q, T) ==
    /\ r \in QueueRecord(T)
    /\ r.items = q.items /\ r.history = q.history
    /\ r.shuffle = q.shuffle /\ r.loop = q.loop
    /\ r.current = 0
    /\ q.items = <<>> \/ q.current < Len(q.items) => Permutes(r.order, Len(q.items))
    /\ q.items # <<>> => r.order[1] = q.current

LEMMA RebuiltIs ==
  ASSUME NEW T, NEW q \in QueueRecord(T), NEW r \in Rebuilt(q)
  PROVE  RebuiltFrom(r, q, T)
<1> DEFINE n == Len(q.items)
           c == q.current
           S == IndexSet(q) \ {c}
<1>0. n \in Nat /\ c \in Nat /\ q.items \in Seq(T) /\ (q.items = <<>> <=> n = 0)
  BY EmptySeq DEF QueueRecord
<1>1. CASE q.items = <<>>
  <2>1. r = [q EXCEPT !.order = <<>>, !.current = 0]
    BY <1>1 DEF Rebuilt
  <2> DEFINE none == <<>>
  <2>e. none \in Seq(Nat)
    BY EmptySeq
  <2>f. r = [q EXCEPT !.order = none, !.current = 0]
    BY <2>1
  <2> HIDE DEF none
  <2>2. r \in QueueRecord(T) /\ r.order = none /\ r.current = 0 /\ r.items = q.items
        /\ r.history = q.history /\ r.shuffle = q.shuffle /\ r.loop = q.loop
    BY <2>e, <2>f DEF QueueRecord
  <2>3. Permutes(none, n)
    BY <1>0, <1>1 DEF Permutes, none
  <2> QED
    BY <1>1, <2>2, <2>3 DEF RebuiltFrom
<1>2. CASE q.items # <<>>
  <2>1. PICK rest \in SetToSeqs(S) : r = [q EXCEPT !.order = <<c>> \o rest, !.current = 0]
    BY <1>2 DEF Rebuilt
  <2>2. IsFiniteSet(IndexSet(q)) /\ Cardinality(IndexSet(q)) = n
    <3>2. IndexSet(q) = 0 .. n - 1
      BY DEF IndexSet
    <3> HIDE DEF n
    <3>1. /\ IsFiniteSet(0 .. n - 1)
          /\ Cardinality(0 .. n - 1) = IF 0 > n - 1 THEN 0 ELSE (n - 1) - 0 + 1
      BY SMTT(30), <1>0, FS_Interval
    <3> QED
      BY <1>0, <3>1, <3>2
  <2>3. IsFiniteSet(S) /\ (c \in IndexSet(q) => Cardinality(S) = n - 1)
    <3>1. IsFiniteSet(S) /\ Cardinality(S) = IF c \in IndexSet(q) THEN Cardinality(IndexSet(q)) - 1
                                             ELSE Cardinality(IndexSet(q))
      BY <2>2, FS_RemoveElement
    <3> QED
      BY <2>2, <3>1
  <2>4. \A k \in S : k \in 0 .. n - 1 /\ k # c
    BY DEF IndexSet
  <2> HIDE DEF S, c, n
  <2>5. Lists(rest, S)
    BY <2>3, SetToSeqsIs
  <2> DEFINE m == Cardinality(S)
             o == <<c>> \o rest
  <2>6. /\ m \in Nat /\ rest \in Seq(Nat) /\ Len(rest) = m
        /\ \A i \in 1 .. m : rest[i] \in S
        /\ \A i, j \in 1 .. m : rest[i] = rest[j] => i = j
    <3>1. /\ m \in Nat /\ rest \in Seq(S) /\ Len(rest) = m
          /\ \A i, j \in 1 .. m : rest[i] = rest[j] => i = j
      BY <2>5 DEF Lists
    <3>2. \A k \in S : k \in Nat
      BY <1>0, <2>4
    <3> HIDE DEF m
    <3>3. \A i \in 1 .. m : rest[i] \in S
      BY <3>1
    <3>4. rest \in Seq(Nat)
      <4>1. rest = [i \in 1 .. m |-> rest[i]] /\ \A i \in 1 .. m : rest[i] \in Nat
        BY <3>1, <3>2, <3>3
      <4> QED
        BY <3>1, <4>1, IsASeq
    <3> QED
      BY <3>1, <3>3, <3>4
  <2> HIDE DEF m
  <2>7. /\ o \in Seq(Nat) /\ Len(o) = m + 1 /\ o[1] = c
        /\ \A i \in 2 .. m + 1 : o[i] = rest[i - 1]
    <3>1. <<c>> \in Seq(Nat) /\ Len(<<c>>) = 1 /\ <<c>>[1] = c
      BY <1>0
    <3>2. /\ o \in Seq(Nat) /\ Len(o) = 1 + m
          /\ \A i \in 1 .. 1 + m : o[i] = IF i <= 1 THEN <<c>>[i] ELSE rest[i - 1]
      BY <2>6, <3>1, ConcatProperties
    <3> HIDE DEF o
    <3>3. 1 \in 1 .. 1 + m /\ 1 <= 1 /\ \A i \in 2 .. m + 1 : i \in 1 .. 1 + m /\ ~(i <= 1)
      BY <2>6
    <3> QED
      BY <2>6, <3>1, <3>2, <3>3
  <2>8. r = [q EXCEPT !.order = o, !.current = 0]
    BY <2>1 DEF c
  <2> HIDE DEF o
  <2>9. /\ r \in QueueRecord(T) /\ r.order = o /\ r.current = 0 /\ r.items = q.items
        /\ r.history = q.history /\ r.shuffle = q.shuffle /\ r.loop = q.loop
    BY <2>7, <2>8 DEF QueueRecord
  <2>10. ASSUME c < n PROVE Permutes(o, n)
    <3>1. m = n - 1
      BY <1>0, <2>3, <2>10 DEF m, IndexSet, n
    <3>2. \A i \in 1 .. n : i = 1 \/ (i \in 2 .. m + 1 /\ i - 1 \in 1 .. m)
      BY <1>0, <3>1
    <3>3. \A i \in 1 .. n : o[i] \in 0 .. n - 1
      <4> TAKE i \in 1 .. n
      <4>1. CASE i = 1
        BY <1>0, <2>7, <2>10, <4>1
      <4>2. CASE i \in 2 .. m + 1 /\ i - 1 \in 1 .. m
        BY <2>4, <2>6, <2>7, <4>2
      <4> QED
        BY <3>2, <4>1, <4>2
    <3>4. \A i, j \in 1 .. n : o[i] = o[j] => i = j
      <4> TAKE i, j \in 1 .. n
      <4> HAVE o[i] = o[j]
      <4>1. CASE i = 1 /\ j = 1
        BY <4>1
      <4>2. CASE i = 1 /\ j # 1
        <5>1. o[j] \in S /\ o[i] = c
          BY <2>6, <2>7, <3>2, <4>2
        <5> QED
          BY <2>4, <5>1
      <4>3. CASE i # 1 /\ j = 1
        <5>1. o[i] \in S /\ o[j] = c
          BY <2>6, <2>7, <3>2, <4>3
        <5> QED
          BY <2>4, <5>1
      <4>4. CASE i # 1 /\ j # 1
        <5>1. /\ i - 1 \in 1 .. m /\ j - 1 \in 1 .. m
              /\ o[i] = rest[i - 1] /\ o[j] = rest[j - 1]
          BY <2>7, <3>2, <4>4
        <5>2. i - 1 = j - 1
          BY <2>6, <5>1
        <5> QED
          BY <5>2
      <4> QED
        BY <4>1, <4>2, <4>3, <4>4
    <3>5. Len(o) = n
      BY <1>0, <2>7, <3>1
    <3> QED
      BY <3>3, <3>4, <3>5 DEF Permutes
  <2> QED
    BY <1>2, <2>7, <2>9, <2>10 DEF RebuiltFrom, c, n
<1> QED
  BY <1>1, <1>2

\* The shuffle mode: the queue stays, and the track played.
Toggled(r, q, T, on) ==
    /\ r \in QueueRecord(T)
    /\ r.items = q.items /\ r.history = q.history
    /\ r.shuffle = on /\ r.loop = q.loop
    /\ GoodQueue(q, T) => GoodQueue(r, T)
    /\ GoodQueue(q, T) /\ q.items # <<>> => CurrentTrack(r) = CurrentTrack(q)

LEMMA SetShuffleIs ==
  ASSUME NEW T, NEW q \in QueueRecord(T), NEW on \in BOOLEAN, NEW r \in SetShuffle(q, on)
  PROVE  Toggled(r, q, T, on)
<1> DEFINE n == Len(q.items)
<1>0. /\ n \in Nat /\ q.items \in Seq(T) /\ (q.items = <<>> <=> n = 0) /\ q.current \in Nat
      /\ q.shuffle \in BOOLEAN /\ q.order \in Seq(Nat)
  BY EmptySeq DEF QueueRecord
<1>p. GoodQueue(q, T) => Sound(q) /\ (q.items # <<>> => q.current < n) /\ (q.items = <<>> => q.current = 0)
  BY DEF GoodQueue, Pointing
<1>1. CASE q.shuffle = on
  <2>1. r = q
    BY <1>1 DEF SetShuffle
  <2> QED
    BY <1>1, <2>1 DEF Toggled
<1>2. CASE q.shuffle /\ ~on
  <2> DEFINE v == IF q.current < Len(q.order) THEN q.order[q.current + 1] ELSE q.current
  <2>1. r = [q EXCEPT !.shuffle = FALSE, !.current = v]
    BY <1>2 DEF SetShuffle, ToggleShuffle
  <2>2. v \in Nat
    BY <1>0
  <2>3. q.current < Len(q.order) => v = q.order[q.current + 1]
    OBVIOUS
  <2> HIDE DEF v
  <2>4. /\ r \in QueueRecord(T) /\ r.items = q.items /\ r.history = q.history /\ r.current = v
        /\ r.order = q.order /\ r.shuffle = FALSE /\ r.loop = q.loop
    BY <2>1, <2>2 DEF QueueRecord
  <2>5. ASSUME GoodQueue(q, T)
        PROVE  GoodQueue(r, T) /\ (q.items # <<>> => CurrentTrack(r) = CurrentTrack(q))
    <3>1. Sound(r)
      BY <2>4 DEF Sound
    <3>2. Permutes(q.order, n)
      BY <1>2, <1>p, <2>5 DEF Sound
    <3>3. CASE q.items = <<>>
      <4>1. Len(q.order) = 0
        BY <1>0, <3>2, <3>3 DEF Permutes
      <4>2. v = 0
        BY <1>p, <2>5, <3>3, <4>1 DEF v
      <4> QED
        BY <2>4, <3>1, <3>3, <4>2 DEF GoodQueue, Pointing
    <3>4. CASE q.items # <<>>
      <4>1. q.current < n /\ Len(q.order) = n
        BY <1>p, <2>5, <3>2, <3>4 DEF Permutes
      <4>2. v = q.order[q.current + 1] /\ v \in 0 .. n - 1
        BY <1>0, <2>3, <3>2, <4>1 DEF Permutes
      <4>3. Pointing(r)
        BY <1>0, <2>4, <3>4, <4>2 DEF Pointing
      <4>4. HasTrack(q, q.current) /\ HasTrack(r, v)
        BY <1>0, <1>p, <2>4, <2>5, <3>1, <4>1, <4>2, SoundQueue
      <4>5. TrackAt(r, v) = q.items[v + 1] /\ TrackAt(q, q.current) = q.items[v + 1]
        BY <1>2, <2>4, <4>2 DEF TrackAt, PhysicalIndexOf
      <4> QED
        BY <2>4, <3>1, <4>3, <4>4, <4>5 DEF GoodQueue, CurrentTrack, TrackOrGone
    <3> QED
      BY <3>3, <3>4
  <2> QED
    BY <1>2, <2>4, <2>5 DEF Toggled
<1>3. CASE ~q.shuffle /\ on
  <2> DEFINE w == [q EXCEPT !.shuffle = TRUE]
  <2>1. r \in Rebuilt(w)
    BY <1>3 DEF SetShuffle, ToggleShuffle
  <2>2. /\ w \in QueueRecord(T) /\ w.items = q.items /\ w.history = q.history
        /\ w.current = q.current /\ w.shuffle = TRUE /\ w.loop = q.loop
    BY DEF QueueRecord
  <2> HIDE DEF w
  <2>3. RebuiltFrom(r, w, T)
    BY <2>1, <2>2, RebuiltIs
  <2>4. /\ r \in QueueRecord(T) /\ r.items = q.items /\ r.history = q.history
        /\ r.shuffle = TRUE /\ r.loop = q.loop /\ r.current = 0
        /\ q.items = <<>> \/ q.current < n => Permutes(r.order, n)
        /\ q.items # <<>> => r.order[1] = q.current
    BY <2>2, <2>3 DEF RebuiltFrom
  <2>5. ASSUME GoodQueue(q, T)
        PROVE  GoodQueue(r, T) /\ (q.items # <<>> => CurrentTrack(r) = CurrentTrack(q))
    <3>1. Permutes(r.order, n) /\ Sound(r)
      BY <1>p, <2>4, <2>5 DEF Sound
    <3>2. Pointing(r)
      BY <1>0, <2>4 DEF Pointing
    <3>3. ASSUME q.items # <<>> PROVE CurrentTrack(r) = CurrentTrack(q)
      <4>1. HasTrack(q, q.current) /\ HasTrack(r, 0)
        BY <1>0, <1>p, <2>4, <2>5, <3>1, <3>3, SoundQueue
      <4>2. TrackAt(r, 0) = q.items[q.current + 1] /\ TrackAt(q, q.current) = q.items[q.current + 1]
        BY <1>3, <2>4, <3>3 DEF TrackAt, PhysicalIndexOf
      <4> QED
        BY <2>4, <4>1, <4>2 DEF CurrentTrack, TrackOrGone
    <3> QED
      BY <2>4, <3>1, <3>2, <3>3 DEF GoodQueue
  <2> QED
    BY <1>3, <2>4, <2>5 DEF Toggled
<1> QED
  BY <1>0, <1>1, <1>2, <1>3

\* Only the history and the pointer change.
SameTracks(r, q) ==
    /\ r.items = q.items /\ r.order = q.order
    /\ r.shuffle = q.shuffle /\ r.loop = q.loop

LEMMA PushHistoryIs ==
  ASSUME NEW T, NEW q \in QueueRecord(T)
  PROVE  /\ PushHistory(q) \in QueueRecord(T) /\ SameTracks(PushHistory(q), q)
         /\ PushHistory(q).current = q.current
         /\ PushHistory(q).history # <<>>
         /\ Last(PushHistory(q).history) = q.current
<1>0. q.history \in Seq(Nat) /\ q.current \in Nat
  BY DEF QueueRecord
<1>1. CASE q.history # <<>> /\ Last(q.history) = q.current
  BY <1>1 DEF PushHistory, SameTracks
<1>2. CASE ~(q.history # <<>> /\ Last(q.history) = q.current)
  <2> DEFINE h == Append(q.history, q.current)
  <2>1. h \in Seq(Nat) /\ Len(h) = Len(q.history) + 1 /\ h[Len(q.history) + 1] = q.current
    BY <1>0, AppendProperties
  <2>2. PushHistory(q) = [q EXCEPT !.history = h]
    BY <1>2 DEF PushHistory
  <2>3. h # <<>>
    BY <1>0
  <2> HIDE DEF h
  <2>4. Last(h) = q.current
    BY <2>1 DEF Last
  <2> QED
    BY <2>1, <2>2, <2>3, <2>4 DEF QueueRecord, SameTracks
<1> QED
  BY <1>1, <1>2

\* A queue whose pointer moved is as good as its pointer.
LEMMA SameTracksIs ==
  ASSUME NEW T, NEW q, GoodQueue(q, T), NEW r \in QueueRecord(T), SameTracks(r, q),
         r.current < Len(q.items)
  PROVE  GoodQueue(r, T)
<1>1. Sound(r)
  BY DEF GoodQueue, Sound, SameTracks
<1>2. q.items \in Seq(T) /\ r.current \in Nat
  BY DEF GoodQueue, QueueRecord
<1>3. q.items # <<>>
  BY <1>2
<1> QED
  BY <1>1, <1>3 DEF GoodQueue, Pointing, SameTracks

LEMMA JumpToIs ==
  ASSUME NEW T, NEW q \in QueueRecord(T), NEW physical \in 0 .. Len(q.items) - 1,
         q.shuffle \in BOOLEAN, NEW r \in JumpTo(q, physical)
  PROVE  GoodQueue(r, T) /\ r.items = q.items /\ r.shuffle = q.shuffle
<1> DEFINE m == [PushHistory(q) EXCEPT !.current = physical]
<1>0. PushHistory(q) \in QueueRecord(T) /\ SameTracks(PushHistory(q), q)
  BY PushHistoryIs
<1>1. /\ m \in QueueRecord(T) /\ m.items = q.items /\ m.shuffle = q.shuffle
      /\ m.current = physical
  <2> DEFINE p == PushHistory(q)
  <2>1. p \in QueueRecord(T) /\ SameTracks(p, q) /\ m = [p EXCEPT !.current = physical]
    BY <1>0
  <2>2. physical \in Nat
    OBVIOUS
  <2> HIDE DEF p, m
  <2> QED
    BY <2>1, <2>2 DEF QueueRecord, SameTracks
<1>2. physical < Len(q.items) /\ q.items # <<>> /\ q.items \in Seq(T)
  BY DEF QueueRecord
<1>3. JumpTo(q, physical) = IF q.shuffle THEN Rebuilt(m) ELSE {m}
  BY DEF JumpTo
<1> HIDE DEF m
<1>4. CASE q.shuffle
  <2>1. RebuiltFrom(r, m, T)
    BY <1>1, <1>3, <1>4, RebuiltIs
  <2>2. /\ r \in QueueRecord(T) /\ r.items = q.items /\ r.shuffle = q.shuffle /\ r.current = 0
        /\ Permutes(r.order, Len(q.items))
    BY <1>1, <1>2, <2>1 DEF RebuiltFrom
  <2>3. 0 < Len(q.items)
    BY <1>2
  <2> QED
    BY <1>2, <2>2, <2>3 DEF GoodQueue, Sound, Pointing
<1>5. CASE ~q.shuffle
  <2>1. r = m
    BY <1>3, <1>5
  <2> QED
    BY <1>1, <1>2, <1>5, <2>1 DEF GoodQueue, Sound, Pointing
<1> QED
  BY <1>4, <1>5

LEMMA JumpToPositionIs ==
  ASSUME NEW T, NEW q, GoodQueue(q, T), NEW pos \in Nat, NEW r \in JumpToPosition(q, pos)
  PROVE  GoodQueue(r, T) /\ SameTracks(r, q) /\ r.current = pos
<1>0. q \in QueueRecord(T) /\ Sound(q)
  BY DEF GoodQueue
<1>1. Ready(q) = {q} /\ QueueLen(q) = Len(q.items)
  BY <1>0, SoundQueue
<1>2. pos < Len(q.items) /\ r = [PushHistory(q) EXCEPT !.current = pos]
  BY <1>1 DEF JumpToPosition
<1>3. PushHistory(q) \in QueueRecord(T) /\ SameTracks(PushHistory(q), q)
  BY <1>0, PushHistoryIs
<1>4. r \in QueueRecord(T) /\ SameTracks(r, q) /\ r.current = pos
  BY <1>2, <1>3 DEF QueueRecord, SameTracks
<1> QED
  BY <1>2, <1>4, SameTracksIs

LEMMA LeastIs ==
  ASSUME NEW S \in SUBSET Nat, S # {}
  PROVE  Min(S) \in S /\ \A y \in S : Min(S) <= y
<1>1. PICK x \in S : \A y \in S : ~(<<y, x>> \in OpToRel(<, Nat))
  BY NatLessThanWellFounded, WFMin
<1>2. OpToRel(<, Nat) = {ss \in Nat \X Nat : ss[1] < ss[2]}
  BY Zenon DEF OpToRel
<1>3. \A i, j \in Nat : ~(<<j, i>> \in {ss \in Nat \X Nat : ss[1] < ss[2]}) => i <= j
  OBVIOUS
<1>4. \A y \in S : x <= y
  BY <1>1, <1>2, <1>3
<1> QED
  BY <1>4 DEF Min

\* Next stays on the queue.
LEMMA PeekNextIs ==
  ASSUME NEW T, NEW q, GoodQueue(q, T), NEW playable
  PROVE  \/ PeekNext(q, playable) = Nowhere
         \/ PeekNext(q, playable) \in 0 .. Len(q.items) - 1
<1> DEFINE n == Len(q.items)
           first == IF q.current + 1 < n THEN q.current + 1 ELSE 0
           at(k) == (first + k - 1) % n
           reached == {k \in 1 .. n : /\ HasFollowingTrack(q.current, n, q.loop)
                                      /\ q.loop = "none" => first + k - 1 < n}
           good == {k \in reached : HasTrack(q, at(k)) /\ TrackAt(q, at(k)) \in playable}
           pos == PeekNext(q, playable)
<1>0. /\ q \in QueueRecord(T) /\ Sound(q) /\ Pointing(q) /\ q.current \in Nat
      /\ n \in Nat /\ q.items \in Seq(T)
  BY DEF GoodQueue, QueueRecord
<1>1. QueueLen(q) = n
  BY <1>0, SoundQueue
<1>2. pos = CASE n = 0                                 -> Nowhere
              [] n > 0 /\ q.loop = "track"             -> q.current
              [] n > 0 /\ q.loop # "track" /\ good # {} -> at(Min(good))
              [] OTHER                                 -> Nowhere
  BY <1>1 DEF PeekNext
<1>3. good \in SUBSET Nat
  OBVIOUS
<1>f. first \in Nat
  BY <1>0
<1> HIDE DEF pos, good, reached, first
<1>4. good # {} => Min(good) \in Nat
  BY <1>3, LeastIs
<1>5. n > 0 /\ good # {} => at(Min(good)) \in 0 .. n - 1
  <2> HAVE n > 0 /\ good # {}
  <2>1. first + Min(good) - 1 \in Int
    BY <1>4, <1>f
  <2> HIDE DEF n
  <2> QED
    BY <1>0, <2>1
<1> HIDE DEF at
<1>6. n > 0 => q.current \in 0 .. n - 1
  <2>1. n > 0 => q.items # <<>>
    BY <1>0
  <2> QED
    BY <1>0, <2>1 DEF Pointing
<1>7. n = 0 \/ n > 0
  BY <1>0
<1> HIDE DEF n
<1>8. \/ pos = Nowhere
      \/ n > 0 /\ pos = q.current
      \/ n > 0 /\ good # {} /\ pos = at(Min(good))
  BY <1>2, <1>7
<1>9. pos = Nowhere \/ pos \in 0 .. n - 1
  BY <1>5, <1>6, <1>8
<1> QED
  BY <1>9 DEF pos, n

\* Next leaves a history that ends where it started.
LEMMA AdvanceNextIs ==
  ASSUME NEW T, NEW q, GoodQueue(q, T), NEW playable, NEW r \in AdvanceNext(q, playable)
  PROVE  /\ GoodQueue(r, T) /\ SameTracks(r, q)
         /\ PeekNext(q, playable) # Nowhere =>
               /\ r.history # <<>> /\ Last(r.history) = q.current
               /\ r.current = PeekNext(q, playable)
<1> DEFINE pos == PeekNext(q, playable)
<1>0. q \in QueueRecord(T) /\ Sound(q) /\ Len(q.items) \in Nat
  BY DEF GoodQueue, QueueRecord
<1>1. Ready(q) = {q}
  BY <1>0, SoundQueue
<1>2. r = IF pos = Nowhere THEN q ELSE [PushHistory(q) EXCEPT !.current = pos]
  BY <1>1 DEF AdvanceNext
<1>3. pos = Nowhere \/ pos \in 0 .. Len(q.items) - 1
  BY PeekNextIs
<1> HIDE DEF pos
<1>4. CASE pos = Nowhere
  BY <1>2, <1>4 DEF SameTracks, pos
<1>5. CASE pos # Nowhere
  <2>1. pos \in Nat /\ pos < Len(q.items)
    BY <1>0, <1>3, <1>5
  <2>2. /\ PushHistory(q) \in QueueRecord(T) /\ SameTracks(PushHistory(q), q)
        /\ PushHistory(q).history # <<>> /\ Last(PushHistory(q).history) = q.current
    BY <1>0, PushHistoryIs
  <2> DEFINE p == PushHistory(q)
  <2>3. r = [p EXCEPT !.current = pos] /\ p \in QueueRecord(T) /\ SameTracks(p, q)
    BY <1>2, <1>5, <2>2
  <2>h. p.history # <<>> /\ Last(p.history) = q.current
    BY <2>2
  <2> HIDE DEF p
  <2>4. r \in QueueRecord(T) /\ SameTracks(r, q) /\ r.current = pos /\ r.history = p.history
    BY <2>1, <2>3 DEF QueueRecord, SameTracks
  <2>5. GoodQueue(r, T)
    BY <2>1, <2>4, SameTracksIs
  <2> QED
    BY <2>4, <2>5, <2>h DEF pos
<1> QED
  BY <1>4, <1>5

LEMMA PreviousIs ==
  ASSUME NEW T, NEW q, GoodQueue(q, T), NEW r \in PreviousPosition(q)
  PROVE  /\ r \in QueueRecord(T) /\ SameTracks(r, q)
         /\ r.current = PreviousTarget(q)
         /\ HasTrack(r, r.current) => GoodQueue(r, T)
<1>0. /\ q \in QueueRecord(T) /\ Sound(q) /\ Len(q.items) \in Nat /\ q.history \in Seq(Nat)
      /\ q.current \in Nat
  BY DEF GoodQueue, QueueRecord
<1>1. Ready(q) = {q} /\ QueueLen(q) = Len(q.items)
  BY <1>0, SoundQueue
<1> DEFINE target == PreviousTarget(q)
           h == IF q.history = <<>> THEN q.history ELSE Front(q.history)
<1>2. target # Nowhere /\ r = [q EXCEPT !.current = target, !.history = h]
  BY <1>1 DEF PreviousPosition
<1>3. h \in Seq(Nat)
  <2>1. CASE q.history = <<>>
    BY <1>0, <2>1
  <2>2. CASE q.history # <<>>
    <3>1. Len(q.history) - 1 \in Nat /\ Len(q.history) \in Nat
      BY <1>0, <2>2
    <3>2. Part(SubSeq(q.history, 1, Len(q.history) - 1), Nat, q.history, 1, Len(q.history) - 1)
      BY <1>0, <3>1, PartIs
    <3> QED
      BY <2>2, <3>2 DEF Part, Front
  <2> QED
    BY <2>1, <2>2
<1>4. target \in Nat
  <2>1. q.history # <<>> => Last(q.history) \in Nat
    BY <1>0 DEF Last
  <2> DEFINE c1 == QueueLen(q) = 0
             c2 == QueueLen(q) > 0 /\ q.history # <<>>
             c3 == QueueLen(q) > 0 /\ q.history = <<>> /\ q.current > 0
             c4 == QueueLen(q) > 0 /\ q.history = <<>> /\ q.current = 0 /\ q.loop = "queue"
  <2>2. target = CASE c1 -> Nowhere [] c2 -> Last(q.history) [] c3 -> q.current - 1
                   [] c4 -> QueueLen(q) - 1 [] OTHER -> Nowhere
    BY DEF PreviousTarget
  <2>3. /\ c2 => Last(q.history) \in Nat
        /\ c3 => q.current - 1 \in Nat
        /\ c4 => QueueLen(q) - 1 \in Nat
    BY <1>0, <1>1, <2>1
  <2> HIDE DEF c1, c2, c3, c4, target
  <2> QED
    BY <1>2, <2>2, <2>3
<1> HIDE DEF target, h
<1>5. r \in QueueRecord(T) /\ SameTracks(r, q) /\ r.current = target
  BY <1>0, <1>2, <1>3, <1>4 DEF QueueRecord, SameTracks
<1>6. ASSUME HasTrack(r, r.current) PROVE GoodQueue(r, T)
  <2>1. Sound(r)
    BY <1>0, <1>5 DEF Sound, SameTracks
  <2>2. r.current < Len(r.items)
    BY <1>4, <1>5, <1>6, <2>1, SoundQueue
  <2>3. r.items = q.items
    BY <1>5 DEF SameTracks
  <2> QED
    BY <1>5, <2>2, <2>3, SameTracksIs
<1> QED
  BY <1>5, <1>6 DEF target

\* Previous goes back to where Next came from.
LEMMA PreviousAfterNext ==
  ASSUME NEW T, NEW q, GoodQueue(q, T), NEW playable, NEW r \in AdvanceNext(q, playable),
         PeekNext(q, playable) # Nowhere, NEW back \in PreviousPosition(r)
  PROVE  back.current = q.current
<1>0. q \in QueueRecord(T) /\ Sound(q) /\ Len(q.items) \in Nat
  BY DEF GoodQueue, QueueRecord
<1>1. /\ GoodQueue(r, T) /\ SameTracks(r, q)
      /\ r.history # <<>> /\ Last(r.history) = q.current
  BY AdvanceNextIs
<1>2. back.current = PreviousTarget(r)
  BY <1>1, PreviousIs
<1>3. QueueLen(r) = Len(r.items) /\ QueueLen(q) = Len(q.items)
  BY <1>0, <1>1, SoundQueue DEF GoodQueue
<1>4. QueueLen(q) # 0
  BY <1>0, <1>3 DEF PeekNext
<1>5. QueueLen(r) \in Nat /\ QueueLen(r) > 0
  BY <1>0, <1>1, <1>3, <1>4 DEF SameTracks
<1>6. PreviousTarget(r) = Last(r.history)
  BY <1>1, <1>5 DEF PreviousTarget
<1> QED
  BY <1>1, <1>2, <1>6

\* A restored queue: the order it was saved with covers it.
LEMMA RestoreIs ==
  ASSUME NEW T, NEW q \in QueueRecord(T), NEW items \in Seq(T), NEW position \in Nat,
         NEW order \in Seq(Nat), NEW on \in BOOLEAN, on => Covers(order, Len(items)),
         NEW r \in Restore(q, items, position, order, on)
  PROVE  GoodQueue(r, T) /\ r.items = items
<1> DEFINE none == <<>>
           bare == [q EXCEPT !.items = items, !.history = none, !.shuffle = on, !.order = order]
           clamped == IF position < Len(items) THEN position ELSE Len(items) - 1
<1>0. Len(items) \in Nat /\ none \in Seq(Nat) /\ (items = <<>> <=> Len(items) = 0)
  BY EmptySeq
<1>1. Restore(q, items, position, order, on) =
         IF items = <<>> THEN {[bare EXCEPT !.current = 0]}
         ELSE {[s EXCEPT !.current = IF HasTrack(s, clamped) THEN clamped ELSE 0] : s \in Ready(bare)}
  BY DEF Restore
<1> HIDE DEF none
<1>2. /\ bare \in QueueRecord(T) /\ bare.items = items /\ bare.shuffle = on /\ bare.order = order
  BY <1>0 DEF QueueRecord
<1> HIDE DEF bare
<1>3. on => Permutes(order, Len(items))
  BY <1>0, CoversPermutes
<1>4. Sound(bare)
  BY <1>2, <1>3 DEF Sound
<1>5. Ready(bare) = {bare} /\ \A pos \in Nat : HasTrack(bare, pos) <=> pos < Len(items)
  BY <1>2, <1>4, SoundQueue
<1>6. CASE items = <<>>
  <2>1. r = [bare EXCEPT !.current = 0]
    BY <1>1, <1>6
  <2>2. /\ r \in QueueRecord(T) /\ r.items = items /\ r.shuffle = on /\ r.order = order
        /\ r.current = 0
    BY <1>2, <2>1 DEF QueueRecord
  <2> QED
    BY <1>3, <1>6, <2>2 DEF GoodQueue, Sound, Pointing
<1>7. CASE items # <<>>
  <2> DEFINE v == IF HasTrack(bare, clamped) THEN clamped ELSE 0
  <2>1. r = [bare EXCEPT !.current = v]
    BY <1>1, <1>5, <1>7
  <2>2. v \in Nat /\ v < Len(items)
    <3>1. clamped \in Nat /\ clamped < Len(items) /\ 0 < Len(items)
      BY <1>0, <1>7
    <3> QED
      BY <3>1
  <2> HIDE DEF v
  <2>3. /\ r \in QueueRecord(T) /\ r.items = items /\ r.shuffle = on /\ r.order = order
        /\ r.current = v
    BY <1>2, <2>1, <2>2 DEF QueueRecord
  <2> QED
    BY <1>3, <1>7, <2>2, <2>3 DEF GoodQueue, Sound, Pointing
<1> QED
  BY <1>6, <1>7

\* A replacement, before its jump: nothing is said of the order yet.
LEMMA ReplaceIs ==
  ASSUME NEW T, NEW q \in QueueRecord(T), NEW t \in Seq(T)
  PROVE  /\ Replace(q, t) \in QueueRecord(T) /\ Replace(q, t).items = t
         /\ t = <<>> => GoodQueue(Replace(q, t), T)
<1> DEFINE none == <<>>
           nothing == <<>>
<1>0. none \in Seq(Nat) /\ nothing \in Seq(T) /\ Len(none) = 0
  BY EmptySeq
<1>1. CASE t = <<>>
  <2> DEFINE r == Replace(q, t)
  <2>1. r = [q EXCEPT !.items = nothing, !.history = none, !.order = none, !.current = 0]
    BY <1>1 DEF Replace, Clear
  <2>2. Permutes(none, 0) /\ Len(nothing) = 0 /\ nothing = t
    BY <1>1 DEF Permutes
  <2> HIDE DEF none, nothing, r
  <2>3. /\ r \in QueueRecord(T) /\ r.items = nothing /\ r.order = none /\ r.current = 0
    BY <1>0, <2>1 DEF QueueRecord
  <2>4. GoodQueue(r, T)
    BY <1>1, <2>2, <2>3 DEF GoodQueue, Sound, Pointing
  <2> QED
    BY <2>2, <2>3, <2>4 DEF r
<1>2. CASE t # <<>>
  BY <1>2 DEF Replace, QueueRecord
<1> QED
  BY <1>1, <1>2

\* A truncated queue plays on as long as the pointer is before the cut.
LEMMA TruncatedKeepsPointer ==
  ASSUME NEW T, NEW q, GoodQueue(q, T), NEW cut \in 0 .. Len(q.items), NEW r,
         Truncated(r, q, T, cut),
         q.items # <<>> => q.current < cut
  PROVE  /\ GoodQueue(r, T)
         /\ q.items # <<>> => r.items # <<>> /\ CurrentTrack(r) = CurrentTrack(q)
<1>0. /\ q \in QueueRecord(T) /\ Sound(q) /\ Pointing(q) /\ r \in QueueRecord(T) /\ Sound(r)
      /\ Len(r.items) = cut /\ r.current = q.current
  BY DEF GoodQueue, Truncated
<1>1. /\ q.items \in Seq(T) /\ r.items \in Seq(T) /\ Len(q.items) \in Nat
      /\ q.current \in Nat /\ cut \in Nat
  BY <1>0 DEF QueueRecord
<1>2. /\ q.items = <<>> <=> Len(q.items) = 0
      /\ r.items = <<>> <=> Len(r.items) = 0
  BY <1>1, EmptySeq
<1>3. GoodQueue(r, T)
  <2>1. CASE q.items = <<>>
    BY <1>0, <1>1, <1>2, <2>1 DEF GoodQueue, Pointing
  <2>2. CASE q.items # <<>>
    BY <1>0, <1>1, <1>2, <2>2 DEF GoodQueue, Pointing
  <2> QED
    BY <2>1, <2>2
<1>4. ASSUME q.items # <<>> PROVE r.items # <<>> /\ CurrentTrack(r) = CurrentTrack(q)
  <2>1. r.items # <<>> /\ q.current \in 0 .. cut - 1 /\ q.current < Len(q.items)
    BY <1>0, <1>1, <1>2, <1>4
  <2>2. HasTrack(q, q.current) /\ HasTrack(r, r.current)
    BY <1>0, <1>1, <2>1, SoundQueue
  <2>3. TrackAt(r, q.current) = TrackAt(q, q.current)
    BY <2>1 DEF Truncated
  <2> QED
    BY <1>0, <2>1, <2>2, <2>3 DEF CurrentTrack, TrackOrGone
<1> QED
  BY <1>3, <1>4

LEMMA ShuffledTailKeepsPointer ==
  ASSUME NEW T, NEW q, GoodQueue(q, T), NEW from \in 0 .. Len(q.items), NEW source, NEW r,
         TailShuffled(r, q, T, from, source),
         q.items # <<>> => q.current < from
  PROVE  /\ GoodQueue(r, T)
         /\ q.items # <<>> => CurrentTrack(r) = CurrentTrack(q)
<1>0. /\ q \in QueueRecord(T) /\ Sound(q) /\ Pointing(q) /\ r \in QueueRecord(T) /\ Sound(r)
      /\ Len(r.items) = Len(q.items) /\ r.current = q.current
  BY DEF GoodQueue, TailShuffled
<1>1. /\ q.items \in Seq(T) /\ r.items \in Seq(T) /\ Len(q.items) \in Nat
      /\ q.current \in Nat /\ from \in Nat
  BY <1>0 DEF QueueRecord
<1>2. /\ q.items = <<>> <=> Len(q.items) = 0
      /\ r.items = <<>> <=> Len(r.items) = 0
  BY <1>1, EmptySeq
<1>3. GoodQueue(r, T)
  BY <1>0, <1>2 DEF GoodQueue, Pointing
<1>4. ASSUME q.items # <<>> PROVE CurrentTrack(r) = CurrentTrack(q)
  <2>1. q.current \in 0 .. from - 1 /\ q.current < Len(q.items)
    BY <1>0, <1>1, <1>4 DEF Pointing
  <2>2. HasTrack(q, q.current) /\ HasTrack(r, r.current)
    BY <1>0, <1>1, <2>1, SoundQueue
  <2>3. TrackAt(r, q.current) = TrackAt(q, q.current)
    BY <2>1 DEF TailShuffled
  <2> QED
    BY <1>0, <2>2, <2>3 DEF CurrentTrack, TrackOrGone
<1> QED
  BY <1>3, <1>4

LEMMA MovedKeepsPointer ==
  ASSUME NEW T, NEW q, GoodQueue(q, T), NEW r,
         NEW a \in 0 .. Len(q.items) - 1, NEW b \in 0 .. Len(q.items) - 1,
         EntryMoved(r, q, T, a, b)
  PROVE  GoodQueue(r, T) /\ CurrentTrack(r) = CurrentTrack(q)
<1>0. /\ q \in QueueRecord(T) /\ Sound(q) /\ Pointing(q) /\ r \in QueueRecord(T) /\ Sound(r)
      /\ Len(r.items) = Len(q.items) /\ r.current = RemapQueueIndex(q.current, a, b)
  BY DEF GoodQueue, EntryMoved
<1>1. q.items \in Seq(T) /\ r.items \in Seq(T) /\ Len(q.items) \in Nat /\ q.current \in Nat
  BY <1>0 DEF QueueRecord
<1>2. /\ q.items # <<>> /\ r.items # <<>>
  BY <1>0, <1>1
<1>3. q.current \in 0 .. Len(q.items) - 1
  BY <1>0, <1>1, <1>2 DEF Pointing
<1>4. r.current \in 0 .. Len(q.items) - 1
  <2>1. Remaps(Len(q.items), a, b)
    BY <1>1, RemapIs
  <2> QED
    BY <1>0, <1>3, <2>1 DEF Remaps
<1>5. GoodQueue(r, T)
  BY <1>0, <1>1, <1>2, <1>4 DEF GoodQueue, Pointing
<1>6. HasTrack(q, q.current) /\ HasTrack(r, r.current)
  BY <1>0, <1>1, <1>3, <1>4, SoundQueue
<1>7. TrackAt(r, r.current) = TrackAt(q, q.current)
  BY <1>0, <1>3 DEF EntryMoved
<1> QED
  BY <1>5, <1>6, <1>7 DEF CurrentTrack, TrackOrGone

LEMMA RemovedKeepsPointer ==
  ASSUME NEW T, NEW q, GoodQueue(q, T), NEW r, NEW at \in 0 .. Len(q.items) - 1,
         at # q.current, EntryRemoved(r, q, T, at),
         r.current = LET left  == Len(q.items) - 1
                         moved == IF at < q.current THEN q.current - 1 ELSE q.current
                     IN  IF left = 0 THEN 0 ELSE IF moved >= left THEN left - 1 ELSE moved
  PROVE  GoodQueue(r, T) /\ CurrentTrack(r) = CurrentTrack(q)
<1>0. /\ q \in QueueRecord(T) /\ Sound(q) /\ Pointing(q) /\ r \in QueueRecord(T) /\ Sound(r)
      /\ Len(r.items) = Len(q.items) - 1
  BY DEF GoodQueue, EntryRemoved
<1>1. q.items \in Seq(T) /\ r.items \in Seq(T) /\ Len(q.items) \in Nat /\ q.current \in Nat
  BY <1>0 DEF QueueRecord
<1>2. q.current \in 0 .. Len(q.items) - 1
  BY <1>0, <1>1 DEF Pointing
<1>3. r.current = IF q.current < at THEN q.current ELSE q.current - 1
  <2> DEFINE n == Len(q.items)
             moved == IF at < q.current THEN q.current - 1 ELSE q.current
  <2>1. r.current = IF n - 1 = 0 THEN 0 ELSE IF moved >= n - 1 THEN n - 1 - 1 ELSE moved
    OBVIOUS
  <2>2. n \in Nat /\ at \in Nat /\ at < n /\ q.current \in Nat /\ q.current < n /\ at # q.current
    BY <1>1, <1>2
  <2> HIDE DEF n
  <2>3. n - 1 # 0 /\ ~(moved >= n - 1)
    <3>1. CASE at < q.current
      BY <2>2, <3>1
    <3>2. CASE q.current < at
      BY <2>2, <3>2
    <3> QED
      BY <2>2, <3>1, <3>2
  <2>4. moved = IF q.current < at THEN q.current ELSE q.current - 1
    BY <2>2
  <2> HIDE DEF moved
  <2> QED
    BY <2>1, <2>3, <2>4
<1>4. r.current \in 0 .. (Len(q.items) - 1) - 1
  BY <1>1, <1>2, <1>3
<1>5. GoodQueue(r, T)
  <2>1. r.items # <<>> /\ r.current < Len(r.items)
    BY <1>0, <1>1, <1>4
  <2> QED
    BY <1>0, <2>1 DEF GoodQueue, Pointing
<1>6. HasTrack(q, q.current) /\ HasTrack(r, r.current)
  BY <1>0, <1>1, <1>2, <1>4, SoundQueue
<1>7. TrackAt(r, r.current) = TrackAt(q, q.current)
  BY <1>2, <1>3 DEF EntryRemoved
<1> QED
  BY <1>5, <1>6, <1>7 DEF CurrentTrack, TrackOrGone

-----------------------------------------------------------------------------
(* Next.                                                                     *)

\* The first that is kept is the one at the least place.
Places(s, K) == {i \in DOMAIN s : s[i] \in K}

LEMMA FirstKept ==
  ASSUME NEW S, NEW s \in Seq(S), NEW K
  PROVE  /\ Places(s, K) = {} => Kept(s, K) = <<>>
         /\ Places(s, K) # {} => /\ Kept(s, K) # <<>>
                                 /\ Min(Places(s, K)) \in Places(s, K)
                                 /\ Kept(s, K)[1] = s[Min(Places(s, K))]
<1> DEFINE u == Kept(s, K)
           P == Places(s, K)
<1>0. P \in SUBSET (1 .. Len(s)) /\ P \in SUBSET Nat
  BY DEF Places
<1>1. u = AtPlaces(s, P)
  BY DEF Kept, Places
<1> HIDE DEF P
<1>2. Placed(u, S, s, P)
  BY <1>0, <1>1, AtPlacesIs
<1> HIDE DEF u
<1>3. /\ u \in Seq(S) /\ Len(u) = Cardinality(P)
      /\ \A i \in P : Rank(P, i) \in 1 .. Cardinality(P) /\ u[Rank(P, i)] = s[i]
  BY <1>2 DEF Placed
<1>4. P = {} => u = <<>>
  <2> HAVE P = {}
  <2>1. Len(u) = 0
    BY <1>3, FS_EmptySet
  <2> QED
    BY <1>3, <2>1, EmptySeq
<1>5. P # {} => u # <<>> /\ Min(P) \in P /\ u[1] = s[Min(P)]
  <2> HAVE P # {}
  <2> DEFINE m == Min(P)
  <2>1. m \in P /\ \A y \in P : m <= y
    BY <1>0, LeastIs
  <2> HIDE DEF m
  <2>2. {j \in P : j <= m} = {m}
    <3>1. m \in Nat /\ \A y \in P : y \in Nat /\ m <= y
      BY <1>0, <2>1
    <3>2. \A y \in P : y <= m <=> y = m
      BY <3>1
    <3> QED
      BY <2>1, <3>2
  <2>3. Rank(P, m) = 1
    BY <2>2, FS_Singleton DEF Rank
  <2>4. u[1] = s[m] /\ 1 \in 1 .. Len(u)
    BY <1>3, <2>1, <2>3
  <2>5. u # <<>>
    BY <2>4
  <2> QED
    BY <2>1, <2>4, <2>5 DEF m
<1> QED
  BY <1>4, <1>5 DEF P, u

LEMMA OnceAround ==
  ASSUME NEW n \in Nat, NEW x \in Nat, x < n + n
  PROVE  x % n = IF x < n THEN x ELSE x - n
<1>1. n # 0
  OBVIOUS
<1>2. CASE x < n
  BY <1>1, <1>2
<1>3. CASE x >= n
  <2>1. x - n \in 0 .. n - 1
    BY <1>3
  <2> QED
    BY <1>1, <1>3, <2>1
<1> QED
  BY <1>2, <1>3

-----------------------------------------------------------------------------
(* A track as the identity of its entry, and the history by tracks.          *)

OnceEach(s) == \A i, j \in 1 .. Len(s) : s[i] = s[j] => i = j

\* Every position of the play order holds another track.
Single(q) == \A i, j \in 0 .. Len(q.items) - 1 : TrackAt(q, i) = TrackAt(q, j) => i = j

\* The positions go through the entries.
Visits(q) ==
    /\ \A p \in 0 .. Len(q.items) - 1 : PhysicalIndexOf(q, p) \in 0 .. Len(q.items) - 1
    /\ \A p, r \in 0 .. Len(q.items) - 1 : PhysicalIndexOf(q, p) = PhysicalIndexOf(q, r) => p = r
    /\ \A i \in 0 .. Len(q.items) - 1 :
          \E p \in 0 .. Len(q.items) - 1 : PhysicalIndexOf(q, p) = i

LEMMA VisitsAll ==
  ASSUME NEW T, NEW q \in QueueRecord(T), Sound(q)
  PROVE  Visits(q)
<1> DEFINE n == Len(q.items)
           D == 0 .. n - 1
<1>1. n \in Nat /\ q.order \in Seq(Nat)
  BY DEF QueueRecord
<1>2. CASE q.shuffle
  <2>1. /\ Permutes(q.order, n)
        /\ \A p \in D : PhysicalIndexOf(q, p) = q.order[p + 1]
    BY <1>2 DEF Sound, PhysicalIndexOf
  <2>2. \A k \in D : \E i \in 1 .. n : q.order[i] = k
    BY <1>1, <2>1, PermutesIsOnto
  <2> HIDE DEF n
  <2>3. \A p \in D : p + 1 \in 1 .. n
    BY <1>1
  <2>4. \A i \in 1 .. n : i - 1 \in D /\ (i - 1) + 1 = i
    BY <1>1
  <2>5. \A p \in D : PhysicalIndexOf(q, p) \in D
    BY <2>1, <2>3 DEF Permutes
  <2>6. \A p, r \in D : PhysicalIndexOf(q, p) = PhysicalIndexOf(q, r) => p = r
    <3> TAKE p, r \in D
    <3> HAVE PhysicalIndexOf(q, p) = PhysicalIndexOf(q, r)
    <3>1. p + 1 = r + 1
      BY <2>1, <2>3 DEF Permutes
    <3> QED
      BY <3>1, <1>1
  <2>7. \A i \in D : \E p \in D : PhysicalIndexOf(q, p) = i
    BY <2>1, <2>2, <2>4
  <2> QED
    BY <2>5, <2>6, <2>7 DEF Visits, n
<1>3. CASE ~q.shuffle
  BY <1>3 DEF Visits, PhysicalIndexOf
<1> QED
  BY <1>2, <1>3

LEMMA TracksAre ==
  ASSUME NEW T, NEW q \in QueueRecord(T), Sound(q)
  PROVE  /\ \A p \in 0 .. Len(q.items) - 1 : TrackAt(q, p) \in ToSet(q.items)
         /\ \A x \in ToSet(q.items) : \E p \in 0 .. Len(q.items) - 1 : TrackAt(q, p) = x
<1> DEFINE n == Len(q.items)
           D == 0 .. n - 1
<1>1. q.items \in Seq(T) /\ n \in Nat /\ ToSet(q.items) = {q.items[i] : i \in 1 .. n}
  BY DEF QueueRecord, ToSet
<1>2. /\ \A p \in D : PhysicalIndexOf(q, p) \in D
      /\ \A i \in D : \E p \in D : PhysicalIndexOf(q, p) = i
  BY VisitsAll DEF Visits
<1>3. \A p \in D : TrackAt(q, p) = q.items[PhysicalIndexOf(q, p) + 1]
  BY DEF TrackAt
<1> HIDE DEF n
<1>4. /\ \A i \in D : i + 1 \in 1 .. n
      /\ \A i \in 1 .. n : i - 1 \in D /\ (i - 1) + 1 = i
  BY <1>1
<1>5. \A p \in D : TrackAt(q, p) \in ToSet(q.items)
  BY <1>1, <1>2, <1>3, <1>4
<1>6. \A x \in ToSet(q.items) : \E p \in D : TrackAt(q, p) = x
  <2> TAKE x \in ToSet(q.items)
  <2>1. PICK i \in 1 .. n : q.items[i] = x
    BY <1>1
  <2>2. PICK p \in D : PhysicalIndexOf(q, p) = i - 1
    BY <1>2, <1>4
  <2>3. TrackAt(q, p) = x
    BY <1>3, <1>4, <2>1, <2>2
  <2> QED
    BY <2>3
<1> QED
  BY <1>5, <1>6 DEF n

LEMMA SingleIs ==
  ASSUME NEW T, NEW q \in QueueRecord(T), Sound(q)
  PROVE  Single(q) <=> OnceEach(q.items)
<1> DEFINE n == Len(q.items)
           D == 0 .. n - 1
<1>1. n \in Nat
  BY DEF QueueRecord
<1>2. /\ \A p \in D : PhysicalIndexOf(q, p) \in D
      /\ \A p, r \in D : PhysicalIndexOf(q, p) = PhysicalIndexOf(q, r) => p = r
      /\ \A i \in D : \E p \in D : PhysicalIndexOf(q, p) = i
  BY VisitsAll DEF Visits
<1>3. \A p \in D : TrackAt(q, p) = q.items[PhysicalIndexOf(q, p) + 1]
  BY DEF TrackAt
<1>4. /\ Single(q) <=> \A i, j \in D : TrackAt(q, i) = TrackAt(q, j) => i = j
      /\ OnceEach(q.items) <=> \A i, j \in 1 .. n : q.items[i] = q.items[j] => i = j
  BY DEF Single, OnceEach
<1> HIDE DEF n
<1>5. /\ \A i \in D : i + 1 \in 1 .. n /\ i \in Int
      /\ \A i \in 1 .. n : i - 1 \in D /\ (i - 1) + 1 = i
  BY <1>1
<1>6. ASSUME \A i, j \in D : TrackAt(q, i) = TrackAt(q, j) => i = j,
             NEW i \in 1 .. n, NEW j \in 1 .. n, q.items[i] = q.items[j]
      PROVE  i = j
  <2>1. PICK p \in D : PhysicalIndexOf(q, p) = i - 1
    BY <1>2, <1>5
  <2>2. PICK r \in D : PhysicalIndexOf(q, r) = j - 1
    BY <1>2, <1>5
  <2>3. TrackAt(q, p) = TrackAt(q, r)
    BY <1>3, <1>5, <1>6, <2>1, <2>2
  <2>4. p = r
    BY <1>6, <2>3
  <2>5. i - 1 = j - 1
    BY <2>1, <2>2, <2>4
  <2> QED
    BY <1>5, <2>5
<1>7. ASSUME \A i, j \in 1 .. n : q.items[i] = q.items[j] => i = j,
             NEW p \in D, NEW r \in D, TrackAt(q, p) = TrackAt(q, r)
      PROVE  p = r
  <2> DEFINE a == PhysicalIndexOf(q, p)
             b == PhysicalIndexOf(q, r)
  <2>1. a \in D /\ b \in D /\ q.items[a + 1] = q.items[b + 1]
    BY <1>2, <1>3, <1>7
  <2>c. a = b => p = r
    BY <1>2
  <2> HIDE DEF a, b
  <2>2. a + 1 = b + 1
    BY <1>5, <1>7, <2>1
  <2>3. a = b
    BY <1>5, <2>1, <2>2
  <2> QED
    BY <2>3, <2>c
<1> QED
  BY <1>4, <1>6, <1>7

\* What filters out nothing filters nothing.
LEMMA KeptWhole ==
  ASSUME NEW S, NEW s \in Seq(S), NEW K, \A i \in 1 .. Len(s) : s[i] \in K
  PROVE  Kept(s, K) = s
<1> DEFINE n == Len(s)
           P == {i \in DOMAIN s : s[i] \in K}
           u == AtPlaces(s, P)
<1>1. n \in Nat /\ P = 1 .. n /\ P \in SUBSET (1 .. n)
  OBVIOUS
<1> HIDE DEF P
<1>2. Cardinality(P) = n /\ \A i \in 1 .. n : Rank(P, i) = i
  <2>1. Cardinality(1 .. n) = n
    <3> HIDE DEF n
    <3>1. Cardinality(1 .. n) = IF 1 > n THEN 0 ELSE n - 1 + 1
      BY <1>1, FS_Interval
    <3> QED
      BY <1>1, <3>1
  <2>2. \A i \in 1 .. n : Rank(1 .. n, i) = i
    BY <1>1, RankOfInitial
  <2> QED
    BY <1>1, <2>1, <2>2
<1>3. Placed(u, S, s, P)
  BY <1>1, AtPlacesIs
<1>4. Kept(s, K) = u
  BY DEF Kept, P
<1> HIDE DEF u
<1>5. u \in Seq(S) /\ Len(u) = n /\ \A i \in 1 .. n : u[i] = s[i]
  BY <1>1, <1>2, <1>3 DEF Placed
<1>6. u = s
  BY <1>5, SeqEqual
<1> QED
  BY <1>4, <1>6

\* r plays at f[p] what q plays at p, for p in K; the rest of q is gone.
Follows(r, q, K, f) ==
    \A p \in 0 .. Len(q.items) - 1 :
        IF p \in K
        THEN f[p] \in 0 .. Len(r.items) - 1 /\ TrackAt(r, f[p]) = TrackAt(q, p)
        ELSE TrackAt(q, p) \notin ToSet(r.items)

\* The history entries stand for tracks of the queue.
Remembers(q) == \A i \in 1 .. Len(q.history) : q.history[i] \in 0 .. Len(q.items) - 1

\* A history without the entries that left, moved to the new positions.
HistoryFrom(h, K, f) == [k \in 1 .. Len(Kept(h, K)) |-> f[Kept(h, K)[k]]]

\* It stands for the same tracks, without those that left.
LEMMA HistoryFollows ==
  ASSUME NEW T, NEW q \in QueueRecord(T), Sound(q), NEW r \in QueueRecord(T), Sound(r),
         NEW K, NEW f, Follows(r, q, K, f), Remembers(q),
         r.history = HistoryFrom(q.history, K, f)
  PROVE  HistoryTracks(r) = Kept(HistoryTracks(q), ToSet(r.items))
<1> DEFINE h == q.history
           n == Len(q.items)
           d == HistoryTracks(q)
           P == {i \in DOMAIN h : h[i] \in K}
           Q == {i \in DOMAIN d : d[i] \in ToSet(r.items)}
           at(k) == CHOOSE i \in P : Rank(P, i) = k
           c == Cardinality(P)
<1>1. h \in Seq(Nat) /\ Len(h) \in Nat /\ DOMAIN h = 1 .. Len(h) /\ Len(r.items) \in Nat /\ n \in Nat
  BY DEF QueueRecord
<1>2. \A i \in 1 .. Len(h) : h[i] \in 0 .. n - 1
  BY DEF Remembers
<1>3. \A p \in 0 .. n - 1 : TrackOrGone(q, p) = TrackAt(q, p) /\ TrackAt(q, p) \in ToSet(q.items)
  <2> TAKE p \in 0 .. n - 1
  <2>1. p \in Nat /\ p < Len(q.items)
    BY <1>1
  <2> QED
    BY <2>1, SoundQueue, TracksAre DEF TrackOrGone
<1>4. d = [i \in 1 .. Len(h) |-> TrackAt(q, h[i])]
  BY <1>1, <1>2, <1>3 DEF HistoryTracks
<1>5. \A p \in 0 .. n - 1 : p \in K <=> TrackAt(q, p) \in ToSet(r.items)
  BY TracksAre DEF Follows
<1>6. DOMAIN d = 1 .. Len(h) /\ \A i \in 1 .. Len(h) : d[i] = TrackAt(q, h[i])
  BY <1>4
<1> HIDE DEF d
<1>7. P = Q
  BY <1>1, <1>2, <1>5, <1>6
<1>8. P \in SUBSET (1 .. Len(h))
  BY <1>1
<1>9. Kept(h, K) = AtPlaces(h, P) /\ Kept(d, ToSet(r.items)) = AtPlaces(d, P)
  BY <1>7 DEF Kept
<1> HIDE DEF P, Q
<1>10. /\ AtPlaces(h, P) = [k \in 1 .. c |-> h[at(k)]]
       /\ AtPlaces(d, P) = [k \in 1 .. c |-> d[at(k)]]
  BY DEF AtPlaces
<1>11. c \in Nat
  BY <1>1, <1>8, RankIs
<1>12. \A k \in 1 .. c : at(k) \in P
  BY <1>1, <1>8, RankIsOnto
<1>13. \A k \in 1 .. c : at(k) \in 1 .. Len(h)
  BY <1>8, <1>12
<1>14. \A k \in 1 .. c : h[at(k)] \in 0 .. n - 1 /\ h[at(k)] \in K
  BY <1>2, <1>12, <1>13 DEF P
<1> HIDE DEF at, c
<1>15. Len(Kept(h, K)) = c /\ \A k \in 1 .. c : Kept(h, K)[k] = h[at(k)]
  BY <1>9, <1>10, <1>11
<1>16. r.history = [k \in 1 .. c |-> f[h[at(k)]]]
  BY <1>15 DEF HistoryFrom
<1>17. \A k \in 1 .. c : /\ f[h[at(k)]] \in 0 .. Len(r.items) - 1
                         /\ TrackAt(r, f[h[at(k)]]) = TrackAt(q, h[at(k)])
  BY <1>14 DEF Follows
<1>18. \A p \in 0 .. Len(r.items) - 1 : TrackOrGone(r, p) = TrackAt(r, p)
  <2> TAKE p \in 0 .. Len(r.items) - 1
  <2>1. p \in Nat /\ p < Len(r.items)
    BY <1>1
  <2> QED
    BY <2>1, SoundQueue DEF TrackOrGone
<1>19. \A k \in 1 .. c : TrackOrGone(r, f[h[at(k)]]) = d[at(k)]
  BY <1>6, <1>13, <1>17, <1>18
<1>20. HistoryTracks(r) = [k \in 1 .. c |-> d[at(k)]]
  BY <1>16, <1>19 DEF HistoryTracks
<1> QED
  BY <1>9, <1>10, <1>20 DEF d, c, at
-----------------------------------------------------------------------------
(* The history after each edit.                                              *)

\* Each track once, and the history still stands for the same tracks.
KeepsTrack(r, q) ==
    /\ Single(r)
    /\ Remembers(q) => HistoryTracks(r) = Kept(HistoryTracks(q), ToSet(r.items))

\* The tracks handed in are new to the queue, and each is handed in once.
NewTo(q, t) == OnceEach(t) /\ \A i \in 1 .. Len(t) : t[i] \notin ToSet(q.items)

LEMMA InsertedIsSingle ==
  ASSUME NEW T, NEW q \in QueueRecord(T), Sound(q), Single(q), NEW t \in Seq(T), NewTo(q, t),
         NEW at \in 0 .. Len(q.items), NEW r, Inserted(r, q, T, at, t)
  PROVE  Single(r)
<1> DEFINE n == Len(q.items)
           c == Len(t)
<1>1. /\ n \in Nat /\ c \in Nat /\ at \in Nat /\ at <= n
  BY DEF QueueRecord
<1>2. /\ Len(r.items) = n + c
      /\ \A p \in 0 .. n - 1 : TrackAt(r, IF p < at THEN p ELSE p + c) = TrackAt(q, p)
      /\ \A i \in 1 .. c : TrackAt(r, at + i - 1) = t[i]
  BY DEF Inserted
<1>2a. 0 .. Len(r.items) - 1 = 0 .. n + c - 1
  BY <1>1, <1>2
<1>3. \A p \in 0 .. n - 1 : TrackAt(q, p) \in ToSet(q.items)
  BY TracksAre
<1>4. /\ \A p, s \in 0 .. n - 1 : TrackAt(q, p) = TrackAt(q, s) => p = s
      /\ \A i, j \in 1 .. c : t[i] = t[j] => i = j
      /\ \A i \in 1 .. c : t[i] \notin ToSet(q.items)
  BY DEF Single, NewTo, OnceEach
<1> HIDE DEF n, c
\* Where a position of r comes from.
<1> DEFINE Old(p, x) == x \in 0 .. n - 1 /\ p = IF x < at THEN x ELSE x + c
           New(p, i) == i \in 1 .. c /\ p = at + i - 1
<1>5. \A p \in 0 .. n + c - 1 : (\E x \in 0 .. n - 1 : Old(p, x)) \/ \E i \in 1 .. c : New(p, i)
  <2> TAKE p \in 0 .. n + c - 1
  <2>1. CASE p < at
    BY <1>1, <2>1
  <2>2. CASE at <= p /\ p < at + c
    <3>1. (p - at) + 1 \in 1 .. c /\ p = at + ((p - at) + 1) - 1
      BY <1>1, <2>2
    <3> QED
      BY <3>1
  <2>3. CASE at + c <= p
    <3>1. p - c \in 0 .. n - 1 /\ ~(p - c < at) /\ (p - c) + c = p
      BY <1>1, <2>3
    <3> QED
      BY <3>1
  <2> QED
    BY <1>1, <2>1, <2>2, <2>3
<1>6. \A p : \A x : Old(p, x) => TrackAt(r, p) = TrackAt(q, x) /\ TrackAt(r, p) \in ToSet(q.items)
  BY <1>2, <1>3
<1>7. \A p : \A i : New(p, i) => TrackAt(r, p) = t[i] /\ TrackAt(r, p) \notin ToSet(q.items)
  BY <1>2, <1>4
<1> QED
  <2> SUFFICES ASSUME NEW p \in 0 .. n + c - 1, NEW s \in 0 .. n + c - 1,
                      TrackAt(r, p) = TrackAt(r, s)
               PROVE  p = s
    BY <1>2a DEF Single
  <2>1. CASE TrackAt(r, p) \in ToSet(q.items)
    <3>1. PICK x \in 0 .. n - 1 : Old(p, x)
      BY <1>5, <1>7, <2>1
    <3>2. PICK y \in 0 .. n - 1 : Old(s, y)
      BY <1>5, <1>7, <2>1
    <3>3. TrackAt(q, x) = TrackAt(q, y)
      BY <1>6, <3>1, <3>2
    <3>4. x = y
      BY <1>4, <3>3
    <3> QED
      BY <3>1, <3>2, <3>4
  <2>2. CASE TrackAt(r, p) \notin ToSet(q.items)
    <3>1. PICK i \in 1 .. c : New(p, i)
      BY <1>5, <1>6, <2>2
    <3>2. PICK j \in 1 .. c : New(s, j)
      BY <1>5, <1>6, <2>2
    <3>3. t[i] = t[j]
      BY <1>7, <3>1, <3>2
    <3>4. i = j
      BY <1>4, <3>3
    <3> QED
      BY <3>1, <3>2, <3>4
  <2> QED
    BY <2>1, <2>2

LEMMA InsertedKeepsTrack ==
  ASSUME NEW T, NEW q \in QueueRecord(T), Sound(q), Single(q), NEW t \in Seq(T), NewTo(q, t),
         NEW at \in 0 .. Len(q.items), NEW r, Inserted(r, q, T, at, t),
         Remembers(q) => r.history = ShiftAtOrAfter(q.history, at, Len(t))
  PROVE  KeepsTrack(r, q)
<1> DEFINE n == Len(q.items)
           c == Len(t)
           f == [p \in Nat |-> IF p < at THEN p ELSE p + c]
           h == q.history
<1>1. /\ n \in Nat /\ c \in Nat /\ at \in Nat /\ at <= n
      /\ h \in Seq(Nat) /\ r \in QueueRecord(T) /\ Sound(r)
  BY DEF QueueRecord, Inserted
<1>2. /\ Len(r.items) = n + c
      /\ \A p \in 0 .. n - 1 : TrackAt(r, IF p < at THEN p ELSE p + c) = TrackAt(q, p)
  BY DEF Inserted
<1> HIDE DEF n, c
<1>8. Single(r)
  BY InsertedIsSingle
<1>9. Follows(r, q, Nat, f)
  <2> SUFFICES ASSUME NEW p \in 0 .. n - 1
               PROVE  f[p] \in 0 .. n + c - 1 /\ TrackAt(r, f[p]) = TrackAt(q, p)
    BY <1>1, <1>2 DEF Follows, n
  <2>1. p \in Nat /\ f[p] = IF p < at THEN p ELSE p + c
    BY <1>1
  <2>2. f[p] \in 0 .. n + c - 1
    BY <1>1, <2>1
  <2> QED
    BY <1>2, <2>1, <2>2
<1>10. ASSUME Remembers(q)
       PROVE  HistoryTracks(r) = Kept(HistoryTracks(q), ToSet(r.items))
  <2>1. Kept(h, Nat) = h
    BY <1>1, KeptWhole
  <2>2. r.history = [i \in DOMAIN h |-> IF h[i] >= at THEN h[i] + c ELSE h[i]]
    BY <1>10 DEF ShiftAtOrAfter, c
  <2>3. \A i \in 1 .. Len(h) : f[h[i]] = IF h[i] >= at THEN h[i] + c ELSE h[i]
    BY <1>1
  <2>4. DOMAIN h = 1 .. Len(h)
    BY <1>1
  <2>5. r.history = [i \in 1 .. Len(h) |-> f[h[i]]]
    BY <2>2, <2>3, <2>4
  <2> HIDE DEF f, h
  <2>6. r.history = HistoryFrom(h, Nat, f)
    BY <2>1, <2>5 DEF HistoryFrom
  <2> QED
    BY <1>1, <1>9, <1>10, <2>6, HistoryFollows DEF h
<1> QED
  BY <1>8, <1>10 DEF KeepsTrack

\* The end of the queue goes, for tracks of its own or for none.
LEMMA TruncatedKeepsTrack ==
  ASSUME NEW T, NEW q \in QueueRecord(T), Sound(q), Single(q), NEW cut \in 0 .. Len(q.items),
         NEW r, Truncated(r, q, T, cut), r.history = Kept(q.history, 0 .. cut - 1)
  PROVE  KeepsTrack(r, q) /\ \A x \in ToSet(r.items) : x \in ToSet(q.items)
<1> DEFINE n == Len(q.items)
           f == [p \in Nat |-> p]
           h == q.history
           K == 0 .. cut - 1
<1>1. /\ n \in Nat /\ cut \in Nat /\ cut <= n
      /\ h \in Seq(Nat) /\ r \in QueueRecord(T) /\ Sound(r)
  BY DEF QueueRecord, Truncated
<1>2. /\ Len(r.items) = cut
      /\ \A p \in K : TrackAt(r, p) = TrackAt(q, p)
  BY DEF Truncated
<1>3. /\ \A p \in 0 .. n - 1 : TrackAt(q, p) \in ToSet(q.items)
      /\ \A x \in ToSet(r.items) : \E p \in K : TrackAt(r, p) = x
  <2>1. \A x \in ToSet(r.items) : \E p \in 0 .. Len(r.items) - 1 : TrackAt(r, p) = x
    BY <1>1, TracksAre
  <2> QED
    BY <1>2, <2>1, TracksAre
<1>4. \A p, s \in 0 .. n - 1 : TrackAt(q, p) = TrackAt(q, s) => p = s
  BY DEF Single
<1> HIDE DEF n
<1>5. \A p \in K : p \in 0 .. n - 1 /\ p \in Nat
  BY <1>1
<1>6. Single(r)
  BY <1>2, <1>4, <1>5 DEF Single
<1>7. \A x \in ToSet(r.items) : x \in ToSet(q.items)
  BY <1>2, <1>3, <1>5
<1>8. Follows(r, q, K, f)
  <2> SUFFICES ASSUME NEW p \in 0 .. n - 1
               PROVE  IF p \in K THEN f[p] \in 0 .. Len(r.items) - 1 /\ TrackAt(r, f[p]) = TrackAt(q, p)
                                 ELSE TrackAt(q, p) \notin ToSet(r.items)
    BY DEF Follows, n
  <2>1. CASE p \in K
    BY <1>2, <1>5, <2>1
  <2>2. CASE p \notin K
    <3> SUFFICES ASSUME TrackAt(q, p) \in ToSet(r.items) PROVE FALSE
      BY <2>2
    <3>1. PICK s \in K : TrackAt(r, s) = TrackAt(q, p)
      BY <1>3
    <3>2. s = p
      BY <1>2, <1>4, <1>5, <3>1
    <3> QED
      BY <2>2, <3>2
  <2> QED
    BY <2>1, <2>2
<1>9. ASSUME Remembers(q)
      PROVE  HistoryTracks(r) = Kept(HistoryTracks(q), ToSet(r.items))
  <2>1. Kept(h, K) \in Seq(Nat)
    BY <1>1, KeptIs
  <2> DEFINE u == Kept(h, K)
  <2>2. r.history = u
    OBVIOUS
  <2>3. HistoryFrom(h, K, f) = [k \in 1 .. Len(u) |-> f[u[k]]]
    BY DEF HistoryFrom
  <2> HIDE DEF u
  <2>4. \A k \in 1 .. Len(u) : f[u[k]] = u[k]
    BY <2>1 DEF u
  <2>5. u = [k \in 1 .. Len(u) |-> u[k]]
    BY <2>1 DEF u
  <2>6. r.history = HistoryFrom(h, K, f)
    BY <2>2, <2>3, <2>4, <2>5
  <2> HIDE DEF h, K, f
  <2> QED
    BY <1>1, <1>8, <1>9, <2>6, HistoryFollows DEF h
<1> QED
  BY <1>6, <1>7, <1>9 DEF KeepsTrack
LEMMA RefilledKeepsTrack ==
  ASSUME NEW T, NEW q \in QueueRecord(T), Sound(q), Single(q), NEW cut \in 0 .. Len(q.items),
         NEW r, Truncated(r, q, T, cut), r.history = Kept(q.history, 0 .. cut - 1),
         NEW t \in Seq(T), NewTo(q, t), NEW s, Inserted(s, r, T, cut, t), s.history = r.history
  PROVE  KeepsTrack(s, q)
<1> DEFINE n == Len(q.items)
           c == Len(t)
           f == [p \in Nat |-> p]
           h == q.history
           K == 0 .. cut - 1
<1>1. /\ n \in Nat /\ c \in Nat /\ cut \in Nat /\ cut <= n /\ h \in Seq(Nat)
      /\ r \in QueueRecord(T) /\ Sound(r) /\ Len(r.items) = cut
      /\ s \in QueueRecord(T) /\ Sound(s) /\ Len(s.items) = cut + c
  BY DEF QueueRecord, Truncated, Inserted
<1>2. Single(r) /\ \A x \in ToSet(r.items) : x \in ToSet(q.items)
  BY TruncatedKeepsTrack DEF KeepsTrack
<1>3. NewTo(r, t)
  BY <1>2 DEF NewTo
<1>4. Single(s)
  BY <1>1, <1>2, <1>3, InsertedIsSingle
<1>5. \A p \in K : TrackAt(s, p) = TrackAt(q, p)
  <2> TAKE p \in K
  <2>1. TrackAt(r, p) = TrackAt(q, p)
    BY DEF Truncated
  <2>2. TrackAt(s, IF p < cut THEN p ELSE p + c) = TrackAt(r, p) /\ p < cut
    BY <1>1 DEF Inserted
  <2> QED
    BY <2>1, <2>2
<1>6. \A p \in 0 .. cut + c - 1 : p \notin K => TrackAt(s, p) \notin ToSet(q.items)
  <2> TAKE p \in 0 .. cut + c - 1
  <2> HAVE p \notin K
  <2>1. (p - cut) + 1 \in 1 .. c /\ cut + ((p - cut) + 1) - 1 = p
    BY <1>1
  <2>2. TrackAt(s, cut + ((p - cut) + 1) - 1) = t[(p - cut) + 1]
    BY <2>1 DEF Inserted
  <2> QED
    BY <2>1, <2>2 DEF NewTo
<1>7. /\ \A p \in 0 .. n - 1 : TrackAt(q, p) \in ToSet(q.items)
      /\ \A x \in ToSet(s.items) : \E p \in 0 .. Len(s.items) - 1 : TrackAt(s, p) = x
  BY <1>1, TracksAre
<1>8. \A p, u \in 0 .. n - 1 : TrackAt(q, p) = TrackAt(q, u) => p = u
  BY DEF Single
<1> HIDE DEF n, c
<1>9. \A p \in K : p \in 0 .. n - 1 /\ p \in Nat /\ p \in 0 .. Len(s.items) - 1
  BY <1>1
<1>a. 0 .. Len(s.items) - 1 = 0 .. cut + c - 1
  BY <1>1
<1>10. Follows(s, q, K, f)
  <2> SUFFICES ASSUME NEW p \in 0 .. n - 1
               PROVE  IF p \in K THEN f[p] \in 0 .. Len(s.items) - 1 /\ TrackAt(s, f[p]) = TrackAt(q, p)
                                 ELSE TrackAt(q, p) \notin ToSet(s.items)
    BY DEF Follows, n
  <2>1. CASE p \in K
    BY <1>5, <1>9, <2>1
  <2>2. CASE p \notin K
    <3> SUFFICES ASSUME TrackAt(q, p) \in ToSet(s.items) PROVE FALSE
      BY <2>2
    <3>1. PICK u \in 0 .. cut + c - 1 : TrackAt(s, u) = TrackAt(q, p)
      BY <1>7, <1>a
    <3>2. u \in K
      BY <1>6, <1>7, <3>1
    <3>3. u = p
      BY <1>5, <1>8, <1>9, <3>1, <3>2
    <3> QED
      BY <2>2, <3>2, <3>3
  <2> QED
    BY <2>1, <2>2
<1>11. ASSUME Remembers(q)
       PROVE  HistoryTracks(s) = Kept(HistoryTracks(q), ToSet(s.items))
  <2>1. Kept(h, K) \in Seq(Nat)
    BY <1>1, KeptIs
  <2> DEFINE u == Kept(h, K)
  <2>2. s.history = u
    OBVIOUS
  <2>3. HistoryFrom(h, K, f) = [k \in 1 .. Len(u) |-> f[u[k]]]
    BY DEF HistoryFrom
  <2> HIDE DEF u
  <2>4. \A k \in 1 .. Len(u) : f[u[k]] = u[k]
    BY <2>1 DEF u
  <2>5. u = [k \in 1 .. Len(u) |-> u[k]]
    BY SMTT(30), <2>1 DEF u
  <2> HIDE DEF h, K, f
  <2>6. s.history = HistoryFrom(h, K, f)
    BY <2>2, <2>3, <2>4, <2>5
  <2> QED
    BY <1>1, <1>10, <1>11, <2>6, HistoryFollows DEF h
<1> QED
  BY <1>4, <1>11 DEF KeepsTrack

\* Every position goes to a position of its own.
Rearranged(r, q, T, f) ==
    /\ r \in QueueRecord(T) /\ Sound(r) /\ Len(r.items) = Len(q.items)
    /\ \A p \in 0 .. Len(q.items) - 1 :
          f[p] \in 0 .. Len(q.items) - 1 /\ TrackAt(r, f[p]) = TrackAt(q, p)
    /\ \A k \in 0 .. Len(q.items) - 1 : \E p \in 0 .. Len(q.items) - 1 : f[p] = k

LEMMA RearrangedKeepsTrack ==
  ASSUME NEW T, NEW q \in QueueRecord(T), Sound(q), Single(q), NEW f, NEW r,
         Rearranged(r, q, T, f),
         Remembers(q) => r.history = [i \in DOMAIN q.history |-> f[q.history[i]]]
  PROVE  KeepsTrack(r, q)
<1> DEFINE n == Len(q.items)
           h == q.history
           D == 0 .. n - 1
<1>1. /\ n \in Nat /\ h \in Seq(Nat) /\ DOMAIN h = 1 .. Len(h)
      /\ r \in QueueRecord(T) /\ Sound(r) /\ Len(r.items) = n
  BY DEF QueueRecord, Rearranged
<1>2. /\ \A p \in D : f[p] \in D /\ TrackAt(r, f[p]) = TrackAt(q, p)
      /\ \A k \in D : \E p \in D : f[p] = k
      /\ \A p, s \in D : TrackAt(q, p) = TrackAt(q, s) => p = s
  BY DEF Rearranged, Single
<1>3. D \in SUBSET Nat
  OBVIOUS
<1> HIDE DEF n, D
<1>4. Single(r)
  <2> SUFFICES ASSUME NEW k \in D, NEW m \in D, TrackAt(r, k) = TrackAt(r, m) PROVE k = m
    BY <1>1 DEF Single, D
  <2>1. PICK p \in D : f[p] = k
    BY <1>2
  <2>2. PICK s \in D : f[s] = m
    BY <1>2
  <2>3. p = s
    BY <1>2, <2>1, <2>2
  <2> QED
    BY <2>1, <2>2, <2>3
<1>5. Follows(r, q, Nat, f)
  BY <1>1, <1>2, <1>3 DEF Follows, n, D
<1>6. ASSUME Remembers(q)
      PROVE  HistoryTracks(r) = Kept(HistoryTracks(q), ToSet(r.items))
  <2>1. Kept(h, Nat) = h
    BY <1>1, KeptWhole
  <2>2. r.history = [i \in 1 .. Len(h) |-> f[h[i]]]
    BY <1>1, <1>6
  <2> HIDE DEF h
  <2>3. r.history = HistoryFrom(h, Nat, f)
    BY <2>1, <2>2 DEF HistoryFrom
  <2> QED
    BY <1>1, <1>5, <1>6, <2>3, HistoryFollows DEF h
<1> QED
  BY <1>4, <1>6 DEF KeepsTrack
LEMMA ShuffledTailKeepsTrack ==
  ASSUME NEW T, NEW q \in QueueRecord(T), Sound(q), Single(q), NEW from \in 0 .. Len(q.items),
         NEW source \in SetToSeqs(from .. (Len(q.items) - 1))
  PROVE  KeepsTrack(ShuffledTail(q, from, source), q)
<1> DEFINE n == Len(q.items)
           r == ShuffledTail(q, from, source)
           h == q.history
           slot(p) == CHOOSE i \in DOMAIN source : source[i] = p
           f == [p \in Nat |-> IF p \in Range(source) THEN from - 1 + slot(p) ELSE p]
<1>1. /\ n \in Nat /\ from \in Nat /\ from <= n /\ h \in Seq(Nat) /\ DOMAIN h = 1 .. Len(h)
      /\ q \in QueueRecord(T) /\ q.items \in Seq(T)
  BY DEF QueueRecord
<1>2. TailShuffled(r, q, T, from, source)
  BY ShuffledTailIs
<1>3. r.history = [i \in DOMAIN h |-> IF h[i] \in Range(source)
                                      THEN from - 1 + slot(h[i]) ELSE h[i]]
  BY DEF ShuffledTail, QueueRecord
<1> HIDE DEF r
<1>4. /\ r \in QueueRecord(T) /\ Sound(r) /\ Len(r.items) = n
      /\ \A p \in 0 .. from - 1 : TrackAt(r, p) = TrackAt(q, p)
      /\ \A k \in 1 .. n - from : TrackAt(r, from + k - 1) = TrackAt(q, source[k])
  BY <1>2 DEF TailShuffled
<1>5. PermutesTail(TailPlaces(n, from, source), n, from, source)
  BY TailPlacesIs
<1>6. /\ DOMAIN source = 1 .. n - from
      /\ \A k \in 1 .. n - from : source[k] \in from .. n - 1
      /\ \A p \in from .. n - 1 : \E k \in 1 .. n - from : source[k] = p
  BY <1>5 DEF PermutesTail
<1>7. Range(source) = from .. n - 1
  BY <1>6 DEF Range
<1>8. \A p \in from .. n - 1 : slot(p) \in 1 .. n - from /\ source[slot(p)] = p
  BY <1>6
<1>9. \A k, m \in 1 .. n - from : source[k] = source[m] => k = m
  <2> SUFFICES ASSUME NEW k \in 1 .. n - from, NEW m \in 1 .. n - from, source[k] = source[m]
               PROVE  k = m
    OBVIOUS
  <2> DEFINE g == TailPlaces(n, from, source)
  <2>1. \A i, j \in 1 .. n : g[i] = g[j] => i = j
    BY <1>5 DEF PermutesTail
  <2>2. from + k \in 1 .. n /\ from + m \in 1 .. n /\ ~(from + k <= from) /\ ~(from + m <= from)
        /\ (from + k) - from = k /\ (from + m) - from = m
    BY <1>1
  <2>3. g[from + k] = source[k] + 1 /\ g[from + m] = source[m] + 1
    BY <2>2 DEF TailPlaces
  <2>4. from + k = from + m
    BY <2>1, <2>2, <2>3
  <2> QED
    BY <1>1, <2>4
<1> HIDE DEF slot, n
<1>10. \A p \in 0 .. n - 1 : f[p] = IF from <= p THEN from + slot(p) - 1 ELSE p
  <2> TAKE p \in 0 .. n - 1
  <2>1. p \in Nat /\ (p \in Range(source) <=> from <= p)
    BY <1>1, <1>7
  <2>2. from <= p => slot(p) \in Nat
    BY <1>1, <1>8
  <2>3. f[p] = IF from <= p THEN from - 1 + slot(p) ELSE p
    BY <2>1
  <2> QED
    BY <1>1, <2>2, <2>3
<1>11. \A i \in DOMAIN h : h[i] \in Nat /\ f[h[i]] = IF h[i] \in Range(source)
                                      THEN from - 1 + slot(h[i]) ELSE h[i]
  BY <1>1
<1> HIDE DEF f
<1>12. ASSUME NEW p \in 0 .. n - 1
       PROVE  f[p] \in 0 .. n - 1 /\ TrackAt(r, f[p]) = TrackAt(q, p)
  <2>1. CASE from <= p
    <3>1. p \in from .. n - 1 /\ slot(p) \in 1 .. n - from /\ source[slot(p)] = p
      BY <1>1, <1>8, <2>1
    <3>2. f[p] = from + slot(p) - 1 /\ f[p] \in 0 .. n - 1
      BY <1>1, <1>10, <2>1, <3>1
    <3> QED
      BY <1>4, <3>1, <3>2
  <2>2. CASE ~(from <= p)
    <3>1. f[p] = p /\ p \in 0 .. from - 1
      BY <1>1, <1>10, <2>2
    <3> QED
      BY <1>4, <3>1
  <2> QED
    BY <2>1, <2>2
<1>13. ASSUME NEW k \in 0 .. n - 1
       PROVE  \E p \in 0 .. n - 1 : f[p] = k
  <2>1. CASE from <= k
    <3>1. (k - from) + 1 \in 1 .. n - from /\ from + ((k - from) + 1) - 1 = k
      BY <1>1, <2>1
    <3> DEFINE m == (k - from) + 1
               p == source[m]
    <3>2. p \in from .. n - 1 /\ p \in 0 .. n - 1 /\ from <= p
      BY <1>1, <1>6, <3>1
    <3>3. slot(p) = m
      BY <1>8, <1>9, <3>1, <3>2
    <3>4. f[p] = k
      BY <1>10, <3>1, <3>2, <3>3
    <3> QED
      BY <3>2, <3>4
  <2>2. CASE ~(from <= k)
    BY <1>10, <2>2
  <2> QED
    BY <2>1, <2>2
<1>14. Rearranged(r, q, T, f)
  BY <1>4, <1>12, <1>13 DEF Rearranged, n
<1>15. r.history = [i \in DOMAIN h |-> f[h[i]]]
  BY <1>3, <1>11
<1>16. KeepsTrack(r, q)
  BY <1>14, <1>15, RearrangedKeepsTrack
<1> QED
  BY <1>16 DEF r

LEMMA MovedKeepsTrack ==
  ASSUME NEW T, NEW q \in QueueRecord(T), Sound(q), Single(q),
         NEW a \in 0 .. Len(q.items) - 1, NEW b \in 0 .. Len(q.items) - 1, a # b
  PROVE  KeepsTrack(MoveItem(q, a, b), q)
<1> DEFINE n == Len(q.items)
           r == MoveItem(q, a, b)
           h == q.history
           f == [p \in Nat |-> RemapQueueIndex(p, a, b)]
<1>1. n \in Nat /\ h \in Seq(Nat) /\ DOMAIN h = 1 .. Len(h) /\ QueueLen(q) = n
  BY SoundQueue DEF QueueRecord
<1>2. EntryMoved(r, q, T, a, b)
  BY MoveItemIs
<1>3. r.history = [i \in DOMAIN h |-> RemapQueueIndex(h[i], a, b)]
  BY <1>1 DEF MoveItem, QueueRecord
<1> HIDE DEF r
<1>4. Remaps(n, a, b)
  BY <1>1, RemapIs
<1> HIDE DEF n
<1>5. \A p \in 0 .. n - 1 : f[p] = RemapQueueIndex(p, a, b)
  BY <1>1
<1>6. \A i \in DOMAIN h : f[h[i]] = RemapQueueIndex(h[i], a, b)
  BY <1>1
<1> HIDE DEF f
<1>7. /\ r \in QueueRecord(T) /\ Sound(r) /\ Len(r.items) = n
      /\ \A p \in 0 .. n - 1 : TrackAt(r, RemapQueueIndex(p, a, b)) = TrackAt(q, p)
  BY <1>2 DEF EntryMoved, n
<1>8. /\ \A p \in 0 .. n - 1 : f[p] \in 0 .. n - 1 /\ TrackAt(r, f[p]) = TrackAt(q, p)
      /\ \A k \in 0 .. n - 1 : \E p \in 0 .. n - 1 : f[p] = k
  <2>1. /\ \A p \in 0 .. n - 1 : RemapQueueIndex(p, a, b) \in 0 .. n - 1
        /\ \A k \in 0 .. n - 1 : \E p \in 0 .. n - 1 : RemapQueueIndex(p, a, b) = k
    BY <1>4 DEF Remaps
  <2>2. \A p \in 0 .. n - 1 : f[p] \in 0 .. n - 1 /\ TrackAt(r, f[p]) = TrackAt(q, p)
    BY <1>5, <1>7, <2>1
  <2>3. \A k \in 0 .. n - 1 : \E p \in 0 .. n - 1 : f[p] = k
    BY <1>5, <2>1
  <2> QED
    BY <2>2, <2>3
<1>9. Rearranged(r, q, T, f)
  BY <1>7, <1>8 DEF Rearranged, n
<1>10. r.history = [i \in DOMAIN h |-> f[h[i]]]
  BY <1>3, <1>6
<1>11. KeepsTrack(r, q)
  BY <1>9, <1>10, RearrangedKeepsTrack
<1> QED
  BY <1>11 DEF r

LEMMA RemovedKeepsTrack ==
  ASSUME NEW T, NEW q \in QueueRecord(T), Sound(q), Single(q), NEW at \in 0 .. Len(q.items) - 1
  PROVE  KeepsTrack(RemoveEntry(q, at), q)
<1> DEFINE n == Len(q.items)
           r == RemoveEntry(q, at)
           h == q.history
           K == Nat \ {at}
           u == Kept(h, K)
           f == [p \in Nat |-> IF p > at THEN p - 1 ELSE p]
<1>1. n \in Nat /\ at \in Nat /\ at < n /\ h \in Seq(Nat) /\ HasTrack(q, at)
  BY SoundQueue DEF QueueRecord
<1>2. EntryRemoved(r, q, T, at)
  BY RemoveEntryIs
<1>3. r.history = [i \in DOMAIN u |-> IF u[i] > at THEN u[i] - 1 ELSE u[i]]
  BY <1>1 DEF RemoveEntry, QueueRecord
<1>4. u \in Seq(Nat)
  BY <1>1, KeptIs
<1> HIDE DEF r, n
<1>5. /\ r \in QueueRecord(T) /\ Sound(r) /\ Len(r.items) = n - 1
      /\ \A p \in 0 .. n - 1 :
            p # at => TrackAt(r, IF p < at THEN p ELSE p - 1) = TrackAt(q, p)
  BY <1>2 DEF EntryRemoved, n
<1>6. \A p, s \in 0 .. n - 1 : TrackAt(q, p) = TrackAt(q, s) => p = s
  BY DEF Single, n
\* Where a position of r comes from.
<1>7. ASSUME NEW k \in 0 .. (n - 1) - 1
      PROVE  \E p \in 0 .. n - 1 : p # at /\ f[p] = k /\ TrackAt(r, k) = TrackAt(q, p)
  <2>1. CASE k < at
    <3>1. k \in 0 .. n - 1 /\ k # at /\ f[k] = k /\ TrackAt(r, IF k < at THEN k ELSE k - 1) = TrackAt(q, k)
      BY <1>1, <1>5, <2>1
    <3> QED
      BY <2>1, <3>1
  <2>2. CASE ~(k < at)
    <3>1. k + 1 \in 0 .. n - 1 /\ k + 1 # at /\ ~(k + 1 < at) /\ k + 1 > at /\ (k + 1) - 1 = k
          /\ k + 1 \in Nat
      BY <1>1, <2>2
    <3>2. f[k + 1] = k
      BY <3>1
    <3>3. TrackAt(r, k) = TrackAt(q, k + 1)
      BY <1>5, <3>1
    <3> QED
      BY <3>1, <3>2, <3>3
  <2> QED
    BY <2>1, <2>2
<1>8. ASSUME NEW p \in 0 .. n - 1, p # at
      PROVE  f[p] \in 0 .. (n - 1) - 1 /\ TrackAt(r, f[p]) = TrackAt(q, p)
  <2>1. f[p] = (IF p < at THEN p ELSE p - 1) /\ f[p] \in 0 .. (n - 1) - 1
    BY <1>1, <1>8
  <2> QED
    BY <1>5, <1>8, <2>1
<1>9. \A x \in ToSet(r.items) : \E k \in 0 .. (n - 1) - 1 : TrackAt(r, k) = x
  BY <1>5, TracksAre
<1>10. Single(r)
  <2> SUFFICES ASSUME NEW k \in 0 .. (n - 1) - 1, NEW m \in 0 .. (n - 1) - 1,
                      TrackAt(r, k) = TrackAt(r, m)
               PROVE  k = m
    BY <1>5 DEF Single
  <2> HIDE DEF f
  <2>1. PICK p \in 0 .. n - 1 : p # at /\ f[p] = k /\ TrackAt(r, k) = TrackAt(q, p)
    BY <1>7
  <2>2. PICK s \in 0 .. n - 1 : s # at /\ f[s] = m /\ TrackAt(r, m) = TrackAt(q, s)
    BY <1>7
  <2>3. p = s
    BY <1>6, <2>1, <2>2
  <2> QED
    BY <2>1, <2>2, <2>3
<1>11. Follows(r, q, K, f)
  <2> HIDE DEF f
  <2> SUFFICES ASSUME NEW p \in 0 .. n - 1
               PROVE  IF p \in K THEN f[p] \in 0 .. Len(r.items) - 1 /\ TrackAt(r, f[p]) = TrackAt(q, p)
                                 ELSE TrackAt(q, p) \notin ToSet(r.items)
    BY DEF Follows, n
  <2>1. CASE p # at
    BY <1>5, <1>8, <2>1
  <2>2. CASE p = at
    <3>1. ASSUME TrackAt(q, p) \in ToSet(r.items) PROVE FALSE
      <4>1. PICK k \in 0 .. (n - 1) - 1 : TrackAt(r, k) = TrackAt(q, p)
        BY <1>9, <3>1
      <4>2. PICK s \in 0 .. n - 1 : s # at /\ TrackAt(r, k) = TrackAt(q, s)
        BY <1>7
      <4>3. s = p
        BY <1>6, <4>1, <4>2
      <4> QED
        BY <2>2, <4>2, <4>3
    <3> QED
      BY <2>2, <3>1
  <2> QED
    BY <2>1, <2>2
<1>12. ASSUME Remembers(q)
       PROVE  HistoryTracks(r) = Kept(HistoryTracks(q), ToSet(r.items))
  <2>1. HistoryFrom(h, K, f) = [k \in 1 .. Len(u) |-> f[u[k]]]
    BY DEF HistoryFrom
  <2> HIDE DEF u, h, K
  <2>2. \A k \in 1 .. Len(u) : f[u[k]] = IF u[k] > at THEN u[k] - 1 ELSE u[k]
    BY <1>4
  <2>3. DOMAIN u = 1 .. Len(u)
    BY <1>4
  <2> HIDE DEF f
  <2>4. r.history = HistoryFrom(h, K, f)
    BY <1>3, <2>1, <2>2, <2>3
  <2> QED
    BY <1>5, <1>11, <1>12, <2>4, HistoryFollows DEF h
<1>13. KeepsTrack(r, q)
  BY <1>10, <1>12 DEF KeepsTrack
<1> QED
  BY <1>13 DEF r

LEMMA SameKeepsTrack ==
  ASSUME NEW T, NEW q \in QueueRecord(T), Sound(q), Single(q)
  PROVE  KeepsTrack(q, q)
<1> DEFINE f == [p \in Nat |-> p]
<1>1. q.history \in Seq(Nat) /\ Len(q.items) \in Nat
  BY DEF QueueRecord
<1>2. Rearranged(q, q, T, f)
  BY <1>1 DEF Rearranged
<1>3. q.history = [i \in DOMAIN q.history |-> f[q.history[i]]]
  <2> DEFINE h == q.history
  <2>1. h = [i \in DOMAIN h |-> h[i]]
    BY <1>1
  <2>2. \A i \in DOMAIN h : f[h[i]] = h[i]
    BY <1>1
  <2> HIDE DEF h, f
  <2>3. h = [i \in DOMAIN h |-> f[h[i]]]
    BY <2>1, <2>2
  <2> QED
    BY <2>3 DEF h
<1> HIDE DEF f
<1> QED
  BY <1>2, <1>3, RearrangedKeepsTrack

\* A filter lists no track twice.
LEMMA KeptOnce ==
  ASSUME NEW S, NEW s \in Seq(S), NEW K, OnceEach(s)
  PROVE  OnceEach(Kept(s, K))
<1> DEFINE P == {i \in DOMAIN s : s[i] \in K}
           u == Kept(s, K)
<1>1. P \in SUBSET (1 .. Len(s)) /\ u = AtPlaces(s, P)
  BY DEF Kept
<1>2. Placed(u, S, s, P)
  BY <1>1, AtPlacesIs
<1> HIDE DEF P, u
<1>3. /\ Len(u) = Cardinality(P)
      /\ \A k \in 1 .. Cardinality(P) : \E i \in P : Rank(P, i) = k /\ u[k] = s[i]
  BY <1>2 DEF Placed
<1>4. \A i, j \in P : s[i] = s[j] => i = j
  BY <1>1 DEF OnceEach
<1>5. OnceEach(u)
  BY <1>3, <1>4 DEF OnceEach
<1> QED
  BY <1>5 DEF u

-----------------------------------------------------------------------------
(* Additions.                                                                *)

\* o's entries keep their order in u; the others stand together after at.
Together(u, o, at, c) ==
    /\ Kept(u, ToSet(o)) = o
    /\ {i \in 1 .. Len(u) : u[i] \notin ToSet(o)} = at + 1 .. at + c
    /\ Min(at + 1 .. at + c) = at + 1
    /\ Max(at + 1 .. at + c) = at + c

LEMMA LeastAndGreatest ==
  ASSUME NEW a \in Nat, NEW b \in Nat, a <= b
  PROVE  Min(a .. b) = a /\ Max(a .. b) = b
<1>1. Min(a .. b) = CHOOSE x \in a .. b : \A y \in a .. b : x <= y
  BY DEF Min
<1>2. Max(a .. b) = CHOOSE x \in a .. b : \A y \in a .. b : x >= y
  BY DEF Max
<1>3. a \in a .. b /\ \A y \in a .. b : a <= y
  OBVIOUS
<1>4. b \in a .. b /\ \A y \in a .. b : b >= y
  OBVIOUS
<1>5. Min(a .. b) \in a .. b /\ \A y \in a .. b : Min(a .. b) <= y
  BY <1>1, <1>3
<1>6. Max(a .. b) \in a .. b /\ \A y \in a .. b : Max(a .. b) >= y
  BY <1>2, <1>4
<1>7. Min(a .. b) <= a /\ a <= Min(a .. b) /\ Min(a .. b) \in Nat
  BY <1>3, <1>5
<1>8. Max(a .. b) <= b /\ b <= Max(a .. b) /\ Max(a .. b) \in Nat
  BY <1>4, <1>6
<1> QED
  BY <1>7, <1>8

\* t went in after at, and none of it was there before.
LEMMA SplicedTogether ==
  ASSUME NEW T, NEW o \in Seq(T), NEW t \in Seq(T), t # <<>>, NEW at \in 0 .. Len(o), NEW u,
         Spliced(u, T, o, at, t), \A i \in 1 .. Len(t) : t[i] \notin ToSet(o)
  PROVE  Together(u, o, at, Len(t))
<1> DEFINE n == Len(o)
           c == Len(t)
           P == {i \in DOMAIN u : u[i] \in ToSet(o)}
           w == AtPlaces(u, P)
<1>1. n \in Nat /\ c \in Nat /\ 1 <= c /\ at \in Nat /\ at <= n
  <2>1. c # 0 /\ c \in Nat
    BY EmptySeq
  <2> QED
    BY <2>1
<1>2. /\ u \in Seq(T) /\ Len(u) = n + c
      /\ \A i \in 1 .. at : u[i] = o[i]
      /\ \A i \in 1 .. c : u[at + i] = t[i]
      /\ \A i \in at + 1 .. n : u[i + c] = o[i]
  BY DEF Spliced
<1>3. DOMAIN u = 1 .. n + c /\ Kept(u, ToSet(o)) = w
  BY <1>1, <1>2 DEF Kept
<1>4. \A i \in 1 .. n : o[i] \in ToSet(o)
  BY DEF ToSet
<1>5. \A i \in 1 .. c : t[i] \notin ToSet(o)
  OBVIOUS
<1> HIDE DEF n, c, w
<1>6. \A i \in 1 .. n + c : u[i] \in ToSet(o) <=> i \notin at + 1 .. at + c
  <2> TAKE i \in 1 .. n + c
  <2>1. CASE i <= at
    <3>1. i \in 1 .. at /\ i \in 1 .. n /\ i \notin at + 1 .. at + c
      BY <1>1, <2>1
    <3> QED
      BY <1>2, <1>4, <3>1
  <2>2. CASE i \in at + 1 .. at + c
    <3>1. i - at \in 1 .. c /\ at + (i - at) = i
      BY <1>1, <2>2
    <3>2. u[i] = t[i - at]
      BY <1>2, <3>1
    <3> QED
      BY <1>5, <2>2, <3>1, <3>2
  <2>3. CASE at + c < i
    <3>1. i - c \in at + 1 .. n /\ i - c \in 1 .. n /\ (i - c) + c = i /\ i \notin at + 1 .. at + c
      BY <1>1, <2>3
    <3>2. u[i] = o[i - c]
      BY <1>2, <3>1
    <3> QED
      BY <1>4, <3>1, <3>2
  <2> QED
    BY <1>1, <2>1, <2>2, <2>3
<1>7. {i \in 1 .. Len(u) : u[i] \notin ToSet(o)} = at + 1 .. at + c
  <2>1. \A i \in at + 1 .. at + c : i \in 1 .. n + c
    BY <1>1
  <2> QED
    BY <1>2, <1>6, <2>1
<1>8. P = (1 .. n + c) \ (at + 1 .. at + c)
  BY <1>3, <1>6
<1>9. /\ P \in SUBSET (1 .. n + c)
      /\ \A i \in 1 .. at : i \in P
      /\ \A i \in at + 1 .. n : i + c \in P
  BY <1>1, <1>8
<1>10. /\ \A i \in 1 .. at : Rank(P, i) = i
       /\ \A i \in at + 1 .. n : Rank(P, i + c) = i
  <2>1. ASSUME NEW i \in 1 .. at PROVE Rank(P, i) = i
    <3>1. {j \in P : j <= i} = 1 .. i /\ i \in Nat /\ 1 <= i
      BY <1>1, <1>8
    <3>2. Cardinality(1 .. i) = i
      BY <3>1, FS_Interval
    <3> QED
      BY <3>1, <3>2 DEF Rank
  <2>2. ASSUME NEW i \in at + 1 .. n PROVE Rank(P, i + c) = i
    <3> DEFINE A == 1 .. at
               B == at + c + 1 .. i + c
    <3>1. {j \in P : j <= i + c} = A \cup B /\ A \cap B = {} /\ i \in Nat
      BY <1>1, <1>8
    <3>2. IsFiniteSet(A) /\ Cardinality(A) = at
      <4>1. Cardinality(A) = IF 1 > at THEN 0 ELSE at - 1 + 1
        BY <1>1, FS_Interval
      <4> QED
        BY <1>1, <4>1, FS_Interval
    <3>3. IsFiniteSet(B) /\ Cardinality(B) = i - at
      <4>0. at + c + 1 \in Int /\ i + c \in Int /\ at + c + 1 <= i + c
        BY <1>1, <3>1
      <4>1. IsFiniteSet(B) /\ Cardinality(B) = (i + c) - (at + c + 1) + 1
        BY SMTT(30), <4>0, FS_Interval
      <4> QED
        BY <1>1, <3>1, <4>1
    <3> HIDE DEF A, B
    <3>4. Cardinality(A \cup B) = Cardinality(A) + Cardinality(B) - Cardinality(A \cap B)
      BY <3>2, <3>3, FS_Union
    <3>5. Cardinality(A \cap B) = 0
      BY <3>1, FS_EmptySet
    <3>6. Cardinality(A \cup B) = i
      BY <1>1, <3>1, <3>2, <3>3, <3>4, <3>5
    <3> QED
      BY <3>1, <3>6 DEF Rank
  <2> QED
    BY <2>1, <2>2
<1>11. Cardinality(P) = n
  <2> DEFINE B == at + 1 .. at + c
             C == 1 .. n + c
  <2>1. IsFiniteSet(C) /\ Cardinality(C) = n + c
    <3>1. IsFiniteSet(C) /\ Cardinality(C) = (n + c) - 1 + 1
      BY <1>1, FS_Interval
    <3> QED
      BY <1>1, <3>1
  <2>2. IsFiniteSet(B) /\ Cardinality(B) = c
    <3>0. at + 1 \in Int /\ at + c \in Int /\ at + 1 <= at + c
      BY <1>1
    <3>1. IsFiniteSet(B) /\ Cardinality(B) = (at + c) - (at + 1) + 1
      BY <3>0, FS_Interval
    <3> QED
      BY <1>1, <3>1
  <2>3. C \cap B = B /\ P = C \ B
    BY <1>1, <1>8
  <2> HIDE DEF B, C
  <2>4. Cardinality(C \ B) = Cardinality(C) - Cardinality(C \cap B)
    BY <2>1, FS_Difference
  <2>5. Cardinality(P) = (n + c) - c
    BY <2>1, <2>2, <2>3, <2>4
  <2> QED
    BY <1>1, <2>5
<1> HIDE DEF P
<1>12. Placed(w, T, u, P)
  <2>1. P \in SUBSET (1 .. Len(u))
    BY <1>2, <1>9
  <2> QED
    BY <1>2, <2>1, AtPlacesIs DEF w
<1>13. w \in Seq(T) /\ Len(w) = n /\ \A i \in P : w[Rank(P, i)] = u[i]
  BY <1>11, <1>12 DEF Placed
<1>14. \A i \in 1 .. n : w[i] = o[i]
  <2> TAKE i \in 1 .. n
  <2>1. CASE i <= at
    <3>1. i \in 1 .. at
      BY <1>1, <2>1
    <3> QED
      BY <1>2, <1>9, <1>10, <1>13, <3>1
  <2>2. CASE ~(i <= at)
    <3>1. i \in at + 1 .. n
      BY <1>1, <2>2
    <3> QED
      BY <1>2, <1>9, <1>10, <1>13, <3>1
  <2> QED
    BY <2>1, <2>2
<1>15. w = o
  BY <1>13, <1>14, SeqEqual DEF n
<1>16. Min(at + 1 .. at + c) = at + 1 /\ Max(at + 1 .. at + c) = at + c
  <2>1. at + 1 \in Nat /\ at + c \in Nat /\ at + 1 <= at + c
    BY <1>1
  <2> QED
    BY <2>1, LeastAndGreatest
<1> QED
  BY <1>3, <1>7, <1>15, <1>16 DEF Together, c
=============================================================================
