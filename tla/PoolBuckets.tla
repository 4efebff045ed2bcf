---------------------------- MODULE PoolBuckets -----------------------------
(***************************************************************************)
(* Lemmas about the buckets of idle connections in Pool: what is left when *)
(* entries are taken out, how many entries there are, and what a push, a   *)
(* pop, a removal and a tick keep.                                         *)
(***************************************************************************)
EXTENDS Pool, TLAPS, FiniteSetTheorems, SequenceTheorems

-----------------------------------------------------------------------------
(* Finite sets of numbers. *)

\* Induction over a finite set, without a predicate: of the sets that are bad
\* one is bad only as a whole.
LEMMA SmallestBad ==
    ASSUME NEW S, IsFiniteSet(S), NEW Bad \in SUBSET (SUBSET S), Bad # {}
    PROVE  \E A \in Bad : \A x \in A : A \ {x} \notin Bad
  <1>1. FiniteSubsetsOf(S) = SUBSET S
    BY FS_FiniteSubsetsOfFinite
  <1>2. IsWellFoundedOn(StrictSubsetOrdering(S), SUBSET S)
    BY <1>1, FS_StrictSubsetOrderingWellFounded, Zenon
  <1>3. PICK A \in Bad : \A C \in Bad : ~ (<<C, A>> \in StrictSubsetOrdering(S))
    BY <1>2, WFMin
  <1>4. ASSUME NEW x \in A, A \ {x} \in Bad PROVE FALSE
    <2>1. <<A \ {x}, A>> \in StrictSubsetOrdering(S)
      BY <1>4 DEF StrictSubsetOrdering
    <2> QED
      BY <1>3, <1>4, <2>1, Zenon
  <1> QED
    BY <1>3, <1>4

\* A finite set of numbers that is not empty has a greatest: evict_oldest finds
\* an entry idle for longest.
LEMMA GreatestExists ==
    ASSUME NEW S \in SUBSET Int, IsFiniteSet(S), S # {}
    PROVE  \E m \in S : \A n \in S : n <= m
  <1> DEFINE Bad == {A \in SUBSET S : A # {} /\ ~ \E m \in A : \A n \in A : n <= m}
  <1> SUFFICES ASSUME S \in Bad PROVE FALSE
    OBVIOUS
  <1>1. PICK A \in Bad : \A x \in A : A \ {x} \notin Bad
    BY SmallestBad, Zenon
  <1>2. PICK x \in A : TRUE
    BY Zenon
  <1>3. A \ {x} = {} \/ \E m \in A \ {x} : \A n \in A \ {x} : n <= m
    BY <1>1, Zenon
  <1> QED
    BY <1>2, <1>3

\* The places of a bucket with n entries.
LEMMA PlacesCount ==
    ASSUME NEW n \in Nat
    PROVE  IsFiniteSet(1 .. n) /\ Cardinality(1 .. n) = n
  BY FS_Interval

-----------------------------------------------------------------------------
(* Buckets that have lost entries. *)

\* f picks places of q in their order.
Picks(f, n, q) ==
    /\ f \in [1 .. n -> 1 .. Len(q)]
    /\ \A k, l \in 1 .. n : k < l => f[k] < f[l]

\* r is what is left of q after some entries were taken out.
ThinnedSeq(r, q) ==
    /\ Len(r) <= Len(q)
    /\ \E f : Picks(f, Len(r), q) /\ \A n \in 1 .. Len(r) : r[n] = q[f[n]]

\* Every bucket of j is what is left of that bucket of i.
Thinned(j, i) == \A o \in Origins : ThinnedSeq(j[o], i[o])

\* retain() keeps the entries at the places it is given, in their order.
LEMMA RetainThins ==
    ASSUME NEW S, NEW q \in Seq(S), NEW G \in SUBSET (1 .. Len(q))
    PROVE  Retain(q, G) \in Seq(S) /\ ThinnedSeq(Retain(q, G), q)
  <1> DEFINE Upto(i) == {j \in G : j <= i}
             size == Cardinality(G)
  <1>1. /\ Len(q) \in Nat /\ IsFiniteSet(1 .. Len(q))
        /\ Cardinality(1 .. Len(q)) = Len(q) /\ \A i \in G : i \in Int
    <2>1. Len(q) \in Nat
      BY LenProperties
    <2> QED
      BY <2>1, PlacesCount
  <1>2. IsFiniteSet(G) /\ size <= Len(q) /\ size \in Nat
    BY <1>1, FS_Subset, FS_CardinalityType, Zenon
  <1>3. \A i \in G : IsFiniteSet(Upto(i)) /\ Cardinality(Upto(i)) \in 1 .. size
    <2> SUFFICES ASSUME NEW i \in G
                 PROVE  IsFiniteSet(Upto(i)) /\ Cardinality(Upto(i)) \in 1 .. size
      OBVIOUS
    <2>1. IsFiniteSet(Upto(i)) /\ Cardinality(Upto(i)) <= size
      BY <1>2, FS_Subset
    <2>2. i \in Upto(i)
      OBVIOUS
    <2> HIDE DEF Upto
    <2>3. Cardinality(Upto(i)) \in Nat /\ Cardinality(Upto(i)) # 0
      BY <2>1, <2>2, FS_CardinalityType, FS_EmptySet
    <2> QED
      BY <1>2, <2>1, <2>3
  <1>4. \A i, k \in G : i < k => Cardinality(Upto(i)) < Cardinality(Upto(k))
    <2> SUFFICES ASSUME NEW i \in G, NEW k \in G, i < k
                 PROVE  Cardinality(Upto(i)) < Cardinality(Upto(k))
      OBVIOUS
    <2>1. \A j \in G : j <= i => j <= k
      BY <1>1
    <2>2. k \in Upto(k) /\ k \notin Upto(i)
      BY <1>1
    <2>3. Upto(i) \in SUBSET Upto(k)
      BY <2>1, Zenon
    <2> HIDE DEF Upto, size
    <2>4. /\ Cardinality(Upto(i)) <= Cardinality(Upto(k))
          /\ Cardinality(Upto(i)) # Cardinality(Upto(k))
      BY <1>3, <2>2, <2>3, FS_Subset
    <2>5. Cardinality(Upto(i)) \in Nat /\ Cardinality(Upto(k)) \in Nat
      BY <1>2, <1>3
    <2> QED
      BY <2>4, <2>5
  <1>5. \A n \in 1 .. size : \E i \in G : Cardinality(Upto(i)) = n
    <2> SUFFICES ASSUME NEW n \in 1 .. size, \A i \in G : Cardinality(Upto(i)) # n
                 PROVE  FALSE
      BY Zenon
    <2> DEFINE rank == [i \in G |-> Cardinality(Upto(i))]
               places == (1 .. size) \ {n}
    <2>1. rank \in [G -> places]
      BY <1>3, Zenon
    <2>2. \A i, k \in G : rank[i] = rank[k] => i = k
      <3> SUFFICES ASSUME NEW i \in G, NEW k \in G, rank[i] = rank[k] PROVE i = k
        OBVIOUS
      <3>1. rank[i] = Cardinality(Upto(i)) /\ rank[k] = Cardinality(Upto(k))
        OBVIOUS
      <3>2. i \in Int /\ k \in Int
        BY <1>1
      <3> HIDE DEF Upto, rank, size
      <3>3. Cardinality(Upto(i)) \in Nat /\ Cardinality(Upto(k)) \in Nat
        BY <1>2, <1>3
      <3>4. Cardinality(Upto(i)) = Cardinality(Upto(k))
        BY <3>1, Zenon
      <3>5. ASSUME i < k PROVE FALSE
        <4>1. Cardinality(Upto(i)) < Cardinality(Upto(k))
          BY <1>4, <3>5
        <4> QED
          BY <3>3, <3>4, <4>1
      <3>6. ASSUME k < i PROVE FALSE
        <4>1. Cardinality(Upto(k)) < Cardinality(Upto(i))
          BY <1>4, <3>6
        <4> QED
          BY <3>3, <3>4, <4>1
      <3> QED
        BY <3>2, <3>5, <3>6
    <2>3. IsFiniteSet(1 .. size) /\ Cardinality(1 .. size) = size
      BY <1>2, PlacesCount
    <2>4. IsFiniteSet(places) /\ Cardinality(places) = size - 1
      BY <2>3, FS_RemoveElement, Zenon
    <2>5. Cardinality(places) < Cardinality(G)
      BY <1>2, <2>4
    <2> HIDE DEF rank, places, Upto, size
    <2>6. \E i, k \in G : i # k /\ rank[i] = rank[k]
      BY <1>2, <2>1, <2>4, <2>5, FS_PigeonHole
    <2> QED
      BY <2>2, <2>6
  <1> DEFINE f == [n \in 1 .. size |-> CHOOSE i \in G : Cardinality(Upto(i)) = n]
  <1>6. \A n \in 1 .. size : f[n] \in G /\ Cardinality(Upto(f[n])) = n
    BY <1>5, Zenon
  <1>7. Retain(q, G) = [n \in 1 .. size |-> q[f[n]]]
    BY DEF Retain
  <1> HIDE DEF f, Upto
  <1>8. \A k, l \in 1 .. size : k < l => f[k] < f[l]
    <2> SUFFICES ASSUME NEW k \in 1 .. size, NEW l \in 1 .. size, k < l, ~ (f[k] < f[l])
                 PROVE  FALSE
      OBVIOUS
    <2>1. f[k] \in Int /\ f[l] \in Int
      BY <1>1, <1>6, Zenon
    <2>2. f[l] < f[k] \/ f[l] = f[k]
      BY <2>1
    <2> QED
      <3>1. f[k] \in G /\ f[l] \in G /\ Cardinality(Upto(f[k])) = k /\ Cardinality(Upto(f[l])) = l
        BY <1>6
      <3>2. k \in Int /\ l \in Int
        BY <1>2
      <3>3. f[l] # f[k]
        BY <3>1, <3>2
      <3>4. f[l] < f[k]
        BY <2>2, <3>3
      <3>5. Cardinality(Upto(f[l])) < Cardinality(Upto(f[k]))
        BY <1>4, <3>1, <3>4, Zenon
      <3> QED
        BY <3>1, <3>2, <3>5
  <1>9. \A n \in 1 .. size : f[n] \in 1 .. Len(q) /\ q[f[n]] \in S
    BY <1>6, ElementOfSeq, Zenon
  <1>10. f \in [1 .. size -> 1 .. Len(q)]
    BY <1>9 DEF f
  <1> HIDE DEF size
  <1>11. Retain(q, G) \in Seq(S) /\ Len(Retain(q, G)) = size
    BY <1>2, <1>7, <1>9
  <1>12. Picks(f, Len(Retain(q, G)), q)
    BY <1>8, <1>10, <1>11 DEF Picks
  <1>13. \A n \in 1 .. Len(Retain(q, G)) : Retain(q, G)[n] = q[f[n]]
    BY <1>7, <1>11, Zenon
  <1> QED
    BY <1>2, <1>11, <1>12, <1>13 DEF ThinnedSeq

\* remove() takes out one entry.
LEMMA RemoveThins ==
    ASSUME NEW S, NEW q \in Seq(S), NEW p \in 1 .. Len(q)
    PROVE  /\ RemoveAt(q, p) \in Seq(S) /\ Len(RemoveAt(q, p)) = Len(q) - 1
           /\ ThinnedSeq(RemoveAt(q, p), q)
  <1> DEFINE left == SubSeq(q, 1, p - 1)
             right == SubSeq(q, p + 1, Len(q))
             f == [n \in 1 .. Len(q) - 1 |-> IF n < p THEN n ELSE n + 1]
  <1>1. Len(q) \in Nat /\ p \in Int /\ 1 <= p /\ p <= Len(q)
    BY LenProperties
  <1>2. left \in Seq(S) /\ Len(left) = p - 1 /\ \A n \in 1 .. p - 1 : left[n] = q[n]
    BY <1>1, SubSeqProperties
  <1>3. /\ right \in Seq(S) /\ Len(right) = Len(q) - p
        /\ \A n \in 1 .. Len(q) - p : right[n] = q[p + n]
    BY <1>1, SubSeqProperties
  <1>4. RemoveAt(q, p) = left \o right
    BY DEF RemoveAt
  <1> HIDE DEF left, right
  <1>5. /\ left \o right \in Seq(S) /\ Len(left \o right) = Len(q) - 1
        /\ \A n \in 1 .. Len(q) - 1 :
              (left \o right)[n] = IF n <= p - 1 THEN left[n] ELSE right[n - (p - 1)]
    <2>1. /\ left \o right \in Seq(S) /\ Len(left \o right) = Len(left) + Len(right)
          /\ \A n \in 1 .. Len(left) + Len(right) :
                (left \o right)[n] = IF n <= Len(left) THEN left[n] ELSE right[n - Len(left)]
      BY <1>2, <1>3, ConcatProperties, Zenon
    <2>2. Len(left) + Len(right) = Len(q) - 1
      BY <1>1, <1>2, <1>3
    <2> QED
      BY <1>2, <2>1, <2>2
  <1>6. \A n \in 1 .. Len(q) - 1 : (left \o right)[n] = q[f[n]]
    <2> SUFFICES ASSUME NEW n \in 1 .. Len(q) - 1 PROVE (left \o right)[n] = q[f[n]]
      BY Zenon
    <2>1. CASE n < p
      <3>1. n \in 1 .. p - 1 /\ n <= p - 1 /\ f[n] = n
        BY <1>1, <2>1
      <3> QED
        BY <1>2, <1>5, <3>1
    <2>2. CASE ~ (n < p)
      <3>1. ~ (n <= p - 1) /\ n - (p - 1) \in 1 .. Len(q) - p /\ p + (n - (p - 1)) = n + 1
        BY <1>1, <2>2
      <3>2. (left \o right)[n] = right[n - (p - 1)]
        BY <1>5, <3>1
      <3>3. right[n - (p - 1)] = q[p + (n - (p - 1))]
        BY <1>3, <3>1
      <3>4. f[n] = n + 1
        BY <2>2
      <3> QED
        BY <3>1, <3>2, <3>3, <3>4
    <2> QED
      BY <2>1, <2>2, Zenon
  <1>7. /\ f \in [1 .. Len(q) - 1 -> 1 .. Len(q)]
        /\ \A k, l \in 1 .. Len(q) - 1 : k < l => f[k] < f[l]
    BY <1>1
  <1> HIDE DEF f
  <1>8. Picks(f, Len(left \o right), q)
    BY <1>5, <1>7 DEF Picks
  <1>9. \A n \in 1 .. Len(left \o right) : (left \o right)[n] = q[f[n]]
    BY <1>5, <1>6
  <1>10. Len(left \o right) <= Len(q)
    BY <1>1, <1>5
  <1>11. ThinnedSeq(left \o right, q)
    BY <1>8, <1>9, <1>10 DEF ThinnedSeq
  <1> QED
    BY <1>4, <1>5, <1>11

\* pop() from the end leaves a prefix.
LEMMA PrefixThins ==
    ASSUME NEW S, NEW q \in Seq(S), NEW n \in 0 .. Len(q)
    PROVE  /\ SubSeq(q, 1, n) \in Seq(S) /\ Len(SubSeq(q, 1, n)) = n
           /\ ThinnedSeq(SubSeq(q, 1, n), q)
  <1> DEFINE r == SubSeq(q, 1, n)
             f == [k \in 1 .. n |-> k]
  <1>1. Len(q) \in Nat /\ n \in Nat /\ n <= Len(q)
    BY LenProperties
  <1>2. r \in Seq(S) /\ Len(r) = n /\ \A k \in 1 .. n : r[k] = q[k]
    <2>1. /\ r \in Seq(S) /\ Len(r) = IF 1 <= n THEN n - 1 + 1 ELSE 0
          /\ \A k \in 1 .. n - 1 + 1 : r[k] = q[1 + k - 1]
      BY <1>1, SubSeqProperties
    <2>2. n - 1 + 1 = n /\ \A k \in 1 .. n : 1 + k - 1 = k
      BY <1>1
    <2> QED
      BY <1>1, <2>1, <2>2
  <1> HIDE DEF r
  <1>3. f \in [1 .. n -> 1 .. Len(q)] /\ \A k \in 1 .. n : f[k] = k
    BY <1>1
  <1> HIDE DEF f
  <1>4. Picks(f, n, q) /\ \A k \in 1 .. n : r[k] = q[f[k]]
    BY <1>2, <1>3 DEF Picks
  <1>5. ThinnedSeq(r, q)
    BY <1>1, <1>2, <1>4 DEF ThinnedSeq
  <1> QED
    BY <1>2, <1>5 DEF r

\* A full bucket gives up its first entry.
LEMMA TailThins ==
    ASSUME NEW S, NEW q \in Seq(S), q # <<>>
    PROVE  Tail(q) \in Seq(S) /\ Len(Tail(q)) = Len(q) - 1 /\ ThinnedSeq(Tail(q), q)
  <1> DEFINE f == [k \in 1 .. Len(q) - 1 |-> k + 1]
  <1>1. Len(q) \in Nat /\ Len(q) # 0
    BY LenProperties, EmptySeq
  <1>2. /\ Tail(q) \in Seq(S) /\ Len(Tail(q)) = Len(q) - 1
        /\ \A k \in 1 .. Len(q) - 1 : Tail(q)[k] = q[k + 1]
    BY <1>1, HeadTailProperties
  <1>3. /\ f \in [1 .. Len(q) - 1 -> 1 .. Len(q)]
        /\ \A k \in 1 .. Len(q) - 1 : f[k] = k + 1
    BY <1>1
  <1> HIDE DEF f
  <1>4. Picks(f, Len(Tail(q)), q)
    BY <1>1, <1>2, <1>3 DEF Picks
  <1>5. \A k \in 1 .. Len(Tail(q)) : Tail(q)[k] = q[f[k]]
    BY <1>2, <1>3
  <1> QED
    BY <1>1, <1>2, <1>4, <1>5 DEF ThinnedSeq

\* A bucket left alone is thinned of nothing.
LEMMA SelfThins ==
    ASSUME NEW S, NEW q \in Seq(S)
    PROVE  ThinnedSeq(q, q)
  <1> DEFINE f == [k \in 1 .. Len(q) |-> k]
  <1>1. Len(q) \in Nat
    BY LenProperties
  <1>2. Picks(f, Len(q), q) /\ \A k \in 1 .. Len(q) : q[k] = q[f[k]]
    BY <1>1 DEF Picks
  <1> HIDE DEF f
  <1> QED
    BY <1>1, <1>2 DEF ThinnedSeq

-----------------------------------------------------------------------------
(* The idle entries. *)

\* Every bucket is ordered by age.
Ordered(i) ==
    \A o \in Origins : \A m, n \in 1 .. Len(i[o]) : m <= n => i[o][m].age >= i[o][n].age

\* No two entries hold the same connection.
Distinct(i) ==
    \A e, f \in Entries(i) : i[e[1]][e[2]].conn = i[f[1]][f[2]].conn => e = f

\* An entry is an origin and a place in its bucket.
LEMMA EntryIs ==
    ASSUME NEW i
    PROVE  /\ \A e \in Entries(i) : /\ e = <<e[1], e[2]>> /\ e[1] \in Origins
                                    /\ e[2] \in 1 .. Len(i[e[1]])
           /\ \A o \in Origins : \A n \in 1 .. Len(i[o]) : <<o, n>> \in Entries(i)
  BY DEF Entries

\* The entry behind a pooled connection.
LEMMA PooledIs ==
    ASSUME NEW i, NEW c
    PROVE  c \in Pooled(i) <=> \E o \in Origins : \E n \in 1 .. Len(i[o]) : i[o][n].conn = c
  <1>1. ASSUME c \in Pooled(i)
        PROVE  \E o \in Origins : \E n \in 1 .. Len(i[o]) : i[o][n].conn = c
    BY <1>1, EntryIs DEF Pooled
  <1>2. ASSUME NEW o \in Origins, NEW n \in 1 .. Len(i[o]), i[o][n].conn = c
        PROVE  c \in Pooled(i)
    <2>1. <<o, n>> \in Entries(i)
      BY EntryIs
    <2> QED
      BY <1>2, <2>1 DEF Pooled
  <1> QED
    BY <1>1, <1>2

\* Distinctness, place by place.
LEMMA DistinctIs ==
    ASSUME NEW i
    PROVE  Distinct(i) <=>
              \A o, p \in Origins : \A m \in 1 .. Len(i[o]), n \in 1 .. Len(i[p]) :
                 i[o][m].conn = i[p][n].conn => o = p /\ m = n
  <1>1. ASSUME Distinct(i), NEW o \in Origins, NEW p \in Origins,
               NEW m \in 1 .. Len(i[o]), NEW n \in 1 .. Len(i[p]),
               i[o][m].conn = i[p][n].conn
        PROVE  o = p /\ m = n
    <2>1. <<o, m>> \in Entries(i) /\ <<p, n>> \in Entries(i)
      BY EntryIs
    <2>2. <<o, m>> = <<p, n>>
      BY <1>1, <2>1 DEF Distinct
    <2> QED
      BY <2>2
  <1>2. ASSUME \A o, p \in Origins : \A m \in 1 .. Len(i[o]), n \in 1 .. Len(i[p]) :
                  i[o][m].conn = i[p][n].conn => o = p /\ m = n,
               NEW e \in Entries(i), NEW f \in Entries(i),
               i[e[1]][e[2]].conn = i[f[1]][f[2]].conn
        PROVE  e = f
    <2>1. e = <<e[1], e[2]>> /\ e[1] \in Origins /\ e[2] \in 1 .. Len(i[e[1]])
      BY EntryIs
    <2>2. f = <<f[1], f[2]>> /\ f[1] \in Origins /\ f[2] \in 1 .. Len(i[f[1]])
      BY EntryIs
    <2>3. e[1] = f[1] /\ e[2] = f[2]
      BY <1>2, <2>1, <2>2
    <2> QED
      BY <2>1, <2>2, <2>3
  <1> QED
    BY <1>1, <1>2 DEF Distinct

\* Taking entries out keeps the order and adds no connection.
LEMMA ThinnedKeeps ==
    ASSUME NEW i, NEW j, \A o \in Origins : Len(i[o]) \in Nat /\ Len(j[o]) \in Nat,
           Thinned(j, i)
    PROVE  /\ Ordered(i) => Ordered(j)
           /\ Distinct(i) => Distinct(j)
           /\ Pooled(j) \subseteq Pooled(i)
           /\ \A o \in Origins : Len(j[o]) <= Len(i[o])
  <1>1. \A o \in Origins :
           /\ Len(j[o]) <= Len(i[o])
           /\ \E f : Picks(f, Len(j[o]), i[o]) /\ \A n \in 1 .. Len(j[o]) : j[o][n] = i[o][f[n]]
    BY DEF Thinned, ThinnedSeq
  <1>2. ASSUME Ordered(i), NEW o \in Origins, NEW m \in 1 .. Len(j[o]),
               NEW n \in 1 .. Len(j[o]), m <= n
        PROVE  j[o][m].age >= j[o][n].age
    <2>1. PICK f : Picks(f, Len(j[o]), i[o]) /\ \A k \in 1 .. Len(j[o]) : j[o][k] = i[o][f[k]]
      BY <1>1
    <2>2. f[m] \in 1 .. Len(i[o]) /\ f[n] \in 1 .. Len(i[o])
      BY <2>1 DEF Picks
    <2>3. f[m] <= f[n]
      <3>1. m \in Int /\ n \in Int /\ f[m] \in Int /\ f[n] \in Int
        BY <2>2
      <3>2. CASE m < n
        BY <2>1, <3>1, <3>2 DEF Picks
      <3>3. CASE m = n
        BY <3>1, <3>3
      <3> QED
        BY <1>2, <3>1, <3>2, <3>3
    <2> QED
      BY <1>2, <2>1, <2>2, <2>3, Zenon DEF Ordered
  <1>3. ASSUME Distinct(i) PROVE Distinct(j)
    <2> SUFFICES ASSUME NEW o \in Origins, NEW p \in Origins,
                        NEW m \in 1 .. Len(j[o]), NEW n \in 1 .. Len(j[p]),
                        j[o][m].conn = j[p][n].conn
                 PROVE  o = p /\ m = n
      BY DistinctIs
    <2>1. PICK f : Picks(f, Len(j[o]), i[o]) /\ \A k \in 1 .. Len(j[o]) : j[o][k] = i[o][f[k]]
      BY <1>1
    <2>2. PICK g : Picks(g, Len(j[p]), i[p]) /\ \A k \in 1 .. Len(j[p]) : j[p][k] = i[p][g[k]]
      BY <1>1
    <2>3. f[m] \in 1 .. Len(i[o]) /\ g[n] \in 1 .. Len(i[p])
      BY <2>1, <2>2, Zenon DEF Picks
    <2> DEFINE fm == f[m]
               gn == g[n]
               fn == f[n]
    <2>a. \A x, y \in Origins : \A k \in 1 .. Len(i[x]), l \in 1 .. Len(i[y]) :
             i[x][k].conn = i[y][l].conn => x = y /\ k = l
      BY <1>3, DistinctIs
    <2>4. o = p /\ fm = gn
      <3>1. i[o][fm].conn = i[p][gn].conn
        BY <2>1, <2>2, Zenon
      <3>2. fm \in 1 .. Len(i[o]) /\ gn \in 1 .. Len(i[p])
        BY <2>3
      <3> HIDE DEF fm, gn
      <3> QED
        BY <2>a, <3>1, <3>2
    <2>5. fn = gn
      <3>1. /\ i[o][fn].conn = i[o][gn].conn
            /\ fn \in 1 .. Len(i[o]) /\ gn \in 1 .. Len(i[o])
        BY <2>1, <2>2, <2>3, <2>4 DEF Picks
      <3> HIDE DEF fn, gn
      <3> QED
        BY <2>a, <3>1
    <2>6. m = n
      <3>1. m \in Int /\ n \in Int /\ f[m] \in Int /\ f[n] \in Int /\ f[m] = f[n]
        BY <2>3, <2>4, <2>5
      <3>2. ~ (m < n) /\ ~ (n < m)
        BY <2>1, <2>4, <3>1 DEF Picks
      <3> QED
        BY <3>1, <3>2
    <2> QED
      BY <2>4, <2>6
  <1>4. ASSUME NEW c \in Pooled(j) PROVE c \in Pooled(i)
    <2>1. PICK o \in Origins : \E n \in 1 .. Len(j[o]) : j[o][n].conn = c
      BY PooledIs
    <2>2. PICK n \in 1 .. Len(j[o]) : j[o][n].conn = c
      BY <2>1
    <2>3. PICK f : Picks(f, Len(j[o]), i[o]) /\ \A k \in 1 .. Len(j[o]) : j[o][k] = i[o][f[k]]
      BY <1>1
    <2>4. f[n] \in 1 .. Len(i[o]) /\ i[o][f[n]].conn = c
      BY <2>2, <2>3 DEF Picks
    <2> QED
      BY <2>4, PooledIs
  <1> QED
    BY <1>1, <1>2, <1>3, <1>4 DEF Ordered

-----------------------------------------------------------------------------
(* The number of idle entries. *)

\* There are finitely many idle entries.
LEMMA EntriesFinite ==
    ASSUME NEW i, \A o \in Origins : Len(i[o]) \in Nat
    PROVE  IsFiniteSet(Entries(i)) /\ Cardinality(Entries(i)) \in Nat
  <1> DEFINE buckets == {{o} \X (1 .. Len(i[o])) : o \in Origins}
             f == [o \in Origins |-> {o} \X (1 .. Len(i[o]))]
  <1>1. IsFiniteSet(Origins)
    BY PoolAssumption
  <1>2. f \in Surjection(Origins, buckets)
    BY Zenon DEF Surjection
  <1>3. IsFiniteSet(buckets)
    <2> HIDE DEF f, buckets
    <2> QED
      BY <1>1, <1>2, FS_Surjection
  <1>4. \A o \in Origins : IsFiniteSet({o} \X (1 .. Len(i[o])))
    BY PlacesCount, FS_Singleton, FS_Product, Zenon
  <1>5. \A T \in buckets : IsFiniteSet(T)
    BY <1>4
  <1>6. Entries(i) = UNION buckets
    BY DEF Entries
  <1> HIDE DEF buckets
  <1> QED
    BY <1>3, <1>5, <1>6, FS_UNION, FS_CardinalityType

\* A pool with shorter buckets has no more entries.
LEMMA FewerEntries ==
    ASSUME NEW i, NEW j, \A o \in Origins : Len(i[o]) \in Nat /\ Len(j[o]) \in Nat,
           \A o \in Origins : Len(j[o]) <= Len(i[o])
    PROVE  Cardinality(Entries(j)) <= Cardinality(Entries(i))
  <1>1. Entries(j) \in SUBSET Entries(i)
    <2> SUFFICES ASSUME NEW e \in Entries(j) PROVE e \in Entries(i)
      OBVIOUS
    <2>1. e = <<e[1], e[2]>> /\ e[1] \in Origins /\ e[2] \in 1 .. Len(j[e[1]])
      BY EntryIs
    <2>2. e[2] \in 1 .. Len(i[e[1]])
      BY <2>1
    <2> QED
      BY <2>1, <2>2, EntryIs
  <1> QED
    BY <1>1, EntriesFinite, FS_Subset

\* A change to one bucket changes the number of entries by as much.
LEMMA ResizeOne ==
    ASSUME NEW i, NEW j, \A p \in Origins : Len(i[p]) \in Nat /\ Len(j[p]) \in Nat,
           NEW o \in Origins, \A p \in Origins \ {o} : Len(j[p]) = Len(i[p])
    PROVE  Cardinality(Entries(j)) = Cardinality(Entries(i)) - Len(i[o]) + Len(j[o])
  <1> DEFINE rest == {e \in Entries(i) : e[1] # o}
             old == {o} \X (1 .. Len(i[o]))
             new == {o} \X (1 .. Len(j[o]))
  <1>1. IsFiniteSet(rest) /\ Cardinality(rest) \in Nat
    BY EntriesFinite, FS_Subset, FS_CardinalityType
  <1>2. ASSUME NEW n \in Nat
        PROVE  IsFiniteSet({o} \X (1 .. n)) /\ Cardinality({o} \X (1 .. n)) = n
    <2>1. IsFiniteSet({o}) /\ Cardinality({o}) = 1 /\ IsFiniteSet(1 .. n) /\ Cardinality(1 .. n) = n
      BY PlacesCount, FS_Singleton, Zenon
    <2>2. /\ IsFiniteSet({o} \X (1 .. n))
          /\ Cardinality({o} \X (1 .. n)) = Cardinality({o}) * Cardinality(1 .. n)
      BY <2>1, FS_Product, Zenon
    <2>3. 1 * n = n
      OBVIOUS
    <2> QED
      BY <2>1, <2>2, <2>3, Zenon
  <1>3. /\ IsFiniteSet(old) /\ Cardinality(old) = Len(i[o])
        /\ IsFiniteSet(new) /\ Cardinality(new) = Len(j[o])
    BY <1>2, Zenon
  <1>4. Entries(i) = rest \cup old /\ rest \cap old = {}
    BY DEF Entries
  <1>5. Entries(j) = rest \cup new /\ rest \cap new = {}
    BY DEF Entries
  <1> HIDE DEF rest, old, new
  <1>6. Cardinality({}) = 0
    BY FS_EmptySet
  <1>7. Cardinality(Entries(i)) = Cardinality(rest) + Len(i[o])
    <2>1. Cardinality(rest \cup old)
             = Cardinality(rest) + Cardinality(old) - Cardinality(rest \cap old)
      BY <1>1, <1>3, FS_Union
    <2>2. Cardinality(Entries(i)) = Cardinality(rest) + Len(i[o]) - 0
      BY <1>3, <1>4, <1>6, <2>1, Zenon
    <2> QED
      BY <1>1, <2>2
  <1>8. Cardinality(Entries(j)) = Cardinality(rest) + Len(j[o])
    <2>1. Cardinality(rest \cup new)
             = Cardinality(rest) + Cardinality(new) - Cardinality(rest \cap new)
      BY <1>1, <1>3, FS_Union
    <2>2. Cardinality(Entries(j)) = Cardinality(rest) + Len(j[o]) - 0
      BY <1>3, <1>5, <1>6, <2>1, Zenon
    <2> QED
      BY <1>1, <2>2
  <1> QED
    BY <1>1, <1>7, <1>8

-----------------------------------------------------------------------------
(* What the helpers that run under the lock leave. *)

\* A configuration's numbers.
LEMMA SetupTypes ==
    ASSUME setup \in Setups
    PROVE  /\ IdleTimeout \in Nat /\ SweepEvery \in Nat
           /\ MaxPerHost \in Nat \ {0} /\ MaxTotal \in Nat \ {0}
  <1>1. IdleTimeout \in Nat /\ MaxPerHost \in Nat \ {0} /\ MaxTotal \in Nat \ {0}
    BY PoolAssumption DEF IdleTimeout, MaxPerHost, MaxTotal
  <1> QED
    BY <1>1 DEF SweepEvery

\* The idle entries i, counted by h: typed, counted exactly, within the caps,
\* ordered by age and of different connections.
Sized(i, h) ==
    /\ i \in [Origins -> Seq(Idle)]
    /\ h = Cardinality(Entries(i))
    /\ h <= MaxTotal
    /\ \A o \in Origins : Len(i[o]) <= MaxPerHost
    /\ Ordered(i)
    /\ Distinct(i)

\* The lengths of typed buckets.
LEMMA Lengths ==
    ASSUME NEW i \in [Origins -> Seq(Idle)]
    PROVE  \A o \in Origins : i[o] \in Seq(Idle) /\ Len(i[o]) \in Nat
  BY LenProperties

\* Taking entries out of any bucket, and recounting, as evict_expired does.
LEMMA ThinnedSized ==
    ASSUME setup \in Setups, NEW i, NEW h, Sized(i, h),
           NEW j \in [Origins -> Seq(Idle)], Thinned(j, i)
    PROVE  Sized(j, Cardinality(Entries(j))) /\ Pooled(j) \subseteq Pooled(i)
  <1>1. i \in [Origins -> Seq(Idle)]
    BY DEF Sized
  <1>2. \A o \in Origins : Len(i[o]) \in Nat /\ Len(j[o]) \in Nat
    BY <1>1, Lengths
  <1>3. /\ Ordered(i) => Ordered(j)
        /\ Distinct(i) => Distinct(j)
        /\ Pooled(j) \subseteq Pooled(i)
        /\ \A o \in Origins : Len(j[o]) <= Len(i[o])
    BY <1>2, ThinnedKeeps
  <1>4. Ordered(j) /\ Distinct(j)
    BY <1>3 DEF Sized
  <1>5. \A o \in Origins : Len(j[o]) <= MaxPerHost
    BY <1>2, <1>3, SetupTypes DEF Sized
  <1>6. Cardinality(Entries(j)) <= MaxTotal
    <2>1. Cardinality(Entries(j)) <= Cardinality(Entries(i))
      BY <1>2, <1>3, FewerEntries
    <2>2. Cardinality(Entries(i)) \in Nat /\ Cardinality(Entries(j)) \in Nat
      BY <1>2, EntriesFinite
    <2>3. Cardinality(Entries(i)) <= MaxTotal
      BY DEF Sized
    <2> QED
      BY <2>1, <2>2, <2>3, SetupTypes
  <1> QED
    BY <1>3, <1>4, <1>5, <1>6 DEF Sized

\* Taking entries out of one bucket, with the count kept by hand.
LEMMA DropSized ==
    ASSUME setup \in Setups, NEW i, NEW h, Sized(i, h), NEW o \in Origins,
           NEW q \in Seq(Idle), ThinnedSeq(q, i[o])
    PROVE  /\ Sized([i EXCEPT ![o] = q], h - (Len(i[o]) - Len(q)))
           /\ Pooled([i EXCEPT ![o] = q]) \subseteq Pooled(i)
  <1> DEFINE j == [i EXCEPT ![o] = q]
  <1>1. i \in [Origins -> Seq(Idle)] /\ h = Cardinality(Entries(i))
    BY DEF Sized
  <1>2. j \in [Origins -> Seq(Idle)] /\ j[o] = q /\ \A p \in Origins \ {o} : j[p] = i[p]
    BY <1>1
  <1> HIDE DEF j
  <1>3. \A p \in Origins : Len(i[p]) \in Nat /\ Len(j[p]) \in Nat
    BY <1>1, <1>2, Lengths
  <1>4. Thinned(j, i)
    <2>1. \A p \in Origins \ {o} : ThinnedSeq(j[p], i[p])
      BY <1>1, <1>2, SelfThins
    <2> QED
      BY <1>2, <2>1 DEF Thinned
  <1>5. Sized(j, Cardinality(Entries(j))) /\ Pooled(j) \subseteq Pooled(i)
    BY <1>2, <1>4, ThinnedSized
  <1>6. Cardinality(Entries(j)) = Cardinality(Entries(i)) - Len(i[o]) + Len(j[o])
    BY <1>2, <1>3, ResizeOne, Zenon
  <1>7. Cardinality(Entries(j)) = h - (Len(i[o]) - Len(q))
    <2>1. h \in Nat
      BY <1>1, <1>3, EntriesFinite
    <2> QED
      BY <1>1, <1>2, <1>3, <1>6, <2>1
  <1> QED
    BY <1>5, <1>7, Zenon DEF j

\* Pushing a connection the pool does not hold into a bucket with room.
LEMMA AppendSized ==
    ASSUME setup \in Setups, NEW i, NEW h, Sized(i, h), NEW o \in Origins,
           NEW c \in Conns, c \notin Pooled(i), h < MaxTotal, Len(i[o]) < MaxPerHost
    PROVE  /\ Sized([i EXCEPT ![o] = Append(i[o], [conn |-> c, age |-> 0])], h + 1)
           /\ Pooled([i EXCEPT ![o] = Append(i[o], [conn |-> c, age |-> 0])])
                 \subseteq Pooled(i) \cup {c}
  <1> DEFINE e == [conn |-> c, age |-> 0]
             q == Append(i[o], e)
             j == [i EXCEPT ![o] = q]
             top == Len(i[o]) + 1
  <1>1. i \in [Origins -> Seq(Idle)] /\ h = Cardinality(Entries(i)) /\ i[o] \in Seq(Idle)
    BY DEF Sized
  <1>2. e \in Idle /\ e.conn = c /\ e.age = 0
    BY SetupTypes DEF Idle
  <1>3. \A p \in Origins : Len(i[p]) \in Nat
    BY <1>1, Lengths
  <1> HIDE DEF e
  <1>4. /\ q \in Seq(Idle) /\ Len(q) = top /\ top \in Nat /\ q[top] = e
        /\ \A n \in 1 .. Len(i[o]) : q[n] = i[o][n]
    BY <1>1, <1>2, <1>3, AppendProperties
  <1> HIDE DEF q
  <1>5. j \in [Origins -> Seq(Idle)] /\ j[o] = q /\ \A p \in Origins \ {o} : j[p] = i[p]
    BY <1>1, <1>4
  <1> HIDE DEF j
  <1>6. \A p \in Origins : Len(j[p]) \in Nat
    BY <1>5, Lengths
  <1>7. \A p \in Origins : \A n \in 1 .. Len(j[p]) :
           \/ n \in 1 .. Len(i[p]) /\ j[p][n] = i[p][n]
           \/ p = o /\ n = top /\ j[p][n] = e
    <2> SUFFICES ASSUME NEW p \in Origins, NEW n \in 1 .. Len(j[p])
                 PROVE  \/ n \in 1 .. Len(i[p]) /\ j[p][n] = i[p][n]
                        \/ p = o /\ n = top /\ j[p][n] = e
      OBVIOUS
    <2>1. CASE p # o
      BY <1>5, <2>1
    <2>2. CASE p = o /\ n # top
      <3>1. n \in 1 .. Len(i[o])
        BY <1>3, <1>4, <1>5, <2>2
      <3> QED
        BY <1>4, <1>5, <2>2, <3>1
    <2>3. CASE p = o /\ n = top
      BY <1>4, <1>5, <2>3
    <2> QED
      BY <2>1, <2>2, <2>3
  <1> HIDE DEF top
  <1>8. Ordered(j)
    <2> SUFFICES ASSUME NEW p \in Origins, NEW m \in 1 .. Len(j[p]), NEW n \in 1 .. Len(j[p]),
                        m <= n
                 PROVE  j[p][m].age >= j[p][n].age
      BY DEF Ordered
    <2>1. \A k \in 1 .. Len(i[p]) : i[p][k].age \in Nat
      <3>1. \A k \in 1 .. Len(i[p]) : i[p][k] \in Idle
        BY <1>1, ElementOfSeq
      <3>2. IdleTimeout \in Nat
        BY SetupTypes
      <3>3. \A d \in Idle : d.age \in Nat
        BY <3>2 DEF Idle
      <3> QED
        BY <3>1, <3>3
    <2>2. CASE n \in 1 .. Len(i[p]) /\ j[p][n] = i[p][n]
      <3>1. m \in 1 .. Len(i[p])
        BY <1>3, <1>6, <2>2
      <3>2. j[p][m] = i[p][m]
        <4>1. CASE p # o
          BY <1>5, <4>1
        <4>2. CASE p = o
          BY <1>4, <1>5, <3>1, <4>2
        <4> QED
          BY <4>1, <4>2
      <3> QED
        BY <2>2, <3>1, <3>2 DEF Ordered, Sized
    <2>3. CASE j[p][n] = e
      <3>1. j[p][m].age \in Nat
        BY <1>2, <1>7, <2>1
      <3> QED
        BY <1>2, <2>3, <3>1
    <2> QED
      BY <1>7, <2>2, <2>3
  <1>9. Distinct(j)
    <2> SUFFICES ASSUME NEW p \in Origins, NEW r \in Origins,
                        NEW m \in 1 .. Len(j[p]), NEW n \in 1 .. Len(j[r]),
                        j[p][m].conn = j[r][n].conn
                 PROVE  p = r /\ m = n
      BY DistinctIs
    <2>1. \A x \in Origins : \A k \in 1 .. Len(i[x]) : i[x][k].conn # c
      BY PooledIs
    <2>2. \A x, y \in Origins : \A k \in 1 .. Len(i[x]), l \in 1 .. Len(i[y]) :
             i[x][k].conn = i[y][l].conn => x = y /\ k = l
      BY DistinctIs DEF Sized
    <2>3. \/ m \in 1 .. Len(i[p]) /\ j[p][m] = i[p][m]
          \/ p = o /\ m = top /\ j[p][m] = e
      BY <1>7
    <2>4. \/ n \in 1 .. Len(i[r]) /\ j[r][n] = i[r][n]
          \/ r = o /\ n = top /\ j[r][n] = e
      BY <1>7
    <2>5. CASE m \in 1 .. Len(i[p]) /\ j[p][m] = i[p][m] /\ n \in 1 .. Len(i[r]) /\ j[r][n] = i[r][n]
      BY <2>2, <2>5
    <2>6. CASE p = o /\ m = top /\ j[p][m] = e /\ n \in 1 .. Len(i[r]) /\ j[r][n] = i[r][n]
      BY <1>2, <2>1, <2>6
    <2>7. CASE m \in 1 .. Len(i[p]) /\ j[p][m] = i[p][m] /\ r = o /\ n = top /\ j[r][n] = e
      BY <1>2, <2>1, <2>7
    <2> QED
      BY <2>3, <2>4, <2>5, <2>6, <2>7
  <1>10. Pooled(j) \subseteq Pooled(i) \cup {c}
    <2> SUFFICES ASSUME NEW d \in Pooled(j), d # c PROVE d \in Pooled(i)
      OBVIOUS
    <2>1. PICK p \in Origins : \E n \in 1 .. Len(j[p]) : j[p][n].conn = d
      BY PooledIs
    <2>2. PICK n \in 1 .. Len(j[p]) : j[p][n].conn = d
      BY <2>1
    <2>3. n \in 1 .. Len(i[p]) /\ i[p][n].conn = d
      BY <1>2, <1>7, <2>2
    <2> QED
      BY <2>3, PooledIs
  <1>11. Cardinality(Entries(j)) = h + 1 /\ h \in Nat
    <2>1. Cardinality(Entries(j)) = Cardinality(Entries(i)) - Len(i[o]) + Len(j[o])
      BY <1>3, <1>5, <1>6, ResizeOne, Zenon
    <2>2. h \in Nat
      BY <1>1, <1>3, EntriesFinite
    <2>3. Len(j[o]) = Len(i[o]) + 1
      BY <1>4, <1>5 DEF top
    <2> QED
      BY <1>1, <1>3, <2>1, <2>2, <2>3
  <1>12. \A p \in Origins : Len(j[p]) <= MaxPerHost
    <2>1. Len(j[o]) <= MaxPerHost
      BY <1>3, <1>4, <1>5, SetupTypes DEF top
    <2> QED
      BY <1>5, <2>1, Zenon DEF Sized
  <1>13. h + 1 <= MaxTotal
    BY <1>11, SetupTypes
  <1>14. Sized(j, h + 1)
    BY <1>5, <1>8, <1>9, <1>11, <1>12, <1>13 DEF Sized
  <1> QED
    BY <1>10, <1>14, Zenon DEF j, q, e

\* A bucket cut to its first k entries holds none of the connections behind.
LEMMA PoppedOut ==
    ASSUME NEW i, NEW j, Distinct(i), NEW o \in Origins, Len(i[o]) \in Nat,
           NEW k \in 0 .. Len(i[o]), Len(j[o]) = k,
           \A n \in 1 .. k : j[o][n] = i[o][n],
           \A p \in Origins \ {o} : j[p] = i[p]
    PROVE  \A n \in 1 .. Len(i[o]) : k < n => i[o][n].conn \notin Pooled(j)
  <1> SUFFICES ASSUME NEW n \in 1 .. Len(i[o]), k < n, NEW c \in Pooled(j), c = i[o][n].conn
               PROVE  FALSE
    OBVIOUS
  <1>1. PICK p \in Origins : \E m \in 1 .. Len(j[p]) : j[p][m].conn = c
    BY PooledIs
  <1>2. PICK m \in 1 .. Len(j[p]) : j[p][m].conn = i[o][n].conn
    BY <1>1
  <1>3. \A x, y \in Origins : \A a \in 1 .. Len(i[x]), b \in 1 .. Len(i[y]) :
           i[x][a].conn = i[y][b].conn => x = y /\ a = b
    BY DistinctIs
  <1>4. CASE p # o
    BY <1>2, <1>3, <1>4
  <1>5. CASE p = o
    <2>1. m \in 1 .. k /\ m \in 1 .. Len(i[o]) /\ m # n
      BY <1>5
    <2>2. i[o][m].conn = i[o][n].conn
      BY <1>2, <1>5, <2>1
    <2> QED
      BY <1>3, <2>1, <2>2
  <1> QED
    BY <1>4, <1>5

\* Only connections are pooled.
LEMMA PooledConns ==
    ASSUME NEW i \in [Origins -> Seq(Idle)]
    PROVE  Pooled(i) \subseteq Conns
  <1> SUFFICES ASSUME NEW c \in Pooled(i) PROVE c \in Conns
    OBVIOUS
  <1>1. PICK o \in Origins : \E n \in 1 .. Len(i[o]) : i[o][n].conn = c
    BY PooledIs
  <1>2. PICK n \in 1 .. Len(i[o]) : i[o][n].conn = c
    BY <1>1
  <1>3. i[o][n] \in Idle
    BY <1>2, ElementOfSeq
  <1> QED
    BY <1>2, <1>3 DEF Idle

\* A pool with empty buckets.
LEMMA EmptySized ==
    ASSUME setup \in Setups
    PROVE  /\ Sized([o \in Origins |-> <<>>], 0)
           /\ Pooled([o \in Origins |-> <<>>]) = {}
           /\ Cardinality(Registered([o \in Origins |-> None])) <= MaxTotal
  <1> DEFINE i == [o \in Origins |-> <<>>]
  <1>1. i \in [Origins -> Seq(Idle)] /\ \A o \in Origins : Len(i[o]) = 0
    BY EmptySeq
  <1> HIDE DEF i
  <1>2. \A o \in Origins : 1 .. Len(i[o]) = {}
    BY <1>1
  <1>3. Entries(i) = {}
    BY <1>2, EntryIs
  <1>4. Ordered(i) /\ Distinct(i) /\ Pooled(i) = {}
    BY <1>2, <1>3 DEF Ordered, Distinct, Pooled
  <1>5. 0 <= MaxTotal /\ \A o \in Origins : Len(i[o]) <= MaxPerHost
    BY <1>1, SetupTypes
  <1>6. Cardinality({}) = 0
    BY FS_EmptySet
  <1>7. Registered([o \in Origins |-> None]) = {}
    BY DEF Registered
  <1> QED
    BY <1>1, <1>3, <1>4, <1>5, <1>6, <1>7, Zenon DEF Sized, i

\* A function on the places 1 .. n is a bucket of n entries.
LEMMA BuiltSeq ==
    ASSUME NEW S, NEW n \in Nat, NEW q \in [1 .. n -> S]
    PROVE  q \in Seq(S) /\ Len(q) = n
  OBVIOUS

\* An entry after a tick.
Older(e) == [e EXCEPT !.age = IF @ < IdleTimeout THEN @ + 1 ELSE @]

\* A tick keeps an entry's type and connection, and the order of two entries.
LEMMA OlderEntry ==
    ASSUME setup \in Setups
    PROVE  /\ \A e \in Idle : Older(e) \in Idle /\ Older(e).conn = e.conn
           /\ \A e, f \in Idle : e.age >= f.age => Older(e).age >= Older(f).age
  <1>1. IdleTimeout \in Nat
    BY SetupTypes
  <1>2. ASSUME NEW e \in Idle
        PROVE  /\ e.conn \in Conns /\ e.age \in 0 .. IdleTimeout
               /\ Older(e) = [conn |-> e.conn,
                              age |-> IF e.age < IdleTimeout THEN e.age + 1 ELSE e.age]
    BY DEF Idle, Older
  <1>3. ASSUME NEW e \in Idle
        PROVE  /\ Older(e).conn = e.conn
               /\ Older(e).age = IF e.age < IdleTimeout THEN e.age + 1 ELSE e.age
    BY <1>2
  <1>4. ASSUME NEW e \in Idle PROVE Older(e) \in Idle
    <2> DEFINE a == IF e.age < IdleTimeout THEN e.age + 1 ELSE e.age
    <2>1. a \in 0 .. IdleTimeout
      BY <1>1, <1>2
    <2>2. Older(e) = [conn |-> e.conn, age |-> a]
      BY <1>2
    <2> HIDE DEF a
    <2> QED
      BY <1>2, <2>1, <2>2 DEF Idle
  <1>5. ASSUME NEW e \in Idle, NEW f \in Idle, e.age >= f.age
        PROVE  Older(e).age >= Older(f).age
    <2>1. e.age \in 0 .. IdleTimeout /\ f.age \in 0 .. IdleTimeout
      BY <1>2
    <2> QED
      BY <1>1, <1>3, <1>5, <2>1
  <1> QED
    BY <1>3, <1>4, <1>5

\* The idle entries, all of them older.
LEMMA AgedSized ==
    ASSUME setup \in Setups, NEW i, NEW h, Sized(i, h), NEW j \in [Origins -> Seq(Idle)],
           \A o \in Origins : /\ Len(j[o]) = Len(i[o])
                              /\ \A n \in 1 .. Len(i[o]) : j[o][n] = Older(i[o][n])
    PROVE  Sized(j, h) /\ Pooled(j) \subseteq Pooled(i)
  <1>1. \A o \in Origins : \A n \in 1 .. Len(i[o]) : i[o][n] \in Idle
    BY ElementOfSeq DEF Sized
  <1>2. \A o \in Origins : \A n \in 1 .. Len(i[o]) : j[o][n].conn = i[o][n].conn
    BY <1>1, OlderEntry
  <1>3. Entries(j) = Entries(i)
    BY DEF Entries
  <1>4. Ordered(j)
    <2> SUFFICES ASSUME NEW o \in Origins, NEW m \in 1 .. Len(i[o]), NEW n \in 1 .. Len(i[o]),
                        m <= n
                 PROVE  j[o][m].age >= j[o][n].age
      BY DEF Ordered
    <2>1. i[o][m].age >= i[o][n].age
      BY DEF Sized, Ordered
    <2> QED
      BY <1>1, <2>1, OlderEntry
  <1>5. Distinct(j)
    <2>1. \A x, y \in Origins : \A a \in 1 .. Len(i[x]), b \in 1 .. Len(i[y]) :
             i[x][a].conn = i[y][b].conn => x = y /\ a = b
      BY DistinctIs DEF Sized
    <2>2. \A x, y \in Origins : \A a \in 1 .. Len(j[x]), b \in 1 .. Len(j[y]) :
             j[x][a].conn = j[y][b].conn => x = y /\ a = b
      BY <1>2, <2>1
    <2> QED
      BY <2>2, DistinctIs
  <1>6. ASSUME NEW c \in Pooled(j) PROVE c \in Pooled(i)
    <2>1. PICK o \in Origins : \E n \in 1 .. Len(j[o]) : j[o][n].conn = c
      BY PooledIs
    <2>2. \E n \in 1 .. Len(i[o]) : i[o][n].conn = c
      BY <1>2, <2>1
    <2> QED
      BY <2>2, PooledIs
  <1> QED
    BY <1>3, <1>4, <1>5, <1>6 DEF Sized
=============================================================================
