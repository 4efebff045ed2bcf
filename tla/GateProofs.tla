----------------------------- MODULE GateProofs -----------------------------
(***************************************************************************)
(* Proofs about FixedConcurrency, for any number of requests, origins and  *)
(* permits, any capacity and any width of the use counter: permits are     *)
(* conserved at every gate, and the store keeps the gates that are in use. *)
(***************************************************************************)
EXTENDS FixedConcurrency, TLAPS, FiniteSetTheorems, SequenceTheorems

-----------------------------------------------------------------------------
(* The inductive invariant.  It speaks of every gate, also of those nobody *)
(* can reach: a fresh semaphore then is one with every permit in.  A       *)
(* permit is handed to the head of a queue, so the requests in a queue     *)
(* must wait at that gate, and wait once.                                  *)

PermitsConserved == \A g \in Gates : free[g] + Cardinality(Holders(g)) = Limit

NobodyWaitsInVain == \A g \in Gates : queue[g] # <<>> => free[g] = 0

QueuesTrue ==
    \A g \in Gates : \A n \in 1 .. Len(queue[g]) :
       stage[queue[g][n]] = "queued" /\ gate[queue[g][n]] = g

QueuedOnce ==
    \A g \in Gates : \A m, n \in 1 .. Len(queue[g]) : queue[g][m] = queue[g][n] => m = n

Placed ==
    \A t \in Tasks :
       /\ stage[t] \in {"acquiring", "queued", "holding"} <=> gate[t] # None
       /\ stage[t] # "idle" => auth[t] \in Authorities

IInv ==
    /\ GatesTypeOK
    /\ PermitsConserved /\ NobodyWaitsInVain
    /\ QueuesTrue /\ QueuedOnce /\ Placed

-----------------------------------------------------------------------------
(* Gates and queues. *)

\* There are finitely many holders of a gate.
LEMMA HoldersFinite ==
    ASSUME NEW g
    PROVE  IsFiniteSet(Holders(g)) /\ Cardinality(Holders(g)) \in Nat
  <1>1. Holders(g) \in SUBSET Tasks
    BY DEF Holders
  <1>2. IsFiniteSet(Holders(g))
    BY <1>1, GatesAssumption, FS_Subset
  <1> QED
    BY <1>2, FS_CardinalityType

\* Gates are numbered, and None is not a gate.
LEMMA GatesAreNumbers ==
    /\ IsFiniteSet(Gates) /\ Gates \subseteq Nat /\ None \notin Gates
    /\ Cardinality(Gates) = Cardinality(Tasks) + Cardinality(Authorities) + 1
    /\ Cardinality(Tasks) \in Nat /\ Cardinality(Authorities) \in Nat
  <1>1. Cardinality(Tasks) \in Nat /\ Cardinality(Authorities) \in Nat
    BY GatesAssumption, FS_CardinalityType
  <1> DEFINE n == Cardinality(Tasks) + Cardinality(Authorities) + 1
  <1>2. n \in Nat /\ 1 <= n
    BY <1>1
  <1> HIDE DEF n
  <1>3. IsFiniteSet(1 .. n) /\ Cardinality(1 .. n) = n /\ 1 .. n \subseteq Nat
    BY <1>2, FS_Interval
  <1>4. Gates = 1 .. n
    BY DEF Gates, n
  <1> QED
    BY <1>1, <1>3, <1>4, GatesAssumption DEF n

\* The entries of the store and the requests reach fewer gates than there are,
\* so gate_for always finds one to allocate.
LEMMA UnusedIsFree ==
    ASSUME GatesTypeOK
    PROVE  Unused \in Gates /\ Unused \notin Live
  <1> DEFINE Bound == {u \in Tasks : gate[u] # None}
             Stored == {store[a] : a \in Remembered}
             Handed == {gate[t] : t \in Bound}
             f == [a \in Remembered |-> store[a]]
             h == [t \in Bound |-> gate[t]]
  <1>1. /\ IsFiniteSet(Remembered) /\ Cardinality(Remembered) <= Cardinality(Authorities)
        /\ IsFiniteSet(Bound) /\ Cardinality(Bound) <= Cardinality(Tasks)
    BY GatesAssumption, FS_Subset DEF Remembered
  <1>2. f \in Surjection(Remembered, Stored) /\ h \in Surjection(Bound, Handed)
    BY DEF Surjection
  <1>3. /\ IsFiniteSet(Stored) /\ Cardinality(Stored) <= Cardinality(Remembered)
        /\ IsFiniteSet(Handed) /\ Cardinality(Handed) <= Cardinality(Bound)
    BY <1>1, <1>2, FS_Surjection
  <1>4. /\ IsFiniteSet(Stored \cup Handed)
        /\ Cardinality(Stored \cup Handed) =
              Cardinality(Stored) + Cardinality(Handed) - Cardinality(Stored \cap Handed)
    BY <1>3, FS_Union
  <1>5. IsFiniteSet(Stored \cap Handed)
    BY <1>3, FS_Intersection
  <1>6. Live = Stored \cup Handed
    BY DEF Live
  <1> HIDE DEF Bound, Stored, Handed, f, h
  <1>7. /\ Cardinality(Remembered) \in Nat /\ Cardinality(Bound) \in Nat
        /\ Cardinality(Stored) \in Nat /\ Cardinality(Handed) \in Nat
        /\ Cardinality(Stored \cap Handed) \in Nat /\ Cardinality(Stored \cup Handed) \in Nat
    BY <1>1, <1>3, <1>4, <1>5, FS_CardinalityType
  <1>8. IsFiniteSet(Live) /\ Cardinality(Live) < Cardinality(Gates)
    BY <1>1, <1>3, <1>4, <1>6, <1>7, GatesAreNumbers
  <1>9. ~ (Gates \subseteq Live)
    <2> SUFFICES ASSUME Gates \in SUBSET Live PROVE FALSE
      OBVIOUS
    <2>1. Cardinality(Gates) <= Cardinality(Live)
      BY <1>8, FS_Subset
    <2>2. Cardinality(Gates) \in Nat /\ Cardinality(Live) \in Nat
      BY <1>8, GatesAreNumbers, FS_CardinalityType
    <2> QED
      BY <1>8, <2>1, <2>2
  <1>10. \E g \in Gates : g \notin Live
    BY <1>9
  <1> QED
    BY <1>10 DEF Unused

\* Taking the n-th request out of a queue leaves the others in their order.
LEMMA RemoveOne ==
    ASSUME NEW S, NEW q \in Seq(S), NEW n \in 1 .. Len(q)
    PROVE  /\ RemoveAt(q, n) \in Seq(S)
           /\ Len(RemoveAt(q, n)) = Len(q) - 1
           /\ \A i \in 1 .. Len(q) - 1 : RemoveAt(q, n)[i] = IF i < n THEN q[i] ELSE q[i + 1]
  <1> DEFINE left == SubSeq(q, 1, n - 1)
             right == SubSeq(q, n + 1, Len(q))
  <1>1. Len(q) \in Nat /\ n \in Int /\ 1 <= n /\ n <= Len(q)
    BY LenProperties
  <1>2. left \in Seq(S) /\ Len(left) = n - 1 /\ \A i \in 1 .. n - 1 : left[i] = q[i]
    BY <1>1, SubSeqProperties
  <1>3. /\ right \in Seq(S) /\ Len(right) = Len(q) - n
        /\ \A i \in 1 .. Len(q) - n : right[i] = q[n + i]
    BY <1>1, SubSeqProperties
  <1> HIDE DEF left, right
  <1>4. /\ left \o right \in Seq(S) /\ Len(left \o right) = Len(left) + Len(right)
        /\ \A i \in 1 .. Len(left) + Len(right) :
              (left \o right)[i] = IF i <= Len(left) THEN left[i] ELSE right[i - Len(left)]
    BY <1>2, <1>3, ConcatProperties, Zenon
  <1>5. RemoveAt(q, n) = left \o right
    BY DEF RemoveAt, left, right
  <1>6. ASSUME NEW i \in 1 .. Len(q) - 1
        PROVE  (left \o right)[i] = IF i < n THEN q[i] ELSE q[i + 1]
    <2>1. CASE i < n
      <3>1. i \in 1 .. n - 1 /\ i <= Len(left) /\ i \in 1 .. Len(left) + Len(right)
        BY <1>1, <1>2, <1>3, <2>1
      <3>2. (left \o right)[i] = left[i]
        BY <1>4, <3>1
      <3> QED
        BY <1>2, <2>1, <3>1, <3>2
    <2>2. CASE i >= n
      <3>1. (left \o right)[i] = right[i - (n - 1)]
        BY <1>1, <1>2, <1>3, <1>4, <2>2
      <3>2. i - (n - 1) \in 1 .. Len(q) - n /\ n + (i - (n - 1)) = i + 1
        BY <1>1, <2>2
      <3>3. right[i - (n - 1)] = q[n + (i - (n - 1))]
        BY <1>3, <3>2
      <3> QED
        BY <1>1, <2>2, <3>1, <3>2, <3>3
    <2>3. i < n \/ i >= n
      BY <1>1
    <2> QED
      BY <2>1, <2>2, <2>3, Zenon
  <1>7. Len(left \o right) = Len(q) - 1
    BY <1>1, <1>2, <1>3, <1>4
  <1> QED
    BY <1>4, <1>5, <1>6, <1>7

-----------------------------------------------------------------------------
(* The invariant. *)

\* At first every permit is in and nobody waits.
LEMMA InitIInv == GatesInit => IInv
  <1> SUFFICES ASSUME GatesInit PROVE IInv
    OBVIOUS
  <1>1. GatesTypeOK
    BY GatesAssumption, EmptySeq DEF GatesInit, GatesTypeOK
  <1>2. \A g \in Gates : Holders(g) = {}
    BY DEF GatesInit, Holders
  <1>3. PermitsConserved
    <2> SUFFICES ASSUME NEW g \in Gates PROVE free[g] + Cardinality(Holders(g)) = Limit
      BY DEF PermitsConserved
    <2>1. Cardinality(Holders(g)) = 0
      BY <1>2, FS_EmptySet
    <2>2. free[g] = Limit
      BY DEF GatesInit
    <2> QED
      BY <2>1, <2>2, GatesAssumption
  <1>4. NobodyWaitsInVain /\ QueuesTrue /\ QueuedOnce
    BY EmptySeq DEF GatesInit, NobodyWaitsInVain, QueuesTrue, QueuedOnce
  <1>5. Placed
    BY DEF GatesInit, Placed
  <1> QED
    BY <1>1, <1>3, <1>4, <1>5 DEF IInv

\* A step that touches no permit and no queue, of a request that has no part
\* in either before or after it.
LEMMA QuietStep ==
    ASSUME IInv, GatesTypeOK', Placed', NEW t \in Tasks,
           UNCHANGED <<free, queue>>,
           stage[t] \notin {"queued", "holding"}, stage'[t] \notin {"queued", "holding"},
           \A u \in Tasks \ {t} : stage'[u] = stage[u] /\ gate'[u] = gate[u]
    PROVE  IInv'
  <1>1. \A g \in Gates : Holders(g)' = Holders(g)
    BY DEF Holders
  <1>2. PermitsConserved'
    BY <1>1 DEF IInv, PermitsConserved
  <1>3. NobodyWaitsInVain' /\ QueuedOnce'
    BY DEF IInv, NobodyWaitsInVain, QueuedOnce
  <1>4. QueuesTrue'
    <2> SUFFICES ASSUME NEW g \in Gates, NEW n \in 1 .. Len(queue[g])
                 PROVE  stage'[queue[g][n]] = "queued" /\ gate'[queue[g][n]] = g
      BY DEF QueuesTrue
    <2>1. queue[g][n] \in Tasks
      BY ElementOfSeq DEF IInv, GatesTypeOK
    <2>2. stage[queue[g][n]] = "queued" /\ gate[queue[g][n]] = g
      BY DEF IInv, QueuesTrue
    <2> QED
      BY <2>1, <2>2
  <1> QED
    BY <1>2, <1>3, <1>4 DEF IInv

\* The use counter is fetched.
LEMMA FetchSeqIInv ==
    ASSUME IInv, NEW t \in Tasks, NEW a \in Authorities, FetchSeq(t, a)
    PROVE  IInv'
  <1>1. (seq + 1) % SeqSize \in 0 .. SeqSize - 1
    BY GatesAssumption DEF IInv, GatesTypeOK
  <1>2. GatesTypeOK'
    BY <1>1 DEF FetchSeq, Goto, IInv, GatesTypeOK
  <1>3. Placed'
    BY DEF FetchSeq, Goto, IInv, GatesTypeOK, Placed
  <1> QED
    BY <1>2, <1>3, QuietStep, Zenon DEF FetchSeq, Goto, IInv, GatesTypeOK

\* A lookup finds its gate, under either lock.
LEMMA FoundIInv ==
    ASSUME IInv, NEW t \in Tasks, stage[t] \in {"looking", "missed"}, Found(t)
    PROVE  IInv'
  <1>1. auth[t] \in Authorities /\ store[auth[t]] \in Gates
    BY DEF Found, IInv, Placed, GatesTypeOK
  <1>2. GatesTypeOK'
    BY <1>1, GatesAssumption DEF Found, Goto, IInv, GatesTypeOK
  <1>3. Placed'
    BY <1>1, GatesAreNumbers DEF Found, Goto, IInv, GatesTypeOK, Placed
  <1> QED
    BY <1>2, <1>3, QuietStep, Zenon DEF Found, Goto, IInv, GatesTypeOK

\* The read lock.
LEMMA ReadLookupIInv ==
    ASSUME IInv, NEW t \in Tasks, ReadLookup(t)
    PROVE  IInv'
  <1>1. CASE Found(t)
    BY <1>1, FoundIInv DEF ReadLookup
  <1>2. CASE ~ Found(t)
    <2>1. /\ stage[t] = "looking" /\ stage' = [stage EXCEPT ![t] = "missed"]
          /\ UNCHANGED <<seq, store, used, free, queue, auth, tick, gate>>
      BY <1>2 DEF ReadLookup, Goto
    <2>2. GatesTypeOK'
      BY <2>1 DEF IInv, GatesTypeOK
    <2>3. Placed'
      BY <2>1 DEF IInv, GatesTypeOK, Placed
    <2> QED
      BY <2>1, <2>2, <2>3, QuietStep, Zenon DEF IInv, GatesTypeOK
  <1> QED
    BY <1>1, <1>2

\* The write lock.  A fresh gate is one nobody holds a permit of or queues at,
\* so its semaphore has every permit in already.
LEMMA WriteLookupIInv ==
    ASSUME IInv, NEW t \in Tasks, WriteLookup(t)
    PROVE  IInv'
  <1>1. CASE Found(t)
    BY <1>1, FoundIInv DEF WriteLookup
  <1>2. CASE ~ Found(t)
    <2> DEFINE g == Unused
               own == auth[t]
    <2>1. /\ stage[t] = "missed" /\ stage' = [stage EXCEPT ![t] = "acquiring"]
          /\ store[own] = None
          /\ free' = [free EXCEPT ![g] = Limit] /\ queue' = [queue EXCEPT ![g] = <<>>]
          /\ gate' = [gate EXCEPT ![t] = g] /\ tick' = [tick EXCEPT ![t] = 0]
          /\ UNCHANGED <<seq, auth>>
          /\ \E victims \in Victims([store EXCEPT ![own] = g], tick[t], own) :
                /\ store' = [x \in Authorities |->
                                CASE x \in victims -> None
                                  [] x = own /\ x \notin victims -> g
                                  [] OTHER -> store[x]]
                /\ used' = [x \in Authorities |->
                                CASE x \in victims -> 0
                                  [] x = own /\ x \notin victims -> tick[t]
                                  [] OTHER -> used[x]]
      BY <1>2, Zenon DEF WriteLookup, Goto
    <2>2. g \in Gates /\ g \notin Live
      BY UnusedIsFree DEF IInv
    <2> HIDE DEF g
    <2>3. Holders(g) = {}
      BY <2>2, GatesAreNumbers DEF Holders, Live
    <2>4. free[g] = Limit
      <3>1. Cardinality(Holders(g)) = 0
        BY <2>3, FS_EmptySet
      <3>2. free[g] + Cardinality(Holders(g)) = Limit /\ free[g] \in 0 .. Limit
        BY <2>2 DEF IInv, GatesTypeOK, PermitsConserved
      <3> QED
        BY <3>1, <3>2, GatesAssumption
    <2>5. queue[g] = <<>>
      <3>1. queue[g] \in Seq(Tasks)
        BY <2>2 DEF IInv, GatesTypeOK
      <3>2. ASSUME queue[g] # <<>> PROVE FALSE
        <4>1. 1 \in 1 .. Len(queue[g]) /\ queue[g][1] \in Tasks
          BY <3>1, <3>2, EmptySeq, LenProperties, ElementOfSeq
        <4>2. gate[queue[g][1]] = g
          BY <2>2, <4>1 DEF IInv, QueuesTrue
        <4> QED
          BY <2>2, <4>1, <4>2, GatesAreNumbers DEF Live
      <3> QED
        BY <3>2
    <2>6. UNCHANGED <<free, queue>>
      BY <2>1, <2>2, <2>4, <2>5 DEF IInv, GatesTypeOK
    <2>7. GatesTypeOK'
      <3>1. store' \in [Authorities -> Gates \cup {None}]
        BY <2>1, <2>2 DEF IInv, GatesTypeOK
      <3>2. used' \in [Authorities -> 0 .. SeqSize - 1]
        BY <2>1, GatesAssumption DEF IInv, GatesTypeOK
      <3> QED
        BY <2>1, <2>2, <2>6, <3>1, <3>2, GatesAssumption DEF IInv, GatesTypeOK
    <2>8. Placed'
      BY <2>1, <2>2, GatesAreNumbers DEF IInv, GatesTypeOK, Placed
    <2> QED
      BY <2>1, <2>6, <2>7, <2>8, QuietStep, Zenon DEF IInv, GatesTypeOK
  <1> QED
    BY <1>1, <1>2

\* A permit is taken, or a place in the queue when none is in.
LEMMA AcquireOwnedIInv ==
    ASSUME IInv, NEW t \in Tasks, AcquireOwned(t), NEW g, g = gate[t]
    PROVE  IInv'
  <1>1. /\ stage[t] = "acquiring" /\ g \in Gates
        /\ UNCHANGED <<seq, store, used, auth, tick, gate>>
    BY DEF AcquireOwned, IInv, GatesTypeOK, Placed
  <1>2. free[g] \in 0 .. Limit /\ Limit \in Nat
    BY <1>1, GatesAssumption DEF IInv, GatesTypeOK
  <1>3. CASE free[g] > 0
    <2>1. /\ free' = [free EXCEPT ![g] = @ - 1] /\ stage' = [stage EXCEPT ![t] = "holding"]
          /\ UNCHANGED queue
      BY <1>2, <1>3 DEF AcquireOwned, Goto
    <2>2. GatesTypeOK'
      BY <1>1, <1>2, <1>3, <2>1 DEF IInv, GatesTypeOK
    <2>3. Holders(g)' = Holders(g) \cup {t} /\ t \notin Holders(g)
      BY <1>1, <2>1 DEF Holders, IInv, GatesTypeOK
    <2>4. \A k \in Gates \ {g} : Holders(k)' = Holders(k) /\ free'[k] = free[k]
      BY <1>1, <2>1 DEF Holders, IInv, GatesTypeOK
    <2>5. PermitsConserved'
      <3>1. Cardinality(Holders(g)') = Cardinality(Holders(g)) + 1
        BY <2>3, HoldersFinite, FS_AddElement
      <3>2. free'[g] = free[g] - 1
        BY <1>1, <2>1 DEF IInv, GatesTypeOK
      <3>3. free'[g] + Cardinality(Holders(g)') = Limit
        BY <1>1, <1>2, <3>1, <3>2, HoldersFinite DEF IInv, PermitsConserved
      <3> QED
        BY <2>4, <3>3 DEF IInv, PermitsConserved
    <2>6. NobodyWaitsInVain' /\ QueuedOnce'
      BY <1>1, <1>2, <1>3, <2>1 DEF IInv, NobodyWaitsInVain, QueuedOnce, GatesTypeOK
    <2>7. QueuesTrue'
      BY <1>1, <2>1, ElementOfSeq DEF IInv, QueuesTrue, GatesTypeOK
    <2>8. Placed'
      BY <1>1, <2>1 DEF IInv, Placed, GatesTypeOK
    <2> QED
      BY <2>2, <2>5, <2>6, <2>7, <2>8 DEF IInv
  <1>4. CASE free[g] = 0
    <2>1. /\ queue' = [queue EXCEPT ![g] = Append(@, t)]
          /\ stage' = [stage EXCEPT ![t] = "queued"]
          /\ UNCHANGED free
      BY <1>2, <1>4 DEF AcquireOwned, Goto
    <2>2. /\ queue[g] \in Seq(Tasks) /\ Len(queue[g]) \in Nat
          /\ queue'[g] = Append(queue[g], t)
          /\ \A k \in Gates \ {g} : queue'[k] = queue[k]
      BY <1>1, <2>1, LenProperties DEF IInv, GatesTypeOK
    <2>3. /\ queue'[g] \in Seq(Tasks) /\ Len(queue'[g]) = Len(queue[g]) + 1
          /\ \A n \in 1 .. Len(queue[g]) : queue'[g][n] = queue[g][n]
          /\ queue'[g][Len(queue[g]) + 1] = t
      BY <2>2, AppendProperties
    <2>4. GatesTypeOK'
      BY <1>1, <2>1, <2>2, <2>3 DEF IInv, GatesTypeOK
    <2>5. \A k \in Gates : Holders(k)' = Holders(k)
      BY <1>1, <2>1 DEF Holders, IInv, GatesTypeOK
    <2>6. PermitsConserved' /\ NobodyWaitsInVain'
      BY <1>4, <2>1, <2>2, <2>5 DEF IInv, PermitsConserved, NobodyWaitsInVain
    <2>7. \A k \in Gates : \A n \in 1 .. Len(queue[k]) :
             queue[k][n] \in Tasks /\ queue[k][n] # t
      BY <1>1, ElementOfSeq DEF IInv, QueuesTrue, GatesTypeOK
    <2>8. QueuesTrue'
      <3> SUFFICES ASSUME NEW k \in Gates, NEW n \in 1 .. Len(queue'[k])
                   PROVE  stage'[queue'[k][n]] = "queued" /\ gate'[queue'[k][n]] = k
        BY DEF QueuesTrue
      <3>1. CASE k # g \/ n <= Len(queue[g])
        <4>1. n \in 1 .. Len(queue[k]) /\ queue'[k][n] = queue[k][n]
          BY <2>2, <2>3, <3>1
        <4> QED
          BY <1>1, <2>1, <2>7, <4>1 DEF IInv, QueuesTrue, GatesTypeOK
      <3>2. CASE k = g /\ n > Len(queue[g])
        <4>1. n = Len(queue[g]) + 1
          BY <2>2, <2>3, <3>2
        <4> QED
          BY <1>1, <2>1, <2>3, <3>2, <4>1 DEF IInv, GatesTypeOK
      <3>3. n <= Len(queue[g]) \/ n > Len(queue[g])
        BY <2>2
      <3> QED
        BY <3>1, <3>2, <3>3
    <2>9. QueuedOnce'
      <3> SUFFICES ASSUME NEW k \in Gates, NEW m \in 1 .. Len(queue'[k]),
                          NEW n \in 1 .. Len(queue'[k]), queue'[k][m] = queue'[k][n]
                   PROVE  m = n
        BY DEF QueuedOnce
      <3>1. CASE k # g
        BY <2>2, <3>1 DEF IInv, QueuedOnce
      <3>2. CASE k = g
        <4>1. m \in 1 .. Len(queue[g]) \/ m = Len(queue[g]) + 1
          BY <2>2, <2>3, <3>2
        <4>2. n \in 1 .. Len(queue[g]) \/ n = Len(queue[g]) + 1
          BY <2>2, <2>3, <3>2
        <4>3. \A i \in 1 .. Len(queue[g]) : queue'[g][i] = queue[g][i] /\ queue'[g][i] # t
          BY <1>1, <2>3, <2>7
        <4>4. CASE m \in 1 .. Len(queue[g]) /\ n \in 1 .. Len(queue[g])
          <5>1. queue[g][m] = queue[g][n]
            BY <3>2, <4>3, <4>4
          <5> QED
            BY <1>1, <4>4, <5>1 DEF IInv, QueuedOnce
        <4>5. CASE m = Len(queue[g]) + 1 \/ n = Len(queue[g]) + 1
          <5>1. queue'[g][m] = t /\ queue'[g][n] = t
            BY <2>3, <3>2, <4>5
          <5> QED
            BY <4>1, <4>2, <4>3, <5>1
        <4> QED
          BY <4>1, <4>2, <4>4, <4>5
      <3> QED
        BY <3>1, <3>2
    <2>10. Placed'
      BY <1>1, <2>1 DEF IInv, Placed, GatesTypeOK
    <2> QED
      BY <2>4, <2>6, <2>8, <2>9, <2>10 DEF IInv
  <1> QED
    BY <1>2, <1>3, <1>4

\* A permit comes back: to the head of the queue, or to the semaphore.
LEMMA ReleaseIInv ==
    ASSUME IInv, NEW t \in Tasks, Release(t), NEW g, g = gate[t]
    PROVE  IInv'
  <1>1. /\ stage[t] = "holding" /\ g \in Gates /\ t \in Holders(g)
        /\ auth' = [auth EXCEPT ![t] = None] /\ gate' = [gate EXCEPT ![t] = None]
        /\ UNCHANGED <<seq, store, used, tick>>
    BY DEF Release, Leave, IInv, GatesTypeOK, Placed, Holders
  <1>2. free[g] \in 0 .. Limit /\ Limit \in Nat /\ free[g] + Cardinality(Holders(g)) = Limit
    BY <1>1, GatesAssumption DEF IInv, GatesTypeOK, PermitsConserved
  <1>3. /\ Cardinality(Holders(g)) \in Nat /\ Cardinality(Holders(g)) # 0
        /\ Cardinality(Holders(g) \ {t}) = Cardinality(Holders(g)) - 1
        /\ IsFiniteSet(Holders(g) \ {t})
    BY <1>1, HoldersFinite, FS_RemoveElement, FS_EmptySet
  <1>4. \A k \in Gates : \A n \in 1 .. Len(queue[k]) :
           queue[k][n] \in Tasks /\ queue[k][n] # t
    BY <1>1, ElementOfSeq DEF IInv, QueuesTrue, GatesTypeOK
  <1>5. CASE queue[g] = <<>>
    <2>1. /\ free' = [free EXCEPT ![g] = @ + 1] /\ stage' = [stage EXCEPT ![t] = "idle"]
          /\ UNCHANGED queue
      BY <1>5 DEF Release, Goto
    <2>2. GatesTypeOK'
      BY <1>1, <1>2, <1>3, <2>1 DEF IInv, GatesTypeOK
    <2>3. Holders(g)' = Holders(g) \ {t}
      BY <1>1, <2>1, GatesAreNumbers DEF Holders, IInv, GatesTypeOK
    <2>4. \A k \in Gates \ {g} : Holders(k)' = Holders(k) /\ free'[k] = free[k]
      BY <1>1, <2>1, GatesAreNumbers DEF Holders, IInv, GatesTypeOK
    <2>5. PermitsConserved'
      <3>1. free'[g] = free[g] + 1
        BY <1>1, <2>1 DEF IInv, GatesTypeOK
      <3>2. free'[g] + Cardinality(Holders(g)') = Limit
        BY <1>2, <1>3, <2>3, <3>1
      <3> QED
        BY <2>4, <3>2 DEF IInv, PermitsConserved
    <2>6. NobodyWaitsInVain' /\ QueuedOnce'
      BY <1>1, <1>5, <2>1, Zenon DEF IInv, NobodyWaitsInVain, QueuedOnce, GatesTypeOK
    <2>7. QueuesTrue'
      BY <1>1, <1>4, <2>1 DEF IInv, QueuesTrue, GatesTypeOK
    <2>8. Placed'
      BY <1>1, <2>1 DEF IInv, Placed, GatesTypeOK
    <2> QED
      BY <2>2, <2>5, <2>6, <2>7, <2>8 DEF IInv
  <1>6. CASE queue[g] # <<>>
    <2>1. /\ queue' = [queue EXCEPT ![g] = Tail(@)]
          /\ stage' = [stage EXCEPT ![t] = "idle", ![Head(queue[g])] = "holding"]
          /\ UNCHANGED free
      BY <1>6 DEF Release
    <2>2. /\ queue[g] \in Seq(Tasks) /\ Len(queue[g]) \in Nat /\ 1 \in 1 .. Len(queue[g])
          /\ queue'[g] = Tail(queue[g])
          /\ \A k \in Gates \ {g} : queue'[k] = queue[k]
      BY <1>1, <1>6, <2>1, LenProperties, EmptySeq DEF IInv, GatesTypeOK
    <2>3. /\ queue'[g] \in Seq(Tasks) /\ Len(queue'[g]) = Len(queue[g]) - 1
          /\ \A n \in 1 .. Len(queue'[g]) : queue'[g][n] = queue[g][n + 1]
          /\ Head(queue[g]) = queue[g][1]
      BY <1>6, <2>2, HeadTailProperties
    <2> DEFINE next == queue[g][1]
    <2>4. next \in Tasks /\ next # t /\ stage[next] = "queued" /\ gate[next] = g
      BY <1>1, <1>4, <2>2 DEF IInv, QueuesTrue
    <2>5. /\ stage'[t] = "idle" /\ stage'[next] = "holding"
          /\ \A u \in Tasks \ {t, next} : stage'[u] = stage[u]
          /\ \A u \in Tasks \ {t} : gate'[u] = gate[u]
          /\ gate'[t] = None
      BY <1>1, <2>1, <2>3, <2>4 DEF IInv, GatesTypeOK
    <2>6. GatesTypeOK'
      <3>1. stage' \in [Tasks -> {"idle", "looking", "missed", "acquiring", "queued", "holding"}]
        BY <2>1, <2>3, <2>4, Zenon DEF IInv, GatesTypeOK
      <3>2. queue' \in [Gates -> Seq(Tasks)]
        BY <1>1, <2>1, <2>2, <2>3 DEF IInv, GatesTypeOK
      <3> QED
        BY <1>1, <2>1, <3>1, <3>2, Zenon DEF IInv, GatesTypeOK
    <2> HIDE DEF next
    <2>7. Holders(g)' = (Holders(g) \ {t}) \cup {next} /\ next \notin Holders(g) \ {t}
      BY <1>1, <2>4, <2>5 DEF Holders
    <2>8. \A k \in Gates \ {g} : Holders(k)' = Holders(k)
      BY <1>1, <2>4, <2>5, GatesAreNumbers DEF Holders
    <2>9. PermitsConserved'
      <3> DEFINE rest == Holders(g) \ {t}
      <3>1. Cardinality(Holders(g)') = Cardinality(Holders(g) \ {t}) + 1
        <4>1. IsFiniteSet(rest) /\ next \notin rest /\ Holders(g)' = rest \cup {next}
          BY <1>3, <2>7
        <4> HIDE DEF rest
        <4>2. Cardinality(rest \cup {next}) = Cardinality(rest) + 1
          BY <4>1, FS_AddElement
        <4> QED
          BY <4>1, <4>2 DEF rest
      <3>2. Cardinality(Holders(g)') = Cardinality(Holders(g))
        BY <1>3, <3>1
      <3>3. free[g] + Cardinality(Holders(g)') = Limit
        BY <1>2, <3>2
      <3> QED
        BY <2>1, <2>8, <3>3 DEF IInv, PermitsConserved
    <2>10. NobodyWaitsInVain'
      BY <1>1, <1>6, <2>1, <2>2 DEF IInv, NobodyWaitsInVain
    <2>11. \A k \in Gates : \A n \in 1 .. Len(queue'[k]) :
              \E m \in 1 .. Len(queue[k]) : queue'[k][n] = queue[k][m] /\ queue[k][m] # next
      <3> SUFFICES ASSUME NEW k \in Gates, NEW n \in 1 .. Len(queue'[k])
                   PROVE  \E m \in 1 .. Len(queue[k]) :
                             queue'[k][n] = queue[k][m] /\ queue[k][m] # next
        OBVIOUS
      <3>1. CASE k = g
        <4>1. n + 1 \in 1 .. Len(queue[g]) /\ n + 1 # 1 /\ queue'[g][n] = queue[g][n + 1]
          <5>1. n \in 1 .. Len(queue[g]) - 1
            BY <2>3, <3>1
          <5> QED
            BY <2>2, <2>3, <5>1
        <4>2. queue[g][n + 1] # queue[g][1]
          BY <1>1, <2>2, <4>1 DEF IInv, QueuedOnce
        <4>3. queue[g][n + 1] # next
          BY <4>2 DEF next
        <4> QED
          BY <3>1, <4>1, <4>3
      <3>2. CASE k # g
        BY <2>2, <2>4, <3>2 DEF IInv, QueuesTrue
      <3> QED
        BY <3>1, <3>2
    <2>12. QueuesTrue'
      <3> SUFFICES ASSUME NEW k \in Gates, NEW n \in 1 .. Len(queue'[k])
                   PROVE  stage'[queue'[k][n]] = "queued" /\ gate'[queue'[k][n]] = k
        BY DEF QueuesTrue
      <3>1. PICK m \in 1 .. Len(queue[k]) : queue'[k][n] = queue[k][m] /\ queue[k][m] # next
        BY <2>11
      <3>2. /\ stage[queue[k][m]] = "queued" /\ gate[queue[k][m]] = k
            /\ queue[k][m] \in Tasks /\ queue[k][m] # t
        BY <1>4 DEF IInv, QueuesTrue
      <3> QED
        BY <2>5, <3>1, <3>2
    <2>13. QueuedOnce'
      <3> SUFFICES ASSUME NEW k \in Gates, NEW m \in 1 .. Len(queue'[k]),
                          NEW n \in 1 .. Len(queue'[k]), queue'[k][m] = queue'[k][n]
                   PROVE  m = n
        BY DEF QueuedOnce
      <3>1. CASE k # g
        BY <2>2, <3>1 DEF IInv, QueuedOnce
      <3>2. CASE k = g
        <4>1. m + 1 \in 1 .. Len(queue[g]) /\ n + 1 \in 1 .. Len(queue[g])
          <5>1. m \in 1 .. Len(queue[g]) - 1 /\ n \in 1 .. Len(queue[g]) - 1
            BY <2>3, <3>2
          <5> QED
            BY <2>2, <5>1
        <4>2. queue[g][m + 1] = queue[g][n + 1]
          BY <2>3, <3>2, Zenon
        <4>3. m + 1 = n + 1
          BY <1>1, <4>1, <4>2 DEF IInv, QueuedOnce
        <4> QED
          BY <2>2, <2>3, <3>2, <4>3
      <3> QED
        BY <3>1, <3>2
    <2>14. Placed'
      BY <1>1, <2>4, <2>5, GatesAreNumbers DEF IInv, Placed, GatesTypeOK
    <2> QED
      BY <2>6, <2>9, <2>10, <2>12, <2>13, <2>14 DEF IInv
  <1> QED
    BY <1>5, <1>6

\* A request leaves the queue it waits in; the others keep their places.
LEMMA CancelIInv ==
    ASSUME IInv, NEW t \in Tasks, Cancel(t), NEW g, g = gate[t]
    PROVE  IInv'
  <1>1. /\ stage[t] = "queued" /\ g \in Gates
        /\ stage' = [stage EXCEPT ![t] = "idle"]
        /\ auth' = [auth EXCEPT ![t] = None] /\ gate' = [gate EXCEPT ![t] = None]
        /\ UNCHANGED <<seq, store, used, free, tick>>
    BY DEF Cancel, Leave, Goto, IInv, GatesTypeOK, Placed
  <1>2. PICK p \in 1 .. Len(queue[g]) :
           queue[g][p] = t /\ queue' = [queue EXCEPT ![g] = RemoveAt(@, p)]
    BY Zenon DEF Cancel
  <1>3. /\ queue[g] \in Seq(Tasks) /\ Len(queue[g]) \in Nat
        /\ queue'[g] = RemoveAt(queue[g], p)
        /\ \A k \in Gates \ {g} : queue'[k] = queue[k]
    BY <1>1, <1>2, LenProperties DEF IInv, GatesTypeOK
  <1>4. /\ queue'[g] \in Seq(Tasks) /\ Len(queue'[g]) = Len(queue[g]) - 1
        /\ \A n \in 1 .. Len(queue[g]) - 1 :
              queue'[g][n] = queue[g][IF n < p THEN n ELSE n + 1]
    BY <1>3, RemoveOne
  <1> DEFINE Was(n) == IF n < p THEN n ELSE n + 1
  <1>5. \A m, n \in 1 .. Len(queue[g]) - 1 :
           /\ Was(n) \in 1 .. Len(queue[g]) /\ Was(n) # p
           /\ Was(m) = Was(n) => m = n
    BY <1>3
  <1>6. \A n \in 1 .. Len(queue'[g]) : queue'[g][n] = queue[g][Was(n)]
    BY <1>4, Zenon
  <1> HIDE DEF Was
  <1>7. GatesTypeOK'
    <2>1. queue' \in [Gates -> Seq(Tasks)]
      BY <1>1, <1>2, <1>3, <1>4 DEF IInv, GatesTypeOK
    <2> QED
      BY <1>1, <2>1 DEF IInv, GatesTypeOK
  <1>8. \A k \in Gates : Holders(k)' = Holders(k)
    BY <1>1, GatesAreNumbers DEF Holders, IInv, GatesTypeOK
  <1>9. PermitsConserved'
    BY <1>1, <1>8 DEF IInv, PermitsConserved
  <1>10. NobodyWaitsInVain'
    <2>1. queue[g] # <<>>
      BY <1>2, EmptySeq
    <2> QED
      BY <1>1, <1>3, <2>1 DEF IInv, NobodyWaitsInVain
  <1>11. QueuesTrue'
    <2> SUFFICES ASSUME NEW k \in Gates, NEW n \in 1 .. Len(queue'[k])
                 PROVE  stage'[queue'[k][n]] = "queued" /\ gate'[queue'[k][n]] = k
      BY DEF QueuesTrue
    <2>1. PICK m \in 1 .. Len(queue[k]) : queue'[k][n] = queue[k][m] /\ queue[k][m] # t
      <3>1. CASE k = g
        <4>1. n \in 1 .. Len(queue[g]) - 1
          BY <1>4, <3>1
        <4>2. Was(n) \in 1 .. Len(queue[g]) /\ Was(n) # p /\ queue'[g][n] = queue[g][Was(n)]
          BY <1>4, <1>5, <1>6, <4>1
        <4>3. queue[g][Was(n)] # queue[g][p]
          BY <1>1, <1>2, <4>2 DEF IInv, QueuedOnce
        <4> QED
          BY <1>2, <3>1, <4>2, <4>3
      <3>2. CASE k # g
        <4>1. queue'[k] = queue[k]
          BY <1>3, <3>2
        <4>2. gate[queue[k][n]] = k
          BY <4>1 DEF IInv, QueuesTrue
        <4> QED
          BY <3>2, <4>1, <4>2
      <3> QED
        BY <3>1, <3>2
    <2>2. stage[queue[k][m]] = "queued" /\ gate[queue[k][m]] = k /\ queue[k][m] \in Tasks
      BY ElementOfSeq DEF IInv, QueuesTrue, GatesTypeOK
    <2> QED
      BY <1>1, <2>1, <2>2, Zenon DEF IInv, GatesTypeOK
  <1>12. QueuedOnce'
    <2> SUFFICES ASSUME NEW k \in Gates, NEW m \in 1 .. Len(queue'[k]),
                        NEW n \in 1 .. Len(queue'[k]), queue'[k][m] = queue'[k][n]
                 PROVE  m = n
      BY DEF QueuedOnce
    <2>1. CASE k # g
      BY <1>3, <2>1 DEF IInv, QueuedOnce
    <2>2. CASE k = g
      <3>1. m \in 1 .. Len(queue[g]) - 1 /\ n \in 1 .. Len(queue[g]) - 1
        BY <1>4, <2>2
      <3>2. queue[g][Was(m)] = queue[g][Was(n)]
        BY <1>6, <2>2
      <3>3. Was(m) = Was(n)
        BY <1>1, <1>5, <3>1, <3>2 DEF IInv, QueuedOnce
      <3> QED
        BY <1>5, <3>1, <3>3
    <2> QED
      BY <2>1, <2>2
  <1>13. Placed'
    BY <1>1 DEF IInv, Placed, GatesTypeOK
  <1> QED
    BY <1>7, <1>9, <1>10, <1>11, <1>12, <1>13 DEF IInv

\* Forgetting an origin takes its gate from the store and from nobody else.
LEMMA ForgetIInv ==
    ASSUME IInv, NEW a \in Authorities, Forget(a)
    PROVE  IInv'
  <1>1. GatesTypeOK'
    BY GatesAssumption DEF Forget, IInv, GatesTypeOK
  <1>2. \A g \in Gates : Holders(g)' = Holders(g)
    BY DEF Forget, Holders
  <1> QED
    BY <1>1, <1>2 DEF Forget, IInv, PermitsConserved, NobodyWaitsInVain, QueuesTrue,
       QueuedOnce, Placed

\* Every step keeps the invariant.
LEMMA NextIInv == IInv /\ [GatesNext]_gateVars => IInv'
  <1> SUFFICES ASSUME IInv, [GatesNext]_gateVars PROVE IInv'
    OBVIOUS
  <1>1. CASE UNCHANGED gateVars
    <2>1. GatesTypeOK' /\ \A g \in Gates : Holders(g)' = Holders(g)
      BY <1>1 DEF gateVars, IInv, GatesTypeOK, Holders
    <2> QED
      BY <1>1, <2>1 DEF gateVars, IInv, PermitsConserved, NobodyWaitsInVain, QueuesTrue,
         QueuedOnce, Placed
  <1>2. CASE Step
    BY <1>2, FetchSeqIInv, ReadLookupIInv, WriteLookupIInv, AcquireOwnedIInv, ReleaseIInv,
       CancelIInv DEF Step
  <1>3. CASE \E a \in Authorities : Forget(a)
    BY <1>3, ForgetIInv
  <1> QED
    BY <1>1, <1>2, <1>3 DEF GatesNext

\* The invariant holds throughout.
LEMMA Invariance == GatesSpec => []IInv
  BY InitIInv, NextIInv, PTL DEF GatesSpec

\* The invariant is about every gate, so it is about those in use.
LEMMA InvariantSuffices == IInv => GateSound
  BY GatesAreNumbers DEF IInv, GateSound, GatesTypeOK, PermitsConserved, NobodyWaitsInVain,
     Live, Remembered

\* Through hand-overs, cancellations, forgetting and eviction, each permit of a
\* semaphore in use is either in or with one holder, so that no gate grants
\* more than its limit, and nobody queues at a gate with a permit in.
THEOREM GatesStaySound == GatesSpec => []GateSound
  BY Invariance, InvariantSuffices, PTL

-----------------------------------------------------------------------------
(* What an insertion does to the store. *)

\* The origins whose entry has a slot out, which evict() passes over.
Busy == {a \in Remembered : Holders(store[a]) # {}}

\* What request t's insertion of gate g for its origin does to the store, when
\* evict() picks the victims v.
Inserted(t, own, g, v) ==
    /\ own = auth[t] /\ store[own] = None
    /\ v \in Victims([store EXCEPT ![own] = g], tick[t], own)
    /\ store' = [x \in Authorities |->
                    IF x \in v THEN None ELSE IF x = own THEN g ELSE store[x]]
    /\ gate'[t] = g

\* A write that finds no entry makes one with a fresh gate, and evicts.
LEMMA InsertionStep ==
    ASSUME IInv, NEW t \in Tasks, WriteLookup(t), ~ Found(t)
    PROVE  \E own \in Authorities, g \in Gates, v \in SUBSET Authorities :
              Inserted(t, own, g, v)
  <1>1. auth[t] \in Authorities /\ stage[t] = "missed"
    BY DEF WriteLookup, IInv, Placed
  <1>2. Unused \in Gates
    BY UnusedIsFree DEF IInv
  <1>3. PICK v \in Victims([store EXCEPT ![auth[t]] = Unused], tick[t], auth[t]) :
           store' = [x \in Authorities |->
                        CASE x \in v -> None
                          [] x = auth[t] /\ x \notin v -> Unused
                          [] OTHER -> store[x]]
    BY Zenon DEF WriteLookup
  <1>4. v \in SUBSET Authorities
    BY DEF Victims, Candidates
  <1>5. store' = [x \in Authorities |->
                     IF x \in v THEN None ELSE IF x = auth[t] THEN Unused ELSE store[x]]
    BY <1>3
  <1>6. store[auth[t]] = None /\ gate'[t] = Unused
    BY DEF WriteLookup, IInv, GatesTypeOK
  <1>7. Inserted(t, auth[t], Unused, v)
    BY <1>3, <1>5, <1>6 DEF Inserted
  <1> QED
    BY <1>1, <1>2, <1>4, <1>7

\* evict() removes candidates only: entries other than the new one, with every
\* permit in.
LEMMA VictimsAreCandidates ==
    ASSUME NEW s, NEW n, NEW protect, NEW v \in Victims(s, n, protect)
    PROVE  v \subseteq Candidates(s, protect)
  BY DEF Victims

\* An entry with every permit in has no holder and no queue.
LEMMA IdleGates ==
    ASSUME IInv, NEW g \in Gates
    PROVE  /\ free[g] = Limit <=> Holders(g) = {}
           /\ free[g] = Limit => queue[g] = <<>>
  <1>1. /\ free[g] \in 0 .. Limit /\ Limit \in Nat /\ Limit # 0
        /\ free[g] + Cardinality(Holders(g)) = Limit
    BY GatesAssumption DEF IInv, GatesTypeOK, PermitsConserved
  <1>2. Cardinality(Holders(g)) \in Nat /\ (Cardinality(Holders(g)) = 0 <=> Holders(g) = {})
    BY HoldersFinite, FS_EmptySet
  <1>3. queue[g] # <<>> => free[g] = 0
    BY DEF IInv, NobodyWaitsInVain
  <1> QED
    BY <1>1, <1>2, <1>3

\* Every step other than a write that finds no entry leaves the store as it is
\* or forgets one origin.
LEMMA OtherSteps ==
    ASSUME IInv, [GatesNext]_gateVars,
           ~ \E t \in Tasks : WriteLookup(t) /\ ~ Found(t)
    PROVE  UNCHANGED store \/ \E a \in Authorities : Forget(a)
  BY Zenon DEF GatesNext, Step, gateVars, FetchSeq, ReadLookup, WriteLookup, Found, AcquireOwned,
     Release, Cancel

\* A step of GatesKept's first part.
LEMMA BusyGatesStep ==
    ASSUME IInv, [GatesNext]_gateVars, NEW a \in Authorities,
           store[a] # None, store'[a] # store[a],
           Holders(store[a]) # {} \/ queue[store[a]] # <<>>
    PROVE  Forget(a)
  <1>1. CASE \E t \in Tasks : WriteLookup(t) /\ ~ Found(t)
    <2>1. PICK t \in Tasks : WriteLookup(t) /\ ~ Found(t)
      BY <1>1
    <2>2. PICK own \in Authorities, g \in Gates, v \in SUBSET Authorities :
             Inserted(t, own, g, v)
      BY <2>1, InsertionStep
    <2>3. a \in v /\ a # own
      BY <2>2 DEF Inserted
    <2>4. a \in Candidates([store EXCEPT ![own] = g], own)
      BY <2>2, <2>3, VictimsAreCandidates DEF Inserted
    <2>5. free[store[a]] = Limit /\ store[a] \in Gates
      BY <2>3, <2>4 DEF Candidates, IInv, GatesTypeOK
    <2>6. Holders(store[a]) = {} /\ queue[store[a]] = <<>>
      BY <2>5, IdleGates
    <2> QED
      BY <2>6
  <1>2. CASE ~ \E t \in Tasks : WriteLookup(t) /\ ~ Found(t)
    <2>1. PICK b \in Authorities : Forget(b)
      BY <1>2, OtherSteps
    <2>2. a = b
      BY <2>1 DEF Forget, IInv, GatesTypeOK
    <2> QED
      BY <2>1, <2>2
  <1> QED
    BY <1>1, <1>2

\* A step of its second part: the newcomer is protected.
LEMMA NewcomerStep ==
    ASSUME IInv, [GatesNext]_gateVars, NEW t \in Tasks,
           stage[t] = "missed", stage'[t] = "acquiring"
    PROVE  store'[auth[t]] = gate'[t]
  <1>1. WriteLookup(t)
    <2>1. ASSUME NEW u \in Tasks, Release(u) PROVE stage'[t] # "acquiring"
      <3>1. gate[u] \in Gates
        BY <2>1 DEF Release, IInv, GatesTypeOK, Placed
      <3> QED
        BY <2>1, <3>1, Zenon DEF Release, Goto, IInv, GatesTypeOK
    <2>2. ASSUME NEW u \in Tasks, NEW a \in Authorities, FetchSeq(u, a)
          PROVE  stage'[t] # "acquiring"
      BY <2>2 DEF FetchSeq, Goto, IInv, GatesTypeOK
    <2>3. ASSUME NEW u \in Tasks, ReadLookup(u) PROVE stage'[t] # "acquiring"
      BY <2>3, Zenon DEF ReadLookup, Found, Goto, IInv, GatesTypeOK
    <2>4. ASSUME NEW u \in Tasks, WriteLookup(u) PROVE u = t
      BY <2>4 DEF WriteLookup, Found, Goto, IInv, GatesTypeOK
    <2>5. ASSUME NEW u \in Tasks, AcquireOwned(u) \/ Cancel(u) PROVE stage'[t] # "acquiring"
      BY <2>5, Zenon DEF AcquireOwned, Cancel, Goto, IInv, GatesTypeOK
    <2>6. ASSUME UNCHANGED gateVars \/ \E a \in Authorities : Forget(a)
          PROVE  stage'[t] # "acquiring"
      BY <2>6 DEF gateVars, Forget
    <2> QED
      BY <2>1, <2>2, <2>3, <2>4, <2>5, <2>6 DEF GatesNext, Step
  <1>2. CASE Found(t)
    BY <1>2 DEF Found, IInv, GatesTypeOK
  <1>3. CASE ~ Found(t)
    <2>1. PICK own \in Authorities, g \in Gates, v \in SUBSET Authorities :
             Inserted(t, own, g, v)
      BY <1>1, <1>3, InsertionStep
    <2>2. own \notin v
      BY <2>1, VictimsAreCandidates DEF Inserted, Candidates
    <2> QED
      BY <2>1, <2>2 DEF Inserted
  <1> QED
    BY <1>2, <1>3

\* The purge target is a positive number within the capacity.
LEMMA PurgeTargetInCapacity == PurgeTarget \in Nat /\ PurgeTarget <= Capacity
  <1>1. Capacity \div 16 \in Nat
    BY GatesAssumption
  <1> QED
    BY <1>1, GatesAssumption DEF PurgeTarget

\* A step of its third part: what is left after a purge fits the capacity, but
\* for the entries with a slot out.
LEMMA BoundedStep ==
    ASSUME IInv, [GatesNext]_gateVars, Cardinality(Remembered') > Cardinality(Remembered)
    PROVE  Cardinality(Remembered') <= Capacity + Cardinality(Busy)
  <1>1. /\ IsFiniteSet(Remembered) /\ IsFiniteSet(Remembered') /\ IsFiniteSet(Busy)
        /\ Cardinality(Remembered) \in Nat /\ Cardinality(Remembered') \in Nat
        /\ Cardinality(Busy) \in Nat
    <2>1. /\ Remembered \in SUBSET Authorities /\ Remembered' \in SUBSET Authorities
          /\ Busy \in SUBSET Authorities
      BY DEF Remembered, Busy
    <2>2. IsFiniteSet(Remembered) /\ IsFiniteSet(Remembered') /\ IsFiniteSet(Busy)
      BY <2>1, GatesAssumption, FS_Subset
    <2> QED
      BY <2>2, FS_CardinalityType
  <1>2. PICK t \in Tasks : WriteLookup(t) /\ ~ Found(t)
    <2> SUFFICES ASSUME ~ \E t \in Tasks : WriteLookup(t) /\ ~ Found(t) PROVE FALSE
      OBVIOUS
    <2>1. Remembered' \in SUBSET Remembered
      BY OtherSteps DEF Remembered, Forget, IInv, GatesTypeOK
    <2>2. Cardinality(Remembered') <= Cardinality(Remembered)
      BY <1>1, <2>1, FS_Subset
    <2> QED
      BY <1>1, <2>2
  <1>3. PICK own \in Authorities, g \in Gates, v \in SUBSET Authorities : Inserted(t, own, g, v)
    BY <1>2, InsertionStep
  <1> DEFINE s == [store EXCEPT ![own] = g]
             entries == {a \in Authorities : s[a] # None}
             cands == Candidates(s, own)
             size == Cardinality(entries)
             spare == Cardinality(cands)
             taken == Cardinality(v)
             left == Cardinality(Remembered')
             kept == Cardinality(Busy)
  <1>4. v \subseteq cands /\ cands \subseteq entries \ {own} /\ own \in entries
    <2>1. v \subseteq cands
      <3>1. v \in Victims(s, tick[t], own)
        BY <1>3 DEF Inserted
      <3> HIDE DEF s
      <3> QED
        BY <3>1, VictimsAreCandidates
    <2>2. cands \subseteq entries \ {own}
      BY DEF Candidates
    <2>3. own \in entries
      BY GatesAreNumbers DEF IInv, GatesTypeOK
    <2> QED
      BY <2>1, <2>2, <2>3, Zenon
  <1>5. Remembered' = entries \ v
    BY <1>3, GatesAreNumbers DEF Inserted, Remembered, IInv, GatesTypeOK
  <1>6. IsFiniteSet(entries) /\ IsFiniteSet(cands) /\ IsFiniteSet(v)
    BY <1>4, GatesAssumption, FS_Subset DEF Candidates
  <1>7. size \in Nat /\ spare \in Nat /\ taken \in Nat
    BY <1>6, FS_CardinalityType
  <1>8. left = size - taken
    <2>1. entries \cap v = v
      BY <1>4, Zenon
    <2> HIDE DEF entries
    <2>2. Cardinality(entries \ v) = Cardinality(entries) - Cardinality(entries \cap v)
      BY <1>6, FS_Difference, Zenon
    <2> QED
      BY <1>5, <2>1, <2>2
  <1>9. \/ size <= Capacity /\ taken = 0
        \/ /\ size > Capacity
           /\ taken = IF size - PurgeTarget <= spare THEN size - PurgeTarget ELSE spare
    <2>1. v \in Victims(s, tick[t], own)
      BY <1>3 DEF Inserted
    <2>2. CASE size <= Capacity
      BY <2>1, <2>2, FS_EmptySet DEF Victims
    <2>3. CASE ~ (size <= Capacity)
      BY <1>7, <2>1, <2>3, GatesAssumption DEF Victims
    <2> QED
      BY <2>2, <2>3
  <1>10. taken = spare => left <= kept + 1
    <2> SUFFICES ASSUME taken = spare PROVE left <= kept + 1
      OBVIOUS
    <2>1. v = cands
      BY <1>4, <1>6, FS_Subset, Zenon
    <2>2. Remembered' \in SUBSET (Busy \cup {own})
      <3> SUFFICES ASSUME NEW a \in entries, a \notin cands, a # own PROVE a \in Busy
        BY <1>5, <2>1, Zenon
      <3>1. store[a] \in Gates /\ a \in Remembered /\ free[store[a]] # Limit
        BY DEF Candidates, Remembered, IInv, GatesTypeOK
      <3> QED
        BY <3>1, IdleGates DEF Busy
    <2>3. /\ IsFiniteSet(Busy \cup {own}) /\ Cardinality(Busy \cup {own}) \in Nat
          /\ Cardinality(Busy \cup {own}) <= kept + 1
      <3>1. /\ IsFiniteSet(Busy \cup {own})
            /\ Cardinality(Busy \cup {own}) = IF own \in Busy THEN kept ELSE kept + 1
        BY <1>1, FS_AddElement
      <3>2. Cardinality(Busy \cup {own}) \in Nat
        BY <3>1, FS_CardinalityType
      <3> QED
        BY <1>1, <3>1, <3>2
    <2>4. left <= Cardinality(Busy \cup {own})
      BY <2>2, <2>3, FS_Subset
    <2> QED
      BY <1>1, <2>3, <2>4
  <1> HIDE DEF size, spare, taken, left, kept
  <1>11. left \in Nat /\ kept \in Nat
    BY <1>1 DEF left, kept
  <1>12. left <= Capacity + kept
    BY <1>7, <1>8, <1>9, <1>10, <1>11, PurgeTargetInCapacity, GatesAssumption
  <1> QED
    BY <1>12 DEF left, kept

\* No insertion evicts a gate somebody holds a slot of or queues at, the
\* newcomer survives the eviction it triggers, and what an insertion leaves is
\* within the capacity but for the origins with a request in flight.
THEOREM GatesStayKept == GatesSpec => GatesKept
  <1>1. IInv /\ [GatesNext]_gateVars =>
           \A a \in Authorities :
              /\ store[a] # None /\ store'[a] # store[a]
              /\ Holders(store[a]) # {} \/ queue[store[a]] # <<>>
              => Forget(a)
    BY BusyGatesStep
  <1>2. IInv /\ [GatesNext]_gateVars =>
           \A t \in Tasks :
              stage[t] = "missed" /\ stage'[t] = "acquiring" => store'[auth[t]] = gate'[t]
    BY NewcomerStep
  <1>3. IInv /\ [GatesNext]_gateVars =>
           LET busy == {a \in Remembered : Holders(store[a]) # {}}
           IN  Cardinality(Remembered') > Cardinality(Remembered)
                  => Cardinality(Remembered') <= Capacity + Cardinality(busy)
    BY BoundedStep DEF Busy
  <1> QED
    BY <1>1, <1>2, <1>3, Invariance, PTL
       DEF GatesSpec, GatesKept, BusyGatesKept, NewcomerKept, StoreBounded
=============================================================================
