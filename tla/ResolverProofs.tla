--------------------------- MODULE ResolverProofs ---------------------------
(***************************************************************************)
(* Proofs about CachingResolver, for any number of callers, hosts and      *)
(* lookups and any lifetimes: the map of slots stays sound, and the        *)
(* resolver implements SingleFlight.                                       *)
(***************************************************************************)
EXTENDS CachingResolver, TLAPS, FiniteSetTheorems

-----------------------------------------------------------------------------
(* The inductive invariant.  MarkersMatch says where the marker of a live  *)
(* lookup is; a caller that joins needs the converse, that no other host's *)
(* slot points to it: markers outlive their lookups, and a new lookup must *)
(* not inherit one.  And a caller between its two steps asks for a host.   *)

MarkersTrue == \A h \in Hosts, l \in Live : slots[h] = InFlight(l) => target[l] = h

Asking == \A c \in Callers : pc[c] = "locking" => asked[c] \in Hosts

IInv == LookupsSound /\ MarkersTrue /\ Asking

-----------------------------------------------------------------------------
(* Slots. *)

\* The three kinds of slot are told apart by their kind, and by their lookup.
LEMMA SlotKinds ==
    /\ \A l : InFlight(l).kind = "in_flight" /\ InFlight(l).lookup = l
    /\ \A l : InFlight(l) # Absent
    /\ \A t : Cached(t).kind = "cached" /\ Cached(t).expires_at = t /\ Cached(t) # Absent
    /\ \A l, m : InFlight(l) = InFlight(m) => l = m
    /\ \A l, t : InFlight(l) # Cached(t)
    /\ Absent.kind = "absent"
  BY DEF InFlight, Cached, Absent

\* Each of them is a Slot.
LEMMA SlotTypes ==
    /\ IsSlot(Absent)
    /\ \A l \in Lookups : IsSlot(InFlight(l))
    /\ \A t \in Nat : IsSlot(Cached(t))
  BY SlotKinds DEF IsSlot

\* Any set of hosts is finite, and so is the count of the occupied ones.
LEMMA OccupiedFinite ==
    ASSUME NEW s
    PROVE  IsFiniteSet(Occupied(s)) /\ Cardinality(Occupied(s)) \in Nat
  <1>1. Occupied(s) \in SUBSET Hosts
    BY DEF Occupied
  <1>2. IsFiniteSet(Occupied(s))
    BY <1>1, ResolverAssumption, FS_Subset
  <1> QED
    BY <1>2, FS_CardinalityType

\* The threshold a sweep leaves is a size the map has not outgrown, with room
\* for one marker more.
LEMMA SweepLeavesRoom ==
    ASSUME NEW s
    PROVE  /\ SweepAt(s) \in Nat
           /\ Cardinality(Occupied(s)) + 1 <= SweepAt(s)
  BY OccupiedFinite, ResolverAssumption DEF SweepAt

\* Filling one host's slot adds at most that host to the occupied ones.
LEMMA OccupiedByOne ==
    ASSUME NEW s, DOMAIN s = Hosts, NEW h \in Hosts, NEW slot
    PROVE  Cardinality(Occupied([s EXCEPT ![h] = slot])) <= Cardinality(Occupied(s)) + 1
  <1> DEFINE new == Occupied([s EXCEPT ![h] = slot])
  <1>1. new \in SUBSET (Occupied(s) \cup {h})
    BY DEF Occupied
  <1>2. /\ IsFiniteSet(Occupied(s) \cup {h})
        /\ Cardinality(Occupied(s) \cup {h}) <= Cardinality(Occupied(s)) + 1
    BY OccupiedFinite, FS_AddElement
  <1>3. Cardinality(new) <= Cardinality(Occupied(s) \cup {h})
    BY <1>1, <1>2, FS_Subset
  <1>4. Cardinality(new) \in Nat /\ Cardinality(Occupied(s)) \in Nat
    BY OccupiedFinite
  <1>5. Cardinality(Occupied(s) \cup {h}) \in Nat
    BY <1>2, FS_CardinalityType
  <1>6. Cardinality(new) <= Cardinality(Occupied(s)) + 1
    <2> HIDE DEF new
    <2> QED
      BY <1>2, <1>3, <1>4, <1>5
  <1> QED
    BY <1>6

\* A sweep leaves slots, keeps the marker of every live lookup and puts
\* nothing new in the map.
LEMMA SweepKeepsMarkers ==
    ASSUME NEW s, DOMAIN s = Hosts, \A h \in Hosts : IsSlot(s[h]), NEW t
    PROVE  /\ DOMAIN Swept(s, t) = Hosts
           /\ \A h \in Hosts : IsSlot(Swept(s, t)[h])
           /\ \A h \in Hosts, l \in Live :
                 s[h] = InFlight(l) => Swept(s, t)[h] = InFlight(l)
           /\ \A h \in Hosts : Swept(s, t)[h] \in {s[h], Absent}
  BY SlotTypes, SlotKinds DEF Swept, Kept

-----------------------------------------------------------------------------
(* The invariant. *)

\* At first nobody asks, nothing is looked up and the map is empty.
LEMMA InitIInv == Init => IInv
  <1> SUFFICES ASSUME Init PROVE IInv
    OBVIOUS
  <1>1. TypeOK
    BY ResolverAssumption, SlotTypes DEF Init, TypeOK
  <1>2. MarkersMatch /\ MarkersTrue /\ NobodyStranded /\ Asking
    BY DEF Init, MarkersMatch, MarkersTrue, NobodyStranded, Asking, Live
  <1>3. MapBounded
    <2>1. Occupied(slots) = {}
      BY DEF Init, Occupied
    <2> QED
      BY <2>1, FS_EmptySet, ResolverAssumption DEF Init, MapBounded
  <1> QED
    BY <1>1, <1>2, <1>3 DEF IInv, LookupsSound

\* A step that leaves the map and the lookups alone, and takes no caller to or
\* from waiting, has only the types and the callers to answer for.
LEMMA CallerStep ==
    ASSUME IInv, UNCHANGED <<slots, sweep_at, target, asked, joined, pc>>
    PROVE  MarkersMatch' /\ MarkersTrue' /\ NobodyStranded' /\ MapBounded' /\ Asking'
  BY DEF IInv, LookupsSound, MarkersMatch, MarkersTrue, NobodyStranded, MapBounded, Asking, Live, Waiters,
         Occupied

\* The clock moves: nothing is decided.
LEMMA TickIInv == IInv /\ Tick => IInv'
  <1> SUFFICES ASSUME IInv, Tick PROVE IInv'
    OBVIOUS
  <1>1. TypeOK'
    BY DEF Tick, IInv, LookupsSound, TypeOK
  <1> QED
    BY <1>1, CallerStep DEF Tick, IInv, LookupsSound

\* A caller that asks was not waiting.
LEMMA AskIInv ==
    ASSUME IInv, NEW c \in Callers, NEW h \in Hosts, Ask(c, h)
    PROVE  IInv'
  <1>1. TypeOK'
    BY DEF Ask, IInv, LookupsSound, TypeOK
  <1>2. \A d \in Callers : pc'[d] = "waiting" <=> pc[d] = "waiting"
    BY DEF Ask, IInv, LookupsSound, TypeOK
  <1>3. MarkersMatch' /\ MarkersTrue' /\ MapBounded'
    BY DEF Ask, IInv, LookupsSound, MarkersMatch, MarkersTrue, MapBounded, Live, Occupied
  <1>4. NobodyStranded'
    BY <1>2 DEF Ask, IInv, LookupsSound, TypeOK, NobodyStranded, Live, Waiters
  <1>5. Asking'
    BY DEF Ask, IInv, LookupsSound, TypeOK, Asking
  <1> QED
    BY <1>1, <1>3, <1>4, <1>5 DEF IInv, LookupsSound

\* A cached answer sends the caller away; it was not waiting.
LEMMA UseCachedIInv ==
    ASSUME IInv, NEW c \in Callers, UseCached(c)
    PROVE  IInv'
  <1>1. TypeOK'
    BY DEF UseCached, Done, IInv, LookupsSound, TypeOK
  <1>2. \A d \in Callers : pc'[d] = "waiting" <=> pc[d] = "waiting"
    BY DEF UseCached, Done, IInv, LookupsSound, TypeOK
  <1>3. \A d \in Callers : pc[d] = "waiting" => asked'[d] = asked[d] /\ joined'[d] = joined[d]
    BY DEF UseCached, Done, IInv, LookupsSound, TypeOK
  <1>4. MarkersMatch' /\ MarkersTrue' /\ MapBounded'
    BY DEF UseCached, IInv, LookupsSound, MarkersMatch, MarkersTrue, MapBounded, Live, Occupied
  <1>5. NobodyStranded'
    BY <1>2, <1>3 DEF UseCached, IInv, LookupsSound, NobodyStranded, Live, Waiters
  <1>6. Asking'
    BY DEF UseCached, Done, IInv, LookupsSound, TypeOK, Asking
  <1> QED
    BY <1>1, <1>4, <1>5, <1>6 DEF IInv, LookupsSound

\* A caller joins the live lookup its host's slot points to, which by
\* MarkersTrue resolves that host.
LEMMA JoinLookupIInv ==
    ASSUME IInv, NEW c \in Callers, JoinLookup(c)
    PROVE  IInv'
  <1> DEFINE l == slots[asked[c]].lookup
  <1>1. /\ pc[c] = "locking" /\ asked[c] \in Hosts /\ l \in Live /\ l \in Lookups
        /\ slots[asked[c]] = InFlight(l)
    BY SlotKinds DEF JoinLookup, IInv, LookupsSound, TypeOK, Asking, IsSlot, Live
  <1>2. target[l] = asked[c]
    BY <1>1 DEF IInv, MarkersTrue
  <1>3. /\ pc' = [pc EXCEPT ![c] = "waiting"] /\ joined' = [joined EXCEPT ![c] = l]
        /\ at' = [at EXCEPT ![c] = 0]
        /\ UNCHANGED <<now, slots, sweep_at, target, landed, asked>>
    BY DEF JoinLookup, Await
  <1> HIDE DEF l
  <1>4. TypeOK'
    BY <1>1, <1>3 DEF IInv, LookupsSound, TypeOK
  <1>5. MarkersMatch' /\ MarkersTrue' /\ MapBounded'
    BY <1>3 DEF IInv, LookupsSound, MarkersMatch, MarkersTrue, MapBounded, Live, Occupied
  <1>6. NobodyStranded'
    <2>1. ASSUME NEW d \in Callers, pc'[d] = "waiting"
          PROVE  joined'[d] \in Live' /\ target'[joined'[d]] = asked'[d]
      BY <1>1, <1>2, <1>3, <2>1 DEF IInv, LookupsSound, TypeOK, NobodyStranded, Live
    <2>2. ASSUME NEW m \in Live'
          PROVE  Waiters(m)' # {}
      <3>1. PICK d \in Callers : pc[d] = "waiting" /\ joined[d] = m
        BY <1>3, <2>2 DEF IInv, LookupsSound, NobodyStranded, Live, Waiters
      <3>2. pc'[d] = "waiting" /\ joined'[d] = m
        BY <1>1, <1>3, <3>1 DEF IInv, LookupsSound, TypeOK
      <3> QED
        BY <3>2 DEF Waiters
    <2> QED
      BY <2>1, <2>2 DEF NobodyStranded
  <1>7. Asking'
    BY <1>3 DEF IInv, LookupsSound, TypeOK, Asking
  <1> QED
    BY <1>4, <1>5, <1>6, <1>7 DEF IInv, LookupsSound

\* A lookup is started with a number no slot holds; a sweep before it keeps the
\* markers of the others.
LEMMA StartLookupIInv ==
    ASSUME IInv, NEW c \in Callers, StartLookup(c)
    PROVE  IInv'
  <1> DEFINE h == asked[c]
             l == CHOOSE l \in Unused : TRUE
             due == Cardinality(Occupied(slots)) >= sweep_at
             swept == IF due THEN Swept(slots, at[c]) ELSE slots
  <1>1. /\ pc[c] = "locking" /\ h \in Hosts
        /\ ~(slots[h].kind = "in_flight" /\ slots[h].lookup \in Live)
    BY DEF StartLookup, IInv, Asking
  <1>2. l \in Unused
    BY DEF StartLookup
  <1>3. l \in Lookups /\ target[l] = None /\ \A g \in Hosts : slots[g] # InFlight(l)
    BY <1>2 DEF Unused, Live
  <1>4. /\ pc' = [pc EXCEPT ![c] = "waiting"] /\ joined' = [joined EXCEPT ![c] = l]
        /\ at' = [at EXCEPT ![c] = 0]
        /\ target' = [target EXCEPT ![l] = h]
        /\ slots' = [swept EXCEPT ![h] = InFlight(l)]
        /\ sweep_at' = IF due THEN SweepAt(swept) ELSE sweep_at
        /\ UNCHANGED <<now, landed, asked>>
    BY DEF StartLookup, Await
  <1>5. /\ DOMAIN swept = Hosts
        /\ \A g \in Hosts : IsSlot(swept[g]) /\ swept[g] \in {slots[g], Absent}
        /\ \A g \in Hosts, m \in Live : slots[g] = InFlight(m) => swept[g] = InFlight(m)
    <2>1. DOMAIN slots = Hosts /\ \A g \in Hosts : IsSlot(slots[g])
      BY DEF IInv, LookupsSound, TypeOK
    <2>2. CASE due
      BY <2>1, <2>2, SweepKeepsMarkers
    <2>3. CASE ~due
      BY <2>1, <2>3
    <2> QED
      BY <2>2, <2>3
  <1>6. Cardinality(Occupied(slots')) <= sweep_at' /\ sweep_at' \in Nat
    <2>1. Cardinality(Occupied(slots')) <= Cardinality(Occupied(swept)) + 1
      BY <1>1, <1>4, <1>5, OccupiedByOne, Zenon
    <2>2. /\ Cardinality(Occupied(slots)) \in Nat /\ Cardinality(Occupied(slots')) \in Nat
          /\ Cardinality(Occupied(swept)) \in Nat
      BY OccupiedFinite
    <2>3. sweep_at \in Nat
      BY DEF IInv, LookupsSound, TypeOK
    <2>4. CASE due
      <3>1. /\ SweepAt(swept) \in Nat
            /\ Cardinality(Occupied(swept)) + 1 <= SweepAt(swept)
        BY SweepLeavesRoom
      <3>2. sweep_at' = SweepAt(swept)
        BY <1>4, <2>4
      <3> HIDE DEF swept, due
      <3> QED
        BY <2>1, <2>2, <3>1, <3>2
    <2>5. CASE ~due
      BY <1>4, <2>1, <2>2, <2>3, <2>5
    <2> QED
      BY <2>4, <2>5
  <1> HIDE DEF h, l, swept, due
  <1>7. TypeOK'
    <2>1. DOMAIN slots' = Hosts /\ \A g \in Hosts : IsSlot(slots'[g])
      BY <1>1, <1>3, <1>4, <1>5, SlotTypes
    <2> QED
      BY <1>1, <1>3, <1>4, <1>6, <2>1 DEF IInv, LookupsSound, TypeOK
  <1>8. Live' = Live \cup {l} /\ \A m \in Live : m # l /\ target'[m] = target[m]
    BY <1>1, <1>3, <1>4, ResolverAssumption DEF IInv, LookupsSound, TypeOK, Live
  <1>9. MarkersMatch'
    <2> SUFFICES ASSUME NEW m \in Live' PROVE slots'[target'[m]] = InFlight(m)
      BY DEF MarkersMatch
    <2>1. CASE m = l
      BY <1>1, <1>3, <1>4, <1>5, <2>1 DEF IInv, LookupsSound, TypeOK
    <2>2. CASE m # l
      <3>1. m \in Live /\ target'[m] = target[m] /\ target[m] \in Hosts
        BY <1>8, <2>2 DEF IInv, LookupsSound, TypeOK, Live
      <3>2. slots[target[m]] = InFlight(m)
        BY <3>1 DEF IInv, LookupsSound, MarkersMatch
      <3>3. target[m] # h
        BY <1>1, <3>1, <3>2, SlotKinds
      <3> QED
        BY <1>4, <1>5, <3>1, <3>2, <3>3
    <2> QED
      BY <2>1, <2>2
  <1>10. MarkersTrue'
    <2> SUFFICES ASSUME NEW g \in Hosts, NEW m \in Live', slots'[g] = InFlight(m)
                 PROVE  target'[m] = g
      BY DEF MarkersTrue
    <2>1. CASE g = h
      BY <1>1, <1>3, <1>4, <1>5, <2>1, SlotKinds DEF IInv, LookupsSound, TypeOK
    <2>2. CASE g # h
      <3>1. slots[g] = InFlight(m)
        BY <1>4, <1>5, <2>2, SlotKinds
      <3>2. m \in Live
        BY <1>3, <1>8, <3>1
      <3> QED
        BY <1>8, <3>1, <3>2 DEF IInv, MarkersTrue
    <2> QED
      BY <2>1, <2>2
  <1>11. NobodyStranded'
    <2>1. ASSUME NEW d \in Callers, pc'[d] = "waiting"
          PROVE  joined'[d] \in Live' /\ target'[joined'[d]] = asked'[d]
      <3>1. CASE d = c
        BY <1>3, <1>4, <1>8, <3>1 DEF h, IInv, LookupsSound, TypeOK
      <3>2. CASE d # c
        <4>1. pc[d] = "waiting" /\ joined'[d] = joined[d] /\ asked'[d] = asked[d]
          BY <1>4, <2>1, <3>2 DEF IInv, LookupsSound, TypeOK
        <4>2. joined[d] \in Live /\ target[joined[d]] = asked[d]
          BY <4>1 DEF IInv, LookupsSound, NobodyStranded
        <4> QED
          BY <1>8, <4>1, <4>2
      <3> QED
        BY <3>1, <3>2
    <2>2. ASSUME NEW m \in Live'
          PROVE  Waiters(m)' # {}
      <3>1. CASE m = l
        <4>1. pc'[c] = "waiting" /\ joined'[c] = l
          BY <1>4 DEF IInv, LookupsSound, TypeOK
        <4> QED
          BY <3>1, <4>1 DEF Waiters
      <3>2. CASE m # l
        <4>1. PICK d \in Callers : pc[d] = "waiting" /\ joined[d] = m
          BY <1>8, <2>2, <3>2 DEF IInv, LookupsSound, NobodyStranded, Waiters
        <4>2. pc'[d] = "waiting" /\ joined'[d] = m
          BY <1>1, <1>4, <4>1 DEF IInv, LookupsSound, TypeOK
        <4> QED
          BY <4>2 DEF Waiters
      <3> QED
        BY <3>1, <3>2
    <2> QED
      BY <2>1, <2>2 DEF NobodyStranded
  <1>12. Asking'
    BY <1>4 DEF IInv, LookupsSound, TypeOK, Asking
  <1> QED
    BY <1>6, <1>7, <1>9, <1>10, <1>11, <1>12 DEF IInv, LookupsSound, MapBounded

\* A lookup lands: the clock it reads is for its outcome only.
LEMMA LandIInv ==
    ASSUME IInv, NEW l \in Lookups, Land(l)
    PROVE  IInv'
  <1>1. TypeOK'
    BY ResolverAssumption DEF Land, IInv, LookupsSound, TypeOK
  <1> QED
    BY <1>1, CallerStep DEF Land, IInv, LookupsSound

\* A lookup settles: its host's slot holds an answer, or nothing if the answer
\* has expired by then, and everyone who waited for it is gone.
LEMMA SettleIInv ==
    ASSUME IInv, NEW l \in Lookups, Settle(l)
    PROVE  IInv'
  <1> DEFINE h == target[l]
             filled == [slots EXCEPT ![h] = Cached(landed[l].expires_at)]
             swept == Swept(filled, landed[l].at)
  <1>1. l \in Live /\ h \in Hosts /\ slots[h] = InFlight(l)
    BY DEF Settle, IInv, LookupsSound, TypeOK, MarkersMatch, Live
  <1>2. landed[l].expires_at \in Nat
    BY DEF Settle, IInv, LookupsSound, TypeOK
  <1>3. /\ slots' = swept /\ sweep_at' = SweepAt(swept)
        /\ target' = [target EXCEPT ![l] = None]
        /\ landed' = [landed EXCEPT ![l] = None]
        /\ pc' = [c \in Callers |-> IF c \in Waiters(l) THEN "idle" ELSE pc[c]]
        /\ asked' = [c \in Callers |-> IF c \in Waiters(l) THEN None ELSE asked[c]]
        /\ joined' = [c \in Callers |-> IF c \in Waiters(l) THEN None ELSE joined[c]]
        /\ UNCHANGED <<now, at>>
    BY DEF Settle
  <1>4. DOMAIN filled = Hosts /\ \A g \in Hosts : IsSlot(filled[g])
    BY <1>1, <1>2, SlotTypes DEF IInv, LookupsSound, TypeOK
  <1>5. /\ DOMAIN swept = Hosts
        /\ \A g \in Hosts : IsSlot(swept[g]) /\ swept[g] \in {filled[g], Absent}
        /\ \A g \in Hosts, m \in Live : filled[g] = InFlight(m) => swept[g] = InFlight(m)
    <2> HIDE DEF filled
    <2> QED
      BY <1>4, SweepKeepsMarkers DEF swept
  <1>6. MapBounded' /\ sweep_at' \in Nat
    <2>1. /\ SweepAt(swept) \in Nat
          /\ Cardinality(Occupied(swept)) + 1 <= SweepAt(swept)
      BY SweepLeavesRoom
    <2>2. Cardinality(Occupied(swept)) \in Nat
      BY OccupiedFinite
    <2>3. Occupied(slots)' = Occupied(swept)
      BY <1>3 DEF Occupied
    <2> HIDE DEF swept
    <2> QED
      BY <1>3, <2>1, <2>2, <2>3 DEF MapBounded
  <1>7. \A g \in Hosts : g # h => filled[g] = slots[g]
    BY DEF IInv, LookupsSound, TypeOK
  <1>8. filled[h] = Cached(landed[l].expires_at)
    BY <1>1 DEF IInv, LookupsSound, TypeOK
  <1> HIDE DEF h, filled, swept
  <1>9. TypeOK'
    BY <1>3, <1>5, <1>6, ResolverAssumption DEF IInv, LookupsSound, TypeOK
  <1>10. Live' = Live \ {l} /\ \A m \in Live' : target'[m] = target[m]
    BY <1>3 DEF IInv, LookupsSound, TypeOK, Live
  <1>11. MarkersMatch'
    <2> SUFFICES ASSUME NEW m \in Live' PROVE slots'[target'[m]] = InFlight(m)
      BY DEF MarkersMatch
    <2>1. m \in Live /\ m # l /\ target'[m] = target[m] /\ target[m] \in Hosts
      BY <1>10 DEF IInv, LookupsSound, TypeOK, Live
    <2>2. slots[target[m]] = InFlight(m)
      BY <2>1 DEF IInv, LookupsSound, MarkersMatch
    <2>3. target[m] # h
      BY <1>1, <2>1, <2>2, SlotKinds
    <2> QED
      BY <1>3, <1>5, <1>7, <2>1, <2>2, <2>3
  <1>12. MarkersTrue'
    <2> SUFFICES ASSUME NEW g \in Hosts, NEW m \in Live', slots'[g] = InFlight(m)
                 PROVE  target'[m] = g
      BY DEF MarkersTrue
    <2>1. filled[g] = InFlight(m)
      BY <1>3, <1>5, SlotKinds
    <2>2. slots[g] = InFlight(m)
      BY <1>7, <1>8, <2>1, SlotKinds
    <2> QED
      BY <1>10, <2>2 DEF IInv, MarkersTrue
  <1>13. NobodyStranded'
    <2>1. ASSUME NEW d \in Callers, pc'[d] = "waiting"
          PROVE  joined'[d] \in Live' /\ target'[joined'[d]] = asked'[d]
      <3>1. /\ pc[d] = "waiting" /\ joined[d] # l
            /\ joined'[d] = joined[d] /\ asked'[d] = asked[d]
        BY <1>3, <2>1 DEF Waiters
      <3>2. joined[d] \in Live /\ target[joined[d]] = asked[d]
        BY <3>1 DEF IInv, LookupsSound, NobodyStranded
      <3> QED
        BY <1>10, <3>1, <3>2
    <2>2. ASSUME NEW m \in Live'
          PROVE  Waiters(m)' # {}
      <3>1. PICK d \in Callers : pc[d] = "waiting" /\ joined[d] = m
        BY <1>10, <2>2 DEF IInv, LookupsSound, NobodyStranded, Waiters
      <3>2. pc'[d] = "waiting" /\ joined'[d] = m
        BY <1>3, <1>10, <2>2, <3>1 DEF Waiters
      <3> QED
        BY <3>2 DEF Waiters
    <2> QED
      BY <2>1, <2>2 DEF NobodyStranded
  <1>14. Asking'
    BY <1>3 DEF Waiters, IInv, Asking
  <1> QED
    BY <1>6, <1>9, <1>11, <1>12, <1>13, <1>14 DEF IInv, LookupsSound

\* A caller walks away: the lookup goes with its last caller, and its marker
\* stays behind without a live lookup.
LEMMA CancelIInv ==
    ASSUME IInv, NEW c \in Callers, Cancel(c)
    PROVE  IInv'
  <1> DEFINE l == joined[c]
  <1>1. pc[c] = "waiting" /\ l \in Live /\ l \in Lookups
    BY DEF Cancel, IInv, LookupsSound, NobodyStranded, Live
  <1>2. /\ pc' = [pc EXCEPT ![c] = "idle"] /\ asked' = [asked EXCEPT ![c] = None]
        /\ at' = [at EXCEPT ![c] = 0] /\ joined' = [joined EXCEPT ![c] = None]
        /\ target' = [target EXCEPT ![l] = IF Waiters(l) = {c} THEN None ELSE @]
        /\ UNCHANGED <<now, slots, sweep_at, landed>>
    BY DEF Cancel, Done
  <1> HIDE DEF l
  <1>3. TypeOK'
    BY <1>1, <1>2 DEF IInv, LookupsSound, TypeOK
  <1>4. /\ Live' \subseteq Live
        /\ \A m \in Live' : target'[m] = target[m]
        /\ \A m \in Live : m # l => m \in Live'
        /\ l \in Live' <=> Waiters(l) # {c}
    BY <1>1, <1>2 DEF IInv, LookupsSound, TypeOK, Live
  <1>5. MarkersMatch' /\ MarkersTrue' /\ MapBounded'
    BY <1>2, <1>4 DEF IInv, LookupsSound, MarkersMatch, MarkersTrue, MapBounded, Occupied
  <1>6. NobodyStranded'
    <2>1. ASSUME NEW d \in Callers, pc'[d] = "waiting"
          PROVE  joined'[d] \in Live' /\ target'[joined'[d]] = asked'[d]
      <3>1. d # c /\ pc[d] = "waiting" /\ joined'[d] = joined[d] /\ asked'[d] = asked[d]
        BY <1>2, <2>1 DEF IInv, LookupsSound, TypeOK
      <3>2. joined[d] \in Live /\ target[joined[d]] = asked[d]
        BY <3>1 DEF IInv, LookupsSound, NobodyStranded
      <3>3. joined[d] = l => Waiters(l) # {c}
        BY <3>1 DEF Waiters
      <3> QED
        BY <1>4, <3>1, <3>2, <3>3
    <2>2. ASSUME NEW m \in Live'
          PROVE  Waiters(m)' # {}
      <3>1. Waiters(m) # {} /\ Waiters(m) # {c}
        BY <1>1, <1>4, <2>2 DEF IInv, LookupsSound, NobodyStranded, Waiters, l
      <3>2. PICK d \in Waiters(m) : d # c
        BY <3>1
      <3>3. pc'[d] = "waiting" /\ joined'[d] = m
        BY <1>2, <3>2 DEF Waiters, IInv, LookupsSound, TypeOK
      <3> QED
        BY <3>2, <3>3 DEF Waiters
    <2> QED
      BY <2>1, <2>2 DEF NobodyStranded
  <1>7. Asking'
    BY <1>2 DEF IInv, LookupsSound, TypeOK, Asking
  <1> QED
    BY <1>3, <1>5, <1>6, <1>7 DEF IInv, LookupsSound

\* Every step of the resolver keeps the invariant.
LEMMA NextIInv == IInv /\ [Next]_vars => IInv'
  <1> SUFFICES ASSUME IInv, [Next]_vars PROVE IInv'
    OBVIOUS
  <1>1. CASE UNCHANGED vars
    <2>1. TypeOK'
      BY <1>1 DEF vars, IInv, LookupsSound, TypeOK
    <2> QED
      BY <1>1, <2>1, CallerStep DEF vars, IInv, LookupsSound
  <1>2. CASE Next
    BY <1>2, TickIInv, AskIInv, UseCachedIInv, JoinLookupIInv, StartLookupIInv, CancelIInv,
       LandIInv, SettleIInv DEF Next
  <1> QED
    BY <1>1, <1>2

\* The invariant holds throughout.
LEMMA Invariance == Spec => []IInv
  BY InitIInv, NextIInv, PTL DEF Spec

\* Whoever asks, sweeps, settles or walks away: a lookup under way is the one
\* its host's slot points to, nobody waits for a lookup that is gone, no lookup
\* runs for nobody, and the map does not outgrow its next sweep.
THEOREM LookupsStaySound == Spec => []LookupsSound
  BY Invariance, PTL DEF IInv

-----------------------------------------------------------------------------
(* The refinement: the queries out for a host are its live lookups. *)

\* The number of live lookups for a host, as the refinement counts them.
QueriesFor(h) == Cardinality({l \in Live : target[l] = h})

\* The host a caller waits for, as the refinement reads it.
WaitsFor(c) == IF pc[c] = "waiting" THEN asked[c] ELSE None

\* A host has one live lookup, the one its slot points to, or none.
LEMMA OneQuery ==
    ASSUME IInv, NEW h \in Hosts
    PROVE  QueriesFor(h) = IF \E l \in Live : target[l] = h THEN 1 ELSE 0
  <1>1. CASE \E l \in Live : target[l] = h
    <2>1. PICK l \in Live : target[l] = h
      BY <1>1
    <2>2. {m \in Live : target[m] = h} = {l}
      BY <2>1, SlotKinds DEF IInv, LookupsSound, MarkersMatch
    <2> QED
      BY <1>1, <2>2, FS_Singleton, Zenon DEF QueriesFor
  <1>2. CASE ~ \E l \in Live : target[l] = h
    <2>1. {m \in Live : target[m] = h} = {}
      BY <1>2
    <2> QED
      BY <1>2, <2>1, FS_EmptySet DEF QueriesFor
  <1> QED
    BY <1>1, <1>2

\* Nothing is out and nobody waits at first.
LEMMA RefinesInit == Init => Promise!Init
  <1> SUFFICES ASSUME Init PROVE Promise!Init
    OBVIOUS
  <1>1. \A h : {l \in Live : target[l] = h} = {}
    BY DEF Init, Live
  <1> QED
    BY <1>1, FS_EmptySet DEF Init, Promise!Init

\* A step that changes no target, and no caller's waiting, is a stutter.
LEMMA RefinesStutter ==
    ASSUME UNCHANGED target,
           \A c \in Callers : WaitsFor(c)' = WaitsFor(c)
    PROVE  UNCHANGED Promise!vars
  BY DEF Promise!vars, WaitsFor, Live

\* A caller that starts a lookup starts the host's one query: no live lookup
\* was there, for its slot would have pointed to it.
LEMMA RefinesStart ==
    ASSUME IInv, IInv', NEW c \in Callers, StartLookup(c), NEW h \in Hosts, h = asked[c]
    PROVE  Promise!Start(c, h)
  <1>1. pc[c] = "locking"
    BY DEF StartLookup
  <1>2. PICK l \in Lookups : /\ l \notin Live
                             /\ target' = [target EXCEPT ![l] = h]
                             /\ pc' = [pc EXCEPT ![c] = "waiting"]
                             /\ UNCHANGED asked
    BY Zenon DEF StartLookup, Await, Unused
  <1>3. ~ \E m \in Live : target[m] = h
    BY SlotKinds DEF StartLookup, IInv, LookupsSound, MarkersMatch
  <1>4. Live' = Live \cup {l} /\ target'[l] = h /\ \A m \in Live : target'[m] = target[m]
    BY <1>2, ResolverAssumption DEF Live, IInv, LookupsSound, TypeOK
  <1>5. QueriesFor(h) = 0 /\ QueriesFor(h)' = 1
    <2>1. QueriesFor(h) = 0
      BY <1>3, OneQuery
    <2>2. QueriesFor(h)' = 1
      <3>1. {m \in Live' : target'[m] = h} = {l}
        BY <1>3, <1>4
      <3> QED
        BY <3>1, FS_Singleton, Zenon DEF QueriesFor
    <2> QED
      BY <2>1, <2>2
  <1>6. \A g \in Hosts : g # h => QueriesFor(g)' = QueriesFor(g)
    <2> SUFFICES ASSUME NEW g \in Hosts, g # h PROVE QueriesFor(g)' = QueriesFor(g)
      OBVIOUS
    <2>1. {m \in Live' : target'[m] = g} = {m \in Live : target[m] = g}
      BY <1>2, <1>4
    <2> QED
      BY <2>1 DEF QueriesFor
  <1>7. [g \in Hosts |-> QueriesFor(g)'] = [[g \in Hosts |-> QueriesFor(g)] EXCEPT ![h] = 1]
    BY <1>1, <1>5, <1>6, Zenon
  <1>8. WaitsFor(c) = None
    BY <1>1 DEF WaitsFor
  <1>9. [d \in Callers |-> WaitsFor(d)'] = [[d \in Callers |-> WaitsFor(d)] EXCEPT ![c] = h]
    BY <1>2, Zenon DEF WaitsFor, IInv, LookupsSound, TypeOK
  <1> QED
    BY <1>1, <1>5, <1>7, <1>8, <1>9 DEF Promise!Start, QueriesFor, WaitsFor

\* A caller that joins waits for the query that is out for its host.
LEMMA RefinesJoin ==
    ASSUME IInv, NEW c \in Callers, JoinLookup(c), NEW h \in Hosts, h = asked[c]
    PROVE  Promise!Join(c, h)
  <1>1. PICK l \in Live : slots[h] = InFlight(l)
    BY SlotKinds DEF JoinLookup, IInv, LookupsSound, TypeOK, IsSlot
  <1>2. target[l] = h
    BY <1>1 DEF IInv, MarkersTrue
  <1>3. QueriesFor(h) = 1
    BY <1>2, OneQuery
  <1>4. /\ pc[c] = "locking" /\ pc' = [pc EXCEPT ![c] = "waiting"]
        /\ UNCHANGED <<asked, target>>
    BY DEF JoinLookup, Await
  <1>5. [g \in Hosts |-> QueriesFor(g)'] = [g \in Hosts |-> QueriesFor(g)]
    BY <1>4 DEF QueriesFor, Live
  <1>6. WaitsFor(c) = None
    BY <1>4 DEF WaitsFor
  <1>7. [d \in Callers |-> WaitsFor(d)'] = [[d \in Callers |-> WaitsFor(d)] EXCEPT ![c] = h]
    BY <1>4, Zenon DEF WaitsFor, IInv, LookupsSound, TypeOK
  <1> QED
    BY <1>3, <1>5, <1>6, <1>7 DEF Promise!Join, QueriesFor, WaitsFor

\* A lookup that settles answers everyone who waits for its host, for all of
\* them wait for this lookup.
LEMMA RefinesLand ==
    ASSUME IInv, NEW l \in Lookups, Settle(l), NEW h \in Hosts, h = target[l]
    PROVE  Promise!Land(h)
  <1>1. l \in Live /\ target' = [target EXCEPT ![l] = None]
    BY DEF Settle
  <1>2. \A m \in Live : target[m] = h => m = l
    BY <1>1, SlotKinds DEF IInv, LookupsSound, MarkersMatch
  <1>3. Live' = Live \ {l} /\ \A m \in Live' : target'[m] = target[m]
    BY <1>1 DEF Live, IInv, LookupsSound, TypeOK
  <1>4. QueriesFor(h) = 1
    BY <1>1, OneQuery
  <1>5. QueriesFor(h)' = 0
    <2>1. {m \in Live' : target'[m] = h} = {}
      BY <1>2, <1>3
    <2> QED
      BY <2>1, FS_EmptySet DEF QueriesFor
  <1>6. \A g \in Hosts : g # h => QueriesFor(g)' = QueriesFor(g)
    <2> SUFFICES ASSUME NEW g \in Hosts, g # h PROVE QueriesFor(g)' = QueriesFor(g)
      OBVIOUS
    <2>1. {m \in Live' : target'[m] = g} = {m \in Live : target[m] = g}
      BY <1>3
    <2> QED
      BY <2>1 DEF QueriesFor
  <1>7. [g \in Hosts |-> QueriesFor(g)'] = [[g \in Hosts |-> QueriesFor(g)] EXCEPT ![h] = 0]
    BY <1>5, <1>6, Zenon
  <1>8. \A d \in Callers : WaitsFor(d) = h <=> d \in Waiters(l)
    <2> SUFFICES ASSUME NEW d \in Callers PROVE WaitsFor(d) = h <=> d \in Waiters(l)
      OBVIOUS
    <2>1. pc[d] = "waiting" => joined[d] \in Live /\ target[joined[d]] = asked[d]
      BY DEF IInv, LookupsSound, NobodyStranded
    <2> QED
      BY <1>1, <1>2, <2>1, ResolverAssumption DEF WaitsFor, Waiters
  <1>9. \A d \in Callers : WaitsFor(d)' = IF d \in Waiters(l) THEN None ELSE WaitsFor(d)
    BY DEF Settle, WaitsFor
  <1> QED
    BY <1>4, <1>7, <1>8, <1>9 DEF Promise!Land, QueriesFor, WaitsFor

\* A caller that walks away leaves the query to the others who wait for its
\* host, and takes it along when there are none.
LEMMA RefinesLeave ==
    ASSUME IInv, IInv', NEW c \in Callers, Cancel(c), NEW l, l = joined[c],
           NEW h \in Hosts, h = asked[c]
    PROVE  Promise!Leave(c)
  <1>1. /\ pc[c] = "waiting" /\ l \in Live /\ target[l] = h
        /\ pc' = [pc EXCEPT ![c] = "idle"] /\ asked' = [asked EXCEPT ![c] = None]
        /\ target' = [target EXCEPT ![l] = IF Waiters(l) = {c} THEN None ELSE @]
    BY DEF Cancel, Done, IInv, LookupsSound, NobodyStranded
  <1>2. \A m \in Live : target[m] = h => m = l
    BY <1>1, SlotKinds DEF IInv, LookupsSound, MarkersMatch
  <1>3. (\E d \in Callers \ {c} : WaitsFor(d) = h) <=> Waiters(l) # {c}
    <2>1. \A d \in Callers : WaitsFor(d) = h <=> d \in Waiters(l)
      <3> SUFFICES ASSUME NEW d \in Callers PROVE WaitsFor(d) = h <=> d \in Waiters(l)
        OBVIOUS
      <3>1. pc[d] = "waiting" => joined[d] \in Live /\ target[joined[d]] = asked[d]
        BY DEF IInv, LookupsSound, NobodyStranded
      <3> QED
        BY <1>1, <1>2, <3>1, ResolverAssumption DEF WaitsFor, Waiters
    <2>2. c \in Waiters(l) /\ Waiters(l) \subseteq Callers
      BY <1>1 DEF Waiters
    <2> QED
      BY <2>1, <2>2
  <1>4. QueriesFor(h)' = IF Waiters(l) # {c} THEN QueriesFor(h) ELSE 0
    <2>1. CASE Waiters(l) = {c}
      <3>1. {m \in Live' : target'[m] = h} = {}
        BY <1>1, <1>2, <2>1, ResolverAssumption DEF Live, IInv, LookupsSound, TypeOK
      <3> QED
        BY <2>1, <3>1, FS_EmptySet DEF QueriesFor
    <2>2. CASE Waiters(l) # {c}
      <3>1. target' = target
        BY <1>1, <2>2 DEF IInv, LookupsSound, TypeOK
      <3> QED
        BY <2>2, <3>1 DEF QueriesFor, Live
    <2> QED
      BY <2>1, <2>2
  <1>5. \A g \in Hosts : g # h => QueriesFor(g)' = QueriesFor(g)
    <2> SUFFICES ASSUME NEW g \in Hosts, g # h PROVE QueriesFor(g)' = QueriesFor(g)
      OBVIOUS
    <2>1. {m \in Live' : target'[m] = g} = {m \in Live : target[m] = g}
      BY <1>1, ResolverAssumption DEF Live, IInv, LookupsSound, TypeOK
    <2> QED
      BY <2>1 DEF QueriesFor
  <1>6. [g \in Hosts |-> QueriesFor(g)'] =
        [[g \in Hosts |-> QueriesFor(g)] EXCEPT ![h] =
            IF \E d \in Callers \ {c} : WaitsFor(d) = h THEN @ ELSE 0]
    BY <1>3, <1>4, <1>5
  <1>7. WaitsFor(c) = h /\ h # None
    BY <1>1, ResolverAssumption DEF WaitsFor
  <1>8. [d \in Callers |-> WaitsFor(d)'] = [[d \in Callers |-> WaitsFor(d)] EXCEPT ![c] = None]
    BY <1>1, Zenon DEF WaitsFor, IInv, LookupsSound, TypeOK
  <1> QED
    BY <1>6, <1>7, <1>8, Zenon DEF Promise!Leave, QueriesFor, WaitsFor

\* Every step of the resolver is a step of the single flight, or a stutter.
LEMMA RefinesNext == IInv /\ IInv' /\ [Next]_vars => [Promise!Next]_(Promise!vars)
  <1> SUFFICES ASSUME IInv, IInv', [Next]_vars PROVE [Promise!Next]_(Promise!vars)
    OBVIOUS
  <1>1. CASE UNCHANGED vars
    BY <1>1, RefinesStutter DEF vars, WaitsFor
  <1>2. CASE Tick
    BY <1>2, RefinesStutter DEF Tick, WaitsFor
  <1>3. ASSUME NEW c \in Callers, NEW h \in Hosts, Ask(c, h) PROVE UNCHANGED Promise!vars
    BY <1>3, RefinesStutter DEF Ask, WaitsFor, IInv, LookupsSound, TypeOK
  <1>4. ASSUME NEW c \in Callers, UseCached(c) PROVE UNCHANGED Promise!vars
    BY <1>4, RefinesStutter DEF UseCached, Done, WaitsFor, IInv, LookupsSound, TypeOK
  <1>5. ASSUME NEW c \in Callers, JoinLookup(c) PROVE Promise!Next
    BY <1>5, RefinesJoin DEF Promise!Next, JoinLookup, IInv, Asking
  <1>6. ASSUME NEW c \in Callers, StartLookup(c) PROVE Promise!Next
    BY <1>6, RefinesStart, Zenon DEF Promise!Next, StartLookup, IInv, Asking
  <1>7. ASSUME NEW c \in Callers, Cancel(c) PROVE Promise!Next
    <2>1. asked[c] \in Hosts
      BY <1>7 DEF Cancel, IInv, LookupsSound, NobodyStranded, TypeOK, Live
    <2> QED
      BY <1>7, <2>1, RefinesLeave DEF Promise!Next
  <1>8. ASSUME NEW l \in Lookups, Land(l) PROVE UNCHANGED Promise!vars
    BY <1>8, RefinesStutter DEF Land, WaitsFor
  <1>9. ASSUME NEW l \in Lookups, Settle(l) PROVE Promise!Next
    <2>1. target[l] \in Hosts
      BY <1>9, Zenon DEF Settle, IInv, LookupsSound, TypeOK, Live
    <2> QED
      BY <1>9, <2>1, RefinesLand DEF Promise!Next
  <1> QED
    BY <1>1, <1>2, <1>3, <1>4, <1>5, <1>6, <1>7, <1>8, <1>9 DEF Next

\* The caching resolver implements the single flight: at most one query is out
\* for a host, everyone who asks meanwhile joins it and is answered with it,
\* and it is given up with the last of them, and not before.
THEOREM ResolverIsSingleFlight == Spec => ImplementsSingleFlight
  <1>1. Spec => []IInv
    BY Invariance
  <1> QED
    BY <1>1, RefinesInit, RefinesNext, PTL DEF Spec, ImplementsSingleFlight, Promise!Spec
=============================================================================
