----------------------------- MODULE PoolProofs -----------------------------
(***************************************************************************)
(* Proofs about Pool, for any number of exchanges, origins and connections *)
(* and any configuration: the hand-kept count is exact and within its      *)
(* caps, buckets stay ordered, a connection serves one exchange at a time, *)
(* and a live registration is kept.                                        *)
(***************************************************************************)
EXTENDS PoolBuckets

-----------------------------------------------------------------------------
(* What the helpers that run under the lock leave. *)

\* A state of the pool that comes from the present one by giving up
\* connections: idle ones, and registered ones that are dead.
Kept(s) ==
    /\ Sized(s.idle, s.idle_held)
    /\ Pooled(s.idle) \subseteq Pooled(idle)
    /\ s.multiplexed \in [Origins -> Conns \cup {None}]
    /\ \A o \in Origins : \/ s.multiplexed[o] = multiplexed[o]
                          \/ s.multiplexed[o] = None /\ multiplexed[o] \in closed
    /\ s.since_sweep \in 0 .. SweepEvery

\* evict_expired gives up what is stale and dead, and its recount is exact.
LEMMA EvictExpiredKept ==
    ASSUME setup \in Setups, NEW s, Kept(s)
    PROVE  Kept(EvictExpired(s))
  <1> DEFINE Good(o) == {n \in 1 .. Len(s.idle[o]) : Fresh(s.idle[o][n])}
             kept == [o \in Origins |-> Retain(s.idle[o], Good(o))]
             live == [o \in Origins |->
                         IF s.multiplexed[o] \in closed THEN None ELSE s.multiplexed[o]]
  <1>1. EvictExpired(s) = State(kept, live, Cardinality(Entries(kept)), s.since_sweep)
    BY DEF EvictExpired
  <1>2. /\ Sized(s.idle, s.idle_held) /\ s.idle \in [Origins -> Seq(Idle)]
        /\ Pooled(s.idle) \subseteq Pooled(idle)
    BY DEF Kept, Sized
  <1>3. \A o \in Origins : Good(o) \in SUBSET (1 .. Len(s.idle[o]))
    OBVIOUS
  <1> HIDE DEF Good
  <1>4. \A o \in Origins : /\ Retain(s.idle[o], Good(o)) \in Seq(Idle)
                           /\ ThinnedSeq(Retain(s.idle[o], Good(o)), s.idle[o])
    BY <1>2, <1>3, RetainThins
  <1>5. kept \in [Origins -> Seq(Idle)] /\ Thinned(kept, s.idle)
    BY <1>4 DEF Thinned
  <1> HIDE DEF kept
  <1>6. Sized(kept, Cardinality(Entries(kept))) /\ Pooled(kept) \subseteq Pooled(idle)
    BY <1>2, <1>5, ThinnedSized
  <1>7. /\ live \in [Origins -> Conns \cup {None}]
        /\ \A o \in Origins : \/ live[o] = multiplexed[o]
                              \/ live[o] = None /\ multiplexed[o] \in closed
    BY DEF Kept
  <1> HIDE DEF live
  <1> QED
    BY <1>1, <1>6, <1>7 DEF Kept, State

\* sweep_if_due gives up connections, or does nothing.
LEMMA SweepKept ==
    ASSUME setup \in Setups, Kept(Now)
    PROVE  Kept(SweepIfDue(Now))
  <1> DEFINE due == State(Now.idle, Now.multiplexed, Now.idle_held, 0)
  <1>1. 0 \in 0 .. SweepEvery
    BY SetupTypes
  <1>2. Kept(due)
    BY <1>1 DEF Kept, State
  <1> HIDE DEF due
  <1>3. Kept(EvictExpired(due))
    BY <1>2, EvictExpiredKept
  <1>4. SweepIfDue(Now) = Now \/ SweepIfDue(Now) = EvictExpired(due)
    BY DEF SweepIfDue, due
  <1> QED
    BY <1>3, <1>4

\* evict_oldest on a full pool makes room for one entry.
LEMMA EvictOldestKept ==
    ASSUME setup \in Setups, NEW s, Kept(s), s.idle_held >= MaxTotal,
           NEW r \in EvictOldest(s)
    PROVE  Kept(r) /\ r.idle_held < MaxTotal
  <1> DEFINE Age(e) == s.idle[e[1]][e[2]].age
             oldest == {e \in Entries(s.idle) : \A f \in Entries(s.idle) : Age(f) <= Age(e)}
             After(e) == State([s.idle EXCEPT ![e[1]] = RemoveAt(@, e[2])], s.multiplexed,
                               s.idle_held - 1, s.since_sweep)
  <1>1. EvictOldest(s) = IF oldest = {} THEN {s} ELSE {After(e) : e \in oldest}
    BY DEF EvictOldest
  <1>2. /\ Sized(s.idle, s.idle_held) /\ s.idle \in [Origins -> Seq(Idle)]
        /\ s.idle_held = Cardinality(Entries(s.idle))
        /\ Pooled(s.idle) \subseteq Pooled(idle) /\ s.idle_held <= MaxTotal
    BY DEF Kept, Sized
  <1>3. \A o \in Origins : Len(s.idle[o]) \in Nat
    BY <1>2, Lengths
  <1>4. IsFiniteSet(Entries(s.idle)) /\ s.idle_held \in Nat
    BY <1>2, <1>3, EntriesFinite
  <1>5. Entries(s.idle) # {}
    <2>1. s.idle_held # 0
      BY <1>4, SetupTypes
    <2> QED
      BY <1>2, <2>1, FS_EmptySet, Zenon
  <1>6. \A e \in Entries(s.idle) : Age(e) \in Int
    <2> SUFFICES ASSUME NEW e \in Entries(s.idle) PROVE Age(e) \in Int
      OBVIOUS
    <2>1. e[1] \in Origins /\ e[2] \in 1 .. Len(s.idle[e[1]])
      BY EntryIs
    <2>2. s.idle[e[1]][e[2]] \in Idle
      BY <1>2, <2>1, ElementOfSeq
    <2> QED
      BY <2>2 DEF Idle
  <1>7. oldest # {}
    <2> DEFINE ages == {Age(e) : e \in Entries(s.idle)}
               f == [e \in Entries(s.idle) |-> Age(e)]
    <2>1. f \in Surjection(Entries(s.idle), ages)
      BY DEF Surjection
    <2>2. ages \in SUBSET Int /\ ages # {}
      BY <1>5, <1>6
    <2>3. IsFiniteSet(ages)
      <3> HIDE DEF f, ages
      <3> QED
        BY <1>4, <2>1, FS_Surjection
    <2>4. PICK m \in ages : \A n \in ages : n <= m
      <3> HIDE DEF ages
      <3> QED
        BY <2>2, <2>3, GreatestExists
    <2>5. PICK e \in Entries(s.idle) : m = Age(e)
      OBVIOUS
    <2>6. e \in oldest
      BY <2>4, <2>5
    <2> QED
      BY <2>6
  <1>8. PICK e \in Entries(s.idle) : r = After(e)
    BY <1>1, <1>7, Zenon
  <1> DEFINE o == e[1]
             q == RemoveAt(s.idle[o], e[2])
             j == [s.idle EXCEPT ![o] = q]
  <1>9. o \in Origins /\ e[2] \in 1 .. Len(s.idle[o])
    BY EntryIs
  <1>10. r = State(j, s.multiplexed, s.idle_held - 1, s.since_sweep)
    BY <1>8
  <1> HIDE DEF o
  <1>11. q \in Seq(Idle) /\ Len(q) = Len(s.idle[o]) - 1 /\ ThinnedSeq(q, s.idle[o])
    BY <1>2, <1>9, RemoveThins
  <1> HIDE DEF q, After, oldest, Age
  <1>12. /\ Sized(j, s.idle_held - (Len(s.idle[o]) - Len(q)))
         /\ Pooled(j) \subseteq Pooled(s.idle)
    BY <1>2, <1>9, <1>11, DropSized, Zenon
  <1> HIDE DEF j
  <1>13. s.idle_held - (Len(s.idle[o]) - Len(q)) = s.idle_held - 1
    BY <1>3, <1>4, <1>9, <1>11
  <1>14. s.idle_held - 1 < MaxTotal
    BY <1>2, <1>4, SetupTypes
  <1> QED
    BY <1>2, <1>10, <1>12, <1>13, <1>14 DEF Kept, State

-----------------------------------------------------------------------------
(* The inductive invariant. *)

\* A task has a connection and an origin when its exchange has come that far.
Placed ==
    \A t \in Tasks :
       /\ pc[t] # "idle" => to[t] \in Origins
       /\ pc[t] \in {"opened", "using1", "using2"} => conn[t] \in Conns
       /\ pc[t] \in {"idle", "fallback", "connecting"} => conn[t] = None

\* No idle connection is with an exchange, registered or half read; an
\* HTTP/1.1 connection in use, and one just opened, is with nobody else.
Apart ==
    /\ \A t \in Tasks : conn[t] \notin Pooled(idle)
    /\ \A o \in Origins : multiplexed[o] \notin Pooled(idle)
    /\ Pooled(idle) \cap unread = {}
    /\ \A t \in Tasks : pc[t] \in {"using1", "opened"} =>
          /\ \A u \in Tasks \ {t} : conn[u] # conn[t]
          /\ \A o \in Origins : multiplexed[o] # conn[t]

\* What every step of the pool and its users keeps.
IInv ==
    /\ TypeOK
    /\ Sized(idle, idle_held)
    /\ Cardinality(Registered(multiplexed)) <= MaxTotal
    /\ Placed
    /\ Apart

\* The present state has given up nothing yet.
LEMMA NowKept ==
    ASSUME IInv
    PROVE  Kept(Now)
  BY DEF IInv, TypeOK, Kept, Now, State

\* Giving up registrations leaves no more of them.
LEMMA FewerRegistered ==
    ASSUME NEW m, NEW k, \A o \in Origins : k[o] = m[o] \/ k[o] = None
    PROVE  /\ IsFiniteSet(Registered(k)) /\ Cardinality(Registered(k)) \in Nat
           /\ Cardinality(Registered(m)) \in Nat
           /\ Cardinality(Registered(k)) <= Cardinality(Registered(m))
  <1>1. IsFiniteSet(Origins)
    BY PoolAssumption
  <1>2. Registered(m) \in SUBSET Origins /\ Registered(k) \in SUBSET Registered(m)
    BY DEF Registered
  <1> QED
    BY <1>1, <1>2, FS_Subset, FS_CardinalityType

\* The push at the end of release, after room was made in the whole pool: a
\* full bucket gives up its oldest, and the count follows.
LEMMA PushSized ==
    ASSUME setup \in Setups, NEW s, Kept(s), s.idle_held < MaxTotal,
           NEW o \in Origins, NEW c \in Conns, c \notin Pooled(idle)
    PROVE  LET r == Push(s, o, c)
           IN  /\ Sized(r.idle, r.idle_held) /\ Pooled(r.idle) \subseteq Pooled(idle) \cup {c}
               /\ r.multiplexed = s.multiplexed /\ r.since_sweep = s.since_sweep
  <1> DEFINE e == [conn |-> c, age |-> 0]
             i == s.idle
             h == s.idle_held
             r == Push(s, o, c)
  <1>1. /\ Sized(i, h) /\ i \in [Origins -> Seq(Idle)] /\ i[o] \in Seq(Idle)
        /\ h = Cardinality(Entries(i)) /\ Pooled(i) \subseteq Pooled(idle)
        /\ Len(i[o]) <= MaxPerHost
    BY DEF Kept, Sized
  <1>2. \A p \in Origins : Len(i[p]) \in Nat
    BY <1>1, Lengths
  <1>3. h \in Nat
    BY <1>1, <1>2, EntriesFinite
  <1>4. r.multiplexed = s.multiplexed /\ r.since_sweep = s.since_sweep
    BY DEF Push, State
  <1>5. CASE Len(i[o]) < MaxPerHost
    <2>a. ~ (Len(i[o]) >= MaxPerHost)
      BY <1>2, <1>5, SetupTypes
    <2>1. r.idle = [i EXCEPT ![o] = Append(i[o], e)] /\ r.idle_held = h + 1
      BY <2>a DEF Push, State
    <2> HIDE DEF r, i, h
    <2>2. c \notin Pooled(i)
      BY <1>1
    <2>3. /\ Sized([i EXCEPT ![o] = Append(i[o], e)], h + 1)
          /\ Pooled([i EXCEPT ![o] = Append(i[o], e)]) \subseteq Pooled(i) \cup {c}
      BY <1>1, <1>5, <2>2, AppendSized, Zenon DEF h
    <2> QED
      BY <1>1, <1>4, <2>1, <2>3, Zenon DEF r
  <1>6. CASE Len(i[o]) >= MaxPerHost
    <2> DEFINE q == Tail(i[o])
               j == [i EXCEPT ![o] = q]
    <2>1. r.idle = [i EXCEPT ![o] = Append(q, e)] /\ r.idle_held = h - 1 + 1
      BY <1>6 DEF Push, State
    <2>2. s.idle_held < MaxTotal
      OBVIOUS
    <2> HIDE DEF r, i, h
    <2>3. Len(i[o]) # 0 /\ Len(i[o]) = MaxPerHost
      BY <1>1, <1>2, <1>6, SetupTypes
    <2>4. i[o] # <<>>
      BY <1>1, <2>3, EmptySeq
    <2>5. q \in Seq(Idle) /\ Len(q) = Len(i[o]) - 1 /\ ThinnedSeq(q, i[o])
      BY <1>1, <2>4, TailThins
    <2> HIDE DEF q
    <2>6. Sized(j, h - (Len(i[o]) - Len(q))) /\ Pooled(j) \subseteq Pooled(i)
      BY <1>1, <2>5, DropSized, Zenon
    <2>7. h - (Len(i[o]) - Len(q)) = h - 1
      BY <1>2, <1>3, <2>5
    <2>8. j[o] = q /\ [j EXCEPT ![o] = Append(j[o], e)] = [i EXCEPT ![o] = Append(q, e)]
      BY <1>1
    <2> HIDE DEF j
    <2>9. h - 1 < MaxTotal
      BY <1>3, <2>2, SetupTypes DEF h
    <2>10. Len(j[o]) < MaxPerHost
      BY <1>2, <2>3, <2>5, <2>8
    <2>11. c \notin Pooled(j)
      BY <1>1, <2>6
    <2>12. /\ Sized([j EXCEPT ![o] = Append(j[o], e)], h - 1 + 1)
           /\ Pooled([j EXCEPT ![o] = Append(j[o], e)]) \subseteq Pooled(j) \cup {c}
      BY <2>6, <2>7, <2>9, <2>10, <2>11, AppendSized, Zenon
    <2> QED
      BY <1>1, <1>4, <2>1, <2>6, <2>8, <2>12, Zenon DEF r
  <1> QED
    <2>1. MaxPerHost \in Nat
      BY SetupTypes
    <2> QED
      BY <1>2, <1>5, <1>6, <2>1

\* What release leaves of the pool: its idle connections and perhaps c, and
\* its registrations but perhaps for dead ones.
LEMMA ReleasedIdleLeaves ==
    ASSUME IInv, NEW o \in Origins, NEW c \in Conns, c \notin Pooled(idle),
           NEW r \in ReleasedIdle(o, c)
    PROVE  /\ Sized(r.idle, r.idle_held) /\ Pooled(r.idle) \subseteq Pooled(idle) \cup {c}
           /\ r.multiplexed \in [Origins -> Conns \cup {None}]
           /\ \A p \in Origins : \/ r.multiplexed[p] = multiplexed[p]
                                 \/ r.multiplexed[p] = None /\ multiplexed[p] \in closed
           /\ r.since_sweep \in 0 .. SweepEvery
  <1> DEFINE swept == SweepIfDue(Now)
  <1>1. setup \in Setups /\ Kept(swept)
    BY NowKept, SweepKept DEF IInv, TypeOK
  <1>2. PICK s \in IF swept.idle_held >= MaxTotal THEN EvictOldest(swept) ELSE {swept} :
           r = Push(s, o, c)
    BY DEF ReleasedIdle
  <1> HIDE DEF swept
  <1>3. Kept(s) /\ s.idle_held < MaxTotal
    <2>1. CASE swept.idle_held >= MaxTotal
      BY <1>1, <1>2, <2>1, EvictOldestKept
    <2>2. CASE ~ (swept.idle_held >= MaxTotal)
      <3>1. swept.idle_held \in Nat
        BY <1>1, Lengths, EntriesFinite DEF Kept, Sized
      <3>2. s = swept
        BY <1>2, <2>2
      <3> QED
        BY <1>1, <2>2, <3>1, <3>2, SetupTypes
    <2> QED
      BY <2>1, <2>2
  <1>4. LET x == Push(s, o, c)
        IN  /\ Sized(x.idle, x.idle_held) /\ Pooled(x.idle) \subseteq Pooled(idle) \cup {c}
            /\ x.multiplexed = s.multiplexed /\ x.since_sweep = s.since_sweep
    BY <1>1, <1>3, PushSized
  <1> QED
    BY <1>2, <1>3, <1>4 DEF Kept

\* What release of an HTTP/2 connection leaves: at most its own registration
\* is new, in the place of none or of a dead one, and the cap holds.
LEMMA ReleasedMultiplexedLeaves ==
    ASSUME IInv, NEW o \in Origins, NEW c \in Conns, NEW r, r = ReleasedMultiplexed(o, c)
    PROVE  /\ Sized(r.idle, r.idle_held) /\ Pooled(r.idle) \subseteq Pooled(idle)
           /\ r.multiplexed \in [Origins -> Conns \cup {None}]
           /\ \A p \in Origins :
                 \/ r.multiplexed[p] = multiplexed[p]
                 \/ r.multiplexed[p] = None /\ multiplexed[p] \in closed
                 \/ /\ p = o /\ r.multiplexed[p] = c
                    /\ multiplexed[p] = None \/ multiplexed[p] \in closed
           /\ Cardinality(Registered(r.multiplexed)) <= MaxTotal
           /\ r.since_sweep \in 0 .. SweepEvery
  <1> DEFINE s == SweepIfDue(Now)
             old == s.multiplexed[o]
             m == [s.multiplexed EXCEPT ![o] = c]
  <1>1. setup \in Setups /\ Kept(s) /\ MaxTotal \in Nat
    BY NowKept, SweepKept, SetupTypes DEF IInv, TypeOK
  <1>2. /\ Cardinality(Registered(s.multiplexed)) <= MaxTotal
        /\ Cardinality(Registered(s.multiplexed)) \in Nat
        /\ IsFiniteSet(Registered(s.multiplexed))
    <2> HIDE DEF s
    <2>1. \A p \in Origins : s.multiplexed[p] = multiplexed[p] \/ s.multiplexed[p] = None
      BY <1>1 DEF Kept
    <2>2. /\ IsFiniteSet(Registered(s.multiplexed))
          /\ Cardinality(Registered(s.multiplexed)) \in Nat
          /\ Cardinality(Registered(multiplexed)) \in Nat
          /\ Cardinality(Registered(s.multiplexed)) <= Cardinality(Registered(multiplexed))
      BY <2>1, FewerRegistered
    <2>3. Cardinality(Registered(multiplexed)) <= MaxTotal
      BY DEF IInv
    <2> QED
      BY <1>1, <2>2, <2>3
  <1>3. CASE r = s
    <2> HIDE DEF s
    <2> QED
      BY <1>1, <1>2, <1>3 DEF Kept
  <1>4. ASSUME r # s
        PROVE  /\ r = State(s.idle, m, s.idle_held, s.since_sweep)
               /\ old = None \/ old \in closed
               /\ old = None => ~ (Cardinality(Registered(s.multiplexed)) >= MaxTotal)
    BY <1>4 DEF ReleasedMultiplexed
  <1>5. CASE r # s
    <2> HIDE DEF s
    <2>1. /\ s.multiplexed \in [Origins -> Conns \cup {None}] /\ None \notin Conns
          /\ closed \subseteq Conns
      BY <1>1, PoolAssumption DEF Kept, IInv, TypeOK
    <2>2. /\ m \in [Origins -> Conns \cup {None}] /\ m[o] = c
          /\ \A p \in Origins \ {o} : m[p] = s.multiplexed[p]
      BY <2>1
    <2> HIDE DEF m
    <2>3. Registered(m) = Registered(s.multiplexed) \cup {o}
      BY <2>1, <2>2 DEF Registered
    <2>4. o \in Registered(s.multiplexed) <=> old # None
      BY DEF Registered
    <2>5. Cardinality(Registered(m)) <= MaxTotal
      <3> DEFINE held == Registered(s.multiplexed)
      <3>1. Cardinality(held \cup {o})
               = IF o \in held THEN Cardinality(held) ELSE Cardinality(held) + 1
        BY <1>2, FS_AddElement, Zenon
      <3> HIDE DEF held
      <3>2. CASE o \in held
        BY <1>2, <2>3, <3>1, <3>2 DEF held
      <3>3. CASE o \notin held
        <4>1. ~ (Cardinality(held) >= MaxTotal)
          BY <1>4, <1>5, <2>4, <3>3 DEF held
        <4>2. Cardinality(held) \in Nat /\ Cardinality(Registered(m)) = Cardinality(held) + 1
          BY <1>2, <2>3, <3>1, <3>3 DEF held
        <4> QED
          BY <1>1, <4>1, <4>2
      <3> QED
        BY <3>2, <3>3
    <2>6. multiplexed[o] = None \/ multiplexed[o] \in closed
      BY <1>1, <1>4, <1>5 DEF Kept
    <2>7. \A p \in Origins :
             \/ m[p] = multiplexed[p]
             \/ m[p] = None /\ multiplexed[p] \in closed
             \/ p = o /\ m[p] = c /\ (multiplexed[p] = None \/ multiplexed[p] \in closed)
      BY <1>1, <2>2, <2>6 DEF Kept
    <2> QED
      BY <1>1, <1>4, <1>5, <2>2, <2>5, <2>7 DEF Kept, State
  <1> QED
    BY <1>3, <1>5

\* The parts of the invariant a step has to establish, while the setup stays.
LEMMA Assembled ==
    ASSUME IInv, UNCHANGED setup,
           Sized(idle', idle_held'),
           multiplexed' \in [Origins -> Conns \cup {None}],
           Cardinality(Registered(multiplexed')) <= MaxTotal,
           since_sweep' \in 0 .. SweepEvery,
           closed' \subseteq Conns, unread' \subseteq Conns,
           pc' \in [Tasks -> {"idle", "fallback", "connecting", "opened", "using1", "using2"}],
           to' \in [Tasks -> Origins \cup {None}],
           conn' \in [Tasks -> Conns \cup {None}],
           Placed', Apart'
    PROVE  IInv'
  <1>1. /\ Idle' = Idle /\ SweepEvery' = SweepEvery
        /\ MaxTotal' = MaxTotal /\ MaxPerHost' = MaxPerHost
    BY DEF Idle, SweepEvery, IdleTimeout, MaxTotal, MaxPerHost
  <1>2. Sized(idle, idle_held)'
    BY <1>1 DEF Sized, Ordered, Distinct, Entries
  <1>3. idle_held' \in Nat
    BY Lengths, EntriesFinite DEF Sized
  <1>4. TypeOK'
    <2>1. setup' \in Setups
      BY DEF IInv, TypeOK
    <2>2. idle' \in [Origins -> Seq(Idle')]
      BY <1>1 DEF Sized
    <2>3. since_sweep' \in 0 .. SweepEvery'
      BY <1>1
    <2> QED
      BY <1>3, <2>1, <2>2, <2>3 DEF TypeOK
  <1>5. (Cardinality(Registered(multiplexed)) <= MaxTotal)'
    BY <1>1 DEF Registered
  <1> QED
    BY <1>2, <1>4, <1>5 DEF IInv

\* The invariant holds at the start.
LEMMA InitIInv ==
    ASSUME Init
    PROVE  IInv
  <1>1. setup \in Setups
    BY DEF Init
  <1>2. /\ Sized(idle, idle_held) /\ Pooled(idle) = {}
        /\ Cardinality(Registered(multiplexed)) <= MaxTotal
    BY <1>1, EmptySized DEF Init
  <1>3. idle \in [Origins -> Seq(Idle)] /\ since_sweep \in 0 .. SweepEvery
    BY <1>1, <1>2, SetupTypes DEF Init, Sized
  <1>4. TypeOK
    BY <1>1, <1>3 DEF Init, TypeOK
  <1>5. Placed
    BY DEF Init, Placed
  <1>6. Apart
    BY <1>2 DEF Init, Apart
  <1> QED
    BY <1>2, <1>4, <1>5, <1>6 DEF IInv

\* What the invariant says in one place, for the proofs of the actions.
LEMMA Facts ==
    ASSUME IInv
    PROVE  /\ setup \in Setups /\ Sized(idle, idle_held)
           /\ idle \in [Origins -> Seq(Idle)] /\ Pooled(idle) \subseteq Conns
           /\ multiplexed \in [Origins -> Conns \cup {None}]
           /\ Cardinality(Registered(multiplexed)) <= MaxTotal
           /\ since_sweep \in 0 .. SweepEvery
           /\ closed \subseteq Conns /\ unread \subseteq Conns /\ None \notin Conns
           /\ pc \in [Tasks -> {"idle", "fallback", "connecting", "opened", "using1", "using2"}]
           /\ to \in [Tasks -> Origins \cup {None}]
           /\ conn \in [Tasks -> Conns \cup {None}]
           /\ Placed /\ Apart
  <1>1. idle \in [Origins -> Seq(Idle)]
    BY DEF IInv, TypeOK
  <1>2. Pooled(idle) \subseteq Conns
    BY <1>1, PooledConns
  <1> QED
    BY <1>1, <1>2, PoolAssumption DEF IInv, TypeOK

\* checkout of an HTTP/2 key.
LEMMA CheckoutMultiplexedIInv ==
    ASSUME IInv, UNCHANGED setup, NEW t \in Tasks, NEW o \in Origins,
           CheckoutMultiplexed(t, o)
    PROVE  IInv'
  <1> USE Facts
  <1>1. /\ UNCHANGED <<idle, idle_held, since_sweep, closed, unread>>
        /\ pc[t] = "idle" /\ conn[t] = None /\ to' = [to EXCEPT ![t] = o]
    BY DEF CheckoutMultiplexed, Placed
  <1>2. \/ /\ multiplexed[o] \in Conns /\ multiplexed' = multiplexed
           /\ conn' = [conn EXCEPT ![t] = multiplexed[o]] /\ pc' = [pc EXCEPT ![t] = "using2"]
        \/ /\ multiplexed' = [multiplexed EXCEPT ![o] = None]
           /\ conn' = conn /\ pc' = [pc EXCEPT ![t] = "fallback"]
    BY DEF CheckoutMultiplexed, Goto
  <1>3. /\ multiplexed' \in [Origins -> Conns \cup {None}]
        /\ \A p \in Origins : multiplexed'[p] = multiplexed[p] \/ multiplexed'[p] = None
        /\ conn' \in [Tasks -> Conns \cup {None}]
        /\ pc' \in [Tasks -> {"idle", "fallback", "connecting", "opened", "using1", "using2"}]
        /\ to' \in [Tasks -> Origins \cup {None}]
    BY <1>1, <1>2, Zenon
  <1>4. Cardinality(Registered(multiplexed')) <= MaxTotal
    <2>1. /\ Cardinality(Registered(multiplexed')) \in Nat
          /\ Cardinality(Registered(multiplexed)) \in Nat
          /\ Cardinality(Registered(multiplexed')) <= Cardinality(Registered(multiplexed))
      BY <1>3, FewerRegistered
    <2> QED
      BY <2>1, SetupTypes
  <1>5. Placed'
    BY <1>1, <1>2, <1>3 DEF Placed
  <1>6. \A u \in Tasks : \/ u # t /\ pc'[u] = pc[u] /\ conn'[u] = conn[u]
                         \/ u = t /\ pc'[u] \notin {"using1", "opened"}
                            /\ (conn'[u] = None \/ conn'[u] = multiplexed[o])
    BY <1>1, <1>2
  <1>7. Pooled(idle)' = Pooled(idle)
    BY <1>1 DEF Pooled, Entries
  <1>8. Apart'
    <2>1. \A u \in Tasks : conn'[u] \notin Pooled(idle)
      BY <1>6 DEF Apart
    <2>2. \A p \in Origins : multiplexed'[p] \notin Pooled(idle)
      BY <1>3, Zenon DEF Apart
    <2>3. ASSUME NEW u \in Tasks, pc'[u] \in {"using1", "opened"}
          PROVE  /\ \A v \in Tasks \ {u} : conn'[v] # conn'[u]
                 /\ \A p \in Origins : multiplexed'[p] # conn'[u]
      <3>1. u # t /\ pc[u] \in {"using1", "opened"} /\ conn'[u] = conn[u] /\ conn[u] \in Conns
        BY <1>6, <2>3 DEF Placed
      <3>2. /\ \A v \in Tasks \ {u} : conn[v] # conn[u]
            /\ \A p \in Origins : multiplexed[p] # conn[u]
        BY <3>1 DEF Apart
      <3> QED
        BY <1>3, <1>6, <3>1, <3>2
    <2>4. Pooled(idle) \cap unread' = {}
      BY <1>1 DEF Apart
    <2> QED
      BY <1>7, <2>1, <2>2, <2>3, <2>4 DEF Apart
  <1> QED
    BY <1>1, <1>3, <1>4, <1>5, <1>8, Assembled

\* The entries a pop leaves, and what they no longer hold.
LEMMA PoppedSized ==
    ASSUME IInv, NEW o \in Origins, NEW k \in 0 .. Len(idle[o]),
           NEW j, j = [idle EXCEPT ![o] = SubSeq(idle[o], 1, k)]
    PROVE  /\ Sized(j, idle_held - (Len(idle[o]) - k)) /\ Pooled(j) \subseteq Pooled(idle)
           /\ \A n \in 1 .. Len(idle[o]) : k < n => idle[o][n].conn \notin Pooled(j)
  <1> USE Facts
  <1> DEFINE q == SubSeq(idle[o], 1, k)
  <1>1. idle[o] \in Seq(Idle) /\ Len(idle[o]) \in Nat /\ k \in Int
    BY Lengths
  <1>2. q \in Seq(Idle) /\ Len(q) = k /\ ThinnedSeq(q, idle[o])
    BY <1>1, PrefixThins
  <1>3. \A n \in 1 .. k : q[n] = idle[o][n]
    <2>1. \A n \in 1 .. k - 1 + 1 : q[n] = idle[o][1 + n - 1]
      BY <1>1, SubSeqProperties
    <2>2. k - 1 + 1 = k /\ \A n \in 1 .. k : 1 + n - 1 = n
      BY <1>1
    <2> QED
      BY <2>1, <2>2
  <1> HIDE DEF q
  <1>4. Sized(j, idle_held - (Len(idle[o]) - k)) /\ Pooled(j) \subseteq Pooled(idle)
    <2>1. /\ Sized([idle EXCEPT ![o] = q], idle_held - (Len(idle[o]) - Len(q)))
          /\ Pooled([idle EXCEPT ![o] = q]) \subseteq Pooled(idle)
      BY <1>2, DropSized, Zenon
    <2> QED
      BY <1>2, <2>1, Zenon DEF q
  <1>5. j[o] = q /\ \A p \in Origins \ {o} : j[p] = idle[p]
    BY DEF q
  <1>6. \A n \in 1 .. Len(idle[o]) : k < n => idle[o][n].conn \notin Pooled(j)
    <2>1. Distinct(idle)
      BY DEF Sized
    <2>2. Len(j[o]) = k /\ \A n \in 1 .. k : j[o][n] = idle[o][n]
      BY <1>2, <1>3, <1>5
    <2> QED
      BY <1>1, <1>5, <2>1, <2>2, PoppedOut, Zenon
  <1> QED
    BY <1>4, <1>6, Zenon

\* A task is given a connection that no other task, registration or idle entry
\* has; the pool loses entries at most.
LEMMA GivenApart ==
    ASSUME IInv, NEW t \in Tasks, NEW c \in Conns, NEW label,
           conn' = [conn EXCEPT ![t] = c], pc' = [pc EXCEPT ![t] = label],
           multiplexed' = multiplexed, Pooled(idle') \subseteq Pooled(idle),
           c \notin Pooled(idle'), unread' \subseteq unread \cup {c},
           \A u \in Tasks \ {t} : conn[u] # c, \A o \in Origins : multiplexed[o] # c
    PROVE  Apart'
  <1> USE Facts
  <1>1. \A u \in Tasks : \/ u # t /\ pc'[u] = pc[u] /\ conn'[u] = conn[u]
                         \/ u = t /\ conn'[u] = c
    OBVIOUS
  <1>2. \A u \in Tasks : conn'[u] \notin Pooled(idle')
    BY <1>1 DEF Apart
  <1>3. \A p \in Origins : multiplexed'[p] \notin Pooled(idle')
    BY DEF Apart
  <1>4. Pooled(idle') \cap unread' = {}
    BY DEF Apart
  <1>5. ASSUME NEW u \in Tasks, pc'[u] \in {"using1", "opened"}
        PROVE  /\ \A v \in Tasks \ {u} : conn'[v] # conn'[u]
               /\ \A p \in Origins : multiplexed'[p] # conn'[u]
    <2>1. CASE u = t
      BY <1>1, <2>1
    <2>2. CASE u # t
      <3>1. pc[u] \in {"using1", "opened"} /\ conn'[u] = conn[u] /\ conn[u] # c
        BY <1>1, <1>5, <2>2
      <3>2. /\ \A v \in Tasks \ {u} : conn[v] # conn[u]
            /\ \A p \in Origins : multiplexed[p] # conn[u]
        BY <3>1 DEF Apart
      <3> QED
        BY <1>1, <3>1, <3>2
    <2> QED
      BY <2>1, <2>2
  <1>6. Pooled(idle)' = Pooled(idle')
    BY DEF Pooled, Entries
  <1> QED
    BY <1>2, <1>3, <1>4, <1>5, <1>6 DEF Apart

\* checkout of an HTTP/1.1 key.
LEMMA CheckoutIdleIInv ==
    ASSUME IInv, UNCHANGED setup, NEW t \in Tasks, NEW o \in Origins,
           CheckoutIdle(t, o)
    PROVE  IInv'
  <1> USE Facts
  <1> DEFINE good == {n \in 1 .. Len(idle[o]) : Fresh(idle[o][n])}
             Left(k) == [idle EXCEPT ![o] = SubSeq(idle[o], 1, k)]
  <1>1. /\ multiplexed' = multiplexed /\ since_sweep' = since_sweep /\ closed' = closed
        /\ to' = [to EXCEPT ![t] = o]
        /\ pc[t] \in {"idle", "fallback"} /\ conn[t] = None
    BY DEF CheckoutIdle, AsksFor, Placed
  <1>2. \/ /\ idle' = Left(0) /\ idle_held' = idle_held - (Len(idle[o]) - 0)
           /\ pc' = [pc EXCEPT ![t] = "connecting"]
           /\ conn' = conn /\ unread' = unread
        \/ \E n \in 1 .. Len(idle[o]) :
              /\ idle' = Left(n - 1) /\ idle_held' = idle_held - (Len(idle[o]) - (n - 1))
              /\ conn' = [conn EXCEPT ![t] = idle[o][n].conn]
              /\ unread' = unread \cup {idle[o][n].conn}
              /\ pc' = [pc EXCEPT ![t] = "using1"]
    BY Zenon DEF CheckoutIdle, Goto
  <1>3. Len(idle[o]) \in Nat
    BY Lengths
  <1>4. CASE /\ idle' = Left(0) /\ idle_held' = idle_held - (Len(idle[o]) - 0)
             /\ pc' = [pc EXCEPT ![t] = "connecting"]
             /\ conn' = conn /\ unread' = unread
    <2>1. 0 \in 0 .. Len(idle[o])
      BY <1>3
    <2>2. Sized(idle', idle_held') /\ Pooled(idle') \subseteq Pooled(idle)
      BY <1>4, <2>1, PoppedSized, Zenon
    <2>3. /\ pc' \in [Tasks -> {"idle", "fallback", "connecting", "opened", "using1", "using2"}]
          /\ to' \in [Tasks -> Origins \cup {None}] /\ conn' \in [Tasks -> Conns \cup {None}]
      BY <1>1, <1>4
    <2>4. Placed'
      BY <1>1, <1>4, <2>3 DEF Placed
    <2>5. Pooled(idle)' = Pooled(idle')
      BY DEF Pooled, Entries
    <2>6. \A u \in Tasks : pc'[u] \in {"using1", "opened"} => pc'[u] = pc[u]
      BY <1>4
    <2>7. Apart'
      BY <1>1, <1>4, <2>2, <2>5, <2>6, Zenon DEF Apart
    <2> QED
      BY <1>1, <1>4, <2>2, <2>3, <2>4, <2>7, Assembled
  <1>5. ASSUME NEW n \in 1 .. Len(idle[o]),
               idle' = Left(n - 1), idle_held' = idle_held - (Len(idle[o]) - (n - 1)),
               conn' = [conn EXCEPT ![t] = idle[o][n].conn],
               unread' = unread \cup {idle[o][n].conn},
               pc' = [pc EXCEPT ![t] = "using1"]
        PROVE  IInv'
    <2> DEFINE c == idle[o][n].conn
    <2>1. n - 1 \in 0 .. Len(idle[o]) /\ n - 1 < n
      BY <1>3
    <2>2. Sized(idle', idle_held') /\ Pooled(idle') \subseteq Pooled(idle) /\ c \notin Pooled(idle')
      BY <1>5, <2>1, PoppedSized, Zenon
    <2>3. c \in Pooled(idle) /\ c \in Conns
      BY PooledIs
    <2>4. conn' = [conn EXCEPT ![t] = c] /\ unread' = unread \cup {c}
      BY <1>5
    <2> HIDE DEF c, Left, good
    <2>5. /\ pc' \in [Tasks -> {"idle", "fallback", "connecting", "opened", "using1", "using2"}]
          /\ to' \in [Tasks -> Origins \cup {None}] /\ conn' \in [Tasks -> Conns \cup {None}]
          /\ unread' \subseteq Conns
      BY <1>1, <1>5, <2>3, <2>4
    <2>6. Placed'
      BY <1>1, <1>5, <2>3, <2>4, <2>5 DEF Placed
    <2>7. (\A u \in Tasks \ {t} : conn[u] # c) /\ \A p \in Origins : multiplexed[p] # c
      BY <2>3 DEF Apart
    <2>8. Apart'
      BY <1>1, <1>5, <2>2, <2>3, <2>4, <2>7, GivenApart, Zenon
    <2> QED
      BY <1>1, <2>2, <2>5, <2>6, <2>8, Assembled
  <1> QED
    BY <1>2, <1>4, <1>5, Zenon

\* Where the pool stays as it is.
LEMMA PoolStays ==
    ASSUME IInv, UNCHANGED pool
    PROVE  /\ Sized(idle', idle_held') /\ Pooled(idle') = Pooled(idle)
           /\ Pooled(idle)' = Pooled(idle)
           /\ multiplexed' = multiplexed
           /\ multiplexed' \in [Origins -> Conns \cup {None}]
           /\ Cardinality(Registered(multiplexed')) <= MaxTotal
           /\ since_sweep' \in 0 .. SweepEvery
  <1>1. idle' = idle /\ multiplexed' = multiplexed /\ idle_held' = idle_held
        /\ since_sweep' = since_sweep
    BY DEF pool
  <1>2. Pooled(idle)' = Pooled(idle)
    BY <1>1 DEF Pooled, Entries
  <1> QED
    BY <1>1, <1>2, Facts

\* Connector::connect.
LEMMA ConnectIInv ==
    ASSUME IInv, UNCHANGED setup, NEW t \in Tasks, Connect(t)
    PROVE  IInv'
  <1> USE Facts
  <1> DEFINE free == Conns \ (InUse \cup InPool)
             c == CHOOSE d \in free : TRUE
  <1>1. c \in free
    BY DEF Connect
  <1>2. /\ pc[t] = "connecting" /\ UNCHANGED <<pool, to>>
        /\ conn' = [conn EXCEPT ![t] = c] /\ closed' = closed \ {c}
        /\ \/ pc' = [pc EXCEPT ![t] = "using1"] /\ unread' = unread \cup {c}
           \/ pc' = [pc EXCEPT ![t] = "opened"] /\ unread' = unread \ {c}
    BY DEF Connect, Goto
  <1> HIDE DEF c
  <1>3. /\ c \in Conns /\ c \notin Pooled(idle)
        /\ \A u \in Tasks : conn[u] # c
        /\ \A o \in Origins : multiplexed[o] # c
    BY <1>1 DEF InUse, InPool, Registered
  <1> HIDE DEF free
  <1>4. /\ pc' \in [Tasks -> {"idle", "fallback", "connecting", "opened", "using1", "using2"}]
        /\ to' \in [Tasks -> Origins \cup {None}] /\ conn' \in [Tasks -> Conns \cup {None}]
        /\ unread' \subseteq Conns /\ closed' \subseteq Conns /\ unread' \subseteq unread \cup {c}
        /\ to' = to
    BY <1>2, <1>3, Zenon
  <1>5. Placed'
    BY <1>2, <1>3, <1>4 DEF Placed
  <1>6. /\ Sized(idle', idle_held') /\ Pooled(idle') = Pooled(idle)
        /\ multiplexed' = multiplexed
        /\ multiplexed' \in [Origins -> Conns \cup {None}]
        /\ Cardinality(Registered(multiplexed')) <= MaxTotal
        /\ since_sweep' \in 0 .. SweepEvery
    BY <1>2, PoolStays
  <1>7. Apart'
    <2>1. PICK label : pc' = [pc EXCEPT ![t] = label]
      BY <1>2
    <2> QED
      BY <1>2, <1>3, <1>4, <1>6, <2>1, GivenApart, Zenon
  <1> QED
    BY <1>4, <1>5, <1>6, <1>7, Assembled

\* A task's exchange is over: its origin and connection are forgotten.
LEMMA EndedFacts ==
    ASSUME IInv, NEW t \in Tasks, Ended(t)
    PROVE  /\ pc' \in [Tasks -> {"idle", "fallback", "connecting", "opened", "using1", "using2"}]
           /\ to' \in [Tasks -> Origins \cup {None}] /\ conn' \in [Tasks -> Conns \cup {None}]
           /\ pc'[t] = "idle" /\ conn'[t] = None
           /\ \A u \in Tasks \ {t} : pc'[u] = pc[u] /\ to'[u] = to[u] /\ conn'[u] = conn[u]
           /\ Placed'
  <1> USE Facts
  <1>1. /\ pc' = [pc EXCEPT ![t] = "idle"] /\ to' = [to EXCEPT ![t] = None]
        /\ conn' = [conn EXCEPT ![t] = None]
    BY DEF Ended, Goto
  <1>2. /\ pc' \in [Tasks -> {"idle", "fallback", "connecting", "opened", "using1", "using2"}]
        /\ to' \in [Tasks -> Origins \cup {None}] /\ conn' \in [Tasks -> Conns \cup {None}]
        /\ pc'[t] = "idle" /\ conn'[t] = None
        /\ \A u \in Tasks \ {t} : pc'[u] = pc[u] /\ to'[u] = to[u] /\ conn'[u] = conn[u]
    BY <1>1
  <1>3. Placed'
    BY <1>2 DEF Placed
  <1> QED
    BY <1>2, <1>3

\* The pool gains at most the connection the ending task had, read to its end,
\* and registrations are only given up.
LEMMA EndedApart ==
    ASSUME IInv, NEW t \in Tasks, Ended(t), unread' \subseteq unread,
           \A o \in Origins : multiplexed'[o] = multiplexed[o] \/ multiplexed'[o] = None,
           \/ Pooled(idle') \subseteq Pooled(idle)
           \/ /\ pc[t] = "using1" /\ conn[t] \notin unread'
              /\ Pooled(idle') \subseteq Pooled(idle) \cup {conn[t]}
    PROVE  Apart'
  <1> USE Facts
  <1>1. /\ pc'[t] = "idle" /\ conn'[t] = None
        /\ \A u \in Tasks \ {t} : pc'[u] = pc[u] /\ conn'[u] = conn[u]
    BY EndedFacts
  <1>2. None \notin Pooled(idle')
    BY DEF Placed
  <1>3. \A u \in Tasks : conn'[u] \notin Pooled(idle')
    BY <1>1, <1>2 DEF Apart
  <1>4. \A o \in Origins : multiplexed'[o] \notin Pooled(idle')
    BY <1>2 DEF Apart
  <1>5. Pooled(idle') \cap unread' = {}
    BY DEF Apart
  <1>6. ASSUME NEW u \in Tasks, pc'[u] \in {"using1", "opened"}
        PROVE  /\ \A v \in Tasks \ {u} : conn'[v] # conn'[u]
               /\ \A o \in Origins : multiplexed'[o] # conn'[u]
    <2>1. u # t /\ pc[u] \in {"using1", "opened"} /\ conn'[u] = conn[u] /\ conn[u] \in Conns
      BY <1>1, <1>6 DEF Placed
    <2>2. /\ \A v \in Tasks \ {u} : conn[v] # conn[u]
          /\ \A o \in Origins : multiplexed[o] # conn[u]
      BY <2>1 DEF Apart
    <2> QED
      BY <1>1, <2>1, <2>2
  <1>7. Pooled(idle)' = Pooled(idle')
    BY Zenon DEF Pooled, Entries
  <1> QED
    BY <1>3, <1>4, <1>5, <1>6, <1>7 DEF Apart

\* Engine::acquire registers the connection it opened.
LEMMA RegisterIInv ==
    ASSUME IInv, UNCHANGED setup, NEW t \in Tasks, Register(t)
    PROVE  IInv'
  <1> USE Facts
  <1>1. /\ pc[t] = "opened" /\ pc' = [pc EXCEPT ![t] = "using2"]
        /\ closed' = closed /\ unread' = unread /\ to' = to /\ conn' = conn
        /\ to[t] \in Origins /\ conn[t] \in Conns
    BY DEF Register, Goto, Placed
  <1>2. pc' \in [Tasks -> {"idle", "fallback", "connecting", "opened", "using1", "using2"}]
    BY <1>1
  <1>3. Placed'
    BY <1>1, <1>2 DEF Placed
  <1>4. /\ Sized(idle', idle_held') /\ Pooled(idle') \subseteq Pooled(idle)
        /\ multiplexed' \in [Origins -> Conns \cup {None}]
        /\ \A p \in Origins : multiplexed'[p] \in {multiplexed[p], None, conn[t]}
        /\ Cardinality(Registered(multiplexed')) <= MaxTotal
        /\ since_sweep' \in 0 .. SweepEvery
    <2>1. CASE UNCHANGED pool
      BY <2>1, PoolStays
    <2>2. CASE Becomes(ReleasedMultiplexed(to[t], conn[t]))
      <3>1. PICK r : r = ReleasedMultiplexed(to[t], conn[t])
        OBVIOUS
      <3>2. /\ idle' = r.idle /\ multiplexed' = r.multiplexed
            /\ idle_held' = r.idle_held /\ since_sweep' = r.since_sweep
        BY <2>2, <3>1 DEF Becomes
      <3>3. /\ Sized(r.idle, r.idle_held) /\ Pooled(r.idle) \subseteq Pooled(idle)
            /\ r.multiplexed \in [Origins -> Conns \cup {None}]
            /\ \A p \in Origins : r.multiplexed[p] \in {multiplexed[p], None, conn[t]}
            /\ Cardinality(Registered(r.multiplexed)) <= MaxTotal
            /\ r.since_sweep \in 0 .. SweepEvery
        BY <1>1, <3>1, ReleasedMultiplexedLeaves
      <3> QED
        BY <3>2, <3>3
    <2> QED
      BY <2>1, <2>2 DEF Register
  <1>5. Apart'
    <2>1. \A p \in Origins : multiplexed'[p] \notin Pooled(idle')
      BY <1>1, <1>4, Zenon DEF Apart
    <2>2. ASSUME NEW u \in Tasks, pc'[u] \in {"using1", "opened"}
          PROVE  /\ \A v \in Tasks \ {u} : conn[v] # conn[u]
                 /\ \A p \in Origins : multiplexed'[p] # conn[u]
      <3>1. u # t /\ pc[u] \in {"using1", "opened"} /\ conn[u] \in Conns
        BY <1>1, <2>2 DEF Placed
      <3>2. /\ \A v \in Tasks \ {u} : conn[v] # conn[u]
            /\ \A p \in Origins : multiplexed[p] # conn[u]
        BY <3>1 DEF Apart
      <3> QED
        BY <1>4, <3>1, <3>2
    <2>3. Pooled(idle)' = Pooled(idle')
      BY DEF Pooled, Entries
    <2> QED
      BY <1>1, <1>4, <2>1, <2>2, <2>3 DEF Apart
  <1> QED
    BY <1>1, <1>2, <1>3, <1>4, <1>5, Assembled

\* What EndBody does to the pool.
LEMMA EndBodyLeaves ==
    ASSUME IInv, NEW t \in Tasks, EndBody(t)
    PROVE  /\ Sized(idle', idle_held')
           /\ Pooled(idle') \subseteq Pooled(idle) \cup {conn[t]}
           /\ multiplexed' \in [Origins -> Conns \cup {None}]
           /\ \A p \in Origins : \/ multiplexed'[p] = multiplexed[p]
                                 \/ multiplexed'[p] = None /\ multiplexed[p] \in closed
           /\ since_sweep' \in 0 .. SweepEvery
  <1> USE Facts
  <1>1. to[t] \in Origins /\ conn[t] \in Conns /\ conn[t] \notin Pooled(idle)
    BY DEF EndBody, Placed, Apart
  <1>2. CASE UNCHANGED pool
    BY <1>2, PoolStays
  <1>3. ASSUME NEW r \in ReleasedIdle(to[t], conn[t]), Becomes(r)
        PROVE  /\ Sized(idle', idle_held')
               /\ Pooled(idle') \subseteq Pooled(idle) \cup {conn[t]}
               /\ multiplexed' \in [Origins -> Conns \cup {None}]
               /\ \A p \in Origins : \/ multiplexed'[p] = multiplexed[p]
                                     \/ multiplexed'[p] = None /\ multiplexed[p] \in closed
               /\ since_sweep' \in 0 .. SweepEvery
    <2>1. /\ idle' = r.idle /\ multiplexed' = r.multiplexed
          /\ idle_held' = r.idle_held /\ since_sweep' = r.since_sweep
      BY <1>3 DEF Becomes
    <2>2. /\ Sized(r.idle, r.idle_held) /\ Pooled(r.idle) \subseteq Pooled(idle) \cup {conn[t]}
          /\ r.multiplexed \in [Origins -> Conns \cup {None}]
          /\ \A p \in Origins : \/ r.multiplexed[p] = multiplexed[p]
                                \/ r.multiplexed[p] = None /\ multiplexed[p] \in closed
          /\ r.since_sweep \in 0 .. SweepEvery
      BY <1>1, ReleasedIdleLeaves
    <2> QED
      BY <2>1, <2>2
  <1> QED
    BY <1>2, <1>3 DEF EndBody

\* A body that ends gives its connection back.
LEMMA EndBodyIInv ==
    ASSUME IInv, UNCHANGED setup, NEW t \in Tasks, EndBody(t)
    PROVE  IInv'
  <1> USE Facts
  <1>1. /\ pc[t] = "using1" /\ unread' = unread \ {conn[t]} /\ Ended(t) /\ closed' = closed
    BY DEF EndBody
  <1>2. /\ Sized(idle', idle_held')
        /\ Pooled(idle') \subseteq Pooled(idle) \cup {conn[t]}
        /\ multiplexed' \in [Origins -> Conns \cup {None}]
        /\ \A p \in Origins : multiplexed'[p] = multiplexed[p] \/ multiplexed'[p] = None
        /\ since_sweep' \in 0 .. SweepEvery
    BY EndBodyLeaves
  <1>3. Cardinality(Registered(multiplexed')) <= MaxTotal
    <2>1. /\ Cardinality(Registered(multiplexed')) \in Nat
          /\ Cardinality(Registered(multiplexed)) \in Nat
          /\ Cardinality(Registered(multiplexed')) <= Cardinality(Registered(multiplexed))
      BY <1>2, FewerRegistered
    <2> QED
      BY <2>1, SetupTypes
  <1>4. unread' \subseteq unread /\ unread' \subseteq Conns /\ conn[t] \notin unread'
    BY <1>1
  <1>5. Apart'
    BY <1>1, <1>2, <1>4, EndedApart
  <1>6. /\ pc' \in [Tasks -> {"idle", "fallback", "connecting", "opened", "using1", "using2"}]
        /\ to' \in [Tasks -> Origins \cup {None}] /\ conn' \in [Tasks -> Conns \cup {None}]
        /\ Placed'
    BY <1>1, EndedFacts
  <1> QED
    BY <1>1, <1>2, <1>3, <1>4, <1>5, <1>6, Assembled

\* An exchange ends without giving its connection back.
LEMMA DroppedIInv ==
    ASSUME IInv, UNCHANGED setup, NEW t \in Tasks, Abandon(t) \/ Finish(t)
    PROVE  IInv'
  <1> USE Facts
  <1>1. /\ UNCHANGED pool /\ Ended(t)
        /\ unread' \subseteq unread /\ closed' \subseteq closed
    BY DEF Abandon, Finish
  <1>2. /\ Sized(idle', idle_held') /\ Pooled(idle') = Pooled(idle)
        /\ multiplexed' = multiplexed
        /\ multiplexed' \in [Origins -> Conns \cup {None}]
        /\ Cardinality(Registered(multiplexed')) <= MaxTotal
        /\ since_sweep' \in 0 .. SweepEvery
    BY <1>1, PoolStays
  <1>3. Apart'
    BY <1>1, <1>2, EndedApart
  <1>4. /\ pc' \in [Tasks -> {"idle", "fallback", "connecting", "opened", "using1", "using2"}]
        /\ to' \in [Tasks -> Origins \cup {None}] /\ conn' \in [Tasks -> Conns \cup {None}]
        /\ Placed'
    BY <1>1, EndedFacts
  <1>5. closed' \subseteq Conns /\ unread' \subseteq Conns
    BY <1>1
  <1> QED
    BY <1>2, <1>3, <1>4, <1>5, Assembled

\* The peer closes a connection.
LEMMA CloseIInv ==
    ASSUME IInv, UNCHANGED setup, NEW c \in Conns, Close(c)
    PROVE  IInv'
  <1> USE Facts
  <1>1. /\ UNCHANGED pool /\ unread' = unread /\ pc' = pc /\ to' = to /\ conn' = conn
        /\ closed' = closed \cup {c}
    BY DEF Close
  <1>2. /\ Sized(idle', idle_held') /\ Pooled(idle)' = Pooled(idle)
        /\ multiplexed' = multiplexed
        /\ multiplexed' \in [Origins -> Conns \cup {None}]
        /\ Cardinality(Registered(multiplexed')) <= MaxTotal
        /\ since_sweep' \in 0 .. SweepEvery
    BY <1>1, PoolStays
  <1>3. Placed' /\ Apart'
    BY <1>1, <1>2 DEF Placed, Apart
  <1>4. closed' \subseteq Conns
    BY <1>1
  <1> QED
    BY <1>1, <1>2, <1>3, <1>4, Assembled

\* Time passes.
LEMMA TickIInv ==
    ASSUME IInv, UNCHANGED setup, Tick
    PROVE  IInv'
  <1> USE Facts
  <1>1. /\ multiplexed' = multiplexed /\ idle_held' = idle_held /\ closed' = closed
        /\ unread' = unread /\ pc' = pc /\ to' = to /\ conn' = conn
    BY DEF Tick
  <1>2. since_sweep' \in 0 .. SweepEvery
    BY SetupTypes DEF Tick
  <1>3. /\ \A o \in Origins : idle'[o] = [n \in 1 .. Len(idle[o]) |-> Older(idle[o][n])]
        /\ idle' = [o \in Origins |-> idle'[o]]
    BY DEF Tick, Older
  <1>4. \A o \in Origins : /\ Len(idle[o]) \in Nat
                           /\ \A n \in 1 .. Len(idle[o]) : Older(idle[o][n]) \in Idle
    <2>1. \A o \in Origins : /\ Len(idle[o]) \in Nat
                             /\ \A n \in 1 .. Len(idle[o]) : idle[o][n] \in Idle
      BY Lengths, ElementOfSeq
    <2> QED
      BY <2>1, OlderEntry
  <1>5. \A o \in Origins : /\ idle'[o] \in Seq(Idle) /\ Len(idle'[o]) = Len(idle[o])
                           /\ \A n \in 1 .. Len(idle[o]) : idle'[o][n] = Older(idle[o][n])
    <2> SUFFICES ASSUME NEW o \in Origins
                 PROVE  /\ idle'[o] \in Seq(Idle) /\ Len(idle'[o]) = Len(idle[o])
                        /\ \A n \in 1 .. Len(idle[o]) : idle'[o][n] = Older(idle[o][n])
      OBVIOUS
    <2>1. PICK q : q = [n \in 1 .. Len(idle[o]) |-> Older(idle[o][n])]
      BY Zenon
    <2>2. Len(idle[o]) \in Nat /\ q \in [1 .. Len(idle[o]) -> Idle]
      BY <1>4, <2>1
    <2>3. q \in Seq(Idle) /\ Len(q) = Len(idle[o])
      BY <2>2, BuiltSeq, Zenon
    <2>4. \A n \in 1 .. Len(idle[o]) : q[n] = Older(idle[o][n])
      BY <2>1
    <2> QED
      BY <1>3, <2>1, <2>3, <2>4, Zenon
  <1>6. idle' \in [Origins -> Seq(Idle)]
    BY <1>3, <1>5
  <1>7. Sized(idle', idle_held) /\ Pooled(idle') \subseteq Pooled(idle)
    BY <1>5, <1>6, AgedSized, Zenon
  <1>8. Pooled(idle)' = Pooled(idle')
    BY DEF Pooled, Entries
  <1>9. Placed' /\ Apart'
    BY <1>1, <1>7, <1>8 DEF Placed, Apart
  <1> QED
    BY <1>1, <1>2, <1>7, <1>9, Assembled

\* clear() empties the pool.
LEMMA ClearIInv ==
    ASSUME IInv, UNCHANGED setup, Clear
    PROVE  IInv'
  <1> USE Facts
  <1>1. /\ idle' = [o \in Origins |-> <<>>] /\ multiplexed' = [o \in Origins |-> None]
        /\ idle_held' = 0 /\ since_sweep' = since_sweep /\ closed' = closed
        /\ unread' = unread /\ pc' = pc /\ to' = to /\ conn' = conn
    BY DEF Clear
  <1>2. /\ Sized(idle', idle_held') /\ Pooled(idle') = {}
        /\ Cardinality(Registered(multiplexed')) <= MaxTotal
    BY <1>1, EmptySized
  <1>3. Pooled(idle)' = Pooled(idle')
    BY DEF Pooled, Entries
  <1>4. Placed'
    BY <1>1 DEF Placed
  <1>5. Apart'
    BY <1>1, <1>2, <1>3 DEF Apart, Placed
  <1>6. multiplexed' \in [Origins -> Conns \cup {None}]
    BY <1>1
  <1> QED
    BY <1>1, <1>2, <1>4, <1>5, <1>6, Assembled

\* Every step keeps the invariant.
LEMMA NextIInv ==
    ASSUME IInv, [Next]_vars
    PROVE  IInv'
  <1>1. CASE UNCHANGED vars
    <2>1. /\ UNCHANGED setup /\ UNCHANGED pool /\ closed' = closed /\ unread' = unread
          /\ pc' = pc /\ to' = to /\ conn' = conn
      BY <1>1 DEF vars, pool
    <2>2. /\ Sized(idle', idle_held') /\ Pooled(idle)' = Pooled(idle)
          /\ multiplexed' = multiplexed
          /\ multiplexed' \in [Origins -> Conns \cup {None}]
          /\ Cardinality(Registered(multiplexed')) <= MaxTotal
          /\ since_sweep' \in 0 .. SweepEvery
      BY <2>1, PoolStays
    <2>3. Placed' /\ Apart'
      BY <2>1, <2>2, Facts DEF Placed, Apart
    <2> QED
      BY <2>1, <2>2, <2>3, Facts, Assembled
  <1>2. ASSUME Next PROVE IInv'
    <2>1. UNCHANGED setup /\ Step
      BY <1>2 DEF Next
    <2>2. ASSUME NEW t \in Tasks, NEW o \in Origins,
                 CheckoutMultiplexed(t, o) \/ CheckoutIdle(t, o)
          PROVE  IInv'
      BY <2>1, <2>2, CheckoutMultiplexedIInv, CheckoutIdleIInv
    <2>3. ASSUME NEW t \in Tasks, Connect(t) \/ Register(t) \/ EndBody(t) PROVE IInv'
      BY <2>1, <2>3, ConnectIInv, RegisterIInv, EndBodyIInv
    <2>4. ASSUME NEW t \in Tasks, Abandon(t) \/ Finish(t) PROVE IInv'
      BY <2>1, <2>4, DroppedIInv
    <2>5. ASSUME NEW c \in Conns, Close(c) PROVE IInv'
      BY <2>1, <2>5, CloseIInv
    <2>6. CASE Tick \/ Clear
      BY <2>1, <2>6, TickIInv, ClearIInv
    <2> QED
      BY <2>1, <2>2, <2>3, <2>4, <2>5, <2>6 DEF Step
  <1> QED
    BY <1>1, <1>2

\* The inductive invariant is invariant.
LEMMA Invariance == Spec => []IInv
  BY InitIInv, NextIInv, PTL DEF Spec

\* Whatever the configuration and however many exchanges, the pool's hand-kept
\* count is the number of idle connections and within its caps, and every
\* bucket is ordered by age.
THEOREM CountStaysExact == Spec => []CountExact
  <1>1. IInv => CountExact
    BY DEF IInv, CountExact, HeldExact, OldestFirst, Sized, Ordered
  <1> QED
    BY <1>1, Invariance, PTL

\* An HTTP/1.1 connection serves one exchange at a time, and is pooled again
\* only when its response was read.
THEOREM ConnectionsStayExclusive == Spec => []ConnectionsExclusive
  <1>1. ASSUME IInv PROVE ConnectionsExclusive
    <2>1. NoHalfReadReuse
      BY <1>1 DEF IInv, Apart, NoHalfReadReuse
    <2>2. Distinct(idle)
      BY <1>1 DEF IInv, Sized
    <2>3. ASSUME NEW t \in Exclusive
          PROVE  conn[t] \notin InPool /\ \A u \in Tasks \ {t} : conn[u] # conn[t]
      <3>1. t \in Tasks /\ pc[t] = "using1"
        BY DEF Exclusive
      <3>2. /\ conn[t] \notin Pooled(idle)
            /\ \A o \in Origins : multiplexed[o] # conn[t]
            /\ \A u \in Tasks \ {t} : conn[u] # conn[t]
        BY <1>1, <3>1, Facts DEF Apart
      <3> QED
        BY <3>2 DEF InPool, Registered
    <2> QED
      BY <2>1, <2>2, <2>3 DEF ConnectionsExclusive, OneUserPerConnection, Distinct
  <1> QED
    BY <1>1, Invariance, PTL

\* No release, sweep or cap takes a live registered HTTP/2 connection away.
THEOREM RegistrationsStayKept == Spec => RegistrationsKept
  <1>1. ASSUME IInv, [Next]_vars,
               NEW o \in Origins, multiplexed[o] # None, multiplexed[o] \notin closed
        PROVE  multiplexed'[o] = multiplexed[o] \/ Clear
    <2>1. CASE UNCHANGED multiplexed
      BY <2>1
    <2>2. ASSUME NEW t \in Tasks, NEW p \in Origins, CheckoutMultiplexed(t, p)
          PROVE  multiplexed'[o] = multiplexed[o]
      BY <1>1, <2>2, Facts DEF CheckoutMultiplexed
    <2>3. ASSUME NEW t \in Tasks, Register(t)
          PROVE  multiplexed'[o] = multiplexed[o]
      <3>1. to[t] \in Origins /\ conn[t] \in Conns
        BY <1>1, <2>3, Facts DEF Register, Placed
      <3>2. CASE UNCHANGED pool
        BY <3>2 DEF pool
      <3>3. CASE Becomes(ReleasedMultiplexed(to[t], conn[t]))
        <4>1. PICK r : r = ReleasedMultiplexed(to[t], conn[t])
          OBVIOUS
        <4>2. multiplexed' = r.multiplexed
          BY <3>3, <4>1 DEF Becomes
        <4>3. r.multiplexed[o] = multiplexed[o]
          BY <1>1, <3>1, <4>1, ReleasedMultiplexedLeaves
        <4> QED
          BY <4>2, <4>3
      <3> QED
        BY <2>3, <3>2, <3>3 DEF Register
    <2>4. ASSUME NEW t \in Tasks, EndBody(t)
          PROVE  multiplexed'[o] = multiplexed[o]
      BY <1>1, <2>4, EndBodyLeaves
    <2>5. ASSUME Step, ~ UNCHANGED multiplexed
          PROVE  \/ \E t \in Tasks : \/ \E p \in Origins : CheckoutMultiplexed(t, p)
                                     \/ Register(t) \/ EndBody(t)
                 \/ Clear
      BY <2>5 DEF Step, CheckoutIdle, Connect, Abandon, Finish, Close, Tick, pool
    <2> QED
      BY <1>1, <2>1, <2>2, <2>3, <2>4, <2>5 DEF Next, vars
  <1>2. IInv /\ [Next]_vars =>
           [\A o \in Origins : multiplexed[o] # None /\ multiplexed[o] \notin closed
                => multiplexed'[o] = multiplexed[o] \/ Clear]_vars
    BY <1>1
  <1> QED
    BY <1>2, Invariance, PTL DEF Spec, RegistrationsKept
=============================================================================
