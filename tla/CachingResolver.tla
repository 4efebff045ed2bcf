-------------------------- MODULE CachingResolver --------------------------
(***************************************************************************)
(* The caching resolver (chromulate-dns/src/caching.rs): a TTL cache whose *)
(* callers collapse into one lookup per host.                              *)
(*                                                                         *)
(* The clock is read before the lock, both by a caller that asks and by a  *)
(* lookup that settles, so other steps come between the two.  The map      *)
(* holds a lookup weakly: it lives as long as a caller waits for it.       *)
(***************************************************************************)
EXTENDS Integers, FiniteSets

CONSTANTS
    Callers, Hosts, None,
    Lookups,        \* lookups, by allocation
    PositiveTtl,    \* Cache::positive_ttl
    NegativeTtl,    \* Cache::negative_ttl
    MinSweepSize,   \* MIN_SWEEP_SIZE
    MaxTime         \* bound on the clock

ASSUME ResolverAssumption ==
    /\ IsFiniteSet(Callers) /\ IsFiniteSet(Hosts) /\ IsFiniteSet(Lookups)
    /\ None \notin Hosts /\ None \notin Lookups /\ None \notin Nat
    /\ PositiveTtl \in Nat /\ NegativeTtl \in Nat
    /\ MinSweepSize \in Nat \ {0}
    /\ MaxTime \in Nat

VARIABLES
    now,       \* the clock
    slots,     \* host -> Slot
    sweep_at,  \* Slots::sweep_at
    target,    \* lookup -> the host it resolves while it lives, or None
    landed,    \* lookup -> expiry of the outcome it is about to settle, or None
    pc,        \* where each caller is
    asked,     \* the host a caller asks for
    at,        \* the instant it read before taking the lock
    joined     \* the lookup it waits for

vars == <<now, slots, sweep_at, target, landed, pc, asked, at, joined>>

-----------------------------------------------------------------------------

Absent == [kind |-> "absent", lookup |-> None, expires_at |-> None]
InFlight(l) == [kind |-> "in_flight", lookup |-> l, expires_at |-> None]
Cached(t) == [kind |-> "cached", lookup |-> None, expires_at |-> t]

IsSlot(slot) ==
    \/ slot = Absent
    \/ slot.lookup \in Lookups /\ slot = InFlight(slot.lookup)
    \/ slot.expires_at \in Nat /\ slot = Cached(slot.expires_at)

Live == {l \in Lookups : target[l] # None}
Waiters(l) == {c \in Callers : pc[c] = "waiting" /\ joined[c] = l}
Unused == {l \in Lookups \ Live : \A h \in Hosts : slots[h] # InFlight(l)}
Occupied(s) == {h \in Hosts : s[h] # Absent}

\* Mutant: a sweep takes every marker for abandoned.
HarshKept(slot, t) == slot.kind = "cached" /\ slot.expires_at > t

\* What sweep keeps at instant t: unexpired answers, and markers that upgrade.
Kept(slot, t) ==
    \/ slot.kind = "cached" /\ slot.expires_at > t
    \/ slot.kind = "in_flight" /\ slot.lookup \in Live

Swept(s, t) == [h \in Hosts |-> IF Kept(s[h], t) THEN s[h] ELSE Absent]

\* The size at which the next opportunistic sweep runs.
SweepAt(s) ==
    LET doubled == 2 * Cardinality(Occupied(s))
    IN  IF doubled > MinSweepSize THEN doubled ELSE MinSweepSize

-----------------------------------------------------------------------------

Init ==
    /\ now = 0
    /\ slots = [h \in Hosts |-> Absent]
    /\ sweep_at = MinSweepSize
    /\ target = [l \in Lookups |-> None]
    /\ landed = [l \in Lookups |-> None]
    /\ pc = [c \in Callers |-> "idle"]
    /\ asked = [c \in Callers |-> None]
    /\ at = [c \in Callers |-> 0]
    /\ joined = [c \in Callers |-> None]

Tick ==
    /\ now < MaxTime
    /\ now' = now + 1
    /\ UNCHANGED <<slots, sweep_at, target, landed, pc, asked, at, joined>>

\* shared_outcome reads the clock before it locks the map.
Ask(c, h) ==
    /\ pc[c] = "idle"
    /\ pc' = [pc EXCEPT ![c] = "locking"]
    /\ asked' = [asked EXCEPT ![c] = h]
    /\ at' = [at EXCEPT ![c] = now]
    /\ UNCHANGED <<now, slots, sweep_at, target, landed, joined>>

\* The caller has its answer, or has gone away.
Done(c) ==
    /\ pc' = [pc EXCEPT ![c] = "idle"]
    /\ asked' = [asked EXCEPT ![c] = None]
    /\ at' = [at EXCEPT ![c] = 0]
    /\ joined' = [joined EXCEPT ![c] = None]

Await(c, l) ==
    /\ pc' = [pc EXCEPT ![c] = "waiting"]
    /\ at' = [at EXCEPT ![c] = 0]
    /\ joined' = [joined EXCEPT ![c] = l]
    /\ UNCHANGED asked

\* Under the lock: an unexpired answer is used.
UseCached(c) ==
    LET slot == slots[asked[c]]
    IN  /\ pc[c] = "locking"
        /\ slot.kind = "cached" /\ slot.expires_at > at[c]
        /\ Done(c)
        /\ UNCHANGED <<now, slots, sweep_at, target, landed>>

\* Under the lock: a marker that upgrades is joined.
JoinLookup(c) ==
    LET slot == slots[asked[c]]
    IN  /\ pc[c] = "locking"
        /\ slot.kind = "in_flight" /\ slot.lookup \in Live
        /\ Await(c, slot.lookup)
        /\ UNCHANGED <<now, slots, sweep_at, target, landed>>

\* Under the lock: otherwise a lookup is started and its marker inserted,
\* after a sweep when the map has reached its threshold.
StartLookup(c) ==
    LET h     == asked[c]
        due   == Cardinality(Occupied(slots)) >= sweep_at
        swept == IF due THEN Swept(slots, at[c]) ELSE slots
    IN  /\ pc[c] = "locking"
        /\ ~(slots[h].kind = "cached" /\ slots[h].expires_at > at[c])
        /\ ~(slots[h].kind = "in_flight" /\ slots[h].lookup \in Live)
        /\ Unused # {}
        /\ LET l == CHOOSE l \in Unused : TRUE
           IN  /\ target' = [target EXCEPT ![l] = h]
               /\ slots' = [swept EXCEPT ![h] = InFlight(l)]
               /\ Await(c, l)
        /\ sweep_at' = IF due THEN SweepAt(swept) ELSE sweep_at
        /\ UNCHANGED <<now, landed>>

\* inner.resolve returns, found or failed, and settle reads the clock.
Land(l) ==
    /\ l \in Live /\ landed[l] = None
    /\ \E ttl \in {PositiveTtl, NegativeTtl} :
          landed' = [landed EXCEPT ![l] = [at |-> now, expires_at |-> now + ttl]]
    /\ UNCHANGED <<now, slots, sweep_at, target, pc, asked, at, joined>>

\* Mutant: one of the callers that wait has the outcome.
LonelySettle(l) ==
    LET h     == target[l]
        swept == Swept([slots EXCEPT ![h] = Cached(landed[l].expires_at)], landed[l].at)
    IN  /\ l \in Live /\ landed[l] # None
        /\ slots' = swept
        /\ sweep_at' = SweepAt(swept)
        /\ target' = [target EXCEPT ![l] = None]
        /\ landed' = [landed EXCEPT ![l] = None]
        /\ Done(CHOOSE c \in Waiters(l) : TRUE)
        /\ UNCHANGED now

\* settle under the lock: cache the outcome, sweep, and everyone who waited
\* has it.
Settle(l) ==
    LET h     == target[l]
        swept == Swept([slots EXCEPT ![h] = Cached(landed[l].expires_at)], landed[l].at)
    IN  /\ l \in Live /\ landed[l] # None
        /\ slots' = swept
        /\ sweep_at' = SweepAt(swept)
        /\ target' = [target EXCEPT ![l] = None]
        /\ landed' = [landed EXCEPT ![l] = None]
        /\ pc' = [c \in Callers |-> IF c \in Waiters(l) THEN "idle" ELSE pc[c]]
        /\ asked' = [c \in Callers |-> IF c \in Waiters(l) THEN None ELSE asked[c]]
        /\ joined' = [c \in Callers |-> IF c \in Waiters(l) THEN None ELSE joined[c]]
        /\ UNCHANGED <<now, at>>

\* Mutant: the lookup goes away with any one of its callers.
FragileCancel(c) ==
    LET l == joined[c]
    IN  /\ pc[c] = "waiting"
        /\ landed[l] # None => Waiters(l) # {c}
        /\ Done(c)
        /\ target' = [target EXCEPT ![l] = None]
        /\ landed' = [landed EXCEPT ![l] = None]
        /\ UNCHANGED <<now, slots, sweep_at>>

\* A caller drops its handle, and the last one drops the lookup; the marker
\* stays behind.  One caller is polling a lookup that is settling and cannot
\* be dropped meanwhile.
Cancel(c) ==
    LET l == joined[c]
    IN  /\ pc[c] = "waiting"
        /\ landed[l] # None => Waiters(l) # {c}
        /\ Done(c)
        /\ target' = [target EXCEPT ![l] = IF Waiters(l) = {c} THEN None ELSE @]
        /\ UNCHANGED <<now, slots, sweep_at, landed>>

Next ==
    \/ Tick
    \/ \E c \in Callers :
          \/ \E h \in Hosts : Ask(c, h)
          \/ UseCached(c) \/ JoinLookup(c) \/ StartLookup(c) \/ Cancel(c)
    \/ \E l \in Lookups : Land(l) \/ Settle(l)

Spec == Init /\ [][Next]_vars

\* A lookup that someone waits for is polled, and the wrapped resolver answers
\* or fails; the lock is free between critical sections.
Fairness == \A l \in Lookups : WF_vars(Land(l) \/ Settle(l))

FairSpec == Spec /\ Fairness

-----------------------------------------------------------------------------
(* Properties. *)

\* Slots, lookups and callers have their types.
TypeOK ==
    /\ now \in Nat
    /\ DOMAIN slots = Hosts /\ \A h \in Hosts : IsSlot(slots[h])
    /\ sweep_at \in Nat
    /\ target \in [Lookups -> Hosts \cup {None}]
    /\ landed \in [Lookups -> [at: Nat, expires_at: Nat] \cup {None}]
    /\ pc \in [Callers -> {"idle", "locking", "waiting"}]
    /\ asked \in [Callers -> Hosts \cup {None}]
    /\ at \in [Callers -> Nat]
    /\ joined \in [Callers -> Lookups \cup {None}]

\* A lookup under way is always the one its host's slot points to, so every
\* later caller joins it and two lookups for one host never overlap, although
\* other hosts' callers sweep the map and callers walk away meanwhile.
MarkersMatch == \A l \in Live : slots[target[l]] = InFlight(l)

\* A caller that waits has a live lookup for the host it asked for, and a
\* lookup lives only while somebody waits for it.
NobodyStranded ==
    /\ \A c \in Callers : pc[c] = "waiting" =>
          joined[c] \in Live /\ target[joined[c]] = asked[c]
    /\ \A l \in Live : Waiters(l) # {}

\* The map never outgrows the size at which the next sweep runs, which is at
\* most twice what the last sweep kept: expired answers and abandoned markers
\* of hosts nobody asks for again do not accumulate.
MapBounded == Cardinality(Occupied(slots)) <= sweep_at

\* A lookup under way is the one its host's slot points to, a caller that
\* waits has a live lookup for its host, and the map never outgrows the size
\* at which it is swept (lookup, settle, sweep of the caching resolver).
LookupsSound == TypeOK /\ MarkersMatch /\ NobodyStranded /\ MapBounded

Promise ==
    INSTANCE SingleFlight WITH
        queries <- [h \in Hosts |-> Cardinality({l \in Live : target[l] = h})],
        waits   <- [c \in Callers |-> IF pc[c] = "waiting" THEN asked[c] ELSE None]

\* "Concurrent lookups for the same host share one in-flight resolution":
\* the resolver implements the abstract single flight.
ImplementsSingleFlight == Promise!Spec

\* Every caller that waits is answered, or walks away by itself, whoever
\* started the lookup and whoever has walked away from it.
EveryoneAnswered == \A c \in Callers : pc[c] = "waiting" ~> pc[c] # "waiting"
=============================================================================
