-------------------------- MODULE FixedConcurrency --------------------------
(***************************************************************************)
(* The fixed per-origin concurrency limit                                  *)
(* (chromulate-concurrency/src/fixed.rs): a bounded store of gates, one    *)
(* semaphore per origin, used by concurrent requests.                      *)
(*                                                                         *)
(* A request fetches its sequence number, looks its gate up under the read *)
(* lock, looks again and inserts under the write lock, and only then       *)
(* acquires a permit from the semaphore it was handed; each of these is a  *)
(* step.  The semaphore is tokio's: first come, first served, a returned   *)
(* permit going straight to the head of the queue.  The caller's Ceiling,  *)
(* paid before any of this, is the subject of RateLimiter.                 *)
(***************************************************************************)
EXTENDS Integers, FiniteSets, SequencesExt

CONSTANTS
    Tasks,        \* concurrent requests
    Authorities,  \* the origins they go to
    None,         \* no gate, no authority
    Limit,        \* FixedConcurrency::limit, at least one (new)
    Capacity,     \* FixedConcurrency::capacity, at least one (with_capacity)
    SeqSize       \* where the use counter wraps (2^64 in the code)

ASSUME GatesAssumption ==
    /\ IsFiniteSet(Tasks) /\ IsFiniteSet(Authorities)
    /\ None \notin Nat /\ None \notin Authorities
    /\ Limit \in Nat \ {0} /\ Capacity \in Nat \ {0} /\ SeqSize \in Nat \ {0}

\* Semaphores, by allocation.  One that neither the store nor a request can
\* reach is freed; there are never more than this many.
Gates == 1 .. (Cardinality(Tasks) + Cardinality(Authorities) + 1)

VARIABLES
    seq,     \* the use counter
    store,   \* authority -> its gate, or None
    used,    \* authority -> last_use_seq of its entry
    free,    \* gate -> available_permits
    queue,   \* gate -> requests waiting for a permit, in order
    stage,   \* where each request is
    auth,    \* the authority a request is for
    tick,    \* the sequence number it fetched
    gate     \* the gate it was handed

gateVars == <<seq, store, used, free, queue, stage, auth, tick, gate>>

-----------------------------------------------------------------------------

Holders(g) == {t \in Tasks : stage[t] = "holding" /\ gate[t] = g}
Remembered == {a \in Authorities : store[a] # None}

\* Gates reachable from the store or from a request.
Live == {store[a] : a \in Remembered}
            \cup {gate[t] : t \in {u \in Tasks : gate[u] # None}}

Unused == CHOOSE g \in Gates : g \notin Live

PurgeTarget ==
    LET batch == IF Capacity \div 16 > 1 THEN Capacity \div 16 ELSE 1
    IN  IF Capacity - batch > 1 THEN Capacity - batch ELSE 1

\* Mutant: the entry that triggered the purge is not protected.
UnprotectedCandidates(s, protect) ==
    {a \in Authorities : s[a] # None /\ free[s[a]] = Limit}

\* The entries evict() may remove: not `protect`, and with every slot in.
Candidates(s, protect) ==
    {a \in Authorities \ {protect} : s[a] # None /\ free[s[a]] = Limit}

\* The entries evict() removes from the store s, whose newest entry `protect`
\* carries sequence number n: none within the capacity; beyond it the least
\* recently used candidates, down to the purge target.
Victims(s, n, protect) ==
    LET size   == Cardinality({a \in Authorities : s[a] # None})
        doomed == size - PurgeTarget
        cands  == Candidates(s, protect)
        number == IF doomed <= Cardinality(cands) THEN doomed ELSE Cardinality(cands)
        rank   == [used EXCEPT ![protect] = n]
    IN  IF size <= Capacity THEN {{}}
        ELSE {v \in SUBSET cands :
                 /\ Cardinality(v) = number
                 /\ \A x \in v, y \in cands \ v : rank[x] <= rank[y]}

-----------------------------------------------------------------------------

GatesInit ==
    /\ seq = 0
    /\ store = [a \in Authorities |-> None]
    /\ used = [a \in Authorities |-> 0]
    /\ free = [g \in Gates |-> Limit]
    /\ queue = [g \in Gates |-> <<>>]
    /\ stage = [t \in Tasks |-> "idle"]
    /\ auth = [t \in Tasks |-> None]
    /\ tick = [t \in Tasks |-> 0]
    /\ gate = [t \in Tasks |-> None]

Goto(t, label) == stage' = [stage EXCEPT ![t] = label]

\* gate_for: the use counter is fetched before any lock is taken.
FetchSeq(t, a) ==
    /\ stage[t] = "idle"
    /\ Goto(t, "looking")
    /\ auth' = [auth EXCEPT ![t] = a]
    /\ tick' = [tick EXCEPT ![t] = seq]
    /\ seq' = (seq + 1) % SeqSize
    /\ UNCHANGED <<store, used, free, queue, gate>>

\* A lookup that finds the gate stamps it and hands it out.
Found(t) ==
    LET g == store[auth[t]]
    IN  /\ g # None
        /\ used' = [used EXCEPT ![auth[t]] = tick[t]]
        /\ gate' = [gate EXCEPT ![t] = g]
        /\ tick' = [tick EXCEPT ![t] = 0]
        /\ Goto(t, "acquiring")
        /\ UNCHANGED <<seq, store, free, queue, auth>>

\* Under the read lock.
ReadLookup(t) ==
    /\ stage[t] = "looking"
    /\ \/ Found(t)
       \/ /\ store[auth[t]] = None
          /\ Goto(t, "missed")
          /\ UNCHANGED <<seq, store, used, free, queue, auth, tick, gate>>

\* Under the write lock: look again, or insert a fresh gate and evict.
WriteLookup(t) ==
    /\ stage[t] = "missed"
    /\ \/ Found(t)
       \/ LET own == auth[t]
              g   == Unused
          IN  /\ store[own] = None
              /\ \E victims \in Victims([store EXCEPT ![own] = g], tick[t], own) :
                    /\ store' = [x \in Authorities |->
                                    CASE x \in victims -> None
                                      [] x = own /\ x \notin victims -> g
                                      [] OTHER -> store[x]]
                    /\ used' = [x \in Authorities |->
                                    CASE x \in victims -> 0
                                      [] x = own /\ x \notin victims -> tick[t]
                                      [] OTHER -> used[x]]
              /\ free' = [free EXCEPT ![g] = Limit]
              /\ queue' = [queue EXCEPT ![g] = <<>>]
              /\ gate' = [gate EXCEPT ![t] = g]
              /\ tick' = [tick EXCEPT ![t] = 0]
              /\ Goto(t, "acquiring")
              /\ UNCHANGED <<seq, auth>>

\* acquire_owned: a permit at once, or a place in the queue.
AcquireOwned(t) ==
    /\ stage[t] = "acquiring"
    /\ LET g == gate[t]
       IN  \/ /\ free[g] > 0
              /\ free' = [free EXCEPT ![g] = @ - 1]
              /\ Goto(t, "holding")
              /\ UNCHANGED queue
           \/ /\ free[g] = 0
              /\ queue' = [queue EXCEPT ![g] = Append(@, t)]
              /\ Goto(t, "queued")
              /\ UNCHANGED free
    /\ UNCHANGED <<seq, store, used, auth, tick, gate>>

\* The request forgets its authority and its gate.
Leave(t) ==
    /\ auth' = [auth EXCEPT ![t] = None]
    /\ gate' = [gate EXCEPT ![t] = None]

\* Mutant: the permit handed to the next in line is counted as free too.
DoubleRelease(t) ==
    LET g == gate[t]
    IN  /\ stage[t] = "holding"
        /\ Leave(t)
        /\ free' = [free EXCEPT ![g] = @ + 1]
        /\ IF queue[g] = <<>>
           THEN Goto(t, "idle") /\ UNCHANGED queue
           ELSE /\ queue' = [queue EXCEPT ![g] = Tail(@)]
                /\ stage' = [stage EXCEPT ![t] = "idle", ![Head(queue[g])] = "holding"]
        /\ UNCHANGED <<seq, store, used, tick>>

\* A FixedLease completed or dropped: its permit goes to the head of the
\* queue, or back to the semaphore.
Release(t) ==
    LET g == gate[t]
    IN  /\ stage[t] = "holding"
        /\ Leave(t)
        /\ \/ /\ queue[g] = <<>>
              /\ free' = [free EXCEPT ![g] = @ + 1]
              /\ Goto(t, "idle")
              /\ UNCHANGED queue
           \/ /\ queue[g] # <<>>
              /\ queue' = [queue EXCEPT ![g] = Tail(@)]
              /\ stage' = [stage EXCEPT ![t] = "idle", ![Head(queue[g])] = "holding"]
              /\ UNCHANGED free
        /\ UNCHANGED <<seq, store, used, tick>>

\* The caller drops the acquire future while it is queued.
Cancel(t) ==
    /\ stage[t] = "queued"
    /\ Leave(t)
    /\ \E n \in 1 .. Len(queue[gate[t]]) :
          /\ queue[gate[t]][n] = t
          /\ queue' = [queue EXCEPT ![gate[t]] = RemoveAt(@, n)]
    /\ Goto(t, "idle")
    /\ UNCHANGED <<seq, store, used, free, tick>>

Forget(a) ==
    /\ store[a] # None
    /\ store' = [store EXCEPT ![a] = None]
    /\ used' = [used EXCEPT ![a] = 0]
    /\ UNCHANGED <<seq, free, queue, stage, auth, tick, gate>>

Step ==
    \E t \in Tasks :
       \/ \E a \in Authorities : FetchSeq(t, a)
       \/ ReadLookup(t) \/ WriteLookup(t) \/ AcquireOwned(t)
       \/ Release(t) \/ Cancel(t)

GatesNext == Step \/ \E a \in Authorities : Forget(a)

GatesSpec == GatesInit /\ [][GatesNext]_gateVars

\* The store as it is when nobody calls forget().
EvictionSpec == GatesInit /\ [][Step]_gateVars

-----------------------------------------------------------------------------
(* Properties. *)

\* Gates, entries, counters and requests have their types.
GatesTypeOK ==
    /\ seq \in 0 .. SeqSize - 1
    /\ store \in [Authorities -> Gates \cup {None}]
    /\ used \in [Authorities -> 0 .. SeqSize - 1]
    /\ free \in [Gates -> 0 .. Limit]
    /\ queue \in [Gates -> Seq(Tasks)]
    /\ stage \in [Tasks -> {"idle", "looking", "missed", "acquiring", "queued", "holding"}]
    /\ auth \in [Tasks -> Authorities \cup {None}]
    /\ tick \in [Tasks -> 0 .. SeqSize - 1]
    /\ gate \in [Tasks -> Gates \cup {None}]

\* Every semaphore in use has each of its permits either in or with exactly
\* one holder, through hand-overs, cancellations, forgetting and eviction, so
\* no gate ever grants more than the limit; and nobody queues at a gate with a
\* permit in, which is why evict() may take "every permit in" for idle.
GateSound ==
    /\ GatesTypeOK
    /\ \A g \in Live :
          /\ free[g] + Cardinality(Holders(g)) = Limit
          /\ queue[g] # <<>> => free[g] = 0

\* A gate somebody holds a slot of, or queues at, leaves the store only by
\* forget(): no insertion of another origin evicts it.
BusyGatesKept ==
    [][\A a \in Authorities :
          /\ store[a] # None /\ store'[a] # store[a]
          /\ Holders(store[a]) # {} \/ queue[store[a]] # <<>>
          => Forget(a)]_gateVars

\* The entry an insertion makes survives the eviction it triggers, even when
\* the use counter has wrapped and the newcomer ranks lowest.
NewcomerKept ==
    [][\A t \in Tasks :
          stage[t] = "missed" /\ stage'[t] = "acquiring"
             => store'[auth[t]] = gate'[t]]_gateVars

\* An insertion leaves at most `capacity` entries beyond those of the origins
\* with a request in flight.
StoreBounded ==
    [][LET busy == {a \in Remembered : Holders(store[a]) # {}}
       IN  Cardinality(Remembered') > Cardinality(Remembered)
              => Cardinality(Remembered') <= Capacity + Cardinality(busy)]_gateVars

\* The store of gates: an entry in use leaves it only by forget(), the newcomer
\* survives the eviction it triggers, and the bound holds (gate_for, evict).
GatesKept == BusyGatesKept /\ NewcomerKept /\ StoreBounded

\* "At most `limit` requests in flight per origin."
AtMostLimitPerOrigin ==
    \A a \in Authorities :
       Cardinality({t \in Tasks : stage[t] = "holding" /\ auth[t] = a}) <= Limit
=============================================================================
