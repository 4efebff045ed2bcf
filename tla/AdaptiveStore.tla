--------------------------- MODULE AdaptiveStore ----------------------------
(***************************************************************************)
(* The origins the adaptive controller remembers                           *)
(* (chromulate-concurrency/src/adaptive.rs: Store, state_for, forget).     *)
(* AdaptiveConcurrency models how one entry's limit moves; here an entry   *)
(* is the slots it has out, when it was last looked up, and whether it has *)
(* learned something eviction should not throw away.  The limit is fixed.  *)
(***************************************************************************)
EXTENDS Integers, FiniteSets, FiniteSetsExt, Functions, TLC

CONSTANTS Tasks, Authorities, Capacity, Limit, MaxSeq

VARIABLES
    store,     \* authority -> entry, a key of entries
    entries,   \* the entries someone still refers to: [in_flight, last_use_seq, has_lesson]
    seq,
    task       \* task -> [at, authority, entry]

vars == <<store, entries, seq, task>>

Idle == [at |-> "idle", authority |-> 0, entry |-> 0, seq |-> 0]

Init == store = <<>> /\ entries = <<>> /\ seq = 0 /\ task = [t \in Tasks |-> Idle]

Drop1(f, keys) == Restrict(f, DOMAIN f \ keys)

\* An entry lives as long as the store or a task refers to it.
Referred(f, origins, tasks) == Restrict(f, {e \in DOMAIN f : e \in Range(origins) \/ \E t \in Tasks : tasks[t].entry = e})

\* purge_batch, purge_target
PurgeBatch == Max({Capacity \div 16, 1})
PurgeTarget == Max({Capacity - PurgeBatch, 1})

\* Mutant: an entry whose slots are out is a candidate like any other.
AnyCandidate(origins, protect, locked) == DOMAIN origins \ {protect}

\* The entries evict looks at: neither the newcomer, nor one that is locked, nor
\* one with a request in flight.
Candidates(origins, protect, locked) ==
    {a \in DOMAIN origins \ {protect} :
        origins[a] \notin locked /\ entries[origins[a]].in_flight = 0}

\* The rank (has_lesson, last_use_seq): the smallest go.
Worse(origins, a, b) ==
    LET ea == entries[origins[a]]
        eb == entries[origins[b]]
    IN  IF ea.has_lesson # eb.has_lesson THEN eb.has_lesson ELSE ea.last_use_seq < eb.last_use_seq

\* evict
Evict(origins, protect, locked) ==
    LET candidates == Candidates(origins, protect, locked)
        doomed == Cardinality(DOMAIN origins) - PurgeTarget
        victims == {a \in candidates : Cardinality({b \in candidates : Worse(origins, b, a)}) < doomed}
    IN  IF Cardinality(DOMAIN origins) <= Capacity THEN origins ELSE Drop1(origins, victims)

-----------------------------------------------------------------------------

\* state_for: the sequence number is taken before any lock.  Authorities are
\* numbers, and the order in which they first come gives them theirs.
Ask(t, a) ==
    /\ task[t].at = "idle"
    /\ seq < MaxSeq
    /\ a <= seq + 1
    /\ seq' = seq + 1
    /\ task' = [task EXCEPT ![t] = [at |-> "asking", authority |-> a, entry |-> 0, seq |-> seq]]
    /\ UNCHANGED <<store, entries>>

Found(t) ==
    /\ entries' = [entries EXCEPT ![store[task[t].authority]].last_use_seq = task[t].seq]
    /\ task' = [task EXCEPT ![t].at = "looked up", ![t].entry = store[task[t].authority]]
    /\ UNCHANGED <<store, seq>>

\* The lookup under the read lock.
ReadLookup(t) ==
    /\ task[t].at = "asking"
    /\ IF task[t].authority \in DOMAIN store THEN Found(t)
       ELSE task' = [task EXCEPT ![t].at = "missed"] /\ UNCHANGED <<store, entries, seq>>

\* The lookup again under the write lock, and the insertion with its purge.  An
\* entry another task has in hand may be locked at that moment.
WriteLookup(t) ==
    /\ task[t].at = "missed"
    /\ IF task[t].authority \in DOMAIN store THEN Found(t)
       ELSE LET a == task[t].authority
                made == Min((1..(Cardinality(DOMAIN entries) + 1)) \ DOMAIN entries)
                new == [in_flight |-> 0, last_use_seq |-> task[t].seq, has_lesson |-> FALSE]
            IN  /\ \E locked \in SUBSET {task[u].entry : u \in Tasks \ {t}} :
                      store' = Evict((a :> made) @@ store, a, locked)
                /\ task' = [task EXCEPT ![t].at = "looked up", ![t].entry = made]
                /\ entries' = Referred((made :> new) @@ entries, store', task')
                /\ UNCHANGED seq

\* acquire_authority, once it has paused and paid: take_slot.
TakeSlot(t) ==
    /\ task[t].at = "looked up"
    /\ entries[task[t].entry].in_flight < Limit
    /\ entries' = [entries EXCEPT ![task[t].entry].in_flight = @ + 1]
    /\ task' = [task EXCEPT ![t].at = "holding"]
    /\ UNCHANGED <<store, seq>>

\* The permit is returned, with or without a signal that teaches.
Release(t, teaches) ==
    /\ task[t].at = "holding"
    /\ task' = [task EXCEPT ![t] = Idle]
    /\ entries' = Referred([entries EXCEPT ![task[t].entry].in_flight = @ - 1,
                                           ![task[t].entry].has_lesson = @ \/ teaches], store, task')
    /\ UNCHANGED <<store, seq>>

\* The acquire future is dropped while it pauses, pays or waits.
Cancel(t) ==
    /\ task[t].at = "looked up"
    /\ task' = [task EXCEPT ![t] = Idle]
    /\ entries' = Referred(entries, store, task')
    /\ UNCHANGED <<store, seq>>

Forget(a) ==
    /\ a \in DOMAIN store
    /\ store' = Drop1(store, {a})
    /\ entries' = Referred(entries, store', task)
    /\ UNCHANGED <<seq, task>>

Next ==
    \/ \E t \in Tasks :
          \/ \E a \in Authorities : Ask(t, a)
          \/ ReadLookup(t) \/ WriteLookup(t) \/ TakeSlot(t) \/ Cancel(t)
          \/ \E teaches \in BOOLEAN : Release(t, teaches)
    \/ \E a \in Authorities : Forget(a)

Spec == Init /\ [][Next]_vars

-----------------------------------------------------------------------------

Busy(a) == entries[store[a]].in_flight > 0

\* Past its capacity the store only holds what is in use: it never outgrows
\* both its capacity and the number of requests under way (Store::evict).
StoreBounded == Cardinality(DOMAIN store) <= Max({Capacity, Cardinality(Tasks)})

\* A purge never drops an origin with a slot out, which would let the next
\* lookup grant the origin a fresh set; and an origin that taught nothing goes
\* before one that did, unless someone has it in hand (Store::evict).
PurgeSpares ==
    [][LET gone == DOMAIN store \ DOMAIN store'
       IN  Cardinality(DOMAIN store') >= Cardinality(DOMAIN store) \/ Cardinality(gone) > 1 =>
               /\ \A a \in gone : ~Busy(a)
               /\ \A a \in gone, kept \in DOMAIN store \cap DOMAIN store' :
                     entries[store[a]].has_lesson =>
                         \/ entries[store[kept]].has_lesson
                         \/ \E t \in Tasks : task[t].entry = store[kept]]_vars

\* The store stays within bounds without forgetting what is in use.
OriginsRemembered == []StoreBounded /\ PurgeSpares
=============================================================================
