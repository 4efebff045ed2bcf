---------------------------- MODULE ClientHints ----------------------------
(***************************************************************************)
(* The hints origins have asked for (chromulate-header/src/client_hints.rs *)
(* AcceptChStore): a map bounded by least recent use, whose eviction index *)
(* goes stale because a read only stamps the grant, and is put right by    *)
(* the eviction that meets it.                                             *)
(*                                                                         *)
(* A read holds a read lock for two steps, taking a number and storing it, *)
(* so that reads overlap; a record holds the write lock.                   *)
(***************************************************************************)
EXTENDS Integers, FiniteSets, FiniteSetsExt, Functions, TLC

CONSTANTS
    Origins, Readers, None,
    Hints,      \* the hints that are modelled
    Values,     \* Accept-CH values: sets of hint names, known or not
    Limit,
    MaxSeq

VARIABLES
    granted,     \* origin -> [hints, filed, access]
    by_access,   \* filed number -> origin
    next_seq,
    reading      \* reader -> [origin, seq], or None

vars == <<granted, by_access, next_seq, reading>>

Init ==
    /\ granted = <<>>
    /\ by_access = <<>>
    /\ next_seq = 0
    /\ reading = [r \in Readers |-> None]

\* parse_accept_ch
ParseAcceptCh(value) == value \cap Hints

\* Mutant: a candidate that has been read since it was filed goes all the same.
HastyTurn(state) ==
    LET first == Min(DOMAIN state.by_access)
        origin == state.by_access[first]
    IN  [granted |-> Restrict(state.granted, DOMAIN state.granted \ {origin}),
         by_access |-> Restrict(state.by_access, DOMAIN state.by_access \ {first})]

\* One turn of evict: the first filed goes, unless it was read since, when it
\* is filed again.
EvictTurn(state) ==
    LET first == Min(DOMAIN state.by_access)
        origin == state.by_access[first]
        access == state.granted[origin].access
        others == Restrict(state.by_access, DOMAIN state.by_access \ {first})
    IN  IF access > first
        THEN [granted |-> [state.granted EXCEPT ![origin].filed = access],
              by_access |-> (access :> origin) @@ others]
        ELSE [granted |-> Restrict(state.granted, DOMAIN state.granted \ {origin}),
              by_access |-> others]

\* evict
RECURSIVE Evicted(_)
Evicted(state) ==
    IF Cardinality(DOMAIN state.granted) <= Limit \/ state.by_access = <<>> THEN state
    ELSE Evicted(EvictTurn(state))

\* forget, and the first half of a record that replaces.
Forgotten(state, origin) ==
    IF origin \notin DOMAIN state.granted THEN state
    ELSE [granted |-> Restrict(state.granted, DOMAIN state.granted \ {origin}),
          by_access |-> Restrict(state.by_access, DOMAIN state.by_access \ {state.granted[origin].filed})]

Idle == \A r \in Readers : reading[r] = None

\* record, and clear where the value is that of every origin.
Record(origin, value) ==
    LET hints == ParseAcceptCh(value)
        left == Forgotten([granted |-> granted, by_access |-> by_access], origin)
        state == IF hints = {} THEN left
                 ELSE Evicted([granted |-> (origin :> [hints |-> hints, filed |-> next_seq, access |-> next_seq])
                                           @@ left.granted,
                               by_access |-> (next_seq :> origin) @@ left.by_access])
    IN  /\ Idle
        /\ next_seq < MaxSeq
        /\ granted' = state.granted
        /\ by_access' = state.by_access
        /\ next_seq' = IF hints = {} THEN next_seq ELSE next_seq + 1
        /\ UNCHANGED reading

Clear ==
    /\ Idle
    /\ granted' = <<>>
    /\ by_access' = <<>>
    /\ UNCHANGED <<next_seq, reading>>

\* granted_for: a number is taken ...
StartRead(r, origin) ==
    /\ reading[r] = None
    /\ origin \in DOMAIN granted
    /\ next_seq < MaxSeq
    /\ reading' = [reading EXCEPT ![r] = [origin |-> origin, seq |-> next_seq]]
    /\ next_seq' = next_seq + 1
    /\ UNCHANGED <<granted, by_access>>

\* ... and stored in the grant.
FinishRead(r) ==
    /\ reading[r] # None
    /\ granted' = [granted EXCEPT ![reading[r].origin].access = reading[r].seq]
    /\ reading' = [reading EXCEPT ![r] = None]
    /\ UNCHANGED <<by_access, next_seq>>

Next ==
    \/ \E origin \in Origins, value \in Values : Record(origin, value)
    \/ Clear
    \/ \E r \in Readers : (\E origin \in Origins : StartRead(r, origin)) \/ FinishRead(r)

Spec == Init /\ [][Next]_vars

-----------------------------------------------------------------------------

\* However stale reads have left it, the eviction index files every grant once
\* and nothing else, under a number no later than its last use, and the store is
\* within its limit (record, forget, evict).
GrantsIndexed ==
    /\ Cardinality(DOMAIN granted) <= Limit
    /\ DOMAIN by_access = {granted[o].filed : o \in DOMAIN granted}
    /\ \A o \in DOMAIN granted : by_access[granted[o].filed] = o /\ granted[o].filed <= granted[o].access

\* A grant that makes room for another is the least recently used one, reads
\* included (evict).
LeastUsedGoes ==
    [][next_seq' # next_seq =>
          \A gone \in DOMAIN granted \ DOMAIN granted', kept \in DOMAIN granted' :
              granted[gone].access <= granted'[kept].access]_vars
=============================================================================
