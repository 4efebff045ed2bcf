---------------------------- MODULE SingleFlight ----------------------------
(***************************************************************************)
(* What CachingResolver promises its callers, with no cache, no slots and  *)
(* no handles: for each host at most one query is out, a caller waits only *)
(* while it is, everyone who waits is answered when it lands, and a query  *)
(* nobody waits for any more is given up.                                  *)
(***************************************************************************)
EXTENDS Integers

CONSTANTS Callers, Hosts, None

VARIABLES
    queries,  \* host -> the number of queries out for it
    waits     \* caller -> the host it waits for, or None

vars == <<queries, waits>>

Init ==
    /\ queries = [h \in Hosts |-> 0]
    /\ waits = [c \in Callers |-> None]

\* A caller whom no remembered answer serves starts the host's one query.
Start(c, h) ==
    /\ waits[c] = None
    /\ queries[h] = 0
    /\ queries' = [queries EXCEPT ![h] = 1]
    /\ waits' = [waits EXCEPT ![c] = h]

\* A caller that finds one under way waits for the same.
Join(c, h) ==
    /\ waits[c] = None
    /\ queries[h] = 1
    /\ waits' = [waits EXCEPT ![c] = h]
    /\ UNCHANGED queries

\* The query lands and answers everyone who waits for it.
Land(h) ==
    /\ queries[h] = 1
    /\ queries' = [queries EXCEPT ![h] = 0]
    /\ waits' = [c \in Callers |-> IF waits[c] = h THEN None ELSE waits[c]]

\* A caller walks away; the last one to do so takes the query with it.
Leave(c) ==
    LET h == waits[c]
    IN  /\ h # None
        /\ waits' = [waits EXCEPT ![c] = None]
        /\ queries' = [queries EXCEPT ![h] =
                          IF \E d \in Callers \ {c} : waits[d] = h THEN @ ELSE 0]

Next ==
    \/ \E c \in Callers : Leave(c) \/ \E h \in Hosts : Start(c, h) \/ Join(c, h)
    \/ \E h \in Hosts : Land(h)

Spec == Init /\ [][Next]_vars
=============================================================================
