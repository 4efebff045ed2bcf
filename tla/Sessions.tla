------------------------------ MODULE Sessions ------------------------------
(***************************************************************************)
(* Which session a route speaks with (chromulate-http/src/session.rs).     *)
(*                                                                         *)
(* A session is a number: 0 is the one the engine was built with and the   *)
(* others are minted in order.  A task takes its place in the order of use *)
(* before it takes the lock, looks under the read lock and, on a miss,     *)
(* once more under the write lock, so that two tasks may miss together.    *)
(***************************************************************************)
EXTENDS Integers, FiniteSets, Functions, TLC

CONSTANTS
    Tasks, Proxies, None,
    Isolated,      \* whether routes keep a session each (ProxyIsolation)
    MaxRoutes,
    MaxSeq

VARIABLES
    routes,    \* proxy -> [session, last_use]
    seq,
    minted,    \* how many sessions have been minted
    task,      \* task -> None or [proxy, seq, at]
    serves,    \* ghost: session -> the routes it has answered
    evicted    \* ghost: the sessions eviction has dropped

vars == <<routes, seq, minted, task, serves, evicted>>

Base == 0

Max1(n) == IF n = 0 THEN 1 ELSE n

Init ==
    /\ routes = <<>>
    /\ seq = 0
    /\ minted = 0
    /\ task = [t \in Tasks |-> None]
    /\ serves = <<>>
    /\ evicted = {}

Answer(session, proxy) ==
    serves' = (session :> ({proxy} \cup IF session \in DOMAIN serves THEN serves[session] ELSE {})) @@ serves

\* for_route and existing_route where there is no map to consult: the base
\* session, or nothing at all for a label that is only looked up.
BaseRoute(t, proxy) ==
    /\ task[t] = None
    /\ ~Isolated \/ proxy = None
    /\ Answer(Base, proxy)
    /\ UNCHANGED <<routes, seq, minted, task, evicted>>

\* session_for and existing begin by taking a number.
Ask(t, proxy, at) ==
    /\ task[t] = None
    /\ Isolated /\ proxy # None
    /\ seq < MaxSeq
    /\ task' = [task EXCEPT ![t] = [proxy |-> proxy, seq |-> seq, at |-> at]]
    /\ seq' = seq + 1
    /\ UNCHANGED <<routes, minted, serves, evicted>>

\* for_route, for a request or for seed_session: mints what it does not find.
SeedSession(t, proxy) == Ask(t, proxy, "read")

\* with_session: a lookup that creates nothing.
WithSession(t, proxy) == Ask(t, proxy, "look")

\* The route is there, under either lock: its use is stamped.
Hit(t) ==
    LET proxy == task[t].proxy
    IN  /\ task[t] # None
        /\ proxy \in DOMAIN routes
        /\ routes' = [routes EXCEPT ![proxy].last_use = task[t].seq]
        /\ Answer(routes[proxy].session, proxy)
        /\ task' = [task EXCEPT ![t] = None]
        /\ UNCHANGED <<seq, minted, evicted>>

\* existing and the read half of session_for miss.
Miss(t) ==
    /\ task[t] # None
    /\ task[t].at # "write"
    /\ task[t].proxy \notin DOMAIN routes
    /\ task' = [task EXCEPT ![t] = IF @.at = "look" THEN None ELSE [@ EXCEPT !.at = "write"]]
    /\ UNCHANGED <<routes, seq, minted, serves, evicted>>

\* evict: the least recently used, which may be the newcomer.
Evict(known) ==
    IF Cardinality(DOMAIN known) <= Max1(MaxRoutes) THEN known
    ELSE Restrict(known, DOMAIN known \ {CHOOSE p \in DOMAIN known :
             \A other \in DOMAIN known : known[p].last_use <= known[other].last_use})

\* Mutant: the map is not looked at again under the write lock.
MintUnseen(t) ==
    LET proxy == task[t].proxy
        session == minted + 1
        known == (proxy :> [session |-> session, last_use |-> task[t].seq]) @@ routes
    IN  /\ task[t] # None
        /\ task[t].at = "write"
        /\ routes' = Evict(known)
        /\ evicted' = evicted \cup {known[p].session : p \in DOMAIN known \ DOMAIN routes'}
        /\ minted' = session
        /\ Answer(session, proxy)
        /\ task' = [task EXCEPT ![t] = None]
        /\ UNCHANGED seq

\* The write half of session_for: nobody has minted it meanwhile.
Mint(t) ==
    LET proxy == task[t].proxy
        session == minted + 1
        known == (proxy :> [session |-> session, last_use |-> task[t].seq]) @@ routes
    IN  /\ task[t] # None
        /\ task[t].at = "write"
        /\ proxy \notin DOMAIN routes
        /\ routes' = Evict(known)
        /\ evicted' = evicted \cup {known[p].session : p \in DOMAIN known \ DOMAIN routes'}
        /\ minted' = session
        /\ Answer(session, proxy)
        /\ task' = [task EXCEPT ![t] = None]
        /\ UNCHANGED seq

Next ==
    \E t \in Tasks :
        \/ \E proxy \in Proxies \cup {None} :
              BaseRoute(t, proxy) \/ SeedSession(t, proxy) \/ WithSession(t, proxy)
        \/ Hit(t)
        \/ Miss(t)
        \/ Mint(t)

Spec == Init /\ [][Next]_vars

-----------------------------------------------------------------------------

\* Whatever tasks miss together, a session answers for one exit only, the base
\* one for none while routes are kept apart, an exit has one session until
\* eviction takes it away, and no more exits than the cap hold one.
SessionsApart ==
    /\ Cardinality(DOMAIN routes) <= Max1(MaxRoutes)
    /\ Isolated => \A s \in DOMAIN serves :
          IF s = Base THEN serves[s] = {None} ELSE Cardinality(serves[s]) = 1
    /\ \A s \in 1..minted : s \in evicted \/ \E p \in DOMAIN routes : routes[p].session = s
=============================================================================
