-------------------------------- MODULE Pool --------------------------------
(***************************************************************************)
(* The connection pool (chromulate-http/src/pool.rs) and the exchanges     *)
(* that use it: Engine::acquire and send_on (engine.rs) and the response   *)
(* body that carries an HTTP/1.1 connection back (body.rs).                *)
(*                                                                         *)
(* A PoolKey holds its protocol, so the two maps never share a key: `idle` *)
(* is indexed here by the origin of an HTTP/1.1 key and `multiplexed` by   *)
(* the origin of an HTTP/2 key.  Each critical section of the pool's mutex *)
(* is one step.  Instants are kept as ages that stop growing once the      *)
(* code can no longer tell them apart, so time itself is not bounded.      *)
(***************************************************************************)
EXTENDS Integers, FiniteSets, SequencesExt

CONSTANTS
    Tasks,    \* concurrent exchanges
    Origins,  \* scheme, host, port, proxy and identity of a PoolKey
    Conns,    \* connections, by allocation
    None,     \* Option::None
    Setups    \* the pools considered: a PoolConfig, and the origins behind TLS

ASSUME PoolAssumption ==
    /\ IsFiniteSet(Origins) /\ IsFiniteSet(Tasks) /\ IsFiniteSet(Conns)
    /\ None \notin Conns /\ None \notin Origins
    /\ \A s \in Setups :
          /\ s.secure \subseteq Origins
          /\ s.idle_timeout \in Nat
          /\ s.max_per_host \in Nat \ {0} /\ s.max_total \in Nat \ {0}

VARIABLES
    setup,        \* the pool's setup, which nothing changes
    idle,         \* origin -> sequence of Idle entries, oldest push first
    multiplexed,  \* origin -> the registered HTTP/2 connection, or None
    idle_held,    \* PoolState::idle_held
    since_sweep,  \* age of last_sweep, up to a quarter of the idle timeout
    closed,       \* connections whose sender reports is_closed
    unread,       \* HTTP/1.1 connections with a response still on the wire
    pc, to, conn  \* each exchange: where it is, its origin, its connection

vars == <<setup, idle, multiplexed, idle_held, since_sweep, closed, unread, pc, to, conn>>
pool == <<idle, multiplexed, idle_held, since_sweep>>

\* The origins reached over TLS, where ALPN may pick HTTP/2, and PoolConfig;
\* the timeout is in sweep intervals * 4.
Secure == setup.secure
IdleTimeout == setup.idle_timeout
MaxPerHost == setup.max_per_host
MaxTotal == setup.max_total

SweepEvery == IdleTimeout \div 4
Idle == [conn: Conns, age: 0 .. IdleTimeout]

-----------------------------------------------------------------------------

\* The idle entries, by origin and place, and the connections they hold.
Entries(i) == UNION {{o} \X (1 .. Len(i[o])) : o \in Origins}
Pooled(i) == {i[e[1]][e[2]].conn : e \in Entries(i)}

Fresh(entry) == entry.age < IdleTimeout /\ entry.conn \notin closed
Registered(m) == {o \in Origins : m[o] # None}

\* Everything in the pool or with an exchange.
InUse == {conn[t] : t \in {u \in Tasks : conn[u] # None}}
InPool == Pooled(idle) \cup {multiplexed[o] : o \in Registered(multiplexed)}

\* Vec::retain: what q holds at the places G, in its order.
Retain(q, G) ==
    [n \in 1 .. Cardinality(G) |-> q[CHOOSE i \in G : Cardinality({j \in G : j <= i}) = n]]

\* PoolState as one value, for the helpers that run under the lock.
State(i, m, h, s) == [idle |-> i, multiplexed |-> m, idle_held |-> h, since_sweep |-> s]
Now == State(idle, multiplexed, idle_held, since_sweep)
Becomes(s) ==
    /\ idle' = s.idle
    /\ multiplexed' = s.multiplexed
    /\ idle_held' = s.idle_held
    /\ since_sweep' = s.since_sweep

\* evict_expired: keep what is fresh, and recount.
EvictExpired(s) ==
    LET kept == [o \in Origins |->
                    Retain(s.idle[o], {n \in 1 .. Len(s.idle[o]) : Fresh(s.idle[o][n])})]
        live == [o \in Origins |->
                    IF s.multiplexed[o] \in closed THEN None ELSE s.multiplexed[o]]
    IN  State(kept, live, Cardinality(Entries(kept)), s.since_sweep)

\* sweep_if_due: at most one sweep per quarter of the idle timeout.
SweepIfDue(s) ==
    IF s.since_sweep < SweepEvery THEN s
    ELSE EvictExpired(State(s.idle, s.multiplexed, s.idle_held, 0))

\* evict_oldest: the states it may leave, over the entries idle for longest.
EvictOldest(s) ==
    LET oldest == {e \in Entries(s.idle) : \A f \in Entries(s.idle) :
                      s.idle[f[1]][f[2]].age <= s.idle[e[1]][e[2]].age}
    IN  IF oldest = {} THEN {s}
        ELSE {State([s.idle EXCEPT ![e[1]] = RemoveAt(@, e[2])], s.multiplexed,
                    s.idle_held - 1, s.since_sweep) : e \in oldest}

\* Mutant: a full bucket gives up its oldest entry and the count is not told.
DriftingPush(s, o, c) ==
    LET bucket == IF Len(s.idle[o]) >= MaxPerHost THEN Tail(s.idle[o]) ELSE s.idle[o]
    IN  State([s.idle EXCEPT ![o] = Append(bucket, [conn |-> c, age |-> 0])],
              s.multiplexed, s.idle_held + 1, s.since_sweep)

\* The push at the end of release, into a bucket that may be full.
Push(s, o, c) ==
    LET full   == Len(s.idle[o]) >= MaxPerHost
        bucket == IF full THEN Tail(s.idle[o]) ELSE s.idle[o]
        held   == IF full THEN s.idle_held - 1 ELSE s.idle_held
    IN  State([s.idle EXCEPT ![o] = Append(bucket, [conn |-> c, age |-> 0])],
              s.multiplexed, held + 1, s.since_sweep)

\* release() of a usable HTTP/1.1 connection.
ReleasedIdle(o, c) ==
    LET swept == SweepIfDue(Now)
    IN  {Push(s, o, c) :
            s \in IF swept.idle_held >= MaxTotal THEN EvictOldest(swept) ELSE {swept}}

\* Mutant: at the cap another origin's registration makes room.
EvictingReleasedMultiplexed(o, c) ==
    LET s == SweepIfDue(Now)
        room == CHOOSE x \in Registered(s.multiplexed) : TRUE
        m == IF Cardinality(Registered(s.multiplexed)) >= MaxTotal
             THEN [s.multiplexed EXCEPT ![room] = None] ELSE s.multiplexed
    IN  State(s.idle, [m EXCEPT ![o] = c], s.idle_held, s.since_sweep)

\* release() of a usable HTTP/2 connection: a live registration stays, a dead
\* one is replaced, and at the cap a new origin is not pooled.
ReleasedMultiplexed(o, c) ==
    LET s   == SweepIfDue(Now)
        old == s.multiplexed[o]
    IN  IF \/ old # None /\ old \notin closed
           \/ old = None /\ Cardinality(Registered(s.multiplexed)) >= MaxTotal
        THEN s
        ELSE State(s.idle, [s.multiplexed EXCEPT ![o] = c], s.idle_held, s.since_sweep)

-----------------------------------------------------------------------------

Init ==
    /\ setup \in Setups
    /\ idle = [o \in Origins |-> <<>>]
    /\ multiplexed = [o \in Origins |-> None]
    /\ idle_held = 0
    /\ since_sweep = 0
    /\ closed = {} /\ unread = {}
    /\ pc = [t \in Tasks |-> "idle"]
    /\ to = [t \in Tasks |-> None]
    /\ conn = [t \in Tasks |-> None]

Goto(t, label) == pc' = [pc EXCEPT ![t] = label]

\* The exchange is over; a connection only it held is gone.
Ended(t) ==
    /\ Goto(t, "idle")
    /\ to' = [to EXCEPT ![t] = None]
    /\ conn' = [conn EXCEPT ![t] = None]

\* Engine::acquire walks candidate_keys, HTTP/2 first for a secure origin.
\* checkout of that key: a usable connection is cloned, a dead one removed.
CheckoutMultiplexed(t, o) ==
    LET c == multiplexed[o]
    IN  /\ pc[t] = "idle" /\ o \in Secure
        /\ to' = [to EXCEPT ![t] = o]
        /\ \/ /\ c # None /\ c \notin closed
              /\ conn' = [conn EXCEPT ![t] = c]
              /\ Goto(t, "using2")
              /\ UNCHANGED multiplexed
           \/ /\ c = None \/ c \in closed
              /\ multiplexed' = [multiplexed EXCEPT ![o] = None]
              /\ Goto(t, "fallback")
              /\ UNCHANGED conn
        /\ UNCHANGED <<idle, idle_held, since_sweep, closed, unread>>

\* The HTTP/1.1 key is the only one of a plain origin, the second of a secure.
AsksFor(t, o) ==
    \/ pc[t] = "idle" /\ o \notin Secure
    \/ pc[t] = "fallback" /\ to[t] = o

\* checkout of the HTTP/1.1 key: pop from the end until an entry is fresh.
CheckoutIdle(t, o) ==
    LET good == {n \in 1 .. Len(idle[o]) : Fresh(idle[o][n])}
        Drops(left) == /\ idle' = [idle EXCEPT ![o] = SubSeq(@, 1, left)]
                       /\ idle_held' = idle_held - (Len(idle[o]) - left)
    IN  /\ AsksFor(t, o)
        /\ to' = [to EXCEPT ![t] = o]
        /\ \/ /\ good = {}
              /\ Drops(0)
              /\ Goto(t, "connecting")
              /\ UNCHANGED <<conn, unread>>
           \/ \E n \in good :
                 /\ \A m \in good : m <= n
                 /\ Drops(n - 1)
                 /\ conn' = [conn EXCEPT ![t] = idle[o][n].conn]
                 /\ unread' = unread \cup {idle[o][n].conn}
                 /\ Goto(t, "using1")
        /\ UNCHANGED <<multiplexed, since_sweep, closed>>

\* Connector::connect: a new connection, in the protocol ALPN settled on.
Connect(t) ==
    /\ pc[t] = "connecting"
    /\ Conns \ (InUse \cup InPool) # {}
    /\ LET c == CHOOSE c \in Conns \ (InUse \cup InPool) : TRUE
       IN  /\ conn' = [conn EXCEPT ![t] = c]
           /\ closed' = closed \ {c}
           /\ \/ /\ Goto(t, "using1")
                 /\ unread' = unread \cup {c}
              \/ /\ to[t] \in Secure
                 /\ Goto(t, "opened")
                 /\ unread' = unread \ {c}
    /\ UNCHANGED <<pool, to>>

\* Engine::acquire registers a fresh HTTP/2 connection before it is used.
Register(t) ==
    /\ pc[t] = "opened"
    /\ IF conn[t] \in closed THEN UNCHANGED pool
       ELSE Becomes(ReleasedMultiplexed(to[t], conn[t]))
    /\ Goto(t, "using2")
    /\ UNCHANGED <<closed, unread, to, conn>>

\* send_on and ReleasingStream: the head arrives, the body of the HTTP/1.1
\* response ends cleanly, and its connection goes back if it is still usable.
EndBody(t) ==
    /\ pc[t] = "using1"
    /\ unread' = unread \ {conn[t]}
    /\ IF conn[t] \in closed THEN UNCHANGED pool
       ELSE \E s \in ReleasedIdle(to[t], conn[t]) : Becomes(s)
    /\ Ended(t)
    /\ UNCHANGED closed

\* Mutant: a body that is abandoned gives its connection back too.
RecyclingAbandon(t) ==
    /\ pc[t] = "using1"
    /\ \E s \in ReleasedIdle(to[t], conn[t]) : Becomes(s)
    /\ Ended(t)
    /\ UNCHANGED <<closed, unread>>

\* An HTTP/1.1 exchange fails, times out or is dropped before its body ended:
\* the PoolSlot, or the sender, is dropped with its connection.
Abandon(t) ==
    /\ pc[t] = "using1"
    /\ closed' = closed \ {conn[t]}
    /\ unread' = unread \ {conn[t]}
    /\ Ended(t)
    /\ UNCHANGED pool

\* An HTTP/2 exchange ends, however it does, or connecting fails: there is
\* nothing to give back.
Finish(t) ==
    /\ pc[t] \in {"connecting", "using2"}
    /\ Ended(t)
    /\ UNCHANGED <<pool, closed, unread>>

\* The peer closes a connection.
Close(c) ==
    /\ c \in InUse \cup InPool
    /\ c \notin closed
    /\ closed' = closed \cup {c}
    /\ UNCHANGED <<pool, unread, pc, to, conn>>

Tick ==
    /\ \/ since_sweep < SweepEvery
       \/ \E o \in Origins : \E n \in 1 .. Len(idle[o]) : idle[o][n].age < IdleTimeout
    /\ idle' = [o \in Origins |-> [n \in 1 .. Len(idle[o]) |->
                   [idle[o][n] EXCEPT !.age = IF @ < IdleTimeout THEN @ + 1 ELSE @]]]
    /\ since_sweep' = IF since_sweep < SweepEvery THEN since_sweep + 1 ELSE since_sweep
    /\ UNCHANGED <<multiplexed, idle_held, closed, unread, pc, to, conn>>

Clear ==
    /\ idle' = [o \in Origins |-> <<>>]
    /\ multiplexed' = [o \in Origins |-> None]
    /\ idle_held' = 0
    /\ UNCHANGED <<since_sweep, closed, unread, pc, to, conn>>

Step ==
    \/ \E t \in Tasks :
          \/ \E o \in Origins : CheckoutMultiplexed(t, o) \/ CheckoutIdle(t, o)
          \/ Connect(t) \/ Register(t) \/ EndBody(t) \/ Abandon(t) \/ Finish(t)
    \/ \E c \in Conns : Close(c)
    \/ Tick
    \/ Clear

Next == Step /\ UNCHANGED setup

Spec == Init /\ [][Next]_vars

-----------------------------------------------------------------------------
(* Properties. *)

\* Buckets, registrations, the count and the tasks have their types.
TypeOK ==
    /\ setup \in Setups
    /\ idle \in [Origins -> Seq(Idle)]
    /\ multiplexed \in [Origins -> Conns \cup {None}]
    /\ idle_held \in Nat
    /\ since_sweep \in 0 .. SweepEvery
    /\ closed \subseteq Conns /\ unread \subseteq Conns
    /\ pc \in [Tasks -> {"idle", "fallback", "connecting", "opened", "using1", "using2"}]
    /\ to \in [Tasks -> Origins \cup {None}]
    /\ conn \in [Tasks -> Conns \cup {None}]

\* The hand-kept counter is the number of idle entries, through pops, full
\* buckets, evictions, sweeps and clear(), and the caps it is kept for hold:
\* max_total in each population and max_per_host in each bucket.
HeldExact ==
    /\ idle_held = Cardinality(Entries(idle))
    /\ idle_held <= MaxTotal
    /\ \A o \in Origins : Len(idle[o]) <= MaxPerHost
    /\ Cardinality(Registered(multiplexed)) <= MaxTotal

\* Every bucket stays ordered by age, so the entry a full bucket gives up is
\* its oldest and the one checkout takes is its newest.
OldestFirst ==
    \A o \in Origins : \A m, n \in 1 .. Len(idle[o]) :
       m <= n => idle[o][m].age >= idle[o][n].age

\* The pool's hand-kept count is the number of idle connections and stays
\* within its caps, and every bucket is ordered by age, so that what a full
\* one gives up is its oldest (release, checkout, evict_oldest).
CountExact == TypeOK /\ HeldExact /\ OldestFirst

\* The HTTP/1.1 exchanges under way.
Exclusive == {t \in Tasks : pc[t] = "using1"}

\* An HTTP/1.1 connection serves one exchange at a time: no two exchanges
\* share one, none is in the pool while an exchange has it, and the pool holds
\* none twice.
OneUserPerConnection ==
    /\ \A t \in Exclusive : /\ conn[t] \notin InPool
                            /\ \A u \in Tasks \ {t} : conn[u] # conn[t]
    /\ \A e, f \in Entries(idle) :
          idle[e[1]][e[2]].conn = idle[f[1]][f[2]].conn => e = f

\* A connection with a response still on the wire is never pooled: a body that
\* fails, times out or is dropped early takes its connection with it.
NoHalfReadReuse == Pooled(idle) \cap unread = {}

\* An HTTP/1.1 connection serves one exchange at a time, and is pooled again
\* only when its response was read (checkout, ReleasingStream, PoolSlot).
ConnectionsExclusive == OneUserPerConnection /\ NoHalfReadReuse

\* A live registered HTTP/2 connection stays registered until clear(): no
\* release, sweep or cap makes the next request open a second one.
RegistrationsKept ==
    [][\A o \in Origins :
          multiplexed[o] # None /\ multiplexed[o] \notin closed
             => multiplexed'[o] = multiplexed[o] \/ Clear]_vars
=============================================================================
