---------------------------- MODULE RateLimiter ----------------------------
(***************************************************************************)
(* The token bucket (chromulate-http/src/middleware/rate_limit.rs), shared *)
(* by every request through the middleware and by a concurrency            *)
(* controller's Ceiling.                                                   *)
(*                                                                         *)
(* Units: a tick is the time the bucket takes to gain one unit of credit,  *)
(* and a request costs Cost units, so the rate is 1 / Cost requests per    *)
(* tick whatever per_second is, and fractions of a token are whole units.  *)
(*                                                                         *)
(* reserve() reads the clock and then takes the lock.  Requests of a       *)
(* current-thread runtime do both in one step (Serial); on a runtime with  *)
(* several threads other requests come in between (Threaded).              *)
(***************************************************************************)
EXTENDS Integers, FiniteSets

CONSTANTS
    Requests,  \* each passes the limiter once
    Cost,      \* units a request spends: one token
    Burst,     \* RateLimit::burst, in units
    MaxTime    \* bound on the clock

ASSUME LimiterAssumption ==
    /\ IsFiniteSet(Requests)
    /\ Cost \in Nat \ {0}
    /\ Burst \in Nat
    /\ MaxTime \in Nat

VARIABLES
    clock,
    tokens,       \* Bucket::tokens, negative when requests wait
    last_refill,  \* Bucket::last_refill
    pc,           \* where each request is
    at            \* the instant it read, then the instant it sleeps until

vars == <<clock, tokens, last_refill, pc, at>>

Least(a, b) == IF a <= b THEN a ELSE b

Init ==
    /\ clock = 0
    /\ tokens = Burst
    /\ last_refill = 0
    /\ pc = [r \in Requests |-> "new"]
    /\ at = [r \in Requests |-> 0]

Tick ==
    /\ clock < MaxTime
    /\ clock' = clock + 1
    /\ UNCHANGED <<tokens, last_refill, pc, at>>

\* The bucket refilled at instant seen: nothing for an instant already past.
Refilled(seen) ==
    Least(tokens + (IF seen > last_refill THEN seen - last_refill ELSE 0), Burst)

\* Mutant: a request that finds no token waits but owes nothing.
DebtlessReserve(r, seen) ==
    LET left == Refilled(seen) - Cost
    IN  /\ tokens' = IF left >= 0 THEN left ELSE 0
        /\ last_refill' = seen
        /\ at' = [at EXCEPT ![r] = IF left >= 0 THEN clock ELSE clock - left]
        /\ pc' = [pc EXCEPT ![r] = "sleeping"]
        /\ UNCHANGED clock

\* Mutant: the instant of the refill is not remembered.
ForgetfulReserve(r, seen) ==
    LET left == Refilled(seen) - Cost
    IN  /\ tokens' = left
        /\ at' = [at EXCEPT ![r] = IF left >= 0 THEN clock ELSE clock - left]
        /\ pc' = [pc EXCEPT ![r] = "sleeping"]
        /\ UNCHANGED <<clock, last_refill>>

\* reserve() in its critical section, with the instant read before it: refill,
\* spend whether or not the token exists yet, and sleep off any debt.
Reserve(r, seen) ==
    LET left == Refilled(seen) - Cost
    IN  /\ tokens' = left
        /\ last_refill' = seen
        /\ at' = [at EXCEPT ![r] = IF left >= 0 THEN clock ELSE clock - left]
        /\ pc' = [pc EXCEPT ![r] = "sleeping"]
        /\ UNCHANGED clock

\* The clock and the lock in one step.
ReserveAtOnce(r) == pc[r] = "new" /\ Reserve(r, clock)

\* The clock first, and the lock some time later.
ReadClock(r) ==
    /\ pc[r] = "new"
    /\ pc' = [pc EXCEPT ![r] = "locking"]
    /\ at' = [at EXCEPT ![r] = clock]
    /\ UNCHANGED <<clock, tokens, last_refill>>

ReserveLater(r) == pc[r] = "locking" /\ Reserve(r, at[r])

\* The sleep is over and the request goes on to the next in the chain.
Pass(r) ==
    /\ pc[r] = "sleeping" /\ clock >= at[r]
    /\ pc' = [pc EXCEPT ![r] = "passed"]
    /\ UNCHANGED <<clock, tokens, last_refill, at>>

SerialNext == Tick \/ \E r \in Requests : ReserveAtOnce(r) \/ Pass(r)
Serial == Init /\ [][SerialNext]_vars

ThreadedNext == Tick \/ \E r \in Requests : ReadClock(r) \/ ReserveLater(r) \/ Pass(r)
Threaded == Init /\ [][ThreadedNext]_vars

-----------------------------------------------------------------------------
(* Properties. *)

\* The bucket never holds more than its burst; instants and places have their types.
TypeOK ==
    /\ clock \in Nat
    /\ tokens \in Int /\ tokens <= Burst
    /\ last_refill \in Nat
    /\ pc \in [Requests -> {"new", "locking", "sleeping", "passed"}]
    /\ at \in [Requests -> Nat]

Passed == {r \in Requests : pc[r] = "passed"}

\* "Delays requests so they do not exceed a configured rate": at any time the
\* requests that have passed cost no more than the burst and what the bucket
\* has gained since it was made.
RateRespected == Cost * Cardinality(Passed) <= Burst + clock

\* A request that has to wait has reserved its place: nobody who reserves
\* later is let through earlier.
NoOvertaking ==
    [][\A r, s \in Requests :
          /\ pc[r] = "sleeping"
          /\ pc[s] \in {"new", "locking"} /\ pc'[s] = "sleeping"
          => at[r] <= at'[s]]_vars
=============================================================================
