--------------------------- MODULE RetrySchedule ----------------------------
(***************************************************************************)
(* The waits of one retried request (chromulate-http/src/middleware/       *)
(* retry.rs): how many attempts are made, and how long each of them waits. *)
(*                                                                         *)
(* A duration is a number of ticks, and jitter keeps a share of it counted *)
(* in hundredths.  2u32.saturating_pow is kept with the width Bits.        *)
(***************************************************************************)
EXTENDS Integers, Sequences, FiniteSetsExt

CONSTANTS
    None,
    Policies,      \* RetryPolicy: [max_retries, base_delay, max_delay, any_method, jitter, honour_retry_after]
    Kept,          \* the hundredths of a wait that jitter may leave, 80 excluded
    Afters,        \* what Retry-After may ask for: None or a duration
    Bits           \* the width of the factor

VARIABLES
    policy,
    attempt,       \* the retries made so far
    waits,         \* ghost: each wait, with what was asked for it
    at             \* "new", "sent" or "done"

vars == <<policy, attempt, waits, at>>

Init ==
    /\ policy \in Policies
    /\ attempt = 0
    /\ waits = <<>>
    /\ at = "new"

\* Mutant: the factor wraps round.
WrappedFactor(n) == 2^n % 2^Bits

\* 2u32.saturating_pow
Factor(n) == Min({2^n, 2^Bits - 1})

\* RetryPolicy::backoff
Backoff(n) == Min({policy.base_delay * Factor(n), policy.max_delay})

\* mul_f64 rounds to the nearest tick.
Jittered(wait, kept) == IF policy.jitter THEN (2 * wait * kept + 100) \div 200 ELSE wait

\* Retry::delay: a server may lengthen a wait, within the policy's cap.
Delay(n, after, kept) ==
    LET wait == Jittered(Backoff(n), kept)
    IN  IF after = None \/ ~policy.honour_retry_after THEN wait
        ELSE Min({Max({wait, after}), policy.max_delay})

\* may_replay
MayReplay(idempotent, replayable) == (policy.any_method \/ idempotent) /\ replayable

\* Retrying::exchange: what may not be repeated is sent once and returned.
Start(idempotent, replayable) ==
    /\ at = "new"
    /\ at' = IF policy.max_retries = 0 \/ ~MayReplay(idempotent, replayable) THEN "done" ELSE "sent"
    /\ UNCHANGED <<policy, attempt, waits>>

\* should_retry_status, or an error that is_retryable, which carries no header.
Again(after, kept) ==
    /\ at = "sent"
    /\ attempt < policy.max_retries
    /\ waits' = Append(waits, [ticks |-> Delay(attempt, after, kept), asked |-> after])
    /\ attempt' = attempt + 1
    /\ UNCHANGED <<policy, at>>

\* The outcome is final, or the retries are used up.
Return ==
    /\ at = "sent"
    /\ at' = "done"
    /\ UNCHANGED <<policy, attempt, waits>>

Next ==
    \/ \E idempotent, replayable \in BOOLEAN : Start(idempotent, replayable)
    \/ \E after \in Afters, kept \in Kept : Again(after, kept)
    \/ Return

Spec == Init /\ [][Next]_vars

-----------------------------------------------------------------------------

\* However the dice land and whatever the server asks for, no wait passes the
\* policy's cap, none is shorter (by more than the rounding) than four fifths of
\* a backoff that never falls from one retry to the next, and one that is
\* honoured is not cut short of what was asked (RetryPolicy::backoff,
\* Retry::delay).
WaitsWithinPolicy ==
    \A n \in DOMAIN waits :
        /\ waits[n].ticks <= policy.max_delay
        /\ \A m \in 1..n : 5 * waits[n].ticks >= 4 * Backoff(m - 1) - 5
        /\ (policy.honour_retry_after /\ waits[n].asked # None) =>
               waits[n].ticks >= Min({waits[n].asked, policy.max_delay})

=============================================================================
