------------------------ MODULE AdaptiveConcurrency ------------------------
(***************************************************************************)
(* One origin's entry of the adaptive concurrency controller               *)
(* (chromulate-concurrency/src/adaptive.rs): the control law that moves    *)
(* the limit, and the slots that concurrent requests take and return.      *)
(*                                                                         *)
(* Every critical section of the entry's mutex is one step.  The gaps the  *)
(* code leaves between them are kept: the clock is read before the lock in *)
(* Permit::complete, waiters are notified after the lock is released, and  *)
(* a queued request registers between two attempts at a slot.              *)
(*                                                                         *)
(* Latencies are abstracted to the verdict of a completed probe: whether   *)
(* its mean exceeded the threshold derived from the baseline.              *)
(***************************************************************************)
EXTENDS Integers, FiniteSets

CONSTANTS
    Tasks,            \* the requests to this origin
    None,             \* Option::None
    MinLimit,         \* ConcurrencyConfig::min
    MaxLimit,         \* ConcurrencyConfig::max
    Probe,            \* ConcurrencyConfig::probe
    CleanProbes,      \* ConcurrencyConfig::clean_probes_before_increase
    Hold,             \* ConcurrencyConfig::hold
    Cooldown,         \* ConcurrencyConfig::cooldown
    MaxCooldown,      \* ConcurrencyConfig::max_cooldown
    MaxPause,         \* ConcurrencyConfig::max_pause
    CeilingRecovery,  \* with_ceiling_recovery, or None
    RetryAfters,      \* what a 429 or 503 may carry: None or a delay
    CountMax,         \* where the u32 counters saturate
    MaxTime           \* bound on the clock

\* ConcurrencyConfig::sanitised: the ranges every configuration is clamped to.
ASSUME ConfigSanitised ==
    /\ MinLimit \in Nat \ {0}
    /\ MaxLimit \in Nat /\ MinLimit <= MaxLimit
    /\ Probe \in Nat \ {0}
    /\ CleanProbes \in Nat \ {0}
    /\ Hold \in Nat /\ MaxPause \in Nat
    /\ Cooldown \in Nat /\ MaxCooldown \in Nat /\ Cooldown <= MaxCooldown

ASSUME EnvironmentAssumption ==
    /\ IsFiniteSet(Tasks)
    /\ None \notin Nat
    /\ CeilingRecovery \in Nat \cup {None}
    /\ RetryAfters \subseteq Nat \cup {None}
    /\ CountMax \in Nat /\ CleanProbes <= CountMax
    /\ MaxTime \in Nat

VARIABLES
    now,       \* the clock
    origin,    \* Origin, behind the entry's mutex
    pc,        \* where each request is
    at,        \* the instant a request sleeps until, or read before reporting
    waited,    \* the requests that had to queue (take_slot's local)
    notified   \* the registered waiters a notify_waiters has reached

vars == <<now, origin, pc, at, waited, notified>>

-----------------------------------------------------------------------------
(* The control law: functions from one Origin value to the next. *)

Lesser(a, b) == IF a <= b THEN a ELSE b
Greater(a, b) == IF a >= b THEN a ELSE b
SaturatingInc(n) == Lesser(n + 1, CountMax)

\* What a caller may write in ConcurrencyConfig; its ratio (degradation) is kept
\* as whether it is a finite one above 1, or else replaced by 2.
Config ==
    [min: Nat, max: Nat, probe: Nat, clean_probes_before_increase: Nat,
     degradation: {"usable", "unusable", "two"}, hold: Nat, cooldown: Nat,
     max_cooldown: Nat, max_pause: Nat, capacity: Nat]

\* ConcurrencyConfig::sanitised, with a day as the longest pause.
Day == 86400
Sanitised(c) ==
    [min |-> Greater(c.min, 1),
     max |-> Greater(c.max, Greater(c.min, 1)),
     probe |-> Greater(c.probe, 1),
     clean_probes_before_increase |-> Greater(c.clean_probes_before_increase, 1),
     degradation |-> IF c.degradation = "unusable" THEN "two" ELSE c.degradation,
     hold |-> c.hold,
     cooldown |-> c.cooldown,
     max_cooldown |-> Greater(c.max_cooldown, c.cooldown),
     max_pause |-> Lesser(c.max_pause, Day),
     capacity |-> Greater(c.capacity, 1)]

Origin ==
    [limit: Nat, in_flight: Nat, ceiling: Nat, baseline: BOOLEAN,
     probe_samples: Nat, clean_probes: Nat, saturated: BOOLEAN,
     refused: BOOLEAN, refusals: Nat, resume_at: Nat \cup {None},
     hold_until: Nat \cup {None}, ceiling_since: Nat \cup {None}]

NewOrigin ==
    [limit |-> MinLimit, in_flight |-> 0, ceiling |-> MaxLimit,
     baseline |-> FALSE, probe_samples |-> 0, clean_probes |-> 0,
     saturated |-> FALSE, refused |-> FALSE, refusals |-> 0,
     resume_at |-> None, hold_until |-> None, ceiling_since |-> None]

AbandonProbe(o) == [o EXCEPT !.probe_samples = 0, !.clean_probes = 0]

LimitChanged(o) == [AbandonProbe(o) EXCEPT !.saturated = FALSE]

\* An Option<Instant> that has not come yet at instant t.
Pending(instant, t) == instant # None /\ t < instant

\* What is left of the pause at instant t.
PauseRemaining(o, t) == IF Pending(o.resume_at, t) THEN o.resume_at - t ELSE 0

\* The pause a refusal without Retry-After earns: doubled per refusal, capped.
CooldownAfter(refusals) ==
    LET doubled == Cooldown * 2 ^ Lesser(Greater(refusals - 1, 0), 31)
    IN  IF doubled \in 0 .. MaxCooldown THEN doubled ELSE MaxCooldown

\* Mutant: the interval is not waited for.
EagerRelaxCeiling(o, t) ==
    IF CeilingRecovery = None \/ o.ceiling >= MaxLimit
    THEN o
    ELSE [o EXCEPT !.ceiling = @ + 1, !.ceiling_since = t]

\* One slot of ceiling per quiet interval, when the caller asked for recovery.
RelaxCeiling(o, t) ==
    IF \/ CeilingRecovery = None
       \/ o.ceiling >= MaxLimit
       \/ o.ceiling_since = None
       \/ t < o.ceiling_since + CeilingRecovery
    THEN o
    ELSE [o EXCEPT !.ceiling = @ + 1, !.ceiling_since = t]

\* A probe whose mean exceeded the threshold: halve and hold.
Degrade(o, t) ==
    LimitChanged([o EXCEPT !.limit = Greater(@ \div 2, MinLimit),
                           !.hold_until = t + Hold])

\* Mutant: condition 8 compares with the wrong inequality.
OvershootingCredit(o) ==
    LET run == [o EXCEPT !.clean_probes = SaturatingInc(@)]
    IN  IF /\ run.clean_probes >= CleanProbes /\ ~run.refused /\ run.saturated
           /\ run.limit <= Lesser(run.ceiling, MaxLimit)
        THEN LimitChanged([run EXCEPT !.limit = @ + 1])
        ELSE run

\* Mutant: condition 7 is forgotten.
UnfrozenCredit(o) ==
    LET run == [o EXCEPT !.clean_probes = SaturatingInc(@)]
    IN  IF /\ run.clean_probes >= CleanProbes /\ run.saturated
           /\ run.limit < Lesser(run.ceiling, MaxLimit)
        THEN LimitChanged([run EXCEPT !.limit = @ + 1])
        ELSE run

\* A clean probe outside a hold joins the run; a long enough run behind a
\* binding limit buys one slot.
Credit(o) ==
    LET run == [o EXCEPT !.clean_probes = SaturatingInc(@)]
    IN  IF /\ run.clean_probes >= CleanProbes
           /\ ~run.refused
           /\ run.saturated
           /\ run.limit < Lesser(run.ceiling, MaxLimit)
        THEN LimitChanged([run EXCEPT !.limit = @ + 1])
        ELSE run

\* One healthy response at instant t, and the verdict it may complete.
Healthy(o, t, degraded) ==
    LET probed  == [o EXCEPT !.probe_samples = 0]
        relaxed == RelaxCeiling(probed, t)
    IN  CASE o.probe_samples + 1 < Probe ->
                [o EXCEPT !.probe_samples = @ + 1]
          [] o.probe_samples + 1 >= Probe /\ ~o.baseline ->
                [probed EXCEPT !.baseline = TRUE]
          [] o.probe_samples + 1 >= Probe /\ o.baseline /\ degraded ->
                Degrade(probed, t)
          [] OTHER ->
                IF Pending(relaxed.hold_until, t) THEN relaxed ELSE Credit(relaxed)

\* A 429 or 503 at instant t: the ceiling falls to half the limit, and the
\* origin pauses.
Refuse(o, t, retry_after) ==
    LET refusals == SaturatingInc(o.refusals)
        ceiling  == Lesser(o.ceiling, Greater(o.limit \div 2, MinLimit))
        pause    == IF retry_after = None THEN CooldownAfter(refusals)
                                          ELSE Lesser(retry_after, MaxPause)
    IN  LimitChanged([o EXCEPT !.refusals = refusals,
                               !.ceiling = ceiling,
                               !.limit = Lesser(@, ceiling),
                               !.ceiling_since = t,
                               !.resume_at = t + pause,
                               !.hold_until = t + pause + Hold,
                               !.baseline = FALSE])

\* A 403: the flag is raised and nothing else changes but the probe.
Forbid(o) == AbandonProbe([o EXCEPT !.refused = TRUE])

\* Every value apply() can leave behind, over the signals a response can be.
Applied(o, t) ==
    {Healthy(o, t, degraded) : degraded \in BOOLEAN}
        \cup {Refuse(o, t, retry_after) : retry_after \in RetryAfters}
        \cup {Forbid(o), AbandonProbe(o)}

-----------------------------------------------------------------------------
(* Requests. *)

PCs == {"idle",         \* not asking
        "sleeping",     \* asleep in the pause loop until at[t]
        "paying",       \* spending a token of the caller's Ceiling
        "registering",  \* the first attempt at a slot failed
        "registered",   \* enabled its Notified, about to try again
        "waiting",      \* awaiting its Notified
        "holding",      \* has a Permit
        "reporting",    \* read the clock in complete, not yet in the lock
        "notifying"}    \* returned its slot, has not notified yet

Init ==
    /\ now = 0
    /\ origin = NewOrigin
    /\ pc = [t \in Tasks |-> "idle"]
    /\ at = [t \in Tasks |-> 0]
    /\ waited = {}
    /\ notified = {}

Goto(t, label) == pc' = [pc EXCEPT ![t] = label]

Tick ==
    /\ now < MaxTime
    /\ now' = now + 1
    /\ UNCHANGED <<origin, pc, at, waited, notified>>

\* acquire_authority enters the pause loop, or wakes in it: sleep for what is
\* left of the pause, or go on to pay.
CheckPause(t) ==
    /\ pc[t] = "idle" \/ (pc[t] = "sleeping" /\ now >= at[t])
    /\ LET left == PauseRemaining(origin, now)
       IN  IF left = 0
           THEN Goto(t, "paying") /\ at' = [at EXCEPT ![t] = 0]
           ELSE Goto(t, "sleeping") /\ at' = [at EXCEPT ![t] = now + left]
    /\ UNCHANGED <<now, origin, waited, notified>>

\* try_take_slot under the lock, for a request that succeeds.
TakeSlot(t) ==
    /\ origin.in_flight < origin.limit
    /\ origin' = [origin EXCEPT !.in_flight = @ + 1,
                               !.saturated = @ \/ t \in waited]
    /\ Goto(t, "holding")
    /\ waited' = waited \ {t}
    /\ notified' = notified \ {t}
    /\ UNCHANGED <<now, at>>

\* The first try_take_slot of a turn of take_slot's loop: once Ceiling::pay
\* has returned, and again each time the awaited Notified resolves.
FirstTry(t) ==
    /\ pc[t] = "paying" \/ (pc[t] = "waiting" /\ t \in notified)
    /\ \/ TakeSlot(t)
       \/ /\ origin.in_flight >= origin.limit
          /\ Goto(t, "registering")
          /\ waited' = waited \cup {t}
          /\ notified' = notified \ {t}
          /\ UNCHANGED <<now, origin, at>>

\* notified.enable(): from here a notify_waiters reaches this request.
Register(t) ==
    /\ pc[t] = "registering"
    /\ Goto(t, "registered")
    /\ UNCHANGED <<now, origin, at, waited, notified>>

\* Mutant: no second attempt between registering and awaiting.
TrustingSecondTry(t) ==
    /\ pc[t] = "registered"
    /\ Goto(t, "waiting")
    /\ UNCHANGED <<now, origin, at, waited, notified>>

\* The second try_take_slot, after registering.
SecondTry(t) ==
    /\ pc[t] = "registered"
    /\ \/ TakeSlot(t)
       \/ /\ origin.in_flight >= origin.limit
          /\ Goto(t, "waiting")
          /\ UNCHANGED <<now, origin, at, waited, notified>>

\* Permit::complete reads the clock before it takes the lock.
Complete(t) ==
    /\ pc[t] = "holding"
    /\ Goto(t, "reporting")
    /\ at' = [at EXCEPT ![t] = now]
    /\ UNCHANGED <<now, origin, waited, notified>>

\* The origin with one slot returned.
Returned == [origin EXCEPT !.in_flight = Greater(@ - 1, 0)]

\* release() with a signal: the critical section.
Report(t) ==
    /\ pc[t] = "reporting"
    /\ origin' \in Applied(Returned, at[t])
    /\ Goto(t, "notifying")
    /\ at' = [at EXCEPT ![t] = 0]
    /\ UNCHANGED <<now, waited, notified>>

\* Mutant: an unreported permit keeps its slot.
LeakyDrop(t) ==
    /\ pc[t] = "holding"
    /\ Goto(t, "notifying")
    /\ UNCHANGED <<now, origin, at, waited, notified>>

\* Drop of an unreported Permit: release() with no signal.
Drop(t) ==
    /\ pc[t] = "holding"
    /\ origin' = Returned
    /\ Goto(t, "notifying")
    /\ UNCHANGED <<now, at, waited, notified>>

\* Mutant: the request that frees a slot wakes one waiter, not all of them.
NotifyOne(t) ==
    /\ pc[t] = "notifying"
    /\ LET asleep == {u \in Tasks : pc[u] = "waiting" /\ u \notin notified}
       IN  IF asleep = {} THEN UNCHANGED notified
                          ELSE \E u \in asleep : notified' = notified \cup {u}
    /\ Goto(t, "idle")
    /\ UNCHANGED <<now, origin, at, waited>>

\* release() after the lock: notify_waiters reaches every registered request.
NotifyWaiters(t) ==
    /\ pc[t] = "notifying"
    /\ notified' = {u \in Tasks : pc[u] \in {"registered", "waiting"}}
    /\ Goto(t, "idle")
    /\ UNCHANGED <<now, origin, at, waited>>

\* The caller drops the acquire future at one of its await points.
Cancel(t) ==
    /\ pc[t] \in {"sleeping", "paying", "waiting"}
    /\ Goto(t, "idle")
    /\ at' = [at EXCEPT ![t] = 0]
    /\ waited' = waited \ {t}
    /\ notified' = notified \ {t}
    /\ UNCHANGED <<now, origin>>

Next ==
    \/ Tick
    \/ \E t \in Tasks :
          \/ CheckPause(t) \/ FirstTry(t) \/ Register(t) \/ SecondTry(t)
          \/ Complete(t) \/ Report(t) \/ Drop(t) \/ NotifyWaiters(t)
          \/ Cancel(t)

Spec == Init /\ [][Next]_vars

\* While requests hold permits some of them end: the engine's deadlines bound
\* every hop, and a dropped future drops its permit.  Nothing is assumed about
\* which one ends first, and nothing about the requests that wait.
Fairness ==
    WF_vars(\E t \in Tasks :
                Complete(t) \/ Report(t) \/ Drop(t) \/ NotifyWaiters(t))

FairSpec == Spec /\ Fairness

-----------------------------------------------------------------------------
(* Properties. *)

\* The fields of the entry and of every request have their types.
TypeOK ==
    /\ now \in Nat
    /\ origin \in Origin
    /\ pc \in [Tasks -> PCs]
    /\ at \in [Tasks -> Nat]
    /\ waited \subseteq Tasks
    /\ notified \subseteq Tasks

Bounded(o) ==
    /\ MinLimit <= o.limit
    /\ o.limit <= o.ceiling
    /\ o.ceiling <= MaxLimit
    /\ o.ceiling < MaxLimit => o.ceiling_since # None

\* The limit stays between the configured floor and the origin's ceiling, the
\* ceiling under the configured maximum, and a lowered ceiling always records
\* when it fell: refuse() and relax_ceiling() both argue from these facts in
\* comments instead of testing them.
LawBounds == Bounded(origin)

\* The requests whose permit has not been returned.
Holders == {t \in Tasks : pc[t] \in {"holding", "reporting"}}

\* The count in the entry is the number of permits outstanding, through every
\* completion, drop and cancellation, so no slot leaks and none is granted
\* twice; and it never passes the configured maximum, although the limit may
\* fall below it while requests are out.
SlotsAccounted ==
    /\ origin.in_flight = Cardinality(Holders)
    /\ origin.in_flight <= MaxLimit

\* take_slot registers before its second attempt and awaits after it, so no
\* release is missed: a request asleep with a slot free has been notified, or
\* the request that freed the slot has yet to call notify_waiters.
NoLostWakeup ==
    /\ \E t \in Tasks : pc[t] = "waiting" /\ t \notin notified
    /\ origin.in_flight < origin.limit
    => \E u \in Tasks : pc[u] = "notifying"

\* A 403 freezes the ramp for the life of the entry: once refused, no step
\* raises the limit or clears the flag, whatever else the origin answers.
FrozenOnceRefused ==
    [][origin.refused => /\ origin'.refused
                         /\ origin'.limit <= origin.limit]_vars

\* The ceiling is a ratchet: no step raises it unless the caller asked for
\* recovery, and then by one slot, a whole interval after it last moved.
CeilingRatchet ==
    [][origin'.ceiling > origin.ceiling =>
          /\ CeilingRecovery # None
          /\ origin'.ceiling = origin.ceiling + 1
          /\ now >= origin.ceiling_since + CeilingRecovery]_vars

\* No request queues for ever: again and again there comes a moment at which
\* every request asleep in take_slot has been notified, because release()
\* notifies after every completion and every drop.
WaitersNotified ==
    []<>(\A t \in Tasks : pc[t] = "waiting" => t \in notified)

\* What the comment on resume_at promises: no permit is granted before it.
NoPermitInPause ==
    [][origin'.in_flight > origin.in_flight =>
          ~Pending(origin.resume_at, now)]_vars
=============================================================================
