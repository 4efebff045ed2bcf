--------------------------- MODULE AdaptiveProofs ---------------------------
(***************************************************************************)
(* Proofs about AdaptiveConcurrency, for every configuration the code's    *)
(* sanitised() lets through, every number of requests and every response.  *)
(***************************************************************************)
EXTENDS AdaptiveConcurrency, TLAPS, FiniteSetTheorems

-----------------------------------------------------------------------------
(* What any response may do to an Origin at instant t. *)

LawStep(o, p, t) ==
    /\ p \in Origin /\ Bounded(p)
    /\ p.in_flight = o.in_flight
    /\ o.refused => p.refused /\ p.limit <= o.limit
    /\ p.ceiling > o.ceiling =>
          /\ CeilingRecovery # None
          /\ p.ceiling = o.ceiling + 1
          /\ t >= o.ceiling_since + CeilingRecovery

\* The cooldown is a duration however many refusals have been counted.
LEMMA CooldownType ==
    ASSUME NEW n \in Nat
    PROVE  CooldownAfter(n) \in Nat
  BY ConfigSanitised DEF CooldownAfter

\* abandon_probe() touches the probe and the run only.
LEMMA AbandonProbeStep ==
    ASSUME NEW o \in Origin, Bounded(o), NEW t \in Nat
    PROVE  LawStep(o, AbandonProbe(o), t)
  <1> DEFINE p == AbandonProbe(o)
  <1>1. p \in Origin
    BY DEF Origin, AbandonProbe
  <1>2. /\ p.limit = o.limit /\ p.ceiling = o.ceiling
        /\ p.ceiling_since = o.ceiling_since /\ p.in_flight = o.in_flight
        /\ p.refused = o.refused
    BY DEF Origin, AbandonProbe
  <1>3. LawStep(o, p, t)
    <2> HIDE DEF p
    <2> QED BY <1>1, <1>2 DEF Origin, Bounded, LawStep
  <1> QED
    BY <1>3

\* limit_changed() adds the saturation flag to that.
LEMMA LimitChangedStep ==
    ASSUME NEW o \in Origin, NEW t \in Nat, NEW p \in Origin, LawStep(o, p, t)
    PROVE  LawStep(o, LimitChanged(p), t)
  <1> DEFINE q == LimitChanged(p)
  <1>1. q \in Origin
    BY DEF Origin, AbandonProbe, LimitChanged
  <1>2. /\ q.limit = p.limit /\ q.ceiling = p.ceiling
        /\ q.ceiling_since = p.ceiling_since /\ q.in_flight = p.in_flight
        /\ q.refused = p.refused
    BY DEF Origin, AbandonProbe, LimitChanged
  <1>3. LawStep(o, q, t)
    <2> HIDE DEF q
    <2> QED BY <1>1, <1>2 DEF Origin, Bounded, LawStep
  <1> QED
    BY <1>3

\* A 403 raises the flag and leaves the limit where it stands.
LEMMA ForbidStep ==
    ASSUME NEW o \in Origin, Bounded(o), NEW t \in Nat
    PROVE  LawStep(o, Forbid(o), t)
  <1> DEFINE p == Forbid(o)
  <1>1. p \in Origin
    BY DEF Origin, AbandonProbe, Forbid
  <1>2. /\ p.limit = o.limit /\ p.ceiling = o.ceiling
        /\ p.ceiling_since = o.ceiling_since /\ p.in_flight = o.in_flight
        /\ p.refused
    BY DEF Origin, AbandonProbe, Forbid
  <1>3. LawStep(o, p, t)
    <2> HIDE DEF p
    <2> QED BY <1>1, <1>2 DEF Origin, Bounded, LawStep
  <1> QED
    BY <1>3

\* A 429 or 503 lowers the ceiling to half the limit, never under the floor.
LEMMA RefuseStep ==
    ASSUME NEW o \in Origin, Bounded(o), NEW t \in Nat, NEW ra \in RetryAfters
    PROVE  LawStep(o, Refuse(o, t, ra), t)
  <1> DEFINE refusals == SaturatingInc(o.refusals)
             ceiling  == Lesser(o.ceiling, Greater(o.limit \div 2, MinLimit))
             pause    == IF ra = None THEN CooldownAfter(refusals)
                                      ELSE Lesser(ra, MaxPause)
             limit    == Lesser(o.limit, ceiling)
             resume   == t + pause
             hold     == t + pause + Hold
             moved    == [o EXCEPT !.refusals = refusals, !.ceiling = ceiling,
                                   !.limit = limit, !.ceiling_since = t,
                                   !.resume_at = resume, !.hold_until = hold,
                                   !.baseline = FALSE]
  <1>1. refusals \in Nat
    BY EnvironmentAssumption DEF Origin, SaturatingInc, Lesser
  <1>2. pause \in Nat
    BY <1>1, CooldownType, ConfigSanitised, EnvironmentAssumption DEF Lesser
  <1>3. ceiling \in Nat /\ MinLimit <= ceiling /\ ceiling <= o.ceiling
    BY ConfigSanitised DEF Origin, Bounded, Lesser, Greater
  <1>4. limit \in Nat /\ MinLimit <= limit /\ limit <= ceiling /\ limit <= o.limit
    BY <1>3, ConfigSanitised DEF Origin, Bounded, Lesser
  <1>5. resume \in Nat /\ hold \in Nat
    BY <1>2, ConfigSanitised
  <1>6. Refuse(o, t, ra) = LimitChanged(moved)
    BY DEF Refuse
  <1>7. moved \in Origin
    <2> HIDE DEF refusals, ceiling, limit, resume, hold
    <2> QED BY <1>1, <1>3, <1>4, <1>5 DEF Origin
  <1>8. LawStep(o, moved, t)
    <2>1. /\ moved.ceiling = ceiling /\ moved.limit = limit
          /\ moved.ceiling_since = t /\ moved.in_flight = o.in_flight
          /\ moved.refused = o.refused
      <3> HIDE DEF refusals, ceiling, limit, resume, hold
      <3> QED BY DEF Origin
    <2> HIDE DEF moved, ceiling, limit
    <2> QED
      BY <1>3, <1>4, <1>7, <2>1, ConfigSanitised, EnvironmentAssumption
      DEF Origin, Bounded, LawStep
  <1> QED
    <2> HIDE DEF moved
    <2> QED BY <1>6, <1>7, <1>8, LimitChangedStep

\* relax_ceiling() raises the ceiling by one slot, an interval after it moved.
LEMMA RelaxStep ==
    ASSUME NEW o \in Origin, Bounded(o), NEW t \in Nat
    PROVE  /\ LawStep(o, RelaxCeiling(o, t), t)
           /\ RelaxCeiling(o, t).limit = o.limit
           /\ RelaxCeiling(o, t).refused = o.refused
  <1> DEFINE ceiling == o.ceiling + 1
             p == [o EXCEPT !.ceiling = ceiling, !.ceiling_since = t]
  <1>1. CASE RelaxCeiling(o, t) = o
    BY <1>1 DEF Origin, LawStep
  <1>2. CASE RelaxCeiling(o, t) # o
    <2>1. /\ RelaxCeiling(o, t) = p
          /\ CeilingRecovery # None /\ o.ceiling_since # None
          /\ o.ceiling < MaxLimit /\ ~(t < o.ceiling_since + CeilingRecovery)
      BY <1>2, ConfigSanitised DEF RelaxCeiling, Origin
    <2>2. ceiling \in Nat
      BY DEF Origin
    <2>3. p \in Origin
      <3> HIDE DEF ceiling
      <3> QED BY <2>2 DEF Origin
    <2>4. /\ p.limit = o.limit /\ p.ceiling = o.ceiling + 1
          /\ p.ceiling_since = t /\ p.in_flight = o.in_flight
          /\ p.refused = o.refused
      BY DEF Origin
    <2> HIDE DEF p
    <2> QED
      BY <2>1, <2>3, <2>4, ConfigSanitised, EnvironmentAssumption
      DEF Origin, Bounded, LawStep
  <1> QED
    BY <1>1, <1>2

\* A degraded probe halves the limit, never under the floor.
LEMMA DegradeStep ==
    ASSUME NEW o \in Origin, Bounded(o), NEW t \in Nat
    PROVE  LawStep(o, Degrade(o, t), t)
  <1> DEFINE limit == Greater(o.limit \div 2, MinLimit)
             hold == t + Hold
             halved == [o EXCEPT !.limit = limit, !.hold_until = hold]
  <1>1. hold \in Nat /\ limit \in Nat /\ MinLimit <= limit /\ limit <= o.limit
    BY ConfigSanitised DEF Origin, Bounded, Greater
  <1>2. Degrade(o, t) = LimitChanged(halved)
    BY DEF Degrade
  <1>3. halved \in Origin /\ LawStep(o, halved, t)
    <2>1. halved \in Origin
      <3> HIDE DEF limit, hold
      <3> QED BY <1>1 DEF Origin
    <2>2. /\ halved.limit = limit /\ halved.ceiling = o.ceiling
          /\ halved.ceiling_since = o.ceiling_since
          /\ halved.in_flight = o.in_flight /\ halved.refused = o.refused
      <3> HIDE DEF limit
      <3> QED BY DEF Origin
    <2> HIDE DEF halved, limit
    <2> QED
      BY <1>1, <2>1, <2>2, ConfigSanitised DEF Origin, Bounded, LawStep
  <1> QED
    <2> HIDE DEF halved
    <2> QED BY <1>2, <1>3, LimitChangedStep

\* A clean probe outside a hold adds at most one slot, under the ceiling, and
\* none to an origin that has refused.
LEMMA CreditStep ==
    ASSUME NEW o \in Origin, NEW t \in Nat, NEW p \in Origin, LawStep(o, p, t),
           p.limit = o.limit, p.refused = o.refused
    PROVE  LawStep(o, Credit(p), t)
  <1> DEFINE clean == SaturatingInc(p.clean_probes)
             run == [p EXCEPT !.clean_probes = clean]
             limit == run.limit + 1
             grown == [run EXCEPT !.limit = limit]
  <1>1. clean \in Nat
    BY EnvironmentAssumption DEF Origin, SaturatingInc, Lesser
  <1>2. run \in Origin
    <2> HIDE DEF clean
    <2> QED BY <1>1 DEF Origin
  <1>3. /\ run.limit = p.limit /\ run.ceiling = p.ceiling
        /\ run.ceiling_since = p.ceiling_since /\ run.in_flight = p.in_flight
        /\ run.refused = p.refused
    <2> HIDE DEF clean
    <2> QED BY DEF Origin
  <1>4. LawStep(o, run, t)
    <2> HIDE DEF run
    <2> QED BY <1>2, <1>3 DEF Origin, Bounded, LawStep
  <1>5. ASSUME ~run.refused, run.limit < Lesser(run.ceiling, MaxLimit)
        PROVE  LawStep(o, LimitChanged(grown), t)
    <2>1. limit \in Nat
      <3> HIDE DEF run
      <3> QED BY <1>2 DEF Origin
    <2>2. grown \in Origin
      <3> HIDE DEF run, limit
      <3> QED BY <1>2, <2>1 DEF Origin
    <2>3. /\ grown.limit = run.limit + 1 /\ grown.ceiling = run.ceiling
          /\ grown.ceiling_since = run.ceiling_since
          /\ grown.in_flight = run.in_flight /\ grown.refused = run.refused
      <3> HIDE DEF run
      <3> QED BY <1>2 DEF Origin
    <2>4. LawStep(o, grown, t)
      <3> HIDE DEF run, grown
      <3> QED
        BY <1>2, <1>3, <1>4, <1>5, <2>2, <2>3, ConfigSanitised
        DEF Origin, Bounded, LawStep, Lesser
    <2> QED
      <3> HIDE DEF grown
      <3> QED BY <2>2, <2>4, LimitChangedStep
  <1>6. Credit(p) = IF /\ run.clean_probes >= CleanProbes
                       /\ ~run.refused
                       /\ run.saturated
                       /\ run.limit < Lesser(run.ceiling, MaxLimit)
                    THEN LimitChanged(grown)
                    ELSE run
    BY DEF Credit
  <1> QED
    <2> HIDE DEF run, grown
    <2> QED BY <1>4, <1>5, <1>6

\* One healthy response, whatever verdict it completes.
LEMMA HealthyStep ==
    ASSUME NEW o \in Origin, Bounded(o), NEW t \in Nat, NEW degraded \in BOOLEAN
    PROVE  LawStep(o, Healthy(o, t, degraded), t)
  <1> DEFINE samples == o.probe_samples + 1
             counted == [o EXCEPT !.probe_samples = samples]
             probed  == [o EXCEPT !.probe_samples = 0]
             learned == [probed EXCEPT !.baseline = TRUE]
             relaxed == RelaxCeiling(probed, t)
  <1>1. LawStep(o, counted, t)
    <2>1. samples \in Nat
      BY DEF Origin
    <2>2. counted \in Origin
      <3> HIDE DEF samples
      <3> QED BY <2>1 DEF Origin
    <2>3. /\ counted.limit = o.limit /\ counted.ceiling = o.ceiling
          /\ counted.ceiling_since = o.ceiling_since
          /\ counted.in_flight = o.in_flight /\ counted.refused = o.refused
      <3> HIDE DEF samples
      <3> QED BY DEF Origin
    <2> HIDE DEF counted
    <2> QED BY <2>2, <2>3 DEF Origin, Bounded, LawStep
  <1>2. /\ probed \in Origin /\ Bounded(probed)
        /\ probed.limit = o.limit /\ probed.ceiling = o.ceiling
        /\ probed.ceiling_since = o.ceiling_since
        /\ probed.in_flight = o.in_flight /\ probed.refused = o.refused
    BY DEF Origin, Bounded
  <1>3. ASSUME NEW p \in Origin, LawStep(probed, p, t)
        PROVE  LawStep(o, p, t)
    <2> HIDE DEF probed
    <2> QED BY <1>2, <1>3 DEF LawStep
  <1>4. LawStep(o, learned, t)
    <2>1. learned \in Origin
      BY DEF Origin
    <2>2. /\ learned.limit = o.limit /\ learned.ceiling = o.ceiling
          /\ learned.ceiling_since = o.ceiling_since
          /\ learned.in_flight = o.in_flight /\ learned.refused = o.refused
      BY DEF Origin
    <2> HIDE DEF learned
    <2> QED BY <2>1, <2>2 DEF Origin, Bounded, LawStep
  <1>5. LawStep(o, Degrade(probed, t), t)
    <2> HIDE DEF probed
    <2> QED BY <1>2, <1>3, DegradeStep DEF LawStep
  <1>6. /\ relaxed \in Origin /\ LawStep(probed, relaxed, t)
        /\ relaxed.limit = probed.limit /\ relaxed.refused = probed.refused
    <2> HIDE DEF probed
    <2> QED BY <1>2, RelaxStep DEF LawStep
  <1>7. LawStep(o, relaxed, t) /\ LawStep(o, Credit(relaxed), t)
    <2>1. LawStep(o, relaxed, t)
      <3> HIDE DEF probed, relaxed
      <3> QED BY <1>3, <1>6
    <2> HIDE DEF probed, relaxed
    <2> QED BY <1>2, <1>6, <2>1, CreditStep
  <1>8. Healthy(o, t, degraded) \in
            {counted, learned, Degrade(probed, t), relaxed, Credit(relaxed)}
    BY ConfigSanitised DEF Healthy, Origin
  <1> QED
    <2> HIDE DEF counted, learned, probed, relaxed
    <2> QED BY <1>1, <1>4, <1>5, <1>7, <1>8

\* apply(): every response is such a step.
LEMMA AppliedStep ==
    ASSUME NEW o \in Origin, Bounded(o), NEW t \in Nat, NEW p \in Applied(o, t)
    PROVE  LawStep(o, p, t)
  BY HealthyStep, RefuseStep, ForbidStep, AbandonProbeStep DEF Applied

-----------------------------------------------------------------------------
(* The inductive invariant.  SlotsAccounted needs LawBounds to keep the *)
(* count under the maximum when a slot is taken; the last conjunct carries *)
(* the clock read in complete() to the step that uses it. *)

IInv ==
    /\ TypeOK
    /\ LawBounds
    /\ SlotsAccounted
    /\ NoLostWakeup
    /\ \A t \in Tasks : pc[t] = "reporting" => at[t] <= now

\* The fresh entry of a never-seen origin satisfies it.
LEMMA InitIInv == Init => IInv
  <1> SUFFICES ASSUME Init PROVE IInv
    OBVIOUS
  <1>1. NewOrigin \in Origin
    BY ConfigSanitised DEF NewOrigin, Origin
  <1>2. /\ NewOrigin.limit = MinLimit /\ NewOrigin.ceiling = MaxLimit
        /\ NewOrigin.in_flight = 0
    BY DEF NewOrigin
  <1>3. Holders = {}
    BY DEF Init, Holders
  <1>4. TypeOK
    BY <1>1 DEF Init, TypeOK, PCs
  <1>5. LawBounds
    BY <1>2, ConfigSanitised DEF Init, LawBounds, Bounded
  <1>6. SlotsAccounted
    BY <1>2, <1>3, ConfigSanitised, FS_EmptySet DEF Init, SlotsAccounted
  <1> QED
    BY <1>4, <1>5, <1>6 DEF Init, IInv, NoLostWakeup

\* A request that leaves or joins the holders changes their number by one.
LEMMA HoldersJoin ==
    ASSUME TypeOK, NEW t \in Tasks, t \notin Holders, Goto(t, "holding")
    PROVE  Cardinality(Holders') = Cardinality(Holders) + 1
  <1>1. Holders' = Holders \cup {t}
    BY DEF Holders, Goto, TypeOK
  <1>2. IsFiniteSet(Holders)
    BY EnvironmentAssumption, FS_Subset DEF Holders
  <1> QED
    BY <1>1, <1>2, FS_AddElement

\* The same for one that leaves.
LEMMA HoldersLeave ==
    ASSUME TypeOK, NEW t \in Tasks, t \in Holders, Goto(t, "notifying")
    PROVE  /\ Cardinality(Holders') = Cardinality(Holders) - 1
           /\ Cardinality(Holders) \in Nat \ {0}
  <1>1. Holders' = Holders \ {t}
    BY DEF Holders, Goto, TypeOK
  <1>2. IsFiniteSet(Holders)
    BY EnvironmentAssumption, FS_Subset DEF Holders
  <1>3. Cardinality(Holders) \in Nat /\ Cardinality(Holders) # 0
    BY <1>2, FS_CardinalityType, FS_EmptySet
  <1> QED
    BY <1>1, <1>2, <1>3, FS_RemoveElement

\* A granted slot: the count rises by one and stays under the maximum.
LEMMA TakeSlotIInv ==
    ASSUME IInv, NEW t \in Tasks, TakeSlot(t),
           pc[t] \in {"paying", "waiting", "registered"}
    PROVE  IInv'
  <1> DEFINE taken == origin.in_flight + 1
             saturated == (origin.saturated \/ t \in waited)
  <1>1. taken \in Nat /\ saturated \in BOOLEAN
    BY DEF IInv, TypeOK, Origin
  <1>2. origin' = [origin EXCEPT !.in_flight = taken, !.saturated = saturated]
    BY DEF TakeSlot
  <1>3. /\ origin' \in Origin
        /\ origin'.in_flight = origin.in_flight + 1
        /\ origin'.limit = origin.limit /\ origin'.ceiling = origin.ceiling
        /\ origin'.ceiling_since = origin.ceiling_since
    <2>1. origin' \in Origin
      <3> HIDE DEF taken, saturated
      <3> QED BY <1>1, <1>2 DEF IInv, TypeOK, Origin
    <2> QED BY <1>2, <2>1 DEF IInv, TypeOK, Origin
  <1>4. TypeOK'
    BY <1>3 DEF IInv, TypeOK, TakeSlot, Goto, PCs
  <1>5. LawBounds'
    BY <1>3 DEF IInv, LawBounds, Bounded
  <1>6. SlotsAccounted'
    <2>1. Cardinality(Holders') = Cardinality(Holders) + 1
      BY HoldersJoin DEF IInv, TakeSlot, Holders
    <2> QED
      BY <1>3, <2>1, ConfigSanitised
      DEF IInv, TypeOK, Origin, LawBounds, Bounded, SlotsAccounted, TakeSlot
  <1>7. NoLostWakeup'
    BY <1>3 DEF IInv, TypeOK, Origin, NoLostWakeup, TakeSlot, Goto
  <1>8. (\A u \in Tasks : pc[u] = "reporting" => at[u] <= now)'
    BY DEF IInv, TypeOK, TakeSlot, Goto
  <1> QED
    BY <1>4, <1>5, <1>6, <1>7, <1>8 DEF IInv

\* A returned slot, by Report or Drop: the count falls by one, the law moves
\* within its bounds and a notification is owed.
LEMMA ReturnIInv ==
    ASSUME IInv, NEW t \in Tasks, t \in Holders, Goto(t, "notifying"),
           NEW instant \in Nat, LawStep(Returned, origin', instant),
           UNCHANGED <<now, waited, notified>>,
           at' = at \/ at' = [at EXCEPT ![t] = 0]
    PROVE  IInv'
  <1>1. /\ Cardinality(Holders') = Cardinality(Holders) - 1
        /\ Cardinality(Holders) \in Nat \ {0}
    BY HoldersLeave DEF IInv
  <1>2. Returned.in_flight = origin.in_flight - 1
    BY <1>1 DEF IInv, SlotsAccounted, TypeOK, Origin, Returned, Greater
  <1>3. TypeOK'
    BY DEF IInv, TypeOK, LawStep, Goto, PCs
  <1>4. LawBounds'
    BY DEF LawStep, LawBounds
  <1>5. SlotsAccounted'
    BY <1>1, <1>2, ConfigSanitised DEF IInv, SlotsAccounted, LawStep
  <1>6. NoLostWakeup'
    BY DEF IInv, TypeOK, NoLostWakeup, Goto
  <1>7. (\A u \in Tasks : pc[u] = "reporting" => at[u] <= now)'
    BY DEF IInv, TypeOK, Goto
  <1> QED
    BY <1>3, <1>4, <1>5, <1>6, <1>7 DEF IInv

\* The entry with one slot returned is still within the law's bounds.
LEMMA ReturnedSound ==
    ASSUME IInv
    PROVE  Returned \in Origin /\ Bounded(Returned)
  <1> DEFINE left == Greater(origin.in_flight - 1, 0)
  <1>1. left \in Nat
    BY DEF IInv, TypeOK, Origin, Greater
  <1>2. Returned = [origin EXCEPT !.in_flight = left]
    BY DEF Returned
  <1>3. Returned \in Origin
    <2> HIDE DEF left
    <2> QED BY <1>1, <1>2 DEF IInv, TypeOK, Origin
  <1>4. /\ Returned.limit = origin.limit /\ Returned.ceiling = origin.ceiling
        /\ Returned.ceiling_since = origin.ceiling_since
    BY DEF IInv, TypeOK, Origin, Returned
  <1> QED
    BY <1>3, <1>4 DEF IInv, LawBounds, Bounded

\* A step that leaves the entry alone and moves no request into or out of the
\* holders keeps the count.
LEMMA SameHolders ==
    ASSUME IInv, UNCHANGED origin, Holders' = Holders
    PROVE  LawBounds' /\ SlotsAccounted'
  BY DEF IInv, LawBounds, SlotsAccounted

\* Every step keeps the inductive invariant.
LEMMA NextIInv == IInv /\ [Next]_vars => IInv'
  <1> SUFFICES ASSUME IInv, [Next]_vars PROVE IInv'
    OBVIOUS
  <1> USE DEF Goto
  <1>1. CASE Tick
    <2>1. Holders' = Holders
      BY <1>1 DEF Tick, Holders
    <2> QED
      BY <1>1, <2>1, SameHolders DEF IInv, Tick, TypeOK, NoLostWakeup
  <1>2. ASSUME NEW t \in Tasks, CheckPause(t) PROVE IInv'
    <2> DEFINE left == PauseRemaining(origin, now)
    <2>1. left \in Nat /\ now + left \in Nat
      BY DEF IInv, TypeOK, Origin, PauseRemaining, Pending
    <2>2. Holders' = Holders
      BY <1>2 DEF CheckPause, Holders, IInv, TypeOK
    <2>3. TypeOK'
      <3> HIDE DEF left
      <3> QED BY <1>2, <2>1 DEF CheckPause, IInv, TypeOK, PCs, left
    <2>4. NoLostWakeup'
      BY <1>2 DEF CheckPause, IInv, TypeOK, NoLostWakeup
    <2>5. (\A u \in Tasks : pc[u] = "reporting" => at[u] <= now)'
      BY <1>2 DEF CheckPause, IInv, TypeOK
    <2> QED
      BY <1>2, <2>2, <2>3, <2>4, <2>5, SameHolders DEF IInv, CheckPause
  <1>3. ASSUME NEW t \in Tasks, FirstTry(t) PROVE IInv'
    <2>1. CASE TakeSlot(t)
      BY <1>3, <2>1, TakeSlotIInv DEF FirstTry
    <2>2. CASE ~TakeSlot(t)
      <3>1. Holders' = Holders
        BY <1>3, <2>2 DEF FirstTry, Holders, IInv, TypeOK
      <3>2. TypeOK' /\ NoLostWakeup'
        BY <1>3, <2>2 DEF FirstTry, IInv, TypeOK, PCs, NoLostWakeup
      <3> QED
        BY <1>3, <2>2, <3>1, <3>2, SameHolders DEF IInv, TypeOK, FirstTry
    <2> QED BY <2>1, <2>2
  <1>4. ASSUME NEW t \in Tasks, Register(t) PROVE IInv'
    <2>1. Holders' = Holders
      BY <1>4 DEF Register, Holders, IInv, TypeOK
    <2>2. TypeOK' /\ NoLostWakeup'
      BY <1>4 DEF Register, IInv, TypeOK, PCs, NoLostWakeup
    <2> QED
      BY <1>4, <2>1, <2>2, SameHolders DEF IInv, TypeOK, Register
  <1>5. ASSUME NEW t \in Tasks, SecondTry(t) PROVE IInv'
    <2>1. CASE TakeSlot(t)
      BY <1>5, <2>1, TakeSlotIInv DEF SecondTry
    <2>2. CASE ~TakeSlot(t)
      <3>1. Holders' = Holders
        BY <1>5, <2>2 DEF SecondTry, Holders, IInv, TypeOK
      <3>2. TypeOK'
        BY <1>5, <2>2 DEF SecondTry, IInv, TypeOK, PCs
      <3>3. NoLostWakeup'
        BY <1>5, <2>2 DEF SecondTry, IInv, TypeOK, Origin, NoLostWakeup
      <3> QED
        BY <1>5, <2>2, <3>1, <3>2, <3>3, SameHolders DEF IInv, TypeOK, SecondTry
    <2> QED BY <2>1, <2>2
  <1>6. ASSUME NEW t \in Tasks, Complete(t) PROVE IInv'
    <2>1. Holders' = Holders
      BY <1>6 DEF Complete, Holders, IInv, TypeOK
    <2>2. TypeOK' /\ NoLostWakeup'
      BY <1>6 DEF Complete, IInv, TypeOK, PCs, NoLostWakeup
    <2> QED
      BY <1>6, <2>1, <2>2, SameHolders DEF IInv, TypeOK, Complete
  <1>7. ASSUME NEW t \in Tasks, Report(t) PROVE IInv'
    <2>1. t \in Holders /\ at[t] \in Nat
      BY <1>7 DEF Report, Holders, IInv, TypeOK
    <2>2. LawStep(Returned, origin', at[t])
      BY <1>7, <2>1, ReturnedSound, AppliedStep DEF Report
    <2> QED
      BY <1>7, <2>1, <2>2, ReturnIInv DEF Report
  <1>8. ASSUME NEW t \in Tasks, Drop(t) PROVE IInv'
    <2>1. t \in Holders
      BY <1>8 DEF Drop, Holders
    <2>2. LawStep(Returned, origin', 0)
      BY <1>8, ReturnedSound DEF Drop, LawStep, Origin
    <2> QED
      BY <1>8, <2>1, <2>2, ReturnIInv DEF Drop
  <1>9. ASSUME NEW t \in Tasks, NotifyWaiters(t) PROVE IInv'
    <2>1. Holders' = Holders
      BY <1>9 DEF NotifyWaiters, Holders, IInv, TypeOK
    <2>2. TypeOK' /\ NoLostWakeup'
      BY <1>9 DEF NotifyWaiters, IInv, TypeOK, PCs, NoLostWakeup
    <2> QED
      BY <1>9, <2>1, <2>2, SameHolders DEF IInv, TypeOK, NotifyWaiters
  <1>10. ASSUME NEW t \in Tasks, Cancel(t) PROVE IInv'
    <2>1. Holders' = Holders
      BY <1>10 DEF Cancel, Holders, IInv, TypeOK
    <2>2. TypeOK' /\ NoLostWakeup'
      BY <1>10 DEF Cancel, IInv, TypeOK, PCs, NoLostWakeup
    <2> QED
      BY <1>10, <2>1, <2>2, SameHolders DEF IInv, TypeOK, Cancel
  <1>11. CASE UNCHANGED vars
    <2>1. Holders' = Holders
      BY <1>11 DEF vars, Holders
    <2> QED
      BY <1>11, <2>1, SameHolders DEF IInv, vars, TypeOK, NoLostWakeup
  <1> QED
    BY <1>1, <1>2, <1>3, <1>4, <1>5, <1>6, <1>7, <1>8, <1>9, <1>10, <1>11
    DEF Next

-----------------------------------------------------------------------------
(* Theorems. *)

\* The inductive invariant holds of every reachable state.
LEMMA Invariance == Spec => []IInv
  BY InitIInv, NextIInv, PTL DEF Spec

\* Every state of the entry and of its requests is well typed.
THEOREM TypeCorrect == Spec => []TypeOK
  BY Invariance, PTL DEF IInv

\* The limit never leaves the range from the configured floor to the origin's
\* ceiling, nor the ceiling the configured maximum, and a lowered ceiling
\* records when it fell: what refuse() and relax_ceiling() rely on.
THEOREM LawStaysBounded == Spec => []LawBounds
  BY Invariance, PTL DEF IInv

\* take_slot, complete, Drop and cancellation never leak a slot or grant one
\* twice, and never more than the configured maximum is in flight.
THEOREM SlotsNeverLeak == Spec => []SlotsAccounted
  BY Invariance, PTL DEF IInv

\* take_slot's register-then-retry protocol misses no release.
THEOREM WakeupsNotLost == Spec => []NoLostWakeup
  BY Invariance, PTL DEF IInv

\* Only release() with a signal runs the law; every other step leaves the
\* limit, the ceiling and the refusal flag of the entry alone.
LEMMA OriginMoves ==
    ASSUME IInv, [Next]_vars
    PROVE  \/ /\ origin'.limit = origin.limit
              /\ origin'.ceiling = origin.ceiling
              /\ origin'.refused = origin.refused
           \/ \E t \in Tasks : pc[t] = "reporting" /\ LawStep(Returned, origin', at[t])
  <1>1. ASSUME NEW t \in Tasks, TakeSlot(t)
        PROVE  /\ origin'.limit = origin.limit
               /\ origin'.ceiling = origin.ceiling
               /\ origin'.refused = origin.refused
    BY <1>1 DEF TakeSlot, IInv, TypeOK, Origin
  <1>2. ASSUME NEW t \in Tasks, Report(t)
        PROVE  pc[t] = "reporting" /\ LawStep(Returned, origin', at[t])
    <2>1. at[t] \in Nat
      BY DEF IInv, TypeOK
    <2> QED
      BY <1>2, <2>1, ReturnedSound, AppliedStep DEF Report
  <1>3. ASSUME NEW t \in Tasks, Drop(t)
        PROVE  /\ origin'.limit = origin.limit
               /\ origin'.ceiling = origin.ceiling
               /\ origin'.refused = origin.refused
    BY <1>3 DEF Drop, Returned, IInv, TypeOK, Origin
  <1> QED
    BY <1>1, <1>2, <1>3
    DEF Next, vars, Tick, CheckPause, FirstTry, Register, SecondTry, Complete,
        NotifyWaiters, Cancel

\* The entry with a slot returned agrees with the entry on what the law moves.
LEMMA ReturnedSame ==
    ASSUME IInv
    PROVE  /\ Returned.limit = origin.limit /\ Returned.ceiling = origin.ceiling
           /\ Returned.refused = origin.refused
           /\ Returned.ceiling_since = origin.ceiling_since
  BY DEF IInv, TypeOK, Origin, Returned

\* After a 403 no response raises the limit, for the life of the entry.
THEOREM RefusalFreezes == Spec => FrozenOnceRefused
  <1>1. IInv /\ [Next]_vars =>
            [origin.refused => /\ origin'.refused
                               /\ origin'.limit <= origin.limit]_vars
    <2> SUFFICES ASSUME IInv, [Next]_vars, origin.refused
                 PROVE  origin'.refused /\ origin'.limit <= origin.limit
      OBVIOUS
    <2>1. CASE origin'.limit = origin.limit /\ origin'.refused = origin.refused
      BY <2>1 DEF IInv, TypeOK, Origin
    <2>2. CASE \E t \in Tasks : LawStep(Returned, origin', at[t])
      <3>1. Returned.refused
        BY ReturnedSame
      <3>2. origin'.refused /\ origin'.limit <= Returned.limit
        BY <2>2, <3>1 DEF LawStep
      <3> QED
        BY <3>2, ReturnedSame
    <2> QED
      BY <2>1, <2>2, OriginMoves
  <1> QED
    BY <1>1, Invariance, PTL DEF Spec, FrozenOnceRefused

\* The ceiling a 429 or 503 lowered rises only when the caller asked for
\* recovery, one slot at a time, an interval after it last moved.
THEOREM CeilingOnlyFalls == Spec => CeilingRatchet
  <1>1. IInv /\ [Next]_vars =>
            [origin'.ceiling > origin.ceiling =>
                /\ CeilingRecovery # None
                /\ origin'.ceiling = origin.ceiling + 1
                /\ now >= origin.ceiling_since + CeilingRecovery]_vars
    <2> SUFFICES ASSUME IInv, [Next]_vars, origin'.ceiling > origin.ceiling
                 PROVE  /\ CeilingRecovery # None
                        /\ origin'.ceiling = origin.ceiling + 1
                        /\ now >= origin.ceiling_since + CeilingRecovery
      OBVIOUS
    <2>1. PICK t \in Tasks : pc[t] = "reporting" /\ LawStep(Returned, origin', at[t])
      BY OriginMoves DEF IInv, TypeOK, Origin
    <2>2. /\ CeilingRecovery # None
          /\ origin'.ceiling = origin.ceiling + 1
          /\ at[t] >= origin.ceiling_since + CeilingRecovery
      BY <2>1, ReturnedSame DEF LawStep
    <2>3. origin.ceiling_since \in Nat /\ CeilingRecovery \in Nat
      <3>1. origin.ceiling < MaxLimit
        BY <2>1, <2>2, ConfigSanitised DEF LawStep, Bounded, IInv, TypeOK, Origin
      <3> QED
        BY <2>2, <3>1, EnvironmentAssumption
        DEF IInv, LawBounds, Bounded, TypeOK, Origin
    <2> QED
      BY <2>1, <2>2, <2>3 DEF IInv, TypeOK
  <1> QED
    BY <1>1, Invariance, PTL DEF Spec, CeilingRatchet

\* ConcurrencyConfig::sanitised puts whatever a caller wrote into the ranges
\* that ConfigSanitised assumes of the constants and that eviction needs of the
\* capacity, and a second pass changes nothing: the assumption costs a caller no
\* configuration.
THEOREM SanitisingSuffices ==
    ASSUME NEW c \in Config
    PROVE  LET s == Sanitised(c)
           IN  /\ s \in Config
               /\ s.min >= 1 /\ s.min <= s.max
               /\ s.probe >= 1 /\ s.clean_probes_before_increase >= 1
               /\ s.cooldown <= s.max_cooldown
               /\ s.max_pause <= Day /\ s.capacity >= 1
               /\ s.degradation # "unusable"
               /\ Sanitised(s) = s
  <1> DEFINE s == Sanitised(c)
  <1>1. /\ c.min \in Nat /\ c.max \in Nat /\ c.probe \in Nat
        /\ c.clean_probes_before_increase \in Nat /\ c.hold \in Nat /\ c.cooldown \in Nat
        /\ c.max_cooldown \in Nat /\ c.max_pause \in Nat /\ c.capacity \in Nat
        /\ c.degradation \in {"usable", "unusable", "two"}
    BY DEF Config
  <1>2. s \in Config
    BY <1>1 DEF Config, Sanitised, Greater, Lesser, Day
  <1>3. /\ s.min >= 1 /\ s.min <= s.max
        /\ s.probe >= 1 /\ s.clean_probes_before_increase >= 1
        /\ s.cooldown <= s.max_cooldown
        /\ s.max_pause <= Day /\ s.capacity >= 1
        /\ s.degradation # "unusable"
    <2>1. /\ s.min = Greater(c.min, 1) /\ s.max = Greater(c.max, s.min)
          /\ s.probe = Greater(c.probe, 1)
          /\ s.clean_probes_before_increase = Greater(c.clean_probes_before_increase, 1)
          /\ s.cooldown = c.cooldown /\ s.max_cooldown = Greater(c.max_cooldown, c.cooldown)
          /\ s.max_pause = Lesser(c.max_pause, Day) /\ s.capacity = Greater(c.capacity, 1)
          /\ s.degradation = IF c.degradation = "unusable" THEN "two" ELSE c.degradation
      BY DEF Sanitised
    <2> HIDE DEF s
    <2>2. /\ s.min >= 1 /\ s.min <= s.max /\ s.probe >= 1
          /\ s.clean_probes_before_increase >= 1
      BY <1>1, <2>1 DEF Greater
    <2>3. s.cooldown <= s.max_cooldown /\ s.max_pause <= Day /\ s.capacity >= 1
      BY <1>1, <2>1 DEF Greater, Lesser, Day
    <2>4. s.degradation # "unusable"
      BY <2>1
    <2> QED
      BY <2>2, <2>3, <2>4
  <1>4. Sanitised(s) = s
    <2> HIDE DEF s
    <2>1. /\ Greater(s.min, 1) = s.min
          /\ Greater(s.max, s.min) = s.max
          /\ Greater(s.probe, 1) = s.probe
          /\ Greater(s.clean_probes_before_increase, 1) = s.clean_probes_before_increase
          /\ Greater(s.max_cooldown, s.cooldown) = s.max_cooldown
          /\ Lesser(s.max_pause, Day) = s.max_pause
          /\ Greater(s.capacity, 1) = s.capacity
      BY <1>2, <1>3 DEF Config, Greater, Lesser, Day
    <2>2. s = [min |-> s.min, max |-> s.max, probe |-> s.probe,
               clean_probes_before_increase |-> s.clean_probes_before_increase,
               degradation |-> s.degradation, hold |-> s.hold, cooldown |-> s.cooldown,
               max_cooldown |-> s.max_cooldown, max_pause |-> s.max_pause,
               capacity |-> s.capacity]
      BY <1>2 DEF Config
    <2> QED
      BY <1>3, <2>1, <2>2 DEF Sanitised
  <1> QED
    BY <1>2, <1>3, <1>4
=============================================================================
