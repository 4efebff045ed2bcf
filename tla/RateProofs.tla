----------------------------- MODULE RateProofs -----------------------------
(***************************************************************************)
(* The token bucket keeps its rate and its order, for any number of        *)
(* requests, any cost and any burst, when the clock is read and the lock   *)
(* taken in one step (Serial).                                             *)
(***************************************************************************)
EXTENDS RateLimiter, FiniteSetTheorems, TLAPS

\* The requests that have spent their token.
Reserved == {r \in Requests : pc[r] \in {"sleeping", "passed"}}

\* Those of them that may be through by instant T.
DueBy(T) == {r \in Reserved : at[r] <= T}

\* The inductive invariant: what has been spent is covered by the burst and the
\* refills so far; what is due by any instant by the refills until then; and
\* nobody waits longer than it takes to clear the debt there is now.
IInv ==
    /\ TypeOK
    /\ last_refill <= clock
    /\ \A r \in Requests : pc[r] # "locking"
    /\ \A r \in Requests : pc[r] = "passed" => at[r] <= clock
    /\ tokens + Cost * Cardinality(Reserved) <= Burst + last_refill
    /\ \A T \in Nat : Cost * Cardinality(DueBy(T)) <= Burst + T
    /\ \A r \in Reserved : at[r] <= clock \/ at[r] <= last_refill - tokens

\* Multiplication by the cost is monotone: a larger set of requests, each of
\* which reserve() charges one token, costs no less.
LEMMA CostMonotone ==
    ASSUME NEW m \in Nat, NEW n \in Nat, m <= n
    PROVE  Cost * m <= Cost * n
<1>1. Cost \in Nat
  BY LimiterAssumption
<1> QED
  BY <1>1, SMT

\* A set of requests of which reserve() has charged part costs no more than all.
LEMMA SubsetCost ==
    ASSUME NEW S, NEW T \in SUBSET Requests, S \subseteq T
    PROVE  /\ IsFiniteSet(S) /\ Cardinality(S) \in Nat
           /\ Cost * Cardinality(S) <= Cost * Cardinality(T)
<1>1. IsFiniteSet(T)
  BY LimiterAssumption, FS_Subset
<1>2. IsFiniteSet(S) /\ Cardinality(S) <= Cardinality(T)
  BY <1>1, FS_Subset
<1>3. Cardinality(S) \in Nat /\ Cardinality(T) \in Nat
  BY <1>1, <1>2, FS_CardinalityType
<1> QED
  BY <1>2, <1>3, CostMonotone

\* A full bucket and no reservation satisfy the invariant.
LEMMA InitIInv == Init => IInv
<1> SUFFICES ASSUME Init PROVE IInv
  OBVIOUS
<1> USE LimiterAssumption
<1>1. Reserved = {} /\ \A T \in Nat : DueBy(T) = {}
  BY DEF Init, Reserved, DueBy
<1>2. Cardinality({}) = 0
  BY FS_EmptySet
<1>3. Cost * 0 = 0
  BY SMT
<1>4. TypeOK
  BY DEF Init, TypeOK
<1>5. tokens + Cost * Cardinality(Reserved) <= Burst + last_refill
  BY <1>1, <1>2, <1>3 DEF Init
<1>6. ASSUME NEW T \in Nat
      PROVE  Cost * Cardinality(DueBy(T)) <= Burst + T
  <2>1. Cost * Cardinality(DueBy(T)) = 0
    BY <1>1, <1>2, <1>3
  <2> QED
    BY <2>1
<1> QED
  BY <1>1, <1>4, <1>5, <1>6 DEF Init, IInv

\* reserve() keeps the invariant: the new request is due once its debt is paid.
LEMMA ReserveIInv ==
    ASSUME IInv, NEW r \in Requests, ReserveAtOnce(r)
    PROVE  /\ IInv'
           /\ \A s \in Requests : pc[s] = "sleeping" => at[s] <= at'[r]
<1> DEFINE left == Refilled(clock) - Cost
           due == IF left >= 0 THEN clock ELSE clock - left
<1>1. /\ pc[r] = "new" /\ pc' = [pc EXCEPT ![r] = "sleeping"]
      /\ tokens' = left /\ last_refill' = clock /\ clock' = clock
      /\ at' = [at EXCEPT ![r] = due]
  BY DEF ReserveAtOnce, Reserve
<1>2. /\ clock \in Nat /\ tokens \in Int /\ tokens <= Burst
      /\ last_refill \in Nat /\ last_refill <= clock
      /\ Cost \in Nat \ {0} /\ Burst \in Nat
  BY LimiterAssumption DEF IInv, TypeOK
<1>3. /\ left \in Int /\ left <= tokens + (clock - last_refill) - Cost
      /\ left <= Burst - Cost
      /\ tokens + (clock - last_refill) < 0 =>
            left = tokens + (clock - last_refill) - Cost
  BY <1>2 DEF Refilled, Least
<1> HIDE DEF left
<1>4. due \in Nat /\ due >= clock /\ due >= clock - left
  BY <1>2, <1>3
<1>5. /\ left < 0 => due = clock - left
      /\ left >= 0 => due = clock
  BY <1>2, <1>3
<1> HIDE DEF due
<1>6. /\ pc'[r] = "sleeping" /\ at'[r] = due
      /\ \A s \in Requests \ {r} : pc'[s] = pc[s] /\ at'[s] = at[s]
  BY <1>1 DEF IInv, TypeOK
<1>7. TypeOK'
  BY <1>1, <1>2, <1>3, <1>4 DEF IInv, TypeOK
<1>8. Reserved' = Reserved \cup {r} /\ r \notin Reserved
  BY <1>1, <1>6 DEF Reserved
<1>9. /\ Cardinality(Reserved) \in Nat
      /\ Cardinality(Reserved') = Cardinality(Reserved) + 1
  <2>1. IsFiniteSet(Reserved)
    BY LimiterAssumption, FS_Subset DEF Reserved
  <2> QED
    BY <1>8, <2>1, FS_AddElement, FS_CardinalityType
<1>10. left + Cost * Cardinality(Reserved') <= Burst + clock
  <2> DEFINE n == Cardinality(Reserved)
  <2>1. n \in Nat /\ tokens + Cost * n <= Burst + last_refill
    BY <1>9 DEF IInv
  <2> HIDE DEF n
  <2>2. Cost * n \in Int /\ Cost * (n + 1) = Cost * n + Cost
    BY <2>1, <1>2
  <2>3. left + Cost * (n + 1) <= Burst + clock
    BY <2>1, <2>2, <1>2, <1>3
  <2> QED
    BY <2>3, <1>9 DEF n
<1>11. ASSUME NEW s \in Reserved
       PROVE  at[s] <= due
  <2>1. at[s] \in Nat /\ (at[s] <= clock \/ at[s] <= last_refill - tokens)
    BY DEF IInv, TypeOK, Reserved
  <2> QED
    BY <2>1, <1>2, <1>3, <1>4, <1>5
<1>12. ASSUME NEW T \in Nat
       PROVE  Cost * Cardinality(DueBy(T)') <= Burst + T
  <2>1. CASE T < due
    <3>1. DueBy(T)' = DueBy(T)
      BY <2>1, <1>4, <1>6, <1>8 DEF DueBy, Reserved
    <3> QED
      BY <3>1 DEF IInv
  <2>2. CASE T >= due
    <3>1. DueBy(T)' \subseteq Reserved' /\ Reserved' \in SUBSET Requests
      BY DEF DueBy, Reserved
    <3>2. Cost * Cardinality(DueBy(T)') <= Cost * Cardinality(Reserved')
          /\ Cardinality(DueBy(T)') \in Nat
      BY <3>1, SubsetCost
    <3> DEFINE spent == Cost * Cardinality(Reserved')
               some == Cost * Cardinality(DueBy(T)')
    <3>3. spent \in Int /\ some \in Int /\ some <= spent /\ left + spent <= Burst + clock
      BY <3>2, <1>2, <1>9, <1>10
    <3> HIDE DEF spent, some
    <3>4. some <= Burst + T
      BY <3>3, <2>2, <1>2, <1>3, <1>4, <1>5
    <3> QED
      BY <3>4 DEF some
  <2> QED
    BY <2>1, <2>2, <1>4
<1>13. \A s \in Reserved' : at'[s] <= clock' \/ at'[s] <= last_refill' - tokens'
  <2> SUFFICES ASSUME NEW s \in Reserved'
               PROVE  at'[s] <= clock \/ at'[s] <= clock - left
    BY <1>1
  <2>1. at'[s] <= due /\ at'[s] \in Nat
    BY <1>4, <1>6, <1>7, <1>8, <1>11 DEF Reserved, TypeOK
  <2> QED
    BY <2>1, <1>2, <1>3, <1>5
<1>14. /\ \A s \in Requests : pc'[s] # "locking"
       /\ \A s \in Requests : pc'[s] = "passed" => at'[s] <= clock'
  BY <1>1, <1>6 DEF IInv
<1>15. IInv'
  BY <1>1, <1>2, <1>7, <1>10, <1>12, <1>13, <1>14 DEF IInv
<1>16. \A s \in Requests : pc[s] = "sleeping" => at[s] <= at'[r]
  BY <1>6, <1>11 DEF Reserved
<1> QED
  BY <1>15, <1>16

\* Every step of the limiter on one thread keeps the invariant.
LEMMA NextIInv == IInv /\ [SerialNext]_vars => IInv'
<1> SUFFICES ASSUME IInv, [SerialNext]_vars PROVE IInv'
  OBVIOUS
<1>1. CASE Tick
  <2>1. /\ clock' = clock + 1 /\ tokens' = tokens /\ last_refill' = last_refill
        /\ pc' = pc /\ at' = at
    BY <1>1 DEF Tick
  <2>2. Reserved' = Reserved /\ \A T \in Nat : DueBy(T)' = DueBy(T)
    BY <2>1 DEF Reserved, DueBy
  <2>3. TypeOK' /\ last_refill' <= clock'
    BY <2>1 DEF IInv, TypeOK
  <2>4. \A r \in Requests : at[r] \in Nat /\ clock \in Nat
    BY DEF IInv, TypeOK
  <2>5. \A r \in Requests : at[r] <= clock => at'[r] <= clock'
    BY <2>1, <2>4
  <2>6. \A r \in Reserved' : at'[r] <= clock' \/ at'[r] <= last_refill' - tokens'
    BY <2>1, <2>2, <2>5 DEF IInv, Reserved
  <2>7. \A r \in Requests : pc'[r] = "passed" => at'[r] <= clock'
    BY <2>1, <2>5 DEF IInv
  <2> QED
    BY <2>1, <2>2, <2>3, <2>6, <2>7 DEF IInv
<1>2. ASSUME NEW r \in Requests, ReserveAtOnce(r) PROVE IInv'
  BY <1>2, ReserveIInv
<1>3. ASSUME NEW r \in Requests, Pass(r) PROVE IInv'
  <2>1. /\ pc[r] = "sleeping" /\ clock >= at[r] /\ pc' = [pc EXCEPT ![r] = "passed"]
        /\ clock' = clock /\ tokens' = tokens /\ last_refill' = last_refill /\ at' = at
    BY <1>3 DEF Pass
  <2>2. /\ pc'[r] = "passed"
        /\ \A s \in Requests \ {r} : pc'[s] = pc[s]
    BY <2>1 DEF IInv, TypeOK
  <2>3. Reserved' = Reserved
    BY <2>1, <2>2 DEF Reserved
  <2>4. \A T \in Nat : DueBy(T)' = DueBy(T)
    BY <2>1, <2>3 DEF DueBy
  <2>5. TypeOK'
    BY <2>1 DEF IInv, TypeOK
  <2>6. clock \in Nat /\ at[r] \in Nat
    BY DEF IInv, TypeOK
  <2>7. \A s \in Requests : pc'[s] # "locking"
    BY <2>2 DEF IInv
  <2>8. \A s \in Requests : pc'[s] = "passed" => at'[s] <= clock'
    BY <2>1, <2>2, <2>6 DEF IInv
  <2> QED
    BY <2>1, <2>3, <2>4, <2>5, <2>7, <2>8 DEF IInv
<1>4. CASE UNCHANGED vars
  <2>1. Reserved' = Reserved /\ \A T \in Nat : DueBy(T)' = DueBy(T)
    BY <1>4 DEF vars, Reserved, DueBy
  <2> QED
    BY <1>4, <2>1 DEF IInv, TypeOK, vars
<1> QED
  BY <1>1, <1>2, <1>3, <1>4 DEF SerialNext

\* The invariant holds throughout a run of reserve() and its sleeps on one thread.
LEMMA Invariance == Serial => []IInv
  BY InitIInv, NextIInv, PTL DEF Serial

\* The bucket never holds more than the burst, and time and places keep their
\* types (reserve, Bucket).
THEOREM LimiterTypeCorrect == Serial => []TypeOK
<1>1. IInv => TypeOK
  BY DEF IInv
<1> QED
  BY <1>1, Invariance, PTL

\* On one thread the middleware lets no more through than the burst and the
\* configured rate allow, for any number of requests, any cost and any burst.
THEOREM RateKept == Serial => []RateRespected
<1>1. IInv => RateRespected
  <2> SUFFICES ASSUME IInv PROVE RateRespected
    OBVIOUS
  <2>1. clock \in Nat
    BY DEF IInv, TypeOK
  <2>2. Passed \subseteq DueBy(clock) /\ DueBy(clock) \in SUBSET Requests
    BY DEF IInv, Passed, DueBy, Reserved
  <2>3. /\ Cost * Cardinality(Passed) <= Cost * Cardinality(DueBy(clock))
        /\ Cardinality(Passed) \in Nat /\ Cardinality(DueBy(clock)) \in Nat
    BY <2>2, SubsetCost
  <2>4. Cost * Cardinality(DueBy(clock)) <= Burst + clock
    BY <2>1 DEF IInv
  <2> DEFINE some == Cost * Cardinality(Passed)
             all == Cost * Cardinality(DueBy(clock))
  <2>5. some \in Int /\ all \in Int /\ some <= all /\ all <= Burst + clock
    BY <2>3, <2>4, LimiterAssumption
  <2> HIDE DEF some, all
  <2>6. some <= Burst + clock
    BY <2>1, <2>5, LimiterAssumption
  <2> QED
    BY <2>6 DEF some, RateRespected
<1> QED
  BY <1>1, Invariance, PTL

\* On one thread a request that sleeps is let through no later than any that
\* reserves after it.
THEOREM PlacesKept == Serial => NoOvertaking
<1> DEFINE Step == \A r, s \in Requests :
                      /\ pc[r] = "sleeping"
                      /\ pc[s] \in {"new", "locking"} /\ pc'[s] = "sleeping"
                      => at[r] <= at'[s]
<1>1. IInv /\ [SerialNext]_vars => [Step]_vars
  <2> SUFFICES ASSUME IInv, SerialNext,
                      NEW r \in Requests, NEW s \in Requests,
                      pc[r] = "sleeping", pc[s] \in {"new", "locking"},
                      pc'[s] = "sleeping"
               PROVE  at[r] <= at'[s]
    OBVIOUS
  <2>1. PICK t \in Requests : ReserveAtOnce(t) \/ Pass(t)
    BY DEF SerialNext, Tick
  <2>2. t = s /\ ReserveAtOnce(s)
    BY <2>1 DEF ReserveAtOnce, Reserve, Pass, IInv, TypeOK
  <2> QED
    BY <2>2, ReserveIInv
<1> QED
  BY <1>1, Invariance, PTL DEF Serial, NoOvertaking

=============================================================================
