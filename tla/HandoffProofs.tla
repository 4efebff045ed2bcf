--------------------------- MODULE HandoffProofs ----------------------------
(***************************************************************************)
(* Proofs about Handoff, for any number of calls, places and browsers and  *)
(* any HandoffPolicy: browsers are bounded, at once and per window, are    *)
(* started for challenges alone, and what they earn stays at its exit.     *)
(***************************************************************************)
EXTENDS Handoff, TLAPS, FiniteSetTheorems, SequenceTheorems

-----------------------------------------------------------------------------
(* The policy. *)

\* with_budget, with_window, ...: no bound is less than one.
LEMMA PolicyTypes ==
    /\ Budget \in Nat \ {0} /\ Window \in Nat \ {0}
    /\ TrackedOrigins \in Nat \ {0} /\ Concurrency \in Nat \ {0}
  <1>1. ASSUME NEW asked \in Nat PROVE AtLeastOne(asked) \in Nat \ {0}
    <2>1. \E x \in {asked, 1} : \A y \in {asked, 1} : x >= y
      BY <1>1
    <2>2. /\ Max({asked, 1}) \in {asked, 1}
          /\ \A y \in {asked, 1} : Max({asked, 1}) >= y
      BY <2>1 DEF Max
    <2> QED
      BY <2>2 DEF AtLeastOne
  <1> QED
    BY <1>1, HandoffAssumption DEF Budget, Window, TrackedOrigins, Concurrency

-----------------------------------------------------------------------------
(* The budget of an origin, as a matter of when its browsers were started: *)
(* D the solves started for it, T[d] when.                                 *)

\* Since the window began, in the window's length before that, and within a
\* stretch of one window.
Since(D, T, w) == {d \in D : T[d] >= w}
JustBefore(D, T, w) == {d \in D : w - Window < T[d] /\ T[d] < w}
Within(D, T, from) == {d \in D : T[d] \in from .. (from + Window - 1)}

\* The window that began at w counts n solves, the first of them at w and none
\* after the window's end, and no stretch of one window has seen two budgets.
\* What keeps it that way is that less than a budget lies within a window's
\* length before w.
Budgeted(D, T, w, n) ==
    /\ Cardinality(Since(D, T, w)) = n
    /\ n <= Budget
    /\ \E d \in D : T[d] = w
    /\ \A d \in D : T[d] < w + Window
    /\ Cardinality(JustBefore(D, T, w)) < Budget
    /\ \A from \in Int : Cardinality(Within(D, T, from)) < 2 * Budget

\* The parts of a finite set of solves are finite.
LEMMA PartsFinite ==
    ASSUME NEW D, IsFiniteSet(D), NEW T, NEW w
    PROVE  /\ IsFiniteSet(Since(D, T, w)) /\ Cardinality(Since(D, T, w)) \in Nat
           /\ IsFiniteSet(JustBefore(D, T, w)) /\ Cardinality(JustBefore(D, T, w)) \in Nat
           /\ IsFiniteSet(Within(D, T, w)) /\ Cardinality(Within(D, T, w)) \in Nat
  <1>1. /\ Since(D, T, w) \in SUBSET D /\ JustBefore(D, T, w) \in SUBSET D
        /\ Within(D, T, w) \in SUBSET D
    BY DEF Since, JustBefore, Within
  <1> QED
    BY <1>1, FS_Subset, FS_CardinalityType

\* Budgeted looks at the solves in D alone.
LEMMA BudgetedSame ==
    ASSUME NEW D, NEW T, NEW U, NEW w, NEW n, \A d \in D : U[d] = T[d], Budgeted(D, T, w, n)
    PROVE  Budgeted(D, U, w, n)
  <1>1. /\ Since(D, U, w) = Since(D, T, w) /\ JustBefore(D, U, w) = JustBefore(D, T, w)
        /\ \A from \in Int : Within(D, U, from) = Within(D, T, from)
    BY DEF Since, JustBefore, Within
  <1> QED
    BY <1>1 DEF Budgeted

\* The first solve of an origin opens its window.
LEMMA FirstSpend ==
    ASSUME NEW x, NEW T, T[x] \in Int
    PROVE  Budgeted({x}, T, T[x], 1)
  <1>1. Since({x}, T, T[x]) = {x} /\ JustBefore({x}, T, T[x]) = {}
    BY DEF Since, JustBefore
  <1>2. Cardinality({x}) = 1 /\ IsFiniteSet({x}) /\ Cardinality({}) = 0
    BY FS_Singleton, FS_EmptySet
  <1>3. ASSUME NEW from \in Int PROVE Cardinality(Within({x}, T, from)) < 2 * Budget
    <2>1. Within({x}, T, from) \in SUBSET {x}
      BY DEF Within
    <2>2. Cardinality(Within({x}, T, from)) <= 1
      BY <1>2, <2>1, FS_Subset, Zenon
    <2>3. Cardinality(Within({x}, T, from)) \in Nat
      BY <1>2, PartsFinite
    <2> QED
      BY <2>2, <2>3, PolicyTypes
  <1>4. T[x] < T[x] + Window /\ 1 <= Budget /\ 0 < Budget
    BY PolicyTypes
  <1>5. /\ Cardinality(Since({x}, T, T[x])) = 1
        /\ Cardinality(JustBefore({x}, T, T[x])) < Budget
    BY <1>1, <1>2, <1>4
  <1>6. (\E d \in {x} : T[d] = T[x]) /\ \A d \in {x} : T[d] < T[x] + Window
    BY <1>4
  <1> QED
    BY <1>3, <1>4, <1>5, <1>6 DEF Budgeted

\* A solve more in a window with budget left.
LEMMA NextSpend ==
    ASSUME NEW D, IsFiniteSet(D), NEW T, NEW x, x \notin D, NEW w \in Int, NEW n,
           Budgeted(D, T, w, n), n < Budget,
           \A d \in D : T[d] \in Int /\ T[d] <= T[x],
           T[x] \in Int, T[x] - w < Window
    PROVE  Budgeted(D \cup {x}, T, w, n + 1)
  <1> DEFINE E == D \cup {x}
  <1>1. n \in Nat /\ n + 1 <= Budget /\ \E d \in D : T[d] = w
    BY PartsFinite, PolicyTypes DEF Budgeted
  <1>2. w <= T[x]
    BY <1>1
  <1>3. Since(E, T, w) = Since(D, T, w) \cup {x} /\ x \notin Since(D, T, w)
    BY <1>2 DEF Since
  <1>4. Cardinality(Since(E, T, w)) = n + 1
    <2>1. IsFiniteSet(Since(D, T, w)) /\ Cardinality(Since(D, T, w)) = n
      BY PartsFinite DEF Budgeted
    <2> QED
      BY <1>3, <2>1, FS_AddElement, Zenon
  <1>5. JustBefore(E, T, w) = JustBefore(D, T, w)
    BY <1>2 DEF JustBefore
  <1>6. ASSUME NEW from \in Int PROVE Cardinality(Within(E, T, from)) < 2 * Budget
    <2>1. CASE T[x] \notin from .. (from + Window - 1)
      <3>1. Within(E, T, from) = Within(D, T, from)
        BY <2>1 DEF Within
      <3> QED
        BY <3>1 DEF Budgeted
    <2>2. CASE T[x] \in from .. (from + Window - 1)
      <3> DEFINE old == JustBefore(D, T, w)
                 new == Since(D, T, w)
      <3>1. Within(E, T, from) \in SUBSET ((old \cup new) \cup {x})
        <4> SUFFICES ASSUME NEW d \in D, T[d] \in from .. (from + Window - 1)
                     PROVE  d \in old \cup new
          BY DEF Within
        <4>1. w - Window < T[d]
          BY <1>2, <2>2, PolicyTypes
        <4> QED
          BY <4>1 DEF JustBefore, Since
      <3>2. /\ IsFiniteSet(old) /\ Cardinality(old) \in Nat
            /\ IsFiniteSet(new) /\ Cardinality(new) = n
            /\ Cardinality(old) < Budget
        BY PartsFinite DEF Budgeted
      <3> HIDE DEF old, new, E
      <3>3. /\ IsFiniteSet(old \cup new) /\ Cardinality(old \cup new) \in Nat
            /\ Cardinality(old \cup new) <= Cardinality(old) + n
        <4>1. /\ IsFiniteSet(old \cup new)
              /\ Cardinality(old \cup new)
                    = Cardinality(old) + Cardinality(new) - Cardinality(old \cap new)
          BY <3>2, FS_Union
        <4>2. Cardinality(old \cap new) \in Nat
          BY <3>2, FS_Intersection, FS_CardinalityType
        <4>3. Cardinality(old \cup new) \in Nat
          BY <4>1, FS_CardinalityType
        <4> QED
          BY <1>1, <3>2, <4>1, <4>2, <4>3
      <3>4. /\ IsFiniteSet((old \cup new) \cup {x})
            /\ Cardinality((old \cup new) \cup {x}) <= Cardinality(old \cup new) + 1
            /\ Cardinality((old \cup new) \cup {x}) \in Nat
        <4>1. /\ IsFiniteSet((old \cup new) \cup {x})
              /\ Cardinality((old \cup new) \cup {x})
                    = IF x \in old \cup new THEN Cardinality(old \cup new)
                                            ELSE Cardinality(old \cup new) + 1
          BY <3>3, FS_AddElement, Zenon
        <4> QED
          BY <3>3, <4>1
      <3>5. /\ Cardinality(Within(E, T, from)) <= Cardinality((old \cup new) \cup {x})
            /\ Cardinality(Within(E, T, from)) \in Nat
        BY <3>1, <3>4, FS_Subset, FS_CardinalityType
      <3> QED
        BY <1>1, <3>2, <3>3, <3>4, <3>5, PolicyTypes
    <2> QED
      BY <2>1, <2>2
  <1>7. \A d \in E : T[d] < w + Window
    BY PolicyTypes DEF Budgeted
  <1> QED
    BY <1>1, <1>4, <1>5, <1>6, <1>7 DEF Budgeted

\* A solve after the window's end opens the next window.
LEMMA NewWindow ==
    ASSUME NEW D, IsFiniteSet(D), NEW T, NEW x, x \notin D, NEW w \in Int, NEW n,
           Budgeted(D, T, w, n),
           \A d \in D : T[d] \in Int,
           T[x] \in Int, T[x] - w >= Window
    PROVE  Budgeted(D \cup {x}, T, T[x], 1)
  <1> DEFINE E == D \cup {x}
             last == JustBefore(D, T, T[x])
  <1>1. PICK first \in D : T[first] = w
    BY DEF Budgeted
  <1>2. \A d \in D : T[d] < T[x]
    BY PolicyTypes DEF Budgeted
  <1>3. Since(E, T, T[x]) = {x} /\ JustBefore(E, T, T[x]) = last
    BY <1>2 DEF Since, JustBefore
  <1>4. last \in SUBSET (Since(D, T, w) \ {first}) /\ first \in Since(D, T, w)
    BY <1>1, PolicyTypes DEF Since, JustBefore
  <1>5. IsFiniteSet(last) /\ Cardinality(last) \in Nat /\ Cardinality(last) < Budget
    <2> DEFINE counted == Since(D, T, w)
    <2>1. IsFiniteSet(counted) /\ Cardinality(counted) \in Nat /\ Cardinality(counted) <= Budget
      BY PartsFinite DEF Budgeted
    <2> HIDE DEF counted, last
    <2>2. IsFiniteSet(counted \ {first}) /\ Cardinality(counted \ {first}) = Cardinality(counted) - 1
      BY <1>4, <2>1, FS_RemoveElement DEF counted
    <2>3. /\ IsFiniteSet(last) /\ Cardinality(last) \in Nat
          /\ Cardinality(last) <= Cardinality(counted \ {first})
      BY <1>4, <2>2, FS_Subset, FS_CardinalityType DEF counted
    <2> QED
      BY <2>1, <2>2, <2>3, PolicyTypes
  <1>6. ASSUME NEW from \in Int PROVE Cardinality(Within(E, T, from)) < 2 * Budget
    <2>1. CASE T[x] \notin from .. (from + Window - 1)
      <3>1. Within(E, T, from) = Within(D, T, from)
        BY <2>1 DEF Within
      <3> QED
        BY <3>1 DEF Budgeted
    <2>2. CASE T[x] \in from .. (from + Window - 1)
      <3>1. Within(E, T, from) \in SUBSET (last \cup {x})
        <4> SUFFICES ASSUME NEW d \in D, T[d] \in from .. (from + Window - 1)
                     PROVE  d \in last
          BY DEF Within
        <4>1. T[x] - Window < T[d]
          BY <2>2, PolicyTypes
        <4> QED
          BY <1>2, <4>1 DEF JustBefore
      <3> HIDE DEF last, E
      <3>2. /\ IsFiniteSet(last \cup {x})
            /\ Cardinality(last \cup {x})
                  = IF x \in last THEN Cardinality(last) ELSE Cardinality(last) + 1
        BY <1>5, FS_AddElement
      <3>3. /\ Cardinality(Within(E, T, from)) <= Cardinality(last \cup {x})
            /\ Cardinality(Within(E, T, from)) \in Nat
        BY <3>1, <3>2, FS_Subset, FS_CardinalityType
      <3> QED
        BY <1>5, <3>2, <3>3, PolicyTypes
    <2> QED
      BY <2>1, <2>2
  <1>7. \A d \in E : T[d] < T[x] + Window
    BY <1>2, PolicyTypes
  <1>8. Cardinality({x}) = 1
    BY FS_Singleton
  <1> QED
    BY <1>3, <1>5, <1>6, <1>7, <1>8, PolicyTypes DEF Budgeted

\* A solve more, within the window or after it.
LEMMA CountedOn ==
    ASSUME NEW D, IsFiniteSet(D), NEW T, NEW U, NEW x, x \notin D, NEW w \in Nat, NEW n \in Nat,
           Budgeted(D, T, w, n), U[x] \in Int,
           \A d \in D : U[d] = T[d] /\ U[d] \in Int /\ U[d] <= U[x]
    PROVE  /\ U[x] - w >= Window => Budgeted(D \cup {x}, U, U[x], 1)
           /\ U[x] - w < Window /\ n < Budget => Budgeted(D \cup {x}, U, w, n + 1)
  <1>1. Budgeted(D, U, w, n)
    BY BudgetedSame
  <1>2. w \in Int
    OBVIOUS
  <1>3. ASSUME U[x] - w >= Window PROVE Budgeted(D \cup {x}, U, U[x], 1)
    BY <1>1, <1>2, <1>3, NewWindow, Zenon
  <1>4. ASSUME U[x] - w < Window, n < Budget PROVE Budgeted(D \cup {x}, U, w, n + 1)
    BY <1>1, <1>2, <1>4, NextSpend, Zenon
  <1> QED
    BY <1>3, <1>4

-----------------------------------------------------------------------------
(* The inductive invariant. *)

Exits == {p.exit : p \in Places} \cup {None}

CallStates ==
    [at : {"idle", "sent", "solving", "done"}, agent : BOOLEAN, attempts : Nat, solve : Nat,
     until : Nat, exit : Exits]

SolveStates ==
    [key : [url : DOMAIN OriginOf, exit : Exits], at : {"queued", "running", "finished"},
     started : Nat, outcome : Outcomes \cup {None}]

CounterStates == [spent : Nat, window_started : Nat, last_used : Nat]

\* Calls, solves, markers and counters have their types.
Typed ==
    /\ call \in [Calls -> CallStates]
    /\ solves \in Seq(SolveStates)
    /\ inflight \in [DOMAIN inflight -> Nat]
    /\ counters \in [DOMAIN counters -> CounterStates]
    /\ tick \in Nat /\ now \in Nat

\* A marker stands for a solve of its own target and exit, a call waits for a
\* solve of its own exit, and what is stored was earned at the exit it is for.
MarkersTrue ==
    /\ \A k \in DOMAIN inflight : inflight[k] \in DOMAIN solves /\ solves[inflight[k]].key = k
    /\ \A c \in Calls : call[c].at = "solving" =>
          call[c].solve \in DOMAIN solves /\ solves[call[c].solve].key.exit = call[c].exit
    /\ \A kept \in jar :
          kept.earned \in DOMAIN solves /\ kept.exit = solves[kept.earned].key.exit

\* The solves started for an origin, and when each solve was.
StartedFor(o) == {s \in DOMAIN solves : OriginOf[solves[s].key.url] = o}
Times == [s \in DOMAIN solves |-> solves[s].started]

\* The counter of an origin that was never dropped tells of all its solves.
Counted ==
    /\ \A s \in DOMAIN solves : solves[s].started <= now
    /\ \A o \in Range(OriginOf) \ uncounted :
          IF o \in DOMAIN counters
          THEN Budgeted(StartedFor(o), Times, counters[o].window_started, counters[o].spent)
          ELSE StartedFor(o) = {}

\* What every step of the layer keeps.
IInv == Typed /\ MarkersTrue /\ Counted /\ Cardinality(Running) <= Concurrency

\* The invariant holds before the first call.
LEMMA InitIInv ==
    ASSUME Init
    PROVE  IInv
  <1>1. Fresh \in CallStates
    BY DEF Fresh, CallStates, Exits
  <1>2. DOMAIN solves = {} /\ DOMAIN inflight = {} /\ DOMAIN counters = {} /\ solves = <<>>
    BY DEF Init
  <1>3. Typed
    BY <1>1, <1>2 DEF Init, Typed
  <1>4. MarkersTrue
    BY <1>2 DEF Init, MarkersTrue, Fresh
  <1>5. Counted
    BY <1>2 DEF Init, Counted, StartedFor
  <1>6. Running = {}
    BY <1>2 DEF Running, Live
  <1>7. Cardinality(Running) <= Concurrency
    BY <1>6, FS_EmptySet, PolicyTypes
  <1> QED
    BY <1>3, <1>4, <1>5, <1>7 DEF IInv

\* The solves are finitely many, numbered from one.
LEMMA SolvesFinite ==
    ASSUME Typed
    PROVE  /\ Len(solves) \in Nat /\ DOMAIN solves = 1 .. Len(solves)
           /\ IsFiniteSet(DOMAIN solves)
           /\ IsFiniteSet(Running) /\ Cardinality(Running) \in Nat
           /\ \A s \in DOMAIN solves : solves[s] \in SolveStates
           /\ \A o : IsFiniteSet(StartedFor(o))
  <1>1. Len(solves) \in Nat /\ DOMAIN solves = 1 .. Len(solves)
    BY LenProperties DEF Typed
  <1>2. IsFiniteSet(DOMAIN solves)
    BY <1>1, FS_Interval
  <1>3. Running \in SUBSET DOMAIN solves /\ \A o : StartedFor(o) \in SUBSET DOMAIN solves
    BY DEF Running, Live, StartedFor
  <1>4. \A s \in DOMAIN solves : solves[s] \in SolveStates
    BY <1>1, ElementOfSeq DEF Typed
  <1> QED
    BY <1>1, <1>2, <1>3, <1>4, FS_Subset, FS_CardinalityType

\* No more browsers run than did.
LEMMA NoMoreRunning ==
    ASSUME IInv, Running' \subseteq Running
    PROVE  Cardinality(Running') <= Concurrency
  <1>1. IsFiniteSet(Running) /\ Cardinality(Running) \in Nat
    BY SolvesFinite DEF IInv
  <1>2. Cardinality(Running') <= Cardinality(Running) /\ Cardinality(Running') \in Nat
    BY <1>1, FS_Subset, FS_CardinalityType
  <1> QED
    BY <1>1, <1>2, PolicyTypes DEF IInv

\* Where nothing is started and no counter counts, the counters still tell.
LEMMA CountedStays ==
    ASSUME IInv, DOMAIN solves' = DOMAIN solves,
           \A s \in DOMAIN solves : /\ solves'[s].key = solves[s].key
                                    /\ solves'[s].started = solves[s].started,
           DOMAIN counters' = DOMAIN counters,
           \A o \in DOMAIN counters : /\ counters'[o].window_started = counters[o].window_started
                                      /\ counters'[o].spent = counters[o].spent,
           uncounted' = uncounted, now' \in Nat, now <= now'
    PROVE  Counted'
  <1>1. \A s \in DOMAIN solves : solves[s].started \in Nat /\ now \in Nat
    BY SolvesFinite DEF IInv, SolveStates, Typed
  <1>2. \A s \in DOMAIN solves' : solves'[s].started <= now'
    BY <1>1 DEF IInv, Counted
  <1>3. \A o : StartedFor(o)' = StartedFor(o)
    BY DEF StartedFor
  <1>4. Times' = Times
    BY DEF Times
  <1>5. ASSUME NEW o \in Range(OriginOf) \ uncounted
        PROVE  (IF o \in DOMAIN counters
                THEN Budgeted(StartedFor(o), Times, counters[o].window_started, counters[o].spent)
                ELSE StartedFor(o) = {})'
    <2>1. IF o \in DOMAIN counters
          THEN Budgeted(StartedFor(o), Times, counters[o].window_started, counters[o].spent)
          ELSE StartedFor(o) = {}
      BY DEF IInv, Counted
    <2> QED
      BY <1>3, <1>4, <2>1
  <1> QED
    BY <1>2, <1>5 DEF Counted

-----------------------------------------------------------------------------
(* Steps that start nothing. *)

\* Nobody waits who did not before, no marker is new, and what is stored was
\* earned at the exit it is for.
NobodyJoins ==
    /\ call' \in [Calls -> CallStates]
    /\ \A c \in Calls : call'[c].at = "solving" => call'[c] = call[c]
NothingRegistered ==
    /\ inflight' \in [DOMAIN inflight' -> Nat]
    /\ DOMAIN inflight' \subseteq DOMAIN inflight
    /\ \A k \in DOMAIN inflight' : inflight'[k] = inflight[k]
StoredAtItsExit ==
    \A kept \in jar' : kept \in jar \/
        (kept.earned \in DOMAIN solves /\ kept.exit = solves[kept.earned].key.exit)
NothingStarted == UNCHANGED <<solves, counters, tick, now, uncounted>>

\* A step that lets calls stop waiting, and may take markers away, keeps the
\* invariant.
LEMMA LeavingIInv ==
    ASSUME IInv, NobodyJoins, NothingRegistered, StoredAtItsExit, NothingStarted
    PROVE  IInv'
  <1>1. Typed'
    BY DEF IInv, Typed, NobodyJoins, NothingRegistered, NothingStarted
  <1>2. MarkersTrue'
    BY DEF IInv, MarkersTrue, NobodyJoins, NothingRegistered, StoredAtItsExit, NothingStarted
  <1>3. now' \in Nat /\ now <= now'
    BY DEF IInv, Typed, NothingStarted
  <1>4. Counted'
    BY <1>3, CountedStays DEF NothingStarted
  <1>5. Running' \subseteq Running
    BY DEF Running, Live, Waiters, NobodyJoins, NothingStarted
  <1> QED
    BY <1>1, <1>2, <1>4, <1>5, NoMoreRunning DEF IInv

\* A call is given a new state in which it does not wait.
LEMMA Moved ==
    ASSUME IInv, NEW c \in Calls, NEW s \in CallStates, s.at # "solving",
           call' = [call EXCEPT ![c] = s]
    PROVE  NobodyJoins
  BY DEF IInv, Typed, NobodyJoins

\* The request is returned to its caller.
LEMMA Returned ==
    ASSUME IInv, NEW c \in Calls, Return(c)
    PROVE  NobodyJoins
  <1> DEFINE s == [Fresh EXCEPT !.at = "done"]
  <1>1. s \in CallStates /\ s.at # "solving"
    BY DEF Fresh, CallStates, Exits
  <1>2. call' = [call EXCEPT ![c] = s]
    BY DEF Return
  <1> HIDE DEF s
  <1> QED
    BY <1>1, <1>2, Moved

\* A marker that is taken away leaves the others.
LEMMA SettledLeaves ==
    ASSUME IInv, NEW k
    PROVE  /\ Settled(k) \in [DOMAIN Settled(k) -> Nat]
           /\ DOMAIN Settled(k) \subseteq DOMAIN inflight
           /\ \A l \in DOMAIN Settled(k) : Settled(k)[l] = inflight[l]
  BY DEF IInv, Typed, Settled, Restrict

\* A request that is only looked at, sent, returned or dropped.
LEMMA PlainIInv ==
    ASSUME IInv, NEW c \in Calls,
           \/ \E request \in Requests :
                 Observe(c, request) \/ \E own \in BOOLEAN : Send(c, request, UserAgent(own))
           \/ \E answer \in Verdicts, kind \in Kinds : Pass(c, answer, kind)
           \/ Abandon(c)
    PROVE  IInv'
  <1>1. /\ UNCHANGED <<solves, inflight, counters, tick, now, jar, uncounted>>
        /\ \/ call' = [call EXCEPT ![c].at = "done"]
           \/ \E own \in BOOLEAN : call' = [call EXCEPT ![c].at = "sent", ![c].agent = UserAgent(own)]
           \/ Return(c)
    BY DEF Observe, Send, Pass, Abandon
  <1>2. call \in [Calls -> CallStates] /\ call[c] \in CallStates
    BY DEF IInv, Typed
  <1>3. NobodyJoins
    <2>1. CASE call' = [call EXCEPT ![c].at = "done"]
      <3> DEFINE s == [call[c] EXCEPT !.at = "done"]
      <3>1. s \in CallStates /\ s.at # "solving"
        BY <1>2 DEF CallStates
      <3>2. call' = [call EXCEPT ![c] = s]
        BY <2>1
      <3> HIDE DEF s
      <3> QED
        BY <3>1, <3>2, Moved
    <2>2. ASSUME NEW own \in BOOLEAN,
                 call' = [call EXCEPT ![c].at = "sent", ![c].agent = UserAgent(own)]
          PROVE  NobodyJoins
      <3>1. UserAgent(own) \in BOOLEAN
        BY HandoffAssumption DEF UserAgent
      <3>2. PICK agent \in BOOLEAN : agent = UserAgent(own)
        BY <3>1
      <3> DEFINE s == [call[c] EXCEPT !.at = "sent", !.agent = agent]
      <3>3. s \in CallStates /\ s.at # "solving"
        BY <1>2, Zenon DEF CallStates
      <3>4. call' = [call EXCEPT ![c] = s]
        BY <1>2, <2>2, <3>2, Zenon
      <3> HIDE DEF s
      <3> QED
        BY <3>3, <3>4, Moved
    <2>3. CASE Return(c)
      BY <2>3, Returned
    <2> QED
      BY <1>1, <2>1, <2>2, <2>3
  <1>4. NothingRegistered
    BY <1>1 DEF IInv, Typed, NothingRegistered
  <1>5. StoredAtItsExit
    BY <1>1 DEF StoredAtItsExit
  <1>6. NothingStarted
    BY <1>1 DEF NothingStarted
  <1> QED
    BY <1>3, <1>4, <1>5, <1>6, LeavingIInv

\* The wait overruns the solve budget.
LEMMA OverrunIInv ==
    ASSUME IInv, NEW c \in Calls, Overrun(c)
    PROVE  IInv'
  <1>1. PICK k : inflight' = Settled(k)
    BY DEF Overrun
  <1>2. NothingStarted /\ UNCHANGED jar /\ Return(c)
    BY DEF Overrun, NothingStarted
  <1>3. NothingRegistered
    BY <1>1, SettledLeaves DEF NothingRegistered
  <1>4. NobodyJoins
    BY <1>2, Returned
  <1>5. StoredAtItsExit
    BY <1>2 DEF StoredAtItsExit
  <1> QED
    BY <1>2, <1>3, <1>4, <1>5, LeavingIInv

\* The outcome reaches a waiter: what it earned is stored for the exit that was
\* challenged, which is the solve's own.
LEMMA AnswerIInv ==
    ASSUME IInv, NEW c \in Calls, Answer(c)
    PROVE  IInv'
  <1> DEFINE s == call[c].solve
  <1>1. PICK k : inflight' = Settled(k)
    BY DEF Answer
  <1>2. NothingStarted
    BY DEF Answer, NothingStarted
  <1>3. s \in DOMAIN solves /\ solves[s].key.exit = call[c].exit
    BY DEF Answer, IInv, MarkersTrue
  <1>7. NothingRegistered
    BY <1>1, SettledLeaves DEF NothingRegistered
  <1>4. call \in [Calls -> CallStates] /\ call[c] \in CallStates
    BY DEF IInv, Typed
  <1>5. CASE /\ StoreCookies(call[c].exit, s)
             /\ call' = [call EXCEPT ![c] = [@ EXCEPT !.at = "sent", !.solve = 0, !.until = 0, !.exit = None]]
    <2> DEFINE r == [call[c] EXCEPT !.at = "sent", !.solve = 0, !.until = 0, !.exit = None]
    <2>1. r \in CallStates /\ r.at # "solving"
      BY <1>4, Zenon DEF CallStates, Exits
    <2>2. call' = [call EXCEPT ![c] = r]
      BY <1>5
    <2> HIDE DEF r
    <2>3. NobodyJoins
      BY <2>1, <2>2, Moved, Zenon
    <2>4. jar' = jar \cup {[exit |-> call[c].exit, earned |-> s]}
      BY <1>5 DEF StoreCookies
    <2>5. StoredAtItsExit
      BY <1>3, <2>4 DEF StoredAtItsExit
    <2> QED
      BY <1>2, <1>7, <2>3, <2>5, LeavingIInv
  <1>6. CASE Return(c) /\ UNCHANGED jar
    <2>1. NobodyJoins
      BY <1>6, Returned
    <2>2. StoredAtItsExit
      BY <1>6 DEF StoredAtItsExit
    <2> QED
      BY <1>2, <1>7, <2>1, <2>2, LeavingIInv
  <1> QED
    BY <1>5, <1>6 DEF Answer

-----------------------------------------------------------------------------
(* Steps of the solves, and joining one. *)

\* What a call becomes that waits for a solve.
WaitingCall(c, exit, s) ==
    [call[c] EXCEPT !.at = "solving", !.attempts = @ + 1, !.solve = s,
                    !.until = now + SolveBudget, !.exit = exit]

\* It has a call's type, and waits for that solve at that exit.
LEMMA WaitingTyped ==
    ASSUME IInv, NEW c \in Calls, NEW exit \in Exits, NEW s \in Nat
    PROVE  /\ WaitingCall(c, exit, s) \in CallStates
           /\ WaitingCall(c, exit, s).at = "solving"
           /\ WaitingCall(c, exit, s).solve = s
           /\ WaitingCall(c, exit, s).exit = exit
  <1>1. call[c] \in CallStates /\ now \in Nat
    BY DEF IInv, Typed
  <1>2. call[c].attempts + 1 \in Nat /\ now + SolveBudget \in Nat
    BY <1>1, HandoffAssumption DEF CallStates
  <1> QED
    BY <1>1, <1>2, Zenon DEF CallStates, WaitingCall

\* A call that joins waits for a solve that already had a waiter, and that is
\* of its own exit.
LEMMA JoinIInv ==
    ASSUME IInv, NEW c \in Calls, NEW answer, NEW kind, NEW url, NEW exit \in Exits,
           Join(c, answer, kind, url, exit)
    PROVE  IInv'
  <1>1. PICK s : s = inflight[SolveKey(url, exit)]
    OBVIOUS
  <1>2. s \in Live /\ s \in DOMAIN solves /\ solves[s].key.exit = exit
    BY <1>1 DEF Join, Joinable, IInv, MarkersTrue, SolveKey
  <1>3. s \in Nat
    BY <1>2, SolvesFinite DEF IInv
  <1>4. call' = [call EXCEPT ![c] = WaitingCall(c, exit, s)]
    <2>1. Waiting(c, exit, s)
      BY <1>1 DEF Join
    <2> QED
      BY <2>1 DEF Waiting, WaitingCall
  <1>5. UNCHANGED <<solves, inflight, counters, tick, now, jar, uncounted>>
    BY DEF Join
  <1>6. /\ call \in [Calls -> CallStates] /\ call' \in [Calls -> CallStates]
        /\ call'[c].at = "solving" /\ call'[c].solve = s /\ call'[c].exit = exit
        /\ \A d \in Calls \ {c} : call'[d] = call[d]
    BY <1>3, <1>4, WaitingTyped DEF IInv, Typed
  <1>7. Typed'
    BY <1>5, <1>6 DEF IInv, Typed
  <1>8. MarkersTrue'
    BY <1>2, <1>5, <1>6 DEF IInv, MarkersTrue
  <1>9. Counted'
    <2>1. now' \in Nat /\ now <= now'
      BY <1>5 DEF IInv, Typed
    <2> QED
      BY <1>5, <2>1, CountedStays
  <1>10. Running' \subseteq Running
    BY <1>2, <1>5, <1>6 DEF Running, Live, Waiters
  <1> QED
    BY <1>7, <1>8, <1>9, <1>10, NoMoreRunning DEF IInv

\* A solve moves on: it keeps its key and when it was started.
LEMMA SolveMoves ==
    ASSUME IInv, NEW s \in DOMAIN solves, NEW r \in SolveStates,
           r.key = solves[s].key, r.started = solves[s].started,
           solves' = [solves EXCEPT ![s] = r],
           UNCHANGED <<call, inflight, counters, tick, now, jar, uncounted>>
    PROVE  /\ Typed' /\ MarkersTrue' /\ Counted'
           /\ Live' = Live /\ solves'[s] = r /\ \A d \in DOMAIN solves \ {s} : solves'[d] = solves[d]
  <1>1. solves \in Seq(SolveStates)
    BY DEF IInv, Typed
  <1>2. /\ solves' \in Seq(SolveStates) /\ DOMAIN solves' = DOMAIN solves
        /\ solves'[s] = r /\ \A d \in DOMAIN solves \ {s} : solves'[d] = solves[d]
    BY <1>1
  <1>3. Typed'
    BY <1>2 DEF IInv, Typed
  <1>4. \A d \in DOMAIN solves : /\ solves'[d].key = solves[d].key
                                 /\ solves'[d].started = solves[d].started
    BY <1>2
  <1>5. MarkersTrue'
    BY <1>2, <1>4 DEF IInv, MarkersTrue
  <1>6. Counted'
    <2>1. now' \in Nat /\ now <= now'
      BY DEF IInv, Typed
    <2> QED
      BY <1>2, <1>4, <2>1, CountedStays
  <1>7. Live' = Live
    BY <1>2 DEF Live, Waiters
  <1> QED
    BY <1>2, <1>3, <1>5, <1>6, <1>7

\* A browser starts while fewer run than the policy allows.
LEMMA AcquireIInv ==
    ASSUME IInv, NEW s, Acquire(s)
    PROVE  IInv'
  <1> DEFINE r == [solves[s] EXCEPT !.at = "running"]
  <1>1. s \in DOMAIN solves /\ solves[s] \in SolveStates
    BY SolvesFinite DEF Acquire, Live, IInv
  <1>2. r \in SolveStates /\ r.key = solves[s].key /\ r.started = solves[s].started
    BY <1>1 DEF SolveStates
  <1>3. solves' = [solves EXCEPT ![s] = r]
    BY DEF Acquire
  <1>4. UNCHANGED <<call, inflight, counters, tick, now, jar, uncounted>>
    BY DEF Acquire
  <1> HIDE DEF r
  <1>5. /\ Typed' /\ MarkersTrue' /\ Counted'
        /\ Live' = Live /\ \A d \in DOMAIN solves \ {s} : solves'[d] = solves[d]
    BY <1>1, <1>2, <1>3, <1>4, SolveMoves, Zenon
  <1>6. Running' \subseteq Running \cup {s}
    BY <1>5 DEF Running, Live
  <1>7. IsFiniteSet(Running) /\ Cardinality(Running) \in Nat
    BY SolvesFinite DEF IInv
  <1>8. /\ IsFiniteSet(Running \cup {s})
        /\ Cardinality(Running \cup {s})
              = IF s \in Running THEN Cardinality(Running) ELSE Cardinality(Running) + 1
    BY <1>7, FS_AddElement
  <1>9. Cardinality(Running') <= Cardinality(Running \cup {s}) /\ Cardinality(Running') \in Nat
    BY <1>6, <1>8, FS_Subset, FS_CardinalityType
  <1>10. Cardinality(Running) < Concurrency
    BY DEF Acquire
  <1>11. Cardinality(Running') <= Concurrency
    BY <1>7, <1>8, <1>9, <1>10, PolicyTypes
  <1> QED
    BY <1>5, <1>11 DEF IInv

\* A browser that is done runs no more.
LEMMA FinishIInv ==
    ASSUME IInv, NEW s, NEW o \in Outcomes, Finish(s, o)
    PROVE  IInv'
  <1> DEFINE r == [solves[s] EXCEPT !.at = "finished", !.outcome = o]
  <1>1. s \in DOMAIN solves /\ solves[s] \in SolveStates
    BY SolvesFinite DEF Finish, Running, Live, IInv
  <1>2. /\ r \in SolveStates /\ r.key = solves[s].key /\ r.started = solves[s].started
        /\ r.at = "finished"
    BY <1>1 DEF SolveStates
  <1>3. solves' = [solves EXCEPT ![s] = r]
    BY <1>1, Zenon DEF Finish
  <1>4. UNCHANGED <<call, inflight, counters, tick, now, jar, uncounted>>
    BY DEF Finish
  <1> HIDE DEF r
  <1>5. /\ Typed' /\ MarkersTrue' /\ Counted' /\ Live' = Live
        /\ solves'[s] = r /\ \A d \in DOMAIN solves \ {s} : solves'[d] = solves[d]
    BY <1>1, <1>2, <1>3, <1>4, SolveMoves, Zenon
  <1>6. Running' \subseteq Running
    BY <1>2, <1>5 DEF Running, Live
  <1> QED
    BY <1>5, <1>6, NoMoreRunning DEF IInv

\* Time passes.
LEMMA TickIInv ==
    ASSUME IInv, Tick
    PROVE  IInv'
  <1>1. now \in Nat /\ now' = now + 1 /\ UNCHANGED <<call, solves, inflight, counters, tick, jar, uncounted>>
    BY DEF IInv, Typed, Tick
  <1>2. Typed'
    BY <1>1 DEF IInv, Typed
  <1>3. MarkersTrue'
    BY <1>1 DEF IInv, MarkersTrue
  <1>4. now' \in Nat /\ now <= now'
    BY <1>1
  <1>5. Counted'
    BY <1>1, <1>4, CountedStays
  <1>6. Running' \subseteq Running
    BY <1>1 DEF Running, Live, Waiters
  <1> QED
    BY <1>2, <1>3, <1>5, <1>6, NoMoreRunning DEF IInv

-----------------------------------------------------------------------------
(* Starting a solve, or being refused one. *)

\* spend, for an origin with a counter: the window is begun again once it is
\* over, and counts one more if it has budget left.
LEMMA SpendKnown ==
    ASSUME IInv, NEW o \in DOMAIN counters
    PROVE  LET old == counters[o]
               over == now - old.window_started >= Window
           IN  /\ Spend(o) \in [DOMAIN counters -> CounterStates]
               /\ \A p \in DOMAIN counters \ {o} : Spend(o)[p] = counters[p]
               /\ Allowed(o) <=> over \/ old.spent < Budget
               /\ over => Spend(o)[o].window_started = now /\ Spend(o)[o].spent = 1
               /\ ~over => /\ Spend(o)[o].window_started = old.window_started
                           /\ Spend(o)[o].spent = IF Allowed(o) THEN old.spent + 1 ELSE old.spent
  <1> DEFINE old == counters[o]
             over == now - old.window_started >= Window
             counter == Windowed(old)
             new == [counter EXCEPT !.last_used = tick + 1,
                                    !.spent = IF Allowed(o) THEN counter.spent + 1 ELSE counter.spent]
  <1>1. old \in CounterStates /\ now \in Nat /\ tick + 1 \in Nat
    BY DEF IInv, Typed
  <1>2. /\ counter \in CounterStates
        /\ over => counter.window_started = now /\ counter.spent = 0
        /\ ~over => counter = old
    BY <1>1, Zenon DEF Windowed, CounterStates
  <1>3. Allowed(o) <=> counter.spent < Budget
    BY DEF Allowed
  <1>4. Spend(o) = [counters EXCEPT ![o] = new]
    BY DEF Spend
  <1> HIDE DEF counter
  <1>5. /\ new \in CounterStates /\ new.window_started = counter.window_started
        /\ new.spent = IF Allowed(o) THEN counter.spent + 1 ELSE counter.spent
    <2>1. PICK n \in Nat : n = IF Allowed(o) THEN counter.spent + 1 ELSE counter.spent
      BY <1>2 DEF CounterStates
    <2>2. new = [counter EXCEPT !.last_used = tick + 1, !.spent = n]
      BY <2>1
    <2> QED
      BY <1>1, <1>2, <2>1, <2>2, Zenon DEF CounterStates
  <1> HIDE DEF new
  <1>6. /\ Spend(o) \in [DOMAIN counters -> CounterStates] /\ Spend(o)[o] = new
        /\ \A p \in DOMAIN counters \ {o} : Spend(o)[p] = counters[p]
    BY <1>4, <1>5 DEF IInv, Typed
  <1>7. Allowed(o) <=> over \/ old.spent < Budget
    BY <1>1, <1>2, <1>3, PolicyTypes DEF CounterStates
  <1>8. over => Spend(o)[o].window_started = now /\ Spend(o)[o].spent = 1
    BY <1>2, <1>5, <1>6, <1>7
  <1>9. ~over => /\ Spend(o)[o].window_started = old.window_started
                 /\ Spend(o)[o].spent = IF Allowed(o) THEN old.spent + 1 ELSE old.spent
    BY <1>2, <1>5, <1>6
  <1> QED
    BY <1>6, <1>7, <1>8, <1>9

\* spend, for an origin without one: a counter is dropped for it, or none.
LEMMA SpendFirst ==
    ASSUME IInv, NEW o, o \notin DOMAIN counters
    PROVE  /\ DOMAIN Spend(o) = (DOMAIN counters \ Dropped(o)) \cup {o}
           /\ Spend(o) \in [DOMAIN Spend(o) -> CounterStates]
           /\ Spend(o)[o].window_started = now /\ Spend(o)[o].spent = 1
           /\ \A p \in DOMAIN counters \ Dropped(o) : Spend(o)[p] = counters[p]
           /\ Allowed(o)
  <1> DEFINE new == [spent |-> 1, window_started |-> now, last_used |-> tick + 1]
             left == Restrict(counters, DOMAIN counters \ Dropped(o))
  <1>1. new \in CounterStates /\ new.window_started = now /\ new.spent = 1
    BY DEF IInv, Typed, CounterStates
  <1>2. Spend(o) = Insert(left, o, new)
    BY DEF Spend
  <1>3. /\ DOMAIN left = DOMAIN counters \ Dropped(o)
        /\ \A p \in DOMAIN counters \ Dropped(o) : left[p] = counters[p] /\ left[p] \in CounterStates
    BY DEF Restrict, IInv, Typed
  <1> HIDE DEF new, left
  <1> QED
    BY <1>1, <1>2, <1>3 DEF Insert, Allowed

\* A refusal starts nothing and counts nothing.
LEMMA RefusedIInv ==
    ASSUME IInv, NEW c \in Calls, NEW answer, NEW kind, NEW url, NEW exit,
           StartSolve(c, answer, kind, url, exit), ~Allowed(OriginOf[url])
    PROVE  IInv'
  <1>1. PICK o : o = OriginOf[url]
    OBVIOUS
  <1>2. /\ counters' = Spend(o) /\ tick' = tick + 1 /\ uncounted' = uncounted \cup Dropped(o)
        /\ Return(c) /\ UNCHANGED <<solves, inflight>> /\ UNCHANGED <<now, jar>>
        /\ ~Allowed(o)
    BY <1>1 DEF StartSolve
  <1>3. o \in DOMAIN counters
    BY <1>2 DEF Allowed
  <1>4. uncounted' = uncounted
    BY <1>2, <1>3 DEF Dropped
  <1>5. /\ counters' \in [DOMAIN counters -> CounterStates]
        /\ \A p \in DOMAIN counters : /\ counters'[p].window_started = counters[p].window_started
                                      /\ counters'[p].spent = counters[p].spent
    BY <1>2, <1>3, SpendKnown
  <1>6. /\ call' \in [Calls -> CallStates]
        /\ \A d \in Calls : call'[d].at = "solving" => call'[d] = call[d]
    BY <1>2, Returned DEF NobodyJoins
  <1>7. Typed'
    BY <1>2, <1>5, <1>6 DEF IInv, Typed
  <1>8. MarkersTrue'
    BY <1>2, <1>6 DEF IInv, MarkersTrue
  <1>9. Counted'
    <2>1. now' \in Nat /\ now <= now' /\ DOMAIN counters' = DOMAIN counters
      BY <1>2, <1>5 DEF IInv, Typed
    <2> QED
      BY <1>2, <1>4, <1>5, <2>1, CountedStays
  <1>10. Running' \subseteq Running
    BY <1>2, <1>6 DEF Running, Live, Waiters
  <1> QED
    BY <1>7, <1>8, <1>9, <1>10, NoMoreRunning DEF IInv

\* One solve more, started now for an origin.
StartedNow(e, o) ==
    /\ solves' = Append(solves, e)
    /\ e.started = now
    /\ OriginOf[e.key.url] = o

\* The solves before it stay as they are.
LEMMA Appended ==
    ASSUME IInv, NEW e \in SolveStates, NEW o, StartedNow(e, o), NEW s, s = Len(solves) + 1
    PROVE  /\ solves' \in Seq(SolveStates)
           /\ DOMAIN solves' = DOMAIN solves \cup {s} /\ s \notin DOMAIN solves /\ s \in Nat
           /\ solves'[s] = e /\ \A d \in DOMAIN solves : solves'[d] = solves[d]
           /\ \A d \in DOMAIN solves : Times'[d] = Times[d]
           /\ Times'[s] = now
           /\ \A d \in DOMAIN solves : Times'[d] \in Nat /\ Times'[d] <= now
           /\ StartedFor(o)' = StartedFor(o) \cup {s}
           /\ \A p : p # o => StartedFor(p)' = StartedFor(p)
  <1>1. solves \in Seq(SolveStates) /\ Len(solves) \in Nat /\ DOMAIN solves = 1 .. Len(solves)
    BY SolvesFinite DEF IInv, Typed
  <1>2. /\ solves' \in Seq(SolveStates) /\ Len(solves') = s
        /\ solves'[s] = e /\ \A d \in 1 .. Len(solves) : solves'[d] = solves[d]
    BY <1>1, AppendProperties DEF StartedNow
  <1>3. DOMAIN solves' = 1 .. s
    BY <1>2, LenProperties
  <1>4. DOMAIN solves' = DOMAIN solves \cup {s} /\ s \notin DOMAIN solves /\ s \in Nat
    BY <1>1, <1>3
  <1>5. solves'[s] = e /\ \A d \in DOMAIN solves : solves'[d] = solves[d]
    BY <1>1, <1>2
  <1>6. (\A d \in DOMAIN solves : Times'[d] = Times[d]) /\ Times'[s] = now
    BY <1>4, <1>5 DEF Times, StartedNow
  <1>7. \A d \in DOMAIN solves : Times'[d] \in Nat /\ Times'[d] <= now
    <2>1. \A d \in DOMAIN solves : solves[d] \in SolveStates /\ solves[d].started <= now
      BY SolvesFinite DEF IInv, Counted
    <2> QED
      BY <1>6, <2>1 DEF Times, SolveStates
  <1>8. /\ StartedFor(o)' = StartedFor(o) \cup {s}
        /\ \A p : p # o => StartedFor(p)' = StartedFor(p)
    BY <1>4, <1>5 DEF StartedFor, StartedNow
  <1> QED
    BY <1>2, <1>4, <1>5, <1>6, <1>7, <1>8

\* The counters tell of it.
LEMMA AllowedCounted ==
    ASSUME IInv, NEW e \in SolveStates, NEW o, StartedNow(e, o),
           Allowed(o), counters' = Spend(o), uncounted' = uncounted \cup Dropped(o), now' = now
    PROVE  Counted'
  <1>1. PICK s : s = Len(solves) + 1
    OBVIOUS
  <1>2. /\ DOMAIN solves' = DOMAIN solves \cup {s} /\ s \notin DOMAIN solves
        /\ solves'[s] = e /\ \A d \in DOMAIN solves : solves'[d] = solves[d]
    BY <1>1, Appended, Zenon
  <1>3. /\ \A d \in DOMAIN solves : Times'[d] = Times[d]
        /\ Times'[s] = now
        /\ \A d \in DOMAIN solves : Times'[d] \in Nat /\ Times'[d] <= now
    BY <1>1, Appended, Zenon
  <1>4. /\ StartedFor(o)' = StartedFor(o) \cup {s}
        /\ \A p : p # o => StartedFor(p)' = StartedFor(p)
    BY <1>1, Appended, Zenon
  <1>5. now \in Nat
    BY DEF IInv, Typed
  <1>6. \A d \in DOMAIN solves' : solves'[d].started <= now'
    BY <1>2, <1>5 DEF IInv, Counted, StartedNow
  <1>7. ASSUME NEW p \in Range(OriginOf) \ uncounted', p # o
        PROVE  IF p \in DOMAIN counters'
               THEN Budgeted(StartedFor(p)', Times', counters'[p].window_started, counters'[p].spent)
               ELSE StartedFor(p)' = {}
    <2>1. /\ p \in DOMAIN counters' <=> p \in DOMAIN counters
          /\ p \in DOMAIN counters => counters'[p] = counters[p]
      <3>1. CASE o \in DOMAIN counters
        <4>1. /\ Spend(o) \in [DOMAIN counters -> CounterStates]
              /\ \A q \in DOMAIN counters \ {o} : Spend(o)[q] = counters[q]
          BY <3>1, SpendKnown
        <4> QED
          BY <1>7, <4>1
      <3>2. CASE o \notin DOMAIN counters
        <4>1. /\ DOMAIN Spend(o) = (DOMAIN counters \ Dropped(o)) \cup {o}
              /\ \A q \in DOMAIN counters \ Dropped(o) : Spend(o)[q] = counters[q]
          BY <3>2, SpendFirst, Zenon
        <4> QED
          BY <1>7, <4>1
      <3> QED
        BY <3>1, <3>2
    <2>3. IF p \in DOMAIN counters
          THEN Budgeted(StartedFor(p), Times, counters[p].window_started, counters[p].spent)
          ELSE StartedFor(p) = {}
      BY <1>7 DEF IInv, Counted
    <2>4. \A d \in StartedFor(p) : Times'[d] = Times[d]
      BY <1>3 DEF StartedFor
    <2> QED
      BY <1>4, <1>7, <2>1, <2>3, <2>4, BudgetedSame
  <1>8. ASSUME o \in Range(OriginOf) \ uncounted'
        PROVE  /\ o \in DOMAIN counters'
               /\ Budgeted(StartedFor(o)', Times', counters'[o].window_started, counters'[o].spent)
    <2>1. IF o \in DOMAIN counters
          THEN Budgeted(StartedFor(o), Times, counters[o].window_started, counters[o].spent)
          ELSE StartedFor(o) = {}
      BY <1>8 DEF IInv, Counted
    <2>2. CASE o \notin DOMAIN counters
      <3>1. o \in DOMAIN counters' /\ counters'[o].window_started = now /\ counters'[o].spent = 1
        BY <2>2, SpendFirst, Zenon
      <3>2. StartedFor(o)' = {s}
        BY <1>4, <2>1, <2>2
      <3>3. Times'[s] \in Int
        BY <1>3, <1>5
      <3>4. Budgeted({s}, Times', Times'[s], 1)
        BY <3>3, FirstSpend, Zenon
      <3> QED
        BY <1>3, <3>1, <3>2, <3>4
    <2>3. CASE o \in DOMAIN counters
      <3>1. PICK w, n : w = counters[o].window_started /\ n = counters[o].spent
        OBVIOUS
      <3>2. w \in Nat /\ n \in Nat
        BY <2>3, <3>1 DEF IInv, Typed, CounterStates
      <3>3. PICK D, T, U : D = StartedFor(o) /\ T = Times /\ U = Times'
        OBVIOUS
      <3>4. Budgeted(D, T, w, n)
        BY <2>1, <2>3, <3>1, <3>3
      <3>5. IsFiniteSet(D) /\ D \subseteq DOMAIN solves /\ s \notin D
        BY <1>2, <3>3, SolvesFinite, Zenon DEF StartedFor, IInv
      <3>6. /\ \A d \in D : U[d] = T[d] /\ U[d] \in Int /\ U[d] <= U[s]
            /\ U[s] = now /\ U[s] \in Int
        BY <1>3, <1>5, <3>3, <3>5
      <3>7. o \in DOMAIN counters'
        BY <2>3, SpendKnown
      <3>8. CASE now - w >= Window
        <4>1. counters'[o].window_started = now /\ counters'[o].spent = 1
          BY <2>3, <3>1, <3>8, SpendKnown
        <4>2. Budgeted(D \cup {s}, U, U[s], 1)
          BY <3>2, <3>4, <3>5, <3>6, <3>8, CountedOn
        <4> QED
          BY <1>4, <3>3, <3>6, <3>7, <4>1, <4>2
      <3>9. CASE ~ (now - w >= Window)
        <4>1. counters'[o].window_started = w /\ counters'[o].spent = n + 1 /\ n < Budget
          BY <2>3, <3>1, <3>9, SpendKnown
        <4>2. Budgeted(D \cup {s}, U, w, n + 1)
          <5>1. U[s] - w < Window
            BY <1>5, <3>2, <3>6, <3>9, PolicyTypes
          <5> QED
            BY <3>2, <3>4, <3>5, <3>6, <4>1, <5>1, CountedOn, Zenon
        <4> QED
          BY <1>4, <3>3, <3>7, <4>1, <4>2
      <3> QED
        BY <3>8, <3>9
    <2> QED
      BY <2>2, <2>3
  <1> QED
    BY <1>6, <1>7, <1>8 DEF Counted

\* register keeps what it finds, and may add the marker of the new solve.
LEMMA RegisteredMarkers ==
    ASSUME IInv, NEW key, NEW s \in Nat
    PROVE  LET marks == Registered(key, s)
           IN  /\ marks \in [DOMAIN marks -> Nat]
               /\ \A k \in DOMAIN marks :
                     (k = key /\ marks[k] = s) \/ (k \in DOMAIN inflight /\ marks[k] = inflight[k])
  <1>1. PICK swept : /\ swept \in {inflight, Restrict(inflight, {k \in DOMAIN inflight : Joinable(k)})}
                     /\ Registered(key, s) \in {swept, Insert(swept, key, s)}
    BY DEF Registered
  <1>2. /\ swept \in [DOMAIN swept -> Nat]
        /\ \A k \in DOMAIN swept : k \in DOMAIN inflight /\ swept[k] = inflight[k]
    BY <1>1 DEF Restrict, IInv, Typed
  <1> QED
    BY <1>1, <1>2 DEF Insert

\* A call that is allowed one starts a solve, which waits for its permit.
LEMMA AllowedIInv ==
    ASSUME IInv, NEW c \in Calls, NEW answer, NEW kind,
           NEW url \in DOMAIN OriginOf, NEW exit \in Exits,
           StartSolve(c, answer, kind, url, exit), Allowed(OriginOf[url])
    PROVE  IInv'
  <1>1. PICK o : o = OriginOf[url]
    OBVIOUS
  <1>2. PICK s : s = Len(solves) + 1
    OBVIOUS
  <1>3. PICK key : key = SolveKey(url, exit)
    OBVIOUS
  <1>4. PICK e : e = [key |-> key, at |-> "queued", started |-> now, outcome |-> None]
    BY Zenon
  <1>5. /\ counters' = Spend(o) /\ tick' = tick + 1 /\ uncounted' = uncounted \cup Dropped(o)
        /\ solves' = Append(solves, e) /\ inflight' = Registered(key, s)
        /\ Waiting(c, exit, s) /\ now' = now /\ jar' = jar
        /\ Allowed(o)
    BY <1>1, <1>2, <1>3, <1>4 DEF StartSolve
  <1>6. now \in Nat /\ tick \in Nat
    BY DEF IInv, Typed
  <1>7. /\ e \in SolveStates /\ e.key = key /\ e.started = now /\ e.at = "queued"
        /\ key.url = url /\ key.exit = exit
    BY <1>3, <1>4, <1>6 DEF SolveStates, SolveKey
  <1>8. StartedNow(e, o)
    BY <1>1, <1>5, <1>7, Zenon DEF StartedNow
  <1>9. /\ solves' \in Seq(SolveStates)
        /\ DOMAIN solves' = DOMAIN solves \cup {s} /\ s \notin DOMAIN solves /\ s \in Nat
        /\ solves'[s] = e /\ \A d \in DOMAIN solves : solves'[d] = solves[d]
    BY <1>2, <1>7, <1>8, Appended, Zenon
  <1>10. call' = [call EXCEPT ![c] = WaitingCall(c, exit, s)]
    BY <1>5 DEF Waiting, WaitingCall
  <1>11. /\ call \in [Calls -> CallStates] /\ call' \in [Calls -> CallStates]
         /\ call'[c].at = "solving" /\ call'[c].solve = s /\ call'[c].exit = exit
         /\ \A d \in Calls \ {c} : call'[d] = call[d]
    BY <1>9, <1>10, WaitingTyped DEF IInv, Typed
  <1>12. /\ inflight' \in [DOMAIN inflight' -> Nat]
         /\ \A k \in DOMAIN inflight' :
               (k = key /\ inflight'[k] = s) \/ (k \in DOMAIN inflight /\ inflight'[k] = inflight[k])
    BY <1>5, <1>9, RegisteredMarkers
  <1>13. counters' \in [DOMAIN counters' -> CounterStates]
    <2>1. CASE o \in DOMAIN counters
      <3>1. Spend(o) \in [DOMAIN counters -> CounterStates]
        BY <2>1, SpendKnown
      <3> QED
        BY <1>5, <3>1
    <2>2. CASE o \notin DOMAIN counters
      <3>1. Spend(o) \in [DOMAIN Spend(o) -> CounterStates]
        BY <2>2, SpendFirst, Zenon
      <3> QED
        BY <1>5, <3>1
    <2> QED
      BY <2>1, <2>2
  <1>14. Typed'
    BY <1>5, <1>6, <1>9, <1>11, <1>12, <1>13 DEF Typed
  <1>15. MarkersTrue'
    <2>1. \A k \in DOMAIN inflight' : inflight'[k] \in DOMAIN solves' /\ solves'[inflight'[k]].key = k
      BY <1>7, <1>9, <1>12 DEF IInv, MarkersTrue
    <2>2. \A d \in Calls : call'[d].at = "solving" =>
             call'[d].solve \in DOMAIN solves' /\ solves'[call'[d].solve].key.exit = call'[d].exit
      BY <1>7, <1>9, <1>11 DEF IInv, MarkersTrue
    <2>3. \A kept \in jar' :
             kept.earned \in DOMAIN solves' /\ kept.exit = solves'[kept.earned].key.exit
      <3>1. \A kept \in jar :
               kept.earned \in DOMAIN solves /\ kept.exit = solves[kept.earned].key.exit
        BY DEF IInv, MarkersTrue
      <3> QED
        BY <1>5, <1>9, <3>1
    <2> QED
      BY <2>1, <2>2, <2>3 DEF MarkersTrue
  <1>16. Counted'
    BY <1>5, <1>7, <1>8, AllowedCounted
  <1>17. Running' \subseteq Running
    <2> SUFFICES ASSUME NEW d \in Running' PROVE d \in Running
      OBVIOUS
    <2>1. d \in DOMAIN solves' /\ solves'[d].at = "running" /\ d \in Live'
      BY DEF Running, Live
    <2>2. d \in DOMAIN solves /\ d # s /\ solves[d].at = "running"
      BY <1>7, <1>9, <2>1
    <2>3. PICK b \in Calls : call'[b].at = "solving" /\ call'[b].solve = d
      BY <2>1 DEF Live, Waiters
    <2>4. call[b].at = "solving" /\ call[b].solve = d
      BY <1>11, <2>2, <2>3
    <2> QED
      BY <2>2, <2>3, <2>4 DEF Running, Live, Waiters
  <1> QED
    BY <1>14, <1>15, <1>16, <1>17, NoMoreRunning DEF IInv

\* Every step of the layer keeps the invariant.
LEMMA NextIInv ==
    ASSUME IInv, [Next]_vars
    PROVE  IInv'
  <1>1. ASSUME NEW c \in Calls, NEW request \in Requests,
               Observe(c, request) \/ \E own \in BOOLEAN : Send(c, request, UserAgent(own))
        PROVE  IInv'
    BY <1>1, PlainIInv
  <1>2. ASSUME NEW c \in Calls, NEW answer \in Verdicts, NEW kind \in Kinds, Pass(c, answer, kind)
        PROVE  IInv'
    BY <1>2, PlainIInv
  <1>3. ASSUME NEW c \in Calls, NEW answer \in Verdicts, NEW kind \in Kinds, NEW p \in Places,
               \/ Join(c, answer, kind, p.url, p.exit)
               \/ StartSolve(c, answer, kind, p.url, p.exit)
        PROVE  IInv'
    <2>1. p.url \in DOMAIN OriginOf /\ p.exit \in Exits
      BY HandoffAssumption DEF Exits
    <2> QED
      BY <1>3, <2>1, JoinIInv, AllowedIInv, RefusedIInv, Zenon
  <1>4. ASSUME NEW c \in Calls, Answer(c) \/ Overrun(c) \/ Abandon(c)
        PROVE  IInv'
    BY <1>4, AnswerIInv, OverrunIInv, PlainIInv
  <1>5. ASSUME NEW s \in DOMAIN solves, Acquire(s) \/ \E o \in Outcomes : Finish(s, o)
        PROVE  IInv'
    BY <1>5, AcquireIInv, FinishIInv
  <1>6. CASE Tick
    BY <1>6, TickIInv
  <1>7. CASE UNCHANGED vars
    <2>1. UNCHANGED <<call, solves, inflight, counters, tick, now, jar, uncounted>>
      BY <1>7 DEF vars
    <2>2. NobodyJoins
      BY <2>1 DEF NobodyJoins, IInv, Typed
    <2>3. NothingRegistered
      BY <2>1 DEF NothingRegistered, IInv, Typed
    <2>4. StoredAtItsExit
      BY <2>1 DEF StoredAtItsExit
    <2>5. NothingStarted
      BY <2>1 DEF NothingStarted
    <2> QED
      BY <2>2, <2>3, <2>4, <2>5, LeavingIInv
  <1> QED
    BY <1>1, <1>2, <1>3, <1>4, <1>5, <1>6, <1>7, Zenon DEF Next

\* The invariant holds throughout.
LEMMA Invariance == Spec => []IInv
  <1>1. Init => IInv
    BY InitIInv
  <1>2. IInv /\ [Next]_vars => IInv'
    BY NextIInv
  <1> QED
    BY <1>1, <1>2, PTL DEF Spec

-----------------------------------------------------------------------------
(* What the layer promises. *)

\* What is read of a body is some of it.
LEMMA PeekReads ==
    ASSUME NEW page \in Pages
    PROVE  Range(Peek(page.body)) \subseteq Range(page.body)
  <1>1. PICK n \in 0 .. 2 : page.body \in [1 .. n -> {"interstitial", "block", "text", "failed"}]
    BY DEF Pages
  <1>2. PICK b : b = page.body
    OBVIOUS
  <1>3. b \in Seq({"interstitial", "block", "text", "failed"}) /\ Len(b) = n /\ DOMAIN b = 1 .. n
    BY <1>1, <1>2
  <1>4. PICK m : m = Min({SniffLimit, n})
    OBVIOUS
  <1>5. m \in Nat /\ m <= n
    <2>1. \E x \in {SniffLimit, n} : \A y \in {SniffLimit, n} : x <= y
      BY HandoffAssumption
    <2>2. m \in {SniffLimit, n} /\ \A y \in {SniffLimit, n} : m <= y
      BY <1>4, <2>1 DEF Min
    <2> QED
      BY <2>2, HandoffAssumption
  <1>6. Peek(page.body) = SubSeq(b, 1, m)
    BY <1>2, <1>3, <1>4 DEF Peek
  <1>7. DOMAIN SubSeq(b, 1, m) = 1 .. m /\ \A i \in 1 .. m : SubSeq(b, 1, m)[i] = b[i]
    BY <1>3, <1>5
  <1> QED
    BY <1>2, <1>3, <1>5, <1>6, <1>7 DEF Range

\* detect calls a challenge only what the header or the body says is one.
LEMMA DetectsChallenges == BrowsersForChallengesOnly
  <1> SUFFICES ASSUME NEW page \in Pages, NEW small \in BOOLEAN,
                      Detect(page, small) = "challenged", ~page.mitigated
               PROVE  page.ray /\ small /\ Interstitial(page.body) /\ ~Blocked(Peek(page.body))
    BY DEF BrowsersForChallengesOnly
  <1>1. Inspect(page, FALSE, <<>>) = IF IsCorroborated(page) THEN "suspect" ELSE "clear"
    BY DEF Inspect, Mitigated
  <1>2. IsCorroborated(page) /\ small /\ Inspect(page, TRUE, Peek(page.body)) = "challenged"
    BY <1>1, Zenon DEF Detect
  <1>3. ~Blocked(Peek(page.body)) /\ Interstitial(Peek(page.body))
    BY <1>2 DEF Inspect, Mitigated
  <1>4. Interstitial(page.body)
    BY <1>3, PeekReads DEF Interstitial
  <1> QED
    BY <1>2, <1>3, <1>4 DEF IsCorroborated

\* The invariant says what the layer promises.
LEMMA InvariantSound ==
    ASSUME IInv
    PROVE  HandoffSound
  <1>1. ASSUME NEW o \in Range(OriginOf) \ uncounted, NEW from \in 0 .. MaxTime
        PROVE  Cardinality({s \in DOMAIN solves :
                   /\ OriginOf[solves[s].key.url] = o
                   /\ solves[s].started \in from..(from + Window - 1)}) < 2 * Budget
    <2>1. {s \in DOMAIN solves : /\ OriginOf[solves[s].key.url] = o
                                 /\ solves[s].started \in from..(from + Window - 1)}
             = Within(StartedFor(o), Times, from)
      BY DEF Within, StartedFor, Times
    <2>2. CASE o \in DOMAIN counters
      <3>1. Budgeted(StartedFor(o), Times, counters[o].window_started, counters[o].spent)
        BY <2>2 DEF IInv, Counted
      <3>2. from \in Int
        OBVIOUS
      <3>3. Cardinality(Within(StartedFor(o), Times, from)) < 2 * Budget
        BY <3>1, <3>2 DEF Budgeted
      <3> QED
        BY <2>1, <3>3, Zenon
    <2>3. CASE o \notin DOMAIN counters
      <3>1. StartedFor(o) = {}
        BY <2>3 DEF IInv, Counted
      <3>2. Within(StartedFor(o), Times, from) = {}
        BY <3>1 DEF Within
      <3> QED
        <4>1. Cardinality(Within(StartedFor(o), Times, from)) = 0 /\ 0 < 2 * Budget
          BY <3>2, FS_EmptySet, PolicyTypes
        <4> QED
          BY <2>1, <4>1, Zenon
    <2> QED
      BY <2>2, <2>3
  <1>2. BrowsersBounded
    BY <1>1 DEF BrowsersBounded, IInv
  <1>3. ClearanceStaysAtItsExit
    BY DEF ClearanceStaysAtItsExit, IInv, MarkersTrue
  <1> QED
    BY <1>2, <1>3, DetectsChallenges DEF HandoffSound

\* However many calls, places and browsers there are, whatever the policy:
\* browsers are bounded, at once and per window, are started for challenges
\* alone, and what they earn stays at its exit (ChallengeHandoff).
THEOREM HandoffStaysSound == Spec => []HandoffSound
  BY Invariance, InvariantSound, PTL
=============================================================================
