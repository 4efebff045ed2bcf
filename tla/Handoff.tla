------------------------------ MODULE Handoff -------------------------------
(***************************************************************************)
(* The layer that hands a challenged page to a browser                     *)
(* (chromulate-http/src/middleware/challenge.rs, ChallengeHandoff).        *)
(*                                                                         *)
(* A solve is shared by the calls that wait for it: it advances only while *)
(* one does, and is dropped, with its permit, when the last one goes away. *)
(* What is in flight is found through a weak reference, so that a marker   *)
(* counts only while its solve has a waiter.  The chain below and the      *)
(* browser answer anything; the detector is the one the workspace ships    *)
(* (chromulate-challenge/src/cloudflare.rs).                               *)
(***************************************************************************)
EXTENDS Integers, Sequences, FiniteSets, FiniteSetsExt, Functions

CONSTANTS
    Calls, None,
    Places,             \* where answers come from: [url, exit], with None for no proxy
    OriginOf,           \* url -> origin
    WithBudget, WithWindow, WithTrackedOrigins, WithConcurrency,   \* what the caller asked of HandoffPolicy
    Claims,             \* the kinds the fallback says it handles
    SniffLimit, SolveBudget, SweepAt,
    LegalAgent,         \* whether the profile's User-Agent is a legal header value
    Attached,           \* whether a SessionAccess is wired
    MaxSolves, MaxTime

ASSUME HandoffAssumption ==
    /\ {WithBudget, WithWindow, WithTrackedOrigins, WithConcurrency} \subseteq Nat
    /\ {SniffLimit, SolveBudget, SweepAt, MaxSolves, MaxTime} \subseteq Nat
    /\ LegalAgent \in BOOLEAN
    /\ \A p \in Places : p.url \in DOMAIN OriginOf

VARIABLES
    call,       \* call -> [at, agent, attempts, solve, until, exit]
    solves,     \* every solve started: [key, at, started, outcome]
    inflight,   \* key -> solve
    counters,   \* origin -> [spent, window_started, last_used]
    tick,
    now,
    jar,        \* ghost: what was stored, as [exit, url, earned] records
    uncounted   \* ghost: the origins whose counter was dropped for another's

vars == <<call, solves, inflight, counters, tick, now, jar, uncounted>>

\* HandoffPolicy: no bound can be asked down to nothing.
AtLeastOne(asked) == Max({asked, 1})
Budget == AtLeastOne(WithBudget)
Window == AtLeastOne(WithWindow)
TrackedOrigins == AtLeastOne(WithTrackedOrigins)
Concurrency == AtLeastOne(WithConcurrency)

\* ChallengeKind
Kinds == {"js-required", "cookie-required", "interactive", "unknown"}

\* ChallengeKinds::contains: what the fallback claims; no kind is ruled out.
Claimed(kind) == kind \in Claims

Requests == [method : {"GET", "POST"}, dest : {"none", "document", "empty", "image"}, replayable : BOOLEAN]

\* is_a_page_request: a GET that names no destination, or a page.
IsAPageRequest(request) == request.method = "GET" /\ request.dest # "image"

\* user_agent: the request's own, or the profile's if a header can carry it.
UserAgent(own) == own \/ LegalAgent

\* Handback, and the error of a fallback that failed (SolveOutcome).
Outcomes == {"session", "content", "declined", "failed"}

\* agent: whether there is a user agent to browse with.
Fresh == [at |-> "idle", agent |-> TRUE, attempts |-> 0, solve |-> 0, until |-> 0, exit |-> None]

Init ==
    /\ call = [c \in Calls |-> Fresh]
    /\ solves = <<>>
    /\ inflight = <<>>
    /\ counters = <<>>
    /\ tick = 0
    /\ now = 0
    /\ jar = {}
    /\ uncounted = {}

-----------------------------------------------------------------------------

Waiters(s) == {c \in Calls : call[c].at = "solving" /\ call[c].solve = s}

Live == {s \in DOMAIN solves : Waiters(s) # {}}

Running == {s \in Live : solves[s].at = "running"}

\* What an answer shows: whether it carries cf-mitigated: challenge, whether
\* cf-ray, its status, and its body, chunk by chunk, one of which may fail.
Pages ==
    [mitigated : BOOLEAN, ray : BOOLEAN, status : {200, 403, 404, 503},
     body : UNION {[1..n -> {"interstitial", "block", "text", "failed"}] : n \in 0..2}]

\* peek: chunks are read until they pass the limit, or end.
Peek(body) == SubSeq(body, 1, Min({SniffLimit, Len(body)}))

Mitigated(page) == page.mitigated
Interstitial(prefix) == "interstitial" \in Range(prefix)
Blocked(prefix) == "block" \in Range(prefix)
IsCorroborated(page) == page.status \in {200, 403, 503} /\ page.ray

\* CloudflareDetector::inspect: the documented header decides alone; a body that
\* was sniffed decides next, a block page before a challenge.
Inspect(page, sniffed, prefix) ==
    IF Mitigated(page) THEN "challenged"
    ELSE IF sniffed THEN IF ~Blocked(prefix) /\ Interstitial(prefix) THEN "challenged" ELSE "clear"
    ELSE IF IsCorroborated(page) THEN "suspect"
    ELSE "clear"

\* detect: a suspect is looked at once more with a prefix of its body, unless
\* the body is declared too large; one that is still suspect is clear, and a
\* body that fails while it is read is the request's error.
Detect(page, worth_sniffing) ==
    LET first == Inspect(page, FALSE, <<>>)
        prefix == Peek(page.body)
        second == Inspect(page, TRUE, prefix)
    IN  IF first # "suspect" THEN first
        ELSE IF ~worth_sniffing THEN "clear"
        ELSE IF "failed" \in Range(prefix) THEN "error"
        ELSE IF second = "suspect" THEN "clear"
        ELSE second

\* What one attempt of the chain below comes to.
Verdicts == {"error"} \cup {Detect(page, small) : page \in Pages, small \in BOOLEAN}

\* HashMap::insert
Insert(map, key, value) == [k \in {key} \cup DOMAIN map |-> IF k = key THEN value ELSE map[k]]

\* joinable
Joinable(key) == key \in DOMAIN inflight /\ inflight[key] \in Live

\* register, after the sweep; past the cap the solve is not registered.
Registered(key, s) ==
    LET swept == IF Cardinality(DOMAIN inflight) < SweepAt THEN inflight
                 ELSE Restrict(inflight, {k \in DOMAIN inflight : Joinable(k)})
    IN  IF Cardinality(DOMAIN swept) >= TrackedOrigins THEN swept ELSE Insert(swept, key, s)

\* settle: whatever solve the marker now stands for.
Settled(key) == Restrict(inflight, DOMAIN inflight \ {key})

\* The window counted so far, begun again once it is over.
Windowed(counter) ==
    IF now - counter.window_started >= Window
    THEN [counter EXCEPT !.window_started = now, !.spent = 0]
    ELSE counter

Allowed(origin) == origin \in DOMAIN counters => Windowed(counters[origin]).spent < Budget

\* evict_least_recently_used
LeastUsed == CHOOSE o \in DOMAIN counters : \A p \in DOMAIN counters : counters[o].last_used <= counters[p].last_used

Dropped(origin) ==
    IF origin \in DOMAIN counters \/ Cardinality(DOMAIN counters) < TrackedOrigins THEN {} ELSE {LeastUsed}

\* spend, refused or not: what the counters become.
Spend(origin) ==
    IF origin \in DOMAIN counters
    THEN [counters EXCEPT ![origin] =
             [Windowed(counters[origin]) EXCEPT
                 !.last_used = tick + 1,
                 !.spent = IF Allowed(origin) THEN @ + 1 ELSE @]]
    ELSE Insert(Restrict(counters, DOMAIN counters \ Dropped(origin)), origin,
                [spent |-> 1, window_started |-> now, last_used |-> tick + 1])

\* Mutant: every exit shares the solves of a target.
TargetKey(url, exit) == [url |-> url, exit |-> None]

\* SolveKey
SolveKey(url, exit) == [url |-> url, exit |-> exit]

-----------------------------------------------------------------------------

\* handle: for a request the policy does not take, or for a body that cannot be
\* sent twice, the answer is only looked at (observe), as it always is by a
\* layer without a fallback.
Observe(c, request) ==
    /\ call[c].at = "idle"
    /\ ~IsAPageRequest(request) \/ ~request.replayable
    /\ call' = [call EXCEPT ![c].at = "done"]
    /\ UNCHANGED <<solves, inflight, counters, tick, now, jar, uncounted>>

Send(c, request, agent) ==
    /\ call[c].at = "idle"
    /\ IsAPageRequest(request) /\ request.replayable
    /\ call' = [call EXCEPT ![c].at = "sent", ![c].agent = agent]
    /\ UNCHANGED <<solves, inflight, counters, tick, now, jar, uncounted>>

Return(c) == call' = [call EXCEPT ![c] = [Fresh EXCEPT !.at = "done"]]

\* A challenge is handed over while this request has attempts left, if the
\* fallback claims its kind and can be told the user agent to browse with.
HandsOver(c, answer, kind) ==
    /\ call[c].at = "sent"
    /\ answer = "challenged"
    /\ call[c].attempts < Budget
    /\ Claimed(kind)
    /\ call[c].agent

\* Everything else is returned as it is: an error, an answer that is no
\* challenge (announced as cleared if a session was applied) or one that is.
Pass(c, answer, kind) ==
    /\ call[c].at = "sent"
    /\ ~HandsOver(c, answer, kind)
    /\ Return(c)
    /\ UNCHANGED <<solves, inflight, counters, tick, now, jar, uncounted>>

\* Mutant: the wait has no end of its own.
WaitingForever(c, exit, s) ==
    call' = [call EXCEPT ![c] = [call[c] EXCEPT !.at = "solving", !.attempts = @ + 1, !.solve = s,
                                           !.until = MaxTime + 1, !.exit = exit]]

Waiting(c, exit, s) ==
    call' = [call EXCEPT ![c] = [call[c] EXCEPT !.at = "solving", !.attempts = @ + 1, !.solve = s,
                                           !.until = now + SolveBudget, !.exit = exit]]

\* solve: a challenge joins the solve in flight for its target and exit ...
Join(c, answer, kind, url, exit) ==
    LET key == SolveKey(url, exit)
    IN  /\ HandsOver(c, answer, kind)
        /\ now + SolveBudget <= MaxTime
        /\ Joinable(key)
        /\ Waiting(c, exit, inflight[key])
        /\ UNCHANGED <<solves, inflight, counters, tick, now, jar, uncounted>>

\* ... or starts one, if the origin has budget left in its window.
StartSolve(c, answer, kind, url, exit) ==
    LET key == SolveKey(url, exit)
        origin == OriginOf[url]
        s == Len(solves) + 1
    IN  /\ HandsOver(c, answer, kind)
        /\ now + SolveBudget <= MaxTime
        /\ s <= MaxSolves
        /\ ~Joinable(key)
        /\ counters' = Spend(origin)
        /\ tick' = tick + 1
        /\ uncounted' = uncounted \cup Dropped(origin)
        /\ IF Allowed(origin)
           THEN /\ solves' = Append(solves, [key |-> key, at |-> "queued", started |-> now, outcome |-> None])
                /\ inflight' = Registered(key, s)
                /\ Waiting(c, exit, s)
           ELSE /\ Return(c)
                /\ UNCHANGED <<solves, inflight>>
        /\ UNCHANGED <<now, jar>>

\* start: the permit is taken inside the shared future.
Acquire(s) ==
    /\ s \in Live
    /\ solves[s].at = "queued"
    /\ Cardinality(Running) < Concurrency
    /\ solves' = [solves EXCEPT ![s].at = "running"]
    /\ UNCHANGED <<call, inflight, counters, tick, now, jar, uncounted>>

\* The browser hands back a session, a page or a refusal, or fails.
Finish(s, outcome) ==
    /\ s \in Running
    /\ solves' = [solves EXCEPT ![s].at = "finished", ![s].outcome = outcome]
    /\ UNCHANGED <<call, inflight, counters, tick, now, jar, uncounted>>

\* store_cookies, in the session of the exit that was challenged.
StoreCookies(exit, s) == jar' = jar \cup {[exit |-> exit, earned |-> s]}

\* The outcome reaches a waiter.  A session is stored for the exit that was
\* challenged and the request is sent again; anything else ends it.
Answer(c) ==
    LET s == call[c].solve
        key == solves[s].key
        keeps == solves[s].outcome = "session" /\ Attached
    IN  /\ call[c].at = "solving"
        /\ solves[s].at = "finished"
        /\ inflight' = Settled(SolveKey(key.url, call[c].exit))
        /\ IF keeps
           THEN /\ StoreCookies(call[c].exit, s)
                /\ call' = [call EXCEPT ![c] = [@ EXCEPT !.at = "sent", !.solve = 0, !.until = 0, !.exit = None]]
           ELSE Return(c) /\ UNCHANGED jar
        /\ UNCHANGED <<solves, counters, tick, now, uncounted>>

\* The wait overruns the solve budget, and reads as a refusal.
Overrun(c) ==
    LET s == call[c].solve
    IN  /\ call[c].at = "solving"
        /\ solves[s].at # "finished"
        /\ now >= call[c].until
        /\ inflight' = Settled(SolveKey(solves[s].key.url, call[c].exit))
        /\ Return(c)
        /\ UNCHANGED <<solves, counters, tick, now, jar, uncounted>>

\* The caller drops the request.
Abandon(c) ==
    /\ call[c].at \in {"sent", "solving"}
    /\ Return(c)
    /\ UNCHANGED <<solves, inflight, counters, tick, now, jar, uncounted>>

Tick ==
    /\ now < MaxTime
    /\ now' = now + 1
    /\ UNCHANGED <<call, solves, inflight, counters, tick, jar, uncounted>>

Next ==
    \/ \E c \in Calls :
          \/ \E request \in Requests :
                Observe(c, request) \/ \E own \in BOOLEAN : Send(c, request, UserAgent(own))
          \/ call[c].at = "sent" /\ \E answer \in Verdicts, kind \in Kinds :
                \/ Pass(c, answer, kind)
                \/ \E p \in Places : Join(c, answer, kind, p.url, p.exit) \/ StartSolve(c, answer, kind, p.url, p.exit)
          \/ Answer(c) \/ Overrun(c) \/ Abandon(c)
    \/ \E s \in DOMAIN solves : Acquire(s) \/ \E o \in Outcomes : Finish(s, o)
    \/ Tick

\* A call is polled when its outcome is there or its time is up, and time goes
\* on: the runtime does not stop while one of these is due.  No browser is
\* assumed to answer.
Due == Tick \/ \E c \in Calls : Answer(c) \/ Overrun(c)

Spec == Init /\ [][Next]_vars /\ WF_vars(Due)

-----------------------------------------------------------------------------

\* No more browsers run at once than the policy allows, and within any stretch
\* of one window an origin never starts as many as two windows' budgets, as
\* long as its counter has not been dropped for another origin's (spend, start).
BrowsersBounded ==
    /\ Cardinality(Running) <= Concurrency
    /\ \A origin \in Range(OriginOf) \ uncounted :
          \A from \in 0..MaxTime :
              Cardinality({s \in DOMAIN solves :
                  /\ OriginOf[solves[s].key.url] = origin
                  /\ solves[s].started \in from..(from + Window - 1)}) < 2 * Budget

\* A browser is started only for a page the documented header calls a
\* challenge, or for one that carries a challenge and, as far as it was read,
\* no word that the client is blocked (CloudflareDetector::inspect, detect).
BrowsersForChallengesOnly ==
    \A page \in Pages, small \in BOOLEAN :
        Detect(page, small) = "challenged" =>
            page.mitigated \/ (page.ray /\ small /\ Interstitial(page.body) /\ ~Blocked(Peek(page.body)))

\* What a browser earned through one exit is only ever stored for that exit,
\* joined solves included (SolveKey, store_cookies).
ClearanceStaysAtItsExit ==
    \A kept \in jar : kept.exit = solves[kept.earned].key.exit

\* Browsers are few, started for challenges alone, and what they earn stays at
\* the exit that was challenged (ChallengeHandoff).  What the detector makes of
\* a page depends on no state, so it is looked at before the first browser.
HandoffSound ==
    /\ BrowsersBounded /\ ClearanceStaysAtItsExit
    /\ solves = <<>> => BrowsersForChallengesOnly

\* A call that waits for a browser stops waiting, even if no browser ever
\* answers or gets a permit (with_solve_budget).
WaitsEnd ==
    \A c \in Calls : call[c].at = "solving" ~> call[c].at # "solving"

=============================================================================
