---------------------------- MODULE EngineProofs ----------------------------
(***************************************************************************)
(* Proofs about Engine, for any number of requests and hosts, any requests *)
(* and redirects, and any limits.                                          *)
(***************************************************************************)
EXTENDS Engine, FiniteSetTheorems, TLAPS

Active == {"routing", "hopping", "sent", "draining"}

\* What is true of one request at every await of retry, run and hop: what it
\* carries comes from what was asked, credentials are at home, and nothing that
\* has gone out is left to be sent.
Good(q) ==
    /\ q \in Exchange
    /\ q.pc \in Active =>
          /\ q.url \in Url /\ q.home \in Url /\ q.asked \in Request
          /\ q.cookie \in {None, "caller"}
          /\ q.cookie = "caller" => q.url = q.home
          /\ q.method = "POST" => q.asked.method = "POST"
          /\ q.body = "stream" => q.asked.body = "stream"
          /\ "POST" \in q.spent => q.asked.method = "POST"
          /\ "stream" \in q.spent => q.asked.body = "stream"
    /\ q.pc = "backoff" =>
          q.asked \in Request /\ q.spent = {} /\ q.attempt < MaxRetries
    /\ q.pc \in {"routing", "hopping"} => {q.method, q.body} \cap q.spent = {}
    /\ q.pc = "draining" =>
          /\ q.next \in Hop
          /\ q.next.method = "POST" => q.method = "POST"
          /\ q.hops < MaxHops
    /\ q.wire # None => q.pc = "sent"
    /\ q.wire = "caller" => q.url = q.home
    /\ q.wire \in Hosts => q.wire = q.url.host
    /\ q.lease = IF q.pc \in {"hopping", "sent"} THEN q.url ELSE None

\* A request that has ended holds and owes nothing (Retrying::exchange returns).
LEMMA EndedGood == Good(Ended) /\ Good(Parked("new", None, 0, {}))
  BY EngineAssumption, SMTT(30)
     DEF Good, Ended, Parked, Exchange, Active, Methods, Bodies

\* apply_hsts yields a URL.
LEMMA UpgradedType ==
    ASSUME NEW u \in Url
    PROVE  Upgraded(u) \in Url
  BY DEF Upgraded, Url

\* run() begins with the caller's request at its own origin and nothing spent.
LEMMA RunningGood ==
    ASSUME NEW asked \in Request, NEW attempt \in 0..MaxRetries
    PROVE  Good(Running(asked, attempt, {}))
<1> DEFINE url == Upgraded(asked.url)
           q == Running(asked, attempt, {})
<1>1. url \in Url /\ asked.url \in Url /\ asked.method \in Methods /\ asked.body \in Bodies
      /\ asked.cookie \in {None, "caller"}
  BY UpgradedType DEF Request
<1>2. Timeout \in 0..Timeout /\ 0 \in 0..MaxHops
  BY EngineAssumption
<1>3. q = [pc |-> "routing", asked |-> asked, attempt |-> attempt, url |-> url,
           home |-> url, method |-> asked.method, body |-> asked.body,
           cookie |-> asked.cookie, wire |-> None, next |-> None, hops |-> 0,
           left |-> Timeout, lease |-> None, spent |-> {}]
  BY DEF Running
<1> HIDE DEF url, q
<1>4. q \in Exchange
  BY <1>1, <1>2, <1>3 DEF Exchange
<1> QED
  BY <1>1, <1>3, <1>4, EngineAssumption DEF Good, Active, q

\* The end of a run leaves a request that is over, or one that waits to send
\* again what nobody has seen as unsafe to repeat (may_replay).
LEMMA ConcludedGood ==
    ASSUME NEW r \in Requests, Good(req[r]), req[r].pc \in Active,
           NEW retryable \in BOOLEAN
    PROVE  Good(Concluded(r, retryable))
<1>1. CASE ~(retryable /\ MayReplay(r) /\ req[r].attempt < MaxRetries)
  BY <1>1, EndedGood DEF Concluded
<1>2. CASE retryable /\ MayReplay(r) /\ req[r].attempt < MaxRetries
  <2> DEFINE q == req[r]
             p == Parked("backoff", q.asked, q.attempt, q.spent)
  <2>1. q.asked \in Request /\ q.attempt \in 0..MaxRetries /\ q.attempt < MaxRetries
    BY <1>2 DEF Good, Exchange
  <2>2. q.spent = {}
    <3>1. q.asked.method # "POST" /\ q.asked.body # "stream"
      BY <1>2 DEF MayReplay, IsIdempotent, TryClone
    <3>2. q.spent \in SUBSET {"POST", "stream"}
      BY DEF Good, Exchange
    <3> QED
      BY <3>1, <3>2 DEF Good
  <2>3. p \in Exchange
    BY <2>1, <2>2, EngineAssumption DEF Parked, Exchange, Methods, Bodies
  <2>4. Good(p)
    BY <2>1, <2>2, <2>3, EngineAssumption DEF Good, Parked, Active
  <2> QED
    BY <1>2, <2>4 DEF Concluded
<1> QED
  BY <1>1, <1>2

\* A request that waits for a redirect's body to drain is a request.
LEMMA DrainingType ==
    ASSUME NEW q \in Exchange, NEW next \in Hop
    PROVE  [q EXCEPT !.pc = "draining", !.wire = None, !.lease = None, !.next = next]
               \in Exchange
  BY DEF Exchange

\* decide() ends the run at the limit, or leaves a hop within it.
LEMMA RedirectedGood ==
    ASSUME NEW r \in Requests, Good(req[r]), req[r].pc \in {"routing", "sent"},
           NEW status \in {302, 303, 307}, NEW url \in Url
    PROVE  Good(Redirected(r, status, url))
<1>1. CASE req[r].hops >= MaxHops
  BY <1>1, ConcludedGood DEF Redirected, Active
<1>2. CASE ~(req[r].hops >= MaxHops)
  <2> DEFINE q == req[r]
             next == [url |-> url, method |-> MethodAfter(status, q.method)]
             p == [q EXCEPT !.pc = "draining", !.wire = None, !.lease = None, !.next = next]
  <2>1. q \in Exchange /\ q.method \in Methods /\ Good(q) /\ q.pc \in {"routing", "sent"}
    BY DEF Good, Exchange
  <2>2. /\ next \in Hop
        /\ next.method = "POST" => q.method = "POST"
    BY <2>1 DEF MethodAfter, Methods, Hop
  <2>3. Redirected(r, status, url) = p
    BY <1>2 DEF Redirected
  <2>4. q.hops < MaxHops
    BY <1>2, <2>1, EngineAssumption DEF Exchange
  <2> HIDE DEF next, q
  <2>5. p \in Exchange
    BY <2>1, <2>2, DrainingType
  <2>6. /\ p.pc = "draining" /\ p.wire = None /\ p.lease = None /\ p.next = next
        /\ p.url = q.url /\ p.home = q.home /\ p.asked = q.asked /\ p.cookie = q.cookie
        /\ p.method = q.method /\ p.body = q.body /\ p.spent = q.spent /\ p.hops = q.hops
    BY <2>1 DEF Exchange
  <2> HIDE DEF p
  <2>7. Good(p)
    BY <2>1, <2>2, <2>4, <2>5, <2>6, EngineAssumption DEF Good, Active
  <2> QED
    BY <2>3, <2>7
<1> QED
  BY <1>1, <1>2

\* rebuild() strips the credentials of a hop that leaves the origin and asks
\* for no stream again.
LEMMA RebuiltGood ==
    ASSUME NEW q, Good(q), q.pc = "draining",
           q.next.method = q.method => TryClone(q.body)
    PROVE  Good(Rebuilt(q))
<1> DEFINE p == Rebuilt(q)
           body == IF q.next.method # q.method THEN "empty" ELSE q.body
           cookie == IF q.next.url # q.url THEN None ELSE q.cookie
<1>1. /\ q \in Exchange /\ q.next.url \in Url /\ q.next.method \in Methods
      /\ q.next.method = "POST" => q.method = "POST"
      /\ q.hops \in 0..MaxHops /\ q.hops < MaxHops /\ q.spent \in SUBSET {"POST", "stream"}
  BY DEF Good, Exchange, Hop
<1>2. q.hops + 1 \in 0..MaxHops
  BY <1>1, EngineAssumption
<1>3. body \in {"empty", "buffer"}
  BY <1>1 DEF TryClone, Exchange, Bodies
<1>4. /\ cookie \in {None, "caller"}
      /\ cookie = "caller" => q.next.url = q.home
  BY EngineAssumption DEF Good, Active
<1>5. p = [q EXCEPT !.pc = "routing", !.url = q.next.url, !.method = q.next.method,
                    !.body = body, !.cookie = cookie, !.next = None,
                    !.hops = q.hops + 1, !.spent = q.spent \ {"POST"}]
  BY <1>1 DEF Rebuilt, Exchange
<1> HIDE DEF p, body, cookie
<1>6. /\ p.pc = "routing" /\ p.url = q.next.url /\ p.method = q.next.method
      /\ p.body = body /\ p.cookie = cookie /\ p.next = None
      /\ p.hops = q.hops + 1 /\ p.spent = q.spent \ {"POST"}
      /\ p.home = q.home /\ p.asked = q.asked /\ p.wire = q.wire /\ p.lease = q.lease
  BY <1>1, <1>5 DEF Exchange
<1>7. p \in Exchange
  BY <1>1, <1>2, <1>3, <1>4, <1>5 DEF Exchange, Bodies
<1>8. {p.method, p.body} \cap p.spent = {}
  BY <1>1, <1>3, <1>6 DEF Methods
<1>9. q.wire = None /\ q.lease = None /\ q.home \in Url /\ q.asked \in Request
  BY DEF Good, Active
<1>10. /\ p.method = "POST" => p.asked.method = "POST"
       /\ p.body = "stream" => p.asked.body = "stream"
       /\ "POST" \in p.spent => p.asked.method = "POST"
       /\ "stream" \in p.spent => p.asked.body = "stream"
  BY <1>1, <1>3, <1>6 DEF Good, Active
<1>11. Good(p)
  BY <1>1, <1>4, <1>6, <1>7, <1>8, <1>9, <1>10, EngineAssumption DEF Good, Active
<1> QED
  BY <1>11 DEF p

\* Whatever comes of a run, a redirect or the cache, it holds no lease.
LEMMA AnsweredGood ==
    ASSUME NEW r \in Requests, Good(req[r]), req[r].pc \in {"routing", "sent"},
           NEW q \in Answered(r) \cup AnsweredByCache(r)
    PROVE  Good(q) /\ q.lease = None
<1>1. \A retryable \in BOOLEAN : Good(Concluded(r, retryable))
                                  /\ Concluded(r, retryable).lease = None
  BY ConcludedGood DEF Active, Concluded, Parked, Ended
<1>2. ASSUME NEW status \in {302, 303, 307}, NEW url \in Targets
      PROVE  Good(Redirected(r, status, url)) /\ Redirected(r, status, url).lease = None
  <2>1. Good(Redirected(r, status, url))
    BY RedirectedGood, EngineAssumption
  <2>2. req[r] \in Exchange
    BY DEF Good
  <2>3. Redirected(r, status, url).lease = None
    BY <1>1, <2>2 DEF Redirected, Exchange
  <2> QED
    BY <2>1, <2>3
<1>3. CASE q \in Answered(r)
  <2>1. \/ \E retryable \in BOOLEAN : q = Concluded(r, retryable)
        \/ \E status \in {302, 303, 307}, url \in Targets : q = Redirected(r, status, url)
    BY <1>3 DEF Answered
  <2> QED
    BY <1>1, <1>2, <2>1
<1>4. CASE q \in AnsweredByCache(r)
  <2>1. \/ q = Ended
        \/ \E status \in {302, 307}, url \in Targets : q = Redirected(r, status, url)
    BY <1>4 DEF AnsweredByCache, Concluded
  <2>2. Good(Ended) /\ Ended.lease = None
    BY EndedGood DEF Ended, Parked
  <2> QED
    BY <1>2, <2>1, <2>2
<1> QED
  BY <1>3, <1>4

\* A hop takes its lease at the URL it goes to (acquire_from).
LEMMA AcquireGood ==
    ASSUME NEW q, Good(q), q.pc = "routing"
    PROVE  LET p == [q EXCEPT !.pc = "hopping", !.lease = q.url]
           IN  Good(p) /\ p.lease = q.url
<1> DEFINE p == [q EXCEPT !.pc = "hopping", !.lease = q.url]
<1>1. q \in Exchange /\ q.url \in Url
  BY DEF Good, Active
<1>2. p \in Exchange
  BY <1>1 DEF Exchange
<1>3. /\ p.pc = "hopping" /\ p.lease = q.url /\ p.wire = q.wire /\ p.next = q.next
      /\ p.url = q.url /\ p.home = q.home /\ p.asked = q.asked /\ p.cookie = q.cookie
      /\ p.method = q.method /\ p.body = q.body /\ p.spent = q.spent /\ p.hops = q.hops
  BY <1>1 DEF Exchange
<1> HIDE DEF p
<1>4. Good(p)
  BY <1>1, <1>2, <1>3 DEF Good, Active
<1> QED
  BY <1>3, <1>4 DEF p

\* The headers of a hop carry the caller's credential only at home and the
\* jar's only to the host it is for; what goes out is marked as spent.
LEMMA SendGood ==
    ASSUME NEW q, Good(q), q.pc = "hopping"
    PROVE  LET p == [ApplyHeaders(q) EXCEPT
                        !.pc = "sent",
                        !.spent = @ \cup ({q.method, q.body} \cap {"POST", "stream"})]
           IN  /\ Good(p) /\ p.lease = q.lease
               /\ p.wire # "caller" => (p.wire # None <=> q.url.host \in jar)
<1> DEFINE spent == q.spent \cup ({q.method, q.body} \cap {"POST", "stream"})
           wire == ApplyHeaders(q).wire
           p == [ApplyHeaders(q) EXCEPT
                    !.pc = "sent",
                    !.spent = @ \cup ({q.method, q.body} \cap {"POST", "stream"})]
<1>1. /\ q \in Exchange /\ q.url \in Url /\ q.url.host \in Hosts
      /\ q.cookie \in {None, "caller"}
      /\ q.cookie = "caller" => q.url = q.home
      /\ q.method \in Methods /\ q.body \in Bodies
      /\ q.spent \in SUBSET {"POST", "stream"}
  BY DEF Good, Active, Url, Exchange
<1>2. /\ wire \in {None, "caller"} \cup Hosts
      /\ wire = "caller" => q.url = q.home
      /\ wire \in Hosts => wire = q.url.host
      /\ wire # "caller" => (wire # None <=> q.url.host \in jar)
  <2>1. wire = IF q.cookie # None THEN q.cookie ELSE CookiesFor(q.url)
    BY <1>1 DEF ApplyHeaders, Exchange
  <2> HIDE DEF wire
  <2>2. CASE q.cookie = "caller"
    BY <1>1, <2>1, <2>2, EngineAssumption
  <2>3. CASE q.cookie = None
    BY <1>1, <2>1, <2>3, EngineAssumption DEF CookiesFor
  <2> QED
    BY <1>1, <2>2, <2>3
<1>3. p = [q EXCEPT !.wire = wire, !.pc = "sent", !.spent = spent]
  BY <1>1 DEF ApplyHeaders, Exchange
<1>4. /\ spent \in SUBSET {"POST", "stream"}
      /\ "POST" \in spent => "POST" \in q.spent \/ q.method = "POST"
      /\ "stream" \in spent => "stream" \in q.spent \/ q.body = "stream"
  BY <1>1 DEF Methods, Bodies
<1> HIDE DEF spent, wire, p
<1>5. p \in Exchange
  BY <1>1, <1>2, <1>3, <1>4 DEF Exchange
<1>6. /\ p.pc = "sent" /\ p.lease = q.lease /\ p.wire = wire /\ p.next = q.next
      /\ p.url = q.url /\ p.home = q.home /\ p.asked = q.asked /\ p.cookie = q.cookie
      /\ p.method = q.method /\ p.body = q.body /\ p.spent = spent /\ p.hops = q.hops
  BY <1>1, <1>3 DEF Exchange
<1>7. Good(p)
  BY <1>1, <1>2, <1>4, <1>5, <1>6 DEF Good, Active
<1> QED
  BY <1>2, <1>6, <1>7 DEF p

\* Time takes nothing from a request but time.
LEMMA TickGood ==
    ASSUME NEW q, Good(q)
    PROVE  LET p == [q EXCEPT !.left = IF @ > 0 THEN @ - 1 ELSE 0]
           IN  Good(p) /\ p.lease = q.lease /\ p.pc = q.pc
<1> DEFINE left == IF q.left > 0 THEN q.left - 1 ELSE 0
           p == [q EXCEPT !.left = IF @ > 0 THEN @ - 1 ELSE 0]
<1>1. q \in Exchange /\ q.left \in 0..Timeout
  BY DEF Good, Exchange
<1>2. left \in 0..Timeout
  BY <1>1, EngineAssumption
<1>3. p = [q EXCEPT !.left = left]
  BY <1>1 DEF Exchange
<1> HIDE DEF left, p
<1>4. p \in Exchange
  BY <1>1, <1>2, <1>3 DEF Exchange
<1>5. /\ p.pc = q.pc /\ p.lease = q.lease /\ p.wire = q.wire /\ p.next = q.next
      /\ p.url = q.url /\ p.home = q.home /\ p.asked = q.asked /\ p.cookie = q.cookie
      /\ p.method = q.method /\ p.body = q.body /\ p.spent = q.spent /\ p.hops = q.hops
      /\ p.attempt = q.attempt
  BY <1>1, <1>3 DEF Exchange
<1>6. Good(p)
  BY <1>4, <1>5 DEF Good, Active
<1> QED
  BY <1>5, <1>6 DEF p

-----------------------------------------------------------------------------

Holders(u) == {r \in Requests : req[r].lease = u}

\* The inductive invariant: every request is as Good says, and the controller
\* counts the requests that hold a lease of each origin.
IInv ==
    /\ hsts \subseteq Hosts /\ jar \subseteq Hosts
    /\ DOMAIN req = Requests /\ req = [r \in Requests |-> req[r]]
    /\ \A r \in Requests : Good(req[r])
    /\ leases \in [Url -> 0..Slots]
    /\ \A u \in Url : leases[u] = Cardinality(Holders(u))

\* A step that moves one request to a good state keeps the others good.
LEMMA BecomesGood ==
    ASSUME IInv, NEW r \in Requests, NEW q, Good(q), Becomes(r, q)
    PROVE  /\ DOMAIN req' = Requests /\ req' = [s \in Requests |-> req'[s]]
           /\ \A s \in Requests : Good(req'[s])
           /\ req'[r] = q /\ \A s \in Requests \ {r} : req'[s] = req[s]
<1>1. /\ DOMAIN req' = Requests /\ req' = [s \in Requests |-> req'[s]]
      /\ req'[r] = q /\ \A s \in Requests \ {r} : req'[s] = req[s]
  BY DEF IInv, Becomes
<1> QED
  BY <1>1 DEF IInv

\* Leases whose holders do not change stay counted.
LEMMA SameLeases ==
    ASSUME IInv, leases' = leases, \A r \in Requests : req'[r].lease = req[r].lease
    PROVE  /\ leases' \in [Url -> 0..Slots]
           /\ \A u \in Url : leases'[u] = Cardinality(Holders(u)')
<1>1. \A u \in Url : Holders(u)' = Holders(u)
  BY DEF Holders
<1> QED
  BY <1>1 DEF IInv

\* acquire_from takes one lease of one origin.
LEMMA TakenLease ==
    ASSUME IInv, NEW r \in Requests, req[r].lease = None, NEW o \in Url,
           leases[o] < Slots, leases' = [leases EXCEPT ![o] = @ + 1],
           req'[r].lease = o, \A s \in Requests \ {r} : req'[s] = req[s]
    PROVE  /\ leases' \in [Url -> 0..Slots]
           /\ \A u \in Url : leases'[u] = Cardinality(Holders(u)')
<1>1. leases' \in [Url -> 0..Slots]
  BY EngineAssumption DEF IInv
<1>2. ASSUME NEW u \in Url PROVE leases'[u] = Cardinality(Holders(u)')
  <2>1. CASE u = o
    <3>1. Holders(u)' = Holders(u) \cup {r} /\ r \notin Holders(u)
      BY <2>1, EngineAssumption DEF Holders
    <3>2. IsFiniteSet(Holders(u))
      BY EngineAssumption, FS_Subset DEF Holders
    <3>3. Cardinality(Holders(u)') = Cardinality(Holders(u)) + 1
      BY <3>1, <3>2, FS_AddElement
    <3> QED
      BY <2>1, <3>3 DEF IInv
  <2>2. CASE u # o
    <3>1. Holders(u)' = Holders(u)
      BY <2>2, EngineAssumption DEF Holders
    <3> QED
      BY <2>2, <3>1 DEF IInv
  <2> QED
    BY <2>1, <2>2
<1> QED
  BY <1>1, <1>2

\* A lease that is completed or dropped goes back to the origin it is of, and
\* only if there is one.
LEMMA ReturnedLease ==
    ASSUME IInv, NEW r \in Requests, ReturnLease(r),
           req'[r].lease = None, \A s \in Requests \ {r} : req'[s] = req[s]
    PROVE  /\ leases' \in [Url -> 0..Slots]
           /\ \A u \in Url : leases'[u] = Cardinality(Holders(u)')
<1>1. ASSUME NEW u \in Url
      PROVE  leases'[u] = Cardinality(Holders(u)') /\ leases'[u] \in 0..Slots
  <2>1. /\ leases[u] = Cardinality(Holders(u)) /\ leases[u] \in 0..Slots
        /\ leases'[u] = IF u = req[r].lease THEN leases[u] - 1 ELSE leases[u]
    BY DEF IInv, ReturnLease
  <2>2. CASE u = req[r].lease
    <3>1. Holders(u)' = Holders(u) \ {r} /\ r \in Holders(u)
      BY <2>2, EngineAssumption DEF Holders
    <3>2. IsFiniteSet(Holders(u))
      BY EngineAssumption, FS_Subset DEF Holders
    <3>3. /\ Cardinality(Holders(u)') = Cardinality(Holders(u)) - 1
          /\ Cardinality(Holders(u)) \in Nat /\ Cardinality(Holders(u)) # 0
      BY <3>1, <3>2, FS_RemoveElement, FS_CardinalityType, FS_EmptySet
    <3> QED
      BY <2>1, <2>2, <3>3, EngineAssumption
  <2>3. CASE u # req[r].lease
    <3>1. Holders(u)' = Holders(u)
      BY <2>3, EngineAssumption DEF Holders
    <3> QED
      BY <2>1, <2>3, <3>1
  <2> QED
    BY <2>2, <2>3
<1>2. leases' \in [Url -> 0..Slots]
  BY <1>1 DEF ReturnLease
<1> QED
  BY <1>1, <1>2

\* Before a request is sent all are new, and every lease is in.
LEMMA InitIInv == Init => IInv
<1> SUFFICES ASSUME Init PROVE IInv
  OBVIOUS
<1>1. \A r \in Requests : Good(req[r]) /\ req[r].lease = None
  BY EndedGood DEF Init, Parked
<1>2. \A u \in Url : Holders(u) = {}
  BY <1>1, EngineAssumption DEF Holders
<1>3. \A u \in Url : leases[u] = Cardinality(Holders(u))
  BY <1>2, FS_EmptySet DEF Init
<1>4. leases \in [Url -> 0..Slots]
  BY EngineAssumption DEF Init
<1> QED
  BY <1>1, <1>3, <1>4 DEF Init, IInv

\* A step of one request that keeps the stores and its lease.
LEMMA QuietStep ==
    ASSUME IInv, NEW r \in Requests, NEW q, Good(q), q.lease = req[r].lease,
           Becomes(r, q), UNCHANGED <<hsts, jar, leases>>
    PROVE  IInv'
<1>1. /\ DOMAIN req' = Requests /\ req' = [s \in Requests |-> req'[s]]
      /\ \A s \in Requests : Good(req'[s])
      /\ req'[r] = q /\ \A s \in Requests \ {r} : req'[s] = req[s]
  BY BecomesGood
<1>2. \A s \in Requests : req'[s].lease = req[s].lease
  BY <1>1
<1>3. /\ leases' \in [Url -> 0..Slots]
      /\ \A u \in Url : leases'[u] = Cardinality(Holders(u)')
  BY <1>2, SameLeases
<1> QED
  BY <1>1, <1>3 DEF IInv

\* A step that ends a hop: the lease goes back and the stores may have learned.
LEMMA ReturningStep ==
    ASSUME IInv, NEW r \in Requests, NEW q, Good(q), q.lease = None,
           Becomes(r, q), ReturnLease(r), hsts' \subseteq Hosts, jar' \subseteq Hosts
    PROVE  IInv'
<1>1. /\ DOMAIN req' = Requests /\ req' = [s \in Requests |-> req'[s]]
      /\ \A s \in Requests : Good(req'[s])
      /\ req'[r] = q /\ \A s \in Requests \ {r} : req'[s] = req[s]
  BY BecomesGood
<1>2. /\ leases' \in [Url -> 0..Slots]
      /\ \A u \in Url : leases'[u] = Cardinality(Holders(u)')
  BY <1>1, ReturnedLease
<1> QED
  BY <1>1, <1>2 DEF IInv

\* Every step of the engine keeps the invariant.
LEMMA NextIInv ==
    ASSUME IInv, [Next]_vars
    PROVE  IInv'
<1>1. ASSUME NEW r \in Requests PROVE Good(req[r])
  BY DEF IInv
<1>2. ASSUME NEW r \in Requests, Start(r) PROVE IInv'
  <2>1. PICK asked \in Submissions[r] : Becomes(r, Running(asked, 0, {}))
    BY <1>2 DEF Start
  <2>2. asked \in Request /\ 0 \in 0..MaxRetries
    BY EngineAssumption
  <2>3. Good(Running(asked, 0, {}))
    BY <2>2, RunningGood
  <2>4. Running(asked, 0, {}).lease = None /\ req[r].lease = None
    BY <1>1, <1>2 DEF Start, Good, Running
  <2> QED
    BY <1>2, <2>1, <2>3, <2>4, QuietStep DEF Start
<1>3. ASSUME NEW r \in Requests, Retry(r) PROVE IInv'
  <2>1. /\ req[r].asked \in Request /\ req[r].spent = {} /\ req[r].lease = None
        /\ req[r].attempt < MaxRetries /\ req[r].attempt \in 0..MaxRetries
    BY <1>1, <1>3 DEF Retry, Good, Exchange
  <2>2. req[r].attempt + 1 \in 0..MaxRetries
    BY <2>1, EngineAssumption
  <2> DEFINE q == Running(req[r].asked, req[r].attempt + 1, {})
  <2>3. Good(q) /\ Becomes(r, q)
    BY <1>3, <2>1, <2>2, RunningGood DEF Retry
  <2>4. q.lease = req[r].lease
    BY <2>1 DEF Running
  <2> QED
    BY <1>3, <2>3, <2>4, QuietStep DEF Retry
<1>4. ASSUME NEW r \in Requests, ServeFromCache(r) PROVE IInv'
  <2>1. PICK q \in AnsweredByCache(r) : Becomes(r, q)
    BY <1>4 DEF ServeFromCache
  <2>2. Good(q) /\ q.lease = None
    BY <1>1, <1>4, AnsweredGood DEF ServeFromCache
  <2>3. req[r].lease = None
    BY <1>1, <1>4 DEF ServeFromCache, Good
  <2> QED
    BY <1>4, <2>1, <2>2, <2>3, QuietStep DEF ServeFromCache
<1>5. ASSUME NEW r \in Requests, AcquireLease(r) PROVE IInv'
  <2> DEFINE q == [req[r] EXCEPT !.pc = "hopping", !.lease = req[r].url]
  <2>1. Good(q) /\ q.lease = req[r].url /\ Becomes(r, q)
    BY <1>1, <1>5, AcquireGood DEF AcquireLease
  <2> HIDE DEF q
  <2>2. req[r].lease = None /\ req[r].url \in Url
    BY <1>1, <1>5 DEF AcquireLease, Good, Active
  <2>3. /\ DOMAIN req' = Requests /\ req' = [s \in Requests |-> req'[s]]
        /\ \A s \in Requests : Good(req'[s])
        /\ req'[r] = q /\ \A s \in Requests \ {r} : req'[s] = req[s]
    BY <2>1, BecomesGood
  <2>4. /\ leases' \in [Url -> 0..Slots]
        /\ \A u \in Url : leases'[u] = Cardinality(Holders(u)')
    BY <1>5, <2>1, <2>2, <2>3, TakenLease DEF AcquireLease
  <2> QED
    BY <1>5, <2>3, <2>4 DEF AcquireLease, IInv
<1>6. ASSUME NEW r \in Requests, Send(r) PROVE IInv'
  <2> DEFINE q == [ApplyHeaders(req[r]) EXCEPT
                      !.pc = "sent",
                      !.spent = @ \cup ({req[r].method, req[r].body} \cap {"POST", "stream"})]
  <2>1. Good(q) /\ q.lease = req[r].lease /\ Becomes(r, q)
    BY <1>1, <1>6, SendGood DEF Send
  <2> HIDE DEF q
  <2> QED
    BY <1>6, <2>1, QuietStep DEF Send
<1>7. ASSUME NEW r \in Requests, FailHop(r) PROVE IInv'
  <2>1. PICK retryable \in BOOLEAN : Becomes(r, Concluded(r, retryable))
    BY <1>7 DEF FailHop
  <2>2. Good(Concluded(r, retryable))
    BY <1>1, <1>7, ConcludedGood DEF FailHop, Active
  <2>3. Concluded(r, retryable).lease = None
    BY DEF Concluded, Ended, Parked
  <2> QED
    BY <1>7, <2>1, <2>2, <2>3, ReturningStep DEF FailHop, IInv
<1>8. ASSUME NEW r \in Requests, ReceiveHead(r) PROVE IInv'
  <2>1. PICK q \in Answered(r) : Becomes(r, q)
    BY <1>8 DEF ReceiveHead
  <2>2. Good(q) /\ q.lease = None
    BY <1>1, <1>8, AnsweredGood DEF ReceiveHead
  <2>3. req[r].url.host \in Hosts
    BY <1>1, <1>8 DEF ReceiveHead, Good, Active, Url
  <2>4. hsts' \subseteq Hosts /\ jar' \subseteq Hosts
    BY <1>8, <2>3 DEF ReceiveHead, RecordResponse, IInv
  <2> QED
    BY <1>8, <2>1, <2>2, <2>4, ReturningStep DEF ReceiveHead
<1>9. ASSUME NEW r \in Requests, Drained(r) PROVE IInv'
  <2>1. req[r].lease = None
    BY <1>1, <1>9 DEF Drained, Good
  <2>2. CASE req[r].next.method = req[r].method /\ ~TryClone(req[r].body)
    <3>1. Becomes(r, Ended)
      BY <1>9, <2>2 DEF Drained, Concluded
    <3>2. Ended.lease = req[r].lease
      BY <2>1 DEF Ended, Parked
    <3> QED
      BY <1>9, <3>1, <3>2, EndedGood, QuietStep DEF Drained
  <2>3. CASE ~(req[r].next.method = req[r].method /\ ~TryClone(req[r].body))
    <3>1. Good(Rebuilt(req[r])) /\ Becomes(r, Rebuilt(req[r]))
      BY <1>1, <1>9, <2>3, RebuiltGood DEF Drained
    <3>2. req[r] \in Exchange
      BY <1>1 DEF Good
    <3>3. Rebuilt(req[r]).lease = req[r].lease
      BY <3>2 DEF Rebuilt, Exchange
    <3> QED
      BY <1>9, <3>1, <3>3, QuietStep DEF Drained
  <2> QED
    BY <2>2, <2>3
<1>10. ASSUME NEW r \in Requests, Cancel(r) PROVE IInv'
  <2>1. Ended.lease = None
    BY DEF Ended, Parked
  <2> QED
    BY <1>10, <2>1, EndedGood, ReturningStep DEF Cancel, IInv
<1>11. ASSUME Tick PROVE IInv'
  <2>1. ASSUME NEW r \in Requests
        PROVE  Good(req'[r]) /\ req'[r].lease = req[r].lease
    BY <1>1, <1>11, TickGood DEF Tick
  <2>2. DOMAIN req' = Requests /\ req' = [r \in Requests |-> req'[r]]
    BY <1>11 DEF Tick
  <2>3. /\ leases' \in [Url -> 0..Slots]
        /\ \A u \in Url : leases'[u] = Cardinality(Holders(u)')
    BY <1>11, <2>1, SameLeases DEF Tick
  <2> QED
    BY <1>11, <2>1, <2>2, <2>3 DEF Tick, IInv
<1>12. ASSUME UNCHANGED vars PROVE IInv'
  <2>1. \A u \in Url : Holders(u)' = Holders(u)
    BY <1>12 DEF vars, Holders
  <2> QED
    BY <1>12, <2>1 DEF vars, IInv
<1> QED
  BY <1>2, <1>3, <1>4, <1>5, <1>6, <1>7, <1>8, <1>9, <1>10, <1>11, <1>12
     DEF Next, Finished

\* The invariant holds throughout every behaviour of the engine.
LEMMA Invariance == Spec => []IInv
<1>1. IInv /\ [Next]_vars => IInv'
  BY NextIInv
<1> QED
  BY <1>1, InitIInv, PTL DEF Spec

-----------------------------------------------------------------------------

\* The engine's state keeps its type: no run follows more redirects than its
\* limit, no request is retried more often than its policy says, and no origin
\* hands out more leases than it has.
THEOREM EngineTypeCorrect == Spec => []TypeOK
<1>1. IInv => TypeOK
  BY DEF IInv, TypeOK, Good
<1> QED
  BY <1>1, Invariance, PTL

\* Along every chain of redirects and retries the caller's credentials go only
\* to the origin the run began at and the jar's only to their host.
THEOREM CredentialsNeverTravel == Spec => []CredentialsStayHome
<1>1. IInv => CredentialsStayHome
  BY DEF IInv, CredentialsStayHome, Good
<1> QED
  BY <1>1, Invariance, PTL

\* No stream is sent twice, and no POST without a redirect that asks for it.
THEOREM NothingReplayed == Spec => []NothingSentTwice
<1>1. IInv => NothingSentTwice
  BY DEF IInv, NothingSentTwice, Good
<1> QED
  BY <1>1, Invariance, PTL

\* For any number of requests no lease leaks on any path out of a hop, and
\* nobody waits for a lease while holding one.
THEOREM LeasesNeverLeak == Spec => []LeasesExact
<1>1. IInv => LeasesExact
  BY DEF IInv, LeasesExact, Good, Holders, InExchange
<1> QED
  BY <1>1, Invariance, PTL

\* Every hop without a cookie of the caller's sends what the jar holds then.
THEOREM JarAskedAfresh == Spec => JarAnswersFresh
<1> DEFINE Fresh == \A r \in Requests :
              req[r].pc = "hopping" /\ req'[r].pc = "sent" /\ req'[r].wire # "caller"
                  => (req'[r].wire # None <=> req[r].url.host \in jar)
<1>1. ASSUME IInv, Next, NEW r \in Requests, req[r].pc = "hopping", req'[r].pc = "sent",
             req'[r].wire # "caller"
      PROVE  req'[r].wire # None <=> req[r].url.host \in jar
  <2>1. Good(req[r]) /\ DOMAIN req = Requests
    BY <1>1 DEF IInv
  <2>2. ASSUME NEW s \in Requests, NEW q, Becomes(s, q)
        PROVE  s = r /\ q.pc = "sent"
    BY <1>1, <2>1, <2>2 DEF Becomes
  <2>3. CASE Send(r)
    <3> DEFINE q == [ApplyHeaders(req[r]) EXCEPT
                        !.pc = "sent",
                        !.spent = @ \cup ({req[r].method, req[r].body} \cap {"POST", "stream"})]
    <3>1. q.wire # "caller" => (q.wire # None <=> req[r].url.host \in jar)
      BY <1>1, <2>1, SendGood
    <3>2. req'[r] = q
      BY <2>1, <2>3 DEF Send, Becomes
    <3> HIDE DEF q
    <3> QED
      BY <1>1, <3>1, <3>2
  <2>4. ASSUME NEW s \in Requests, Start(s) \/ Retry(s) \/ ServeFromCache(s) \/ AcquireLease(s)
                                    \/ ReceiveHead(s) \/ Drained(s)
        PROVE  FALSE
    <3>1. req[s].pc # "hopping"
      BY <2>4 DEF Start, Retry, ServeFromCache, AcquireLease, ReceiveHead, Drained
    <3>2. \E q : Becomes(s, q)
      BY <2>4 DEF Start, Retry, ServeFromCache, AcquireLease, ReceiveHead, Drained
    <3> QED
      BY <1>1, <2>2, <3>1, <3>2
  <2>5. ASSUME NEW s \in Requests, FailHop(s) PROVE FALSE
    <3>1. PICK retryable \in BOOLEAN : Becomes(s, Concluded(s, retryable))
      BY <2>5 DEF FailHop
    <3>2. Concluded(s, retryable).pc # "sent"
      BY DEF Concluded, Parked, Ended
    <3> QED
      BY <2>2, <3>1, <3>2
  <2>6. ASSUME NEW s \in Requests, Cancel(s) PROVE FALSE
    <3>1. Ended.pc # "sent"
      BY DEF Ended, Parked
    <3> QED
      BY <2>2, <2>6, <3>1 DEF Cancel
  <2>7. ASSUME Tick PROVE FALSE
    <3>1. req'[r].pc = req[r].pc
      BY <2>1, <2>7, TickGood DEF Tick
    <3> QED
      BY <1>1, <3>1
  <2>8. ASSUME Finished PROVE FALSE
    BY <1>1, <2>8 DEF Finished
  <2>9. ASSUME NEW s \in Requests, Send(s) PROVE s = r
    <3>1. \E q : Becomes(s, q)
      BY <2>9 DEF Send
    <3> QED
      BY <2>2, <3>1
  <2> QED
    BY <1>1, <2>3, <2>4, <2>5, <2>6, <2>7, <2>8, <2>9 DEF Next
<1>2. ASSUME IInv, [Next]_vars PROVE [Fresh]_vars
  BY <1>1, <1>2
<1>3. IInv /\ [Next]_vars => [Fresh]_vars
  BY <1>2
<1> QED
  BY <1>3, Invariance, PTL DEF Spec, JarAnswersFresh

=============================================================================
