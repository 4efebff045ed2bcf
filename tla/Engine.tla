------------------------------- MODULE Engine -------------------------------
(***************************************************************************)
(* Logical requests through the engine (chromulate-http/src/engine.rs): the*)
(* retry loop (middleware/retry.rs) around the redirect loop (Engine::run, *)
(* redirect.rs) around one hop, each run under a deadline (deadline.rs).   *)
(* The requests share the HSTS store, the cookie jar and the leases of a   *)
(* concurrency controller.                                                 *)
(*                                                                         *)
(* A step ends where the code awaits: a lease, a connection, a response    *)
(* head, the drain of a redirect's body, a backoff.  A URL is its origin;  *)
(* the caller's credential headers are one header, "caller".               *)
(***************************************************************************)
EXTENDS Integers, FiniteSets

CONSTANTS
    Requests,     \* concurrent logical requests
    Hosts,
    None,
    Submissions,  \* request -> what its caller may ask for
    Targets,      \* the URLs a Location header may resolve to
    Slots,        \* leases the controller has for an origin
    MaxHops,      \* RedirectPolicy::Follow { limit }
    MaxRetries,   \* RetryPolicy::max_retries, under RetryOn::IdempotentMethods
    Timeout       \* RequestOptions::timeout, in ticks

Url == [scheme: {"http", "https"}, host: Hosts]
Methods == {"GET", "PUT", "POST"}
Bodies == {"empty", "buffer", "stream"}
Request == [url: Url, method: Methods, body: Bodies, cookie: {None, "caller"}]

\* redirect::Hop; whether it crosses the origin or drops the body follows.
Hop == [url: Url, method: Methods]

ASSUME EngineAssumption ==
    /\ IsFiniteSet(Requests)
    /\ Submissions \in [Requests -> SUBSET Request]
    /\ Targets \subseteq Url
    /\ Slots \in Nat \ {0}
    /\ MaxHops \in Nat /\ MaxRetries \in Nat /\ Timeout \in Nat
    /\ None \notin Hosts \cup Url \cup Request \cup {"caller"}
    /\ None \notin Hop /\ "caller" \notin Hosts

VARIABLES
    hsts,    \* the hosts with an HSTS policy
    jar,     \* the hosts the jar holds a cookie for
    leases,  \* origin -> leases outstanding at the controller
    req      \* request -> where it is and what it carries

vars == <<hsts, jar, leases, req>>

\* Everything a request may be.  "wire" is the credential it has just sent,
\* "next" the hop a redirect asks for.  "spent" is a ghost: what has gone out and
\* must not go out again, a stream ever, a POST until a redirect asks for it.
Exchange ==
    [pc: {"new", "routing", "hopping", "sent", "draining", "backoff", "done"},
     asked: Request \cup {None}, attempt: 0..MaxRetries,
     url: Url \cup {None}, home: Url \cup {None},
     method: Methods, body: Bodies,
     cookie: {None, "caller"} \cup Hosts, wire: {None, "caller"} \cup Hosts,
     next: Hop \cup {None},
     hops: 0..MaxHops, left: 0..Timeout, lease: Url \cup {None},
     spent: SUBSET {"POST", "stream"}]

-----------------------------------------------------------------------------

IsIdempotent(method) == method # "POST"

\* Body::try_clone has no copy of a stream.
TryClone(body) == body # "stream"

\* Mutant: any method is replayed.
EagerMayReplay(r) == MaxRetries > 0 /\ TryClone(req[r].asked.body)

MayReplay(r) ==
    /\ MaxRetries > 0
    /\ IsIdempotent(req[r].asked.method) /\ TryClone(req[r].asked.body)

\* apply_hsts.
Upgraded(url) == IF url.host \in hsts THEN [url EXCEPT !.scheme = "https"] ELSE url

\* 302 stands for 301 too, 307 for 308.
MethodAfter(status, method) ==
    IF status = 303 \/ (status = 302 /\ method = "POST") THEN "GET" ELSE method

\* A request between runs, with what its caller asked for.
Parked(pc, asked, attempt, spent) ==
    [pc |-> pc, asked |-> asked, attempt |-> attempt, url |-> None, home |-> None,
     method |-> "GET", body |-> "empty", cookie |-> None, wire |-> None,
     next |-> None, hops |-> 0, left |-> 0, lease |-> None, spent |-> spent]

Ended == Parked("done", None, 0, {})

\* run() up to its loop: the caller's request, its URL upgraded, and a new deadline.
Running(asked, attempt, spent) ==
    LET url == Upgraded(asked.url)
    IN  [pc |-> "routing", asked |-> asked, attempt |-> attempt, url |-> url,
         home |-> url, method |-> asked.method, body |-> asked.body,
         cookie |-> asked.cookie, wire |-> None, next |-> None, hops |-> 0,
         left |-> Timeout, lease |-> None, spent |-> spent]

\* Retrying::exchange over the outcome of a run: another attempt, or the end.
Concluded(r, retryable) ==
    IF retryable /\ MayReplay(r) /\ req[r].attempt < MaxRetries
    THEN Parked("backoff", req[r].asked, req[r].attempt, req[r].spent)
    ELSE Ended

\* redirect::decide on a 3xx with a Location: an error at the limit, or a hop
\* that is taken once the body of this response has been drained.
Redirected(r, status, url) ==
    IF req[r].hops >= MaxHops
    THEN Concluded(r, FALSE)
    ELSE [req[r] EXCEPT !.pc = "draining", !.wire = None, !.lease = None,
                        !.next = [url |-> url,
                                  method |-> MethodAfter(status, req[r].method)]]

\* What run() makes of any response the origin may give.
Answered(r) ==
    {Concluded(r, retryable) : retryable \in BOOLEAN}
        \cup {Redirected(r, status, url) : status \in {302, 303, 307}, url \in Targets}

\* The same for a stored response: no 303 and no status worth a retry is storable.
AnsweredByCache(r) ==
    {Concluded(r, FALSE)}
        \cup {Redirected(r, status, url) : status \in {302, 307}, url \in Targets}

\* Mutant: an origin is taken for its host.
HostwiseRebuilt(q) ==
    [q EXCEPT !.pc = "routing",
              !.url = q.next.url,
              !.method = q.next.method,
              !.body = IF q.next.method # q.method THEN "empty" ELSE @,
              !.cookie = IF q.next.url.host # q.url.host THEN None ELSE @,
              !.next = None,
              !.hops = @ + 1,
              !.spent = @ \ {"POST"}]

\* Mutant: the hop is not counted.
UncountedRebuilt(q) ==
    [q EXCEPT !.pc = "routing",
              !.url = q.next.url,
              !.method = q.next.method,
              !.body = IF q.next.method # q.method THEN "empty" ELSE @,
              !.cookie = IF q.next.url # q.url THEN None ELSE @,
              !.next = None,
              !.spent = @ \ {"POST"}]

\* rebuild: a hop that leaves the origin loses the credentials, one that
\* changes the method its body.
Rebuilt(q) ==
    [q EXCEPT !.pc = "routing",
              !.url = q.next.url,
              !.method = q.next.method,
              !.body = IF q.next.method # q.method THEN "empty" ELSE @,
              !.cookie = IF q.next.url # q.url THEN None ELSE @,
              !.next = None,
              !.hops = @ + 1,
              !.spent = @ \ {"POST"}]

\* Jar::cookies_for.
CookiesFor(url) == IF url.host \in jar THEN url.host ELSE None

\* Mutant: the jar's answer is left on the request.
StickyApplyHeaders(q) ==
    LET cookie == IF q.cookie # None THEN q.cookie ELSE CookiesFor(q.url)
    IN  [q EXCEPT !.wire = cookie, !.cookie = cookie]

\* apply_headers: without a Cookie header of the caller the jar is asked, and
\* its answer goes on the wire but not onto the request.
ApplyHeaders(q) ==
    [q EXCEPT !.wire = IF q.cookie # None THEN q.cookie ELSE CookiesFor(q.url)]

-----------------------------------------------------------------------------

Init ==
    /\ hsts = {}
    /\ jar = {}
    /\ leases = [u \in Url |-> 0]
    /\ req = [r \in Requests |-> Parked("new", None, 0, {})]

Becomes(r, q) == req' = [req EXCEPT ![r] = q]

\* The lease of a hop goes back, completed with a response or dropped.
ReturnLease(r) ==
    leases' = [u \in Url |-> IF u = req[r].lease THEN leases[u] - 1 ELSE leases[u]]

\* Engine::send.
Start(r) ==
    /\ req[r].pc = "new"
    /\ \E asked \in Submissions[r] : Becomes(r, Running(asked, 0, {}))
    /\ UNCHANGED <<hsts, jar, leases>>

\* The backoff is over: the whole run again.
Retry(r) ==
    /\ req[r].pc = "backoff"
    /\ Becomes(r, Running(req[r].asked, req[r].attempt + 1, req[r].spent))
    /\ UNCHANGED <<hsts, jar, leases>>

\* cache_before has a fresh response: no lease, no exchange, nothing learned.
ServeFromCache(r) ==
    /\ req[r].pc = "routing" /\ req[r].method = "GET"
    /\ \E q \in AnsweredByCache(r) : Becomes(r, q)
    /\ UNCHANGED <<hsts, jar, leases>>

\* acquire_from: a lease of this hop's origin, however long that takes.
AcquireLease(r) ==
    /\ req[r].pc = "routing"
    /\ leases[req[r].url] < Slots
    /\ leases' = [leases EXCEPT ![req[r].url] = @ + 1]
    /\ Becomes(r, [req[r] EXCEPT !.pc = "hopping", !.lease = req[r].url])
    /\ UNCHANGED <<hsts, jar>>

\* hop(), once connected: headers and body go out if there is time left.
Send(r) ==
    /\ req[r].pc = "hopping" /\ req[r].left > 0
    /\ Becomes(r, [ApplyHeaders(req[r]) EXCEPT
                      !.pc = "sent",
                      !.spent = @ \cup ({req[r].method, req[r].body} \cap {"POST", "stream"})])
    /\ UNCHANGED <<hsts, jar, leases>>

\* Mutant: the error path forgets the lease.
LeakyFailHop(r) ==
    /\ req[r].pc \in {"hopping", "sent"}
    /\ \E retryable \in BOOLEAN : Becomes(r, Concluded(r, retryable))
    /\ UNCHANGED <<hsts, jar, leases>>

\* hop() fails: out of time, no connection, no response.
FailHop(r) ==
    /\ req[r].pc \in {"hopping", "sent"}
    /\ \E retryable \in BOOLEAN : Becomes(r, Concluded(r, retryable))
    /\ ReturnLease(r)
    /\ UNCHANGED <<hsts, jar>>

\* record_response: the jar takes or drops a cookie; a policy counts over TLS only.
RecordResponse(url) ==
    /\ jar' \in {jar, jar \cup {url.host}, jar \ {url.host}}
    /\ hsts' \in {hsts} \cup IF url.scheme = "https"
                             THEN {hsts \cup {url.host}, hsts \ {url.host}} ELSE {}

\* The head arrives in time: it is recorded, the lease is completed, and the
\* redirect loop decides.
ReceiveHead(r) ==
    /\ req[r].pc = "sent" /\ req[r].left > 0
    /\ RecordResponse(req[r].url)
    /\ ReturnLease(r)
    /\ \E q \in Answered(r) : Becomes(r, q)

\* The redirect's body is read or given up, and the next hop is built, unless
\* it would have to send a stream again.
Drained(r) ==
    /\ req[r].pc = "draining"
    /\ Becomes(r, IF req[r].next.method = req[r].method /\ ~TryClone(req[r].body)
                  THEN Concluded(r, FALSE) ELSE Rebuilt(req[r]))
    /\ UNCHANGED <<hsts, jar, leases>>

\* The caller drops the future, and with it whatever the request holds.
Cancel(r) ==
    /\ req[r].pc \notin {"new", "done"}
    /\ Becomes(r, Ended)
    /\ ReturnLease(r)
    /\ UNCHANGED <<hsts, jar>>

\* Time passes for every deadline.
Tick ==
    /\ \E r \in Requests : req[r].left > 0
    /\ req' = [r \in Requests |-> [req[r] EXCEPT !.left = IF @ > 0 THEN @ - 1 ELSE 0]]
    /\ UNCHANGED <<hsts, jar, leases>>

\* Nothing is left to do.
Finished ==
    /\ \A r \in Requests : req[r].pc = "done"
    /\ UNCHANGED vars

Next ==
    \/ \E r \in Requests :
          \/ Start(r) \/ Retry(r) \/ ServeFromCache(r) \/ AcquireLease(r) \/ Send(r)
          \/ FailHop(r) \/ ReceiveHead(r) \/ Drained(r) \/ Cancel(r)
    \/ Tick
    \/ Finished

Spec == Init /\ [][Next]_vars

\* deadline.run fires on a hop that is out of time.
Expire(r) == req[r].left = 0 /\ FailHop(r)

\* Timers fire, a free lease is granted to its waiter, a drain and a backoff
\* end.  Neither the origin, nor the cache, nor the caller owes anything.
FairSpec ==
    /\ Spec
    /\ WF_vars(Tick)
    /\ \A r \in Requests :
          WF_vars(Retry(r)) /\ WF_vars(AcquireLease(r)) /\ WF_vars(Drained(r))
              /\ WF_vars(Expire(r))

-----------------------------------------------------------------------------

InExchange(r) == req[r].pc \in {"hopping", "sent"}

\* Every field of the engine's shared and per-request state has its type.
TypeOK ==
    /\ hsts \subseteq Hosts /\ jar \subseteq Hosts
    /\ leases \in [Url -> 0..Slots]
    /\ req \in [Requests -> Exchange]

\* Credentials reach the origin they are for, along any chain of redirects and
\* retries: the caller's only the one the run began at, also when the chain
\* returns to it after leaving, the jar's only the host that set them
\* (strip_credentials, apply_headers).
CredentialsStayHome ==
    \A r \in Requests :
        /\ req[r].wire = "caller" => req[r].url = req[r].home
        /\ req[r].wire \in Hosts => req[r].wire = req[r].url.host

\* Unless the caller brought a cookie, what a hop sends is what the jar holds
\* as it is sent: a cookie set or deleted by the redirect just followed, or by
\* another request meanwhile, is neither missed nor replayed (apply_headers).
JarAnswersFresh ==
    [][\A r \in Requests :
          req[r].pc = "hopping" /\ req'[r].pc = "sent" /\ req'[r].wire # "caller"
              => (req'[r].wire # None <=> req[r].url.host \in jar)]_vars

\* No hop is about to send a stream that has gone out, nor a POST that has gone
\* out and no redirect asked for since, whichever of cache, redirect or retry
\* brought it there (may_replay, streaming_redirect_error).
NothingSentTwice ==
    \A r \in Requests :
        req[r].pc \in {"routing", "hopping"} =>
            {req[r].method, req[r].body} \cap req[r].spent = {}

\* The controller counts exactly the hops in exchange, each at the origin it
\* talks to: a hop that fails, is cancelled, redirected or retried leaks no
\* lease, and nothing waits for one while holding another.
LeasesExact ==
    /\ \A u \in Url : leases[u] = Cardinality({r \in Requests : req[r].lease = u})
    /\ \A r \in Requests : req[r].lease = IF InExchange(r) THEN req[r].url ELSE None

\* A request with a timeout ends, however origins redirect, fail or stall and
\* whatever the cache answers: the hop limit, the retry limit, the deadline and
\* the leases' return add up to termination.
EveryRequestEnds ==
    \A r \in Requests : req[r].pc = "routing" ~> req[r].pc = "done"

\* "A browser that has seen HSTS from an origin never speaks plaintext to it":
\* no hop is sent over http to a host with a policy.
NoPlaintextAfterPolicy ==
    [][\A r \in Requests :
          req[r].pc = "hopping" /\ req'[r].pc = "sent"
              => ~(req[r].url.scheme = "http" /\ req[r].url.host \in hsts)]_vars

=============================================================================
