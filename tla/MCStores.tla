------------------------------ MODULE MCStores ------------------------------
(***************************************************************************)
(* What a client remembers of the servers it has met: cookies, demands for *)
(* HTTPS, cached responses, validators, granted client hints, alternative  *)
(* services, the session of each exit, the origins of the adaptive         *)
(* controller; and how it reads the instants they name and spaces its      *)
(* retries.  The stores share no state, so a behaviour is about the one in *)
(* focus and the others stand still.                                       *)
(***************************************************************************)
EXTENDS Integers, Sequences, TLC

CONSTANTS None, Star, Withdrawn, x1, x2, k1, k2, k3, u1, u2, u3, o1, o2, o3, p1, p2, p3

VARIABLES
    focus,
    jar, lookups, clock,
    hosts, hsts_now, hsts_said, hsts_crowded,
    cache, exchange, served, time,
    validators, stored, v_seq, op, seen, asked,
    granted, by_access, next_seq, reading,
    services, alt_now, alt_said, alt_crowded,
    routes, r_seq, minted, r_task, serves, evicted,
    origins, o_entries, o_seq, o_task,
    policy, attempt, waits, at,
    year, month, count

-----------------------------------------------------------------------------
(* Hosts, by label from the top. *)

Ex == <<"com", "ex">>
Api == <<"com", "ex", "api">>
Ip == <<"10">>
Dev == <<"dev">>
Gm == <<"com", "gm">>
Root == <<"">>
Trailing(host) == <<"">> \o host   \* with a dot at its end

-----------------------------------------------------------------------------
(* The cookie jar: caps of two and three cookies, a few ticks. *)

SetCookie(prefix, id, domain, path, secure, same_site, max_age, expires) ==
    [name |-> [prefix |-> prefix, id |-> id], domain |-> domain, path |-> path, secure |-> secure,
     same_site |-> same_site, max_age |-> max_age, expires |-> expires]

JarUrls ==
    {[host |-> Ex, path |-> Root, secure |-> TRUE],
     [host |-> Api, path |-> <<"a", "b">>, secure |-> FALSE],
     [host |-> Ip, path |-> Root, secure |-> FALSE]}

JarResponses ==
    {<<SetCookie("", "a", None, None, FALSE, None, None, None)>>,
     <<SetCookie("", "a", None, Root, TRUE, "none", 1, None)>>,
     <<SetCookie("", "a", None, Root, FALSE, None, 0, None)>>,
     <<SetCookie("host", "a", None, Root, TRUE, "strict", None, None),
       SetCookie("", "b", Ex, Root, FALSE, None, None, 1)>>,
     <<SetCookie("host", "a", Ex, Root, TRUE, None, None, None),
       SetCookie("secure", "a", Ex, None, TRUE, None, None, None)>>}

SavedCookie(prefix, host_only) ==
    [name |-> [prefix |-> prefix, id |-> "a"], domain |-> Ex, host_only |-> host_only, path |-> Root,
     secure |-> FALSE, same_site |-> "lax", expires |-> None, by |-> None]

JarSnapshots ==
    {<<[cookie |-> SavedCookie("", TRUE), creation |-> 1, access |-> 1, representable |-> TRUE],
       [cookie |-> SavedCookie("host", FALSE), creation |-> 0, access |-> 0, representable |-> TRUE]>>}

JarContexts == {[initiator |-> h, top |-> h = None] : h \in {None, Ip, Api}}

J == INSTANCE CookieJar WITH
        PublicSuffixes <- {}, IpLiterals <- {Ip},
        Callers <- {x1, x2}, Urls <- JarUrls, Contexts <- JarContexts, Responses <- JarResponses,
        Snapshots <- JarSnapshots, PerDomain <- 2, Total <- 3, MaxLifetime <- 2, MaxTime <- 1,
        SeqSize <- 16, MaxSeq <- 3

-----------------------------------------------------------------------------
(* HSTS: room for one host, a list of two. *)

Spellings == {Ex, Trailing(Ex), Api, Dev \o <<"a">>, Ip, <<"dev", "", "a">>, Gm, Gm \o <<"x">>}

\* -1 stands for a number that does not parse.
MaxAge(n) == [name |-> "max-age", arg |-> n]

StsHeaders ==
    {<<MaxAge(0)>>, <<MaxAge(1)>>, <<MaxAge(9)>>,
     <<MaxAge(2), [name |-> "includeSubDomains", arg |-> None]>>,
     <<MaxAge(2), MaxAge(-1)>>}

Preload == <<[name |-> Dev, sub |-> TRUE], [name |-> Gm, sub |-> FALSE]>>

Rank ==
    [n \in {<<"com">>, Dev, Ip} \cup UNION {{SubSeq(s, 1, k) : k \in DOMAIN s} : s \in Spellings} |->
        CASE n = <<"com">> -> 1 [] n = Dev -> 2 [] n = Ex -> 3 [] n = Gm -> 4 [] OTHER -> 6]

H == INSTANCE HstsStore WITH
        PublicSuffixes <- {}, IpLiterals <- {Ip},
        Speakers <- {Ex, Trailing(Ex), Api, Ip}, Headers <- StsHeaders, Capacity <- 1, MaxTime <- 2,
        LastInstant <- 6, FarFuture <- 5,
        now <- hsts_now, said <- hsts_said, crowded <- hsts_crowded

-----------------------------------------------------------------------------
(* The cache: two shards, a budget of a few entries, two URLs of one origin. *)

Asks(method, key, lang, cc) ==
    [method |-> method, key |-> key, lang |-> lang, auth |-> FALSE, owned |-> FALSE, cc |-> cc,
     pragma |-> FALSE]

Directive(name, arg) == [name |-> name, arg |-> arg]

CacheRequests ==
    {Asks("GET", k1, "en", None), Asks("GET", k1, None, <<Directive("no-cache", None)>>),
     Asks("GET", k2, "en", None), Asks("POST", k2, None, None)}

Tagged(weak, tag) == [weak |-> weak, tag |-> tag]

Plain ==
    [status |-> 200, cc |-> <<Directive("max-age", 2)>>, etag |-> None, lm |-> None, ttl |-> None,
     dated |-> TRUE, aged |-> TRUE, vary |-> None, cookie |-> FALSE, length |-> None,
     location |-> None, chunks |-> <<1>>]

CacheAnswers ==
    {[Plain EXCEPT !.etag = Tagged(FALSE, 1), !.vary = {"lang"}],
     [Plain EXCEPT !.cc = None, !.lm = -15, !.chunks = <<2, 2>>, !.length = 4, !.dated = FALSE],
     [Plain EXCEPT !.aged = FALSE, !.dated = FALSE, !.etag = Tagged(TRUE, 2), !.length = 2],
     [Plain EXCEPT !.status = 304, !.etag = Tagged(TRUE, 1), !.cc = None, !.aged = FALSE],
     [Plain EXCEPT !.status = 304, !.cookie = TRUE, !.dated = FALSE, !.location = k1]}

HomeOf == (k1 :> 1) @@ (k2 :> 1) @@ (k3 :> 2)   \* both the shard and the origin

C == INSTANCE HttpCache WITH
        Shards <- {1, 2}, ShardOf <- HomeOf, PerShard <- 6, KeySize <- 1,
        Callers <- {x1, x2}, Keys <- {k1, k2, k3}, Origin <- HomeOf, Requests <- CacheRequests,
        Answers <- CacheAnswers, MaxBody <- 4, StorePrivate <- FALSE, HeuristicCap <- 20,
        MaxTime <- 1, MaxTick <- 3, store <- cache

-----------------------------------------------------------------------------
(* Validators: one thread, three URLs, room for two. *)

Seen(status, etag, last_modified, varies) ==
    [status |-> status, etag |-> etag, last_modified |-> last_modified, varies |-> varies]

SeenResponses ==
    {Seen(200, 1, None, FALSE), Seen(200, None, 1, FALSE), Seen(200, None, None, FALSE),
     Seen(304, 2, None, FALSE), Seen(304, 2, None, TRUE)}

V == INSTANCE ValidatorStore WITH
        Threads <- {x1}, Urls <- {u1, u2, u3}, Methods <- {"GET", "POST"},
        Responses <- SeenResponses, WithCapacity <- 2, MaxSeq <- 4,
        entries <- validators, seq <- v_seq

-----------------------------------------------------------------------------
(* Client hints: three origins, room for two, two readers. *)

A == INSTANCE ClientHints WITH
        Origins <- {o1, o2, o3}, Readers <- {x1, x2}, Hints <- {"a", "b"},
        Values <- {{"a"}, {"a", "b"}, {"x"}}, Limit <- 2, MaxSeq <- 6

-----------------------------------------------------------------------------
(* Alternative services: room for two of three origins. *)

Offer(protocol, params) == [protocol |-> protocol, host |-> None, port |-> 443, params |-> params]
Ma(n) == [name |-> "ma", value |-> n]

AltFields ==
    {Withdrawn, <<Offer("h3", <<Ma(2)>>)>>, <<Offer("h3", <<Ma(9)>>)>>,
     <<None, Offer("h2", <<>>),
       Offer("h3", <<Ma(9), Ma(1), Ma(None), [name |-> "persist", value |-> 1]>>), Offer("h3", <<>>)>>}

B == INSTANCE AltSvc WITH
        Origins <- {[host |-> "a", secure |-> TRUE], [host |-> "b", secure |-> TRUE], [host |-> "c", secure |-> TRUE],
                    [host |-> "a", secure |-> FALSE]},
        Fields <- AltFields, DefaultMaxAge <- 3, Capacity <- 2, MaxTime <- 4, LastInstant <- 8,
        entries <- services, now <- alt_now, said <- alt_said, crowded <- alt_crowded

-----------------------------------------------------------------------------
(* Sessions: three exits, room for two, two tasks. *)

S == INSTANCE Sessions WITH
        Tasks <- {x1, x2}, Proxies <- {p1, p2, p3}, Isolated <- TRUE, MaxRoutes <- 2, MaxSeq <- 5,
        seq <- r_seq, task <- r_task

-----------------------------------------------------------------------------
(* The origins of the adaptive controller: room for three of four. *)

O == INSTANCE AdaptiveStore WITH
        Tasks <- {x1, x2}, Authorities <- 1..4, Capacity <- 3, Limit <- 1, MaxSeq <- 4,
        store <- origins, entries <- o_entries, seq <- o_seq, task <- o_task

-----------------------------------------------------------------------------
(* Retries: caps below, at and above what doubling reaches, and a *)
(* Retry-After below and above them. *)

Policies ==
    [max_retries : {0, 4}, base_delay : {0, 10}, max_delay : {5, 60, 200},
     any_method : {FALSE}, jitter : BOOLEAN, honour_retry_after : BOOLEAN]
        \cup [max_retries : {2}, base_delay : {10}, max_delay : {60},
              any_method : {TRUE}, jitter : {TRUE}, honour_retry_after : {TRUE}]

R == INSTANCE RetrySchedule WITH
        Kept <- {81, 100}, Afters <- {None, 0, 30, 300}, Bits <- 3

-----------------------------------------------------------------------------
(* Dates: every month of two centuries, at the edges of months and days. *)

D == INSTANCE HttpDates WITH
        MinYear <- 1899, MaxYear <- 2101, Days <- {1, 9, 29, 31},
        Times <- {[h |-> 0, m |-> 0, s |-> 0], [h |-> 23, m |-> 59, s |-> 60]}

-----------------------------------------------------------------------------

jarVars == <<jar, lookups, clock>>
hstsVars == <<hosts, hsts_now, hsts_said, hsts_crowded>>
cacheVars == <<cache, exchange, served, time>>
validatorVars == <<validators, stored, v_seq, op, seen, asked>>
hintVars == <<granted, by_access, next_seq, reading>>
altVars == <<services, alt_now, alt_said, alt_crowded>>
sessionVars == <<routes, r_seq, minted, r_task, serves, evicted>>
originVars == <<origins, o_entries, o_seq, o_task>>
retryVars == <<policy, attempt, waits, at>>
dateVars == <<year, month, count>>

allVars ==
    <<focus, jarVars, hstsVars, cacheVars, validatorVars, hintVars, altVars, sessionVars, originVars,
      retryVars, dateVars>>

Components ==
    {"jar", "hsts", "cache", "validators", "hints", "alt-svc", "sessions", "origins", "retry", "dates"}

Init ==
    /\ focus \in Components
    /\ J!Init /\ H!Init /\ C!Init /\ V!Init /\ A!Init /\ B!Init /\ S!Init /\ O!Init /\ D!Init
    /\ R!Init /\ (focus # "retry" => policy = CHOOSE p \in Policies : TRUE)

Others(f) ==
    /\ UNCHANGED focus
    /\ IF f = "jar" THEN TRUE ELSE UNCHANGED jarVars
    /\ IF f = "hsts" THEN TRUE ELSE UNCHANGED hstsVars
    /\ IF f = "cache" THEN TRUE ELSE UNCHANGED cacheVars
    /\ IF f = "validators" THEN TRUE ELSE UNCHANGED validatorVars
    /\ IF f = "hints" THEN TRUE ELSE UNCHANGED hintVars
    /\ IF f = "alt-svc" THEN TRUE ELSE UNCHANGED altVars
    /\ IF f = "sessions" THEN TRUE ELSE UNCHANGED sessionVars
    /\ IF f = "origins" THEN TRUE ELSE UNCHANGED originVars
    /\ IF f = "retry" THEN TRUE ELSE UNCHANGED retryVars
    /\ IF f = "dates" THEN TRUE ELSE UNCHANGED dateVars

Next ==
    \/ focus = "jar" /\ J!Next /\ Others("jar")
    \/ focus = "hsts" /\ H!Next /\ Others("hsts")
    \/ focus = "cache" /\ C!Next /\ Others("cache")
    \/ focus = "validators" /\ V!Next /\ Others("validators")
    \/ focus = "hints" /\ A!Next /\ Others("hints")
    \/ focus = "alt-svc" /\ B!Next /\ Others("alt-svc")
    \/ focus = "sessions" /\ S!Next /\ Others("sessions")
    \/ focus = "origins" /\ O!Next /\ Others("origins")
    \/ focus = "retry" /\ R!Next /\ Others("retry")
    \/ focus = "dates" /\ D!Next /\ Others("dates")

Spec == Init /\ [][Next]_allVars

-----------------------------------------------------------------------------

\* The cookie jar: its index, totals and caps agree through stores, deletions,
\* purges and imports; cookies go only where they may; a plaintext response
\* leaves Secure cookies alone; an export restores what it was taken from.
JarSound ==
    focus = "jar" =>
        J!JarConsistent /\ J!CookiesKeptApart /\ J!SecureLeftAlone /\ J!SnapshotRestores

\* HSTS: a plaintext URL is upgraded exactly when its host demanded it and the
\* demand stands, however the host is spelled (record, evict, upgrade, covers).
DemandsRemembered == focus = "hsts" => H!DemandsRemembered

\* The cache: byte counts are exact, what is stored is something the origin lets
\* it keep, whole, and a hit is fresh and was selected by a like request.
CacheSound == focus = "cache" => C!BytesExact /\ C!StoredHonestly /\ C!HitsHonest

\* Validators: a conditional request asks about the representation last seen,
\* and between operations the count tells whether the store is empty.
ValidatorsSound == focus = "validators" => V!RightQuestion /\ V!CountTells

\* Client hints: the eviction index files every grant once, and what makes room
\* is the least recently used grant, reads included (record, evict).
GrantsKept == []A!GrantsIndexed /\ A!LeastUsedGoes

\* Alternative services: what is offered is what the origin last said, unless
\* more origins have something live than fit (record, make_room_for).
OffersLatest == focus = "alt-svc" => B!OffersLatest

\* Sessions: a session answers for one exit only and an exit has one session
\* until eviction, whatever tasks miss together (session_for).
SessionsApart == focus = "sessions" => S!SessionsApart

\* The adaptive controller's store is bounded, and a purge spares the origins
\* with a request in flight and those that taught something (Store::evict).
OriginsRemembered == O!OriginsRemembered

\* Retries: no wait passes the cap, falls under four fifths of a backoff that
\* never falls, or cuts an honoured Retry-After short (backoff, delay).
WaitsWithinPolicy == focus = "retry" => R!WaitsWithinPolicy

\* The three readers of HTTP dates agree with the calendar.
DatesRead == focus = "dates" => D!DatesRead
=============================================================================
