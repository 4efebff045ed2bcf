----------------------------- MODULE HttpCache -----------------------------
(***************************************************************************)
(* The HTTP cache (chromulate-cache/src/cache.rs, entry.rs, policy.rs,     *)
(* directive.rs) around concurrent exchanges: before() looks up, after()   *)
(* judges what the origin answered, and the response's body is recorded as *)
(* the caller reads it and stored only at its end.                         *)
(*                                                                         *)
(* A request is [method, key, lang, auth, owned, cc, pragma]; "lang" is    *)
(* the one header a response may select on, "owned" says the caller sends  *)
(* a conditional or range header itself.  A head is [status, cc, etag, lm, *)
(* expires, date, age, vary, cookie, length, location]; None is an absent  *)
(* field.  Times are whole seconds; lifetimes are tenths of one, so that   *)
(* the tenth that the heuristic takes is exact.                            *)
(***************************************************************************)
EXTENDS MemoryStore

CONSTANTS
    Callers, None, Keys,
    Origin,         \* key -> its origin
    Requests,
    Answers,        \* the heads an origin may send, with [chunks, date, age] as booleans or sizes
    Star,           \* Vary: *
    MaxBody,        \* CacheConfig::max_body_bytes
    StorePrivate,   \* CacheConfig::store_private
    HeuristicCap,   \* CacheConfig::heuristic_cap, in tenths
    MaxTime, MaxTick

VARIABLES
    store,
    exchange,   \* caller -> where its exchange is
    served,     \* caller -> the stored response it was last given, and when
    time

vars == <<store, exchange, served, time>>

-----------------------------------------------------------------------------
(* Cache-Control: a sequence of [name, arg] directives. *)

Has(cc, name) == cc # None /\ \E i \in DOMAIN cc : cc[i].name = name

\* A later argument that parses replaces an earlier one; one that does not, not.
Argument(cc, name) ==
    LET parsed == IF cc = None THEN {} ELSE {i \in DOMAIN cc : cc[i].name = name /\ cc[i].arg # None}
    IN  IF parsed = {} THEN None ELSE cc[Max(parsed)].arg

\* of_request: Pragma counts only where there is no Cache-Control.
RequestNoCache(req) == Has(req.cc, "no-cache") \/ (req.cc = None /\ req.pragma)

ForcesRevalidation(req) == RequestNoCache(req) \/ Argument(req.cc, "max-age") = 0

-----------------------------------------------------------------------------
(* Policy. *)

CacheableStatus == {200, 203, 204, 300, 301, 302, 307, 308, 404, 405, 410, 414, 501}
HeuristicStatus == CacheableStatus \ {302, 307}
Unselectable == {"cookie"}

VaryNames(head) == IF head.vary = None THEN {} ELSE head.vary

HasValidator(head) == head.etag # None \/ head.lm # None

\* Mutant: a field is set on a revalidation without being judged again.
StorableFirst(req, head) ==
    /\ head.status \in CacheableStatus
    /\ head.vary # Star
    /\ VaryNames(head) \cap Unselectable = {}

\* storable; the rule that refuses is only logged.
Storable(req, head) ==
    /\ ~Has(head.cc, "no-store")
    /\ head.status \in CacheableStatus
    /\ ~head.cookie
    /\ head.vary # Star
    /\ VaryNames(head) \cap Unselectable = {}
    /\ Has(head.cc, "private") => StorePrivate
    /\ req.auth /\ ~StorePrivate =>
          \/ Has(head.cc, "public")
          \/ Has(head.cc, "must-revalidate")
          \/ Argument(head.cc, "s-maxage") # None
    /\ \/ Argument(head.cc, "max-age") # None
       \/ head.expires # None
       \/ HasValidator(head)

EffectiveDate(entry) == IF entry.head.date = None THEN entry.received ELSE entry.head.date

Since(later, earlier) == Max({0, later - earlier})

\* current_age
CurrentAge(entry, now) ==
    LET apparent == Since(entry.received, EffectiveDate(entry))
        field == IF entry.head.age = None THEN 0 ELSE entry.head.age
        corrected == field + Since(entry.received, entry.requested)
    IN  Max({apparent, corrected}) + Since(now, entry.received)

\* freshness_lifetime, in tenths; 0 where the code has None, which is stale too.
Lifetime(entry) ==
    LET head == entry.head
        explicit == Argument(head.cc, "max-age")
        guess == EffectiveDate(entry) - head.lm
    IN  IF explicit # None THEN 10 * explicit
        ELSE IF head.expires # None THEN 10 * Since(head.expires, EffectiveDate(entry))
        ELSE IF head.status \notin HeuristicStatus \/ head.lm = None THEN 0
        ELSE IF guess < 0 THEN 0 ELSE Min({guess, HeuristicCap})

IsFresh(entry, now) ==
    /\ ~Has(entry.head.cc, "no-cache")
    /\ 10 * CurrentAge(entry, now) < Lifetime(entry)

-----------------------------------------------------------------------------
(* Entries. *)

\* Selector::of and matches: absence is a value like any other.
SelectorOf(names, req) == [n \in names |-> req[n]]

Matches(selector, req) == \A n \in DOMAIN selector : selector[n] = req[n]

\* HttpCache::select: the first variant that matches.
Select(st, req) ==
    LET vs == VariantsOf(st, req.key)
        fits == {i \in DOMAIN vs : Matches(vs[i].selector, req)}
    IN  IF fits = {} THEN None ELSE vs[Min(fits)]

\* Weakness apart, an entity tag is its opaque part.
OpaqueTag(etag) == etag.tag

ValidatorsAgree(stored, confirmed) ==
    stored.etag # None /\ confirmed.etag # None => OpaqueTag(stored.etag) = OpaqueTag(confirmed.etag)

SelectsTheSameWay(stored, confirmed) ==
    confirmed.vary # None => confirmed.vary # Star /\ VaryNames(stored) = VaryNames(confirmed)

\* The fields of a 304 that replace stored ones: neither the hop-by-hop nor the
\* length, and the status line stays.
Mergeable == {"cc", "etag", "lm", "expires", "date", "age", "vary", "cookie", "location"}

MergedField(stored, confirmed, f) ==
    IF f = "cookie" THEN stored.cookie \/ confirmed.cookie
    ELSE IF f \in Mergeable /\ confirmed[f] # None THEN confirmed[f] ELSE stored[f]

\* CacheEntry::refreshed; "born" is a ghost, see Heads.
Refreshed(entry, confirmed, requested, received, born) ==
    [entry EXCEPT !.head = [f \in DOMAIN @ |-> MergedField(@, confirmed, f)],
                  !.requested = requested, !.received = received, !.born = born]

-----------------------------------------------------------------------------
(* The exchange. *)

\* The head of an answer that left its origin at time "sent" after "held" more
\* seconds in caches on the way.  Dates are the origin's, an unreadable Expires
\* is the epoch.
HeadOf(ans, sent, held) ==
    [status |-> ans.status, cc |-> ans.cc, etag |-> ans.etag, lm |-> ans.lm,
     expires |-> IF ans.ttl = None THEN None ELSE sent - held + ans.ttl,
     date |-> IF ans.dated THEN sent - held ELSE None,
     age |-> IF ans.aged THEN held ELSE None,
     vary |-> ans.vary, cookie |-> ans.cookie, length |-> ans.length, location |-> ans.location]

Init ==
    /\ store = EmptyStore
    /\ exchange = [x \in Callers |-> None]
    /\ served = [x \in Callers |-> None]
    /\ time = 0

Safe == {"GET", "HEAD", "OPTIONS", "TRACE"}

\* to_response and revalidated: a stored response, stamped with its age.
Served(x, entry, req, how) ==
    served' = [served EXCEPT ![x] = [entry |-> entry, req |-> req, at |-> time, how |-> how,
                                     age |-> CurrentAge(entry, time)]]

\* before
Before(x, req) ==
    LET found == Select(store, req)
        bypass == req.owned \/ req.method # "GET" \/ Has(req.cc, "no-store")
        open(kind, entry) == [phase |-> "sent", kind |-> kind, req |-> req, requested |-> time,
                              revalidating |-> entry]
    IN  /\ exchange[x] = None
        /\ store.tick < MaxTick
        /\ \/ /\ bypass
              /\ exchange' = [exchange EXCEPT ![x] =
                     open(IF req.method \in Safe THEN "aside" ELSE "invalidate", None)]
              /\ UNCHANGED <<store, served>>
           \/ /\ ~bypass
              /\ store' = Touched(store, req.key)
              /\ IF found # None /\ IsFresh(found, time) /\ ~ForcesRevalidation(req)
                 THEN /\ Served(x, found, req, "hit")
                      /\ UNCHANGED exchange
                 ELSE /\ exchange' = [exchange EXCEPT ![x] =
                             open("store", IF found # None /\ HasValidator(found.head) THEN found ELSE None)]
                      /\ UNCHANGED served
        /\ UNCHANGED time

\* The target and the same-origin targets the response names.
Invalidated(req, ans) ==
    {req.key} \cup {k \in Keys : k = ans.location /\ Origin[k] = Origin[req.key]}

\* after, for a request the cache stood aside from.
AfterAside(x, ans) ==
    /\ exchange[x] # None /\ exchange[x].phase = "sent" /\ exchange[x].kind # "store"
    /\ store' = IF exchange[x].kind = "invalidate" /\ ans.status < 400
                THEN FoldSet(LAMBDA k, st : Removed(st, k), store, Invalidated(exchange[x].req, ans))
                ELSE store
    /\ exchange' = [exchange EXCEPT ![x] = None]
    /\ UNCHANGED <<served, time>>

Revalidates(ex, head) ==
    /\ ex.revalidating # None
    /\ head.status = 304
    /\ ValidatorsAgree(ex.revalidating.head, head)
    /\ SelectsTheSameWay(ex.revalidating.head, head)

\* after, for a 304 about the stored entry: merged, judged again, and served
\* whether it is kept or not.
AfterRevalidation(x, ans, sent, held) ==
    LET ex == exchange[x]
        head == HeadOf(ans, sent, held)
        entry == Refreshed(ex.revalidating, head, ex.requested, time, sent - held)
    IN  /\ ex # None /\ ex.phase = "sent" /\ ex.kind = "store"
        /\ Revalidates(ex, head)
        /\ store' = IF Storable(ex.req, entry.head) THEN Put(store, ex.req.key, entry)
                    ELSE Removed(store, ex.req.key)
        /\ Served(x, entry, ex.req, "304")
        /\ exchange' = [exchange EXCEPT ![x] = None]
        /\ UNCHANGED time

\* after, for anything else: refused, too long, or recorded from here on.
AfterResponse(x, ans, sent, held) ==
    LET ex == exchange[x]
        head == HeadOf(ans, sent, held)
    IN  /\ ex # None /\ ex.phase = "sent" /\ ex.kind = "store"
        /\ ~Revalidates(ex, head)
        /\ IF ~Storable(ex.req, head)
           THEN /\ store' = IF Has(head.cc, "no-store") \/ ex.revalidating # None
                            THEN Removed(store, ex.req.key) ELSE store
                /\ exchange' = [exchange EXCEPT ![x] = None]
           ELSE /\ exchange' = [exchange EXCEPT ![x] =
                       IF head.length # None /\ head.length > MaxBody THEN None
                       ELSE [phase |-> "reading", req |-> ex.req, head |-> head, requested |-> ex.requested,
                             received |-> time, born |-> sent - held, left |-> ans.chunks, buffered |-> 0]]
                /\ UNCHANGED store
        /\ UNCHANGED <<served, time>>

\* Recording::poll_next: one chunk; past the budget nothing more is recorded.
ReadChunk(x) ==
    LET ex == exchange[x]
        total == ex.buffered + Head(ex.left)
    IN  /\ ex # None /\ ex.phase = "reading" /\ ex.left # <<>>
        /\ exchange' = [exchange EXCEPT ![x] =
               IF total > MaxBody THEN None ELSE [ex EXCEPT !.buffered = total, !.left = Tail(@)]]
        /\ UNCHANGED <<store, served, time>>

\* The end of the body: stored if it is as long as it said.
EndBody(x) ==
    LET ex == exchange[x]
        entry == [head |-> ex.head, selector |-> SelectorOf(VaryNames(ex.head), ex.req),
                  body |-> [size |-> ex.buffered, etag |-> ex.head.etag, req |-> ex.req],
                  requested |-> ex.requested, received |-> ex.received, born |-> ex.born]
    IN  /\ ex # None /\ ex.phase = "reading" /\ ex.left = <<>>
        /\ store' = IF ex.head.length \in {None, ex.buffered} THEN Put(store, ex.req.key, entry) ELSE store
        /\ exchange' = [exchange EXCEPT ![x] = None]
        /\ UNCHANGED <<served, time>>

\* The request fails, the body fails, or the caller drops it.
GiveUp(x) ==
    /\ exchange[x] # None
    /\ exchange' = [exchange EXCEPT ![x] = None]
    /\ UNCHANGED <<store, served, time>>

Tick ==
    /\ time < MaxTime
    /\ time' = time + 1
    /\ UNCHANGED <<store, exchange, served>>

Next ==
    \/ \E x \in Callers :
          \/ \E req \in Requests : Before(x, req)
          \/ \E ans \in Answers : AfterAside(x, ans)
          \/ /\ exchange[x] # None /\ exchange[x].phase = "sent"
             /\ \E ans \in Answers, sent \in exchange[x].requested..time, held \in 0..1 :
                   /\ held > 0 => ans.dated \/ ans.aged
                   /\ \/ AfterRevalidation(x, ans, sent, held)
                      \/ AfterResponse(x, ans, sent, held)
          \/ ReadChunk(x)
          \/ EndBody(x)
          \/ GiveUp(x)
    \/ Tick

Spec == Init /\ [][Next]_vars

-----------------------------------------------------------------------------

Stored == UNION {UNION {Range(store.shards[s].records[k].variants) : k \in DOMAIN store.shards[s].records}
                 : s \in Shards}

\* The shards' byte counts, kept by hand through replacements, refusals,
\* removals and purges, are what the records weigh and within the budget, and a
\* key holds one variant for each selection (storage.rs).
BytesExact == StoreSound(store)

\* Whatever is stored, by a response or by a 304 merged into it, is something
\* the origin lets this cache keep, whole, under the tag its body came with and
\* selected by the request that fetched that body (after, refreshed, Recording).
StoredHonestly ==
    \A e \in Stored :
        /\ ~Has(e.head.cc, "no-store") /\ ~e.head.cookie
        /\ Has(e.head.cc, "private") => StorePrivate
        /\ e.head.length \in {None, e.body.size} /\ e.body.size <= MaxBody
        /\ e.body.etag # None => OpaqueTag(e.head.etag) = OpaqueTag(e.body.etag)
        /\ e.selector = SelectorOf(VaryNames(e.head), e.body.req)

\* A stored response goes only to a request alike the one it was fetched for in
\* what the origin selects by, and never passes for younger than it is, counted
\* from when it left the origin; served without asking, it is within the lifetime
\* it was given (before, current_age, is_fresh, stamp).
HitsHonest ==
    \A x \in Callers :
        LET hit == served[x]
        IN  hit # None =>
                /\ \A n \in VaryNames(hit.entry.head) : hit.entry.body.req[n] = hit.req[n]
                /\ hit.age >= hit.at - hit.entry.born
                /\ hit.how = "hit" =>
                      /\ 10 * (hit.at - hit.entry.born) < Lifetime(hit.entry)
                      /\ ~Has(hit.entry.head.cc, "no-cache") /\ ~RequestNoCache(hit.req)

=============================================================================
