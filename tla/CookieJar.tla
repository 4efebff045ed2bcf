----------------------------- MODULE CookieJar -----------------------------
(***************************************************************************)
(* The cookie jar (chromulate-cookie/src/jar.rs, cookie.rs): buckets of    *)
(* cookies by site, each with an index from a cookie's identity to its     *)
(* position, a hand-kept total, two counters that order creation and use,  *)
(* and the rules by which a Set-Cookie is accepted and a cookie is sent.   *)
(*                                                                         *)
(* A store, an import and an export hold the lock for one step.  A lookup  *)
(* holds the read lock, so that lookups overlap: it takes its use number   *)
(* in one step and stamps the cookies it serves in another.                *)
(***************************************************************************)
EXTENDS HostNames, FiniteSets, FiniteSetsExt, Functions, TLC

CONSTANTS
    Callers,      \* concurrent lookups
    None,         \* an absent attribute, no expiry
    Urls,         \* [host, path, secure]
    Contexts,     \* CookieContext: [initiator: a host or None, top: BOOLEAN]
    Responses,    \* the Set-Cookie headers a response may carry: sequences of SetCookie
    Snapshots,    \* hand-written snapshots for import: sequences of cookies with sequence numbers
    PerDomain,    \* JarLimits::per_domain
    Total,        \* JarLimits::total
    MaxLifetime,  \* MAX_COOKIE_LIFETIME
    MaxTime,      \* bound on the clock
    SeqSize,      \* where the counters wrap (2^64 in the code)
    MaxSeq        \* bound on the counters

VARIABLES
    jar,      \* Store and the two counters: [sites, total, creation, access]
    lookups,  \* caller -> the lookup it is in the middle of, or None
    clock

vars == <<jar, lookups, clock>>

NoBucket == [entries |-> <<>>, index |-> <<>>]
Empty == [sites |-> <<>>, total |-> 0, creation |-> 0, access |-> 0]

PurgeTarget == Total - Total \div 10
DomainPurgeTarget == PerDomain - PerDomain \div 6

Wrap(n) == n % SeqSize

-----------------------------------------------------------------------------
(* One cookie. *)

\* A name is [prefix, id] with prefix "host", "secure" or "".
KeepsNamePrefixPromise(name, secure, hostOnly, path) ==
    CASE name.prefix = "host"   -> secure /\ hostOnly /\ path = Root
      [] name.prefix = "secure" -> secure
      [] OTHER                  -> TRUE

\* Cookie::parse on the header's attributes: name, domain, path, secure,
\* same_site, max_age and expires, each None where absent.
ResolvedExpiry(h, now) ==
    LET cap == now + MaxLifetime
    IN  IF h.max_age # None
        THEN IF h.max_age <= 0 THEN now ELSE Min({now + h.max_age, cap})
        ELSE IF h.expires # None THEN Min({h.expires, cap}) ELSE None

ParsedDomain(h, host) == IF h.domain = None THEN host ELSE h.domain

DomainAccepted(h, host) ==
    \/ h.domain = None
    \/ IsIpLiteral(host) /\ h.domain = host
    \/ ~IsIpLiteral(host) /\ ~IsPublicSuffix(h.domain) /\ DomainMatches(host, h.domain)

ParsedPath(h, url) == IF h.path = None THEN DefaultPath(url.path) ELSE h.path

ParsedSameSite(h) == IF h.same_site = None THEN "lax" ELSE h.same_site

Accepted(h, url) ==
    /\ DomainAccepted(h, url.host)
    /\ ParsedSameSite(h) = "none" => h.secure
    /\ h.name.prefix # "" =>
          /\ url.secure
          /\ KeepsNamePrefixPromise(h.name, h.secure, h.domain = None, ParsedPath(h, url))

\* "by" is a ghost: the URL whose response set the cookie, None if imported.
Parse(h, url, now) ==
    [name |-> h.name, domain |-> ParsedDomain(h, url.host),
     host_only |-> h.domain = None \/ IsIpLiteral(url.host),
     path |-> ParsedPath(h, url), secure |-> h.secure,
     same_site |-> ParsedSameSite(h), expires |-> ResolvedExpiry(h, now), by |-> url]

IsExpired(c, now) == c.expires # None /\ c.expires <= now

AppliesTo(c, url) ==
    /\ c.secure => url.secure
    /\ IF c.host_only THEN url.host = c.domain ELSE DomainMatches(url.host, c.domain)
    /\ PathMatches(url.path, c.path)

SameSiteEligible(c, host, context) ==
    LET same == context.initiator # None /\ IsSameSite(context.initiator, host)
    IN  CASE c.same_site = "none"   -> TRUE
          [] c.same_site = "lax"    -> same \/ context.top
          [] c.same_site = "strict" -> same

-----------------------------------------------------------------------------
(* Buckets.  An entry is [cookie, creation, access]. *)

Identity(c) == <<c.name, c.domain, c.path>>

PositionOf(b, id) == IF id \in DOMAIN b.index THEN b.index[id] ELSE 0

PushEntry(b, e) ==
    [entries |-> Append(b.entries, e),
     index |-> (Identity(e.cookie) :> Len(b.entries) + 1) @@ b.index]

ReplaceEntry(b, i, e) == [b EXCEPT !.entries[i] = e]

\* Mutant: the entry moved into the gap keeps its old position in the index.
UnrepairedRemove(b, i) ==
    LET last == Last(b.entries)
        id == Identity(b.entries[i].cookie)
    IN  [entries |-> Front(IF i = Len(b.entries) THEN b.entries
                           ELSE ReplaceAt(b.entries, i, last)),
         index |-> Restrict(b.index, DOMAIN b.index \ {id})]

\* Bucket::remove: swap_remove, and the index repaired for the entry moved.
RemoveEntry(b, i) ==
    LET last == Last(b.entries)
        id == Identity(b.entries[i].cookie)
        left == Restrict(b.index, DOMAIN b.index \ {id})
    IN  IF i = Len(b.entries) THEN [entries |-> Front(b.entries), index |-> left]
        ELSE [entries |-> Front(ReplaceAt(b.entries, i, last)),
              index |-> (Identity(last.cookie) :> i) @@ left]

\* Bucket::remove_all: what is kept moves up and is indexed afresh.
RemoveAll(b, positions) ==
    LET order == SetToSortSeq(DOMAIN b.entries \ positions, <)
        entries == [n \in DOMAIN order |-> b.entries[order[n]]]
    IN  [entries |-> entries,
         index |-> [id \in {Identity(e.cookie) : e \in Range(entries)} |->
                       CHOOSE n \in DOMAIN entries : Identity(entries[n].cookie) = id]]

RemoveExpired(b, now) ==
    RemoveAll(b, {i \in DOMAIN b.entries : IsExpired(b.entries[i].cookie, now)})

\* Bucket::trim_to: the least recently used go; which of equals is left open.
TrimTo(b, keep) ==
    IF Len(b.entries) <= keep THEN {b}
    ELSE {RemoveAll(b, DOMAIN b.entries \ kept) :
             kept \in {K \in kSubset(keep, DOMAIN b.entries) :
                 \A i \in K, j \in DOMAIN b.entries \ K :
                     b.entries[i].access >= b.entries[j].access}}

-----------------------------------------------------------------------------
(* The store. *)

BucketOf(st, site) == IF site \in DOMAIN st.sites THEN st.sites[site] ELSE NoBucket

\* Store::with_site, once the change has made the site's bucket b.
WithSite(st, site, b) ==
    [st EXCEPT !.total = @ - Len(BucketOf(st, site).entries) + Len(b.entries),
               !.sites = IF b.entries = <<>> THEN Restrict(@, DOMAIN @ \ {site})
                         ELSE (site :> b) @@ @]

\* Where every entry of the store is.
Places(st) == UNION {{<<site, i>> : i \in DOMAIN st.sites[site].entries} : site \in DOMAIN st.sites}
EntryAt(st, place) == st.sites[place[1]].entries[place[2]]

\* rank_for_eviction, as an order: an expired entry before a live one, then by use.
GoesBefore(d, e, now) ==
    LET dead(x) == IsExpired(x.cookie, now)
    IN  \/ dead(d) /\ ~dead(e)
        \/ dead(d) = dead(e) /\ d.access <= e.access

\* Store::enforce_total: over the cap, down to the target in one pass.
EnforceTotal(st, now) ==
    IF st.total <= Total THEN {st}
    ELSE {FoldSet(LAMBDA site, acc :
                     WithSite(acc, site,
                              RemoveAll(BucketOf(acc, site), {p[2] : p \in {q \in doomed : q[1] = site}})),
                  st, {p[1] : p \in doomed}) :
             doomed \in {D \in kSubset(st.total - PurgeTarget, Places(st)) :
                 \A p \in D, q \in Places(st) \ D :
                     GoesBefore(EntryAt(st, p), EntryAt(st, q), now)}}

\* apply_set_cookie: a Secure cookie is out of a plaintext response's reach, an
\* expired one is a deletion, and a replacement keeps its place in the order.
ApplySetCookie(st, c, secure, now) ==
    LET site == SiteOf(c.domain)
        b == BucketOf(st, site)
        at == PositionOf(b, Identity(c))
        used == [st EXCEPT !.access = Wrap(@ + 1)]
    IN  IF at # 0 /\ b.entries[at].cookie.secure /\ ~secure THEN st
        ELSE IF IsExpired(c, now)
        THEN IF at = 0 THEN st ELSE WithSite(st, site, RemoveEntry(b, at))
        ELSE IF at # 0
        THEN WithSite(used, site, ReplaceEntry(b, at, [cookie |-> c, creation |-> b.entries[at].creation,
                                                       access |-> st.access]))
        ELSE WithSite([used EXCEPT !.creation = Wrap(@ + 1)], site,
                      PushEntry(b, [cookie |-> c, creation |-> st.creation, access |-> st.access]))

\* A bucket past its bound loses what has expired, then what is least used.
Tidied(st, site, bound, target, now) ==
    IF Len(BucketOf(st, site).entries) <= bound THEN {st}
    ELSE {WithSite(st, site, b) : b \in TrimTo(RemoveExpired(BucketOf(st, site), now), target)}

\* The loop body of store(): one Set-Cookie, and the trim at twice the cap.
StoreOne(st, h, url, now) ==
    IF ~Accepted(h, url) THEN {st}
    ELSE LET c == Parse(h, url, now)
         IN  Tidied(ApplySetCookie(st, c, url.secure, now), SiteOf(c.domain),
                    2 * PerDomain, PerDomain, now)

\* CookieStore::store, as the set of its outcomes.  Every cookie of a response
\* lands in the bucket of its host's site.
Stored(st, headers, url, now) ==
    LET applied == FoldLeft(LAMBDA S, h : UNION {StoreOne(s, h, url, now) : s \in S},
                            {st}, headers)
        tidied == UNION {Tidied(s, SiteOf(url.host), PerDomain, DomainPurgeTarget, now) : s \in applied}
    IN  UNION {EnforceTotal(s, now) : s \in tidied}

\* A record that is expired, unrepresentable or breaks its prefix is dropped.
Importable(r, now) ==
    /\ ~IsExpired(r.cookie, now)
    /\ r.representable
    /\ KeepsNamePrefixPromise(r.cookie.name, r.cookie.secure, r.cookie.host_only, r.cookie.path)

\* The loop body of import(): the counters move past the record's numbers,
\* saturating, and the record replaces a cookie of its identity outright.
ImportOne(st, r, now) ==
    LET site == SiteOf(r.cookie.domain)
        b == BucketOf(st, site)
        at == PositionOf(b, Identity(r.cookie))
        past(n) == Min({n + 1, SeqSize - 1})
    IN  IF ~Importable(r, now) THEN st
        ELSE WithSite([st EXCEPT !.creation = Max({@, past(r.creation)}),
                                 !.access = Max({@, past(r.access)})],
                      site, PushEntry(IF at = 0 THEN b ELSE RemoveEntry(b, at),
                                      [cookie |-> r.cookie, creation |-> r.creation, access |-> r.access]))

\* Store::tidy_every_site, with its recount.
TidyEverySite(st, now) ==
    LET buckets == {f \in [DOMAIN st.sites ->
                               UNION {TrimTo(RemoveExpired(st.sites[s], now), PerDomain) : s \in DOMAIN st.sites}] :
                       \A s \in DOMAIN f : f[s] \in TrimTo(RemoveExpired(st.sites[s], now), PerDomain)}
    IN  {[st EXCEPT !.sites = Restrict(f, {s \in DOMAIN f : f[s] # NoBucket}),
                    !.total = SumFunction([s \in DOMAIN f |-> Len(f[s].entries)])] : f \in buckets}

\* Jar::import, as the set of its outcomes.
Imported(st, records, now) ==
    LET merged == FoldLeft(LAMBDA acc, r : ImportOne(acc, r, now), st, records)
    IN  UNION {EnforceTotal(s, now) : s \in TidyEverySite(merged, now)}

\* Jar::export: the records of every live cookie, in no order.
Exported(st, now) ==
    {[cookie |-> e.cookie, creation |-> e.creation, access |-> e.access, representable |-> TRUE] :
        e \in {EntryAt(st, p) : p \in {q \in Places(st) : ~IsExpired(EntryAt(st, q).cookie, now)}}}

\* What cookies_for serves, by position in the bucket of the site.
Matches(st, url, context, now) ==
    LET b == BucketOf(st, SiteOf(url.host))
    IN  {i \in DOMAIN b.entries :
            LET c == b.entries[i].cookie
            IN  ~IsExpired(c, now) /\ AppliesTo(c, url) /\ SameSiteEligible(c, url.host, context)}

-----------------------------------------------------------------------------

Init ==
    /\ jar = Empty
    /\ lookups = [k \in Callers |-> None]
    /\ clock = 0

Idle == \A k \in Callers : lookups[k] = None

\* CookieStore::store under the write lock.
Store(url, headers) ==
    /\ Idle
    /\ jar.creation < MaxSeq /\ jar.access < MaxSeq
    /\ jar' \in Stored(jar, headers, url, clock)
    /\ UNCHANGED <<lookups, clock>>

\* Jar::import under the write lock.
ImportSnapshot(records) ==
    /\ Idle
    /\ jar' \in Imported(jar, records, clock)
    /\ UNCHANGED <<lookups, clock>>

\* CookieStore::cookies_for: the use number, taken once for all it serves ...
StartLookup(k, url, context) ==
    LET served == Matches(jar, url, context, clock)
    IN  /\ lookups[k] = None
        /\ served # {}
        /\ jar.access < MaxSeq
        /\ lookups' = [lookups EXCEPT ![k] = [site |-> SiteOf(url.host), served |-> served,
                                              access |-> jar.access]]
        /\ jar' = [jar EXCEPT !.access = Wrap(@ + 1)]
        /\ UNCHANGED clock

\* ... and stamped on each, while other lookups do the same.
FinishLookup(k) ==
    /\ lookups[k] # None
    /\ jar' = [jar EXCEPT !.sites[lookups[k].site].entries =
                   [i \in DOMAIN @ |-> IF i \in lookups[k].served
                                       THEN [@[i] EXCEPT !.access = lookups[k].access] ELSE @[i]]]
    /\ lookups' = [lookups EXCEPT ![k] = None]
    /\ UNCHANGED clock

Tick ==
    /\ clock < MaxTime
    /\ clock' = clock + 1
    /\ UNCHANGED <<jar, lookups>>

Next ==
    \/ \E url \in Urls, headers \in Responses : Store(url, headers)
    \/ \E records \in Snapshots : ImportSnapshot(records)
    \/ \E k \in Callers :
          \/ \E url \in Urls, context \in Contexts : StartLookup(k, url, context)
          \/ FinishLookup(k)
    \/ Tick

Spec == Init /\ [][Next]_vars

-----------------------------------------------------------------------------

\* Through any sequence of stores, deletions, trims, purges and imports the
\* index of a bucket names every cookie's position exactly, the total is the
\* sum of the buckets, no bucket is kept empty and neither cap is exceeded at
\* rest (Bucket, Store::with_site, enforce_total).
JarConsistent ==
    /\ \A site \in DOMAIN jar.sites :
          LET b == jar.sites[site]
          IN  /\ Len(b.entries) \in 1..PerDomain
              /\ DOMAIN b.index = {Identity(e.cookie) : e \in Range(b.entries)}
              /\ \A i \in DOMAIN b.entries : b.index[Identity(b.entries[i].cookie)] = i
    /\ jar.total = Cardinality(Places(jar))
    /\ jar.total <= Total

\* Whatever the jar sends came from the same site; a host-only cookie goes back
\* to its host alone; a Secure one never in plaintext; and a prefixed one was
\* set over TLS, "__Host-" by that very host (Cookie::parse, applies_to).
CookiesKeptApart ==
    \A url \in Urls, context \in Contexts :
        \A i \in Matches(jar, url, context, clock) :
            LET c == BucketOf(jar, SiteOf(url.host)).entries[i].cookie
            IN  /\ c.secure => url.secure
                /\ c.name.prefix = "host" => c.domain = url.host
                /\ c.by # None =>
                      /\ IsSameSite(c.by.host, url.host)
                      /\ c.host_only => c.by.host = url.host
                      /\ c.name.prefix # "" => c.by.secure /\ c.secure

\* A plaintext response neither overwrites nor deletes a Secure cookie, as long
\* as it does not overflow the jar (apply_set_cookie).
SecureLeftAlone ==
    \A url \in Urls, headers \in Responses :
        LET room == /\ Len(BucketOf(jar, SiteOf(url.host)).entries) + Len(headers) <= PerDomain
                    /\ jar.total + Len(headers) <= Total
            secured(st) == {e.cookie : e \in {f \in {EntryAt(st, p) : p \in Places(st)} : f.cookie.secure}}
        IN  ~url.secure /\ room =>
                \A st \in Stored(jar, headers, url, clock) : secured(jar) \subseteq secured(st)

\* An export imported into an empty jar restores every live cookie with its
\* place in both orders (Jar::export, Jar::import).
SnapshotRestores ==
    LET live == Exported(jar, clock)
    IN  \A st \in Imported(Empty, SetToSeq(live), clock) :
            /\ Exported(st, clock) = live
            /\ \A r \in live : r.creation < SeqSize - 1 => r.creation < st.creation
=============================================================================
