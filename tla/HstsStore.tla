----------------------------- MODULE HstsStore -----------------------------
(***************************************************************************)
(* HTTP Strict Transport Security (chromulate-http/src/hsts.rs,            *)
(* hsts/preload.rs): what responses have taught the store, bounded by a    *)
(* capacity, beside the compiled-in preload table, which is searched.      *)
(*                                                                         *)
(* A host is the sequence of its labels from the right (module HostNames); *)
(* as a caller spells it, it may begin with the empty root label or hold   *)
(* an empty label elsewhere.  Names are taken to be in lower case.         *)
(***************************************************************************)
EXTENDS HostNames, FiniteSets, FiniteSetsExt, Functions, TLC

CONSTANTS
    None,
    Spellings,    \* the hosts callers ask about, as they spell them
    Speakers,     \* the hosts that send the header
    Headers,      \* Strict-Transport-Security values: sequences of [name, arg] tokens,
                  \* an argument being a number, None or Unparsed
    Preload,      \* the preload table: a sequence of [name, sub] sorted by Rank
    Rank,         \* a name's place in the byte order
    Capacity,
    MaxTime,
    LastInstant,  \* the latest time a SystemTime can hold
    FarFuture     \* far_future()

VARIABLES
    hosts,    \* host -> [expires, sub]
    now,
    said,     \* ghost: what each host last said over TLS, never evicted
    crowded   \* ghost: more policies have been live at once than fit

vars == <<hosts, now, said, crowded>>

-----------------------------------------------------------------------------

\* canonical_name: one trailing root label goes, any other empty label refuses.
CanonicalName(host) ==
    LET name == IF Head(host) = "" THEN Tail(host) ELSE host
    IN  IF name = <<>> \/ "" \in Range(name) THEN None ELSE name

Unparsed == -1

\* parse: the last max-age counts, even one that does not parse; one without an
\* argument refuses the header.
ParseSts(value) ==
    LET ages == {i \in DOMAIN value : value[i].name = "max-age"}
        age == IF ages = {} THEN None ELSE value[Max(ages)].arg
    IN  IF age \in {None, Unparsed} \/ \E i \in ages : value[i].arg = None THEN None
        ELSE [max_age |-> age, sub |-> \E i \in DOMAIN value : value[i].name = "includeSubDomains"]

Expiry(max_age) == IF now + max_age <= LastInstant THEN now + max_age ELSE FarFuture

\* evict: the expired, then the soonest to expire; which of equals is left open.
Evict(known) ==
    IF Cardinality(DOMAIN known) <= Capacity THEN {known}
    ELSE LET live == {h \in DOMAIN known : known[h].expires > now}
             over == Max({0, Cardinality(live) - Capacity})
         IN  {Restrict(known, live \ gone) :
                 gone \in {G \in kSubset(over, live) :
                     \A g \in G, h \in live \ G : known[g].expires <= known[h].expires}}

\* Chromulate's binary search of the table, between two bounds.
LookupBetween[bounds \in (0..Len(Preload)) \X (0..Len(Preload)), rank \in Nat] ==
    LET low == bounds[1]
        high == bounds[2]
        middle == low + (high - low) \div 2
        found == Preload[middle + 1]
    IN  IF low >= high THEN None
        ELSE IF Rank[found.name] < rank THEN LookupBetween[<<middle + 1, high>>, rank]
        ELSE IF Rank[found.name] > rank THEN LookupBetween[<<low, middle>>, rank]
        ELSE [sub |-> found.sub]

Lookup(name) == LookupBetween[<<0, Len(Preload)>>, Rank[name]]

\* The ancestors the walk visits, nearest first in the code.
Parents(name) == {SubSeq(name, 1, n) : n \in 1..(Len(name) - 1)}

\* covers, for a name already in canonical form.
PreloadCovers(name) ==
    \/ Lookup(name) # None
    \/ \E p \in Parents(name) : Lookup(p) = [sub |-> TRUE]

\* The two dynamic lookups of applies_to, over any table of policies.
Demands(known, name) ==
    \/ name \in DOMAIN known /\ known[name].expires > now
    \/ \E p \in Parents(name) \cap DOMAIN known : known[p].sub /\ known[p].expires > now

AppliesTo(host) ==
    LET name == CanonicalName(host)
    IN  /\ name # None
        /\ ~IsIpLiteral(name)
        /\ Demands(hosts, name) \/ PreloadCovers(name)

\* upgrade: url::set_scheme drops the port that is the new scheme's own.
Upgrade(url) ==
    IF url.scheme = "http" /\ AppliesTo(url.host)
    THEN [url EXCEPT !.scheme = "https", !.port = IF @ \in {80, 443} THEN None ELSE @]
    ELSE url

-----------------------------------------------------------------------------

Init ==
    /\ hosts = <<>>
    /\ now = 0
    /\ said = <<>>
    /\ crowded = FALSE

Live(known) == {h \in DOMAIN known : known[h].expires > now}

\* Mutant: a policy is taken from a plaintext response.
RecordPlain(host, value, over_tls) ==
    LET name == CanonicalName(host)
        d == ParseSts(value)
        policy == [expires |-> Expiry(d.max_age), sub |-> d.sub]
    IN  /\ name # None /\ ~IsIpLiteral(name) /\ d # None /\ d.max_age # 0
        /\ hosts' \in Evict((name :> policy) @@ hosts)
        /\ said' = IF over_tls THEN (name :> policy) @@ said ELSE said
        /\ crowded' = (crowded \/ Cardinality(Live(said')) > Capacity)
        /\ UNCHANGED now

\* record
Record(host, value, over_tls) ==
    LET name == CanonicalName(host)
        d == ParseSts(value)
        policy == [expires |-> Expiry(d.max_age), sub |-> d.sub]
        without(known) == Restrict(known, DOMAIN known \ {name})
    IN  /\ over_tls /\ name # None /\ ~IsIpLiteral(name) /\ d # None
        /\ IF d.max_age = 0
           THEN hosts' = without(hosts) /\ said' = without(said)
           ELSE hosts' \in Evict((name :> policy) @@ hosts) /\ said' = (name :> policy) @@ said
        /\ crowded' = (crowded \/ Cardinality(Live(said')) > Capacity)
        /\ UNCHANGED now

Tick ==
    /\ now < MaxTime
    /\ now' = now + 1
    /\ UNCHANGED <<hosts, said, crowded>>

Next ==
    \/ \E host \in Speakers, value \in Headers, over_tls \in BOOLEAN : Record(host, value, over_tls)
    \/ Tick

Spec == Init /\ [][Next]_vars

-----------------------------------------------------------------------------

\* The list as it is meant: a name of its own, or under one that includes its
\* subdomains.
Listed(name) ==
    \E i \in DOMAIN Preload :
        Preload[i].name = name \/ (Preload[i].sub /\ IsStrictPrefix(Preload[i].name, name))

\* A plaintext request is upgraded exactly when its host last demanded HTTPS
\* over TLS and the demand has not run out, or is below one that included it, or
\* is covered by the preload list, however the host is spelled; the bound on the
\* store loses a demand only when more are live than fit, and the store never
\* exceeds it (record, evict, applies_to, upgrade, covers).
DemandsRemembered ==
    /\ Cardinality(DOMAIN hosts) <= Capacity
    /\ \A host \in Spellings, port \in {None, 443, 8080} :
          LET name == CanonicalName(host)
              asked == name # None /\ ~IsIpLiteral(name) /\ (Demands(said, name) \/ Listed(name))
              url == Upgrade([scheme |-> "http", host |-> host, port |-> port])
          IN  /\ url.scheme = "https" => asked
              /\ ~crowded /\ asked =>
                    url = [scheme |-> "https", host |-> host, port |-> IF port = 443 THEN None ELSE port]
=============================================================================
