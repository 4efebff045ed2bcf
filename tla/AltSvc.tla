------------------------------- MODULE AltSvc -------------------------------
(***************************************************************************)
(* Remembered alternative services (chromulate-h3/src/alt_svc.rs).         *)
(*                                                                         *)
(* An origin is [host, secure].  A field is Withdrawn or a sequence of     *)
(* elements; an element is None where it does not parse, and otherwise     *)
(* [protocol, host, port, params], its parameters being [name, value]      *)
(* pairs whose value is None where it is not a number.                     *)
(***************************************************************************)
EXTENDS Integers, Sequences, SequencesExt, FiniteSets, FiniteSetsExt, Functions, TLC

CONSTANTS
    Origins, None, Withdrawn, Fields,
    DefaultMaxAge,
    Capacity, MaxTime,
    LastInstant   \* the latest time a SystemTime can hold

VARIABLES
    entries,   \* origin -> sequence of [alternative, expires]
    now,
    said,      \* ghost: what each origin last advertised, never evicted
    crowded    \* ghost: more origins have had something live than fit

vars == <<entries, now, said, crowded>>

\* parse_alt_value: the last ma that parses, the last persist.
ParseAltValue(element) ==
    LET named(name) == {i \in DOMAIN element.params : element.params[i].name = name}
        ages == {i \in named("ma") : element.params[i].value # None}
    IN  [protocol |-> element.protocol, host |-> element.host, port |-> element.port,
         max_age |-> IF ages = {} THEN DefaultMaxAge ELSE element.params[Max(ages)].value,
         persist |-> named("persist") # {} /\ element.params[Max(named("persist"))].value = 1]

\* AltSvc::parse: what cannot be used is dropped and the rest is kept.
ParseField(field) ==
    IF field = Withdrawn THEN <<>>
    ELSE LET usable == SelectSeq(field, LAMBDA e : e # None)
         IN  [i \in DOMAIN usable |-> ParseAltValue(usable[i])]

\* A lifetime past the last instant drops its alternative.
Cached(field) ==
    LET fits == SelectSeq(ParseField(field), LAMBDA a : now + a.max_age <= LastInstant)
    IN  [i \in DOMAIN fits |-> [alternative |-> fits[i], expires |-> now + fits[i].max_age]]

IsLive(entry) == entry.expires > now

LiveOf(list) == SelectSeq(list, IsLive)

\* purge_expired
Purged(known) ==
    LET live == [o \in DOMAIN known |-> LiveOf(known[o])]
    IN  Restrict(live, {o \in DOMAIN live : live[o] # <<>>})

Soonest(list) == Min({list[i].expires : i \in DOMAIN list})

\* Mutant: room is made for an origin that is already there.
MakeAnyRoom(known, origin) ==
    IF Cardinality(DOMAIN known) < Capacity THEN {known}
    ELSE {Restrict(Purged(known), DOMAIN Purged(known) \ {gone}) :
             gone \in {o \in DOMAIN Purged(known) :
                 \A p \in DOMAIN Purged(known) : Soonest(Purged(known)[o]) <= Soonest(Purged(known)[p])}}

\* make_room_for: the expired first, then the soonest to expire.
MakeRoomFor(known, origin) ==
    LET purged == Purged(known)
    IN  IF Cardinality(DOMAIN known) < Capacity \/ origin \in DOMAIN known THEN {known}
        ELSE IF Cardinality(DOMAIN purged) < Capacity THEN {purged}
        ELSE {Restrict(purged, DOMAIN purged \ {gone}) :
                 gone \in {o \in DOMAIN purged : \A p \in DOMAIN purged : Soonest(purged[o]) <= Soonest(purged[p])}}

\* h3_alternative: the first live one, in the order of the field.
H3Alternative(known, origin) ==
    LET list == IF origin \in DOMAIN known THEN known[origin] ELSE <<>>
        offers == {i \in DOMAIN list : IsLive(list[i]) /\ list[i].alternative.protocol = "h3"}
    IN  IF offers = {} THEN None ELSE list[Min(offers)]

-----------------------------------------------------------------------------

Init ==
    /\ entries = <<>>
    /\ now = 0
    /\ said = [o \in Origins |-> <<>>]
    /\ crowded = FALSE

Crowd(known) == {o \in DOMAIN known : LiveOf(known[o]) # <<>>}

\* record: the field replaces what was advertised before.
Record(origin, field) ==
    LET cached == Cached(field)
    IN  /\ origin.secure
        /\ IF cached = <<>> THEN entries' = Restrict(entries, DOMAIN entries \ {origin})
           ELSE \E room \in MakeRoomFor(entries, origin) : entries' = (origin :> cached) @@ room
        /\ said' = [said EXCEPT ![origin] = cached]
        /\ crowded' = (crowded \/ Cardinality(Crowd(said')) > Capacity)
        /\ UNCHANGED now

PurgeExpired ==
    /\ entries' = Purged(entries)
    /\ UNCHANGED <<now, said, crowded>>

Tick ==
    /\ now < MaxTime
    /\ now' = now + 1
    /\ UNCHANGED <<entries, said, crowded>>

Next ==
    \/ \E origin \in Origins, field \in Fields : Record(origin, field)
    \/ PurgeExpired
    \/ Tick

Spec == Init /\ [][Next]_vars

-----------------------------------------------------------------------------

\* The HTTP/3 alternative offered for an origin is the first live one of the
\* field it last sent over TLS; the cache forgets one only while more origins
\* have something live than it holds, and it never holds more (record,
\* make_room_for, h3_alternative).
OffersLatest ==
    /\ Cardinality(DOMAIN entries) <= Capacity
    /\ \A o \in Origins :
          /\ H3Alternative(entries, o) \in {None, H3Alternative(said, o)}
          /\ ~crowded => H3Alternative(entries, o) = H3Alternative(said, o)
          /\ o \in DOMAIN entries => o.secure /\ entries[o] # <<>>
=============================================================================
