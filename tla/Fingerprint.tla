---------------------------- MODULE Fingerprint ----------------------------
(***************************************************************************)
(* From a recorded browser capture to what one connection shows an         *)
(* observer: chromulate-fingerprint loads the capture, chromulate-profile  *)
(* names and registers it, chromulate-tls narrows it to what the linked    *)
(* provider implements, and chromulate-http narrows the HTTP/2 preface to  *)
(* what hyper can send.                                                    *)
(*                                                                         *)
(* Code points are numbers.  A random draw (the permutation of the         *)
(* extensions, the GREASE values) is a choice.  A fingerprint is the tuple *)
(* of its fields before they are joined and hashed: both are injective for *)
(* what the properties compare.                                            *)
(***************************************************************************)
EXTENDS Integers, Sequences, SequencesExt, FiniteSets

CONSTANTS
    Captures,        \* capture documents, as records
    ChromeTables,    \* the tables the shipped profile is written from
    PinLists,        \* pairs of pins a caller asks for, taken from its profile
    Names, Targets,  \* names registered under, and names aliased
    GreaseValues,    \* the GREASE values a draw may return
    Suites, Groups,  \* what the linked TLS provider implements
    None

VARIABLES
    registry,     \* registered name -> profile
    connection,   \* the last connection since, with all it was derived from
    failure       \* why the last capture or engine was refused, or None

vars == <<registry, connection, failure>>

ServerName == 0
Alpn == 16
PreSharedKey == 41
GreaseMark == -1      \* "GREASE" in a capture's list of code points
BadText == -2         \* a textual code point that does not parse
Tls12 == 771
Tls13 == 772
Versions == {769, 770, Tls12, Tls13}

(* 0x?A?A: both bytes equal, low nibble ten. *)
IsGrease(v) == v \div 256 = v % 256 /\ v % 16 = 10

WithoutGrease(s) == SelectSeq(s, LAMBDA v : ~IsGrease(v))

Ascending(S) == SetToSortSeq(S, <)

-----------------------------------------------------------------------------
(* Wire orders *)

Repeats(s) == \E i, j \in DOMAIN s : i < j /\ s[i] = s[j]

(* What WireExtensionOrder::new accepts. *)
ValidOrder(s) ==
    LET others == {i \in DOMAIN s : s[i] # PreSharedKey}
    IN  /\ ~Repeats(s)
        /\ \A i \in DOMAIN s : s[i] = PreSharedKey => i = Len(s)
        /\ \A i \in DOMAIN s : IsGrease(s[i]) =>
              i = 1 \/ (i \in others /\ \A j \in others : j <= i)

Without(s, id) == SelectSeq(s, LAMBDA v : v # id)

(* Mutant: the closing GREASE value follows `pre_shared_key`. *)
AssembleGreaseLast(spec, body, grease) ==
    (IF grease = <<>> THEN <<>> ELSE <<grease[1]>>)
    \o spec.first \o body \o spec.last
    \o (IF PreSharedKey \in spec.extensions THEN <<PreSharedKey>> ELSE <<>>)
    \o (IF grease = <<>> THEN <<>> ELSE <<grease[2]>>)

(* GREASE brackets the list, and `pre_shared_key` follows the bracket. *)
Assemble(spec, body, grease) ==
    (IF grease = <<>> THEN <<>> ELSE <<grease[1]>>)
    \o spec.first \o body \o spec.last
    \o (IF grease = <<>> THEN <<>> ELSE <<grease[2]>>)
    \o (IF PreSharedKey \in spec.extensions THEN <<PreSharedKey>> ELSE <<>>)

(* What ShufflePins::new accepts. *)
ValidPins(first, last) ==
    /\ ~Repeats(first \o last)
    /\ \A id \in ToSet(first \o last) : id # PreSharedKey /\ ~IsGrease(id)

(* All that is neither pinned nor `pre_shared_key` may move. *)
ShuffledBody(spec) ==
    spec.extensions \ ({PreSharedKey} \union ToSet(spec.first \o spec.last))

(* Two different values, since the second is a non-zero offset away. *)
DrawPair == {g \in GreaseValues \X GreaseValues : g[1] # g[2]}

WireExtensionOrders(spec) ==
    IF spec.order # None THEN {spec.order}
    ELSE {Assemble(spec, body, grease) :
            body \in SetToSeqs(ShuffledBody(spec)),
            grease \in IF "extensions" \in spec.grease THEN DrawPair ELSE {<<>>}}

ReferenceExtensionOrder(spec) ==
    IF spec.order # None THEN spec.order
    ELSE Assemble(spec, Ascending(ShuffledBody(spec)),
                  IF "extensions" \in spec.grease THEN <<2570, 6682>> ELSE <<>>)

WireCipherSuites(spec) ==
    {grease \o WithoutGrease(spec.ciphers) :
        grease \in IF "ciphers" \in spec.grease
                   THEN {<<g>> : g \in GreaseValues} ELSE {<<>>}}

(* The ClientHello of a resumed connection, and back. *)
WithPreSharedKey(spec) ==
    [spec EXCEPT !.extensions = @ \union {PreSharedKey},
                 !.order = IF @ = None THEN None
                           ELSE Append(Without(@, PreSharedKey), PreSharedKey)]

WithoutPreSharedKey(spec) ==
    [spec EXCEPT !.extensions = @ \ {PreSharedKey},
                 !.order = IF @ = None THEN None ELSE Without(@, PreSharedKey)]

-----------------------------------------------------------------------------
(* Fingerprints *)

MaxOf(S) == CHOOSE v \in S : \A w \in S : w <= v

EffectiveVersion(spec) ==
    IF spec.versions = <<>> THEN spec.handshake ELSE MaxOf(ToSet(spec.versions))

TwoDigits(n) == IF n > 99 THEN 99 ELSE n

SortedSeq(s) == SortSeq(s, <)

Ja4Of(transport, version, ciphers, extensions, signatures, alpn) ==
    <<transport, version, ServerName \in extensions,
      TwoDigits(Len(ciphers)), TwoDigits(Cardinality(extensions)),
      IF alpn = <<>> THEN None ELSE alpn[1],
      SortedSeq(ciphers), Ascending(extensions \ {ServerName, Alpn}),
      WithoutGrease(signatures)>>

Ja4(spec) ==
    Ja4Of(spec.transport, EffectiveVersion(spec), WithoutGrease(spec.ciphers),
          {e \in spec.extensions : ~IsGrease(e)}, spec.signatures, spec.alpn)

Ja3WithOrder(spec, order) ==
    <<spec.handshake, WithoutGrease(spec.ciphers), WithoutGrease(order),
      WithoutGrease(spec.groups), spec.formats>>

Ja3(spec) == Ja3WithOrder(spec, ReferenceExtensionOrder(spec))

(* What a profile aims at, whatever its backend can send. *)
TargetIdentity(spec) == [ja3 |-> Ja3(spec), ja4 |-> Ja4(spec)]

-----------------------------------------------------------------------------
(* Loading a capture *)

Error(what) == [error |-> what]
IsError(x) == "error" \in DOMAIN x

(* A list's code points with the GREASE markers taken out. *)
Resolve(points) == SelectSeq(points, LAMBDA v : v # GreaseMark)

Positions == {"ciphers", "extensions", "groups", "shares", "versions"}

(* Where GREASE goes: what the capture lists, and every list that shows it. *)
GreasePlacement(c) ==
    c.positions
    \union (IF GreaseMark \in ToSet(c.ciphers) THEN {"ciphers"} ELSE {})
    \union (IF GreaseMark \in ToSet(c.groups) THEN {"groups"} ELSE {})
    \union (IF GreaseMark \in ToSet(c.shares) THEN {"shares"} ELSE {})
    \union (IF GreaseMark \in ToSet(c.versions) THEN {"versions"} ELSE {})

(* The listing can omit what the recorded JA3 shows. *)
OfferedExtensions(c) ==
    {e \in c.listed \union ToSet(c.ja3) : ~IsGrease(e)}

ClientHello(c) ==
    LET extensions == OfferedExtensions(c)
        lists == <<c.ciphers, c.groups, c.shares, c.versions, c.signatures>>
    IN  IF \E i \in DOMAIN lists : BadText \in ToSet(lists[i])
        THEN Error("code point")
        ELSE IF c.ja3 = None THEN Error("ja3")
        ELSE IF ~(c.positions \subseteq Positions) THEN Error("grease position")
        ELSE IF ~c.shuffles /\ ~ValidOrder(c.ja3) THEN Error("wire order")
        ELSE IF ~c.shuffles /\ ~(extensions \subseteq ToSet(c.ja3))
        THEN Error("extension set")
        ELSE IF ~(ToSet(Resolve(c.versions)) \union {c.handshake} \subseteq Versions)
                \/ ~c.namesKnown
        THEN Error("unknown")
        ELSE [transport |-> IF "h3" \in ToSet(c.alpn) THEN "quic" ELSE "tcp",
              handshake |-> c.handshake, versions |-> Resolve(c.versions),
              ciphers |-> Resolve(c.ciphers), extensions |-> extensions,
              order |-> IF c.shuffles THEN None ELSE c.ja3,
              first |-> <<>>, last |-> <<>>,
              groups |-> Resolve(c.groups), shares |-> Resolve(c.shares),
              signatures |-> Resolve(c.signatures), alpn |-> c.alpn,
              formats |-> c.formats, grease |-> GreasePlacement(c)]

PseudoHeaders == {"method", "authority", "scheme", "path"}

Http2(c) ==
    IF Len(c.pseudo) # 4 \/ ToSet(c.pseudo) # PseudoHeaders
    THEN Error("pseudo-header order")
    ELSE [settings |-> c.settings, window |-> c.window,
          priorities |-> c.priorities, headersPriority |-> c.headersPriority,
          pseudo |-> c.pseudo]

(* The product tokens in the order they are looked for: a fork's user *)
(* agent carries Chrome's token too. *)
Products == <<"edge", "opera", "chrome", "firefox", "safari">>

BrowserIdentity(c) ==
    LET named == {i \in DOMAIN Products : Products[i] \in c.products}
    IN  IF named = {} THEN None
        ELSE Products[CHOOSE i \in named : \A j \in named : i <= j]

(* An Android user agent carries the Linux token too. *)
Platforms == <<"Android", "iOS", "macOS", "Windows", "Linux">>

PlatformOf(c) ==
    LET found == {i \in DOMAIN Platforms : Platforms[i] \in c.platforms}
    IN  IF found = {} THEN None
        ELSE Platforms[CHOOSE i \in found : \A j \in found : i <= j]

FromCapture(c) ==
    LET hello == ClientHello(c)
        http2 == Http2(c)
    IN  IF BrowserIdentity(c) = None \/ PlatformOf(c) = None
        THEN Error("user agent")
        ELSE IF ~c.brandsParse THEN Error("brand list")
        ELSE IF IsError(hello) THEN hello
        ELSE IF IsError(http2) THEN http2
        ELSE [name |-> BrowserIdentity(c), platform |-> PlatformOf(c),
              hello |-> hello, http2 |-> http2]

(* The shipped profile: its tables, and what the code adds to them. *)
ChromeStable ==
    [name |-> "chrome", platform |-> "macOS",
     hello |->
        [transport |-> "tcp", handshake |-> Tls12, versions |-> <<Tls13, Tls12>>,
         ciphers |-> ChromeTables.ciphers, extensions |-> ChromeTables.extensions,
         order |-> None, first |-> <<>>, last |-> <<>>, groups |-> ChromeTables.groups,
         shares |-> ChromeTables.shares, signatures |-> ChromeTables.signatures,
         alpn |-> <<"h2", "http/1.1">>, formats |-> <<0>>, grease |-> Positions],
     http2 |->
        [settings |-> ChromeTables.settings, window |-> ChromeTables.window,
         priorities |-> <<>>, headersPriority |-> TRUE,
         pseudo |-> <<"method", "authority", "scheme", "path">>]]

-----------------------------------------------------------------------------
(* What the linked libraries can send of it *)

Offered(wanted, available) == SelectSeq(wanted, LAMBDA v : v \in available)
Dropped(wanted, available) == SelectSeq(wanted, LAMBDA v : v \notin available)

OrderedVersions(spec) ==
    Reverse(Ascending(IF spec.versions = <<>> THEN {spec.handshake}
                      ELSE ToSet(spec.versions)))

Selected(spec) ==
    LET ciphers == WithoutGrease(spec.ciphers)
        groups == WithoutGrease(spec.groups)
        versions == OrderedVersions(spec)
    IN  IF Offered(ciphers, Suites) = <<>> THEN Error("no cipher suite")
        ELSE IF Offered(groups, Groups) = <<>> THEN Error("no group")
        ELSE IF Offered(versions, {Tls12, Tls13}) = <<>> THEN Error("no version")
        ELSE [ciphers |-> Offered(ciphers, Suites),
              droppedCiphers |-> Dropped(ciphers, Suites),
              groups |-> Offered(groups, Groups),
              droppedGroups |-> Dropped(groups, Groups),
              versions |-> Offered(versions, {Tls12, Tls13}),
              droppedVersions |-> Dropped(versions, {Tls12, Tls13}),
              alpn |-> spec.alpn, target |-> TargetIdentity(spec)]

(* The flattened configuration rebuilt: only a fixed order and pins go. *)
RecordedSpec(spec) == [spec EXCEPT !.order = None, !.first = <<>>, !.last = <<>>]

Settable == {1, 3, 4, 5, 6}
EnablePush == 2

(* hyper's builder after `configure`: each setter keeps the last value. *)
Configured(h2) ==
    LET named(id) == {i \in DOMAIN h2.settings : h2.settings[i][1] = id}
    IN  [id \in {x \in Settable : named(x) # {}} |->
            h2.settings[MaxOf(named(id))][2]]

Unsupported(h2) ==
    {<<"setting", s>> : s \in {t \in ToSet(h2.settings) :
                                 t[1] \notin Settable /\ t # <<EnablePush, 0>>}}
    \union {<<"extra", id>> : id \in {4, 6} \ {t[1] : t \in ToSet(h2.settings)}}
    \union (IF \A i \in 1..(Len(h2.settings) - 1) :
                  h2.settings[i][1] <= h2.settings[i + 1][1]
            THEN {} ELSE {<<"order">>})
    \union {<<"pseudo", h2.pseudo>>}
    \union (IF h2.priorities = <<>> THEN {} ELSE {<<"priority frames">>})
    \union (IF h2.headersPriority THEN {<<"headers priority">>} ELSE {})

-----------------------------------------------------------------------------
(* Registering profiles and opening connections *)

Init ==
    /\ registry = [n \in {"chrome", "chrome-stable"} |-> ChromeStable]
    /\ connection = None
    /\ failure = None

(* `register` under the profile's own name, `register_as` under another. *)
Register(c, n) ==
    LET p == FromCapture(c)
    IN  /\ IF IsError(p)
           THEN failure' = p.error /\ registry' = registry
           ELSE /\ failure' = None
                /\ \E name \in {n, p.name} :
                      registry' = [x \in DOMAIN registry \union {name} |->
                                      IF x = name THEN p ELSE registry[x]]
        /\ UNCHANGED connection

Alias(n, target) ==
    /\ IF target \in DOMAIN registry
       THEN /\ registry' = [x \in DOMAIN registry \union {n} |->
                               IF x = n THEN registry[target] ELSE registry[x]]
            /\ failure' = None
       ELSE registry' = registry /\ failure' = "unknown profile"
    /\ UNCHANGED connection

Unregister(n) ==
    /\ registry' = [x \in DOMAIN registry \ {n} |-> registry[x]]
    /\ UNCHANGED connection
    /\ failure' = None

(* A shuffled profile is given pins, or they are refused. *)
Pin(n, pins) ==
    /\ registry[n].hello.order = None
    /\ IF ValidPins(pins[1], pins[2])
       THEN /\ registry' = [registry EXCEPT ![n].hello.first = pins[1],
                                            ![n].hello.last = pins[2]]
            /\ failure' = None
       ELSE registry' = registry /\ failure' = "unpinnable"
    /\ UNCHANGED connection

(* A TLS engine is built from the profile, or refused; a connection shows *)
(* the profile's hello, with `pre_shared_key` when a ticket is held. *)
Open(n, resumed) ==
    LET spec == IF resumed THEN WithPreSharedKey(registry[n].hello)
                ELSE registry[n].hello
        h2 == registry[n].http2
    IN  /\ IF IsError(Selected(spec))
           THEN failure' = Selected(spec).error /\ connection' = None
           ELSE /\ failure' = None
                /\ \E order \in WireExtensionOrders(spec),
                      suites \in WireCipherSuites(spec) :
                      connection' =
                         [base |-> registry[n].hello, spec |-> spec,
                          order |-> order, suites |-> suites,
                          fidelity |-> Selected(spec), http2 |-> h2,
                          sets |-> Configured(h2), gaps |-> Unsupported(h2)]
        /\ UNCHANGED registry

Close ==
    /\ connection # None
    /\ connection' = None
    /\ failure' = None
    /\ UNCHANGED registry

Next ==
    \/ /\ connection = None
       /\ \/ \E c \in Captures, n \in Names : Register(c, n)
          \/ \E n \in Names, target \in Targets : Alias(n, target)
          \/ \E n \in DOMAIN registry : Unregister(n)
          \/ \E n \in DOMAIN registry, pins \in PinLists : Pin(n, pins)
          \/ \E n \in DOMAIN registry, resumed \in BOOLEAN : Open(n, resumed)
    \/ Close

Spec == Init /\ [][Next]_vars

-----------------------------------------------------------------------------
(* The JA4 an observer computes from the bytes of one connection. *)
ObservedJa4(k) ==
    Ja4Of(k.spec.transport, EffectiveVersion(k.spec), WithoutGrease(k.suites),
          ToSet(WithoutGrease(k.order)), k.spec.signatures, k.spec.alpn)

(* Whatever permutation and GREASE values a connection draws, fresh or *)
(* resumed: its extension order is one `WireExtensionOrder::new` accepts, *)
(* the JA4 seen on the wire is the one the profile claims, flattening the *)
(* profile for a backend keeps it, and dropping `pre_shared_key` again *)
(* gives the fresh hello back. *)
IdentityStable ==
    connection # None =>
        LET k == connection
        IN  /\ ValidOrder(k.order)
            /\ ObservedJa4(k) = k.fidelity.target.ja4
            /\ TargetIdentity(RecordedSpec(k.spec)).ja4 = k.fidelity.target.ja4
            /\ PreSharedKey \notin k.base.extensions =>
                  WithoutPreSharedKey(WithPreSharedKey(k.base)) = k.base

(* What is not sent is said: cipher suites and groups offered and dropped *)
(* make up the profile's lists in its order, and an HTTP/2 setting of the *)
(* profile with no report against it is the value hyper was given. *)
GapsNamed ==
    connection # None =>
        LET k == connection
            said(s) == \E g \in k.gaps : g = <<"setting", s>>
        IN  /\ Len(k.fidelity.ciphers) + Len(k.fidelity.droppedCiphers)
                 = Len(WithoutGrease(k.spec.ciphers))
            /\ IsPrefix(SelectSeq(k.spec.ciphers,
                                  LAMBDA v : v \in ToSet(k.fidelity.ciphers)),
                        k.fidelity.ciphers)
            /\ \A i \in DOMAIN k.http2.settings :
                  LET s == k.http2.settings[i]
                  IN  \/ said(s)
                      \/ s = <<EnablePush, 0>>
                      \/ s[1] \in DOMAIN k.sets /\ k.sets[s[1]] = s[2]
============================================================================
