----------------------------- MODULE Connecting -----------------------------
(***************************************************************************)
(* Opening a connection: which proxy a request goes through                *)
(* (chromulate-proxy/src/provider.rs, no_proxy.rs, proxy.rs), and the      *)
(* steps from there to a connection the pool may file                      *)
(* (chromulate-http/src/connect.rs, chromulate-proxy/src/socks5.rs and     *)
(* http_connect.rs).                                                       *)
(*                                                                         *)
(* A host is its labels from the right, or an address given by its bits.   *)
(* The proxy answers anything; its answers carry their size on the wire,   *)
(* which the client never sees and must arrive at by reading.              *)
(***************************************************************************)
EXTENDS Integers, Sequences, SequencesExt, FiniteSets

CONSTANTS
    Dialers, None,
    Pool,          \* the proxies, in order: [label, scheme, user, password]
    NoProxy,       \* tokens of the bypass list
    Malformed,
    Environments,  \* variable -> None, Malformed or a proxy
    Targets,       \* [host, ip, loopback, secure]; ip is None or a sequence of bits
    Addresses,     \* how many addresses a name may have
    LongestField,  \* what a one-byte length can say
    Selections, AuthReplies, ConnectReplies, Heads,   \* what a proxy may answer
    MaxHeadBytes

VARIABLES
    provider,  \* [kind, environment], the kind being "robin", "random" or "environment"
    dialer,    \* dialer -> where it is
    cursor,
    failed     \* the positions reported as failed

vars == <<provider, dialer, cursor, failed>>

\* parse_cidr: None where the prefix is longer than the address.
ParseCidr(token) ==
    IF token.prefix > Len(token.bits) THEN None
    ELSE [kind |-> "cidr", bits |-> token.bits, prefix |-> token.prefix]

\* NoProxy::parse: one entry that does not parse takes the list with it.
ParseNoProxy(tokens) ==
    LET entries == [i \in DOMAIN tokens |->
                       IF tokens[i].kind = "cidr" THEN ParseCidr(tokens[i]) ELSE tokens[i]]
    IN  IF None \in ToSet(entries) THEN {} ELSE ToSet(entries)

\* ip_in_cidr: addresses of one family whose first bits agree.
IpInCidr(ip, entry) ==
    /\ Len(ip) = Len(entry.bits)
    /\ SubSeq(ip, 1, entry.prefix) = SubSeq(entry.bits, 1, entry.prefix)

Trimmed(host) == IF host # <<>> /\ Head(host) = "" THEN Tail(host) ELSE host

\* NoProxy::matches
Bypasses(entries, target) ==
    LET host == Trimmed(target.host)
    IN  \E entry \in entries :
            \/ entry.kind = "all"
            \/ entry.kind = "exact" /\ host = entry.host
            \/ entry.kind = "suffix" /\ IsPrefix(entry.host, host)
            \/ entry.kind = "localhost" /\ (host = <<"localhost">> \/ target.loopback)
            \/ entry.kind = "cidr" /\ target.ip # None /\ IpInCidr(target.ip, entry)

\* read_pair: the lower-case variable unless it is empty.
ReadPair(environment, lower, upper) == IF environment[lower] # None THEN environment[lower] ELSE environment[upper]

\* from_lookup: a variable that is set and does not parse stands in the way of
\* ALL_PROXY and yields no proxy.
FromLookup(environment) ==
    LET all == ReadPair(environment, "all_proxy", "ALL_PROXY")
        raw(lower, upper) == LET own == ReadPair(environment, lower, upper) IN IF own # None THEN own ELSE all
        parsed(value) == IF value = Malformed THEN None ELSE value
    IN  [http |-> parsed(raw("http_proxy", "HTTP_PROXY")), https |-> parsed(raw("https_proxy", "HTTPS_PROXY"))]

\* for_scheme: the other scheme's proxy where there is none of its own.
ForScheme(environment, secure) ==
    LET own == IF secure THEN environment.https ELSE environment.http
        other == IF secure THEN environment.http ELSE environment.https
    IN  IF own # None THEN own ELSE other

IsSocks5(proxy) == proxy.scheme \in {"socks5", "socks5h"}

HasCredentials(proxy) == proxy.user # None \/ proxy.password # None

Size(field) == IF field = None THEN 0 ELSE field

Offered(proxy) == {"none"} \cup IF HasCredentials(proxy) THEN {"password"} ELSE {}

AddressBytes(reply) ==
    CASE reply.atyp = "v4" -> 4 + 2
      [] reply.atyp = "v6" -> 16 + 2
      [] OTHER -> 1 + reply.len + 2

\* PoolKey, as candidate_keys and connect both build it.
Key(target, proxy, protocol) ==
    [host |-> target.host, secure |-> target.secure,
     proxy |-> IF proxy = None THEN None ELSE proxy.label, protocol |-> protocol]

-----------------------------------------------------------------------------

Resting ==
    [at |-> "idle", target |-> None, proxy |-> None, turn |-> 0, left |-> 0,
     read |-> 0, owed |-> 0, told |-> {}, key |-> None, missed |-> FALSE]

Init ==
    /\ \/ provider \in [kind : {"robin", "random"}, environment : {None}]
       \/ provider \in [kind : {"environment"}, environment : Environments]
    /\ dialer = [d \in Dialers |-> Resting]
    /\ cursor = 0
    /\ failed = {}

Goes(d, changes) == dialer' = [dialer EXCEPT ![d] = changes @@ @]

Rotates == provider.kind # "environment"

\* route begins.
Route(d, target) ==
    /\ dialer[d].at = "idle"
    /\ Goes(d, [at |-> "pick", target |-> target])
    /\ UNCHANGED <<provider, cursor, failed>>

\* route ends: a proxy the target bypasses, like no proxy at all, means a
\* direct connection.
Routed(d, proxy) ==
    Goes(d, IF proxy = None \/ Bypasses(ParseNoProxy(NoProxy), dialer[d].target)
            THEN [at |-> "resolve"]
            ELSE [at |-> "proxy", proxy |-> proxy])

\* One turn of RoundRobin::next.  The cursor counts modulo the length of the
\* pool; Single is a pool of one.
PickNext(d) ==
    LET index == cursor + 1
        turn == dialer[d].turn + 1
    IN  /\ dialer[d].at = "pick"
        /\ provider.kind = "robin"
        /\ cursor' = (cursor + 1) % Len(Pool)
        /\ IF index \notin failed THEN Routed(d, Pool[index])
           ELSE IF turn < Len(Pool) THEN Goes(d, [turn |-> turn])
           ELSE Goes(d, [at |-> "resolve", missed |-> failed # DOMAIN Pool])
        /\ UNCHANGED <<provider, failed>>

\* Random::next
PickAny(d) ==
    /\ dialer[d].at = "pick"
    /\ provider.kind = "random"
    /\ IF failed = DOMAIN Pool THEN Routed(d, None)
       ELSE \E index \in DOMAIN Pool \ failed : Routed(d, Pool[index])
    /\ UNCHANGED <<provider, cursor, failed>>

\* A proxy read from the environment.
PickFromEnvironment(d) ==
    /\ dialer[d].at = "pick"
    /\ ~Rotates
    /\ Routed(d, ForScheme(FromLookup(provider.environment), dialer[d].target.secure))
    /\ UNCHANGED <<provider, cursor, failed>>

\* report_failure, which nothing undoes.
ReportFailure(index) ==
    /\ Rotates
    /\ index \notin failed
    /\ failed' = failed \cup {index}
    /\ UNCHANGED <<provider, dialer, cursor>>

\* A direct connection resolves, and tries the addresses in turn.
Resolve(d, count) ==
    /\ dialer[d].at = "resolve"
    /\ IF count = 0 THEN Goes(d, [at |-> "failed"])
       ELSE Goes(d, [at |-> "dial", left |-> count, told |-> {"resolver"}])
    /\ UNCHANGED <<provider, cursor, failed>>

Dial(d, reachable) ==
    LET left == dialer[d].left - 1
    IN  /\ dialer[d].at = "dial"
        /\ Goes(d, IF reachable THEN [at |-> "tls"] ELSE [at |-> IF left = 0 THEN "failed" ELSE "dial", left |-> left])
        /\ UNCHANGED <<provider, cursor, failed>>

\* Proxy::connect reaches the proxy and sends the greeting, or the CONNECT
\* request with its credentials.
DialProxy(d) ==
    LET proxy == dialer[d].proxy
    IN  /\ dialer[d].at = "proxy"
        /\ IF IsSocks5(proxy) THEN Goes(d, [at |-> "greeted"])
           ELSE Goes(d, [at |-> "asked", told |-> {"proxy"} \cup IF HasCredentials(proxy) THEN {"secret"} ELSE {}])
        /\ UNCHANGED <<provider, cursor, failed>>

\* handshake: the selection is two bytes and must be among what was offered.
Selected(d, selection) ==
    LET proxy == dialer[d].proxy
        usable == selection.version = 5 /\ selection.method \in Offered(proxy)
    IN  /\ dialer[d].at = "greeted"
        /\ Goes(d, [read |-> 2, owed |-> selection.size,
                    at |-> IF ~usable THEN "failed" ELSE IF selection.method = "none" THEN "connect" ELSE "auth"])
        /\ UNCHANGED <<provider, cursor, failed>>

\* authenticate: nothing is sent when a field is too long for its length byte.
Authenticate(d, reply) ==
    LET proxy == dialer[d].proxy
        fits == Size(proxy.user) <= LongestField /\ Size(proxy.password) <= LongestField
    IN  /\ dialer[d].at = "auth"
        /\ IF ~fits THEN Goes(d, [at |-> "failed"])
           ELSE Goes(d, [read |-> dialer[d].read + 2, owed |-> dialer[d].owed + reply.size,
                         told |-> dialer[d].told \cup {"secret", "asked for"},
                         at |-> IF reply.version = 1 /\ reply.ok THEN "connect" ELSE "failed"])
        /\ UNCHANGED <<provider, cursor, failed>>

\* Mutant: the bound address is taken for an IPv4 one.
ShortAnswer(d, reply) ==
    /\ dialer[d].at = "connect"
    /\ Goes(d, [read |-> dialer[d].read + 4 + 6, owed |-> dialer[d].owed + reply.size, told |-> dialer[d].told,
                at |-> IF reply.version = 5 /\ reply.ok THEN "tls" ELSE "failed"])
    /\ UNCHANGED <<provider, cursor, failed>>

\* request_connect: who learns the name depends on the scheme, and the bound
\* address is read to its end.  A name may fail to resolve here.
Connected(d, reply) ==
    LET proxy == dialer[d].proxy
        known == reply.atyp \in {"v4", "v6", "domain"}
        teller == IF dialer[d].target.ip # None THEN {}
                  ELSE IF proxy.scheme = "socks5h" THEN {"proxy"} ELSE {"resolver"}
        opens == reply.version = 5 /\ reply.ok /\ known
    IN  /\ dialer[d].at = "connect"
        /\ Goes(d, [read |-> dialer[d].read + 4 + (IF opens THEN AddressBytes(reply) ELSE 0),
                    owed |-> dialer[d].owed + reply.size,
                    told |-> dialer[d].told \cup teller,
                    at |-> IF opens THEN "tls" ELSE "failed"])
        /\ UNCHANGED <<provider, cursor, failed>>

\* tunnel: the head is read a byte at a time up to its blank line, or until it
\* is longer than it may be.
HeadRead(d, head) ==
    /\ dialer[d].at = "asked"
    /\ Goes(d, [read |-> IF head.size <= MaxHeadBytes + 1 THEN head.size ELSE MaxHeadBytes + 1, owed |-> head.size,
                at |-> IF head.size <= MaxHeadBytes + 1 /\ head.status \in 200..299 THEN "tls" ELSE "failed"])
    /\ UNCHANGED <<provider, cursor, failed>>

\* The TLS handshake of a secure origin, the protocol's own, and the key the
\* connection is filed under.
Handshake(d, alpn) ==
    LET target == dialer[d].target
        protocol == IF target.secure /\ alpn = "h2" THEN "h2" ELSE "http/1.1"
    IN  /\ dialer[d].at = "tls"
        /\ Goes(d, [at |-> "open", key |-> Key(target, dialer[d].proxy, protocol)])
        /\ UNCHANGED <<provider, cursor, failed>>

\* Any phase may fail, or outlast its timeout or the deadline.
Fail(d) ==
    /\ dialer[d].at \notin {"idle", "pick", "open", "failed"}
    /\ Goes(d, [at |-> "failed"])
    /\ UNCHANGED <<provider, cursor, failed>>

Next ==
    \/ \E d \in Dialers :
          \/ \E target \in Targets : Route(d, target)
          \/ PickNext(d) \/ PickAny(d) \/ PickFromEnvironment(d)
          \/ \E count \in 0..Addresses : Resolve(d, count)
          \/ \E reachable \in BOOLEAN : Dial(d, reachable)
          \/ DialProxy(d)
          \/ \E selection \in Selections : Selected(d, selection)
          \/ \E reply \in AuthReplies : Authenticate(d, reply)
          \/ \E reply \in ConnectReplies : Connected(d, reply)
          \/ \E head \in Heads : HeadRead(d, head)
          \/ \E alpn \in {"h2", "http/1.1", None} : Handshake(d, alpn)
          \/ Fail(d)
    \/ \E index \in DOMAIN Pool : ReportFailure(index)

Spec == Init /\ [][Next]_vars

-----------------------------------------------------------------------------

\* A tunnel is handed on with exactly the proxy's own answers read from it, so
\* that the next byte is the target's; over SOCKS5 a credential is sent only if
\* one is configured, was offered and was asked for; a name is looked up here
\* only where the scheme says so; and the key a connection is filed under names
\* the proxy it really goes through (connect, handshake, request_connect).
TunnelsTrue ==
    \A d \in Dialers :
        LET me == dialer[d]
            proxied == me.proxy # None
        IN  /\ me.at \in {"tls", "open"} /\ proxied => me.read = me.owed
            /\ "secret" \in me.told => HasCredentials(me.proxy) /\ (IsSocks5(me.proxy) => "asked for" \in me.told)
            /\ "resolver" \in me.told /\ proxied => me.proxy.scheme = "socks5" /\ me.target.ip = None
            /\ me.at = "open" => (me.key.proxy = None) = ~proxied /\ (proxied => me.key.proxy = me.proxy.label)

\* A pool that is not exhausted yields a proxy: the provider answers None only
\* when every member has been reported as failed.
NoneMeansExhausted ==
    \A d \in Dialers : ~dialer[d].missed
=============================================================================
