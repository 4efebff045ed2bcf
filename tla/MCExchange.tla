----------------------------- MODULE MCExchange -----------------------------
(***************************************************************************)
(* What one exchange goes through: the client and the request are set up,  *)
(* the fingerprint is drawn, a connection is opened through a proxy and    *)
(* resumes a TLS session, the header block and a form body go              *)
(* out, and the response body is read.  These parts share no state, so a   *)
(* behaviour is about the one in focus and the others stand still.         *)
(***************************************************************************)
EXTENDS Integers, Sequences, TLC

CONSTANTS None, Malformed, c1, c2

VARIABLES
    focus,
    hosts, recency, shake, issued, offered,
    provider, dialer, cursor, failed,
    body, read,
    chain, wire,
    form, frames,
    builder, client, request, sent, said,
    registry, connection, failure

-----------------------------------------------------------------------------
(* TLS sessions: room for one host of two, two handshakes at a time. *)

T == INSTANCE TlsSessions WITH
        Hosts <- {"h1", "h2"}, Handshakes <- {c1, c2}, Requested <- 1, TicketsPerHost <- 2,
        MaxTickets <- 3

-----------------------------------------------------------------------------
(* Connecting: three proxies of different schemes and credentials. *)

Proxy(label, scheme, user, password) ==
    [label |-> label, scheme |-> scheme, user |-> user, password |-> password]

Proxies ==
    <<Proxy("a", "socks5", 3, None), Proxy("b", "socks5h", None, None), Proxy("c", "http", 2, 300)>>

Target(host, ip, loopback, secure) ==
    [host |-> host, ip |-> ip, loopback |-> loopback, secure |-> secure]

Targets ==
    {Target(<<"com", "ex">>, None, FALSE, TRUE), Target(<<"", "corp", "in">>, None, FALSE, FALSE),
     Target(<<>>, <<1, 0, 1>>, FALSE, TRUE), Target(<<>>, <<1, 1, 1>>, TRUE, FALSE)}

Bypassed ==
    <<[kind |-> "suffix", host |-> <<"corp">>], [kind |-> "cidr", bits |-> <<1, 1, 0>>, prefix |-> 2]>>

Selections ==
    [version : {4, 5}, method : {"none", "password", "refused"}, size : {2}]

Reply(ok, atyp, len, size) == [version |-> 5, ok |-> ok, atyp |-> atyp, len |-> len, size |-> size]

Replies ==
    {Reply(TRUE, "v4", 0, 10), Reply(TRUE, "v6", 0, 22), Reply(TRUE, "domain", 9, 16),
     Reply(FALSE, "v4", 0, 10), Reply(TRUE, "other", 0, 4)}

Heads == {[size |-> 39, status |-> 200], [size |-> 60, status |-> 407],
          [size |-> 101, status |-> 200], [size |-> 102, status |-> 200]}

Environment(http, HTTP, https, ALL) ==
    ("http_proxy" :> http) @@ ("HTTP_PROXY" :> HTTP) @@ ("https_proxy" :> https)
      @@ ("HTTPS_PROXY" :> None) @@ ("all_proxy" :> None) @@ ("ALL_PROXY" :> ALL)

Environments ==
    {Environment(None, Proxies[1], None, None), Environment(Malformed, None, Proxies[2], Proxies[3])}

N == INSTANCE Connecting WITH
        Dialers <- {c1}, Pool <- Proxies, NoProxy <- Bypassed, Addresses <- 2, LongestField <- 255,
        AuthReplies <- [version : {1}, ok : BOOLEAN, size : {2}], ConnectReplies <- Replies,
        MaxHeadBytes <- 100

-----------------------------------------------------------------------------
(* Response bodies: pages up to five bytes, up to two codings, limits of *)
(* four bytes. *)

Pages == {<<>>, <<"a", "b">>, <<"a", "a", "b">>, <<"b", "a", "a", "b", "a">>}

Encodings ==
    {None, <<"x-gzip">>, <<"gzip", "", "br">>, <<"identity", "br">>, <<"zstd">>, <<"bogus">>,
     <<"br", "br", "br">>}

Stop(kind, marker, extra, budget) ==
    [kind |-> kind, marker |-> marker, extra |-> extra, budget |-> budget]

Reads ==
    {Stop("collect", <<>>, 0, None), Stop("stream", <<>>, 0, None), Stop("after", <<>>, 0, 2),
     Stop("marker", <<>>, 1, None), Stop("marker", <<"a", "b">>, 0, None),
     Stop("marker", <<"a", "b">>, 1, 4), Stop("marker", <<"a", "b">>, 0, 2),
     Stop("marker", <<"a", "b">>, 0, 0), Stop("when", <<"a", "b">>, 1, 3)}

B == INSTANCE ResponseBody WITH
        Compiled <- {"gzip", "br", "deflate"}, WireSizes <- {1, 2}, InnerSizes <- {1, 3},
        MaxContentCodings <- 2, MaxDecompressedSize <- 4, MaxRatio <- 2, MaxSize <- 4

-----------------------------------------------------------------------------
(* Request headers: two sites, one with a subdomain, and a third whose *)
(* granted hint has a value no header can carry; two redirects. *)

Url(scheme, host, path) == [scheme |-> scheme, host |-> host, port |-> 1, path |-> path]
A == Url("https", <<"com", "a">>, "x")
Sub == Url("https", <<"com", "a", "w">>, "y")
Other == Url("http", <<"com", "b">>, "z")
Odd == Url("https", <<"com", "c">>, "x")

Origin(url) == [scheme |-> url.scheme, host |-> url.host, port |-> url.port]
Grants ==
    (Origin(A) :> {"sec-ch-ua-arch"}) @@ (Origin(Sub) :> {}) @@ (Origin(Other) :> {})
      @@ (Origin(Odd) :> {"sec-ch-ua-model"})

Given(name, n) == <<name, <<"caller", n>>>>

Asks(url, method, headers, mode, dest, from, activated) ==
    [url |-> url, method |-> method, headers |-> headers, mode |-> mode, dest |-> dest,
     initiator |-> IF from = None THEN None ELSE Origin(from), referrer |-> from,
     activated |-> activated]

Messages ==
    {Asks(u, "GET", hs, "navigate", "document", None, act) :
        u \in {A, Other, Odd}, hs \in {<<>>, <<Given("authorization", 1), Given("host", 2)>>},
        act \in BOOLEAN}
    \cup
    {Asks(u, m, <<Given("x-a", 1), Given("accept", 2), Given("x-a", 3), Given("content-type", 4)>>,
          "cors", "image", A, FALSE) : u \in {A, Sub}, m \in {"GET", "POST"}}
    \cup
    {Asks(A, "GET", <<>>, "no-cors", d, Sub, FALSE) : d \in {"style", "script", "empty"}}

H == INSTANCE RequestHeaders WITH
        PublicSuffixes <- {}, IpLiterals <- {}, Urls <- {A, Sub, Other, Odd}, Requests <- Messages,
        Navigate <- <<"sec-ch-ua", "sec-ch-ua-platform", "upgrade-insecure-requests", "user-agent",
                      "accept", "sec-fetch-site", "sec-fetch-mode", "sec-fetch-dest", "priority">>,
        Subresource <- <<"origin", "sec-ch-ua-mobile", "sec-fetch-site", "sec-ch-ua-arch", "accept",
                         "cookie", "accept">>,
        Unencodable <- {<<"profile", "sec-ch-ua-model">>}, GrantedHints <- Grants,
        HintsHeld <- {"sec-ch-ua-arch", "sec-ch-ua-model"}, Limit <- 2

-----------------------------------------------------------------------------
(* Forms: up to two parts, whose names, contents and streams may hold a *)
(* boundary; streams that lie about their length or fail. *)

Held(content) == [kind |-> "bytes", content |-> content]
Stream(chunks, length) == [kind |-> "stream", chunks |-> chunks, length |-> length]

Contents ==
    {Held(<<>>), Held(<<"x", "b1">>), Stream(<<<<>>, <<"x">>, <<>>, <<"b2">>>>, None),
     Stream(<<<<"x">>>>, 1), Stream(<<>>, 90), Stream(<<<<"x">>, <<"failed">>>>, None)}

Label(name, file, mime) == [name |-> name, file |-> file, mime |-> mime]

Labels ==
    {Label(<<"x">>, None, "text"), Label(<<"CR", "LF", "b1", "LF">>, <<"\"", "CR", "LF">>, None),
     Label(<<>>, <<"b2">>, "text"), Label(<<"x">>, None, "unusable")}

Parts ==
    {[name |-> l.name, file |-> l.file, mime |-> l.mime, source |-> s] : l \in Labels, s \in Contents}

M == INSTANCE Multipart WITH
        Boundaries <- {"b1", "b2", "b3"}, Forms <- {<<>>} \cup {<<p>> : p \in Parts} \cup (Parts \X Parts),
        MaxLength <- 60, body <- form, sent <- frames

-----------------------------------------------------------------------------
(* Builders: any two calls on the client, then any two on the request. *)

ClientCalls ==
    {<<"cookies", FALSE>>, <<"cookies", TRUE>>, <<"cookie_jar", "named">>, <<"proxies", {"p"}>>,
     <<"proxies", {"p", "q"}>>, <<"proxies", {"unparsable"}>>, <<"provider", "x">>,
     <<"isolation", "shared">>, <<"isolation", "per_proxy">>, <<"header", <<"h", "d">>>>,
     <<"header", <<"h", "invalid">>>>, <<"redirect", "none">>, <<"timeout", 9>>, <<"middleware", "m">>}

RequestCalls ==
    {<<"header", <<"h", "r">>>>, <<"header", <<"h", "invalid">>>>, <<"json", "v">>,
     <<"multipart", "unusable">>, <<"form", "v">>, <<"body", "v">>, <<"timeout", 5>>,
     <<"redirect", "follow">>,
     <<"context", [timeout |-> None, redirect |-> "follow", mode |-> "navigate"]>>}

C == INSTANCE ClientSetup WITH MaxCalls <- 2, Exits <- {"p", "q"}, DefaultPolicy <- "follow"

-----------------------------------------------------------------------------
(* Fingerprints: a capture that shuffles its extensions, one that does *)
(* not, and one for each way a capture can be refused. *)

Chrome ==
    [ciphers |-> <<4865, 4866, 47>>, extensions |-> {0, 16, 45}, groups |-> <<4588, 29>>,
     shares |-> <<4588, 29>>, signatures |-> <<2308, 1027>>,
     settings |-> <<<<1, 65>>, <<2, 0>>, <<4, 62>>, <<6, 26>>>>, window |-> 156]

\* -1 stands for GREASE.
Shuffling ==
    [products |-> {"chrome", "safari"}, platforms |-> {"macOS"}, brandsParse |-> TRUE,
     ciphers |-> <<-1, 4865, 4866, 47>>, listed |-> {16, 45}, ja3 |-> <<45, 0, 16>>, shuffles |-> TRUE,
     positions |-> {"extensions"}, groups |-> <<-1, 4588, 29>>, shares |-> <<-1, 4588, 29>>,
     versions |-> <<-1, 772, 771>>, handshake |-> 771, signatures |-> <<2308, 1027>>,
     alpn |-> <<"h2", "http/1.1">>, formats |-> <<0>>, namesKnown |-> TRUE,
     settings |-> Chrome.settings, window |-> 156, priorities |-> <<>>, headersPriority |-> TRUE,
     pseudo |-> <<"method", "authority", "scheme", "path">>]

Steady ==
    [Shuffling EXCEPT
        !.products = {"firefox"}, !.platforms = {"Linux"}, !.shuffles = FALSE, !.listed = {45, 0},
        !.ciphers = <<47, 4867, 4865>>, !.positions = {},
        !.settings = <<<<4, 131>>, <<1, 65>>, <<8, 1>>, <<2, 1>>>>,
        !.priorities = <<3>>, !.headersPriority = FALSE, !.versions = <<>>,
        !.pseudo = <<"method", "path", "authority", "scheme">>]

Captures ==
    {Shuffling, Steady,
     [Steady EXCEPT !.ja3 = <<45, 0, 16, 41>>, !.listed = {41}],
     [Steady EXCEPT !.ja3 = <<41, 0, 16>>], [Steady EXCEPT !.listed = {5}],
     [Steady EXCEPT !.ja3 = None], [Steady EXCEPT !.ciphers = <<-2>>],
     [Steady EXCEPT !.positions = {"middle"}], [Steady EXCEPT !.handshake = 5],
     [Steady EXCEPT !.pseudo = <<"method", "path">>], [Steady EXCEPT !.products = {}],
     [Steady EXCEPT !.platforms = {"Android", "Linux"}, !.groups = <<24>>],
     [Steady EXCEPT !.ciphers = <<47>>], [Steady EXCEPT !.versions = <<769>>],
     [Steady EXCEPT !.brandsParse = FALSE]}

PinLists == {<<<<45>>, <<0>>>>, <<<<16, 0>>, <<>>>>, <<<<41>>, <<>>>>, <<<<0>>, <<0>>>>}

F == INSTANCE Fingerprint WITH
        ChromeTables <- Chrome, Names <- {"mine"}, Targets <- {"chrome"}, GreaseValues <- {2570, 6682},
        Suites <- {4865, 4866}, Groups <- {29}

-----------------------------------------------------------------------------

tlsVars == <<hosts, recency, shake, issued, offered>>
connectVars == <<provider, dialer, cursor, failed>>
bodyVars == <<body, read>>
headerVars == <<chain, wire>>
formVars == <<form, frames>>
setupVars == <<builder, client, request, sent, said>>
printVars == <<registry, connection, failure>>

allVars ==
    <<focus, tlsVars, connectVars, bodyVars, headerVars, formVars, setupVars, printVars>>

Init ==
    /\ focus \in {"tls", "connect", "body", "headers", "form", "setup", "print"}
    /\ T!Init /\ B!Init /\ H!Init /\ M!Init /\ C!Init /\ F!Init
    /\ N!Init /\ (focus # "connect" => provider.kind = "robin")

Others(f) ==
    /\ UNCHANGED focus
    /\ IF f = "tls" THEN TRUE ELSE UNCHANGED tlsVars
    /\ IF f = "connect" THEN TRUE ELSE UNCHANGED connectVars
    /\ IF f = "body" THEN TRUE ELSE UNCHANGED bodyVars
    /\ IF f = "headers" THEN TRUE ELSE UNCHANGED headerVars
    /\ IF f = "form" THEN TRUE ELSE UNCHANGED formVars
    /\ IF f = "setup" THEN TRUE ELSE UNCHANGED setupVars
    /\ IF f = "print" THEN TRUE ELSE UNCHANGED printVars

Next ==
    \/ focus = "tls" /\ T!Next /\ Others("tls")
    \/ focus = "connect" /\ N!Next /\ Others("connect")
    \/ focus = "body" /\ B!Next /\ Others("body")
    \/ focus = "headers" /\ H!Next /\ Others("headers")
    \/ focus = "form" /\ M!Next /\ Others("form")
    \/ focus = "setup" /\ C!Next /\ Others("setup")
    \/ focus = "print" /\ F!Next /\ Others("print")

Spec == Init /\ [][Next]_allVars

-----------------------------------------------------------------------------

\* A TLS 1.3 ticket goes into one ClientHello only, to the host that issued
\* it, and a host that is written survives the eviction behind the write.
ResumptionSound == T!ResumptionSound

\* A tunnel is handed on with exactly the proxy's answers read from it, its
\* secrets told only where they were asked for, and the provider answers None
\* only when every proxy has failed (handshake, request_connect, next_proxy).
TunnelsTrue == focus = "connect" => N!TunnelsTrue /\ N!NoneMeansExhausted

\* A reader gets what the body says whatever its chunks, within the limits on
\* decoding, and only a body read to its end gives its connection back.
ReadsHonest == focus = "body" => B!ReadsHonest /\ B!DecodedWithinBounds

\* Every hop's header block keeps the profile's order and this hop's rules.
WireKeepsShape == focus = "headers" => H!WireKeepsShape

\* A multipart body on the wire is the form it was made from.
FormArrives == focus = "form" => M!FormArrives

\* What is built is what the calls said, in whatever order, and exits share a
\* jar only when asked to (ClientBuilder::build, RequestBuilder::build).
SentAsSaid == focus = "setup" => C!ExitsShareOnlyWhenAsked /\ C!SentAsSaid

\* Whatever a connection draws, its JA4 is the one the profile claims, and
\* what is not sent is reported (extension_order, FidelityReport).
IdentityStable == focus = "print" => F!IdentityStable /\ F!GapsNamed
=============================================================================
