----------------------------- MODULE ClientSetup -----------------------------
(***************************************************************************)
(* From builder calls to the request on the wire: ClientBuilder and        *)
(* EngineBuilder with the sessions they choose (chromulate/src/client.rs,  *)
(* chromulate-http/src/engine.rs), RequestBuilder with the error it        *)
(* collects (chromulate/src/request.rs), and what the engine reads of the  *)
(* request's options.                                                      *)
(*                                                                         *)
(* The calls are a word over small sets of arguments; `said` keeps the     *)
(* words, so that the outcome can be compared with what was asked for.     *)
(***************************************************************************)
EXTENDS Naturals, Sequences, SequencesExt, FiniteSets

CONSTANTS None,
          ClientCalls,   \* <<call, argument>> pairs on the client builder
          RequestCalls,  \* <<call, argument>> pairs on the request builder
          MaxCalls,      \* bound on the calls of each builder
          Exits,         \* proxies a request may leave through
          DefaultPolicy  \* RedirectPolicy::default()

VARIABLES builder,  \* the client builder, or the error that consumed it
          client,   \* the built client, or None
          request,  \* the request builder's state, or None
          sent,     \* what the engine was handed, or None
          said      \* the calls made: [client, request]

vars == <<builder, client, request, sent, said>>

Failed(why) == [error |-> why]
IsError(x) == "error" \in DOMAIN x

(***************************************************************************)
(* ClientBuilder                                                           *)
(***************************************************************************)
Default == [cookies |-> TRUE, jar |-> None, routes |-> "direct", isolation |-> None,
            timeout |-> None, head |-> 30, redirect |-> DefaultPolicy,
            headers |-> <<>>, middleware |-> <<>>]

MayRotate(routes) == routes \in {"several", "unknown"}

\* proxy, proxy_pool: every URL must parse, and a pool must have a member.
Proxied(b, urls) ==
  IF "unparsable" \in urls \/ urls = {} THEN Failed("config")
  ELSE [b EXCEPT !.routes = IF Cardinality(urls) = 1 THEN "one" ELSE "several"]

\* The calls that only record their argument.
Settings == {"timeout", "head", "redirect", "isolation", "cookies"}

Inserted(headers, name, value) ==
  SelectSeq(headers, LAMBDA h : h[1] # name) \o <<<<name, value>>>>

Configured(b, c) ==
  CASE c[1] \in Settings     -> [b EXCEPT ![c[1]] = c[2]]
    [] c[1] = "cookie_jar"   -> [b EXCEPT !.cookies = TRUE, !.jar = c[2]]
    [] c[1] = "proxies"      -> Proxied(b, c[2])
    [] c[1] = "provider"     -> [b EXCEPT !.routes = "unknown"]
    [] c[1] = "middleware"   -> [b EXCEPT !.middleware = Append(@, c[2])]
    [] c[1] = "header"       -> IF c[2][2] = "invalid" THEN Failed("builder")
                                  ELSE [b EXCEPT !.headers = Inserted(@, c[2][1], c[2][2])]

\* Mutant of Isolation: a rotation shares one session unless told otherwise.
SharedIsolation(b) == IF b.isolation # None THEN b.isolation ELSE "shared"

Isolation(b) ==
  IF b.isolation # None THEN b.isolation
  ELSE IF b.jar # None \/ ~MayRotate(b.routes) THEN "shared"
  ELSE "per_proxy"

\* JarPerRoute and Sessions: the jar a request uses on its way out.
JarFor(c, exit) ==
  IF c.isolation = "shared" \/ exit = None THEN c.jar
  ELSE IF c.mints THEN exit ELSE None

Built(b) ==
  IF Isolation(b) = "per_proxy" /\ b.jar # None THEN Failed("config")
  ELSE [isolation |-> Isolation(b),
        jar |-> IF ~b.cookies THEN None ELSE IF b.jar = None THEN "fresh" ELSE b.jar,
        mints |-> b.cookies, timeout |-> b.timeout, head |-> b.head,
        redirect |-> b.redirect, headers |-> b.headers, middleware |-> b.middleware]

(***************************************************************************)
(* RequestBuilder                                                          *)
(***************************************************************************)
Options == [timeout |-> None, redirect |-> DefaultPolicy, mode |-> "cors"]

NewParts == [headers |-> <<>>, body |-> None, options |-> Options]

\* A body call that names its content type, and cannot be encoded when its
\* argument is unusable.
Encoded(p, kind, value) ==
  IF value = "unusable" THEN Failed(kind)
  ELSE [p EXCEPT !.headers = Inserted(@, "content-type", kind), !.body = <<kind, value>>]

Apply(p, c) ==
  CASE c[1] \in {"json", "form", "multipart"} -> Encoded(p, c[1], c[2])
    [] c[1] = "header" ->
         IF c[2][2] = "invalid" THEN Failed("header")
         ELSE [p EXCEPT !.headers = Inserted(@, c[2][1], c[2][2])]
    [] c[1] = "body"     -> [p EXCEPT !.body = <<"raw", c[2]>>]
    [] c[1] = "timeout"  -> [p EXCEPT !.options.timeout = c[2]]
    [] c[1] = "redirect" -> [p EXCEPT !.options.redirect = c[2]]
    [] c[1] = "context"  -> [p EXCEPT !.options = c[2]]

\* The first error stays: later calls are not applied to it.
With(p, c) == IF IsError(p) THEN p ELSE Apply(p, c)

\* Client defaults first, so that a header of the request replaces them.
Merged(c, p) == FoldLeft(LAMBDA acc, h : Inserted(acc, h[1], h[2]), c.headers, p.headers)

\* A request that carries the default policy has not asked for one.
EffectivePolicy(options, fallback) ==
  IF options.redirect = DefaultPolicy THEN fallback ELSE options.redirect

Outgoing(c, p) ==
  [headers |-> Merged(c, p), body |-> p.body, mode |-> p.options.mode,
   timeout |-> IF p.options.timeout # None THEN p.options.timeout ELSE c.timeout,
   redirect |-> EffectivePolicy(p.options, c.redirect)]

(***************************************************************************)
(* Actions                                                                 *)
(***************************************************************************)
Configure ==
  /\ client = None /\ ~IsError(builder) /\ Len(said.client) < MaxCalls
  /\ \E c \in ClientCalls : /\ builder' = Configured(builder, c)
                            /\ said' = [said EXCEPT !.client = Append(@, c)]
  /\ UNCHANGED <<client, request, sent>>

Build ==
  /\ client = None /\ ~IsError(builder)
  /\ IF IsError(Built(builder))
     THEN builder' = Built(builder) /\ UNCHANGED client
     ELSE client' = Built(builder) /\ UNCHANGED builder
  /\ UNCHANGED <<request, sent, said>>

\* Client::request, with a URL the builder takes or refuses.
Start ==
  /\ client # None /\ request = None
  /\ request' \in {NewParts, Failed("url")}
  /\ UNCHANGED <<builder, client, sent, said>>

Compose ==
  /\ request # None /\ sent = None /\ Len(said.request) < MaxCalls
  /\ \E c \in RequestCalls : /\ request' = With(request, c)
                             /\ said' = [said EXCEPT !.request = Append(@, c)]
  /\ UNCHANGED <<builder, client, sent>>

Send ==
  /\ request # None /\ sent = None
  /\ sent' = IF IsError(request) THEN request ELSE Outgoing(client, request)
  /\ UNCHANGED <<builder, client, request, said>>

Init ==
  /\ builder = Default /\ client = None /\ request = None /\ sent = None
  /\ said = [client |-> <<>>, request |-> <<>>]

Next == Configure \/ Build \/ Start \/ Compose \/ Send

Spec == Init /\ [][Next]_vars

(***************************************************************************)
(* Properties                                                              *)
(***************************************************************************)
\* The last call of one of the kinds, or None.
LastOf(calls, kinds) ==
  LET at == {i \in DOMAIN calls : calls[i][1] \in kinds}
  IN IF at = {} THEN None ELSE calls[CHOOSE i \in at : \A j \in at : j <= i]

Said(calls, kind) == \E i \in DOMAIN calls : calls[i][1] = kind

\* Whoever rotates over exits keeps them apart unless they said otherwise:
\* two exits use one jar only when the caller stated Shared, named a jar or
\* configured a single exit; a named jar that is in use is the jar of every
\* exit; and a client whose last word on cookies was "off" has no jar on any
\* route, minted ones included (ClientBuilder::build, JarPerRoute).
ExitsShareOnlyWhenAsked ==
  client # None =>
    LET calls == said.client
        cookies == LastOf(calls, {"cookies", "cookie_jar"})
        route == LastOf(calls, {"proxies", "provider"})
        off == cookies # None /\ cookies[1] = "cookies" /\ ~cookies[2]
    IN /\ off => \A e \in Exits \cup {None} : JarFor(client, e) = None
       /\ (Said(calls, "cookie_jar") /\ ~off) =>
            \A e \in Exits \cup {None} :
              JarFor(client, e) = LastOf(calls, {"cookie_jar"})[2]
       /\ (\E e, f \in Exits : e # f /\ JarFor(client, e) = JarFor(client, f)) =>
            \/ off \/ Said(calls, "cookie_jar")
            \/ LastOf(calls, {"isolation"}) # None /\ LastOf(calls, {"isolation"})[2] = "shared"
            \/ route = None
            \/ route[1] = "proxies" /\ Cardinality(route[2]) = 1

\* The calls of a request that fail.
Unusable(c) == \/ c[1] = "header" /\ c[2][2] = "invalid"
               \/ c[1] \in {"json", "form", "multipart"} /\ c[2] = "unusable"

\* What is sent is what the calls say, whatever their order: the first
\* failing call decides the error and nothing goes out; otherwise each header
\* has the value the request gave it last, else the client's; a content type
\* set with a body is not separated from it by a later body call of another
\* encoding; and a timeout given after the fetch context bounds the request
\* (RequestBuilder::with, build_with_url, Engine::run).
SentAsSaid ==
  (sent # None /\ request # None) =>
    LET calls == said.request
        bad == {i \in DOMAIN calls : Unusable(calls[i])}
        typed == LastOf(calls, {"json", "form", "multipart", "body", "header"})
        time == LastOf(calls, {"timeout", "context"})
        Asked(cs, n) == LET hs == SelectSeq(cs, LAMBDA c : c[1] = "header" /\ c[2][1] = n)
                        IN IF hs = <<>> THEN None ELSE hs[Len(hs)][2][2]
    IN IF IsError(sent)
       THEN \/ sent.error = "url"
            \/ LET c == calls[CHOOSE i \in bad : \A j \in bad : i <= j] IN sent.error = c[1]
       ELSE /\ bad = {}
            /\ (typed # None /\ typed[1] \in {"json", "form", "multipart"}) =>
                 /\ sent.body[1] = typed[1]
                 /\ <<"content-type", typed[1]>> \in ToSet(sent.headers)
            /\ \A n \in {h[1] : h \in ToSet(sent.headers)} \ {"content-type"} :
                 <<n, IF Asked(calls, n) # None THEN Asked(calls, n)
                      ELSE Asked(said.client, n)>> \in ToSet(sent.headers)
            /\ (time # None /\ time[1] = "timeout") => sent.timeout = time[2]

=============================================================================
