--------------------------- MODULE RequestHeaders ---------------------------
(***************************************************************************)
(* The headers of one logical request, hop by hop: the profile's captured  *)
(* order, the names this request adds to it, the values the header engine  *)
(* computes from the request, the caller's own headers in the profile's    *)
(* slots, and what a redirect takes off before the next hop.               *)
(* chromulate-header (engine, order, fetch_site, accept, priority), core's *)
(* uri.rs and request.rs, and redirect.rs and rebuild of chromulate-http.  *)
(*                                                                         *)
(* A header is <<name, value>>; a value is a tuple that names its source.  *)
(***************************************************************************)
EXTENDS HostNames, FiniteSets

CONSTANTS None,
          Urls,            \* [scheme, host, port, path]
          Requests,        \* [url, method, headers, mode, dest, initiator, referrer, activated]
          Navigate,        \* the captured navigation order
          Subresource,     \* the captured subresource order, None without one
          Unencodable,     \* the profile values no header can carry
          GrantedHints,    \* origin -> the hint headers Accept-CH granted it
          HintsHeld,       \* the hint headers the profile has values for
          Limit            \* the redirect limit

VARIABLES chain,   \* None, or the request as it travels
          wire     \* the hops sent: [url, target, headers, version, req]

vars == <<chain, wire>>

HintOrder == <<"sec-ch-ua-arch", "sec-ch-ua-model">>

Hints == ToSet(HintOrder)

OriginOf(url) == [scheme |-> url.scheme, host |-> url.host, port |-> url.port]

IsSecure(origin) == origin.scheme = "https"

\* strict-origin-when-cross-origin: nothing on a downgrade, the whole URL
\* without its credentials to the same origin, the origin alone to another.
ReferrerFor(from, to) ==
  IF IsSecure(OriginOf(from)) /\ ~IsSecure(OriginOf(to)) THEN None
  ELSE IF OriginOf(from) = OriginOf(to) THEN <<"page", from>>
  ELSE <<"origin", OriginOf(from)>>

SchemefulSameSite(a, b) == a.scheme = b.scheme /\ SiteOf(a.host) = SiteOf(b.host)

FetchSite(initiator, target) ==
  IF initiator = None THEN "none"
  ELSE IF initiator = target THEN "same-origin"
  ELSE IF SchemefulSameSite(initiator, target) THEN "same-site"
  ELSE "cross-site"

AcceptFallback(dest) ==
  IF dest \in {"document", "iframe"} THEN None
  ELSE IF dest \in {"style", "image"} THEN <<"accept", dest>> ELSE <<"accept", "any">>

PriorityFor(dest) ==
  IF dest \in {"document", "iframe"} THEN "u=0, i"
  ELSE IF dest \in {"style", "font"} THEN "u=0"
  ELSE IF dest = "script" THEN "u=1" ELSE "u=3"

IsSafe(method) == method \in {"GET", "HEAD"}

OriginHeader(req, target) ==
  IF req.initiator # None
     /\ (~IsSafe(req.method) \/ (req.mode # "navigate" /\ req.initiator # target))
  THEN <<"origin", req.initiator>> ELSE None

NeedsHost(version) == version = "h1"

(***************************************************************************)
(* The order                                                               *)
(***************************************************************************)
Position(order, name) ==
  IF Contains(order, name)
  THEN CHOOSE i \in DOMAIN order : order[i] = name /\ \A j \in 1..i - 1 : order[j] # name
  ELSE 0

Spliced(order, at, names) == SubSeq(order, 1, at) \o names \o SubSeq(order, at + 1, Len(order))

InsertBefore(order, anchor, name) ==
  IF Contains(order, name) THEN order
  ELSE Spliced(order, IF Contains(order, anchor) THEN Position(order, anchor) - 1 ELSE Len(order),
               <<name>>)

InsertAfter(order, anchor, name) ==
  IF Contains(order, name) THEN order
  ELSE Spliced(order, IF Contains(order, anchor) THEN Position(order, anchor) ELSE Len(order),
               <<name>>)

BuildOrder(base, ctx) ==
  LET hosted == IF ctx.host # None /\ ~Contains(base, "host") THEN <<"host">> \o base ELSE base
      hints == SelectSeq(HintOrder, LAMBDA h : h \in ctx.granted /\ ~Contains(hosted, h))
      anchor == Position(hosted, "sec-ch-ua-platform")
      hinted == Spliced(hosted, IF anchor > 0 THEN anchor ELSE Len(hosted), hints)
      origin == IF ctx.origin # None THEN InsertBefore(hinted, "sec-fetch-site", "origin") ELSE hinted
      user == IF ctx.activated THEN InsertBefore(origin, "sec-fetch-dest", "sec-fetch-user") ELSE origin
  IN IF ctx.referer # None THEN InsertAfter(user, "sec-fetch-dest", "referer") ELSE user

(***************************************************************************)
(* The values                                                              *)
(***************************************************************************)
ProfileConstants ==
  {"sec-ch-ua", "sec-ch-ua-mobile", "sec-ch-ua-platform", "user-agent", "accept-encoding",
   "accept-language"}

\* dynamic_value: what the engine computes per request, None where the header
\* does not apply.
DynamicValue(name, ctx) ==
  IF name \in Hints
       THEN IF name \in ctx.granted \cap HintsHeld THEN <<"profile", name>> ELSE None
  ELSE IF name = "accept"
       THEN IF AcceptFallback(ctx.dest) # None THEN AcceptFallback(ctx.dest) ELSE <<"profile", name>>
  ELSE IF name = "sec-fetch-site" THEN <<"site", ctx.site>>
  ELSE IF name = "sec-fetch-mode" THEN <<"mode", ctx.mode>>
  ELSE IF name = "sec-fetch-dest" THEN <<"dest", ctx.dest>>
  ELSE IF name = "sec-fetch-user" THEN IF ctx.activated THEN <<"user", "?1">> ELSE None
  ELSE IF name = "upgrade-insecure-requests"
       THEN IF ctx.mode = "navigate" THEN <<"upgrade", "1">> ELSE None
  ELSE IF name = "priority" THEN <<"priority", PriorityFor(ctx.dest)>>
  ELSE IF name = "referer" THEN ctx.referer
  ELSE IF name = "origin" THEN ctx.origin
  ELSE IF name = "host" THEN ctx.host
  ELSE None

\* A slot holds a constant of the profile or is computed; the engine has no
\* value for any other name.
SlotValue(name, ctx) ==
  IF name \in ProfileConstants THEN <<"profile", name>> ELSE DynamicValue(name, ctx)

\* The facts of one hop.
Context(req, url, version) ==
  LET target == OriginOf(url)
  IN [site |-> FetchSite(req.initiator, target), mode |-> req.mode, dest |-> req.dest,
      origin |-> OriginHeader(req, target),
      referer |-> IF req.referrer = None THEN None ELSE ReferrerFor(req.referrer, url),
      host |-> IF NeedsHost(version) THEN <<"host", target>> ELSE None,
      activated |-> req.activated, granted |-> GrantedHints[target]]

Named(headers, name) == SelectSeq(headers, LAMBDA h : h[1] = name)

\* apply: the caller's values win, in the profile's slot; what the caller set
\* and the order does not know comes last.  None is the error of a profile
\* value no header can carry.
Apply(headers, base, ctx) ==
  LET order == BuildOrder(base, ctx)
      slots == SelectSeq([i \in DOMAIN order |-> <<i, order[i]>>],
                         LAMBDA s : Position(order, s[2]) = s[1])
      At(s) == LET own == Named(headers, s[2])
                   value == SlotValue(s[2], ctx)
               IN IF own # <<>> THEN own
                  ELSE IF value = None THEN <<>> ELSE << <<s[2], value>> >>
      rest == SelectSeq(headers, LAMBDA h : ~Contains(order, h[1]))
  IN IF \E i \in DOMAIN slots : /\ Named(headers, slots[i][2]) = <<>>
                                /\ SlotValue(slots[i][2], ctx) \in Unencodable
     THEN None
     ELSE FlattenSeq([i \in DOMAIN slots |-> At(slots[i])]) \o rest

(***************************************************************************)
(* Actions                                                                 *)
(***************************************************************************)
\* outgoing_request: HTTP/1.1 has the path on its request line, HTTP/2 the whole
\* URL, from which the authority pseudo-header is taken.
Target(url, version) ==
  IF version = "h1" THEN [authority |-> None, path |-> url.path]
  ELSE [authority |-> OriginOf(url), path |-> url.path]

Base(mode) == IF mode = "navigate" \/ Subresource = None THEN Navigate ELSE Subresource

Start == /\ chain = None
         /\ \E r \in Requests : chain' = [req |-> r, url |-> r.url, headers |-> r.headers,
                                          phase |-> "ready", hops |-> 0]
         /\ UNCHANGED wire

\* hop: the protocol is known, the headers go onto the request and the wire.
Hop ==
  /\ chain # None /\ chain.phase = "ready"
  /\ \E version \in {"h1", "h2"} :
       LET ordered == Apply(chain.headers, Base(chain.req.mode), Context(chain.req, chain.url, version))
       IN IF ordered = None
          THEN chain' = [chain EXCEPT !.phase = "done"] /\ UNCHANGED wire
          ELSE /\ chain' = [chain EXCEPT !.phase = "sent", !.headers = ordered]
               /\ wire' = Append(wire, [url |-> chain.url, target |-> Target(chain.url, version),
                                        headers |-> ordered, version |-> version, req |-> chain.req])

MethodAfter(status, method) ==
  IF (status \in {301, 302} /\ method = "POST") \/ (status = 303 /\ ~IsSafe(method))
  THEN "GET" ELSE method

CredentialHeaders == {"authorization", "cookie", "proxy-authorization"}
ContentHeaders == {"content-length", "content-type", "transfer-encoding"}

\* Mutant of Rebuild: the host of the previous hop stays on the request.
RebuildKeepingHost(headers, crosses, dropsBody) ==
  SelectSeq(headers, LAMBDA h : /\ ~(crosses /\ h[1] \in CredentialHeaders)
                                /\ ~(dropsBody /\ h[1] \in ContentHeaders))

Rebuild(headers, crosses, dropsBody) ==
  SelectSeq(headers, LAMBDA h : /\ ~(crosses /\ h[1] \in CredentialHeaders)
                                /\ ~(dropsBody /\ h[1] \in ContentHeaders)
                                /\ h[1] # "host")

\* The answer redirects, or is the caller's.
Redirect ==
  /\ chain # None /\ chain.phase = "sent"
  /\ \E status \in {301, 303, 307}, target \in Urls :
       LET method == MethodAfter(status, chain.req.method)
           crosses == OriginOf(chain.url) # OriginOf(target)
       IN chain' = IF chain.hops >= Limit THEN [chain EXCEPT !.phase = "done"]
                   ELSE [chain EXCEPT !.phase = "ready", !.hops = @ + 1, !.url = target,
                           !.req.method = method,
                           !.headers = Rebuild(@, crosses, method # chain.req.method)]
  /\ UNCHANGED wire

Answer == /\ chain # None /\ chain.phase = "sent"
          /\ chain' = [chain EXCEPT !.phase = "done"]
          /\ UNCHANGED wire

Init == chain = None /\ wire = <<>>

Next == Start \/ Hop \/ Redirect \/ Answer

Spec == Init /\ [][Next]_vars

(***************************************************************************)
(* Properties                                                              *)
(***************************************************************************)
Names(headers) == [i \in DOMAIN headers |-> headers[i][1]]

\* What goes on the wire has the captured shape on every hop of a chain,
\* although the next hop starts from what the last one wrote: no name appears
\* twice unless the caller repeated it, the names the capture orders keep its
\* order, this hop's origin is named once, by Host or by the request target, a
\* caller's value is never replaced on the first hop, and no credential of the
\* caller reaches an origin other than the first (apply, build_order, rebuild).
WireKeepsShape ==
  \A n \in DOMAIN wire :
    LET sent == wire[n].headers
        base == Base(wire[n].req.mode)
        own == chain.req.headers
        crossed == \E k \in 1..n - 1 : OriginOf(wire[k].url) # OriginOf(wire[k + 1].url)
    IN /\ \A i, j \in DOMAIN sent :
            (i < j /\ sent[i][1] = sent[j][1]) => Len(Named(own, sent[i][1])) > 1
       /\ \A i, j \in DOMAIN sent :
            (/\ i < j /\ sent[i][1] # sent[j][1]
             /\ Contains(base, sent[i][1]) /\ Contains(base, sent[j][1])) =>
              Position(base, sent[i][1]) < Position(base, sent[j][1])
       /\ (n > 1 \/ Named(own, "host") = <<>>) =>
            LET hosts == Named(sent, "host")
                authority == wire[n].target.authority
            IN \/ hosts = << <<"host", <<"host", OriginOf(wire[n].url)>> >> >> /\ authority = None
               \/ hosts = <<>> /\ authority = OriginOf(wire[n].url)
       /\ (n = 1) => \A i \in DOMAIN own : Named(sent, own[i][1]) = Named(own, own[i][1])
       /\ crossed => \A i \in DOMAIN sent : sent[i][1] \notin CredentialHeaders

=============================================================================
