----------------------------- MODULE HostNames -----------------------------
(***************************************************************************)
(* Host names and URL paths as the stores compare them.  A name is the     *)
(* sequence of its labels from the right, so that a parent domain is a     *)
(* prefix; a path is the sequence of what stands between its slashes, so   *)
(* "/" is <<"">>, "/a" is <<"a">> and "/a/" is <<"a", "">>.                *)
(***************************************************************************)
EXTENDS Integers, Sequences, SequencesExt

CONSTANTS
    PublicSuffixes,  \* the listed suffixes of more than one label
    IpLiterals       \* the hosts that are addresses

\* psl::domain: one label more than the longest suffix; an unlisted top-level
\* domain is a suffix of one label.
Registrable(host) ==
    LET listed == {s \in PublicSuffixes : IsPrefix(s, host)}
        suffix == IF listed = {} THEN 1
                  ELSE Len(CHOOSE s \in listed : \A t \in listed : Len(t) <= Len(s))
    IN  SubSeq(host, 1, suffix + 1)

HasRegistrable(host) ==
    /\ Len(host) > 1
    /\ host \notin PublicSuffixes

IsIpLiteral(host) == host \in IpLiterals

IsPublicSuffix(domain) == ~HasRegistrable(domain)

\* A name matches itself and, unless it is an address, every parent.
DomainMatches(host, domain) ==
    host = domain \/ (~IsIpLiteral(host) /\ IsStrictPrefix(domain, host))

\* The registrable domain, or the host itself where there is none.
SiteOf(host) ==
    IF IsIpLiteral(host) \/ ~HasRegistrable(host) THEN host ELSE Registrable(host)

IsSameSite(a, b) == SiteOf(a) = SiteOf(b)

Root == <<"">>

\* default_path: the directory of the request.
DefaultPath(path) == IF Len(path) = 1 THEN Root ELSE Front(path)

\* path_matches: a prefix that ends where a segment does.
PathMatches(path, scope) ==
    \/ path = scope
    \/ IsStrictPrefix(scope, path)
    \/ Last(scope) = "" /\ Len(path) >= Len(scope) /\ IsPrefix(Front(scope), path)
=============================================================================
