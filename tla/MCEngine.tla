------------------------------ MODULE MCEngine ------------------------------
(* Two requests over two hosts, at most one in exchange with an origin. *)
EXTENDS Engine

CONSTANTS a, b, main, other

At(scheme, host) == [scheme |-> scheme, host |-> host]

MCHosts == {a, b}

MCTargets == {At("https", a), At("https", b)}

\* Redirects that leave TLS as well.
MCAllTargets == Url

\* One request is a GET with the caller's own cookie that may be replayed or a
\* POST whose body is a stream; the other, a POST with a buffer, competes for
\* the leases and teaches the stores.
MCSubmissions ==
    [r \in Requests |->
        IF r = other
        THEN {[url |-> At("https", b), method |-> "POST", body |-> "buffer", cookie |-> None]}
        ELSE {[url |-> At("http", a), method |-> "GET", body |-> "empty", cookie |-> "caller"],
              [url |-> At("https", a), method |-> "POST", body |-> "stream", cookie |-> None]}]

=============================================================================
