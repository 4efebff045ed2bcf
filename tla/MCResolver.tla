----------------------------- MODULE MCResolver -----------------------------
EXTENDS CachingResolver
CONSTANTS c1, c2, c3, a, b
MCCallers == {c1, c2, c3}
MCHosts == {a, b}
MCLookups == 1 .. 3
=============================================================================
