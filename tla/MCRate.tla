------------------------------- MODULE MCRate -------------------------------
EXTENDS RateLimiter, TLC
CONSTANTS r1, r2, r3, r4, r5
MCRequests == {r1, r2, r3, r4, r5}
MCFour == {r1, r2, r3, r4}
Interchangeable == Permutations(MCRequests)
=============================================================================
