------------------------------ MODULE MCFixed ------------------------------
EXTENDS FixedConcurrency, TLC
CONSTANTS t1, t2, t3, a, b, c
MCTasks == {t1, t2, t3}
MCAuthorities == {a, b, c}
Interchangeable == Permutations(MCTasks) \cup Permutations(MCAuthorities)
============================================================================
