------------------------------- MODULE MCPool -------------------------------
(***************************************************************************)
(* The pool under two loads: three exchanges with two plain origins, room  *)
(* for two idle connections each and three in all; and two exchanges at a  *)
(* time with two secure origins, room for one registration.                *)
(***************************************************************************)
EXTENDS Pool, TLC

CONSTANTS t1, t2, t3, a, b

Three == {t1, t2, t3}
Pair == {a, b}
Four == 1..4
Interchangeable == Permutations(Three) \cup Permutations(Pair)

Plain == [secure |-> {}, idle_timeout |-> 2, max_per_host |-> 2, max_total |-> 3]
Shared == [secure |-> Pair, idle_timeout |-> 4, max_per_host |-> 1, max_total |-> 1]
Both == {Plain, Shared}

\* The second load has two exchanges under way at most.
LoadNext ==
    /\ Next
    /\ setup = Shared => Cardinality({t \in Tasks : pc'[t] # "idle"}) <= 2

LoadSpec == Init /\ [][LoadNext]_vars
=============================================================================
