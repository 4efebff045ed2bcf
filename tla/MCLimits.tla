------------------------------ MODULE MCLimits ------------------------------
(***************************************************************************)
(* What paces requests: the rate limiter and the fixed gates.  They share  *)
(* no state, so a behaviour is about the one in focus and the other stands *)
(* still.                                                                  *)
(***************************************************************************)
EXTENDS RateLimiter, FixedConcurrency, TLC

CONSTANTS t1, t2, t3, r4, r5, a, b, c

VARIABLE focus

MCTasks == {t1, t2, t3}
MCRequests == MCTasks \cup {r4, r5}
MCAuthorities == {a, b, c}
Interchangeable == Permutations(MCTasks) \cup Permutations(MCAuthorities)

allVars == <<focus, vars, gateVars>>

AllInit == focus \in {"rate", "gates"} /\ Init /\ GatesInit

\* The limiter comes to rest once every request has passed; the gates never do.
Rest == focus = "rate" /\ UNCHANGED allVars

AllNext ==
    \/ focus = "rate" /\ SerialNext /\ UNCHANGED <<focus, gateVars>>
    \/ focus = "gates" /\ GatesNext /\ UNCHANGED <<focus, vars>>
    \/ Rest

AllSpec == AllInit /\ [][AllNext]_allVars
=============================================================================
