------------------------------ MODULE MCHandoff ------------------------------
EXTENDS Handoff
CONSTANTS c1, c2, u1, u2, e1
TwoCalls == {c1, c2}
OwnOrigin == [u \in {u1, u2} |-> u]
ThreePlaces == {[url |-> u1, exit |-> None], [url |-> u1, exit |-> e1], [url |-> u2, exit |-> None]}
=============================================================================
