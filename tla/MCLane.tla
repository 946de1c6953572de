------------------------------- MODULE MCLane -------------------------------
EXTENDS Lane
CONSTANTS h1, h2, h3, r1, n1, ana, ben
MCSenderOf == [h \in Human |-> IF h = h3 THEN ben ELSE ana]
=============================================================================
