------------------------------- MODULE MCWsHub -------------------------------
EXTENDS WsHub

CONSTANTS nodes, alert, p1, p2, p3, c1

\* p1 and p2 publish the nodes, p3 the alerts.
Publishes == [p \in Producers |-> IF p = p3 THEN alert ELSE nodes]
=============================================================================
