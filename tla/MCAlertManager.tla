--------------------------- MODULE MCAlertManager ---------------------------
\* Two rules with different durations.
EXTENDS AlertManager

CONSTANTS r1, r2, t1, t2

OneTick == [r \in Rules |-> IF r = r1 THEN 1 ELSE 0]
=============================================================================
