---------------------------- MODULE MCNodeAlerts ----------------------------
\* One node, and one rule of either kind.
EXTENDS NodeAlerts

CONSTANTS n1, rStatus, rHigh, rLow

MetricOf == [r \in Rules |-> CASE r = rStatus -> "status" [] r = rHigh -> "high" [] r = rLow -> "low"]
OneTick  == [r \in Rules |-> IF r = rStatus THEN 1 ELSE 0]

\* One rule can be added: the others have been deleted.
MCInit == \E r \in Rules :
    /\ InitNodes
    /\ rules = {} /\ dropped = Rules \ {r}
    /\ states = [k \in A!Keys |-> A!Absent]
    /\ events = <<>> /\ eval = A!Idle /\ turns = 0
    /\ heat = [k \in A!Keys |-> -1]

MCSpec == MCInit /\ [][Next]_allVars /\ Fairness
=============================================================================
