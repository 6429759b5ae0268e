----------------------------- MODULE NodeAlerts -----------------------------
(***************************************************************************)
(* The node registry and the alert engine together: what happens to a      *)
(* machine, and the alerts an operator sees.                               *)
(*                                                                         *)
(* Module AlertManager has variables for the targets that have a row and   *)
(* for the conditions that hold; here both are what GetAllNodesMetrics     *)
(* returns.  A rule is about the status of a node, about its load being    *)
(* high, or about its load being low.                                      *)
(***************************************************************************)
EXTENDS NodeManager, Sequences

CONSTANTS
    Rules, Duration, MaxAlertAge, MaxTurns,
    Metric     \* what each rule is about

ASSUME MetricAssumption == Metric \in [Rules -> {"status", "high", "low"}]

VARIABLES rules, dropped, states, events, eval, turns, heat

alertVars == <<rules, dropped, states, events, eval, turns, heat>>
allVars   == <<vars, alertVars>>

\* GetAllNodesMetrics.
Present == {ip \in Ips : Listed(ip)}

\* Mutant: the figures are compared as they were reported.
ConditionUnzeroed(r, ip) ==
    CASE Metric[r] = "status" -> Offline(ip)
      [] Metric[r] = "high"   -> figures[ip] = "high"
      [] Metric[r] = "low"    -> figures[ip] # "high"

\* checkCondition.  What was not reported, and what an offline node is shown
\* with, is zero.
Condition(r, ip) ==
    CASE Metric[r] = "status" -> Offline(ip)
      [] Metric[r] = "high"   -> ShownLoad(ip) = "high"
      [] Metric[r] = "low"    -> ShownLoad(ip) # "high"

Hot == {k \in Rules \X Present : Condition(k[1], k[2])}

A == INSTANCE AlertManager WITH Targets <- Ips, MaxAge <- MaxAlertAge,
                                present <- Present, hot <- Hot

Init == InitNodes /\ A!Init

\* The two sides move apart, but for the clock and the restart of the master.
Registry == Nodes /\ UNCHANGED alertVars
Engine   == UNCHANGED vars /\ A!Evaluate
Rule     == UNCHANGED vars /\ \E r \in Rules : A!AddRule(r) \/ A!DeleteRule(r)
Clock    == Tick /\ A!Age
Restart  == RestartNodes /\ A!Forget

Next == Registry \/ Engine \/ Rule \/ Clock \/ Restart

Spec == Init /\ [][Next]_allVars

\* Handlers and the evaluation loop run, an agent that is up goes on sending,
\* and time goes by: a pass that applies holds the clock for a moment only.  It
\* publishes its alerts under am.mu: no browser is to hold up the hub (module WsHub).
Fairness ==
    /\ \A ip \in Ips : WF_allVars(Beat(ip) /\ UNCHANGED alertVars)
    /\ WF_allVars(Handlers /\ UNCHANGED alertVars)
    /\ WF_allVars(Engine)
    /\ SF_allVars(Clock)

FairSpec == Spec /\ Fairness

-----------------------------------------------------------------------------
(***************************************************************************)
(* Properties                                                              *)
(***************************************************************************)
\* A worker that is gone to stay, on a node that was listed, has the alert on its
\* status raised, and the alert on its load withdrawn: an offline node shows none.
DeadRaised ==
    \A r \in Rules, ip \in Ips :
        <>[](worker[ip] = "down" /\ r \in rules /\ Listed(ip)) =>
            <>[](A!Firing(<<r, ip>>) <=> Metric[r] \in {"status", "low"})

\* A worker that is up to stay has the alert on its status withdrawn, and the
\* alerts on its load say what its load is.
AliveSettled ==
    \A r \in Rules, ip \in Ips :
        <>[](worker[ip] = "up" /\ r \in rules) =>
            <>[](A!Firing(<<r, ip>>) <=> Metric[r] = load[ip])

\* The alerts end up saying what becomes of the worker, either way, while no browser
\* holds up the hub that a pass publishes to.
AlertsFollow == DeadRaised /\ AliveSettled
=============================================================================
