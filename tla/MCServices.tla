----------------------------- MODULE MCServices -----------------------------
(***************************************************************************)
(* The parts of the master that serve requests and timers of their own and *)
(* share nothing with each other: the WebSocket hub, the Nacos proxy, the  *)
(* log stream, remote commands and the alert engine.  No step of one part  *)
(* touches what another reads, so that each is looked at while the others  *)
(* rest: the run has the behaviours of every part, and not their product.  *)
(***************************************************************************)
EXTENDS WsHub, ConfigManager, LogStream, RemoteCommand, AlertManager

CONSTANTS c1, c2, r1, t1, nodes, p1, p2

VARIABLE part    \* the part that is looked at

allVars == <<part, hubVars, proxyVars, streamVars, commandVars, vars>>

\* Two handlers that publish the nodes.
Publishes == [p \in Producers |-> nodes]

\* One call that reads and one that writes.
ReadAndWrite == [c \in Calls |-> IF c = c1 THEN {"GET"} ELSE {"POST"}]

\* Rules that wait a tick.
OneTick == [r \in Rules |-> 1]

ASSUME ServicesAssumption ==
    /\ HubAssumption /\ ConfigAssumption /\ WindowAssumption /\ PageAssumption /\ AlertAssumption

AllInit ==
    /\ part \in {"hub", "nacos", "stream", "command", "alerts"}
    /\ InitHub /\ InitProxy /\ InitStream /\ InitCommand /\ Init

In(p)      == part = p /\ UNCHANGED part
ButHub     == In("hub") /\ UNCHANGED <<proxyVars, streamVars, commandVars, vars>>
ButNacos   == In("nacos") /\ UNCHANGED <<hubVars, streamVars, commandVars, vars>>
ButStream  == In("stream") /\ UNCHANGED <<hubVars, proxyVars, commandVars, vars>>
ButCommand == In("command") /\ UNCHANGED <<hubVars, proxyVars, streamVars, vars>>
ButAlerts  == In("alerts") /\ UNCHANGED <<hubVars, proxyVars, streamVars, commandVars>>

AllNext ==
    \/ ButHub /\ NextHub
    \/ ButNacos /\ NextProxy
    \/ ButStream /\ NextStream
    \/ ButCommand /\ NextCommand
    \/ ButAlerts /\ Next

\* The fairness of each part.  One part moves in a behaviour, so that the
\* fairness of actions of different parts is that of their disjunction.  A pass of
\* the alert engine ends while no browser holds up the hub, and nothing is assumed
\* of Nacos, which the proxy waits for without a limit.
AllFairness ==
    /\ \A p \in {p1, p2} : SF_allVars(ButHub /\ Publish(p))
    /\ SF_allVars((ButHub /\ Run) \/ (ButAlerts /\ Tick))
    /\ SF_allVars(ButHub /\ Push)
    /\ SF_allVars(ButHub /\ Serve(c1))
    /\ WF_allVars((ButStream /\ ServeLog) \/ (ButAlerts /\ Evaluate))
    /\ WF_allVars(ButStream /\ Ear) /\ WF_allVars(ButStream /\ Pump) /\ WF_allVars(ButStream /\ Echo)
    /\ WF_allVars(ButStream /\ Proxy)

AllSpec == AllInit /\ [][AllNext]_allVars /\ AllFairness

-----------------------------------------------------------------------------
\* The types of all the parts.
AllTypeOK ==
    HubTypeOK /\ ProxyTypeOK /\ StreamTypeOK /\ CommandTypeOK /\ TypeOK

\* Every part keeps its types, and the log of operations is sound; the other
\* properties are those of the modules.
ServicesInv == AllTypeOK /\ LogSound
=============================================================================
