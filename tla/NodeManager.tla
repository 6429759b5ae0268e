---------------------------- MODULE NodeManager ----------------------------
(***************************************************************************)
(* The node registry of the master and the heartbeat agents of the         *)
(* workers: the rows of node_infos, the figures in metricsCache, and what  *)
(* GetAllNodes makes of both.                                              *)
(*                                                                         *)
(* An agent sends one heartbeat after the other and ignores how each ends; *)
(* a handler goes on after its agent has given up, so that two heartbeats  *)
(* of one node can be under way.  HandleHeartbeat stores the figures       *)
(* without a lock and upserts the row under nm.mu, which the operations of *)
(* the API hold too.  What it writes to the time series is in module       *)
(* MemoryTSDB, what is broadcast in module WsHub.                          *)
(*                                                                         *)
(* Time is counted in ticks; only now - last_heartbeat is ever used, and   *)
(* a row holds that age.                                                   *)
(***************************************************************************)
EXTENDS Integers, FiniteSets

CONSTANTS
    Ips,         \* the key of a node: the address its heartbeats come from
    Threshold,   \* offlineThreshold, in ticks
    MaxBeats,    \* bound: heartbeats of one node under way at a time
    MaxMoves     \* bound: what the operators, the workers and the network do

ASSUME NodeAssumption ==
    Threshold \in Nat /\ MaxBeats \in Nat \ {0} /\ MaxMoves \in Nat

VARIABLES
    row,      \* node_infos
    figures,  \* metricsCache: the load last reported, or "none"
    worker,   \* is the worker up, or down
    load,     \* the load of the machine
    beats,    \* heartbeats under way: not yet handled, or half handled, and
              \* whether the agent still waits for the answer
    moves     \* bound: moves so far

vars == <<row, figures, worker, load, beats, moves>>

Loads  == {"low", "high"}
Names  == {"hostname", "given", "pending"}
NoRow  == [status |-> "none", name |-> "pending", hostname |-> "pending", age |-> 0]
Online(name) == [status |-> "online", name |-> name, hostname |-> "hostname", age |-> 0]
Planned      == [status |-> "planned", name |-> "given", hostname |-> "pending", age |-> 0]

\* An age above the threshold makes no difference.
MaxAge == Threshold + 1

TypeOK ==
    /\ row     \in [Ips -> [status : {"none", "planned", "online"}, name : Names,
                            hostname : {"hostname", "pending"}, age : 0..MaxAge]]
    /\ figures \in [Ips -> Loads \cup {"none"}]
    /\ worker  \in [Ips -> {"up", "down"}]
    /\ load    \in [Ips -> Loads]
    /\ beats   \subseteq [ip : Ips, load : Loads, at : {"sent", "stored"}, awaited : BOOLEAN]
    /\ moves   \in 0..MaxMoves

InitNodes ==
    /\ row     = [ip \in Ips |-> NoRow]
    /\ figures = [ip \in Ips |-> "none"]
    /\ worker  = [ip \in Ips |-> "down"]
    /\ load    = [ip \in Ips |-> "low"]
    /\ beats   = {}
    /\ moves   = 0

Known(ip) == row[ip] # NoRow
Move      == moves < MaxMoves /\ moves' = moves + 1

-----------------------------------------------------------------------------
(***************************************************************************)
(* StartHeartbeat, on the worker                                           *)
(***************************************************************************)

Beat(ip) ==
    /\ worker[ip] = "up"
    /\ ~\E b \in beats : b.ip = ip /\ b.awaited
    /\ Cardinality({b \in beats : b.ip = ip}) < MaxBeats
    /\ beats' = beats \cup {[ip |-> ip, load |-> load[ip], at |-> "sent", awaited |-> TRUE]}
    /\ UNCHANGED <<row, figures, worker, load, moves>>

\* PostJSON gives up; what was sent is handled all the same.
Abandon(S) == {IF b \in S THEN [b EXCEPT !.awaited = FALSE] ELSE b : b \in beats}

GiveUp(b) ==
    /\ Move
    /\ b.awaited
    /\ beats' = Abandon({b})
    /\ UNCHANGED <<row, figures, worker, load>>

\* The network drops a heartbeat.
Lose(b) ==
    /\ Move
    /\ b.at = "sent"
    /\ beats' = beats \ {b}
    /\ UNCHANGED <<row, figures, worker, load>>

-----------------------------------------------------------------------------
(***************************************************************************)
(* HandleHeartbeat, on the master                                          *)
(***************************************************************************)

\* The figures, without a lock.
StoreFigures(b) ==
    /\ b.at = "sent"
    /\ figures' = [figures EXCEPT ![b.ip] = b.load]
    /\ beats'   = (beats \ {b}) \cup {[b EXCEPT !.at = "stored"]}
    /\ UNCHANGED <<row, worker, load, moves>>

\* Mutant: the UPDATE sets the name as well.
UpsertRename(b) ==
    /\ b.at = "stored"
    /\ row'   = [row EXCEPT ![b.ip] = Online("hostname")]
    /\ beats' = beats \ {b}
    /\ UNCHANGED <<figures, worker, load, moves>>

\* Mutant: the UPDATE leaves last_heartbeat alone.
UpsertStale(b) ==
    /\ b.at = "stored"
    /\ row' = [row EXCEPT ![b.ip] =
                  IF @ = NoRow THEN Online("hostname")
                  ELSE [Online(@.name) EXCEPT !.age = row[b.ip].age]]
    /\ beats' = beats \ {b}
    /\ UNCHANGED <<figures, worker, load, moves>>

\* The row, under nm.mu: inserted under its hostname, or updated but for its
\* name.  A planned node is online from then on.
Upsert(b) ==
    /\ b.at = "stored"
    /\ row'   = [row EXCEPT ![b.ip] = Online(IF @ = NoRow THEN "hostname" ELSE @.name)]
    /\ beats' = beats \ {b}
    /\ UNCHANGED <<figures, worker, load, moves>>

HandleHeartbeat(b) == b \in beats /\ (StoreFigures(b) \/ Upsert(b))

-----------------------------------------------------------------------------
(***************************************************************************)
(* The operations of the API, each under nm.mu                             *)
(***************************************************************************)

\* os and last_heartbeat stay NULL until the first heartbeat.
AddPlannedNode(ip) ==
    /\ Move
    /\ ~Known(ip)
    /\ row' = [row EXCEPT ![ip] = Planned]
    /\ UNCHANGED <<figures, worker, load, beats>>

\* Mutant: the cache is not cleaned.
DeleteNodeRow(ip) ==
    /\ Move
    /\ Known(ip)
    /\ row' = [row EXCEPT ![ip] = NoRow]
    /\ UNCHANGED <<figures, worker, load, beats>>

\* Whatever the status: the branch that asks for it is empty.
DeleteNode(ip) ==
    /\ Move
    /\ Known(ip)
    /\ row'     = [row EXCEPT ![ip] = NoRow]
    /\ figures' = [figures EXCEPT ![ip] = "none"]
    /\ UNCHANGED <<worker, load, beats>>

RenameNode(ip) ==
    /\ Move
    /\ Known(ip)
    /\ row' = [row EXCEPT ![ip].name = "given"]
    /\ UNCHANGED <<figures, worker, load, beats>>

ResetNodeName(ip) ==
    /\ Move
    /\ Known(ip)
    /\ row' = [row EXCEPT ![ip].name = row[ip].hostname]
    /\ UNCHANGED <<figures, worker, load, beats>>

-----------------------------------------------------------------------------
(***************************************************************************)
(* GetAllNodes                                                             *)
(***************************************************************************)

\* The scan of a row with a NULL fails, and the row is passed over.
Listed(ip) == row[ip].status = "online"

\* Mutant: a node is offline at the threshold and not above it.
OfflineEarly(ip) == Listed(ip) /\ row[ip].age >= Threshold

Offline(ip) == Listed(ip) /\ row[ip].age > Threshold

\* Mutant: the figures of an offline node are kept.
ShownLoadKept(ip) == figures[ip]

\* Zero when nothing was reported, or the node is offline.
ShownLoad(ip) == IF Offline(ip) THEN "none" ELSE figures[ip]

-----------------------------------------------------------------------------
(***************************************************************************)
(* Time and the world                                                      *)
(***************************************************************************)

\* Nodes that are up and would become offline by the next tick: the network or
\* the master has been too slow for them, which counts as a move.
Overdue == {ip \in Ips : worker[ip] = "up" /\ Listed(ip) /\ row[ip].age = Threshold}

\* Mutant: ages are not capped.
TickUncapped ==
    /\ IF Overdue = {} THEN UNCHANGED moves ELSE Move
    /\ row' = [ip \in Ips |-> IF Listed(ip) THEN [row[ip] EXCEPT !.age = @ + 1] ELSE row[ip]]
    /\ UNCHANGED <<figures, worker, load, beats>>

Tick ==
    /\ IF Overdue = {} THEN UNCHANGED moves ELSE Move
    /\ row' = [ip \in Ips |-> IF Listed(ip) /\ row[ip].age < MaxAge
                              THEN [row[ip] EXCEPT !.age = @ + 1] ELSE row[ip]]
    /\ UNCHANGED <<figures, worker, load, beats>>

Boot(ip) ==
    /\ Move
    /\ worker[ip] = "down"
    /\ worker' = [worker EXCEPT ![ip] = "up"]
    /\ UNCHANGED <<row, figures, load, beats>>

\* What the worker has sent is still under way.
Die(ip) ==
    /\ Move
    /\ worker[ip] = "up"
    /\ worker' = [worker EXCEPT ![ip] = "down"]
    /\ beats'  = Abandon({b \in beats : b.ip = ip})
    /\ UNCHANGED <<row, figures, load>>

Work(ip) ==
    /\ Move
    /\ \E l \in Loads \ {load[ip]} : load' = [load EXCEPT ![ip] = l]
    /\ UNCHANGED <<row, figures, worker, beats>>

\* The master is started again: the rows are what is left, and every agent has
\* an error for an answer.
RestartNodes ==
    /\ Move
    /\ figures' = [ip \in Ips |-> "none"]
    /\ beats'   = {}
    /\ UNCHANGED <<row, worker, load>>

-----------------------------------------------------------------------------
Handlers == \E b \in beats : HandleHeartbeat(b)
Agents   == \E ip \in Ips : Beat(ip)

Operator ==
    \E ip \in Ips :
        \/ AddPlannedNode(ip) \/ DeleteNode(ip)
        \/ RenameNode(ip) \/ ResetNodeName(ip)

World ==
    \/ \E b \in beats : GiveUp(b) \/ Lose(b)
    \/ \E ip \in Ips : Boot(ip) \/ Die(ip) \/ Work(ip)

Nodes == Handlers \/ Agents \/ Operator \/ World

-----------------------------------------------------------------------------
(***************************************************************************)
(* Properties                                                              *)
(***************************************************************************)

\* The cache holds figures of a node that is not registered only while the
\* heartbeat that brought them is being handled: deleting nodes leaks nothing,
\* whatever heartbeats cross the deletion.
FiguresHaveNode ==
    \A ip \in Ips :
        figures[ip] # "none" =>
            \/ Known(ip)
            \/ \E b \in beats : b.ip = ip /\ b.at = "stored"

\* A name an operator has given, to a planned node or to one that reports, is
\* not undone by a heartbeat: as long as the node stays registered its name
\* changes only in a step that counts as a move, which no heartbeat is.
NamesKept ==
    [][\A ip \in Ips :
          Known(ip) /\ Known(ip)' /\ row'[ip].name # row[ip].name => moves' # moves]_vars

\* A worker that is up to stay is listed as online to stay, with the load its
\* machine has: after losses, after a deletion that crossed a heartbeat, after
\* restarts of the master.
AliveShown ==
    \A ip \in Ips :
        <>[](worker[ip] = "up") => <>[](Listed(ip) /\ ~Offline(ip) /\ ShownLoad(ip) = load[ip])

\* A worker that is gone to stay does not stay online, and its load is not shown.
DeadShown ==
    \A ip \in Ips :
        <>[](worker[ip] = "down") => <>[](Listed(ip) => Offline(ip) /\ ShownLoad(ip) = "none")

\* The invariant of the registry: its types, and figures of registered nodes only.
NodesInv == TypeOK /\ FiguresHaveNode

\* What GetAllNodes lists ends up saying what becomes of the worker, either way.
ListFollows == AliveShown /\ DeadShown
=============================================================================
