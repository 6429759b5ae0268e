------------------------- MODULE NodeAlerts_proofs -------------------------
(***************************************************************************)
(* Proofs about the node registry with the alert engine beside it: types,  *)
(* that the cache keeps figures of registered nodes only, and that no      *)
(* heartbeat undoes the name an operator has given.                        *)
(***************************************************************************)
EXTENDS NodeAlerts, TLAPS

\* A row that is not there has nothing in it.
RowInv == \A ip \in Ips : row[ip].status = "none" => row[ip] = NoRow

\* The inductive invariant.
IInv == NodesInv /\ RowInv

\* What a heartbeat writes is a row that is there.
LEMMA OnlineIsRow ==
    ASSUME NEW n \in Names
    PROVE  /\ Online(n) # NoRow /\ Planned # NoRow
           /\ Online(n).status = "online" /\ Planned.status = "planned"
  BY DEF Online, Planned, NoRow

\* A database that was just opened holds no rows, and a fresh cache no figures.
LEMMA InitIInv == InitNodes => IInv
  BY NodeAssumption DEF InitNodes, IInv, NodesInv, TypeOK, FiguresHaveNode, RowInv, NoRow, Names,
                        MaxAge, Loads

\* A heartbeat: while its figures wait for their row, the heartbeat that brought
\* them is under way; then there is a row.
LEMMA HandlersIInv ==
    ASSUME IInv, NEW b \in beats, HandleHeartbeat(b)
    PROVE  IInv'
<1> USE DEF IInv, NodesInv
<1>1. /\ TypeOK /\ b.ip \in Ips /\ b.load \in Loads /\ b.load # "none"
      /\ b.at \in {"sent", "stored"} /\ b.awaited \in BOOLEAN
  BY DEF TypeOK, Loads
<1>2. CASE StoreFigures(b)
  <2> DEFINE stored == [b EXCEPT !.at = "stored"]
  <2>1. /\ stored \in [ip : Ips, load : Loads, at : {"sent", "stored"}, awaited : BOOLEAN]
        /\ stored.ip = b.ip /\ stored.at = "stored"
    BY <1>1 DEF TypeOK
  <2>2. /\ figures' = [figures EXCEPT ![b.ip] = b.load] /\ beats' = (beats \ {b}) \cup {stored}
        /\ UNCHANGED <<row, worker, load, moves>> /\ b.at = "sent"
    BY <1>2 DEF StoreFigures
  <2> HIDE DEF stored
  <2>3. TypeOK'
    BY <1>1, <2>1, <2>2 DEF TypeOK
  <2>4. FiguresHaveNode'
    <3> SUFFICES ASSUME NEW ip \in Ips, figures'[ip] # "none", ~Known(ip)'
                 PROVE  \E d \in beats' : d.ip = ip /\ d.at = "stored"
      BY DEF FiguresHaveNode
    <3>1. CASE ip = b.ip
      BY <3>1, <2>1, <2>2
    <3>2. CASE ip # b.ip
      <4>1. figures[ip] # "none" /\ ~Known(ip)
        BY <3>2, <2>2 DEF TypeOK, Known
      <4> QED BY <4>1, <2>2 DEF FiguresHaveNode
    <3> QED BY <3>1, <3>2
  <2>5. RowInv'
    BY <2>2 DEF RowInv
  <2> QED BY <2>3, <2>4, <2>5
<1>3. CASE Upsert(b)
  <2>1. PICK n \in Names : row' = [row EXCEPT ![b.ip] = Online(n)]
    BY <1>1, <1>3 DEF Upsert, TypeOK, Names
  <2>2. /\ beats' = beats \ {b} /\ UNCHANGED <<figures, worker, load, moves>>
    BY <1>3 DEF Upsert
  <2>3. TypeOK'
    BY <1>1, <2>1, <2>2, NodeAssumption DEF TypeOK, Online, MaxAge
  <2>4. FiguresHaveNode'
    BY <1>1, <2>1, <2>2, OnlineIsRow DEF FiguresHaveNode, Known, TypeOK
  <2>5. RowInv'
    BY <1>1, <2>1, <2>2, OnlineIsRow DEF RowInv, TypeOK
  <2> QED BY <2>3, <2>4, <2>5
<1> QED BY <1>2, <1>3 DEF HandleHeartbeat

\* An operator: only a deletion takes a row away, and it takes the figures along.
LEMMA OperatorIInv ==
    ASSUME IInv, NEW ip \in Ips,
           AddPlannedNode(ip) \/ DeleteNode(ip) \/ RenameNode(ip) \/ ResetNodeName(ip)
    PROVE  IInv'
<1> USE DEF IInv, NodesInv
<1>1. moves' \in 0..MaxMoves /\ Known(ip) \in BOOLEAN /\ UNCHANGED <<worker, load, beats>>
  BY NodeAssumption DEF AddPlannedNode, DeleteNode, RenameNode, ResetNodeName, Move, TypeOK, Known
<1>2. CASE AddPlannedNode(ip)
  <2>1. row' = [row EXCEPT ![ip] = Planned] /\ figures' = figures
    BY <1>2 DEF AddPlannedNode
  <2>2. Planned # NoRow /\ Planned.status = "planned"
    BY DEF Planned, NoRow
  <2>3. TypeOK'
    BY <1>1, <2>1, NodeAssumption DEF TypeOK, Planned, MaxAge, Names
  <2>4. FiguresHaveNode'
    BY <1>1, <2>1, <2>2 DEF FiguresHaveNode, Known, TypeOK
  <2>5. RowInv'
    BY <1>1, <2>1, <2>2 DEF RowInv, TypeOK
  <2> QED BY <2>3, <2>4, <2>5
<1>3. CASE DeleteNode(ip)
  <2>1. row' = [row EXCEPT ![ip] = NoRow] /\ figures' = [figures EXCEPT ![ip] = "none"]
    BY <1>3 DEF DeleteNode
  <2>2. TypeOK'
    BY <1>1, <2>1, NodeAssumption DEF TypeOK, NoRow, MaxAge, Names
  <2>3. FiguresHaveNode'
    BY <1>1, <2>1 DEF FiguresHaveNode, Known, TypeOK
  <2>4. RowInv'
    BY <1>1, <2>1 DEF RowInv, TypeOK
  <2> QED BY <2>2, <2>3, <2>4
<1>4. CASE RenameNode(ip) \/ ResetNodeName(ip)
  <2>1. PICK n \in Names : row' = [row EXCEPT ![ip].name = n]
    BY <1>4 DEF RenameNode, ResetNodeName, Names, TypeOK
  <2>2. Known(ip) /\ figures' = figures
    BY <1>4 DEF RenameNode, ResetNodeName
  <2>3. row[ip].status # "none" /\ row'[ip].status = row[ip].status
    BY <2>1, <2>2 DEF RowInv, Known, TypeOK
  <2>4. row'[ip] # NoRow
    BY <2>3 DEF NoRow
  <2>5. TypeOK'
    BY <1>1, <2>1, <2>2 DEF TypeOK
  <2>6. FiguresHaveNode'
    BY <1>1, <2>1, <2>2, <2>4 DEF FiguresHaveNode, Known, TypeOK
  <2>7. RowInv'
    BY <1>1, <2>1, <2>3 DEF RowInv, TypeOK
  <2> QED BY <2>5, <2>6, <2>7
<1> QED BY <1>2, <1>3, <1>4

\* Machines, agents and the network leave rows and figures alone, and lose or
\* abandon heartbeats, but lose none that is half handled.
LEMMA WorldIInv ==
    ASSUME IInv, World \/ Agents
    PROVE  IInv'
<1> USE DEF IInv, NodesInv
<1>1. UNCHANGED <<row, figures>>
  BY DEF World, Agents, GiveUp, Lose, Boot, Die, Work, Beat
<1>2. \A S : Abandon(S) \subseteq [ip : Ips, load : Loads, at : {"sent", "stored"}, awaited : BOOLEAN]
  BY DEF Abandon, TypeOK
<1>3. ASSUME NEW S, NEW d \in beats
      PROVE  \E e \in Abandon(S) : e.ip = d.ip /\ e.at = d.at
  <2> DEFINE e == IF d \in S THEN [d EXCEPT !.awaited = FALSE] ELSE d
  <2>1. e \in Abandon(S)
    BY <1>3 DEF Abandon
  <2>2. d \in [ip : Ips, load : Loads, at : {"sent", "stored"}, awaited : BOOLEAN]
    BY <1>3 DEF TypeOK
  <2>3. e.ip = d.ip /\ e.at = d.at
    BY <2>2
  <2> HIDE DEF e
  <2> QED BY <2>1, <2>3
<1>4. ASSUME NEW d \in beats, d.at = "stored"
      PROVE  \E e \in beats' : e.ip = d.ip /\ e.at = "stored"
  <2>1. CASE Agents \/ \E ip \in Ips : Boot(ip) \/ Work(ip)
    BY <1>4, <2>1 DEF Agents, Beat, Boot, Work
  <2>2. CASE \E b \in beats : Lose(b)
    BY <1>4, <2>2 DEF Lose
  <2>3. CASE (\E b \in beats : GiveUp(b)) \/ \E ip \in Ips : Die(ip)
    <3>1. PICK S : beats' = Abandon(S)
      BY <2>3 DEF GiveUp, Die
    <3> QED BY <1>3, <1>4, <3>1
  <2> QED BY <2>1, <2>2, <2>3 DEF World
<1>5. TypeOK'
  <2>1. CASE Agents
    <3>1. PICK ip \in Ips : Beat(ip)
      BY <2>1 DEF Agents
    <3>2. load[ip] \in Loads
      BY DEF TypeOK
    <3> DEFINE new == [ip |-> ip, load |-> load[ip], at |-> "sent", awaited |-> TRUE]
    <3>3. new \in [ip : Ips, load : Loads, at : {"sent", "stored"}, awaited : BOOLEAN]
      BY <3>2
    <3>4. beats' = beats \cup {new} /\ UNCHANGED <<worker, load, moves>>
      BY <3>1 DEF Beat
    <3> HIDE DEF new
    <3> QED BY <1>1, <3>3, <3>4 DEF TypeOK
  <2>2. CASE World
    <3>0. Move
      BY <2>2 DEF World, GiveUp, Lose, Boot, Die, Work
    <3>1. moves' \in 0..MaxMoves
      BY <3>0, NodeAssumption DEF Move, TypeOK
    <3>2. worker' \in [Ips -> {"up", "down"}] /\ load' \in [Ips -> Loads]
      BY <2>2 DEF World, GiveUp, Lose, Boot, Die, Work, TypeOK
    <3>3. beats' \subseteq [ip : Ips, load : Loads, at : {"sent", "stored"}, awaited : BOOLEAN]
      <4>1. CASE \E b \in beats : GiveUp(b) \/ Lose(b)
        BY <4>1, <1>2 DEF GiveUp, Lose, TypeOK
      <4>2. CASE \E ip \in Ips : Boot(ip) \/ Die(ip) \/ Work(ip)
        BY <4>2, <1>2 DEF Boot, Die, Work, TypeOK
      <4> QED BY <2>2, <4>1, <4>2 DEF World
    <3> QED BY <1>1, <3>1, <3>2, <3>3 DEF TypeOK
  <2> QED BY <2>1, <2>2
<1>6. FiguresHaveNode'
  BY <1>1, <1>4 DEF FiguresHaveNode, Known
<1>7. RowInv'
  BY <1>1 DEF RowInv
<1> QED BY <1>5, <1>6, <1>7

\* Time passes for rows that are listed.
LEMMA TickIInv == IInv /\ Tick => IInv'
<1> SUFFICES ASSUME IInv, Tick PROVE IInv'
  OBVIOUS
<1> USE DEF IInv, NodesInv
<1>1. moves' \in 0..MaxMoves /\ UNCHANGED <<figures, worker, load, beats>>
  BY NodeAssumption DEF Tick, Move, TypeOK
<1>2. ASSUME NEW ip \in Ips
      PROVE  /\ row'[ip] \in [status : {"none", "planned", "online"}, name : Names,
                              hostname : {"hostname", "pending"}, age : 0..MaxAge]
             /\ row'[ip].status = row[ip].status
             /\ row'[ip] = row[ip] \/ row'[ip].status = "online"
  <2>1. row[ip] \in [status : {"none", "planned", "online"}, name : Names,
                     hostname : {"hostname", "pending"}, age : 0..MaxAge]
    BY DEF TypeOK
  <2>2. row'[ip] = IF Listed(ip) /\ row[ip].age < MaxAge
                   THEN [row[ip] EXCEPT !.age = @ + 1] ELSE row[ip]
    BY DEF Tick
  <2> QED BY <2>1, <2>2, NodeAssumption DEF Listed, MaxAge
<1>3. TypeOK'
  <2>1. DOMAIN row' = Ips /\ row' = [ip \in Ips |-> row'[ip]]
    BY DEF Tick
  <2> QED BY <1>1, <1>2, <2>1 DEF TypeOK
<1>4. \A ip \in Ips : Known(ip) => Known(ip)'
  BY <1>2 DEF Known, NoRow
<1>5. FiguresHaveNode'
  BY <1>1, <1>4 DEF FiguresHaveNode
<1>6. RowInv'
  BY <1>2 DEF RowInv
<1> QED BY <1>3, <1>5, <1>6

\* Every step of the registry, the clock and the master keeps the invariant; the
\* alert engine touches none of it.
LEMMA NextIInv == IInv /\ [Next]_allVars => IInv'
<1> SUFFICES ASSUME IInv, [Next]_allVars PROVE IInv'
  OBVIOUS
<1>1. CASE Registry
  <2>1. CASE Handlers
    BY <2>1, HandlersIInv DEF Handlers
  <2>2. CASE Operator
    BY <2>2, OperatorIInv DEF Operator
  <2>3. CASE World \/ Agents
    BY <2>3, WorldIInv
  <2> QED BY <1>1, <2>1, <2>2, <2>3 DEF Registry, Nodes
<1>2. CASE Clock
  BY <1>2, TickIInv DEF Clock
<1>3. CASE Restart
  BY <1>3, NodeAssumption DEF Restart, RestartNodes, Move, IInv, NodesInv, TypeOK, FiguresHaveNode,
                              RowInv, Known
<1>4. CASE UNCHANGED vars
  BY <1>4 DEF vars, IInv, NodesInv, TypeOK, FiguresHaveNode, RowInv, Known
<1> QED BY <1>1, <1>2, <1>3, <1>4 DEF Next, Engine, Rule, allVars

\* Heartbeats that cross deletions, restarts and losses leave no figures behind of
\* a node that is gone: of NodeManager.HandleHeartbeat and DeleteNode.
THEOREM NoFiguresLeak == Spec => []NodesInv
<1>1. Init => IInv
  BY InitIInv DEF Init
<1>2. IInv => NodesInv
  BY DEF IInv
<1> QED BY <1>1, <1>2, NextIInv, PTL DEF Spec

-----------------------------------------------------------------------------
\* A node whose row stays has another name only after a step that is a move.
KeepsNames ==
    \A ip \in Ips :
        Known(ip) /\ Known(ip)' /\ row'[ip].name # row[ip].name => moves' # moves

\* A move is a move.
LEMMA MoveMoves == TypeOK /\ Move => moves' # moves
  BY NodeAssumption DEF TypeOK, Move

\* A heartbeat takes the name that is there, unless there is no row.
LEMMA UpsertKeepsNames ==
    ASSUME TypeOK, NEW b \in beats, HandleHeartbeat(b)
    PROVE  KeepsNames
<1>1. CASE StoreFigures(b)
  BY <1>1 DEF StoreFigures, KeepsNames
<1>2. CASE Upsert(b)
  <2> SUFFICES ASSUME NEW ip \in Ips, Known(ip) PROVE row'[ip].name = row[ip].name
    BY DEF KeepsNames
  <2>1. /\ row \in [Ips -> [status : {"none", "planned", "online"}, name : Names,
                           hostname : {"hostname", "pending"}, age : 0..MaxAge]]
        /\ row' = [row EXCEPT ![b.ip] = Online(IF @ = NoRow THEN "hostname" ELSE @.name)]
    BY <1>2 DEF Upsert, TypeOK
  <2>2. CASE ip = b.ip
    <3>1. row'[ip] = Online(row[ip].name)
      BY <2>1, <2>2 DEF Known
    <3> QED BY <3>1 DEF Online
  <2>3. CASE ip # b.ip
    BY <2>1, <2>3
  <2> QED BY <2>2, <2>3
<1> QED BY <1>1, <1>2 DEF HandleHeartbeat

\* Time adds to the age of a row.
LEMMA TickKeepsNames == ASSUME TypeOK, Tick PROVE KeepsNames
<1> SUFFICES ASSUME NEW ip \in Ips PROVE row'[ip].name = row[ip].name
  BY DEF KeepsNames
<1>1. /\ row[ip] \in [status : {"none", "planned", "online"}, name : Names,
                     hostname : {"hostname", "pending"}, age : 0..MaxAge]
      /\ row'[ip] = IF Listed(ip) /\ row[ip].age < MaxAge
                   THEN [row[ip] EXCEPT !.age = @ + 1] ELSE row[ip]
  BY DEF Tick, TypeOK
<1> QED BY <1>1

\* No heartbeat, whatever else is under way, and no lapse of time undoes the name
\* an operator has given to a node that stays registered: of the upsert in
\* NodeManager.HandleHeartbeat.
THEOREM GivenNamesStay == Spec => NamesKept
<1>1. TypeOK /\ [Next]_allVars => [KeepsNames]_vars
  <2> SUFFICES ASSUME TypeOK, [Next]_allVars, vars' # vars PROVE KeepsNames
    OBVIOUS
  <2>1. CASE Registry
    <3>1. CASE Handlers
      BY <3>1, UpsertKeepsNames DEF Handlers
    <3>2. CASE Agents
      BY <3>2 DEF Agents, Beat, KeepsNames
    <3>3. CASE Operator \/ World
      <4>1. Move
        BY <3>3 DEF Operator, AddPlannedNode, DeleteNode, RenameNode, ResetNodeName,
                    World, GiveUp, Lose, Boot, Die, Work
      <4> QED BY <4>1, MoveMoves DEF KeepsNames
    <3> QED BY <2>1, <3>1, <3>2, <3>3 DEF Registry, Nodes
  <2>2. CASE Clock
    BY <2>2, TickKeepsNames DEF Clock
  <2>3. CASE Restart
    BY <2>3, MoveMoves DEF Restart, RestartNodes, KeepsNames
  <2>4. vars' = vars => FALSE
    OBVIOUS
  <2> QED BY <2>1, <2>2, <2>3, <2>4 DEF Next, Engine, Rule, allVars
<1>2. TypeOK /\ [Next]_allVars =>
        [\A ip \in Ips :
            Known(ip) /\ Known(ip)' /\ row'[ip].name # row[ip].name => moves' # moves]_vars
  BY <1>1 DEF KeepsNames
<1>3. NodesInv => TypeOK
  BY DEF NodesInv
<1> QED BY <1>2, <1>3, NoFiguresLeak, PTL DEF Spec, NamesKept
=============================================================================
