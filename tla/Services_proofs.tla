--------------------------- MODULE Services_proofs ---------------------------
(***************************************************************************)
(* Proofs about the services of the master, each for any values of its     *)
(* constants.  The WebSocket hub: types, and that nothing is lost between  *)
(* a dirty flag and the browsers.  The log stream: types.  Remote commands *)
(* and the log of operations: that the log is sound.  And the types of all *)
(* the parts together; the Nacos proxy and the alert engine have a module  *)
(* of their own.                                                           *)
(***************************************************************************)
EXTENDS MCServices, AlertsNacos_proofs

-----------------------------------------------------------------------------
(***************************************************************************)
(* The WebSocket hub                                                       *)
(***************************************************************************)


\* Only a pass that writes has clients left to write to.
TodoInv == push.at # "writing" => push.todo = {}

\* What a pass carries of a view that is not dirty is the latest there is.
CarriedInv ==
    push.at # "idle" => \A k \in Kept \ dirty : push.msgs[k] \in {0, latest[k]}

\* The inductive invariant.
HubIInv == HubTypeOK /\ TodoInv /\ CarriedInv /\ CleanMeansSent

\* The states of Run, and of throttlePush.
Runs   == {Select} \cup [at : {"store"}, kind : Kinds, version : Versions]
                   \cup [at : {"add", "greet", "greeting", "leave"}, client : Clients]
Passes == [at : {"idle", "collected", "writing"}, msgs : [Kinds -> Versions],
           todo : SUBSET Clients]

\* What a browser shows is a version, and is the latest one of what it was sent.
LEMMA ShownTypes ==
    ASSUME HubAssumption, HubTypeOK, NEW c \in Clients, NEW msgs \in [Kinds -> Versions]
    PROVE  Shown(c, msgs) \in [Kinds -> Versions]
  BY DEF Shown, HubTypeOK

\* A hub that was just started has no clients.
LEMMA InitHubIInv ==
    ASSUME HubAssumption, InitHub
    PROVE  HubIInv
<1>1. NoMsgs \in [Kinds -> Versions]
  BY HubAssumption DEF NoMsgs, Versions, HubAssumption
<1>2. Resting \in Passes /\ Resting.todo = {} /\ Resting.at = "idle"
  BY <1>1 DEF Resting, Passes
<1>3. view \in [Kinds -> Versions]
  BY HubAssumption DEF InitHub, Versions, HubAssumption
<1>4. prod \in [Producers -> [at : {"idle", "read", "send"}, version : Versions]]
  BY HubAssumption DEF InitHub, Versions, HubAssumption
<1>5. conn \in [Clients -> {"none", "up", "on", "gone", "off"}]
  BY DEF InitHub
<1>6. screen \in [Clients -> [Kinds -> Versions]]
  BY <1>1 DEF InitHub
<1>7. HubTypeOK
  BY <1>1, <1>2, <1>3, <1>4, <1>5, <1>6 DEF InitHub, HubTypeOK, Passes
<1>8. TodoInv /\ CarriedInv /\ CleanMeansSent
  BY <1>2 DEF InitHub, TodoInv, CarriedInv, CleanMeansSent
<1> QED BY <1>7, <1>8 DEF HubIInv

\* What leaves views, flags, pass, clients and screens alone keeps what is said
\* of them: no browser enters but by Add, and one that is gone is not owed anything.
LEMMA Aside ==
    ASSUME HubAssumption, HubIInv, HubTypeOK', UNCHANGED <<latest, dirty, push, clients, screen>>,
           broken \subseteq broken',
           \A c \in Clients : Entering(c) => Entering(c)'
    PROVE  HubIInv'
<1>1. TodoInv' /\ CarriedInv'
  BY DEF HubIInv, TodoInv, CarriedInv
<1>2. CleanMeansSent'
  BY DEF HubIInv, CleanMeansSent, Underway, HubTypeOK
<1> QED BY <1>1, <1>2 DEF HubIInv

\* The handlers: they wait at the channel and touch nothing of the hub.
LEMMA HandlerIInv ==
    ASSUME HubAssumption, HubIInv, NEW p \in Producers, Handle(p) \/ Publish(p)
    PROVE  HubIInv'
<1>1. HubTypeOK /\ Topic[p] \in Kinds /\ prod[p] \in [at : {"idle", "read", "send"}, version : Versions]
  BY HubAssumption DEF HubIInv, HubTypeOK, HubAssumption
<1>2. CASE Handle(p)
  <2>1. view' \in [Kinds -> Versions]
    BY <1>1, <1>2, HubAssumption DEF Handle, HubTypeOK, Versions, HubAssumption
  <2>2. prod' \in [Producers -> [at : {"idle", "read", "send"}, version : Versions]]
    BY <1>1, <1>2 DEF Handle, HubTypeOK
  <2>3. HubTypeOK'
    BY <1>1, <1>2, <2>1, <2>2 DEF Handle, HubTypeOK
  <2> QED BY <1>2, <2>3, Aside DEF Handle, Entering
<1>3. CASE Read(p)
  <2>1. prod' \in [Producers -> [at : {"idle", "read", "send"}, version : Versions]]
    BY <1>1, <1>3 DEF Read, HubTypeOK
  <2>2. HubTypeOK'
    BY <1>1, <1>3, <2>1 DEF Read, HubTypeOK
  <2> QED BY <1>3, <2>2, Aside DEF Read, Entering
<1>4. CASE Broadcast(p)
  <2>0. 0 \in Versions
    BY HubAssumption DEF Versions, HubAssumption
  <2>1. prod' \in [Producers -> [at : {"idle", "read", "send"}, version : Versions]]
    BY <1>1, <1>4, <2>0 DEF Broadcast, HubTypeOK
  <2>2. run' \in Runs
    BY <1>1, <1>4 DEF Broadcast, Runs
  <2>3. HubTypeOK'
    BY <1>1, <1>4, <2>1, <2>2 DEF Broadcast, HubTypeOK, Runs
  <2>4. \A c \in Clients : ~Entering(c)
    BY <1>4 DEF Broadcast, Entering, Select
  <2> QED BY <1>4, <2>3, <2>4, Aside DEF Broadcast
<1> QED BY <1>2, <1>3, <1>4 DEF Publish

\* Nor does time, which changes the tables only.
LEMMA LapseIInv ==
    ASSUME HubAssumption, HubIInv, NEW k \in Kinds, Lapse(k)
    PROVE  HubIInv'
<1>1. HubTypeOK
  BY DEF HubIInv
<1>2. view' \in [Kinds -> Versions]
  BY <1>1, HubAssumption DEF Lapse, HubTypeOK, Versions, HubAssumption
<1>3. HubTypeOK'
  BY <1>1, <1>2 DEF Lapse, HubTypeOK
<1> QED BY <1>3, Aside DEF Lapse, Entering

\* Run takes a view: whatever was stored is dirty, and nobody is being written to.
LEMMA StoreIInv ==
    ASSUME HubAssumption, HubIInv, Store
    PROVE  HubIInv'
<1>1. HubTypeOK /\ run \in [at : {"store"}, kind : Kinds, version : Versions]
  BY DEF HubIInv, HubTypeOK, Store, Select
<1>2. run' = Select /\ UNCHANGED <<view, prod, push, clients, conn, broken, stalled, screen>>
  BY DEF Store
<1>3. latest' \in [Kinds -> Versions] /\ dirty' \subseteq Kept
  BY <1>1 DEF Store, HubTypeOK
<1>4. HubTypeOK'
  BY <1>1, <1>2, <1>3 DEF HubTypeOK
<1>5. dirty \subseteq dirty' /\ \A k \in Kept \ dirty' : latest'[k] = latest[k]
  BY <1>1, HubAssumption DEF Store, HubTypeOK, HubAssumption
<1>6. TodoInv' /\ CarriedInv'
  BY <1>2, <1>5 DEF HubIInv, TodoInv, CarriedInv
<1>7. \A c \in Clients : ~Entering(c)
  BY <1>1 DEF Entering
<1>8. CleanMeansSent'
  BY <1>1, <1>2, <1>5, <1>7 DEF HubIInv, CleanMeansSent, Underway, HubTypeOK
<1> QED BY <1>4, <1>6, <1>8 DEF HubIInv

\* Run lets a browser in, or forgets one, while nobody writes.
LEMMA DoorIInv ==
    ASSUME HubAssumption, HubIInv, Add \/ Greet \/ Greeted \/ Leave
    PROVE  HubIInv'
<1>1. HubTypeOK /\ run \in [at : {"add", "greet", "greeting", "leave"}, client : Clients]
  BY DEF HubIInv, HubTypeOK, Add, Greet, Greeted, Leave, Select
<1>2. CASE Add
  <2>1. /\ run' \in Runs /\ run'.at = "greet" /\ run'.client = run.client
        /\ clients' = clients \cup {run.client} /\ run.at = "add"
    BY <1>1, <1>2 DEF Add, Runs
  <2>2. HubTypeOK'
    BY <1>1, <1>2, <2>1 DEF Add, HubTypeOK, Runs
  <2>3. TodoInv' /\ CarriedInv'
    BY <1>2 DEF Add, HubIInv, TodoInv, CarriedInv
  <2>4. \A c \in clients' : Entering(c)' \/ (c \in clients /\ ~Entering(c))
    BY <2>1 DEF Entering
  <2>5. CleanMeansSent'
    BY <1>2, <2>4 DEF Add, HubIInv, CleanMeansSent, Underway
  <2> QED BY <2>2, <2>3, <2>5 DEF HubIInv
<1>3. CASE Greet
  <2>1. run' \in Runs /\ run'.at = "greeting" /\ run'.client = run.client
    BY <1>1, <1>3 DEF Greet, Runs
  <2>2. HubTypeOK'
    BY <1>1, <1>3, <2>1 DEF Greet, HubTypeOK, Runs
  <2>3. \A c \in Clients : Entering(c) => Entering(c)'
    BY <2>1 DEF Entering
  <2> QED BY <1>3, <2>2, <2>3, Aside DEF Greet
<1>4. CASE Greeted
  <2>1. run' = Select /\ UNCHANGED <<view, prod, latest, dirty, push, clients, conn, broken, stalled>>
    BY <1>4 DEF Greeted
  <2>2. Shown(run.client, latest) \in [Kinds -> Versions]
    BY <1>1, HubAssumption, ShownTypes DEF HubTypeOK
  <2>3. screen' \in [Clients -> [Kinds -> Versions]]
    BY <1>1, <1>4, <2>2 DEF Greeted, HubTypeOK
  <2>4. HubTypeOK'
    BY <1>1, <2>1, <2>3 DEF HubTypeOK
  <2>5. TodoInv' /\ CarriedInv'
    BY <2>1 DEF HubIInv, TodoInv, CarriedInv
  <2>6. ASSUME NEW c \in clients \ broken, NEW k \in Kept \ dirty, latest[k] # 0
        PROVE  screen'[c][k] = latest[k] \/ Underway(c, k)
    <3>1. CASE c = run.client
      <4>1. screen' = [screen EXCEPT ![c] = Shown(c, latest)] /\ k \in Kinds /\ c \in Clients
        BY <1>1, <1>4, <2>6, <3>1, HubAssumption DEF Greeted, HubAssumption
      <4>2. screen'[c] = Shown(c, latest)
        BY <1>1, <4>1 DEF HubTypeOK
      <4> QED BY <2>6, <4>1, <4>2 DEF Shown
    <3>2. CASE c # run.client
      <4>1. screen'[c] = screen[c] /\ ~Entering(c)
        BY <1>1, <1>4, <3>2 DEF Greeted, HubTypeOK, Entering
      <4> QED BY <2>6, <4>1 DEF HubIInv, CleanMeansSent
    <3> QED BY <3>1, <3>2
  <2>7. CleanMeansSent'
    BY <2>1, <2>6 DEF CleanMeansSent, Underway
  <2> QED BY <2>4, <2>5, <2>7 DEF HubIInv
<1>5. CASE Leave
  <2>1. /\ run' = Select /\ run.at = "leave" /\ clients' \subseteq clients /\ ~Locked
        /\ UNCHANGED <<view, prod, latest, dirty, push, conn, broken, stalled, screen>>
    BY <1>5 DEF Leave
  <2>2. push.todo = {}
    BY <2>1 DEF Locked, HubIInv, TodoInv
  <2>3. HubTypeOK'
    BY <1>1, <2>1, <2>2 DEF HubTypeOK
  <2>4. TodoInv' /\ CarriedInv'
    BY <2>1 DEF HubIInv, TodoInv, CarriedInv
  <2>5. CleanMeansSent'
    BY <2>1 DEF HubIInv, CleanMeansSent, Underway, Entering
  <2> QED BY <2>3, <2>4, <2>5 DEF HubIInv
<1> QED BY <1>2, <1>3, <1>4, <1>5

\* A pass of throttlePush: a view that is taken as dirty is carried to everybody.
LEMMA PushIInv ==
    ASSUME HubAssumption, HubIInv, Push
    PROVE  HubIInv'
<1>1. HubTypeOK /\ push \in Passes
  BY DEF HubIInv, HubTypeOK, Passes
<1>2. CASE Collect
  <2> DEFINE msgs == [k \in Kinds |-> IF k \in dirty THEN latest[k] ELSE 0]
  <2>0. msgs \in [Kinds -> Versions]
    BY <1>1, HubAssumption DEF HubTypeOK, Versions, HubAssumption
  <2>1. /\ push' \in Passes /\ push'.at = "collected" /\ push'.msgs = msgs
        /\ push'.todo = push.todo /\ push.at = "idle" /\ dirty' = {}
        /\ UNCHANGED <<view, prod, latest, run, clients, conn, broken, stalled, screen>>
    BY <1>1, <1>2, <2>0 DEF Collect, Passes
  <2>2. HubTypeOK'
    BY <1>1, <2>1 DEF HubTypeOK, Passes
  <2>3. \A k \in Kept : msgs[k] = IF k \in dirty THEN latest[k] ELSE 0
    BY HubAssumption DEF HubAssumption
  <2> HIDE DEF msgs
  <2>4. TodoInv' /\ CarriedInv'
    BY <2>1, <2>3 DEF HubIInv, TodoInv, CarriedInv
  <2>5. CleanMeansSent'
    BY <2>1, <2>3 DEF HubIInv, CleanMeansSent, Underway, Entering
  <2> QED BY <2>2, <2>4, <2>5 DEF HubIInv
<1>3. CASE BroadcastToAll
  <2>1. /\ push' \in Passes /\ push'.at = "writing" /\ push'.msgs = push.msgs
        /\ push'.todo = clients /\ push.at = "collected"
        /\ UNCHANGED <<view, prod, latest, dirty, run, clients, conn, broken, stalled, screen>>
    BY <1>1, <1>3 DEF BroadcastToAll, Passes, HubTypeOK
  <2>2. HubTypeOK'
    BY <1>1, <2>1 DEF HubTypeOK, Passes
  <2>3. TodoInv' /\ CarriedInv' /\ CleanMeansSent'
    BY <2>1 DEF HubIInv, TodoInv, CarriedInv, CleanMeansSent, Underway, Entering
  <2> QED BY <2>2, <2>3 DEF HubIInv
<1>4. ASSUME NEW c \in Clients, Write(c) PROVE HubIInv'
  <2>1. /\ push' \in Passes /\ push'.at = "writing" /\ push'.msgs = push.msgs
        /\ push'.todo = push.todo \ {c} /\ push.at = "writing"
        /\ UNCHANGED <<view, prod, latest, dirty, run, conn, broken, stalled>>
    BY <1>1, <1>4 DEF Write, Passes
  <2>2. clients \ {c} \subseteq clients' /\ clients' \subseteq clients
    BY <1>4 DEF Write
  <2>3. Shown(c, push.msgs) \in [Kinds -> Versions]
    BY <1>1, HubAssumption, ShownTypes DEF Passes
  <2>4. screen' \in [Clients -> [Kinds -> Versions]]
    BY <1>1, <1>4, <2>3 DEF Write, HubTypeOK
  <2>5. HubTypeOK'
    BY <1>1, <2>1, <2>2, <2>4 DEF HubTypeOK, Passes
  <2>6. TodoInv' /\ CarriedInv'
    BY <2>1 DEF HubIInv, TodoInv, CarriedInv
  <2>7. ASSUME NEW d \in clients \ broken, NEW k \in Kept \ dirty, latest[k] # 0, ~Entering(d)
        PROVE  screen'[d][k] = latest[k] \/ Underway(d, k)'
    <3>1. screen[d][k] = latest[k] \/ Underway(d, k)
      BY <2>7 DEF HubIInv, CleanMeansSent
    <3>2. CASE d # c
      <4>1. screen'[d] = screen[d]
        BY <1>1, <1>4, <3>2 DEF Write, HubTypeOK
      <4> QED BY <2>1, <3>1, <3>2, <4>1 DEF Underway
    <3>3. CASE d = c
      <4>1. screen' = [screen EXCEPT ![c] = Shown(c, push.msgs)] /\ k \in Kinds
        BY <1>4, <2>7, <3>3, HubAssumption DEF Write, HubAssumption
      <4>2. screen'[c][k] = IF push.msgs[k] = 0 THEN screen[c][k] ELSE push.msgs[k]
        BY <1>1, <4>1 DEF Shown, HubTypeOK
      <4>3. push.msgs[k] \in {0, latest[k]}
        BY <2>1 DEF HubIInv, CarriedInv
      <4> QED BY <2>7, <3>1, <3>3, <4>2, <4>3 DEF Underway
    <3> QED BY <3>2, <3>3
  <2>8. CleanMeansSent'
    BY <2>1, <2>2, <2>7 DEF CleanMeansSent, Entering
  <2> QED BY <2>5, <2>6, <2>8 DEF HubIInv
<1>5. CASE Written
  <2>1. /\ push' = Resting /\ push.at = "writing" /\ push.todo = {}
        /\ UNCHANGED <<view, prod, latest, dirty, run, clients, conn, broken, stalled, screen>>
    BY <1>5 DEF Written
  <2>2. Resting \in Passes /\ Resting.at = "idle" /\ Resting.todo = {}
    BY HubAssumption DEF Resting, Passes, NoMsgs, Versions, HubAssumption
  <2>3. HubTypeOK'
    BY <1>1, <2>1, <2>2 DEF HubTypeOK, Passes
  <2>4. TodoInv' /\ CarriedInv'
    BY <2>1, <2>2 DEF TodoInv, CarriedInv
  <2>5. CleanMeansSent'
    BY <2>1 DEF HubIInv, CleanMeansSent, Underway, Entering
  <2> QED BY <2>3, <2>4, <2>5 DEF HubIInv
<1> QED BY <1>2, <1>3, <1>4, <1>5 DEF Push

\* Sockets come and go; nobody enters h.clients by that.
LEMMA SocketIInv ==
    ASSUME HubAssumption, HubIInv, NEW c \in Clients, Upgrade(c) \/ Serve(c) \/ Hangup(c) \/ Stall(c)
    PROVE  HubIInv'
<1>1. HubTypeOK
  BY DEF HubIInv
<1>2. CASE Upgrade(c) \/ ReadFails(c) \/ Hangup(c) \/ Stall(c)
  <2>1. HubTypeOK'
    BY <1>1, <1>2 DEF Upgrade, ReadFails, Hangup, Stall, HubTypeOK
  <2>2. UNCHANGED <<latest, dirty, run, push, clients, screen>> /\ broken \subseteq broken'
    BY <1>2 DEF Upgrade, ReadFails, Hangup, Stall
  <2> QED BY <2>1, <2>2, Aside DEF Entering
<1>3. CASE Register(c) \/ Unregister(c)
  <2>1. run' \in Runs
    BY <1>3 DEF Register, Unregister, Runs
  <2>2. HubTypeOK'
    BY <1>1, <1>3, <2>1 DEF Register, Unregister, HubTypeOK, Runs
  <2>3. \A d \in Clients : ~Entering(d)
    BY <1>3 DEF Register, Unregister, Entering, Select
  <2> QED BY <1>3, <2>2, <2>3, Aside DEF Register, Unregister
<1> QED BY <1>2, <1>3 DEF Serve

\* Every step of the hub keeps the invariant.
LEMMA NextHubIInv ==
    ASSUME HubAssumption, HubIInv, [NextHub]_hubVars
    PROVE  HubIInv'
<1>1. CASE \E p \in Producers : Handle(p) \/ Publish(p)
  BY <1>1, HandlerIInv
<1>6. CASE \E k \in Kinds : Lapse(k)
  BY <1>6, LapseIInv
<1>2. CASE Run
  BY <1>2, StoreIInv, DoorIInv DEF Run
<1>3. CASE Push
  BY <1>3, PushIInv
<1>4. CASE \E c \in Clients : Upgrade(c) \/ Serve(c) \/ Hangup(c) \/ Stall(c)
  BY <1>4, SocketIInv
<1>5. CASE UNCHANGED hubVars
  <2>1. HubTypeOK'
    BY <1>5 DEF hubVars, HubIInv, HubTypeOK
  <2> QED BY <1>5, <2>1, Aside DEF hubVars, Entering
<1> QED BY <1>1, <1>2, <1>3, <1>4, <1>5, <1>6 DEF NextHub

\* Everything of the hub keeps its type, and h.clients is not changed while
\* broadcastToAll walks it: of WSHub.Run and throttlePush.
THEOREM HubTypeCorrect ==
    ASSUME HubAssumption
    PROVE  HubSpec => []HubTypeOK
<1>1. HubIInv => HubTypeOK
  BY DEF HubIInv
<1>2. InitHub => HubIInv
  BY InitHubIInv
<1>3. HubIInv /\ [NextHub]_hubVars => HubIInv'
  BY NextHubIInv
<1> QED BY <1>1, <1>2, <1>3, PTL DEF HubSpec

\* A view that is not dirty has reached every browser that is connected and
\* greeted, or is on its way: of storing, greeting, collecting and sending.
THEOREM NothingMissed ==
    ASSUME HubAssumption
    PROVE  HubSpec => []CleanMeansSent
<1>1. HubIInv => CleanMeansSent
  BY DEF HubIInv
<1>2. InitHub => HubIInv
  BY InitHubIInv
<1>3. HubIInv /\ [NextHub]_hubVars => HubIInv'
  BY NextHubIInv
<1> QED BY <1>1, <1>2, <1>3, PTL DEF HubSpec

-----------------------------------------------------------------------------
(***************************************************************************)
(* The log stream                                                          *)
(***************************************************************************)

\* Taking a line out of a connection, or putting one in, leaves a connection.
LEMMA LinesFit ==
    ASSUME WindowAssumption, NEW c \in Conn
    PROVE  /\ c.lines > 0 => Taken(c) \in Conn
           /\ c.lines < Window => Put(c) \in Conn
           /\ [c EXCEPT !.near = FALSE] \in Conn /\ [c EXCEPT !.far = FALSE] \in Conn
<1>1. Window \in Nat /\ c.lines \in 0..Window
  BY DEF WindowAssumption, Conn
<1>2. c.lines > 0 => c.lines - 1 \in 0..Window
  BY <1>1
<1>3. c.lines < Window => c.lines + 1 \in 0..Window
  BY <1>1
<1>4. \A n \in 0..Window : [c EXCEPT !.lines = n] \in Conn
  BY DEF Conn
<1>5. [c EXCEPT !.near = FALSE] \in Conn /\ [c EXCEPT !.far = FALSE] \in Conn
  BY DEF Conn
<1> QED BY <1>2, <1>3, <1>4, <1>5 DEF Taken, Put

\* A connection begins without a line.
LEMMA EmptyFits ==
    ASSUME WindowAssumption
    PROVE  Open \in Conn /\ Closed \in Conn /\ [Open EXCEPT !.far = FALSE] \in Conn
<1>1. 0 \in 0..Window
  BY DEF WindowAssumption
<1>2. Open \in Conn /\ Closed \in Conn
  BY <1>1 DEF Conn, Open, Closed
<1> QED BY <1>2 DEF Conn

\* The worker's goroutines keep the types.
LEMMA WorkerTypes ==
    ASSUME WindowAssumption, StreamTypeOK, ServeLog \/ Ear \/ TailRead \/ MachineDies
    PROVE  StreamTypeOK'
<1>1. up \in Conn /\ down \in Conn
  BY DEF StreamTypeOK
<1>2. up' \in Conn /\ down' \in Conn
  BY <1>1, LinesFit
  DEF ServeLog, OpenTail, HandOver, TailStops, WorkerWrite, RangeEnds, HandlerStops, Ear, TailRead,
      MachineDies
<1>3. /\ UNCHANGED <<pump, echo, proxy, errors>> /\ told' \in BOOLEAN
      /\ tail' \in {"off", "reading", "handing", "stopped"}
      /\ handler' \in {"none", "open", "ranging", "writing", "stopping", "done"}
      /\ ear' \in {"off", "reading", "stopping", "done"}
  BY DEF StreamTypeOK, master, worker, ServeLog, OpenTail, HandOver, TailStops, WorkerWrite, RangeEnds,
         HandlerStops, Ear, TailRead, MachineDies
<1> QED BY <1>2, <1>3 DEF StreamTypeOK

\* So do the proxy's, and the browser.
LEMMA ProxyGoroutinesTypes ==
    ASSUME WindowAssumption, StreamTypeOK, Pump \/ Echo \/ Proxy \/ BrowserReads \/ BrowserLeaves
    PROVE  StreamTypeOK'
<1>1. up \in Conn /\ down \in Conn
  BY DEF StreamTypeOK
<1>2. up' \in Conn /\ down' \in Conn
  BY <1>1, LinesFit, EmptyFits
  DEF Pump, PumpRead, PumpWrite, PumpFails, Echo, EchoRead, EchoFails, Proxy, DialWorker, ProxyEnds,
      Report, ReturnProxy, BrowserReads, BrowserLeaves
<1>3. /\ UNCHANGED <<told, tail, ear>>
      /\ handler' \in {"none", "open", "ranging", "writing", "stopping", "done"}
      /\ pump' \in {"off", "reading", "writing", "failed", "done"}
      /\ echo' \in {"off", "reading", "failed", "done"}
      /\ proxy' \in {"dialing", "waiting", "done"}
  BY DEF StreamTypeOK, master, worker, Pump, PumpRead, PumpWrite, PumpFails, Echo, EchoRead, EchoFails,
         Proxy, DialWorker, ProxyEnds, Report, ReturnProxy, BrowserReads, BrowserLeaves
<1>4. errors' \in 0..2
  BY DEF StreamTypeOK, master, ErrBuffer, Pump, PumpRead, PumpWrite, PumpFails, Echo, EchoRead, EchoFails,
         Proxy, DialWorker, ProxyEnds, Report, ReturnProxy, BrowserReads, BrowserLeaves
<1> QED BY <1>2, <1>3, <1>4 DEF StreamTypeOK

\* Ends, goroutines and lines keep their types: errChan never overflows its
\* buffer, and no connection holds more than its window.
LEMMA StreamTypes == ASSUME WindowAssumption PROVE StreamSpec => []StreamTypeOK
<1>1. InitStream => StreamTypeOK
  <2> SUFFICES ASSUME InitStream PROVE StreamTypeOK
    OBVIOUS
  <2>1. up \in Conn /\ down \in Conn
    BY EmptyFits DEF InitStream
  <2>2. errors \in 0..2
    BY DEF InitStream
  <2> QED BY <2>1, <2>2 DEF InitStream, StreamTypeOK
<1>2. StreamTypeOK /\ [NextStream]_streamVars => StreamTypeOK'
  <2>1. StreamTypeOK /\ UNCHANGED streamVars => StreamTypeOK'
    BY DEF StreamTypeOK, streamVars
  <2> QED BY <2>1, WorkerTypes, ProxyGoroutinesTypes DEF NextStream, World
<1> QED BY <1>1, <1>2, PTL DEF StreamSpec

-----------------------------------------------------------------------------
(***************************************************************************)
(* Remote commands and the log of operations                               *)
(***************************************************************************)

\* A command is sent once, what comes back as good was good, and so is what a
\* goroutine of RecordLog is about to write down as a success.
RanInv ==
    /\ \A c \in Commands : trigger[c] = "idle" => exec[c] = "none"
    /\ \A c \in Commands : reply[c] = "ok" => exec[c] = "ok"
    /\ \A e \in pending : e[2] = "success" => exec[e[1]] = "ok"

\* While a client walks the log, what it is yet to see of what it wants is on
\* the page it asks for next, or behind it: entries only ever move backwards.
PagesInv ==
    reader.page > 0 =>
        \A e \in reader.wanted \ reader.seen :
            \E n \in 1..Len(log) : n > Offset(reader.page) /\ log[n] = e

CommandIInv == CommandTypeOK /\ RanInv /\ PagesInv /\ LogSound

\* A good end is for good.
GoodStays == \A c \in Commands : exec[c] = "ok" => exec'[c] = "ok"

\* The steps of the master and of the node, which neither write nor read the log.
Working ==
    \/ \E c \in Commands : TriggerCmd(c) \/ Master(c) \/ HandleExec(c) \/ CommandEnds(c)
    \/ RestartMaster \/ WorkerDies

\* They keep what is said of commands and answers.
LEMMA WorkingRan ==
    ASSUME CommandTypeOK, RanInv, Working
    PROVE  /\ CommandTypeOK' /\ RanInv' /\ GoodStays /\ UNCHANGED <<log, reader>>
<1>0. UNCHANGED <<log, reader>>
  BY DEF Working, TriggerCmd, Master, Answered, NetworkError, HandleExec, CommandEnds, RestartMaster,
         WorkerDies
<1> USE DEF CommandTypeOK, RanInv, GoodStays
<1>1. ASSUME NEW c \in Commands, TriggerCmd(c) PROVE CommandTypeOK' /\ RanInv' /\ GoodStays
  <2>1. trigger[c] = "idle" /\ UNCHANGED <<reply, pending, log, reader>>
    BY <1>1 DEF TriggerCmd
  <2>2. exec[c] = "none"
    BY <2>1
  <2>3. CASE trigger' = [trigger EXCEPT ![c] = "waiting"] /\ exec' = [exec EXCEPT ![c] = "sent"]
    <3>1. /\ trigger' \in [Commands -> {"idle", "waiting", "answered"}]
          /\ exec' \in [Commands -> {"none", "sent", "running", "ok", "failed", "killed"}]
      BY <2>3
    <3>2. \A d \in Commands : exec[d] = "ok" => exec'[d] = "ok"
      BY <2>2, <2>3
    <3>3. \A d \in Commands : trigger'[d] = "idle" => exec'[d] = "none"
      BY <2>3
    <3>4. \A x \in pending : x[1] \in Commands
      BY DEF Entries
    <3> QED BY <2>1, <3>1, <3>2, <3>3, <3>4
  <2>4. CASE trigger' = [trigger EXCEPT ![c] = "answered"] /\ UNCHANGED exec
    BY <2>1, <2>4
  <2> QED BY <1>1, <2>3, <2>4 DEF TriggerCmd
<1>2. ASSUME NEW c \in Commands, Master(c) PROVE CommandTypeOK' /\ RanInv' /\ GoodStays
  <2>1. UNCHANGED <<exec, reply, log, reader>> /\ trigger' = [trigger EXCEPT ![c] = "answered"]
    BY <1>2 DEF Master, Answered, NetworkError
  <2>2. \/ pending' = pending
        \/ \E s \in {"success", "fail"} :
              pending' = pending \cup {<<c, s>>} /\ (s = "success" => reply[c] = "ok")
    BY <1>2 DEF Master, Answered, NetworkError, RecordLog, Status
  <2>3. pending' \subseteq Entries
    BY <2>2 DEF Entries
  <2>4. \A e \in pending' : e[2] = "success" => exec[e[1]] = "ok"
    BY <2>2
  <2> QED BY <2>1, <2>3, <2>4
<1>3. ASSUME NEW c \in Commands, HandleExec(c) PROVE CommandTypeOK' /\ RanInv' /\ GoodStays
  BY <1>3 DEF HandleExec, Entries
<1>4. ASSUME NEW c \in Commands, CommandEnds(c) PROVE CommandTypeOK' /\ RanInv' /\ GoodStays
  BY <1>4 DEF CommandEnds, Entries
<1>5. CASE RestartMaster
  BY <1>5 DEF RestartMaster
<1>6. CASE WorkerDies
  BY <1>6 DEF WorkerDies, Entries
<1> QED BY <1>0, <1>1, <1>2, <1>3, <1>4, <1>5, <1>6 DEF Working

\* t is s with e put in at m: those behind it have moved back by one.
Inserted(t, s, m, e) ==
    /\ Len(t) = Len(s) + 1
    /\ \A n \in 1..(Len(s) + 1) : t[n] = IF n < m THEN s[n] ELSE IF n = m THEN e ELSE s[n - 1]

\* What InsertAt does to a sequence.
LEMMA InsertMoves ==
    ASSUME NEW S, NEW s \in Seq(S), NEW m \in 1..(Len(s) + 1), NEW e \in S,
           NEW t, t = InsertAt(s, m, e)
    PROVE  t \in Seq(S) /\ Inserted(t, s, m, e)
<1> DEFINE a == SubSeq(s, 1, m - 1)
           b == SubSeq(s, m, Len(s))
<1>1. Len(s) \in Nat /\ \A i \in 1..Len(s) : s[i] \in S
  BY ElementOfSeq, LenProperties
<1>2. /\ a \in Seq(S) /\ Len(a) = m - 1
      /\ \A i \in 1..(m - 1) : a[i] = s[i]
  BY <1>1, SubSeqProperties
<1>3. /\ b \in Seq(S) /\ Len(b) = Len(s) - m + 1
      /\ \A i \in 1..(Len(s) - m + 1) : b[i] = s[m + i - 1]
  BY <1>1, SubSeqProperties
<1> HIDE DEF a, b
<1>4. /\ a \o <<e>> \in Seq(S) /\ Len(a \o <<e>>) = m
      /\ \A i \in 1..m : (a \o <<e>>)[i] = IF i < m THEN a[i] ELSE e
  BY <1>2
<1> DEFINE c == a \o <<e>>
<1>5. /\ c \in Seq(S) /\ Len(c) = m /\ \A i \in 1..m : c[i] = IF i < m THEN a[i] ELSE e
  BY <1>4
<1> HIDE DEF c
<1>6. /\ c \o b \in Seq(S) /\ Len(c \o b) = Len(s) + 1
      /\ \A i \in 1..(Len(s) + 1) : (c \o b)[i] = IF i <= m THEN c[i] ELSE b[i - m]
  BY <1>1, <1>3, <1>5
<1>7. t = c \o b
  BY DEF InsertAt, a, b, c
<1>8. ASSUME NEW n \in 1..(Len(s) + 1)
      PROVE  (c \o b)[n] = IF n < m THEN s[n] ELSE IF n = m THEN e ELSE s[n - 1]
  BY <1>1, <1>2, <1>3, <1>5, <1>6
<1> QED BY <1>6, <1>7, <1>8 DEF Inserted

\* The entries that a goroutine writes go between the others.
LEMMA WriteLogIInv ==
    ASSUME PageAssumption, CommandIInv, NEW e \in Entries, WriteLog(e)
    PROVE  CommandIInv'
<1> USE DEF CommandIInv
<1>1. log \in Seq(Entries) /\ Len(log) \in Nat
  BY DEF CommandTypeOK
<1>2. PICK m \in 1..(Len(log) + 1) : log' = InsertAt(log, m, e)
  BY DEF WriteLog
<1>3. /\ log' \in Seq(Entries) /\ Len(log') = Len(log) + 1
      /\ \A n \in 1..(Len(log) + 1) :
            log'[n] = IF n < m THEN log[n] ELSE IF n = m THEN e ELSE log[n - 1]
  <2>1. log' \in Seq(Entries) /\ Inserted(log', log, m, e)
    BY <1>1, <1>2, InsertMoves
  <2> QED BY <2>1 DEF Inserted
<1>4. /\ e \in pending /\ pending' \subseteq pending
      /\ UNCHANGED <<trigger, exec, reply, reader>>
  BY DEF WriteLog
<1>5. CommandTypeOK' /\ RanInv'
  <2>1. CommandTypeOK'
    <3>1. log' \in Seq(Entries)
      BY <1>3
    <3> QED BY <1>4, <3>1 DEF CommandTypeOK
  <2>2. RanInv'
    BY <1>4 DEF RanInv
  <2> QED BY <2>1, <2>2
<1>6. SuccessRan'
  <2> SUFFICES ASSUME NEW n \in 1..Len(log'), log'[n][2] = "success"
               PROVE  exec[log'[n][1]] = "ok"
    BY <1>4 DEF SuccessRan
  <2>1. CASE n < m
    <3>1. n \in 1..Len(log) /\ log'[n] = log[n]
      BY <1>1, <1>3, <2>1
    <3> QED BY <3>1 DEF LogSound, SuccessRan
  <2>2. CASE n = m
    BY <1>3, <1>4, <2>2 DEF RanInv
  <2>3. CASE n > m
    <3>1. n - 1 \in 1..Len(log) /\ log'[n] = log[n - 1]
      BY <1>1, <1>3, <2>3
    <3> QED BY <3>1 DEF LogSound, SuccessRan
  <2> QED BY <1>1, <1>3, <2>1, <2>2, <2>3
<1>7. PagesInv'
  <2> SUFFICES ASSUME reader.page > 0, NEW d \in reader.wanted \ reader.seen
               PROVE  \E n \in 1..Len(log') : n > Offset(reader.page) /\ log'[n] = d
    BY <1>4 DEF PagesInv, Offset
  <2>1. PICK n \in 1..Len(log) : n > Offset(reader.page) /\ log[n] = d
    BY DEF PagesInv
  <2>2. Offset(reader.page) \in Int
    BY PageAssumption DEF CommandTypeOK, Offset, PageAssumption
  <2>3. CASE n < m
    BY <1>1, <1>3, <2>1, <2>3
  <2>4. CASE n >= m
    <3>1. n + 1 \in 1..Len(log') /\ log'[n + 1] = log[n] /\ n + 1 > Offset(reader.page)
      BY <1>1, <1>3, <2>1, <2>2, <2>4
    <3> QED BY <2>1, <3>1
  <2> QED BY <1>1, <2>3, <2>4
<1> QED BY <1>4, <1>5, <1>6, <1>7 DEF LogSound, PagesComplete

\* Each page begins where the one before it ends.
LEMMA OffsetNext ==
    ASSUME PageAssumption, NEW k \in Nat, k >= 1
    PROVE  Offset(k) \in Nat /\ Offset(k + 1) = Offset(k) + PageSize
<1>1. PageSize \in Nat
  BY DEF PageAssumption
<1>2. PICK j \in Nat : k = j + 1
  <2>1. k - 1 \in Nat /\ k = (k - 1) + 1
    OBVIOUS
  <2> QED BY <2>1
<1>3. Offset(k) = j * PageSize
  BY <1>1, <1>2 DEF Offset
<1>4. Offset(k + 1) = (j + 1) * PageSize
  BY <1>1, <1>2 DEF Offset
<1>5. j * PageSize \in Nat /\ (j + 1) * PageSize = j * PageSize + PageSize
  BY <1>1, <1>2
<1> QED BY <1>3, <1>4, <1>5

\* A page holds the entries from its offset up to that of the next.
LEMMA PageHolds ==
    ASSUME PageAssumption, CommandTypeOK, reader.page > 0
    PROVE  LET o == Offset(reader.page)
               l == GetLogs(reader.page)
           IN  /\ o \in Nat /\ Offset(reader.page + 1) = o + PageSize
               /\ l \in Seq(Entries)
               /\ \A n \in 1..Len(log) : n > o /\ n <= o + PageSize => log[n] \in ToSet(l)
               /\ Len(l) < PageSize => Len(log) < o + PageSize
<1> DEFINE p == reader.page
           o == Offset(p)
           m == Min({o + PageSize, Len(log)})
           l == SubSeq(log, o + 1, m)
<1>1. /\ p \in Nat /\ p >= 1 /\ PageSize \in Nat /\ PageSize >= 1
      /\ log \in Seq(Entries) /\ Len(log) \in Nat
  BY DEF CommandTypeOK, PageAssumption
<1>2. o \in Nat /\ Offset(p + 1) = o + PageSize
  BY <1>1, OffsetNext
<1> HIDE DEF o
<1>3. m = IF o + PageSize <= Len(log) THEN o + PageSize ELSE Len(log)
  <2> DEFINE x == o + PageSize
             y == Len(log)
  <2>1. x \in Int /\ y \in Int
    BY <1>1, <1>2
  <2> HIDE DEF x, y
  <2>2. Min({x, y}) = IF x <= y THEN x ELSE y
    BY <2>1 DEF Min
  <2> QED BY <2>2 DEF x, y
<1>4. m \in Int /\ m <= Len(log)
  BY <1>1, <1>2, <1>3
<1> HIDE DEF m
<1>5. \A i \in (o + 1)..m : log[i] \in Entries
  BY <1>1, <1>2, <1>4
<1>6. /\ l \in Seq(Entries) /\ Len(l) = (IF o + 1 <= m THEN m - o ELSE 0)
      /\ \A i \in 1..(m - o) : l[i] = log[o + i]
  <2>1. o + 1 \in Int
    BY <1>2
  <2>2. /\ l \in Seq(Entries) /\ Len(l) = (IF o + 1 <= m THEN m - (o + 1) + 1 ELSE 0)
        /\ \A i \in 1..(m - (o + 1) + 1) : l[i] = log[(o + 1) + i - 1]
    BY <2>1, <1>4, <1>5, SubSeqProperties
  <2> QED BY <1>2, <1>4, <2>2
<1> HIDE DEF l
<1>7. ASSUME NEW n \in 1..Len(log), n > o, n <= o + PageSize PROVE log[n] \in ToSet(l)
  <2>1. n - o \in 1..Len(l) /\ l[n - o] = log[n]
    BY <1>1, <1>2, <1>3, <1>4, <1>6, <1>7
  <2>2. DOMAIN l = 1..Len(l)
    BY <1>6
  <2> QED BY <2>1, <2>2 DEF ToSet
<1>8. Len(l) < PageSize => Len(log) < o + PageSize
  BY <1>1, <1>2, <1>3, <1>4, <1>6
<1>9. GetLogs(p) = l
  BY DEF GetLogs, o, m, l
<1> QED BY <1>2, <1>6, <1>7, <1>8, <1>9 DEF o

\* The client sees a page, and is through when it was not full.
LEMMA ReadPageIInv ==
    ASSUME PageAssumption, CommandIInv, ReadPage
    PROVE  CommandIInv'
<1> USE DEF CommandIInv
<1> DEFINE o == Offset(reader.page)
           l == GetLogs(reader.page)
<1>1. reader.page > 0 /\ UNCHANGED <<trigger, exec, reply, pending, log>>
  BY DEF ReadPage
<1>2. reader' = [reader EXCEPT !.seen = reader.seen \cup ToSet(l),
                               !.page = IF Len(l) < PageSize THEN 0 ELSE reader.page + 1,
                               !.through = Len(l) < PageSize]
  BY DEF ReadPage
<1>3. /\ o \in Nat /\ Offset(reader.page + 1) = o + PageSize
      /\ l \in Seq(Entries)
      /\ \A n \in 1..Len(log) : n > o /\ n <= o + PageSize => log[n] \in ToSet(l)
      /\ Len(l) < PageSize => Len(log) < o + PageSize
  BY <1>1, PageHolds
<1>4. /\ reader \in [page : Nat, wanted : SUBSET Entries, seen : SUBSET Entries, through : BOOLEAN]
      /\ Len(log) \in Nat /\ PageSize \in Nat
  BY DEF CommandTypeOK, PageAssumption
<1> HIDE DEF o, l
<1>5. ToSet(l) \subseteq Entries /\ Len(l) \in Nat
  BY <1>3 DEF ToSet
<1>6. /\ reader'.seen = reader.seen \cup ToSet(l) /\ reader'.wanted = reader.wanted
      /\ reader'.page = IF Len(l) < PageSize THEN 0 ELSE reader.page + 1
      /\ reader'.through = (Len(l) < PageSize)
  BY <1>2, <1>4
<1>7. CommandTypeOK' /\ RanInv' /\ SuccessRan'
  <2>1. reader' \in [page : Nat, wanted : SUBSET Entries, seen : SUBSET Entries, through : BOOLEAN]
    <3> DEFINE page == IF Len(l) < PageSize THEN 0 ELSE reader.page + 1
               through == Len(l) < PageSize
               seen == reader.seen \cup ToSet(l)
    <3>1. page \in Nat /\ through \in BOOLEAN /\ seen \in SUBSET Entries
      BY <1>4, <1>5
    <3>2. reader' = [reader EXCEPT !.seen = seen, !.page = page, !.through = through]
      BY <1>2
    <3> HIDE DEF page, through, seen
    <3> QED BY <1>4, <3>1, <3>2
  <2> QED BY <1>1, <2>1 DEF CommandTypeOK, RanInv, LogSound, SuccessRan
<1>8. ASSUME NEW e \in reader'.wanted \ reader'.seen
      PROVE  \E n \in 1..Len(log) : n > o + PageSize /\ log[n] = e
  <2>1. PICK n \in 1..Len(log) : n > o /\ log[n] = e
    BY <1>1, <1>6, <1>8 DEF PagesInv, o
  <2>2. ~(n <= o + PageSize)
    BY <1>3, <1>6, <1>8, <2>1
  <2> QED BY <1>3, <1>4, <2>1, <2>2
<1>9. PagesInv'
  BY <1>1, <1>3, <1>6, <1>8 DEF PagesInv, Offset, o
<1>10. PagesComplete'
  <2> SUFFICES ASSUME Len(l) < PageSize, NEW e \in reader'.wanted \ reader'.seen PROVE FALSE
    BY <1>6 DEF PagesComplete
  <2>1. Len(log) < o + PageSize
    BY <1>3
  <2>2. PICK n \in 1..Len(log) : n > o + PageSize
    BY <1>8
  <2> QED BY <1>3, <1>4, <2>1, <2>2
<1> QED BY <1>7, <1>9, <1>10 DEF LogSound

\* A client that begins wants what is in the log, all of it on the first page
\* or behind.
LEMMA StartReadingIInv ==
    ASSUME PageAssumption, CommandIInv, StartReading
    PROVE  CommandIInv'
<1> USE DEF CommandIInv
<1>1. /\ reader' = [page |-> 1, wanted |-> ToSet(log), seen |-> {}, through |-> FALSE]
      /\ UNCHANGED <<trigger, exec, reply, pending, log>>
  BY DEF StartReading
<1>2. log \in Seq(Entries) /\ DOMAIN log = 1..Len(log)
  BY DEF CommandTypeOK
<1>3. ToSet(log) \subseteq Entries
  BY <1>2 DEF ToSet
<1>4. CommandTypeOK' /\ RanInv' /\ SuccessRan' /\ PagesComplete'
  BY <1>1, <1>3 DEF CommandTypeOK, RanInv, LogSound, SuccessRan, PagesComplete
<1>5. Offset(1) = 0
  BY PageAssumption DEF Offset, PageAssumption
<1>6. PagesInv'
  <2> SUFFICES ASSUME NEW e \in ToSet(log) PROVE \E n \in 1..Len(log) : n > Offset(1) /\ log[n] = e
    BY <1>1 DEF PagesInv, Offset
  <2> QED BY <1>2, <1>5 DEF ToSet
<1> QED BY <1>4, <1>6 DEF LogSound

\* The log starts with the invariant and keeps it.
LEMMA InductiveCommand == ASSUME PageAssumption PROVE CommandSpec => []CommandIInv
<1>1. InitCommand => CommandIInv
  <2> SUFFICES ASSUME InitCommand PROVE CommandIInv
    OBVIOUS
  <2>1. log \in Seq(Entries) /\ Len(log) = 0
    BY EmptySeq DEF InitCommand
  <2> QED BY <2>1 DEF InitCommand, CommandIInv, CommandTypeOK, RanInv, PagesInv, LogSound, SuccessRan,
                      PagesComplete
<1>2. CommandIInv /\ [NextCommand]_commandVars => CommandIInv'
  <2> SUFFICES ASSUME CommandIInv, [NextCommand]_commandVars PROVE CommandIInv'
    OBVIOUS
  <2>1. CASE Working
    <3>1. CommandTypeOK' /\ RanInv' /\ GoodStays /\ UNCHANGED <<log, reader>>
      BY <2>1, WorkingRan DEF CommandIInv
    <3>2. \A n \in 1..Len(log) : log[n][1] \in Commands
      BY DEF CommandIInv, CommandTypeOK, Entries
    <3> QED BY <3>1, <3>2 DEF CommandIInv, GoodStays, PagesInv, Offset, LogSound, SuccessRan, PagesComplete
  <2>2. CASE UNCHANGED commandVars
    BY <2>2 DEF commandVars, CommandIInv, CommandTypeOK, RanInv, PagesInv, Offset, LogSound, SuccessRan,
                PagesComplete
  <2> QED BY <2>1, <2>2, WriteLogIInv, StartReadingIInv, ReadPageIInv DEF NextCommand, Working
<1> QED BY <1>1, <1>2, PTL DEF CommandSpec

\* What the log calls a success ran to a good end, and a client that walks it
\* page by page sees all that was there, whatever is inserted meanwhile: of
\* TriggerCmd, RecordLog and GetLogs.
THEOREM LogTellsTheTruth ==
    ASSUME PageAssumption
    PROVE  CommandSpec => []LogSound
<1>1. CommandIInv => LogSound
  BY DEF CommandIInv
<1> QED BY <1>1, InductiveCommand, PTL

-----------------------------------------------------------------------------
(***************************************************************************)
(* All the parts                                                           *)
(***************************************************************************)

\* Every variable of every part has its type, whatever the other parts do, and
\* the log of operations is sound.
THEOREM ServicesSound == AllSpec => []ServicesInv
<1>1. HubAssumption /\ ConfigAssumption /\ WindowAssumption /\ PageAssumption /\ AlertAssumption
  BY ServicesAssumption DEF ServicesAssumption
<1>2. AllInit => InitHub /\ InitProxy /\ InitStream /\ InitCommand /\ Init
  BY DEF AllInit
<1>3. [AllNext]_allVars =>
        /\ [NextHub]_hubVars /\ [NextProxy]_proxyVars /\ [NextStream]_streamVars
        /\ [NextCommand]_commandVars /\ [Next]_vars
  BY DEF AllNext, ButHub, ButNacos, ButStream, ButCommand, ButAlerts, allVars
<1>4. AllSpec => HubSpec /\ ProxySpec /\ StreamSpec /\ CommandSpec /\ Spec
  BY <1>2, <1>3, PTL DEF AllSpec, HubSpec, ProxySpec, StreamSpec, CommandSpec, Spec
<1>5. HubSpec => []HubTypeOK
  BY <1>1, HubTypeCorrect
<1>6. ProxySpec => []ProxyTypeOK
  BY <1>1, ProxyTypes
<1>7. StreamSpec => []StreamTypeOK
  BY <1>1, StreamTypes
<1>8. CommandSpec => [](CommandTypeOK /\ LogSound)
  <2>1. CommandIInv => CommandTypeOK /\ LogSound
    BY DEF CommandIInv
  <2> QED BY <1>1, <2>1, InductiveCommand, PTL
<1>9. Spec => []TypeOK
  <2>1. IInv => TypeOK
    BY DEF IInv
  <2> QED BY <1>1, <2>1, Inductive, PTL
<1>10. HubTypeOK /\ ProxyTypeOK /\ StreamTypeOK /\ (CommandTypeOK /\ LogSound) /\ TypeOK => ServicesInv
  BY DEF ServicesInv, AllTypeOK
<1> QED BY <1>4, <1>5, <1>6, <1>7, <1>8, <1>9, <1>10, PTL
=============================================================================
