-------------------------------- MODULE WsHub --------------------------------
(***************************************************************************)
(* The WebSocket hub of the master: the handlers that publish a view, the  *)
(* goroutine Run that selects on three unbuffered channels, the goroutine  *)
(* throttlePush that sends once a second what has changed, and one socket  *)
(* with its reader per browser.                                            *)
(*                                                                         *)
(* A view (the nodes, the systems) is only told by its version.  A handler *)
(* changes the tables, reads the whole view and hands it to the hub, so    *)
(* two handlers may hand over their views in the other order.              *)
(*                                                                         *)
(* h.mu is held across steps in two places: while broadcastToAll writes to *)
(* the clients, and while pushCurrentState writes to a new one.  Either    *)
(* write waits for a browser that does not read.                           *)
(***************************************************************************)
EXTENDS Integers

CONSTANTS
    Kinds,       \* what is published: message types
    Kept,        \* the types Run knows: nodes and systems
    Aging,       \* the views that time alone can change: nodes
    Producers,   \* goroutines that publish, each one kind
    Topic,       \* which kind
    Clients,     \* sockets: a browser that comes again is another one
    MaxVersion   \* bound: changes of a view

\* Of the constants.
HubAssumption ==
    /\ Kept \subseteq Kinds /\ Aging \subseteq Kept
    /\ Topic \in [Producers -> Kinds]
    /\ MaxVersion \in Nat \ {0}

VARIABLES
    view,      \* the version of each view in the tables
    prod,      \* the publishing goroutines
    latest,    \* latestNodes, latestSystems: 0 is nil
    dirty,     \* nodesDirty, systemsDirty
    run,       \* the goroutine Run
    push,      \* the goroutine throttlePush: what it sends, to whom yet
    clients,   \* h.clients
    conn,      \* HandleWebsocket and the reader of each socket
    broken,    \* sockets whose browser is gone
    stalled,   \* sockets whose browser does not read
    screen     \* the version of each view a browser was last sent

hubVars == <<view, prod, latest, dirty, run, push, clients, conn, broken, stalled, screen>>

Versions == 0..MaxVersion
Select   == [at |-> "select"]
NoMsgs   == [k \in Kinds |-> 0]
Resting  == [at |-> "idle", msgs |-> NoMsgs, todo |-> {}]

\* The last line: nobody changes h.clients while broadcastToAll walks it.
HubTypeOK ==
    /\ view \in [Kinds -> Versions]
    /\ prod \in [Producers -> [at : {"idle", "read", "send"}, version : Versions]]
    /\ latest \in [Kinds -> Versions]
    /\ dirty \subseteq Kept
    /\ run \in {Select} \cup [at : {"store"}, kind : Kinds, version : Versions]
                        \cup [at : {"add", "greet", "greeting", "leave"}, client : Clients]
    /\ push \in [at : {"idle", "collected", "writing"}, msgs : [Kinds -> Versions],
                 todo : SUBSET Clients]
    /\ clients \subseteq Clients
    /\ conn \in [Clients -> {"none", "up", "on", "gone", "off"}]
    /\ broken \subseteq Clients /\ stalled \subseteq Clients
    /\ screen \in [Clients -> [Kinds -> Versions]]
    /\ push.todo \subseteq clients

InitHub ==
    /\ view = [k \in Kinds |-> IF k \in Kept THEN 1 ELSE 0]
    /\ prod = [p \in Producers |-> [at |-> "idle", version |-> 0]]
    /\ latest = NoMsgs /\ dirty = {}
    /\ run = Select /\ push = Resting
    /\ clients = {} /\ conn = [c \in Clients |-> "none"]
    /\ broken = {} /\ stalled = {}
    /\ screen = [c \in Clients |-> NoMsgs]

Locked == run.at = "greeting" \/ push.at = "writing"

-----------------------------------------------------------------------------
(***************************************************************************)
(* The handlers: change the tables, read the view, publish it              *)
(***************************************************************************)

\* A handler that is fed by heartbeats or reports may find nothing to change;
\* an alert is always a new one.
Handle(p) ==
    /\ prod[p].at = "idle"
    /\ \/ view[Topic[p]] < MaxVersion /\ view' = [view EXCEPT ![Topic[p]] = @ + 1]
       \/ Topic[p] \in Kept /\ UNCHANGED view
    /\ prod' = [prod EXCEPT ![p].at = "read"]
    /\ UNCHANGED <<latest, dirty, run, push, clients, conn, broken, stalled, screen>>

\* A node goes offline by its age, which GetAllNodes finds out when it is asked:
\* the view is another one, and nobody publishes it.
Lapse(k) ==
    /\ k \in Aging /\ view[k] < MaxVersion
    /\ view' = [view EXCEPT ![k] = @ + 1]
    /\ UNCHANGED <<prod, latest, dirty, run, push, clients, conn, broken, stalled, screen>>

\* GetAllNodes, GetFullView.
Read(p) ==
    /\ prod[p].at = "read"
    /\ prod' = [prod EXCEPT ![p].at = "send", ![p].version = view[Topic[p]]]
    /\ UNCHANGED <<view, latest, dirty, run, push, clients, conn, broken, stalled, screen>>

\* h.broadcast is unbuffered: the handler waits for Run.
Broadcast(p) ==
    /\ prod[p].at = "send" /\ run = Select
    /\ run'  = [at |-> "store", kind |-> Topic[p], version |-> prod[p].version]
    /\ prod' = [prod EXCEPT ![p].at = "idle", ![p].version = 0]
    /\ UNCHANGED <<view, latest, dirty, push, clients, conn, broken, stalled, screen>>

-----------------------------------------------------------------------------
(***************************************************************************)
(* Run                                                                     *)
(***************************************************************************)

\* Mutant: a view is marked dirty the first time only.
StoreOnce ==
    /\ run.at = "store" /\ ~Locked
    /\ IF run.kind \in Kept
         THEN /\ latest' = [latest EXCEPT ![run.kind] = run.version]
              /\ dirty'  = IF latest[run.kind] = 0 THEN dirty \cup {run.kind} ELSE dirty
         ELSE UNCHANGED <<latest, dirty>>
    /\ run' = Select
    /\ UNCHANGED <<view, prod, push, clients, conn, broken, stalled, screen>>

\* A message of another type changes nothing.
Store ==
    /\ run.at = "store" /\ ~Locked
    /\ IF run.kind \in Kept
         THEN /\ latest' = [latest EXCEPT ![run.kind] = run.version]
              /\ dirty'  = dirty \cup {run.kind}
         ELSE UNCHANGED <<latest, dirty>>
    /\ run' = Select
    /\ UNCHANGED <<view, prod, push, clients, conn, broken, stalled, screen>>

Add ==
    /\ run.at = "add" /\ ~Locked
    /\ clients' = clients \cup {run.client}
    /\ run' = [run EXCEPT !.at = "greet"]
    /\ UNCHANGED <<view, prod, latest, dirty, push, conn, broken, stalled, screen>>

\* pushCurrentState takes the lock ...
Greet ==
    /\ run.at = "greet" /\ ~Locked
    /\ run' = [run EXCEPT !.at = "greeting"]
    /\ UNCHANGED <<view, prod, latest, dirty, push, clients, conn, broken, stalled, screen>>

\* What a browser shows once it has been sent what is not nil of msgs.
Shown(c, msgs) == [k \in Kinds |-> IF msgs[k] = 0 THEN screen[c][k] ELSE msgs[k]]

\* WriteJSON returns: the browser reads, or is gone (an error, or a message
\* written to nobody).
Accepts(c) == c \in broken \/ c \notin stalled

\* ... and writes what there is; an error is ignored.
Greeted ==
    /\ run.at = "greeting" /\ Accepts(run.client)
    /\ screen' = IF run.client \in broken THEN screen
                 ELSE [screen EXCEPT ![run.client] = Shown(run.client, latest)]
    /\ run' = Select
    /\ UNCHANGED <<view, prod, latest, dirty, push, clients, conn, broken, stalled>>

\* Mutant: the map is changed without the lock.
LeaveUnlocked ==
    /\ run.at = "leave"
    /\ clients' = clients \ {run.client}
    /\ run' = Select
    /\ UNCHANGED <<view, prod, latest, dirty, push, conn, broken, stalled, screen>>

\* disconnect
Leave ==
    /\ run.at = "leave" /\ ~Locked
    /\ clients' = clients \ {run.client}
    /\ run' = Select
    /\ UNCHANGED <<view, prod, latest, dirty, push, conn, broken, stalled, screen>>

-----------------------------------------------------------------------------
(***************************************************************************)
(* throttlePush                                                            *)
(***************************************************************************)

\* A tick: what is dirty is taken, and the flags cleared.  h.mu is free until
\* broadcastToAll takes it again.
Collect ==
    /\ push.at = "idle" /\ ~Locked /\ dirty # {}
    /\ push'  = [push EXCEPT !.at = "collected",
                             !.msgs = [k \in Kinds |-> IF k \in dirty THEN latest[k] ELSE 0]]
    /\ dirty' = {}
    /\ UNCHANGED <<view, prod, latest, run, clients, conn, broken, stalled, screen>>

BroadcastToAll ==
    /\ push.at = "collected" /\ ~Locked
    /\ push' = [push EXCEPT !.at = "writing", !.todo = clients]
    /\ UNCHANGED <<view, prod, latest, dirty, run, clients, conn, broken, stalled, screen>>

\* Mutant: a message that fails is tried again.
WriteAgain(c) ==
    /\ push.at = "writing" /\ c \in push.todo /\ c \notin broken /\ Accepts(c)
    /\ push' = [push EXCEPT !.todo = @ \ {c}]
    /\ screen' = [screen EXCEPT ![c] = Shown(c, push.msgs)]
    /\ UNCHANGED <<view, prod, latest, dirty, run, clients, conn, broken, stalled>>

\* The messages of one client; one that fails is closed and forgotten.
Write(c) ==
    /\ push.at = "writing" /\ c \in push.todo /\ Accepts(c)
    /\ push' = [push EXCEPT !.todo = @ \ {c}]
    /\ IF c \in broken
         THEN clients' \in {clients, clients \ {c}} /\ UNCHANGED screen
         ELSE screen' = [screen EXCEPT ![c] = Shown(c, push.msgs)] /\ UNCHANGED clients
    /\ UNCHANGED <<view, prod, latest, dirty, run, conn, broken, stalled>>

\* Mutant: the flags are cleared once more when the pass ends.
WrittenLate ==
    /\ push.at = "writing" /\ push.todo = {}
    /\ push'  = Resting
    /\ dirty' = {}
    /\ UNCHANGED <<view, prod, latest, run, clients, conn, broken, stalled, screen>>

Written ==
    /\ push.at = "writing" /\ push.todo = {}
    /\ push' = Resting
    /\ UNCHANGED <<view, prod, latest, dirty, run, clients, conn, broken, stalled, screen>>

-----------------------------------------------------------------------------
(***************************************************************************)
(* HandleWebsocket, the readers and the browsers                           *)
(***************************************************************************)
Upgrade(c) ==
    /\ conn[c] = "none"
    /\ conn' = [conn EXCEPT ![c] = "up"]
    /\ UNCHANGED <<view, prod, latest, dirty, run, push, clients, broken, stalled, screen>>

\* Mutant: the reader is started first, and may have ended before.
RegisterAsync(c) ==
    /\ \/ conn[c] = "up" /\ conn' = [conn EXCEPT ![c] = "on"]
       \/ conn[c] = "off" /\ c \notin clients /\ UNCHANGED conn
    /\ run = Select
    /\ run' = [at |-> "add", client |-> c]
    /\ UNCHANGED <<view, prod, latest, dirty, push, clients, broken, stalled, screen>>

\* h.register is unbuffered; the reader starts when Run has taken the socket.
Register(c) ==
    /\ conn[c] = "up" /\ run = Select
    /\ conn' = [conn EXCEPT ![c] = "on"]
    /\ run'  = [at |-> "add", client |-> c]
    /\ UNCHANGED <<view, prod, latest, dirty, push, clients, broken, stalled, screen>>

\* ReadMessage fails.
ReadFails(c) ==
    /\ conn[c] = "on" /\ c \in broken
    /\ conn' = [conn EXCEPT ![c] = "gone"]
    /\ UNCHANGED <<view, prod, latest, dirty, run, push, clients, broken, stalled, screen>>

Unregister(c) ==
    /\ conn[c] = "gone" /\ run = Select
    /\ conn' = [conn EXCEPT ![c] = "off"]
    /\ run'  = [at |-> "leave", client |-> c]
    /\ UNCHANGED <<view, prod, latest, dirty, push, clients, broken, stalled, screen>>

Hangup(c) ==
    /\ conn[c] \in {"up", "on"} /\ c \notin broken
    /\ broken' = broken \cup {c}
    /\ UNCHANGED <<view, prod, latest, dirty, run, push, clients, conn, stalled, screen>>

\* A browser stops reading, or reads on.
Stall(c) ==
    /\ conn[c] \in {"up", "on"}
    /\ stalled' = IF c \in stalled THEN stalled \ {c} ELSE stalled \cup {c}
    /\ UNCHANGED <<view, prod, latest, dirty, run, push, clients, conn, broken, screen>>

-----------------------------------------------------------------------------
Publish(p) == Read(p) \/ Broadcast(p)
Run        == Store \/ Add \/ Greet \/ Greeted \/ Leave
Push       == Collect \/ BroadcastToAll \/ (\E c \in Clients : Write(c)) \/ Written
Serve(c)   == Register(c) \/ ReadFails(c) \/ Unregister(c)

NextHub ==
    \/ \E p \in Producers : Handle(p) \/ Publish(p)
    \/ \E k \in Kinds : Lapse(k)
    \/ Run
    \/ Push
    \/ \E c \in Clients : Upgrade(c) \/ Serve(c) \/ Hangup(c) \/ Stall(c)

HubSpec == InitHub /\ [][NextHub]_hubVars

\* Goroutines run: select picks among the ready channels at random, a channel
\* serves its senders in turn and so does a mutex, so whoever waits for Run or
\* for h.mu is served if that becomes possible again and again.  Requests, reports
\* and heartbeats may come or not: nothing publishes a view of its own accord.
FairHub ==
    /\ HubSpec
    /\ \A p \in Producers : SF_hubVars(Publish(p))
    /\ SF_hubVars(Run) /\ SF_hubVars(Push)
    /\ \A c \in Clients : SF_hubVars(Serve(c))

-----------------------------------------------------------------------------
(***************************************************************************)
(* Properties                                                              *)
(***************************************************************************)
Entering(c) == run.at \in {"greet", "greeting"} /\ run.client = c
Underway(c, k) ==
    /\ push.at = "collected" \/ (push.at = "writing" /\ c \in push.todo)
    /\ push.msgs[k] = latest[k]

\* Nothing is lost between the flag and the clients: while a view is not dirty,
\* whoever is connected and has been greeted was sent the latest one, or is
\* about to be.  In particular a browser that comes between the clearing of the
\* flag and the sending misses nothing.
CleanMeansSent ==
    \A c \in clients \ broken, k \in Kept \ dirty :
        latest[k] # 0 /\ ~Entering(c) => screen[c][k] = latest[k] \/ Underway(c, k)

Reads(c) == conn[c] = "on" /\ c \notin broken /\ stalled = {}

\* Some handler is about to read the view, to publish it.
Publishing(k) == \E p \in Producers : Topic[p] = k /\ prod[p].at = "read"

\* A browser that stays, while no browser blocks the hub, ends up showing the view
\* that was published last.  That is what the tables say only if the view is read
\* and published again and again: handlers may publish in another order than they
\* read in, and the view may change with nobody to publish it.
Converges ==
    \A c \in Clients, k \in Kept :
        <>[]Reads(c) =>
            /\ <>[](screen[c][k] = latest[k])
            /\ []<>Publishing(k) => <>[](screen[c][k] = view[k])

\* A socket whose browser has gone leaves h.clients for good.
Forgotten ==
    \A c \in Clients : <>[](c \in broken /\ stalled = {}) => <>[](c \notin clients)

\* No handler waits for ever on the hub, unless a browser does not read.
HandlersReturn ==
    \A p \in Producers : []<>(prod[p].at # "send") \/ []<>(stalled # {})

\* An alert is broadcast to the browsers: to one that was there before it, at least.
AlertsArrive ==
    \A c \in Clients, k \in Kinds \ Kept :
        <>(Reads(c) /\ view[k] = 0) /\ <>[](Reads(c) /\ view[k] > 0) => <>(screen[c][k] > 0)
=============================================================================
