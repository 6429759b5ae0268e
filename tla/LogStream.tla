----------------------------- MODULE LogStream -----------------------------
(***************************************************************************)
(* One log on its way to a browser: the tail of the worker's handler, the  *)
(* connection between worker and master, the two goroutines of the         *)
(* master's proxy, and the connection to the browser.                      *)
(*                                                                         *)
(* What matters is how it ends.  Four loops block on each other -- on      *)
(* channels, on reads and on writes to somebody who no longer reads -- and *)
(* any of the machines may go away in between.  The lines themselves are   *)
(* only counted.                                                           *)
(***************************************************************************)
EXTENDS Integers

CONSTANT Window    \* what a connection holds before a write to it blocks

\* Of the constants.
WindowAssumption == Window \in Nat \ {0}

VARIABLES
    tail,     \* the goroutine of the tail: off, reading, handing over, stopped
    told,     \* has it been told to stop?
    handler,  \* handleLogStream of the worker
    ear,      \* its goroutine that waits for the peer to close
    up,       \* worker to master: lines on the way, and which ends are open
    pump,     \* the proxy's goroutine from worker to browser
    echo,     \* the one from browser to worker
    proxy,    \* InstanceLogStream
    errors,   \* what errChan holds
    down      \* master to browser

streamVars == <<tail, told, handler, ear, up, pump, echo, proxy, errors, down>>

worker == <<tail, told, handler, ear>>
master == <<pump, echo, proxy, errors>>

Conn == [lines : 0..Window, near : BOOLEAN, far : BOOLEAN]

StreamTypeOK ==
    /\ told \in BOOLEAN
    /\ tail \in {"off", "reading", "handing", "stopped"}
    /\ handler \in {"none", "open", "ranging", "writing", "stopping", "done"}
    /\ ear \in {"off", "reading", "stopping", "done"}
    /\ up \in Conn /\ down \in Conn
    /\ pump \in {"off", "reading", "writing", "failed", "done"}
    /\ echo \in {"off", "reading", "failed", "done"}
    /\ proxy \in {"dialing", "waiting", "done"}
    /\ errors \in 0..2

Open   == [lines |-> 0, near |-> TRUE, far |-> TRUE]
Closed == [lines |-> 0, near |-> FALSE, far |-> FALSE]

InitStream ==
    /\ told = FALSE
    /\ tail = "off" /\ handler = "none" /\ ear = "off"
    /\ up = Closed /\ down = Closed
    /\ pump = "off" /\ echo = "off" /\ proxy = "dialing" /\ errors = 0

\* A line written to a connection that is open at both ends; and taken out.
Put(c) == [c EXCEPT !.lines = @ + 1]
Taken(c)   == [c EXCEPT !.lines = @ - 1]
Whole(c)   == c.near /\ c.far

-----------------------------------------------------------------------------
(***************************************************************************)
(* The worker.  It has the near end of up.                                 *)
(***************************************************************************)

\* GetLogPath and TailFile; a log that cannot be found ends the stream.
OpenTail ==
    /\ handler = "open"
    /\ \/ handler' = "ranging" /\ tail' = "reading" /\ ear' = "reading" /\ UNCHANGED up
       \/ handler' = "done" /\ up' = [up EXCEPT !.near = FALSE] /\ UNCHANGED <<tail, ear>>
    /\ UNCHANGED <<told, down>> /\ UNCHANGED master

\* The file has grown by a line.  The tail may be at it when it is told to stop.
TailRead ==
    /\ tail = "reading"
    /\ tail' = "handing"
    /\ UNCHANGED <<told, handler, ear, up, down>> /\ UNCHANGED master

\* The channel is not buffered and the send has no way out: the handler must be
\* there to take the line.  Only then does the tail see that it is to stop.
HandOver ==
    /\ tail = "handing" /\ handler = "ranging"
    /\ tail' = IF told THEN "stopped" ELSE "reading"
    /\ handler' = "writing"
    /\ UNCHANGED <<told, ear, up, down>> /\ UNCHANGED master

\* ... or while it waits for the file to grow.
TailStops ==
    /\ told /\ tail = "reading"
    /\ tail' = "stopped"
    /\ UNCHANGED <<told, handler, ear, up, down>> /\ UNCHANGED master

\* WriteMessage, which blocks on a full connection and fails on a closed one.
WorkerWrite ==
    /\ handler = "writing"
    /\ \/ Whole(up) /\ up.lines < Window /\ up' = Put(up) /\ handler' = "ranging"
       \/ ~Whole(up) /\ handler' = "stopping" /\ UNCHANGED up
    /\ UNCHANGED <<tail, told, ear, down>> /\ UNCHANGED master

\* The range ends when the tail has closed its channel.
RangeEnds ==
    /\ handler = "ranging" /\ tail = "stopped"
    /\ handler' = "stopping"
    /\ UNCHANGED <<tail, told, ear, up, down>> /\ UNCHANGED master

\* The deferred calls: t.Stop, which waits for the tail, and then conn.Close.
HandlerStops ==
    /\ handler = "stopping"
    /\ \/ ~told /\ told' = TRUE /\ UNCHANGED <<handler, up>>
       \/ /\ told /\ tail = "stopped"
          /\ handler' = "done" /\ up' = [up EXCEPT !.near = FALSE] /\ UNCHANGED told
    /\ UNCHANGED <<tail, ear, down>> /\ UNCHANGED master

\* Mutant: the peer's closing is noticed and the tail is not stopped.
EarDeaf ==
    /\ \/ ear = "reading" /\ ~Whole(up) /\ ear' = "stopping"
       \/ ear = "stopping" /\ ear' = "done"
    /\ UNCHANGED <<tail, told, handler, up, down>> /\ UNCHANGED master

\* ReadMessage fails when either end is closed; t.Stop waits for the tail.
Ear ==
    /\ \/ ear = "reading" /\ ~Whole(up) /\ ear' = "stopping" /\ told' = TRUE
       \/ ear = "stopping" /\ tail = "stopped" /\ ear' = "done" /\ UNCHANGED told
    /\ UNCHANGED <<tail, handler, up, down>> /\ UNCHANGED master

-----------------------------------------------------------------------------
(***************************************************************************)
(* The master.  It has the far end of up and the near end of down.         *)
(***************************************************************************)

\* Dial the worker, then upgrade the browser's connection; either may fail.
DialWorker ==
    /\ proxy = "dialing"
    /\ \/ /\ handler' = "open" /\ up' = Open /\ down' = Open
          /\ proxy' = "waiting" /\ pump' = "reading" /\ echo' = "reading"
       \/ /\ handler' = "open" /\ up' = [Open EXCEPT !.far = FALSE]
          /\ proxy' = "done" /\ UNCHANGED <<down, pump, echo>>
       \/ /\ proxy' = "done" /\ UNCHANGED <<handler, up, down, pump, echo>>
    /\ UNCHANGED <<tail, told, ear, errors>>

\* What was sent before the worker closed is read before the error.
PumpRead ==
    /\ pump = "reading"
    /\ \/ up.far /\ up.lines > 0 /\ up' = Taken(up) /\ pump' = "writing"
       \/ (~up.far \/ (up.lines = 0 /\ ~up.near)) /\ pump' = "failed" /\ UNCHANGED up
    /\ UNCHANGED <<echo, proxy, errors, down>> /\ UNCHANGED worker

PumpWrite ==
    /\ pump = "writing"
    /\ \/ Whole(down) /\ down.lines < Window /\ down' = Put(down) /\ pump' = "reading"
       \/ ~Whole(down) /\ pump' = "failed" /\ UNCHANGED down
    /\ UNCHANGED <<up, echo, proxy, errors>> /\ UNCHANGED worker

\* Browsers send nothing: the read ends when the connection does.
EchoRead ==
    /\ echo = "reading" /\ ~Whole(down)
    /\ echo' = "failed"
    /\ UNCHANGED <<up, pump, proxy, errors, down>> /\ UNCHANGED worker

\* Mutant: a channel without a buffer.
NoBuffer == 0

ErrBuffer == 2

ReturnProxy ==
    proxy' = "done" /\ up' = [up EXCEPT !.far = FALSE] /\ down' = [down EXCEPT !.near = FALSE]

\* errChan <- err, by either goroutine: a send that finds the buffer full
\* waits, and hands its error to a receiver that waits.
Report ==
    \/ errors < ErrBuffer /\ errors' = errors + 1 /\ UNCHANGED <<proxy, up, down>>
    \/ errors = 0 /\ proxy = "waiting" /\ ReturnProxy /\ UNCHANGED errors

PumpFails == pump = "failed" /\ Report /\ pump' = "done" /\ UNCHANGED echo /\ UNCHANGED worker
EchoFails == echo = "failed" /\ Report /\ echo' = "done" /\ UNCHANGED pump /\ UNCHANGED worker

\* The first error ends the handler, which closes both connections.
ProxyEnds ==
    /\ proxy = "waiting" /\ errors > 0
    /\ errors' = errors - 1 /\ ReturnProxy
    /\ UNCHANGED <<pump, echo>> /\ UNCHANGED worker

-----------------------------------------------------------------------------
(***************************************************************************)
(* The browser, and the worker's machine                                   *)
(***************************************************************************)
BrowserReads ==
    /\ down.far /\ down.lines > 0
    /\ down' = Taken(down)
    /\ UNCHANGED up /\ UNCHANGED worker /\ UNCHANGED master

BrowserLeaves ==
    /\ down.far
    /\ down' = [down EXCEPT !.far = FALSE]
    /\ UNCHANGED up /\ UNCHANGED worker /\ UNCHANGED master

\* The machine of the worker goes away, and its connection with it.
MachineDies ==
    /\ handler \in {"open", "ranging", "writing"}
    /\ handler' = "done" /\ tail' = "stopped" /\ ear' = "done" /\ told' = TRUE
    /\ up' = [up EXCEPT !.near = FALSE]
    /\ UNCHANGED <<down>> /\ UNCHANGED master

ServeLog == OpenTail \/ HandOver \/ TailStops \/ WorkerWrite \/ RangeEnds \/ HandlerStops
Pump  == PumpRead \/ PumpWrite \/ PumpFails
Echo  == EchoRead \/ EchoFails
Proxy == DialWorker \/ ProxyEnds
World == TailRead \/ BrowserReads \/ BrowserLeaves \/ MachineDies

NextStream == ServeLog \/ Ear \/ Pump \/ Echo \/ Proxy \/ World

StreamSpec == InitStream /\ [][NextStream]_streamVars

\* Goroutines run.  Nothing makes a file grow, or a browser read or leave.
StreamFairness ==
    /\ WF_streamVars(ServeLog) /\ WF_streamVars(Ear)
    /\ WF_streamVars(Pump) /\ WF_streamVars(Echo) /\ WF_streamVars(Proxy)

FairStream == StreamSpec /\ StreamFairness

-----------------------------------------------------------------------------
(***************************************************************************)
(* Properties                                                              *)
(***************************************************************************)

\* When the browser is gone, or the worker, the proxy returns, both of its
\* goroutines end and neither connection is left open -- unless the browser is
\* there and reads nothing, for the write to it has no deadline.
ProxyReturns ==
    proxy = "waiting" /\ (~down.far \/ ~up.near)
        ~> \/ proxy = "done" /\ pump = "done" /\ echo = "done" /\ ~up.far /\ ~down.near
           \/ down.far /\ down.lines = Window

\* When the master has closed its end the worker's handler, its tail and its
\* reader all end, but in one case: a write failed and ended the loop while the
\* tail had the next line in its hand.  Then the three wait for each other for good.
WorkerReturns ==
    handler # "none" /\ ~up.far
        ~> \/ handler = "done" /\ tail \in {"off", "stopped"} /\ ear \in {"off", "done"}
           \/ handler = "stopping" /\ tail = "handing"

\* The comment on the reader of the socket says that it stops the tail when the
\* client goes: then no tail would stay behind.
TailStopsWithClient == handler # "none" /\ ~up.far ~> tail \in {"off", "stopped"}

\* Whoever leaves, the stream ends at both of its ends.
StreamEnds == ProxyReturns /\ WorkerReturns
=============================================================================
