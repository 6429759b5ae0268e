------------------------- MODULE InstanceExecutor -------------------------
(***************************************************************************)
(* One worker: the HTTP handlers that deploy, register, start, stop and    *)
(* destroy instances, the monitor goroutine, and the machine under them    *)
(* (instance directories, pid files, the process table).                   *)
(*                                                                         *)
(* net/http runs each request in a goroutine of its own and the handlers   *)
(* take no lock, so a call is an actor.  Children are detached: they and   *)
(* their pid files outlive the worker.  The kernel reuses free pids.       *)
(*                                                                         *)
(* A call is answered through answer[c]; a status report travels through   *)
(* the set reports until the master has processed it or it is lost.        *)
(***************************************************************************)
EXTENDS Integers, FiniteSets

CONSTANTS
    Calls,      \* bound: the requests of a behaviour; each is issued once
    Instances,
    External,   \* the adopted services
    Alike,      \* of an adopted service that looks its process up (pid strategy
                \* "match"): the others whose processes have its name and directory too
    Pids,       \* pids of the machine; 0 stands for no pid
    Foreign,    \* owner of a process the worker did not start
    Monitor,    \* sender of the monitor's reports
    Late,       \* sender of a report its sender no longer waits for
    MaxLate,    \* bound: late reports in flight
    PidReuse    \* can the kernel give a pid that a pid file still names?

ASSUME ExecutorAssumption ==
    /\ External \subseteq Instances
    /\ 0 \notin Pids
    /\ Foreign \notin Instances /\ "free" \notin Instances /\ Foreign # "free"
    /\ Monitor \notin Calls /\ Late \notin Calls /\ Monitor # Late
    /\ MaxLate \in Nat
    /\ PidReuse \in BOOLEAN

Matched == DOMAIN Alike

ASSUME AlikeAssumption ==
    /\ Matched \subseteq External
    /\ \A i \in Matched : Alike[i] \subseteq Instances \cup {Foreign}

VARIABLES
    call,     \* what each call asks for: operation and instance
    pc,       \* where its handler goroutine is
    pid,      \* its local variable targetPID
    answer,   \* its HTTP response
    dir,      \* the instance directory: none, partial (being unpacked), ready
    pidFile,  \* content of <dir>/pid, 0 when there is no such file
    live,     \* process table: the owner of each pid, or "free"
    mon,      \* the monitor: idle, or about to examine a pid it has read
    reports,  \* status reports in flight to the master
    overlap   \* ghost: instances whose calls overlapped or were cut by a crash

handlerVars == <<call, pc, pid, answer>>
machineVars == <<dir, pidFile, live>>
workerVars  == <<call, pc, pid, answer, dir, pidFile, live, mon, reports, overlap>>

Ops      == {"deploy", "register", "start", "stop", "destroy"}
Statuses == {"deploying", "error", "stopped", "running", "destroyed"}
NoPid    == 0

Senders == Calls \cup {Monitor, Late}
Report  == [by : Senders, inst : Instances, status : Statuses, pid : Pids \cup {NoPid},
            half : BOOLEAN]

MonIdle == [at |-> "idle"]

\* Labels at which a handler may still change the machine.
Working == {"announce", "announcing", "fetch", "unpack", "spawn", "match", "writepid",
            "readpid", "kill", "rmpid", "rmdir"}

TypeOK ==
    /\ call    \in [Calls -> [op : Ops, inst : Instances]]
    /\ pc      \in [Calls -> {"unused", "sent", "reporting", "ended", "lost"} \cup Working]
    /\ pid     \in [Calls -> Pids \cup {NoPid}]
    /\ answer  \in [Calls -> {"none", "ok", "error"}]
    /\ dir     \in [Instances -> {"none", "partial", "ready"}]
    /\ pidFile \in [Instances -> Pids \cup {NoPid}]
    /\ live    \in [Pids -> Instances \cup {"free", Foreign}]
    /\ mon     \in {MonIdle} \cup [at : {"check", "reporting"}, inst : Instances, pid : Pids]
    /\ reports \subseteq Report
    /\ overlap \subseteq Instances

InitWorker ==
    /\ \E i \in Instances : call = [c \in Calls |-> [op |-> "stop", inst |-> i]]
    /\ pc      = [c \in Calls |-> "unused"]
    /\ pid     = [c \in Calls |-> NoPid]
    /\ answer  = [c \in Calls |-> "none"]
    /\ dir     = [i \in Instances |-> "none"]
    /\ pidFile = [i \in Instances |-> NoPid]
    /\ live    = [p \in Pids |-> "free"]
    /\ mon     = MonIdle
    /\ reports = {}
    /\ overlap = {}

-----------------------------------------------------------------------------
Inst(c)     == call[c].inst
Procs(i)    == {p \in Pids : live[p] = i}
Fits(i)     == {i} \cup (IF i \in Matched THEN Alike[i] ELSE {})
Active(i)   == {c \in Calls : pc[c] \in Working /\ Inst(c) = i}
Goto(c, l)  == pc' = [pc EXCEPT ![c] = l]

\* A pid the kernel may hand out now.
Free(p) ==
    /\ live[p] = "free"
    /\ PidReuse \/ ( /\ \A i \in Instances : pidFile[i] # p
                     /\ \A c \in Calls : pc[c] \in Working => pid[c] # p
                     /\ mon.at = "check" => mon.pid # p )

\* reportStatus and the report of handleInstanceAction: a POST that blocks its
\* sender until the master has answered or the client timeout expires.
Send(s, i, st, p) ==
    reports' = reports \cup
        {[by |-> s, inst |-> i, status |-> st, pid |-> p, half |-> FALSE]}

Awaited(s) == \E r \in reports : r.by = s

\* http.Error(w, err, 500): the handler returns, and nothing is reported.
Refuse(c) ==
    /\ Goto(c, "ended")
    /\ answer' = [answer EXCEPT ![c] = "error"]
    /\ pid' = [pid EXCEPT ![c] = NoPid]
    /\ UNCHANGED reports

\* The work is done and its outcome is reported before the call is answered.
Finish(c, st, p) ==
    /\ Goto(c, "reporting")
    /\ Send(c, Inst(c), st, p)
    /\ pid' = [pid EXCEPT ![c] = NoPid]
    /\ UNCHANGED answer

-----------------------------------------------------------------------------
(***************************************************************************)
(* Arrival of a request                                                    *)
(***************************************************************************)

\* A client sends a request (the master's part; no variable of the machine).
Issue(c, o, i) ==
    /\ pc[c] = "unused"
    /\ call' = [call EXCEPT ![c] = [op |-> o, inst |-> i]]
    /\ Goto(c, "sent")
    /\ UNCHANGED <<pid, answer>>

\* The request never reaches the worker: nobody listens, or the dial times out.
Undelivered(c) ==
    /\ pc[c] = "sent"
    /\ Goto(c, "lost")
    /\ UNCHANGED <<call, pid, answer, dir, pidFile, live, mon, reports, overlap>>

\* Ghost: another handler is at work on the same instance.
Arrive(c) ==
    overlap' = IF Active(Inst(c)) # {} THEN overlap \cup {Inst(c)} ELSE overlap

\* handleDeploy answers first and then works in a goroutine.
ReceiveDeploy(c) ==
    /\ pc[c] = "sent" /\ call[c].op = "deploy"
    /\ answer' = [answer EXCEPT ![c] = "ok"]
    /\ Goto(c, "announce")
    /\ Arrive(c)
    /\ UNCHANGED <<call, pid, dir, pidFile, live, mon, reports>>

\* handleRegisterExternal: MkdirAll and service.json, no report.
ReceiveRegister(c) ==
    /\ pc[c] = "sent" /\ call[c].op = "register"
    /\ \/ /\ dir' = [dir EXCEPT ![Inst(c)] = "ready"]
          /\ answer' = [answer EXCEPT ![c] = "ok"]
       \/ /\ dir' \in {dir, [dir EXCEPT ![Inst(c)] = "partial"]}
          /\ answer' = [answer EXCEPT ![c] = "error"]
    /\ Goto(c, "ended")
    /\ Arrive(c)
    /\ UNCHANGED <<call, pid, pidFile, live, mon, reports>>

\* isRunning: the pid file names a process, whoever owns it.
IsRunning(i) == pidFile[i] # NoPid /\ live[pidFile[i]] # "free"

\* Mutant: the isRunning check of StartProcess is dropped.
ReceiveStartAgain(c) ==
    /\ pc[c] = "sent" /\ call[c].op = "start"
    /\ Arrive(c)
    /\ \/ dir[Inst(c)] # "ready" /\ Refuse(c)
       \/ dir[Inst(c)] # "none" /\ Goto(c, "spawn") /\ UNCHANGED <<answer, reports, pid>>
    /\ UNCHANGED <<call, dir, pidFile, live, mon>>

\* FindInstanceDir, readManifest and isRunning; the check is not repeated.
ReceiveStart(c) ==
    /\ pc[c] = "sent" /\ call[c].op = "start"
    /\ Arrive(c)
    /\ \/ dir[Inst(c)] # "ready" /\ Refuse(c)
       \/ dir[Inst(c)] # "none" /\ IsRunning(Inst(c)) /\ Finish(c, "running", pidFile[Inst(c)])
       \/ dir[Inst(c)] # "none" /\ ~IsRunning(Inst(c)) /\ Goto(c, "spawn")
          /\ UNCHANGED <<answer, reports, pid>>
    /\ UNCHANGED <<call, dir, pidFile, live, mon>>

\* Mutant: destroy removes the directory without StopProcess.
ReceiveStopLess(c) ==
    /\ pc[c] = "sent" /\ call[c].op \in {"stop", "destroy"}
    /\ dir[Inst(c)] # "none"
    /\ Arrive(c)
    /\ Goto(c, IF call[c].op = "stop" THEN "readpid" ELSE "rmdir")
    /\ UNCHANGED <<call, answer, reports, pid, dir, pidFile, live, mon>>

\* FindInstanceDir; then StopProcess runs the stop script, if there is one.
ReceiveStop(c) ==
    /\ pc[c] = "sent" /\ call[c].op \in {"stop", "destroy"}
    /\ Arrive(c)
    /\ \/ dir[Inst(c)] = "none" /\ call[c].op = "stop" /\ Refuse(c)
       \/ dir[Inst(c)] = "none" /\ call[c].op = "destroy" /\ Finish(c, "destroyed", NoPid)
       \/ dir[Inst(c)] # "none" /\ Goto(c, "readpid") /\ UNCHANGED <<answer, reports, pid>>
    /\ UNCHANGED <<call, dir, pidFile, live, mon>>

-----------------------------------------------------------------------------
(***************************************************************************)
(* The deploy goroutine                                                    *)
(***************************************************************************)

Announce(c) ==
    /\ pc[c] = "announce"
    /\ Send(c, Inst(c), "deploying", NoPid)
    /\ Goto(c, "announcing")
    /\ UNCHANGED <<call, pid, answer, dir, pidFile, live, mon, overlap>>

Announced(c) ==
    /\ pc[c] = "announcing"
    /\ ~Awaited(c)
    /\ Goto(c, "fetch")
    /\ UNCHANGED <<call, pid, answer, dir, pidFile, live, mon, reports, overlap>>

\* ensurePackageCached (module PackageCache), then RemoveAll and MkdirAll.
Fetch(c) ==
    /\ pc[c] = "fetch"
    /\ \/ /\ Finish(c, "error", NoPid)
          /\ UNCHANGED <<dir, pidFile>>
       \/ /\ dir'     = [dir EXCEPT ![Inst(c)] = "partial"]
          /\ pidFile' = [pidFile EXCEPT ![Inst(c)] = NoPid]
          /\ Goto(c, "unpack")
          /\ UNCHANGED <<answer, reports, pid>>
    /\ UNCHANGED <<call, live, mon, overlap>>

\* Mutant: a failed unzip returns without a report.
UnpackSilent(c) ==
    /\ pc[c] = "unpack"
    /\ \/ Finish(c, "stopped", NoPid) /\ dir' = [dir EXCEPT ![Inst(c)] = "ready"]
       \/ Goto(c, "ended") /\ UNCHANGED <<dir, reports, pid, answer>>
    /\ UNCHANGED <<call, pidFile, live, mon, overlap>>

\* unzip: each entry makes its own parent directories, so a directory that was
\* removed meanwhile comes back with the entries that were left.
Unpack(c) ==
    /\ pc[c] = "unpack"
    /\ \/ /\ Finish(c, "stopped", NoPid)
          /\ dir' \in {[dir EXCEPT ![Inst(c)] = d] :
                          d \in IF dir[Inst(c)] = "none" THEN {"none", "partial", "ready"}
                                                         ELSE {"ready"}}
       \/ Finish(c, "error", NoPid) /\ UNCHANGED dir
    /\ UNCHANGED <<call, pidFile, live, mon, overlap>>

-----------------------------------------------------------------------------
(***************************************************************************)
(* StartProcess                                                            *)
(***************************************************************************)

\* cmd.Start.  The files of an adopted service are not in the instance directory.
Spawn(c) ==
    /\ pc[c] = "spawn"
    /\ \/ Refuse(c) /\ UNCHANGED live
       \/ /\ dir[Inst(c)] # "none" \/ Inst(c) \in External
          /\ \E p \in Pids :
                /\ Free(p)
                /\ live' = [live EXCEPT ![p] = Inst(c)]
                /\ pid'  = [pid EXCEPT ![c] = IF Inst(c) \in Matched THEN NoPid ELSE p]
          /\ Goto(c, IF Inst(c) \in Matched THEN "match" ELSE "writepid")
          /\ UNCHANGED <<answer, reports>>
    /\ UNCHANGED <<call, dir, pidFile, mon, overlap>>

\* Mutant: the process is looked up by its name alone.
MatchName(c) ==
    /\ pc[c] = "match"
    /\ \/ \E p \in Pids :
             /\ live[p] # "free"
             /\ pid' = [pid EXCEPT ![c] = p]
             /\ Goto(c, "writepid")
             /\ UNCHANGED <<answer, reports>>
       \/ Refuse(c)
    /\ UNCHANGED <<call, dir, pidFile, live, mon, overlap>>

\* findProcessPID: the first process of the machine whose name or command line
\* contains the name and whose directory is the service's, whoever started it; or,
\* after five polls, an error.  The process that was started is not taken back.
Match(c) ==
    /\ pc[c] = "match"
    /\ \/ \E p \in Pids :
             /\ live[p] \in Fits(Inst(c))
             /\ pid' = [pid EXCEPT ![c] = p]
             /\ Goto(c, "writepid")
             /\ UNCHANGED <<answer, reports>>
       \/ Refuse(c)
    /\ UNCHANGED <<call, dir, pidFile, live, mon, overlap>>

\* os.WriteFile, whose error is ignored: it fails when the directory is gone.
WritePid(c) ==
    /\ pc[c] = "writepid"
    /\ pidFile' = IF dir[Inst(c)] # "none" THEN [pidFile EXCEPT ![Inst(c)] = pid[c]]
                                           ELSE pidFile
    /\ Finish(c, "running", pid[c])
    /\ UNCHANGED <<call, dir, live, mon, overlap>>

-----------------------------------------------------------------------------
(***************************************************************************)
(* StopProcess, and RemoveAll for destroy                                  *)
(***************************************************************************)

\* Mutant: the pid file is removed before it is read.
ReadPidLate(c) ==
    /\ pc[c] = "readpid"
    /\ pidFile' = [pidFile EXCEPT ![Inst(c)] = NoPid]
    /\ Goto(c, "kill")
    /\ UNCHANGED <<call, pid, answer, dir, live, mon, reports, overlap>>

ReadPid(c) ==
    /\ pc[c] = "readpid"
    /\ pid' = [pid EXCEPT ![c] = pidFile[Inst(c)]]
    /\ Goto(c, "kill")
    /\ UNCHANGED <<call, answer, dir, pidFile, live, mon, reports, overlap>>

\* Mutant: destroy leaves the process to itself.
KillOnStop(c) ==
    /\ pc[c] = "kill"
    /\ live' = IF pid[c] = NoPid \/ call[c].op = "destroy"
               THEN live ELSE [live EXCEPT ![pid[c]] = "free"]
    /\ Goto(c, "rmpid")
    /\ UNCHANGED <<call, pid, answer, dir, pidFile, mon, reports, overlap>>

\* proc.Kill: whoever has that pid now.
Kill(c) ==
    /\ pc[c] = "kill"
    /\ live' = IF pid[c] = NoPid THEN live ELSE [live EXCEPT ![pid[c]] = "free"]
    /\ Goto(c, "rmpid")
    /\ UNCHANGED <<call, pid, answer, dir, pidFile, mon, reports, overlap>>

RmPid(c) ==
    /\ pc[c] = "rmpid"
    /\ pidFile' = [pidFile EXCEPT ![Inst(c)] = NoPid]
    /\ \/ call[c].op = "stop" /\ Finish(c, "stopped", NoPid)
       \/ call[c].op = "destroy" /\ Goto(c, "rmdir") /\ UNCHANGED <<answer, reports, pid>>
    /\ UNCHANGED <<call, dir, live, mon, overlap>>

RmDir(c) ==
    /\ pc[c] = "rmdir"
    /\ \/ /\ dir'     = [dir EXCEPT ![Inst(c)] = "none"]
          /\ pidFile' = [pidFile EXCEPT ![Inst(c)] = NoPid]
          /\ Finish(c, "destroyed", NoPid)
       \/ /\ dir[Inst(c)] # "none"
          /\ dir' = [dir EXCEPT ![Inst(c)] = "partial"]
          /\ Refuse(c)
          /\ UNCHANGED pidFile
    /\ UNCHANGED <<call, live, mon, overlap>>

-----------------------------------------------------------------------------
(***************************************************************************)
(* Reports                                                                 *)
(***************************************************************************)

\* The report was answered or given up; handleInstanceAction answers 200.
Reported(c) ==
    /\ pc[c] = "reporting"
    /\ ~Awaited(c)
    /\ answer' = [answer EXCEPT ![c] = "ok"]
    /\ Goto(c, "ended")
    /\ UNCHANGED <<call, pid, dir, pidFile, live, mon, reports, overlap>>

\* The client timeout expires; the report may still reach the master.
GiveUp(r) ==
    /\ r \in reports /\ r.by # Late
    /\ Cardinality({q \in reports : q.by = Late}) < MaxLate
    /\ reports' = (reports \ {r}) \cup {[r EXCEPT !.by = Late]}
    /\ UNCHANGED <<call, pc, pid, answer, dir, pidFile, live, mon, overlap>>

\* Mutant: an instance without a pid file is examined too.
ExamineAll(i) ==
    /\ mon.at = "idle"
    /\ i \notin External
    /\ dir[i] # "none"
    /\ mon' = [at |-> "check", inst |-> i, pid |-> pidFile[i]]
    /\ UNCHANGED <<call, pc, pid, answer, dir, pidFile, live, reports, overlap>>

\* checkAndReport, for one instance of GetAllLocalInstances, which takes what
\* follows the last underscore of a directory's name for the id: the directory
\* of an adopted service has none and is not listed.  No pid file, no report.
Examine(i) ==
    /\ mon.at = "idle"
    /\ i \notin External
    /\ dir[i] # "none" /\ pidFile[i] # NoPid
    /\ mon' = [at |-> "check", inst |-> i, pid |-> pidFile[i]]
    /\ UNCHANGED <<call, pc, pid, answer, dir, pidFile, live, reports, overlap>>

\* Mutant: a process that is not found is not reported.
CheckUp ==
    /\ mon.at = "check"
    /\ \/ live[mon.pid] = "free" /\ UNCHANGED reports
       \/ live[mon.pid] # "free" /\ Send(Monitor, mon.inst, "running", mon.pid)
    /\ mon' = [mon EXCEPT !.at = "reporting"]
    /\ UNCHANGED <<call, pc, pid, answer, dir, pidFile, live, overlap>>

\* Mutant: the report leaves the pid out.
CheckNoPid ==
    /\ mon.at = "check"
    /\ Send(Monitor, mon.inst, IF live[mon.pid] = "free" THEN "stopped" ELSE "running", NoPid)
    /\ mon' = [mon EXCEPT !.at = "reporting"]
    /\ UNCHANGED <<call, pc, pid, answer, dir, pidFile, live, overlap>>

\* process.NewProcess on the pid read before, then the report.
Check ==
    /\ mon.at = "check"
    /\ \/ live[mon.pid] = "free" /\ Send(Monitor, mon.inst, "stopped", NoPid)
       \/ live[mon.pid] # "free" /\ Send(Monitor, mon.inst, "running", mon.pid)
    /\ mon' = [mon EXCEPT !.at = "reporting"]
    /\ UNCHANGED <<call, pc, pid, answer, dir, pidFile, live, overlap>>

Checked ==
    /\ mon.at = "reporting"
    /\ ~Awaited(Monitor)
    /\ mon' = MonIdle
    /\ UNCHANGED <<call, pc, pid, answer, dir, pidFile, live, reports, overlap>>

-----------------------------------------------------------------------------
(***************************************************************************)
(* The machine                                                             *)
(***************************************************************************)

\* A process ends by itself (or its stop script ends it).
Exit(p) ==
    /\ live[p] # "free"
    /\ live' = [live EXCEPT ![p] = "free"]
    /\ UNCHANGED <<call, pc, pid, answer, dir, pidFile, mon, reports, overlap>>

\* Somebody else starts a process.
Other(p) ==
    /\ Free(p)
    /\ live' = [live EXCEPT ![p] = Foreign]
    /\ UNCHANGED <<call, pc, pid, answer, dir, pidFile, mon, reports, overlap>>

\* The worker dies and is started again.  Its handlers are gone, and the
\* reports it was sending may still arrive.
Crash ==
    /\ pc'  = [c \in Calls |-> IF pc[c] \in Working \cup {"reporting"} THEN "lost" ELSE pc[c]]
    /\ pid' = [c \in Calls |-> NoPid]
    /\ mon' = MonIdle
    /\ overlap' = overlap \cup {i \in Instances : Active(i) # {}}
    /\ \E kept \in SUBSET reports :
          /\ reports' = {[r EXCEPT !.by = Late] : r \in kept}
          /\ Cardinality(reports') <= MaxLate
    /\ UNCHANGED <<call, answer, dir, pidFile, live>>

-----------------------------------------------------------------------------
Handler(c) ==
    \/ ReceiveDeploy(c) \/ ReceiveRegister(c) \/ ReceiveStart(c) \/ ReceiveStop(c)
    \/ Announce(c) \/ Announced(c) \/ Fetch(c) \/ Unpack(c)
    \/ Spawn(c) \/ Match(c) \/ WritePid(c)
    \/ ReadPid(c) \/ Kill(c) \/ RmPid(c) \/ RmDir(c)
    \/ Reported(c)

WorkerNext ==
    \/ \E c \in Calls : Handler(c) \/ Undelivered(c)
    \/ \E r \in reports : GiveUp(r)
    \/ \E i \in Instances : Examine(i)
    \/ Check \/ Checked
    \/ \E p \in Pids : Exit(p) \/ Other(p)
    \/ Crash

(***************************************************************************)
(* The worker alone: any client, and a master that takes every report.     *)
(* The master makes up a fresh instance id for each deploy and register.   *)
(***************************************************************************)
Named(i) == \E c \in Calls : pc[c] # "unused" /\ Inst(c) = i

Client(c) ==
    \E i \in Instances, o \in Ops :
        /\ o = "deploy"   => i \notin External /\ ~Named(i)
        /\ o = "register" => i \in External /\ ~Named(i)
        /\ o \in {"start", "stop", "destroy"} => Named(i)
        /\ Issue(c, o, i)
        /\ UNCHANGED <<dir, pidFile, live, mon, reports, overlap>>

Taken(r) ==
    /\ reports' = reports \ {r}
    /\ UNCHANGED <<call, pc, pid, answer, dir, pidFile, live, mon, overlap>>

Next ==
    \/ WorkerNext
    \/ \E c \in Calls : Client(c)
    \/ \E r \in reports : Taken(r)

Spec == InitWorker /\ [][Next]_workerVars

-----------------------------------------------------------------------------
(***************************************************************************)
(* Properties                                                              *)
(***************************************************************************)

Packaged == Instances \ External

\* Nothing is lost from view: as long as the calls on a packaged instance have
\* not overlapped, an instance no handler is working on has at most one process
\* and the pid file names it, so stop, destroy and the monitor will find it.
Tracked ==
    \A i \in Packaged \ overlap :
        Active(i) = {} => \A p \in Procs(i) : pidFile[i] = p

\* A stop or a destroy that succeeds without having overlapped another call
\* leaves no process of the instance behind when it sends its report.
StopStops ==
    [][\A c \in Calls :
          /\ call[c].op \in {"stop", "destroy"}
          /\ pc[c] \in {"rmpid", "rmdir"} /\ pc'[c] = "reporting"
          /\ Inst(c) \in Packaged \ overlap
          => Procs(Inst(c))' = {}]_workerVars

\* What the instance's operator may rely on (module Supervisor).
Standing(i) ==
    CASE i \in overlap -> "unknown"
      [] i \notin overlap /\ Procs(i) = {} -> IF dir[i] = "none" THEN "absent" ELSE "down"
      [] i \notin overlap /\ dir[i] # "none" /\ (\E p \in Pids : Procs(i) = {p}) -> "up"
      [] OTHER -> "broken"

Promise == INSTANCE Supervisor WITH
    Services <- Packaged,
    standing <- [i \in Packaged |-> Standing(i)]

\* The handlers, the monitor, the crashes of the worker and the machine together
\* implement the promise of Supervisor: a service whose calls do not overlap has
\* at most one process, started only from installed files and only while there
\* is none, and its files are removed only when it is down.
ImplementsPromise == Promise!Spec

\* A process is only started from files that are there: without overlapping
\* calls, no process of a packaged instance lives on without its directory.
NoProcessWithoutFiles ==
    \A i \in Packaged \ overlap : dir[i] = "none" => Procs(i) = {}

\* As long as pids are not reused (run with PidReuse = FALSE), the process a stop
\* is about to kill is one of the instance, or has ended, or, for a service whose
\* process is looked up, fits its name and directory: the last may well be
\* somebody else's, and the worker cannot tell.
KillsFitting ==
    \A c \in Calls :
        pc[c] = "kill" /\ pid[c] # NoPid => live[pid[c]] \in Fits(Inst(c)) \cup {"free"}
=============================================================================
