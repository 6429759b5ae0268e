-------------------------- MODULE InstanceRegistry --------------------------
(***************************************************************************)
(* The master's side of an instance: the row in instance_infos, the entry  *)
(* of metricsCache, and the HTTP handlers that change them.                *)
(*                                                                         *)
(* The handlers of the API send a command to the worker and wait for its   *)
(* answer; WorkerStatusReport applies a report in two steps, the UPDATE    *)
(* under im.mu and the metrics after it.  The interface with the worker    *)
(* (module InstanceExecutor) is call, pc, pid, answer and reports.         *)
(***************************************************************************)
EXTENDS InstanceExecutor

CONSTANT
    Batching   \* are there system-wide actions?

ASSUME RegistryAssumption == Batching \in BOOLEAN

VARIABLES
    row,       \* the instance's row, or NoRow
    metrics,   \* the instances that have an entry in metricsCache
    task,      \* of each command: the handler that sent it waits, or has returned
    batch,     \* SystemAction: the operation and the targets it has yet to send to
    purge,     \* DeleteSystem: idle, or between the cache and the transaction
    hurried    \* ghost: instances commanded again before an earlier command ended

Worker     == <<dir, pidFile, live, mon, overlap>>

NoRow   == [status |-> "none", pid |-> 0]
NoBatch == [op |-> "stop", targets |-> {}]

RegistryTypeOK ==
    /\ row     \in [Instances -> {NoRow} \cup [status : Statuses, pid : Pids \cup {0}]]
    /\ metrics \subseteq Instances
    /\ task    \in [Calls -> {"idle", "waiting", "returned"}]
    /\ batch   \in [op : {"start", "stop"}, targets : SUBSET Instances]
    /\ purge   \in {"idle", "cleaned"}
    /\ hurried \subseteq Instances

InitMaster ==
    /\ row     = [i \in Instances |-> NoRow]
    /\ metrics = {}
    /\ task    = [c \in Calls |-> "idle"]
    /\ batch   = NoBatch
    /\ purge   = "idle"
    /\ hurried = {}

-----------------------------------------------------------------------------
(***************************************************************************)
(* InstanceManager                                                         *)
(***************************************************************************)

Registered(i) == row[i] # NoRow

RegisterInstance(i, st) ==
    /\ row' = [row EXCEPT ![i] = [status |-> st, pid |-> 0]]
    /\ UNCHANGED metrics

\* An UPDATE does nothing when the row is gone; the cache entry goes anyway.
\* The handlers call it with "error" only.
UpdateInstanceStatus(i, st) ==
    /\ row' = IF Registered(i) THEN [row EXCEPT ![i] = [status |-> st, pid |-> 0]] ELSE row
    /\ metrics' = metrics \ {i}

RemoveInstance(i) ==
    /\ row'     = [row EXCEPT ![i] = NoRow]
    /\ metrics' = metrics \ {i}

\* Mutant: an INSERT OR REPLACE for the UPDATE.
UpsertRow(r) == row' = [row EXCEPT ![r.inst] = [status |-> r.status, pid |-> r.pid]]

\* UpdateInstanceFullStatus, the part under im.mu.
UpdateRow(r) ==
    row' = IF Registered(r.inst)
           THEN [row EXCEPT ![r.inst] = [status |-> r.status, pid |-> r.pid]] ELSE row

\* ... and the part after it: the store is unconditional.
StoreMetrics(r) == metrics' = metrics \cup {r.inst}

-----------------------------------------------------------------------------
(***************************************************************************)
(* The handlers of the API                                                 *)
(***************************************************************************)

\* Commands on i that the worker has not finished with, answered or not.
Pending(i) == {c \in Calls : pc[c] \notin {"unused", "ended", "lost"} /\ call[c].inst = i}

Hurry(i) == hurried' = IF Pending(i) # {} THEN hurried \cup {i} ELSE hurried

\* PostJSON to the worker; the handler blocks on the answer.
Command(c, o, i) ==
    /\ Issue(c, o, i)
    /\ task' = [task EXCEPT ![c] = "waiting"]
    /\ Hurry(i)
    /\ UNCHANGED Worker /\ UNCHANGED <<reports, purge>>

\* The id is fresh: it is made from the clock.
DeployInstance(c, i) ==
    /\ i \notin External /\ ~Named(i)
    /\ RegisterInstance(i, "deploying")
    /\ Command(c, "deploy", i)
    /\ UNCHANGED batch

RegisterExternal(c, i) ==
    /\ i \in External /\ ~Named(i)
    /\ RegisterInstance(i, "stopped")
    /\ Command(c, "register", i)
    /\ UNCHANGED batch

InstanceAction(c, o, i) ==
    /\ o \in {"start", "stop", "destroy"}
    /\ Registered(i)
    /\ Command(c, o, i)
    /\ UNCHANGED <<row, metrics, batch>>

\* SystemAction reads the rows and picks its targets ...
SystemAction(o) ==
    LET targets == {i \in Instances : Registered(i) /\ (o = "start" <=> row[i].status # "running")}
    IN
    /\ Batching /\ batch = NoBatch
    /\ o \in {"start", "stop"} /\ targets # {}
    /\ batch' = [op |-> o, targets |-> targets]
    /\ UNCHANGED <<call, pc, pid, answer, reports, row, metrics, task, purge, hurried>>
    /\ UNCHANGED Worker

\* ... and sends to each from a goroutine of its own, registered still or not.
\* Errors are only counted.
BatchSend(c, i) ==
    /\ i \in batch.targets
    /\ Command(c, batch.op, i)
    /\ batch' = IF batch.targets = {i} THEN NoBatch ELSE [batch EXCEPT !.targets = @ \ {i}]
    /\ UNCHANGED <<row, metrics>>

\* The end of a handler whose command succeeded, and of one whose command failed.
Succeeded(c) ==
    IF call[c].op = "destroy" THEN RemoveInstance(call[c].inst) ELSE UNCHANGED <<row, metrics>>

Failed(c) ==
    IF call[c].op \in {"deploy", "register"}
    THEN UpdateInstanceStatus(call[c].inst, "error") ELSE UNCHANGED <<row, metrics>>

\* The worker's answer, read and dropped.
Return(c) ==
    /\ task[c] = "waiting"
    /\ \/ answer[c] = "ok" /\ Succeeded(c)
       \/ answer[c] = "error" /\ Failed(c)
    /\ answer' = [answer EXCEPT ![c] = "none"]
    /\ task' = [task EXCEPT ![c] = "returned"]
    /\ UNCHANGED <<call, pc, pid, reports, batch, purge, hurried>> /\ UNCHANGED Worker

\* A network error or the client timeout, whatever the worker did or will do.
TimeOut(c) ==
    /\ task[c] = "waiting"
    /\ Failed(c)
    /\ task' = [task EXCEPT ![c] = "returned"]
    /\ UNCHANGED <<call, pc, pid, answer, reports, batch, purge, hurried>> /\ UNCHANGED Worker

\* DeleteSystem of the system all the instances belong to: CleanCacheForSystem,
\* then the transaction.  The workers are not told.
CleanCache ==
    /\ purge = "idle"
    /\ \E i \in Instances : Registered(i)
    /\ metrics' = {i \in metrics : ~Registered(i)}
    /\ purge' = "cleaned"
    /\ UNCHANGED <<call, pc, pid, answer, reports, row, task, batch, hurried>> /\ UNCHANGED Worker

DeleteRows ==
    /\ purge = "cleaned"
    /\ row' = [i \in Instances |-> NoRow]
    /\ purge' = "idle"
    /\ UNCHANGED <<call, pc, pid, answer, reports, metrics, task, batch, hurried>> /\ UNCHANGED Worker

-----------------------------------------------------------------------------
(***************************************************************************)
(* WorkerStatusReport                                                      *)
(***************************************************************************)

Apply(r) ==
    /\ r \in reports /\ ~r.half
    /\ UpdateRow(r)
    /\ reports' = (reports \ {r}) \cup {[r EXCEPT !.half = TRUE]}
    /\ UNCHANGED <<call, pc, pid, answer, metrics, task, batch, purge, hurried>> /\ UNCHANGED Worker

Store(r) ==
    /\ r \in reports /\ r.half
    /\ StoreMetrics(r)
    /\ reports' = reports \ {r}
    /\ UNCHANGED <<call, pc, pid, answer, row, task, batch, purge, hurried>> /\ UNCHANGED Worker

\* The network drops a report.
Lose(r) ==
    /\ r \in reports /\ ~r.half
    /\ reports' = reports \ {r}
    /\ UNCHANGED <<call, pc, pid, answer, row, metrics, task, batch, purge, hurried>> /\ UNCHANGED Worker
=============================================================================
