---------------------- MODULE InstanceLifecycle_proofs ----------------------
(***************************************************************************)
(* Master and worker together, for any number of commands, instances and   *)
(* pids, with every message late, lost or out of order and the worker      *)
(* crashing: what the master forgets is gone from the machine, nothing it  *)
(* has forgotten comes back, and a deployment that meets no fault ends.    *)
(***************************************************************************)
EXTENDS InstanceLifecycle, InstanceExecutor_proofs

\* The master only knows instances it has named: a row, and a target that a
\* system-wide action has yet to reach, belong to a command that was sent.
NamedInv ==
    /\ \A i \in Instances : Registered(i) => Named(i)
    /\ \A i \in batch.targets : Named(i)

\* An instance that was never commanded in a hurry has one command at a time.
HurryInv == \A i \in Instances \ hurried : \A c, d \in Pending(i) : c = d

\* The answer to a destroy is the last thing its handler does; only a deploy is
\* answered before the work.
AnswerInv ==
    \A c \in Calls :
        answer[c] = "ok" => pc[c] # "unused" /\ (call[c].op = "deploy" \/ pc[c] = "ended")

\* Nothing of the instance is left on the machine, and nothing is on its way
\* that could bring it back: no handler is at work, and its deploy is over.
Gone(i) ==
    /\ Untouched(i)
    /\ Active(i) = {}
    /\ \A d \in Pending(i) : call[d].op # "deploy"

\* A destroy that succeeded, its answer not yet read by the master.
Destroyed(c) ==
    /\ call[c].op = "destroy"
    /\ pc[c] = "reporting" \/ (pc[c] = "ended" /\ answer[c] = "ok")

GoneInv ==
    \A c \in Calls :
        Destroyed(c) /\ Inst(c) \in Packaged \ (overlap \cup hurried) => Gone(Inst(c))

\* Without faults a report is awaited by its sender, a "deploying" one by the
\* deploy that announces itself ...
ReportInv ==
    ~faulted =>
        \A r \in reports :
            /\ r.by # Late
            /\ r.by \in Calls => r.inst = Inst(r.by) /\ pc[r.by] \in {"announcing", "reporting"}
            /\ r.status = "deploying" => r.by \in Calls /\ pc[r.by] = "announcing"

\* ... and a row in "deploying" has a deploy at work, or one whose outcome is on
\* its way to the master.
Deploying(c) ==
    /\ call[c].op = "deploy"
    /\ \/ pc[c] \in {"sent", "announce", "announcing", "fetch", "unpack"}
       \/ pc[c] = "reporting" /\ \E r \in reports : r.by = c /\ ~r.half /\ r.status # "deploying"

DeployInv ==
    ~faulted =>
        \A i \in Instances : row[i].status = "deploying" =>
            \E c \in Calls : Inst(c) = i /\ Deploying(c)

LifecycleIInv ==
    /\ IInv /\ RegistryTypeOK /\ faulted \in BOOLEAN
    /\ NamedInv /\ HurryInv /\ AnswerInv /\ GoneInv /\ ReportInv /\ DeployInv

-----------------------------------------------------------------------------
(***************************************************************************)
(* What the steps do to the part of the state the invariants speak about   *)
(***************************************************************************)

\* The master's part of a report or an answer: nothing the worker works with.
Aside ==
    /\ UNCHANGED <<call, pc, pid, dir, pidFile, live, mon, overlap>>
    /\ reports' \subseteq Report
    /\ answer' \in [Calls -> {"none", "ok", "error"}]

\* A command of the master is a request of the worker's client.
LEMMA CommandIsClient ==
    ASSUME TypeOK, NEW c \in Calls, NEW i \in Instances, NEW o \in Ops, Command(c, o, i),
           o = "deploy"   => i \notin External /\ ~Named(i),
           o = "register" => i \in External /\ ~Named(i),
           o \in {"start", "stop", "destroy"} => Named(i)
    PROVE  Client(c)
BY DEF Command, Client, Worker

\* The steps of the master that command nothing.
Clerical ==
    \/ \E o \in Ops : SystemAction(o)
    \/ \E c \in Calls : Return(c) \/ TimeOut(c)
    \/ CleanCache \/ DeleteRows
    \/ \E r \in reports : Apply(r) \/ Store(r) \/ Lose(r)

\* A step that commands nothing leaves the worker and its commands alone.
LEMMA ClericalAside == ASSUME TypeOK, Clerical PROVE Aside /\ hurried' = hurried
<1>1. ASSUME NEW o \in Ops, SystemAction(o) PROVE Aside /\ hurried' = hurried
  BY <1>1 DEF SystemAction, Aside, Worker, TypeOK
<1>2. ASSUME NEW c \in Calls, Return(c) \/ TimeOut(c) PROVE Aside /\ hurried' = hurried
  BY <1>2 DEF Return, TimeOut, Aside, Worker, TypeOK
<1>3. ASSUME CleanCache \/ DeleteRows PROVE Aside /\ hurried' = hurried
  <2>1. UNCHANGED <<call, pc, pid, dir, pidFile, live, mon, overlap, reports, answer, hurried>>
    BY <1>3 DEF CleanCache, DeleteRows, Worker
  <2> QED BY <2>1 DEF Aside, TypeOK
<1>4. ASSUME NEW r \in reports, Apply(r) PROVE Aside /\ hurried' = hurried
  <2>1. r \in Report
    BY DEF TypeOK
  <2>2. [r EXCEPT !.half = TRUE] \in Report
    BY <2>1 DEF Report
  <2> QED BY <1>4, <2>2 DEF Apply, Aside, Worker, TypeOK
<1>5. ASSUME NEW r \in reports, Store(r) \/ Lose(r) PROVE Aside /\ hurried' = hurried
  BY <1>5 DEF Store, Lose, Aside, Worker, TypeOK
<1> QED BY <1>1, <1>2, <1>3, <1>4, <1>5 DEF Clerical

\* A command with the guard of the handler that sends it.
Sends(c, o, i) ==
    /\ Command(c, o, i)
    /\ o = "deploy"   => i \notin External /\ ~Named(i)
    /\ o = "register" => i \in External /\ ~Named(i)
    /\ o \in {"start", "stop", "destroy"} => Named(i)

\* The steps of the worker, its environment and the network.
Works ==
    /\ \/ \E c \in Calls : Handler(c) \/ Undelivered(c)
       \/ \E r \in reports : GiveUp(r)
       \/ \E i \in Instances : Examine(i)
       \/ Check \/ Checked
       \/ \E p \in Pids : Exit(p) \/ Other(p)
       \/ Crash
    /\ UNCHANGED masterVars

\* Every step is one of these, a command always about an instance that may have it.
LEMMA Steps ==
    ASSUME LifecycleIInv, LifecycleNext
    PROVE  \/ Works
           \/ Clerical
           \/ \E c \in Calls, o \in Ops, i \in Instances : Sends(c, o, i)
<1> USE DEF LifecycleIInv
<1>1. ASSUME NEW c \in Calls, NEW i \in Instances, DeployInstance(c, i)
      PROVE  Sends(c, "deploy", i) /\ "deploy" \in Ops
  BY <1>1 DEF DeployInstance, Sends, Ops
<1>2. ASSUME NEW c \in Calls, NEW i \in Instances, RegisterExternal(c, i)
      PROVE  Sends(c, "register", i) /\ "register" \in Ops
  BY <1>2 DEF RegisterExternal, Sends, Ops
<1>3. ASSUME NEW c \in Calls, NEW i \in Instances, NEW o \in Ops, InstanceAction(c, o, i)
      PROVE  Sends(c, o, i)
  BY <1>3 DEF InstanceAction, Sends, NamedInv
<1>4. ASSUME NEW c \in Calls, NEW i \in Instances, BatchSend(c, i)
      PROVE  Sends(c, batch.op, i) /\ batch.op \in Ops
  BY <1>4 DEF BatchSend, Sends, NamedInv, RegistryTypeOK, Ops
<1> QED
  BY <1>1, <1>2, <1>3, <1>4
  DEF LifecycleNext, WorkerStep, MasterStep, Fault, Works, Clerical

\* What the worker sees of a step is a step of the worker or of its client, or
\* nothing but a report or an answer that the master has taken.
LEMMA WorkerView ==
    ASSUME LifecycleIInv, [LifecycleNext]_vars
    PROVE  [Next]_workerVars \/ Aside
<1> SUFFICES ASSUME LifecycleNext PROVE [Next]_workerVars \/ Aside
  BY DEF vars, workerVars
<1>1. CASE Works
  BY <1>1 DEF Works, Next, WorkerNext
<1>2. CASE Clerical
  BY <1>2, ClericalAside DEF LifecycleIInv, IInv
<1>3. ASSUME NEW c \in Calls, NEW o \in Ops, NEW i \in Instances, Sends(c, o, i)
      PROVE  Next
  BY <1>3, CommandIsClient DEF Sends, LifecycleIInv, IInv, Next
<1> QED BY <1>1, <1>2, <1>3, Steps

\* The worker's invariant holds beside the master as it does alone.
LEMMA WorkerStays == ASSUME LifecycleIInv, [LifecycleNext]_vars PROVE IInv'
<1>1. ASSUME IInv, Aside PROVE IInv'
  BY <1>1 DEF Aside, IInv, TypeOK, FreshInv, LabelInv, StartInv, FileInv, AloneInv, KnowsInv, Tracked,
              Untouched, Named, Procs, Active, Inst
<1> QED BY <1>1, WorkerView, NextIInv DEF LifecycleIInv

\* The master's variables keep their types.
LEMMA RegistryStays ==
    ASSUME LifecycleIInv, [LifecycleNext]_vars PROVE RegistryTypeOK' /\ faulted' \in BOOLEAN
<1> USE DEF LifecycleIInv, IInv, RegistryTypeOK, TypeOK
<1>0. faulted' \in BOOLEAN
  BY DEF LifecycleNext, vars
<1>1. ASSUME NEW i \in Instances, NEW x \in {NoRow} \cup [status : Statuses, pid : Pids \cup {0}],
             row' = [row EXCEPT ![i] = x]
      PROVE  row' \in [Instances -> {NoRow} \cup [status : Statuses, pid : Pids \cup {0}]]
  BY <1>1
<1>2. ASSUME NEW i \in Instances, NEW st \in Statuses, RegisterInstance(i, st) \/ UpdateInstanceStatus(i, st)
      PROVE  /\ row' \in [Instances -> {NoRow} \cup [status : Statuses, pid : Pids \cup {0}]]
             /\ metrics' \subseteq Instances
  BY <1>1, <1>2 DEF RegisterInstance, UpdateInstanceStatus
<1>3. ASSUME NEW i \in Instances, RemoveInstance(i)
      PROVE  /\ row' \in [Instances -> {NoRow} \cup [status : Statuses, pid : Pids \cup {0}]]
             /\ metrics' \subseteq Instances
  BY <1>1, <1>3 DEF RemoveInstance
<1>4. ASSUME NEW c \in Calls, NEW o \in Ops, NEW i \in Instances, Command(c, o, i)
      PROVE  /\ task' \in [Calls -> {"idle", "waiting", "returned"}]
             /\ hurried' \subseteq Instances
             /\ purge' = purge
  BY <1>4 DEF Command, Hurry
<1>5. {"deploying", "stopped", "error"} \subseteq Statuses /\ {"deploy", "register"} \subseteq Ops
  BY DEF Statuses, Ops
<1> SUFFICES ASSUME LifecycleNext PROVE RegistryTypeOK'
  BY <1>0 DEF vars
<1>6. CASE UNCHANGED masterVars
  BY <1>6 DEF masterVars
<1>7. ASSUME NEW c \in Calls, NEW i \in Instances, DeployInstance(c, i) \/ RegisterExternal(c, i)
      PROVE  RegistryTypeOK'
  BY <1>2, <1>4, <1>5, <1>7 DEF DeployInstance, RegisterExternal
<1>8. ASSUME NEW c \in Calls, NEW i \in Instances, NEW o \in Ops, InstanceAction(c, o, i)
      PROVE  RegistryTypeOK'
  BY <1>4, <1>8 DEF InstanceAction
<1>9. ASSUME NEW c \in Calls, NEW i \in Instances, BatchSend(c, i) PROVE RegistryTypeOK'
  <2>1. batch.op \in Ops
    BY DEF Ops
  <2>2. batch' \in [op : {"start", "stop"}, targets : SUBSET Instances]
    <3>1. CASE batch' = NoBatch
      BY <3>1 DEF NoBatch
    <3>2. CASE batch' = [batch EXCEPT !.targets = @ \ {i}]
      BY <3>2
    <3> QED BY <1>9, <3>1, <3>2 DEF BatchSend
  <2>3. UNCHANGED <<row, metrics>> /\ Command(c, batch.op, i)
    BY <1>9 DEF BatchSend
  <2> QED BY <1>4, <2>1, <2>2, <2>3
<1>10. ASSUME NEW o \in Ops, SystemAction(o) PROVE RegistryTypeOK'
  BY <1>10 DEF SystemAction
<1>11. ASSUME NEW c \in Calls, Return(c) \/ TimeOut(c) PROVE RegistryTypeOK'
  <2>1. call[c].inst \in Instances
    OBVIOUS
  <2>2. \/ UpdateInstanceStatus(call[c].inst, "error") \/ RemoveInstance(call[c].inst)
        \/ UNCHANGED <<row, metrics>>
    BY <1>11 DEF Return, TimeOut, Succeeded, Failed
  <2>3. /\ row' \in [Instances -> {NoRow} \cup [status : Statuses, pid : Pids \cup {0}]]
        /\ metrics' \subseteq Instances
    BY <1>2, <1>3, <1>5, <2>1, <2>2
  <2> QED BY <1>11, <2>3 DEF Return, TimeOut
<1>12. CASE CleanCache
  BY <1>12 DEF CleanCache
<1>13. CASE DeleteRows
  BY <1>13 DEF DeleteRows
<1>14. ASSUME NEW r \in reports, Apply(r) PROVE RegistryTypeOK'
  <2>1. r.inst \in Instances /\ [status |-> r.status, pid |-> r.pid] \in [status : Statuses, pid : Pids \cup {0}]
    BY DEF Report, NoPid
  <2>2. row' \in [Instances -> {NoRow} \cup [status : Statuses, pid : Pids \cup {0}]]
    BY <1>1, <1>14, <2>1 DEF Apply, UpdateRow
  <2> QED BY <1>14, <2>2 DEF Apply
<1>15. ASSUME NEW r \in reports, Store(r) \/ Lose(r) PROVE RegistryTypeOK'
  BY <1>15 DEF Store, Lose, StoreMetrics, Report
<1> QED
  BY <1>6, <1>7, <1>8, <1>9, <1>10, <1>11, <1>12, <1>13, <1>14, <1>15
  DEF LifecycleNext, WorkerStep, MasterStep, Fault

-----------------------------------------------------------------------------
(***************************************************************************)
(* Commands                                                                *)
(***************************************************************************)

\* What a step that sends no command leaves alone: the calls, which of them are
\* over, and the ghosts, which only grow.
Calm ==
    /\ call' = call /\ hurried' = hurried
    /\ \A c \in Calls : pc[c] \in {"unused", "ended", "lost"} => pc'[c] = pc[c]
    /\ \A c \in Calls : pc'[c] = "unused" => pc[c] = "unused"
    /\ overlap \subseteq overlap'

\* A handler at work moves itself, and no call that is over.
LEMMA HandlerCalm ==
    ASSUME TypeOK, NEW c \in Calls, Handler(c)
    PROVE  /\ call' = call /\ overlap \subseteq overlap'
           /\ pc[c] \notin {"unused", "ended", "lost"} /\ pc'[c] # "unused"
           /\ \A d \in Calls \ {c} : pc'[d] = pc[d] /\ answer'[d] = answer[d]
<1> USE DEF TypeOK, Goto, Refuse, Finish, Arrive
<1>1. CASE ReceiveDeploy(c) \/ ReceiveRegister(c) \/ ReceiveStart(c) \/ ReceiveStop(c)
  BY <1>1 DEF ReceiveDeploy, ReceiveRegister, ReceiveStart, ReceiveStop
<1>2. CASE Announce(c) \/ Announced(c) \/ Fetch(c) \/ Unpack(c)
  BY <1>2 DEF Announce, Announced, Fetch, Unpack
<1>3. CASE Spawn(c) \/ Match(c) \/ WritePid(c)
  BY <1>3 DEF Spawn, Match, WritePid
<1>4. CASE ReadPid(c) \/ Kill(c) \/ RmPid(c) \/ RmDir(c) \/ Reported(c)
  BY <1>4 DEF ReadPid, Kill, RmPid, RmDir, Reported
<1> QED BY <1>1, <1>2, <1>3, <1>4 DEF Handler

\* No step of the worker, the machine or the network sends a command ...
LEMMA WorksCalm == ASSUME TypeOK, Works PROVE Calm
<1>1. ASSUME NEW c \in Calls, Handler(c) PROVE Calm
  BY <1>1, HandlerCalm DEF Calm, Works, masterVars
<1>2. ASSUME NEW c \in Calls, Undelivered(c) PROVE Calm
  BY <1>2 DEF Undelivered, Goto, Calm, Works, masterVars, TypeOK
<1>3. CASE Crash
  BY <1>3 DEF Crash, Calm, Works, masterVars, TypeOK, Working
<1> QED
  BY <1>1, <1>2, <1>3
  DEF Works, Calm, masterVars, GiveUp, Examine, Check, Checked, Exit, Other

\* ... and no clerical step of the master does.
LEMMA ClericalCalm == ASSUME TypeOK, Clerical PROVE Calm
BY ClericalAside DEF Calm, Aside

\* A sent command is about i from now on; every other call is as it was.
LEMMA SendsFacts ==
    ASSUME TypeOK, NEW c \in Calls, NEW o \in Ops, NEW i \in Instances, Sends(c, o, i)
    PROVE  /\ pc[c] = "unused" /\ pc'[c] = "sent" /\ call'[c] = [op |-> o, inst |-> i]
           /\ \A d \in Calls \ {c} : pc'[d] = pc[d] /\ call'[d] = call[d]
           /\ UNCHANGED <<answer, dir, pidFile, live, mon, overlap, reports, purge>>
           /\ hurried \subseteq hurried'
           /\ Named(i)'
           /\ \A j \in Instances : Named(j) => Named(j)'
           /\ \A j \in Instances \ {i} : Pending(j)' = Pending(j)
           /\ Pending(i)' = Pending(i) \cup {c}
           /\ Pending(i) = {} \/ i \in hurried'
           /\ c \notin Pending(i)
<1>1. /\ pc[c] = "unused" /\ pc'[c] = "sent" /\ call'[c] = [op |-> o, inst |-> i]
      /\ \A d \in Calls \ {c} : pc'[d] = pc[d] /\ call'[d] = call[d]
      /\ UNCHANGED <<answer, dir, pidFile, live, mon, overlap, reports, purge>>
      /\ hurried' = IF Pending(i) # {} THEN hurried \cup {i} ELSE hurried
  BY DEF Sends, Command, Issue, Goto, Hurry, Worker, TypeOK
<1>2. Named(i)' /\ \A j \in Instances : Named(j) => Named(j)'
  BY <1>1 DEF Named, Inst
<1>3. /\ \A j \in Instances \ {i} : Pending(j)' = Pending(j)
      /\ Pending(i)' = Pending(i) \cup {c}
      /\ c \notin Pending(i)
  BY <1>1 DEF Pending
<1> QED BY <1>1, <1>2, <1>3

\* Without a command nothing is named and nothing becomes pending.
LEMMA CalmFacts ==
    ASSUME TypeOK, Calm
    PROVE  /\ \A j \in Instances : Named(j) => Named(j)'
           /\ \A j \in Instances : Pending(j)' \subseteq Pending(j)
BY DEF Calm, Named, Inst, Pending

\* One command at a time, unless the master hurries (Hurry).
LEMMA HurryStays == ASSUME LifecycleIInv, [LifecycleNext]_vars PROVE HurryInv'
<1> USE DEF LifecycleIInv, IInv, HurryInv
<1>1. CASE UNCHANGED vars
  BY <1>1 DEF vars, Pending
<1>2. CASE Calm
  <2>1. \A j \in Instances : Pending(j)' \subseteq Pending(j)
    BY <1>2, CalmFacts
  <2>2. hurried' = hurried
    BY <1>2 DEF Calm
  <2> QED BY <2>1, <2>2
<1>3. ASSUME NEW c \in Calls, NEW o \in Ops, NEW i \in Instances, Sends(c, o, i) PROVE HurryInv'
  <2>1. /\ hurried \subseteq hurried'
        /\ \A j \in Instances \ {i} : Pending(j)' = Pending(j)
        /\ Pending(i)' = Pending(i) \cup {c}
        /\ Pending(i) = {} \/ i \in hurried'
    BY <1>3, SendsFacts
  <2> QED BY <2>1
<1> QED BY <1>1, <1>2, <1>3, Steps, WorksCalm, ClericalCalm

\* A row appears only with a deploy or a registration, which names the instance:
\* UPDATEs do nothing to a row that is gone (UpdateInstanceFullStatus).
LEMMA RowsAppear ==
    ASSUME LifecycleIInv, [LifecycleNext]_vars, NEW i \in Instances, ~Registered(i), Registered(i)'
    PROVE  ~Named(i) /\ Named(i)'
<1> USE DEF LifecycleIInv, IInv, RegistryTypeOK, Registered
<1>1. CASE UNCHANGED masterVars \/ UNCHANGED vars
  BY <1>1 DEF masterVars, vars
<1>2. ASSUME NEW c \in Calls, NEW j \in Instances, DeployInstance(c, j) PROVE ~Named(i) /\ Named(i)'
  <2>1. Sends(c, "deploy", j) /\ "deploy" \in Ops
    BY <1>2 DEF DeployInstance, Sends, Ops
  <2>2. i = j
    BY <1>2 DEF DeployInstance, RegisterInstance
  <2> QED BY <1>2, <2>1, <2>2, SendsFacts DEF DeployInstance
<1>3. ASSUME NEW c \in Calls, NEW j \in Instances, RegisterExternal(c, j) PROVE ~Named(i) /\ Named(i)'
  <2>1. Sends(c, "register", j) /\ "register" \in Ops
    BY <1>3 DEF RegisterExternal, Sends, Ops
  <2>2. i = j
    BY <1>3 DEF RegisterExternal, RegisterInstance
  <2> QED BY <1>3, <2>1, <2>2, SendsFacts DEF RegisterExternal
<1>4. ASSUME NEW c \in Calls, Return(c) \/ TimeOut(c) PROVE row'[i] = NoRow
  BY <1>4 DEF Return, TimeOut, Succeeded, Failed, RemoveInstance, UpdateInstanceStatus
<1>5. CASE DeleteRows
  BY <1>5 DEF DeleteRows
<1>6. ASSUME NEW r \in reports, Apply(r) PROVE row'[i] = NoRow
  BY <1>6 DEF Apply, UpdateRow
<1>7. ASSUME UNCHANGED row PROVE row'[i] = NoRow
  BY <1>7
<1>8. ASSUME NEW c \in Calls, NEW j \in Instances, NEW o \in Ops, InstanceAction(c, o, j)
      PROVE  UNCHANGED row
  BY <1>8 DEF InstanceAction
<1>9. ASSUME NEW o \in Ops, SystemAction(o) PROVE UNCHANGED row
  BY <1>9 DEF SystemAction
<1>10. ASSUME NEW r \in reports, Store(r) \/ Lose(r) PROVE UNCHANGED row
  BY <1>10 DEF Store, Lose
<1>11. CASE CleanCache
  BY <1>7, <1>11 DEF CleanCache
<1>12. ASSUME NEW c \in Calls, NEW j \in Instances, BatchSend(c, j) PROVE UNCHANGED row
  BY <1>12 DEF BatchSend
<1> QED
  BY <1>1, <1>2, <1>3, <1>4, <1>5, <1>6, <1>7, <1>8, <1>9, <1>10, <1>11, <1>12
  DEF LifecycleNext, WorkerStep, MasterStep, Fault

\* Rows and targets belong to instances that were named.
LEMMA NamedStays == ASSUME LifecycleIInv, [LifecycleNext]_vars PROVE NamedInv'
<1> USE DEF LifecycleIInv, IInv
<1>1. \A i \in Instances : Named(i) => Named(i)'
  <2>1. CASE UNCHANGED vars
    BY <2>1 DEF vars, Named, Inst
  <2> QED BY <2>1, Steps, WorksCalm, ClericalCalm, CalmFacts, SendsFacts
<1>2. ASSUME NEW i \in Instances, Registered(i)' PROVE Named(i)'
  BY <1>1, <1>2, RowsAppear DEF NamedInv
<1>3. batch'.targets \subseteq batch.targets \cup {i \in Instances : Registered(i)}
  <2>1. CASE UNCHANGED masterVars \/ UNCHANGED vars
    BY <2>1 DEF masterVars, vars
  <2>2. ASSUME NEW c \in Calls, NEW i \in Instances, BatchSend(c, i) PROVE batch'.targets \subseteq batch.targets
    <3>1. CASE batch' = NoBatch
      BY <3>1 DEF NoBatch
    <3>2. CASE batch' = [batch EXCEPT !.targets = @ \ {i}]
      BY <3>2 DEF RegistryTypeOK
    <3> QED BY <2>2, <3>1, <3>2 DEF BatchSend
  <2>3. ASSUME NEW o \in Ops, SystemAction(o) PROVE batch'.targets \subseteq {i \in Instances : Registered(i)}
    BY <2>3 DEF SystemAction
  <2>4. ASSUME NEW c \in Calls, NEW i \in Instances, NEW o \in Ops, InstanceAction(c, o, i)
        PROVE  UNCHANGED batch
    BY <2>4 DEF InstanceAction
  <2>5. ASSUME NEW c \in Calls, Return(c) \/ TimeOut(c) PROVE UNCHANGED batch
    BY <2>5 DEF Return, TimeOut
  <2>6. ASSUME CleanCache \/ DeleteRows PROVE UNCHANGED batch
    BY <2>6 DEF CleanCache, DeleteRows
  <2>7. ASSUME NEW r \in reports, Apply(r) \/ Store(r) \/ Lose(r) PROVE UNCHANGED batch
    BY <2>7 DEF Apply, Store, Lose
  <2>8. ASSUME NEW c \in Calls, NEW i \in Instances, DeployInstance(c, i) \/ RegisterExternal(c, i)
        PROVE  UNCHANGED batch
    BY <2>8 DEF DeployInstance, RegisterExternal
  <2> QED
    BY <2>1, <2>2, <2>3, <2>4, <2>5, <2>6, <2>7, <2>8
    DEF LifecycleNext, WorkerStep, MasterStep, Fault
<1>4. \A i \in batch'.targets : i \in Instances
  BY RegistryStays DEF RegistryTypeOK
<1>5. ASSUME NEW i \in batch'.targets PROVE Named(i)'
  BY <1>1, <1>3, <1>4, <1>5 DEF NamedInv
<1> QED BY <1>2, <1>5 DEF NamedInv

-----------------------------------------------------------------------------
(***************************************************************************)
(* A destroy that succeeded                                                *)
(***************************************************************************)

\* Nothing comes back to an instance that is gone, unless it is deployed: a
\* start finds no directory (FindInstanceDir), and no handler is half way.
LEMMA HandlerLeavesGone ==
    ASSUME IInv, NEW i \in Packaged, Gone(i), NEW c \in Calls, Handler(c)
    PROVE  dir'[i] = "none" /\ Procs(i)' = {} /\ Active(i)' = {}
<1> USE ExecutorAssumption DEF IInv, TypeOK, Goto, Refuse, Finish, Arrive, Packaged
<1>1. dir[i] = "none" /\ (\A p \in Pids : live[p] # i) /\ (\A d \in Active(i) : FALSE)
  BY DEF Gone, Untouched, Procs
<1>2. ASSUME Inst(c) # i PROVE dir'[i] = "none" /\ \A p \in Pids : live'[p] # i
  <2>1. CASE ReceiveDeploy(c) \/ ReceiveRegister(c) \/ ReceiveStart(c) \/ ReceiveStop(c)
    BY <1>1, <1>2, <2>1 DEF ReceiveDeploy, ReceiveRegister, ReceiveStart, ReceiveStop
  <2>2. CASE Announce(c) \/ Announced(c) \/ Fetch(c) \/ Unpack(c)
    BY <1>1, <1>2, <2>2 DEF Announce, Announced, Fetch, Unpack
  <2>3. CASE Spawn(c) \/ Match(c) \/ WritePid(c)
    BY <1>1, <1>2, <2>3 DEF Spawn, Match, WritePid
  <2>4. CASE ReadPid(c) \/ Kill(c) \/ RmPid(c) \/ RmDir(c) \/ Reported(c)
    BY <1>1, <1>2, <2>4 DEF ReadPid, Kill, RmPid, RmDir, Reported
  <2> QED BY <2>1, <2>2, <2>3, <2>4 DEF Handler
<1>3. ASSUME Inst(c) = i
      PROVE  /\ dir'[i] = "none" /\ \A p \in Pids : live'[p] # i
             /\ pc'[c] \notin Working
  <2>1. pc[c] \notin Working
    BY <1>1, <1>3 DEF Active
  <2>2. c \in Pending(i)
    BY <1>3, HandlerCalm DEF Pending, Inst
  <2>3. call[c].op # "deploy" /\ ~(call[c].op = "register" /\ pc[c] # "unused")
    BY <1>3, <2>2 DEF Gone, LabelInv
  <2>4. ReceiveStart(c) \/ ReceiveStop(c) \/ Reported(c)
    BY <2>1, <2>3
    DEF Handler, Working, ReceiveDeploy, ReceiveRegister, Announce, Announced, Fetch, Unpack, Spawn,
        Match, WritePid, ReadPid, Kill, RmPid, RmDir
  <2> QED BY <1>1, <1>3, <2>4 DEF ReceiveStart, ReceiveStop, Reported, Working
<1>4. dir'[i] = "none" /\ \A p \in Pids : live'[p] # i
  BY <1>2, <1>3
<1>5. Active(i)' = {}
  <2>1. \A d \in Calls \ {c} : pc'[d] = pc[d] /\ call' = call
    BY HandlerCalm
  <2>2. call' = call
    BY HandlerCalm
  <2> QED BY <1>1, <1>3, <2>1, <2>2 DEF Active, Inst
<1> QED BY <1>4, <1>5 DEF Procs

\* What is gone stays gone, whatever arrives after it (FindInstanceDir).
LEMMA GoneStays ==
    ASSUME LifecycleIInv, [LifecycleNext]_vars, NEW i \in Packaged, Gone(i), Named(i)
    PROVE  Gone(i)'
<1> USE DEF LifecycleIInv, IInv
<1>0. i \in Instances
  BY DEF Packaged
<1>1. ASSUME UNCHANGED <<call, pc, dir, live>> PROVE Gone(i)'
  BY <1>1 DEF Gone, Untouched, Procs, Active, Pending, Inst
<1>2. ASSUME Calm, dir'[i] = "none", Procs(i)' = {}, Active(i)' = {} PROVE Gone(i)'
  <2>1. Pending(i)' \subseteq Pending(i) /\ call' = call
    BY <1>0, <1>2, CalmFacts DEF Calm
  <2> QED BY <1>2, <2>1 DEF Gone, Untouched
<1>3. CASE Works
  <2>0. Calm
    BY <1>3, WorksCalm
  <2>1. ASSUME NEW c \in Calls, Handler(c) PROVE Gone(i)'
    BY <1>2, <2>0, <2>1, HandlerLeavesGone
  <2>2. ASSUME NEW c \in Calls, Undelivered(c) PROVE Gone(i)'
    <3>1. dir'[i] = "none" /\ Procs(i)' = {}
      BY <2>2 DEF Undelivered, Gone, Untouched, Procs
    <3>2. Active(i)' = {}
      BY <2>2 DEF Undelivered, Gone, Active, Goto, TypeOK, Working, Inst
    <3> QED BY <1>2, <2>0, <3>1, <3>2
  <2>3. ASSUME NEW p \in Pids, Exit(p) \/ Other(p) PROVE Gone(i)'
    <3>1. dir'[i] = "none" /\ Procs(i)' = {}
      BY <2>3, ExecutorAssumption DEF Exit, Other, Gone, Untouched, Procs, TypeOK, Packaged
    <3>2. Active(i)' = {}
      BY <2>3 DEF Exit, Other, Gone, Active, Inst
    <3> QED BY <1>2, <2>0, <3>1, <3>2
  <2>4. CASE Crash
    <3>1. dir'[i] = "none" /\ Procs(i)' = {}
      BY <2>4 DEF Crash, Gone, Untouched, Procs
    <3>2. Active(i)' = {}
      BY <2>4 DEF Crash, Gone, Active, Working, Inst
    <3> QED BY <1>2, <2>0, <3>1, <3>2
  <2> QED
    BY <1>1, <1>3, <2>1, <2>2, <2>3, <2>4 DEF Works, GiveUp, Examine, Check, Checked
<1>4. CASE Clerical
  BY <1>1, <1>4, ClericalAside DEF Aside
<1>5. ASSUME NEW c \in Calls, NEW o \in Ops, NEW j \in Instances, Sends(c, o, j) PROVE Gone(i)'
  <2>1. /\ pc'[c] = "sent" /\ call'[c] = [op |-> o, inst |-> j]
        /\ \A d \in Calls \ {c} : pc'[d] = pc[d] /\ call'[d] = call[d]
        /\ UNCHANGED <<dir, live>>
        /\ \A k \in Instances \ {j} : Pending(k)' = Pending(k)
        /\ Pending(j)' = Pending(j) \cup {c}
        /\ c \notin Pending(j)
    BY <1>5, SendsFacts
  <2>2. Untouched(i)'
    BY <2>1 DEF Gone, Untouched, Procs
  <2>3. Active(i)' = {}
    BY <2>1 DEF Gone, Active, Inst, Working
  <2>4. o = "deploy" => i # j
    BY <1>5 DEF Sends
  <2>5. c \notin Pending(i)
    BY <1>5, SendsFacts DEF Pending
  <2>6. \A d \in Pending(i)' : d \in Pending(i) \/ (d = c /\ i = j)
    BY <1>0, <2>1
  <2>7. ASSUME NEW d \in Pending(i)' PROVE call'[d].op # "deploy"
    <3>1. CASE d \in Pending(i)
      BY <2>1, <2>5, <3>1 DEF Gone, Pending
    <3>2. CASE d = c /\ i = j
      BY <2>1, <2>4, <3>2
    <3> QED BY <2>6, <2>7, <3>1, <3>2
  <2> QED BY <2>2, <2>3, <2>7 DEF Gone
<1>6. CASE UNCHANGED vars
  BY <1>1, <1>6 DEF vars
<1> QED BY <1>3, <1>4, <1>5, <1>6, Steps

\* No clerical step of the master makes an answer out of nothing.
LEMMA ClericalAnswers ==
    ASSUME TypeOK, Clerical PROVE \A c \in Calls : answer'[c] = "ok" => answer[c] = "ok"
BY DEF Clerical, SystemAction, Return, TimeOut, CleanCache, DeleteRows, Apply, Store, Lose, TypeOK

\* No handler but a deploy's answers before it has ended.
LEMMA AnswerStays == ASSUME LifecycleIInv, [LifecycleNext]_vars PROVE AnswerInv'
<1> USE DEF LifecycleIInv, IInv
<1>1. CASE UNCHANGED vars
  BY <1>1 DEF vars, AnswerInv
<1>2. CASE Works
  <2>1. Calm
    BY <1>2, WorksCalm
  <2>2. ASSUME NEW c \in Calls, Handler(c) PROVE AnswerInv'
    <3>1. answer'[c] = "ok" => pc'[c] # "unused" /\ (call[c].op = "deploy" \/ pc'[c] = "ended")
      <4> USE DEF AnswerInv, TypeOK, Goto, Refuse, Finish
      <4>1. CASE ReceiveDeploy(c) \/ ReceiveRegister(c) \/ ReceiveStart(c) \/ ReceiveStop(c)
        BY <4>1 DEF ReceiveDeploy, ReceiveRegister, ReceiveStart, ReceiveStop
      <4>2. CASE Announce(c) \/ Announced(c) \/ Fetch(c) \/ Unpack(c)
        BY <4>2 DEF Announce, Announced, Fetch, Unpack
      <4>3. CASE Spawn(c) \/ Match(c) \/ WritePid(c)
        BY <4>3 DEF Spawn, Match, WritePid
      <4>4. CASE ReadPid(c) \/ Kill(c) \/ RmPid(c) \/ RmDir(c) \/ Reported(c)
        BY <4>4 DEF ReadPid, Kill, RmPid, RmDir, Reported
      <4> QED BY <2>2, <4>1, <4>2, <4>3, <4>4 DEF Handler
    <3> QED BY <2>2, <3>1, HandlerCalm DEF AnswerInv
  <2>3. ASSUME NEW c \in Calls, Undelivered(c) PROVE AnswerInv'
    BY <2>3 DEF Undelivered, Goto, AnswerInv, TypeOK
  <2>4. ASSUME UNCHANGED answer, \A c \in Calls : pc[c] = "ended" => pc'[c] = "ended" PROVE AnswerInv'
    BY <2>1, <2>4 DEF Calm, AnswerInv
  <2>5. CASE Crash
    BY <2>4, <2>5 DEF Crash, Working
  <2> QED
    BY <1>2, <2>2, <2>3, <2>4, <2>5 DEF Works, GiveUp, Examine, Check, Checked, Exit, Other
<1>3. CASE Clerical
  BY <1>3, ClericalAside, ClericalAnswers DEF Aside, AnswerInv
<1>4. ASSUME NEW c \in Calls, NEW o \in Ops, NEW i \in Instances, Sends(c, o, i) PROVE AnswerInv'
  BY <1>4, SendsFacts DEF AnswerInv
<1> QED BY <1>1, <1>2, <1>3, <1>4, Steps

\* A destroy succeeds at two places: where there is no directory to begin with,
\* and after RemoveAll.  The instance is gone then, if the destroy was alone.
LEMMA DestroyLeavesGone ==
    ASSUME LifecycleIInv, [LifecycleNext]_vars, NEW c \in Calls, Destroyed(c)', ~Destroyed(c),
           Inst(c)' \in Packaged \ (overlap' \cup hurried')
    PROVE  Gone(Inst(c))'
<1> USE DEF LifecycleIInv, IInv
<1>1. Works
  <2>1. CASE Clerical
    BY <2>1, ClericalAside, ClericalAnswers DEF Aside, Destroyed
  <2>2. ASSUME NEW d \in Calls, NEW o \in Ops, NEW j \in Instances, Sends(d, o, j) PROVE FALSE
    <3>1. /\ pc'[d] = "sent"
          /\ \A e \in Calls \ {d} : pc'[e] = pc[e] /\ call'[e] = call[e]
          /\ answer' = answer
      BY <2>2, SendsFacts
    <3> QED BY <3>1 DEF Destroyed
  <2>3. CASE UNCHANGED vars
    BY <2>3 DEF vars, Destroyed
  <2> QED BY <2>1, <2>2, <2>3, Steps
<1>2. Calm /\ call' = call
  BY <1>1, WorksCalm DEF Calm
<1>3. Handler(c)
  <2>1. ASSUME NEW d \in Calls \ {c}, Handler(d) PROVE FALSE
    BY <1>2, <2>1, HandlerCalm DEF Destroyed
  <2>2. ASSUME NEW d \in Calls, Undelivered(d) PROVE FALSE
    BY <2>2 DEF Undelivered, Goto, Destroyed, TypeOK
  <2>3. CASE Crash
    BY <2>3 DEF Crash, Destroyed
  <2> QED
    BY <1>1, <1>2, <2>1, <2>2, <2>3
    DEF Works, Destroyed, GiveUp, Examine, Check, Checked, Exit, Other
<1>4. call[c].op = "destroy" /\ pc[c] # "reporting"
      /\ (pc'[c] = "reporting" \/ (pc'[c] = "ended" /\ answer'[c] = "ok"))
  BY <1>2, <1>3, HandlerCalm DEF Destroyed
<1>5. ReceiveStop(c) \/ RmDir(c)
  <2>1. CASE ReceiveDeploy(c) \/ ReceiveRegister(c) \/ ReceiveStart(c)
    BY <1>4, <2>1 DEF ReceiveDeploy, ReceiveRegister, ReceiveStart
  <2>2. CASE Announce(c) \/ Announced(c) \/ Fetch(c) \/ Unpack(c)
    BY <1>4, <2>2 DEF Announce, Announced, Fetch, Unpack, LabelInv
  <2>3. CASE Spawn(c) \/ Match(c) \/ WritePid(c)
    BY <1>4, <2>3 DEF Spawn, Match, WritePid, StartInv, Refuse, Finish, Goto, TypeOK
  <2>4. CASE ReadPid(c) \/ Kill(c) \/ RmPid(c) \/ Reported(c)
    BY <1>4, <2>4 DEF ReadPid, Kill, RmPid, Reported, Goto, TypeOK
  <2> QED BY <1>3, <2>1, <2>2, <2>3, <2>4 DEF Handler
<1>6. Inst(c)' = Inst(c) /\ Inst(c) \in Packaged \ (overlap \cup hurried)
  BY <1>2 DEF Calm, Inst
<1>0. PICK i \in Instances : i = Inst(c)
  BY <1>6 DEF Packaged
<1>7. i \in Packaged \ (overlap \cup hurried) /\ i \in Instances /\ Inst(c) = i /\ Inst(c)' = i
  BY <1>0, <1>6
<1>8. Pending(i) \subseteq {c} /\ Active(i) \subseteq {c}
  <2>1. c \in Pending(i)
    BY <1>3, <1>7, HandlerCalm DEF Pending, Inst
  <2>2. Pending(i) \subseteq {c}
    BY <1>7, <2>1 DEF HurryInv, Pending
  <2>3. Active(i) \subseteq Pending(i)
    BY DEF Active, Pending, Inst, Working
  <2> QED BY <2>2, <2>3
<1>9. dir'[i] = "none" /\ Procs(i)' = {} /\ pc'[c] = "reporting"
  <2>1. CASE RmDir(c)
    <3>1. Procs(i) = {}
      BY <1>7, <2>1 DEF RmDir, KnowsInv, Working
    <3>2. pc'[c] # "ended" \/ answer'[c] # "ok"
      BY <2>1 DEF RmDir, Refuse, Finish, Goto, TypeOK
    <3>3. dir'[i] = "none" /\ pc'[c] = "reporting"
      BY <1>4, <1>7, <2>1, <3>2 DEF RmDir, Refuse, Finish, Goto, TypeOK
    <3> QED BY <2>1, <3>1, <3>3 DEF RmDir, Procs
  <2>2. CASE ReceiveStop(c)
    <3>1. dir[i] = "none" /\ dir' = dir /\ live' = live /\ pc'[c] = "reporting"
      <4>1. CASE Refuse(c)
        BY <1>4, <2>2, <4>1 DEF Refuse, Goto, TypeOK
      <4>2. CASE Finish(c, "destroyed", NoPid) /\ dir[Inst(c)] = "none"
        BY <1>7, <2>2, <4>2 DEF ReceiveStop, Finish, Goto, TypeOK
      <4>3. CASE Goto(c, "readpid")
        BY <1>4, <4>3 DEF Goto, TypeOK
      <4> QED BY <2>2, <4>1, <4>2, <4>3 DEF ReceiveStop
    <3>2. Procs(i) = {}
      BY <1>7, <3>1, FilesHold DEF NoProcessWithoutFiles
    <3> QED BY <3>1, <3>2 DEF Procs
  <2> QED BY <1>5, <2>1, <2>2
<1>10. Active(i)' = {}
  <2>1. \A d \in Calls \ {c} : pc'[d] = pc[d]
    BY <1>3, HandlerCalm
  <2> QED BY <1>2, <1>8, <1>9, <2>1 DEF Active, Inst, Working
<1>11. \A d \in Pending(i)' : call'[d].op # "deploy"
  <2>1. Pending(i)' \subseteq {c}
    BY <1>2, <1>7, <1>8, CalmFacts
  <2> QED BY <1>2, <1>4, <2>1
<1>12. Gone(i)'
  BY <1>9, <1>10, <1>11 DEF Gone, Untouched
<1> QED BY <1>7, <1>12

\* From the end of a successful destroy on, its instance is gone.
LEMMA GoneInvStays == ASSUME LifecycleIInv, [LifecycleNext]_vars PROVE GoneInv'
<1> USE DEF LifecycleIInv, IInv
<1> SUFFICES ASSUME NEW c \in Calls, Destroyed(c)', Inst(c)' \in Packaged \ (overlap' \cup hurried')
             PROVE  Gone(Inst(c))'
  BY DEF GoneInv
<1>1. CASE ~Destroyed(c)
  BY <1>1, DestroyLeavesGone
<1>2. CASE Destroyed(c)
  <2>1. Inst(c)' = Inst(c) /\ overlap \subseteq overlap' /\ hurried \subseteq hurried'
    <3>1. CASE UNCHANGED vars
      BY <3>1 DEF vars, Inst
    <3>2. CASE Calm
      BY <3>2 DEF Calm, Inst
    <3>3. ASSUME NEW d \in Calls, NEW o \in Ops, NEW j \in Instances, Sends(d, o, j)
          PROVE  Inst(c)' = Inst(c) /\ overlap \subseteq overlap' /\ hurried \subseteq hurried'
      <4>1. /\ pc[d] = "unused" /\ overlap' = overlap /\ hurried \subseteq hurried'
            /\ \A e \in Calls \ {d} : call'[e] = call[e]
        BY <3>3, SendsFacts
      <4>2. c # d
        BY <1>2, <4>1 DEF Destroyed
      <4> QED BY <4>1, <4>2 DEF Inst
    <3> QED BY <3>1, <3>2, <3>3, Steps, WorksCalm, ClericalCalm
  <2>2. PICK i \in Packaged : i = Inst(c)
    BY <2>1
  <2>3. Gone(i) /\ Named(i) /\ Inst(c)' = i
    BY <1>2, <2>1, <2>2 DEF GoneInv, Destroyed, Named
  <2>4. Gone(i)'
    BY <2>3, GoneStays
  <2> QED BY <2>3, <2>4
<1> QED BY <1>1, <1>2

-----------------------------------------------------------------------------
(***************************************************************************)
(* Deployments without faults                                              *)
(***************************************************************************)

\* What a handler sends, and when it moves on after sending.
LEMMA HandlerReports ==
    ASSUME IInv, NEW c \in Calls, Handler(c)
    PROVE  /\ reports \subseteq reports'
           /\ \A r \in reports' \ reports :
                 /\ r.by = c /\ r.inst = Inst(c) /\ ~r.half
                 /\ pc'[c] \in {"announcing", "reporting"}
                 /\ r.status = "deploying" => pc'[c] = "announcing"
           /\ pc[c] \in {"announcing", "reporting"} => ~Awaited(c) /\ reports' = reports
<1> USE DEF IInv, TypeOK, Goto, Refuse, Finish, Send
<1>1. CASE ReceiveDeploy(c) \/ ReceiveRegister(c) \/ ReceiveStart(c) \/ ReceiveStop(c)
  BY <1>1 DEF ReceiveDeploy, ReceiveRegister, ReceiveStart, ReceiveStop
<1>2. CASE Announce(c) \/ Announced(c) \/ Fetch(c) \/ Unpack(c)
  BY <1>2 DEF Announce, Announced, Fetch, Unpack
<1>3. CASE Spawn(c) \/ Match(c) \/ WritePid(c)
  BY <1>3 DEF Spawn, Match, WritePid
<1>4. CASE ReadPid(c) \/ Kill(c) \/ RmPid(c) \/ RmDir(c) \/ Reported(c)
  BY <1>4 DEF ReadPid, Kill, RmPid, RmDir, Reported
<1> QED BY <1>1, <1>2, <1>3, <1>4 DEF Handler

\* The monitor reports what runs and what has stopped.
LEMMA CheckReports ==
    ASSUME Check
    PROVE  /\ UNCHANGED <<call, pc>> /\ reports \subseteq reports'
           /\ \A r \in reports' \ reports : r.by = Monitor /\ r.status # "deploying"
BY DEF Check, Send

\* The reports a step of the master leaves are those it found, half taken or not.
LEMMA TakenReports ==
    ASSUME TypeOK, NEW r \in reports, Apply(r) \/ Store(r)
    PROVE  /\ UNCHANGED <<call, pc>>
           /\ \A q \in reports' : \E p \in reports :
                 q.by = p.by /\ q.inst = p.inst /\ q.status = p.status
           /\ \A q \in reports : q # r => q \in reports'
<1>1. CASE Apply(r)
  <2> DEFINE h == [r EXCEPT !.half = TRUE]
  <2>1. h.by = r.by /\ h.inst = r.inst /\ h.status = r.status
    BY DEF TypeOK, Report
  <2>2. reports' = (reports \ {r}) \cup {h} /\ UNCHANGED <<call, pc>>
    BY <1>1 DEF Apply
  <2> HIDE DEF h
  <2> QED BY <2>1, <2>2
<1>2. CASE Store(r)
  BY <1>2 DEF Store
<1> QED BY <1>1, <1>2

\* As long as nothing fails, whoever sent a report waits for it.
LEMMA ReportStays == ASSUME LifecycleIInv, [LifecycleNext]_vars PROVE ReportInv'
<1> USE ExecutorAssumption DEF LifecycleIInv
<1>1. CASE UNCHANGED vars
  BY <1>1 DEF vars, ReportInv, Inst
<1> SUFFICES ASSUME LifecycleNext, ~faulted' PROVE ReportInv'
  BY <1>1 DEF ReportInv
<1>2. ~faulted /\ (WorkerStep \/ MasterStep)
  BY DEF LifecycleNext
<1> DEFINE Fine(r) == /\ r.by # Late
                      /\ r.by \in Calls => r.inst = Inst(r.by) /\ pc[r.by] \in {"announcing", "reporting"}
                      /\ r.status = "deploying" => r.by \in Calls /\ pc[r.by] = "announcing"
<1>3. \A r \in reports : Fine(r)
  BY <1>2 DEF ReportInv
<1>4. ASSUME reports' \subseteq reports, UNCHANGED <<call, pc>> PROVE ReportInv'
  BY <1>3, <1>4 DEF ReportInv, Inst
<1>5. ASSUME NEW c \in Calls, Handler(c) PROVE ReportInv'
  <2>1. /\ call' = call
        /\ \A d \in Calls \ {c} : pc'[d] = pc[d]
    BY <1>5, HandlerCalm DEF IInv
  <2>2. /\ \A r \in reports' \ reports :
              /\ r.by = c /\ r.inst = Inst(c)
              /\ pc'[c] \in {"announcing", "reporting"}
              /\ r.status = "deploying" => pc'[c] = "announcing"
        /\ pc[c] \in {"announcing", "reporting"} => ~Awaited(c)
    BY <1>5, HandlerReports
  <2>3. ASSUME NEW r \in reports PROVE Fine(r)'
    <3>1. r.by # c
      BY <1>3, <2>2 DEF Awaited
    <3> QED BY <1>3, <2>1, <3>1 DEF Inst
  <2>4. ASSUME NEW r \in reports' \ reports PROVE Fine(r)'
    BY <2>1, <2>2 DEF Inst
  <2> QED BY <2>3, <2>4 DEF ReportInv
<1>6. CASE Check
  <2>1. /\ UNCHANGED <<call, pc>>
        /\ \A r \in reports' \ reports : r.by = Monitor /\ r.status # "deploying"
    BY <1>6, CheckReports
  <2> QED BY <1>3, <2>1 DEF ReportInv, Inst
<1>7. ASSUME NEW r \in reports, Apply(r) \/ Store(r) PROVE ReportInv'
  <2>1. /\ UNCHANGED <<call, pc>>
        /\ \A q \in reports' : \E p \in reports :
              q.by = p.by /\ q.inst = p.inst /\ q.status = p.status
    BY <1>7, TakenReports DEF IInv
  <2> QED BY <1>3, <2>1 DEF ReportInv, Inst
<1>8. ASSUME NEW c \in Calls, NEW o \in Ops, NEW i \in Instances, Sends(c, o, i) PROVE ReportInv'
  <2>1. /\ pc[c] = "unused" /\ reports' = reports
        /\ \A d \in Calls \ {c} : pc'[d] = pc[d] /\ call'[d] = call[d]
    BY <1>8, SendsFacts DEF IInv
  <2> QED BY <1>3, <2>1 DEF ReportInv, Inst
<1>9. CASE WorkerStep
  BY <1>4, <1>5, <1>6, <1>9 DEF WorkerStep, Examine, Checked, Exit, Other
<1>10. CASE MasterStep
  <2>1. ASSUME NEW c \in Calls, NEW i \in Instances,
               \/ DeployInstance(c, i) \/ RegisterExternal(c, i) \/ BatchSend(c, i)
               \/ \E o \in Ops : InstanceAction(c, o, i)
        PROVE  ReportInv'
    <3>1. \E o \in Ops : Sends(c, o, i)
      <4>1. Ops = {"deploy", "register", "start", "stop", "destroy"}
        BY DEF Ops
      <4>2. DeployInstance(c, i) => Sends(c, "deploy", i)
        BY DEF DeployInstance, Sends
      <4>3. RegisterExternal(c, i) => Sends(c, "register", i)
        BY DEF RegisterExternal, Sends
      <4>4. \A o \in Ops : InstanceAction(c, o, i) => Sends(c, o, i)
        BY DEF InstanceAction, Sends, NamedInv
      <4>5. BatchSend(c, i) => Sends(c, batch.op, i) /\ batch.op \in Ops
        BY <4>1 DEF BatchSend, Sends, NamedInv, RegistryTypeOK
      <4> QED BY <2>1, <4>1, <4>2, <4>3, <4>4, <4>5
    <3> QED BY <1>8, <3>1
  <2> QED
    BY <1>4, <1>7, <1>10, <2>1 DEF MasterStep, SystemAction, Return, CleanCache, DeleteRows
<1> QED BY <1>2, <1>9, <1>10

\* A row is in "deploying" only while its deploy is on the way to another status.
LEMMA DeployStays == ASSUME LifecycleIInv, [LifecycleNext]_vars PROVE DeployInv'
<1> USE DEF LifecycleIInv
<1>1. CASE UNCHANGED vars
  BY <1>1 DEF vars, DeployInv, Deploying, Inst
<1> SUFFICES ASSUME LifecycleNext, ~faulted' PROVE DeployInv'
  BY <1>1 DEF DeployInv
<1>2. ~faulted /\ (WorkerStep \/ MasterStep)
  BY DEF LifecycleNext
<1>3. \A i \in Instances : row[i].status = "deploying" => \E c \in Calls : Inst(c) = i /\ Deploying(c)
  BY <1>2 DEF DeployInv
\* Steps that leave the deploys where they are.
<1>4. ASSUME \A i \in Instances : row'[i].status = "deploying" => row[i].status = "deploying",
             \A c \in Calls : Deploying(c) => Deploying(c)' /\ Inst(c)' = Inst(c)
      PROVE  DeployInv'
  BY <1>3, <1>4 DEF DeployInv
<1>5. ASSUME UNCHANGED <<call, pc>>, reports \subseteq reports', NEW c \in Calls, Deploying(c)
      PROVE  Deploying(c)' /\ Inst(c)' = Inst(c)
  BY <1>5 DEF Deploying, Inst
<1>6. ASSUME NEW c \in Calls, Handler(c), UNCHANGED row PROVE DeployInv'
  <2>1. /\ call' = call
        /\ \A d \in Calls \ {c} : pc'[d] = pc[d]
    BY <1>6, HandlerCalm DEF IInv
  <2>2. /\ reports \subseteq reports'
        /\ pc[c] = "reporting" => ~Awaited(c)
    BY <1>6, HandlerReports
  <2>3. ASSUME NEW d \in Calls, d # c, Deploying(d) PROVE Deploying(d)'
    BY <2>1, <2>2, <2>3 DEF Deploying
  <2>4. ASSUME Deploying(c) PROVE Deploying(c)'
    <3>1. call[c].op = "deploy" /\ pc[c] \in {"sent", "announce", "announcing", "fetch", "unpack"}
      BY <2>2, <2>4 DEF Deploying, Awaited
    <3>2. \/ ReceiveDeploy(c) \/ Announce(c) \/ Announced(c) \/ Fetch(c) \/ Unpack(c)
      BY <1>6, <3>1
      DEF Handler, ReceiveRegister, ReceiveStart, ReceiveStop, Spawn, Match, WritePid, ReadPid, Kill,
          RmPid, RmDir, Reported
    <3>3. \/ pc'[c] \in {"announce", "announcing", "fetch", "unpack"}
          \/ \E st \in {"stopped", "error"} : Finish(c, st, NoPid)
      BY <3>2 DEF ReceiveDeploy, Announce, Announced, Fetch, Unpack, Goto, IInv, TypeOK
    <3>4. ASSUME NEW st \in {"stopped", "error"}, Finish(c, st, NoPid)
          PROVE  pc'[c] = "reporting" /\ \E r \in reports' : r.by = c /\ ~r.half /\ r.status # "deploying"
      <4> DEFINE r == [by |-> c, inst |-> Inst(c), status |-> st, pid |-> NoPid, half |-> FALSE]
      <4>1. r \in reports' /\ r.by = c /\ ~r.half /\ r.status # "deploying"
        BY <3>4 DEF Finish, Send
      <4>2. pc'[c] = "reporting"
        BY <3>4 DEF Finish, Goto, IInv, TypeOK
      <4> HIDE DEF r
      <4> QED BY <4>1, <4>2
    <3> QED BY <2>1, <3>1, <3>3, <3>4 DEF Deploying
  <2> QED BY <1>4, <1>6, <2>1, <2>3, <2>4 DEF Inst
<1>7. CASE WorkerStep
  <2>1. UNCHANGED row
    BY <1>7 DEF WorkerStep, masterVars
  <2>2. ASSUME UNCHANGED <<call, pc>>, reports \subseteq reports' PROVE DeployInv'
    BY <1>4, <1>5, <2>1, <2>2
  <2> QED
    BY <1>6, <1>7, <2>1, <2>2, CheckReports DEF WorkerStep, Examine, Checked, Exit, Other
<1>8. ASSUME NEW c \in Calls, NEW o \in Ops, NEW i \in Instances, Sends(c, o, i),
             NEW d \in Calls, Deploying(d)
      PROVE  Deploying(d)' /\ Inst(d)' = Inst(d)
  <2>1. /\ pc[c] = "unused" /\ reports' = reports
        /\ \A e \in Calls \ {c} : pc'[e] = pc[e] /\ call'[e] = call[e]
    BY <1>8, SendsFacts DEF IInv
  <2>2. d # c
    BY <1>8, <2>1 DEF Deploying
  <2> QED BY <1>8, <2>1, <2>2 DEF Deploying, Inst
<1>9. ASSUME NEW c \in Calls, NEW i \in Instances, DeployInstance(c, i) PROVE DeployInv'
  <2>1. Sends(c, "deploy", i) /\ "deploy" \in Ops
    BY <1>9 DEF DeployInstance, Sends, Ops
  <2>2. \A j \in Instances \ {i} : row'[j] = row[j]
    BY <1>9 DEF DeployInstance, RegisterInstance
  <2>3. Inst(c)' = i /\ Deploying(c)'
    <3>1. pc'[c] = "sent" /\ call'[c] = [op |-> "deploy", inst |-> i]
      BY <2>1, SendsFacts DEF IInv
    <3> QED BY <3>1 DEF Inst, Deploying
  <2>4. \A d \in Calls : Deploying(d) => Deploying(d)' /\ Inst(d)' = Inst(d)
    BY <1>8, <2>1
  <2> SUFFICES ASSUME NEW j \in Instances, row'[j].status = "deploying"
               PROVE  \E d \in Calls : Inst(d)' = j /\ Deploying(d)'
    BY DEF DeployInv
  <2>5. CASE j = i
    BY <2>3, <2>5
  <2>6. CASE j # i
    BY <1>3, <2>2, <2>4, <2>6
  <2> QED BY <2>5, <2>6
<1>10. ASSUME NEW c \in Calls, NEW i \in Instances, RegisterExternal(c, i) PROVE DeployInv'
  <2>1. Sends(c, "register", i) /\ "register" \in Ops
    BY <1>10 DEF RegisterExternal, Sends, Ops
  <2>2. \A j \in Instances : row'[j].status = "deploying" => row[j].status = "deploying"
    BY <1>10 DEF RegisterExternal, RegisterInstance, RegistryTypeOK
  <2> QED BY <1>4, <1>8, <2>1, <2>2
<1>11. ASSUME NEW c \in Calls, NEW i \in Instances, NEW o \in Ops, InstanceAction(c, o, i) PROVE DeployInv'
  <2>1. Sends(c, o, i) /\ row' = row
    BY <1>11 DEF InstanceAction, Sends, NamedInv
  <2> QED BY <1>4, <1>8, <2>1
<1>12. ASSUME NEW c \in Calls, NEW i \in Instances, BatchSend(c, i) PROVE DeployInv'
  <2>1. Sends(c, batch.op, i) /\ batch.op \in Ops /\ row' = row
    BY <1>12 DEF BatchSend, Sends, NamedInv, RegistryTypeOK, Ops
  <2> QED BY <1>4, <1>8, <2>1
<1>13. ASSUME NEW o \in Ops, SystemAction(o) \/ CleanCache PROVE DeployInv'
  BY <1>4, <1>5, <1>13 DEF SystemAction, CleanCache
<1>14. ASSUME NEW c \in Calls, Return(c) PROVE DeployInv'
  <2>1. UNCHANGED <<call, pc, reports>>
    BY <1>14 DEF Return
  <2>2. \A j \in Instances : row'[j].status = "deploying" => row[j].status = "deploying"
    BY <1>14
    DEF Return, Succeeded, Failed, RemoveInstance, UpdateInstanceStatus, RegistryTypeOK, NoRow
  <2> QED BY <1>4, <1>5, <2>1, <2>2
<1>15. CASE DeleteRows
  BY <1>4, <1>5, <1>15 DEF DeleteRows, NoRow
<1>16. ASSUME NEW r \in reports, Store(r) PROVE DeployInv'
  <2>1. UNCHANGED <<call, pc, row>> /\ r.half
    BY <1>16 DEF Store
  <2>2. \A q \in reports : ~q.half => q \in reports'
    BY <1>16, <2>1, TakenReports DEF IInv
  <2> QED BY <1>4, <2>1, <2>2 DEF Deploying, Inst
<1>17. ASSUME NEW r \in reports, Apply(r) PROVE DeployInv'
  <2>1. UNCHANGED <<call, pc>> /\ \A q \in reports : q # r => q \in reports'
    BY <1>17, TakenReports DEF IInv
  <2>2. r.inst \in Instances /\ \A j \in Instances \ {r.inst} : row'[j] = row[j]
    BY <1>17 DEF Apply, UpdateRow, RegistryTypeOK, IInv, TypeOK, Report
  <2>3. row'[r.inst].status = "deploying" => r.status = "deploying"
    BY <1>17, <2>2 DEF Apply, UpdateRow, RegistryTypeOK, Registered, NoRow
  <2> SUFFICES ASSUME NEW j \in Instances, row'[j].status = "deploying"
               PROVE  \E c \in Calls : Inst(c)' = j /\ Deploying(c)'
    BY DEF DeployInv
  <2>4. CASE j = r.inst
    <3>1. r.by \in Calls /\ pc[r.by] = "announcing" /\ Inst(r.by) = j
      BY <1>2, <2>3, <2>4 DEF ReportInv
    <3>2. call[r.by].op = "deploy"
      BY <3>1 DEF IInv, LabelInv
    <3> QED BY <2>1, <3>1, <3>2 DEF Deploying, Inst
  <2>5. CASE j # r.inst
    <3>1. PICK c \in Calls : Inst(c) = j /\ Deploying(c)
      BY <1>3, <2>2, <2>5
    <3>2. r.by = c => r.inst = j
      BY <1>2, <3>1 DEF ReportInv
    <3> QED BY <2>1, <2>5, <3>1, <3>2 DEF Deploying, Inst
  <2> QED BY <2>4, <2>5
<1>18. CASE MasterStep
  <2>1. "stop" \in Ops
    BY DEF Ops
  <2> QED
    BY <1>9, <1>10, <1>11, <1>12, <1>13, <1>14, <1>15, <1>16, <1>17, <1>18, <2>1 DEF MasterStep
<1> QED BY <1>2, <1>7, <1>18

-----------------------------------------------------------------------------
\* The invariant holds when nothing has been commanded yet ...
LEMMA InitLifecycle == LifecycleInit => LifecycleIInv
<1> SUFFICES ASSUME LifecycleInit PROVE LifecycleIInv
  OBVIOUS
<1>1. IInv
  BY InitIInv DEF LifecycleInit
<1>2. RegistryTypeOK /\ faulted \in BOOLEAN
  BY DEF LifecycleInit, InitMaster, RegistryTypeOK, NoBatch
<1>3. \A c \in Calls : pc[c] = "unused"
  BY DEF LifecycleInit, InitWorker
<1>4. \A i \in Instances : row[i] = NoRow
  BY DEF LifecycleInit, InitMaster
<1>5. batch.targets = {} /\ reports = {}
  BY DEF LifecycleInit, InitMaster, InitWorker, NoBatch
<1>6. NamedInv /\ ReportInv
  BY <1>4, <1>5 DEF NamedInv, ReportInv, Registered
<1>7. HurryInv /\ GoneInv /\ DeployInv
  BY <1>3, <1>4 DEF HurryInv, GoneInv, DeployInv, Pending, Destroyed, NoRow
<1>8. AnswerInv
  BY DEF LifecycleInit, InitWorker, AnswerInv
<1> QED BY <1>1, <1>2, <1>6, <1>7, <1>8 DEF LifecycleIInv

\* ... and every step keeps each part of it.
LEMMA NextLifecycle == ASSUME LifecycleIInv, [LifecycleNext]_vars PROVE LifecycleIInv'
<1>1. IInv' /\ RegistryTypeOK' /\ faulted' \in BOOLEAN
  BY WorkerStays, RegistryStays
<1>2. NamedInv' /\ HurryInv' /\ AnswerInv' /\ GoneInv'
  BY NamedStays, HurryStays, AnswerStays, GoneInvStays
<1>3. ReportInv' /\ DeployInv'
  BY ReportStays, DeployStays
<1> QED BY <1>1, <1>2, <1>3 DEF LifecycleIInv

\* The inductive invariant of master and worker.
THEOREM InductiveLifecycle == LifecycleSpec => []LifecycleIInv
<1>1. LifecycleIInv /\ [LifecycleNext]_vars => LifecycleIInv'
  BY NextLifecycle
<1> QED BY InitLifecycle, <1>1, PTL DEF LifecycleSpec

\* The types of master and worker, and: until something fails, a row says
\* "deploying" only while its deployment is on its way (DeployInstance).
THEOREM DeploymentsEnd == LifecycleSpec => []LifecycleInv
<1>1. ASSUME LifecycleIInv PROVE LifecycleInv
  <2>1. DeployUnderWay
    <3> SUFFICES ASSUME ~faulted, NEW i \in Instances, row[i].status = "deploying"
                 PROVE  \E c \in Calls : call[c] = [op |-> "deploy", inst |-> i] /\ c \in Pending(i)
      BY DEF DeployUnderWay
    <3>1. PICK c \in Calls : Inst(c) = i /\ Deploying(c)
      BY <1>1 DEF LifecycleIInv, DeployInv
    <3>2. call[c] = [op |-> "deploy", inst |-> i]
      <4>1. call[c] \in [op : Ops, inst : Instances] /\ call[c].op = "deploy" /\ call[c].inst = i
        BY <1>1, <3>1 DEF LifecycleIInv, IInv, TypeOK, Deploying, Inst
      <4> QED BY <4>1
    <3>3. c \in Pending(i)
      BY <3>1 DEF Deploying, Pending, Inst
    <3> QED BY <3>2, <3>3
  <2> QED BY <1>1, <2>1 DEF LifecycleInv, LifecycleTypeOK, LifecycleIInv, IInv
<1> QED BY InductiveLifecycle, <1>1, PTL

\* A report, however late, never brings a removed instance back: UPDATEs change
\* no row that is gone (UpdateInstanceFullStatus, UpdateInstanceStatus).
THEOREM NoneReturns == LifecycleSpec => NoResurrection
<1> DEFINE A == \A i \in Instances : row[i] = NoRow /\ row'[i] # NoRow => ~Named(i)
<1>1. ASSUME LifecycleIInv, [LifecycleNext]_vars PROVE A
  BY <1>1, RowsAppear DEF Registered
<1> QED BY InductiveLifecycle, <1>1, PTL DEF LifecycleSpec, NoResurrection

\* The master forgets a packaged instance whose destroy succeeded, and which was
\* never commanded in a hurry, only when nothing of it is left on the machine
\* (InstanceAction, HandleAction).
THEOREM ForgottenIsGone == LifecycleSpec => DestroyedIsGone
<1> DEFINE A == \A c \in Calls :
                   LET i == call[c].inst IN
                   /\ task[c] = "waiting" /\ task'[c] = "returned"
                   /\ Registered(i) /\ row'[i] = NoRow
                   /\ i \in Packaged \ (overlap \cup hurried)
                   => dir[i] = "none" /\ Procs(i) = {}
<1>1. ASSUME LifecycleIInv, [LifecycleNext]_vars PROVE A
  <2> SUFFICES ASSUME NEW c \in Calls, task[c] = "waiting", task'[c] = "returned",
                      Registered(Inst(c)), row'[Inst(c)] = NoRow,
                      Inst(c) \in Packaged \ (overlap \cup hurried)
               PROVE  dir[Inst(c)] = "none" /\ Procs(Inst(c)) = {}
    BY DEF Inst
  <2> USE DEF LifecycleIInv
  <2>1. Return(c) \/ TimeOut(c)
    <3>1. ASSUME UNCHANGED task PROVE FALSE
      BY <3>1
    <3>2. ASSUME NEW d \in Calls, NEW o \in Ops, NEW j \in Instances, Command(d, o, j) PROVE FALSE
      BY <1>1, <3>2 DEF Command, Issue, IInv, TypeOK, RegistryTypeOK
    <3>3. ASSUME NEW d \in Calls, d # c, Return(d) \/ TimeOut(d) PROVE FALSE
      BY <1>1, <3>3 DEF Return, TimeOut, RegistryTypeOK
    <3>4. CASE Works
      BY <3>1, <3>4 DEF Works, masterVars
    <3>5. CASE Clerical
      BY <3>1, <3>3, <3>5
      DEF Clerical, SystemAction, CleanCache, DeleteRows, Apply, Store, Lose
    <3>6. CASE UNCHANGED vars
      BY <3>1, <3>6 DEF vars
    <3>7. ASSUME NEW d \in Calls, NEW o \in Ops, NEW j \in Instances, Sends(d, o, j) PROVE FALSE
      BY <3>2, <3>7 DEF Sends
    <3> QED BY <1>1, <3>4, <3>5, <3>6, <3>7, Steps
  <2>2. ASSUME Failed(c) PROVE FALSE
    <3>1. PICK i \in Instances : i = Inst(c)
      BY <1>1 DEF Inst, IInv, TypeOK
    <3>2. row'[i] = row[i] \/ row'[i] = [status |-> "error", pid |-> 0]
      BY <1>1, <2>2, <3>1 DEF Failed, UpdateInstanceStatus, RegistryTypeOK, Inst
    <3> QED BY <3>1, <3>2 DEF Registered, NoRow
  <2>3. Return(c) /\ answer[c] = "ok" /\ Succeeded(c)
    BY <2>1, <2>2 DEF Return, TimeOut
  <2>4. call[c].op = "destroy"
    BY <2>3 DEF Succeeded, Registered, Inst
  <2>5. Destroyed(c)
    BY <1>1, <2>3, <2>4 DEF AnswerInv, Destroyed
  <2> QED BY <1>1, <2>5 DEF GoneInv, Gone, Untouched
<1> QED BY InductiveLifecycle, <1>1, PTL DEF LifecycleSpec, DestroyedIsGone

-----------------------------------------------------------------------------
(***************************************************************************)
(* What the worker promises alone it keeps beside the master: the master   *)
(* is one of its clients, and may lose or delay what a client would take.  *)
(***************************************************************************)

\* Every process has its pid file and its directory, with the real master too.
THEOREM HeldBesideMaster == LifecycleSpec => [](Tracked /\ NoProcessWithoutFiles)
<1>1. LifecycleIInv => Tracked /\ NoProcessWithoutFiles
  BY FilesHold DEF LifecycleIInv, IInv
<1> QED BY InductiveLifecycle, <1>1, PTL

\* Nor does the worker kill anything else, whatever the master sends.
THEOREM KillsFittingBesideMaster == ASSUME PidReuse = FALSE PROVE LifecycleSpec => []KillsFitting
<1>1. LifecycleInit => OwnInv
  BY DEF LifecycleInit, InitWorker, OwnInv
<1>2. LifecycleIInv /\ OwnInv /\ [LifecycleNext]_vars => OwnInv'
  <2>1. OwnInv /\ Aside => OwnInv'
    BY DEF OwnInv, Aside, Inst
  <2> QED BY <2>1, WorkerView, OwnStep DEF LifecycleIInv, IInv
<1>3. OwnInv => KillsFitting
  BY DEF OwnInv, KillsFitting
<1> QED BY InductiveLifecycle, <1>1, <1>2, <1>3, PTL DEF LifecycleSpec

\* Master, worker and network together implement what an operator may rely on
\* (module Supervisor): every step of theirs is one of its steps, or none.
THEOREM PromiseBesideMaster == LifecycleSpec => ImplementsPromise
<1>1. LifecycleInit => Promise!Init
  <2> SUFFICES ASSUME LifecycleInit PROVE Promise!Init
    OBVIOUS
  <2>1. \A i \in Packaged : i \notin overlap /\ Procs(i) = {} /\ dir[i] = "none"
    BY ExecutorAssumption DEF LifecycleInit, InitWorker, Procs, Packaged
  <2>2. Described
    BY InitIInv, StandingIs DEF LifecycleInit
  <2> QED BY <2>1, <2>2 DEF Promise!Init, Described, Stand
<1>2. LifecycleIInv => Described
  BY StandingIs DEF LifecycleIInv
<1>3. LifecycleIInv /\ Described /\ Described' /\ [LifecycleNext]_vars => [Promise!Next]_Standings
  <2>1. ASSUME Described, Described', Aside PROVE [Promise!Next]_Standings
    BY <2>1, Quiet DEF Aside
  <2> QED BY <2>1, WorkerView, RefineStep DEF LifecycleIInv
<1> QED
  BY <1>1, <1>2, <1>3, InductiveLifecycle, PTL
  DEF LifecycleSpec, ImplementsPromise, Promise!Spec, Standings
=============================================================================
