------------------------- MODULE InstanceLifecycle -------------------------
(***************************************************************************)
(* The master and one worker together: what the row says about the process *)
(* on the other machine.                                                   *)
(***************************************************************************)
EXTENDS InstanceRegistry

CONSTANT
    Faulty     \* can requests, reports and the worker itself be lost?

ASSUME LifecycleAssumption == Faulty \in BOOLEAN

VARIABLE
    faulted    \* ghost: has a fault happened?

masterVars == <<row, metrics, task, batch, purge, hurried>>
vars == <<call, pc, pid, answer, dir, pidFile, live, mon, reports, overlap,
          row, metrics, task, batch, purge, hurried, faulted>>

LifecycleTypeOK == TypeOK /\ RegistryTypeOK /\ faulted \in BOOLEAN

LifecycleInit == InitWorker /\ InitMaster /\ faulted = FALSE

Fault ==
    \/ Crash /\ UNCHANGED masterVars
    \/ \E c \in Calls : \/ Undelivered(c) /\ UNCHANGED masterVars
                        \/ TimeOut(c)
    \/ \E r \in reports : \/ GiveUp(r) /\ UNCHANGED masterVars
                          \/ Lose(r)

WorkerStep ==
    /\ \/ \E c \in Calls : Handler(c)
       \/ \E i \in Instances : Examine(i)
       \/ Check \/ Checked
       \/ \E p \in Pids : Exit(p) \/ Other(p)
    /\ UNCHANGED masterVars

MasterStep ==
    \/ \E c \in Calls, i \in Instances :
          \/ DeployInstance(c, i) \/ RegisterExternal(c, i)
          \/ \E o \in Ops : InstanceAction(c, o, i)
          \/ BatchSend(c, i)
    \/ \E o \in Ops : SystemAction(o)
    \/ \E c \in Calls : Return(c)
    \/ CleanCache \/ DeleteRows
    \/ \E r \in reports : Apply(r) \/ Store(r)

LifecycleNext ==
    \/ (WorkerStep \/ MasterStep) /\ UNCHANGED faulted
    \/ Faulty /\ Fault /\ faulted' = TRUE

LifecycleSpec == LifecycleInit /\ [][LifecycleNext]_vars

-----------------------------------------------------------------------------
(***************************************************************************)
(* Fairness: handlers and the monitor run; the master processes what it    *)
(* receives.  Strong for the monitor, whose rounds a crash can cut and     *)
(* whose reports can be lost, but not all of them.  A download may never   *)
(* end: its client has no timeout.                                         *)
(***************************************************************************)
Quietly(A) == A /\ UNCHANGED masterVars /\ UNCHANGED faulted

Applied(r) == Apply(r) /\ UNCHANGED faulted

Fairness ==
    /\ \A c \in Calls : WF_vars(pc[c] # "fetch" /\ Quietly(Handler(c)))
    /\ \A i \in Instances : SF_vars(Quietly(Examine(i)))
    /\ SF_vars(Quietly(Check)) /\ WF_vars(Quietly(Checked))
    /\ SF_vars(\E r \in reports : r.by = Monitor /\ Applied(r))
    /\ WF_vars(\E r \in reports : Applied(r) \/ (Store(r) /\ UNCHANGED faulted))
    /\ WF_vars(\E r \in reports : r.by = Late /\ Applied(r))

FairSpec == LifecycleSpec /\ Fairness

-----------------------------------------------------------------------------
(***************************************************************************)
(* Properties                                                              *)
(***************************************************************************)

\* When the master forgets a packaged instance because its destroy succeeded,
\* and no command on it was sent before the previous one had ended (a destroy can
\* overtake the deploy it is meant to undo), the worker has neither a process nor
\* a directory of it left.
DestroyedIsGone ==
    [][\A c \in Calls :
          LET i == call[c].inst IN
          /\ task[c] = "waiting" /\ task'[c] = "returned"
          /\ Registered(i) /\ row'[i] = NoRow
          /\ i \in Packaged \ (overlap \cup hurried)
          => dir[i] = "none" /\ Procs(i) = {}]_vars

\* A late report never brings a removed instance back: a row that is gone
\* appears again only for an instance that was never named before.
NoResurrection ==
    [][\A i \in Instances : row[i] = NoRow /\ row'[i] # NoRow => ~Named(i)]_vars

\* A process that died and stays dead, its pid file left behind, ends up shown
\* as not running, however reports are lost, delayed or reordered: the monitor
\* repeats itself until the row is right, and a stale report is corrected.
CrashNoticed ==
    \A i \in Packaged :
        <>[](pidFile[i] # 0 /\ live[pidFile[i]] = "free") => <>[](row[i].status # "running")

\* A process that keeps running under its pid file ends up shown as running,
\* unless the row is gone.
RunShown ==
    \A i \in Packaged :
        <>[](pidFile[i] # 0 /\ live[pidFile[i]] # "free")
            => <>[](row[i] = NoRow \/ row[i] = [status |-> "running", pid |-> pidFile[i]])

\* What the master shows of an instance ends up agreeing with its process, either way.
RowFollows == CrashNoticed /\ RunShown

\* Until something fails a row says "deploying" only while a deployment of the
\* instance is on its way: the worker reports the end of it in every case.
DeployUnderWay ==
    ~faulted =>
        \A i \in Instances : row[i].status = "deploying" =>
            \E c \in Calls : /\ call[c] = [op |-> "deploy", inst |-> i]
                             /\ c \in Pending(i) \/ task[c] = "waiting"

\* The invariant of master and worker: their types, and deployments that end.
LifecycleInv == LifecycleTypeOK /\ DeployUnderWay

\* The monitor's comment says that an instance without a pid file is stopped:
\* the row then should not go on saying that it runs.
StopShown ==
    \A i \in Instances :
        <>[](dir[i] # "none" /\ pidFile[i] = 0 /\ Procs(i) = {})
            => <>[](row[i].status # "running")
=============================================================================
