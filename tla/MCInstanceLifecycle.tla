------------------------ MODULE MCInstanceLifecycle ------------------------
\* Small instances of the master with one worker.
EXTENDS InstanceLifecycle, TLC

CONSTANTS c0, c1, c2, pkg, ext

\* The pid of the adopted service is looked up and nobody else's process fits it.
LookedUp == [i \in External |-> {}]

Symmetry == Permutations({c1, c2})

\* A reachable state to start from: pkg was installed, runs as pid 1 and is shown
\* running, nothing is under way, and c0 stands for the calls made.
InitUp ==
    /\ call    = [c \in Calls |-> [op |-> "deploy", inst |-> pkg]]
    /\ pc      = [c \in Calls |-> IF c = c0 THEN "ended" ELSE "unused"]
    /\ pid     = [c \in Calls |-> 0]
    /\ answer  = [c \in Calls |-> "none"]
    /\ dir     = [i \in Instances |-> IF i = pkg THEN "ready" ELSE "none"]
    /\ pidFile = [i \in Instances |-> IF i = pkg THEN 1 ELSE 0]
    /\ live    = [p \in Pids |-> IF p = 1 THEN pkg ELSE "free"]
    /\ mon     = MonIdle
    /\ reports = {}
    /\ overlap = {}
    /\ row     = [i \in Instances |-> IF i = pkg THEN [status |-> "running", pid |-> 1]
                                                 ELSE NoRow]
    /\ metrics = {pkg}
    /\ batch   = NoBatch
    /\ task    = [c \in Calls |-> IF c = c0 THEN "returned" ELSE "idle"]
    /\ purge   = "idle"
    /\ hurried = {}
    /\ faulted = FALSE

\* Two commands, from nothing, or on an instance that runs and whose system nobody
\* deletes: c0 is not issued.
TwoCommands == pc'[c0] = pc[c0] /\ (pc[c0] = "ended" => UNCHANGED purge)

TwoSpec == (LifecycleInit \/ InitUp) /\ [][LifecycleNext /\ TwoCommands]_vars

UpFairSpec == InitUp /\ [][LifecycleNext]_vars /\ Fairness

\* ... and the operator does nothing but stop it.
OnlyStops ==
    /\ purge = "idle"
    /\ \A c \in Calls \ {c0} : pc[c] # "unused" => call[c].op = "stop"

StopSpec == InitUp /\ [][LifecycleNext /\ OnlyStops']_vars /\ Fairness
=============================================================================
