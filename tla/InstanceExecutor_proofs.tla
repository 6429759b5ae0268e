---------------------- MODULE InstanceExecutor_proofs ----------------------
(***************************************************************************)
(* For any number of calls, instances and pids, with pid reuse and worker  *)
(* crashes: an instance whose calls do not overlap is never lost from view *)
(* (Tracked), a stop that succeeds leaves no process (StopStops), and the  *)
(* whole implements the promise of Supervisor (Refinement).  Without pid   *)
(* reuse a process that is killed is the instance's own, or one that the   *)
(* look-up of an adopted service takes for it (KillsFitting).              *)
(***************************************************************************)
EXTENDS InstanceExecutor, TLAPS

\* Only adopted services are looked up.
LEMMA MatchedAdopted == Matched \subseteq External
BY AlikeAssumption

\* An instance nobody has named is not on the machine.  Its deploy, the only
\* one it will ever have, finds it so, whatever arrives before.
Untouched(i) == dir[i] = "none" /\ Procs(i) = {}

FreshInv ==
    /\ \A i \in Packaged : ~Named(i) => Untouched(i)
    /\ \A c, d \in Calls :
          /\ pc[c] # "unused" /\ pc[d] # "unused"
          /\ call[c].op = "deploy" /\ call[d].op = "deploy" /\ Inst(c) = Inst(d)
          => c = d
    /\ \A c \in Calls :
          /\ call[c].op = "deploy" /\ pc[c] \in {"sent", "announce", "announcing", "fetch"}
          => Untouched(Inst(c)) /\ Inst(c) \in Packaged /\ Active(Inst(c)) \subseteq {c}

\* What a handler is doing, and for whom.
LabelInv ==
    \A c \in Calls :
        /\ pc[c] \in {"announce", "announcing", "fetch", "unpack"} => call[c].op = "deploy"
        /\ pc[c] = "match" => Inst(c) \in External
        /\ pc[c] # "unused" /\ call[c].op = "register" => Inst(c) \in External

\* Only a start gets as far as a process of its own.
StartInv == \A c \in Calls : pc[c] \in {"spawn", "match", "writepid"} => call[c].op = "start"

\* There is no pid file without a directory.
FileInv == \A i \in Instances : dir[i] = "none" => pidFile[i] = NoPid

\* Without overlap, a handler is alone on its instance ...
AloneInv ==
    \A c, d \in Calls :
        /\ pc[c] \in Working /\ pc[d] \in Working
        /\ Inst(c) = Inst(d) /\ Inst(c) \notin overlap
        => c = d

\* ... and knows at each label where the instance's process is.
KnowsInv ==
    \A c \in Calls :
        pc[c] \in Working /\ Inst(c) \in Packaged /\ Inst(c) \notin overlap =>
            /\ pc[c] \in {"announce", "announcing", "fetch", "unpack", "spawn", "rmpid", "rmdir"}
                  => Procs(Inst(c)) = {}
            /\ pc[c] = "readpid" => \A p \in Procs(Inst(c)) : pidFile[Inst(c)] = p
            /\ pc[c] \in {"kill", "writepid"} => \A p \in Procs(Inst(c)) : pid[c] = p
            /\ pc[c] \notin {"announce", "announcing", "fetch"} => dir[Inst(c)] # "none"

IInv == TypeOK /\ FreshInv /\ LabelInv /\ StartInv /\ FileInv /\ AloneInv /\ KnowsInv /\ Tracked

-----------------------------------------------------------------------------
\* What a sent report is made of.
LEMMA SendType ==
    ASSUME TypeOK, NEW s \in Senders, NEW i \in Instances, NEW st \in Statuses,
           NEW p \in Pids \cup {NoPid}, Send(s, i, st, p)
    PROVE  reports' \subseteq Report
<1> DEFINE r == [by |-> s, inst |-> i, status |-> st, pid |-> p, half |-> FALSE]
<1>1. r \in Report
  BY DEF Report
<1>2. reports' = reports \cup {r}
  BY DEF Send
<1> HIDE DEF r
<1> QED BY <1>1, <1>2 DEF TypeOK

\* A refused call keeps its types ...
LEMMA RefuseType ==
    ASSUME TypeOK, NEW c \in Calls, Refuse(c)
    PROVE  /\ reports' \subseteq Report
           /\ answer' \in [Calls -> {"none", "ok", "error"}]
           /\ pid' \in [Calls -> Pids \cup {NoPid}]
           /\ pc' \in [Calls -> {"unused", "sent", "reporting", "ended", "lost"} \cup Working]
BY DEF TypeOK, Refuse, Goto

\* ... and so does one that reports its outcome.
LEMMA FinishType ==
    ASSUME TypeOK, NEW c \in Calls, NEW st \in Statuses, NEW p \in Pids \cup {NoPid},
           Finish(c, st, p)
    PROVE  /\ reports' \subseteq Report
           /\ answer' \in [Calls -> {"none", "ok", "error"}]
           /\ pid' \in [Calls -> Pids \cup {NoPid}]
           /\ pc' \in [Calls -> {"unused", "sent", "reporting", "ended", "lost"} \cup Working]
<1>1. c \in Senders /\ Inst(c) \in Instances
  BY DEF Senders, TypeOK, Inst
<1>2. reports' \subseteq Report
  BY <1>1, SendType DEF Finish
<1> QED BY <1>2 DEF TypeOK, Finish, Goto

\* Every step keeps the types.
LEMMA TypeStep == ASSUME TypeOK, [Next]_workerVars PROVE TypeOK'
<1> SUFFICES ASSUME Next PROVE TypeOK'
  BY DEF TypeOK, workerVars
<1>1. ASSUME NEW c \in Calls, ReceiveDeploy(c) PROVE TypeOK'
  BY <1>1, RefuseType, FinishType DEF TypeOK, ReceiveDeploy, Goto, Arrive, Inst, Working, Statuses
<1>2. ASSUME NEW c \in Calls, ReceiveRegister(c) PROVE TypeOK'
  <2>1. dir' \in [Instances -> {"none", "partial", "ready"}]
    <3>1. dir' \in {dir, [dir EXCEPT ![Inst(c)] = "partial"], [dir EXCEPT ![Inst(c)] = "ready"]}
      BY <1>2 DEF ReceiveRegister
    <3> QED BY <3>1 DEF TypeOK
  <2>2. answer' \in [Calls -> {"none", "ok", "error"}]
    <3>1. answer' \in {[answer EXCEPT ![c] = "ok"], [answer EXCEPT ![c] = "error"]}
      BY <1>2 DEF ReceiveRegister
    <3> QED BY <3>1 DEF TypeOK
  <2> QED BY <1>2, <2>1, <2>2 DEF TypeOK, ReceiveRegister, Goto, Arrive, Inst
<1>3. ASSUME NEW c \in Calls, ReceiveStart(c) PROVE TypeOK'
  <2>1. CASE Refuse(c)
    BY <1>3, <2>1, RefuseType DEF TypeOK, ReceiveStart, Arrive, Inst
  <2>2. CASE Finish(c, "running", pidFile[Inst(c)])
    <3>1. pidFile[Inst(c)] \in Pids \cup {NoPid} /\ "running" \in Statuses
      BY DEF TypeOK, Inst, Statuses
    <3> QED BY <1>3, <2>2, <3>1, FinishType DEF TypeOK, ReceiveStart, Arrive, Inst
  <2>3. CASE Goto(c, "spawn") /\ UNCHANGED <<answer, reports, pid>>
    BY <1>3, <2>3 DEF TypeOK, ReceiveStart, Arrive, Inst, Goto, Working
  <2> QED BY <1>3, <2>1, <2>2, <2>3 DEF ReceiveStart
<1>4. ASSUME NEW c \in Calls, ReceiveStop(c) PROVE TypeOK'
  BY <1>4, RefuseType, FinishType DEF TypeOK, ReceiveStop, Goto, Arrive, Inst, Working, Statuses
<1>5. ASSUME NEW c \in Calls, Announce(c) PROVE TypeOK'
  <2>1. c \in Senders /\ Inst(c) \in Instances /\ "deploying" \in Statuses
    BY DEF TypeOK, Inst, Senders, Statuses
  <2>2. reports' \subseteq Report
    BY <1>5, <2>1, SendType DEF Announce
  <2> QED BY <1>5, <2>2 DEF TypeOK, Announce, Goto, Working
<1>6. ASSUME NEW c \in Calls, Announced(c) PROVE TypeOK'
  BY <1>6, RefuseType, FinishType DEF TypeOK, Announced, Goto, Arrive, Inst, Working, Statuses
<1>7. ASSUME NEW c \in Calls, Fetch(c) PROVE TypeOK'
  <2>1. CASE Finish(c, "error", NoPid) /\ UNCHANGED <<dir, pidFile>>
    BY <1>7, <2>1, FinishType DEF TypeOK, Fetch, Statuses
  <2>2. CASE /\ dir'     = [dir EXCEPT ![Inst(c)] = "partial"]
             /\ pidFile' = [pidFile EXCEPT ![Inst(c)] = NoPid]
             /\ Goto(c, "unpack")
             /\ UNCHANGED <<answer, reports, pid>>
    BY <1>7, <2>2 DEF TypeOK, Fetch, Goto, Working
  <2> QED BY <1>7, <2>1, <2>2 DEF Fetch
<1>8. ASSUME NEW c \in Calls, Unpack(c) PROVE TypeOK'
  BY <1>8, RefuseType, FinishType DEF TypeOK, Unpack, Goto, Arrive, Inst, Working, Statuses
<1>9. ASSUME NEW c \in Calls, Spawn(c) PROVE TypeOK'
  <2>1. CASE Refuse(c) /\ UNCHANGED live
    BY <1>9, <2>1, RefuseType DEF TypeOK, Spawn
  <2>2. ASSUME NEW p \in Pids,
               live' = [live EXCEPT ![p] = Inst(c)],
               pid'  = [pid EXCEPT ![c] = IF Inst(c) \in Matched THEN NoPid ELSE p],
               Goto(c, IF Inst(c) \in Matched THEN "match" ELSE "writepid"),
               UNCHANGED <<answer, reports>>
        PROVE  TypeOK'
    <3>1. live' \in [Pids -> Instances \cup {"free", Foreign}]
      BY <2>2 DEF TypeOK, Inst
    <3>2. pid' \in [Calls -> Pids \cup {NoPid}]
      BY <2>2 DEF TypeOK
    <3>3. pc' \in [Calls -> {"unused", "sent", "reporting", "ended", "lost"} \cup Working]
      BY <2>2 DEF TypeOK, Goto, Working
    <3> QED BY <1>9, <2>2, <3>1, <3>2, <3>3 DEF TypeOK, Spawn
  <2> QED BY <1>9, <2>1, <2>2 DEF Spawn
<1>10. ASSUME NEW c \in Calls, Match(c) PROVE TypeOK'
  <2>1. CASE Refuse(c)
    BY <1>10, <2>1, RefuseType DEF TypeOK, Match
  <2>2. ASSUME NEW p \in Pids, pid' = [pid EXCEPT ![c] = p],
               Goto(c, "writepid"), UNCHANGED <<answer, reports>>
        PROVE  TypeOK'
    BY <1>10, <2>2 DEF TypeOK, Match, Goto, Working
  <2> QED BY <1>10, <2>1, <2>2 DEF Match
<1>11. ASSUME NEW c \in Calls, WritePid(c) PROVE TypeOK'
  <2>1. /\ pid[c] \in Pids \cup {NoPid} /\ "running" \in Statuses
        /\ Finish(c, "running", pid[c])
        /\ UNCHANGED <<call, dir, live, mon, overlap>>
    BY <1>11 DEF TypeOK, WritePid, Statuses
  <2>2. pidFile' \in [Instances -> Pids \cup {NoPid}]
    BY <1>11, <2>1 DEF TypeOK, WritePid
  <2> QED BY <2>1, <2>2, FinishType DEF TypeOK
<1>12. ASSUME NEW c \in Calls, ReadPid(c) PROVE TypeOK'
  BY <1>12 DEF TypeOK, ReadPid, Goto, Inst, Working
<1>13. ASSUME NEW c \in Calls, Kill(c) PROVE TypeOK'
  BY <1>13 DEF TypeOK, Kill, Goto, Working
<1>14. ASSUME NEW c \in Calls, RmPid(c) PROVE TypeOK'
  <2>1. /\ pidFile' \in [Instances -> Pids \cup {NoPid}]
        /\ UNCHANGED <<call, dir, live, mon, overlap>>
    BY <1>14 DEF TypeOK, RmPid
  <2>2. CASE Finish(c, "stopped", NoPid)
    BY <2>1, <2>2, FinishType DEF TypeOK, Statuses
  <2>3. CASE Goto(c, "rmdir") /\ UNCHANGED <<answer, reports, pid>>
    BY <2>1, <2>3 DEF TypeOK, Goto, Working
  <2> QED BY <1>14, <2>2, <2>3 DEF RmPid
<1>15. ASSUME NEW c \in Calls, RmDir(c) PROVE TypeOK'
  <2>1. /\ dir' \in [Instances -> {"none", "partial", "ready"}]
        /\ pidFile' \in [Instances -> Pids \cup {NoPid}]
        /\ UNCHANGED <<call, live, mon, overlap>>
    BY <1>15 DEF TypeOK, RmDir
  <2>2. CASE Finish(c, "destroyed", NoPid)
    BY <2>1, <2>2, FinishType DEF TypeOK, Statuses
  <2>3. CASE Refuse(c)
    BY <2>1, <2>3, RefuseType DEF TypeOK
  <2> QED BY <1>15, <2>2, <2>3 DEF RmDir
<1>16. ASSUME NEW c \in Calls, Reported(c) PROVE TypeOK'
  BY <1>16 DEF TypeOK, Reported, Goto, Working
<1>17. ASSUME NEW c \in Calls, Undelivered(c) PROVE TypeOK'
  BY <1>17 DEF TypeOK, Undelivered, Goto, Working
<1>18. ASSUME NEW r \in reports, GiveUp(r) PROVE TypeOK'
  BY <1>18 DEF TypeOK, GiveUp, Report, Senders
<1>19. ASSUME NEW i \in Instances, Examine(i) PROVE TypeOK'
  BY <1>19 DEF TypeOK, Examine
<1>20. CASE Check
  <2>1. mon.inst \in Instances /\ mon.pid \in Pids
    BY <1>20 DEF TypeOK, Check, MonIdle
  <2>2. Monitor \in Senders /\ {"stopped", "running"} \subseteq Statuses
    BY DEF Senders, Statuses
  <2>3. reports' \subseteq Report
    BY <1>20, <2>1, <2>2, SendType DEF Check
  <2>4. mon' \in [at : {"check", "reporting"}, inst : Instances, pid : Pids]
    BY <1>20 DEF TypeOK, Check, MonIdle
  <2> QED BY <1>20, <2>3, <2>4 DEF TypeOK, Check
<1>21. CASE Checked
  BY <1>21 DEF TypeOK, Checked
<1>22. ASSUME NEW p \in Pids, Exit(p) \/ Other(p) PROVE TypeOK'
  BY <1>22 DEF TypeOK, Exit, Other
<1>23. CASE Crash
  BY <1>23 DEF TypeOK, Crash, Report, Senders
<1>24. ASSUME NEW c \in Calls, Client(c) PROVE TypeOK'
  BY <1>24 DEF TypeOK, Client, Issue, Goto
<1>25. ASSUME NEW r \in reports, Taken(r) PROVE TypeOK'
  BY <1>25 DEF TypeOK, Taken
<1> QED
  BY <1>1, <1>2, <1>3, <1>4, <1>5, <1>6, <1>7, <1>8, <1>9, <1>10, <1>11, <1>12, <1>13,
     <1>14, <1>15, <1>16, <1>17, <1>18, <1>19, <1>20, <1>21, <1>22, <1>23, <1>24, <1>25
  DEF Next, WorkerNext, Handler

-----------------------------------------------------------------------------
\* WritePid does not write where there is no directory, and whoever removes the
\* directory removes the pid file with it.
LEMMA FileStep == ASSUME IInv, [Next]_workerVars PROVE FileInv'
<1> USE ExecutorAssumption DEF IInv, TypeOK, Inst, Goto, Working, FileInv
<1> SUFFICES ASSUME Next PROVE FileInv'
  BY DEF workerVars
<1>1. ASSUME NEW c \in Calls, ReceiveDeploy(c) PROVE FileInv'
  BY <1>1 DEF ReceiveDeploy, Refuse, Finish, Arrive
<1>2. ASSUME NEW c \in Calls, ReceiveRegister(c) PROVE FileInv'
  BY <1>2 DEF ReceiveRegister, Refuse, Finish, Arrive
<1>3. ASSUME NEW c \in Calls, ReceiveStart(c) PROVE FileInv'
  BY <1>3 DEF ReceiveStart, Refuse, Finish, Arrive
<1>4. ASSUME NEW c \in Calls, ReceiveStop(c) PROVE FileInv'
  BY <1>4 DEF ReceiveStop, Refuse, Finish, Arrive
<1>5. ASSUME NEW c \in Calls, Announce(c) PROVE FileInv'
  BY <1>5 DEF Announce, Refuse, Finish, Arrive
<1>6. ASSUME NEW c \in Calls, Announced(c) PROVE FileInv'
  BY <1>6 DEF Announced, Refuse, Finish, Arrive
<1>7. ASSUME NEW c \in Calls, Fetch(c) PROVE FileInv'
  BY <1>7 DEF Fetch, Refuse, Finish, Arrive
<1>8. ASSUME NEW c \in Calls, Unpack(c) PROVE FileInv'
  BY <1>8 DEF Unpack, Refuse, Finish, Arrive
<1>9. ASSUME NEW c \in Calls, Spawn(c) PROVE FileInv'
  BY <1>9 DEF Spawn, Refuse, Finish, Arrive
<1>10. ASSUME NEW c \in Calls, Match(c) PROVE FileInv'
  BY <1>10 DEF Match, Refuse, Finish, Arrive
<1>11. ASSUME NEW c \in Calls, WritePid(c) PROVE FileInv'
  BY <1>11 DEF WritePid, Refuse, Finish, Arrive
<1>12. ASSUME NEW c \in Calls, ReadPid(c) PROVE FileInv'
  BY <1>12 DEF ReadPid, Refuse, Finish, Arrive
<1>13. ASSUME NEW c \in Calls, Kill(c) PROVE FileInv'
  BY <1>13 DEF Kill, Refuse, Finish, Arrive
<1>14. ASSUME NEW c \in Calls, RmPid(c) PROVE FileInv'
  BY <1>14 DEF RmPid, Refuse, Finish, Arrive
<1>15. ASSUME NEW c \in Calls, RmDir(c) PROVE FileInv'
  BY <1>15 DEF RmDir, Refuse, Finish, Arrive
<1>16. ASSUME NEW c \in Calls, Reported(c) PROVE FileInv'
  BY <1>16 DEF Reported, Refuse, Finish, Arrive
<1>17. ASSUME NEW c \in Calls, Undelivered(c) PROVE FileInv'
  BY <1>17 DEF Undelivered, Refuse, Finish, Arrive
<1>18. ASSUME NEW r \in reports, GiveUp(r) PROVE FileInv'
  BY <1>18 DEF GiveUp
<1>19. ASSUME NEW i \in Instances, Examine(i) PROVE FileInv'
  BY <1>19 DEF Examine
<1>20. CASE Check
  BY <1>20 DEF Check
<1>21. CASE Checked
  BY <1>21 DEF Checked
<1>22. ASSUME NEW p \in Pids, Exit(p) \/ Other(p) PROVE FileInv'
  BY <1>22 DEF Exit, Other
<1>23. CASE Crash
  BY <1>23 DEF Crash
<1>24. ASSUME NEW c \in Calls, Client(c) PROVE FileInv'
  BY <1>24 DEF Client, Issue
<1>25. ASSUME NEW r \in reports, Taken(r) PROVE FileInv'
  BY <1>25 DEF Taken
<1> QED
  BY <1>1, <1>2, <1>3, <1>4, <1>5, <1>6, <1>7, <1>8, <1>9, <1>10, <1>11, <1>12, <1>13,
     <1>14, <1>15, <1>16, <1>17, <1>18, <1>19, <1>20, <1>21, <1>22, <1>23, <1>24, <1>25
  DEF Next, WorkerNext, Handler

\* Handlers reach their labels through their own operation only.
LEMMA LabelStep == ASSUME IInv, [Next]_workerVars PROVE LabelInv'
<1> USE ExecutorAssumption DEF IInv, TypeOK, Inst, Goto, Working, LabelInv
<1> SUFFICES ASSUME Next PROVE LabelInv'
  BY DEF workerVars
<1>1. ASSUME NEW c \in Calls, ReceiveDeploy(c) PROVE LabelInv'
  BY <1>1 DEF ReceiveDeploy, Refuse, Finish, Arrive
<1>2. ASSUME NEW c \in Calls, ReceiveRegister(c) PROVE LabelInv'
  BY <1>2 DEF ReceiveRegister, Refuse, Finish, Arrive
<1>3. ASSUME NEW c \in Calls, ReceiveStart(c) PROVE LabelInv'
  BY <1>3 DEF ReceiveStart, Refuse, Finish, Arrive
<1>4. ASSUME NEW c \in Calls, ReceiveStop(c) PROVE LabelInv'
  BY <1>4 DEF ReceiveStop, Refuse, Finish, Arrive
<1>5. ASSUME NEW c \in Calls, Announce(c) PROVE LabelInv'
  BY <1>5 DEF Announce, Refuse, Finish, Arrive
<1>6. ASSUME NEW c \in Calls, Announced(c) PROVE LabelInv'
  BY <1>6 DEF Announced, Refuse, Finish, Arrive
<1>7. ASSUME NEW c \in Calls, Fetch(c) PROVE LabelInv'
  BY <1>7 DEF Fetch, Refuse, Finish, Arrive
<1>8. ASSUME NEW c \in Calls, Unpack(c) PROVE LabelInv'
  BY <1>8 DEF Unpack, Refuse, Finish, Arrive
<1>9. ASSUME NEW c \in Calls, Spawn(c) PROVE LabelInv'
  BY <1>9, MatchedAdopted DEF Spawn, Refuse, Finish, Arrive
<1>10. ASSUME NEW c \in Calls, Match(c) PROVE LabelInv'
  BY <1>10 DEF Match, Refuse, Finish, Arrive
<1>11. ASSUME NEW c \in Calls, WritePid(c) PROVE LabelInv'
  BY <1>11 DEF WritePid, Refuse, Finish, Arrive
<1>12. ASSUME NEW c \in Calls, ReadPid(c) PROVE LabelInv'
  BY <1>12 DEF ReadPid, Refuse, Finish, Arrive
<1>13. ASSUME NEW c \in Calls, Kill(c) PROVE LabelInv'
  BY <1>13 DEF Kill, Refuse, Finish, Arrive
<1>14. ASSUME NEW c \in Calls, RmPid(c) PROVE LabelInv'
  BY <1>14 DEF RmPid, Refuse, Finish, Arrive
<1>15. ASSUME NEW c \in Calls, RmDir(c) PROVE LabelInv'
  BY <1>15 DEF RmDir, Refuse, Finish, Arrive
<1>16. ASSUME NEW c \in Calls, Reported(c) PROVE LabelInv'
  BY <1>16 DEF Reported, Refuse, Finish, Arrive
<1>17. ASSUME NEW c \in Calls, Undelivered(c) PROVE LabelInv'
  BY <1>17 DEF Undelivered, Refuse, Finish, Arrive
<1>18. ASSUME NEW r \in reports, GiveUp(r) PROVE LabelInv'
  BY <1>18 DEF GiveUp
<1>19. ASSUME NEW i \in Instances, Examine(i) PROVE LabelInv'
  BY <1>19 DEF Examine
<1>20. CASE Check
  BY <1>20 DEF Check
<1>21. CASE Checked
  BY <1>21 DEF Checked
<1>22. ASSUME NEW p \in Pids, Exit(p) \/ Other(p) PROVE LabelInv'
  BY <1>22 DEF Exit, Other
<1>23. CASE Crash
  BY <1>23 DEF Crash
<1>24. ASSUME NEW c \in Calls, Client(c) PROVE LabelInv'
  BY <1>24 DEF Client, Issue
<1>25. ASSUME NEW r \in reports, Taken(r) PROVE LabelInv'
  BY <1>25 DEF Taken
<1> QED
  BY <1>1, <1>2, <1>3, <1>4, <1>5, <1>6, <1>7, <1>8, <1>9, <1>10, <1>11, <1>12, <1>13,
     <1>14, <1>15, <1>16, <1>17, <1>18, <1>19, <1>20, <1>21, <1>22, <1>23, <1>24, <1>25
  DEF Next, WorkerNext, Handler

\* Only ReceiveStart leads to the labels of StartProcess.
LEMMA StartStep == ASSUME IInv, [Next]_workerVars PROVE StartInv'
<1> USE DEF IInv, TypeOK, Goto, StartInv, Refuse, Finish
<1>1. ASSUME NEW c \in Calls, Handler(c) PROVE StartInv'
  <2>1. call' = call /\ \A d \in Calls \ {c} : pc'[d] = pc[d]
    BY <1>1
    DEF Handler, ReceiveDeploy, ReceiveRegister, ReceiveStart, ReceiveStop, Announce, Announced,
        Fetch, Unpack, Spawn, Match, WritePid, ReadPid, Kill, RmPid, RmDir, Reported
  <2>2. pc'[c] \in {"spawn", "match", "writepid"} =>
          ReceiveStart(c) \/ pc[c] \in {"spawn", "match", "writepid"}
    BY <1>1
    DEF Handler, ReceiveDeploy, ReceiveRegister, ReceiveStop, Announce, Announced,
        Fetch, Unpack, Spawn, Match, WritePid, ReadPid, Kill, RmPid, RmDir, Reported
  <2>3. ReceiveStart(c) => call[c].op = "start"
    BY DEF ReceiveStart
  <2> QED BY <2>1, <2>2, <2>3
<1>2. ASSUME NEW c \in Calls, Undelivered(c) \/ Client(c) PROVE StartInv'
  BY <1>2 DEF Undelivered, Client, Issue
<1>3. CASE Crash
  BY <1>3 DEF Crash, Working
<1>4. CASE UNCHANGED <<call, pc>>
  BY <1>4
<1> QED
  BY <1>1, <1>2, <1>3, <1>4
  DEF Next, WorkerNext, workerVars, GiveUp, Examine, Check, Checked, Exit, Other, Taken

\* A handler that starts working beside another one marks the instance.
LEMMA AloneStep == ASSUME IInv, [Next]_workerVars PROVE AloneInv'
<1> USE ExecutorAssumption DEF IInv, TypeOK, Inst, Goto, Working, AloneInv, Active
<1> SUFFICES ASSUME Next PROVE AloneInv'
  BY DEF workerVars
<1>1. ASSUME NEW c \in Calls, ReceiveDeploy(c) PROVE AloneInv'
  BY <1>1 DEF ReceiveDeploy, Refuse, Finish, Arrive
<1>2. ASSUME NEW c \in Calls, ReceiveRegister(c) PROVE AloneInv'
  BY <1>2 DEF ReceiveRegister, Refuse, Finish, Arrive
<1>3. ASSUME NEW c \in Calls, ReceiveStart(c) PROVE AloneInv'
  BY <1>3 DEF ReceiveStart, Refuse, Finish, Arrive
<1>4. ASSUME NEW c \in Calls, ReceiveStop(c) PROVE AloneInv'
  BY <1>4 DEF ReceiveStop, Refuse, Finish, Arrive
<1>5. ASSUME NEW c \in Calls, Announce(c) PROVE AloneInv'
  BY <1>5 DEF Announce, Refuse, Finish, Arrive
<1>6. ASSUME NEW c \in Calls, Announced(c) PROVE AloneInv'
  BY <1>6 DEF Announced, Refuse, Finish, Arrive
<1>7. ASSUME NEW c \in Calls, Fetch(c) PROVE AloneInv'
  BY <1>7 DEF Fetch, Refuse, Finish, Arrive
<1>8. ASSUME NEW c \in Calls, Unpack(c) PROVE AloneInv'
  BY <1>8 DEF Unpack, Refuse, Finish, Arrive
<1>9. ASSUME NEW c \in Calls, Spawn(c) PROVE AloneInv'
  BY <1>9 DEF Spawn, Refuse, Finish, Arrive
<1>10. ASSUME NEW c \in Calls, Match(c) PROVE AloneInv'
  BY <1>10 DEF Match, Refuse, Finish, Arrive
<1>11. ASSUME NEW c \in Calls, WritePid(c) PROVE AloneInv'
  BY <1>11 DEF WritePid, Refuse, Finish, Arrive
<1>12. ASSUME NEW c \in Calls, ReadPid(c) PROVE AloneInv'
  BY <1>12 DEF ReadPid, Refuse, Finish, Arrive
<1>13. ASSUME NEW c \in Calls, Kill(c) PROVE AloneInv'
  BY <1>13 DEF Kill, Refuse, Finish, Arrive
<1>14. ASSUME NEW c \in Calls, RmPid(c) PROVE AloneInv'
  BY <1>14 DEF RmPid, Refuse, Finish, Arrive
<1>15. ASSUME NEW c \in Calls, RmDir(c) PROVE AloneInv'
  BY <1>15 DEF RmDir, Refuse, Finish, Arrive
<1>16. ASSUME NEW c \in Calls, Reported(c) PROVE AloneInv'
  BY <1>16 DEF Reported, Refuse, Finish, Arrive
<1>17. ASSUME NEW c \in Calls, Undelivered(c) PROVE AloneInv'
  BY <1>17 DEF Undelivered, Refuse, Finish, Arrive
<1>18. ASSUME NEW r \in reports, GiveUp(r) PROVE AloneInv'
  BY <1>18 DEF GiveUp
<1>19. ASSUME NEW i \in Instances, Examine(i) PROVE AloneInv'
  BY <1>19 DEF Examine
<1>20. CASE Check
  BY <1>20 DEF Check
<1>21. CASE Checked
  BY <1>21 DEF Checked
<1>22. ASSUME NEW p \in Pids, Exit(p) \/ Other(p) PROVE AloneInv'
  BY <1>22 DEF Exit, Other
<1>23. CASE Crash
  BY <1>23 DEF Crash
<1>24. ASSUME NEW c \in Calls, Client(c) PROVE AloneInv'
  BY <1>24 DEF Client, Issue
<1>25. ASSUME NEW r \in reports, Taken(r) PROVE AloneInv'
  BY <1>25 DEF Taken
<1> QED
  BY <1>1, <1>2, <1>3, <1>4, <1>5, <1>6, <1>7, <1>8, <1>9, <1>10, <1>11, <1>12, <1>13,
     <1>14, <1>15, <1>16, <1>17, <1>18, <1>19, <1>20, <1>21, <1>22, <1>23, <1>24, <1>25
  DEF Next, WorkerNext, Handler

\* Until its deploy makes a directory, every other call on an instance is refused.
LEMMA FreshStep == ASSUME IInv, [Next]_workerVars PROVE FreshInv'
<1> USE ExecutorAssumption DEF IInv, TypeOK, Inst, Goto, Working, FreshInv, Untouched, Named,
            LabelInv, Active, Procs, Packaged, FileInv
<1> SUFFICES ASSUME Next PROVE FreshInv'
  BY DEF workerVars
<1>1. ASSUME NEW c \in Calls, ReceiveDeploy(c) PROVE FreshInv'
  BY <1>1 DEF ReceiveDeploy, Refuse, Finish, Arrive
<1>2. ASSUME NEW c \in Calls, ReceiveRegister(c) PROVE FreshInv'
  BY <1>2 DEF ReceiveRegister, Refuse, Finish, Arrive
<1>3. ASSUME NEW c \in Calls, ReceiveStart(c) PROVE FreshInv'
  <2>1. CASE dir[Inst(c)] # "ready" /\ Refuse(c)
    BY <1>3, <2>1 DEF ReceiveStart, Refuse, Finish, Arrive, IsRunning
  <2>2. CASE dir[Inst(c)] # "none" /\ IsRunning(Inst(c)) /\ Finish(c, "running", pidFile[Inst(c)])
    BY <1>3, <2>2 DEF ReceiveStart, Refuse, Finish, Arrive, IsRunning
  <2>3. CASE dir[Inst(c)] # "none" /\ ~IsRunning(Inst(c)) /\ Goto(c, "spawn")
             /\ UNCHANGED <<answer, reports, pid>>
    BY <1>3, <2>3 DEF ReceiveStart, Refuse, Finish, Arrive, IsRunning
  <2> QED BY <1>3, <2>1, <2>2, <2>3 DEF ReceiveStart
<1>4. ASSUME NEW c \in Calls, ReceiveStop(c) PROVE FreshInv'
  BY <1>4 DEF ReceiveStop, Refuse, Finish, Arrive
<1>5. ASSUME NEW c \in Calls, Announce(c) PROVE FreshInv'
  BY <1>5 DEF Announce, Refuse, Finish, Arrive
<1>6. ASSUME NEW c \in Calls, Announced(c) PROVE FreshInv'
  BY <1>6 DEF Announced, Refuse, Finish, Arrive
<1>7. ASSUME NEW c \in Calls, Fetch(c) PROVE FreshInv'
  <2>1. CASE Finish(c, "error", NoPid) /\ UNCHANGED <<dir, pidFile>>
    BY <1>7, <2>1 DEF Fetch, Refuse, Finish, Arrive, IsRunning
  <2>2. CASE /\ dir'     = [dir EXCEPT ![Inst(c)] = "partial"]
             /\ pidFile' = [pidFile EXCEPT ![Inst(c)] = NoPid]
             /\ Goto(c, "unpack")
             /\ UNCHANGED <<answer, reports, pid>>
    BY <1>7, <2>2 DEF Fetch, Refuse, Finish, Arrive, IsRunning
  <2> QED BY <1>7, <2>1, <2>2 DEF Fetch
<1>8. ASSUME NEW c \in Calls, Unpack(c) PROVE FreshInv'
  <2>1. ASSUME NEW d \in {"none", "partial", "ready"}, dir' = [dir EXCEPT ![Inst(c)] = d],
               Finish(c, "stopped", NoPid)
        PROVE  FreshInv'
    BY <1>8, <2>1 DEF Unpack, Finish
  <2>2. CASE Finish(c, "error", NoPid) /\ UNCHANGED dir
    BY <1>8, <2>2 DEF Unpack, Finish
  <2> QED BY <1>8, <2>1, <2>2 DEF Unpack
<1>9. ASSUME NEW c \in Calls, Spawn(c) PROVE FreshInv'
  BY <1>9 DEF Spawn, Refuse, Finish, Arrive
<1>10. ASSUME NEW c \in Calls, Match(c) PROVE FreshInv'
  <2>1. pc' = [pc EXCEPT ![c] = "writepid"] \/ pc' = [pc EXCEPT ![c] = "ended"]
    BY <1>10 DEF Match, Refuse
  <2>2. UNCHANGED <<call, dir, pidFile, live, mon, overlap>>
    BY <1>10 DEF Match
  <2> QED BY <1>10, <2>1, <2>2 DEF Match
<1>11. ASSUME NEW c \in Calls, WritePid(c) PROVE FreshInv'
  BY <1>11 DEF WritePid, Refuse, Finish, Arrive
<1>12. ASSUME NEW c \in Calls, ReadPid(c) PROVE FreshInv'
  BY <1>12 DEF ReadPid, Refuse, Finish, Arrive
<1>13. ASSUME NEW c \in Calls, Kill(c) PROVE FreshInv'
  BY <1>13 DEF Kill, Refuse, Finish, Arrive
<1>14. ASSUME NEW c \in Calls, RmPid(c) PROVE FreshInv'
  BY <1>14 DEF RmPid, Refuse, Finish, Arrive
<1>15. ASSUME NEW c \in Calls, RmDir(c) PROVE FreshInv'
  <2>1. CASE /\ dir'     = [dir EXCEPT ![Inst(c)] = "none"]
             /\ pidFile' = [pidFile EXCEPT ![Inst(c)] = NoPid]
             /\ Finish(c, "destroyed", NoPid)
    BY <1>15, <2>1 DEF RmDir, Refuse, Finish, Arrive, IsRunning
  <2>2. CASE /\ dir[Inst(c)] # "none"
             /\ dir' = [dir EXCEPT ![Inst(c)] = "partial"]
             /\ Refuse(c)
             /\ UNCHANGED pidFile
    BY <1>15, <2>2 DEF RmDir, Refuse, Finish, Arrive, IsRunning
  <2> QED BY <1>15, <2>1, <2>2 DEF RmDir
<1>16. ASSUME NEW c \in Calls, Reported(c) PROVE FreshInv'
  BY <1>16 DEF Reported, Refuse, Finish, Arrive
<1>17. ASSUME NEW c \in Calls, Undelivered(c) PROVE FreshInv'
  BY <1>17 DEF Undelivered, Refuse, Finish, Arrive
<1>18. ASSUME NEW r \in reports, GiveUp(r) PROVE FreshInv'
  BY <1>18 DEF GiveUp
<1>19. ASSUME NEW i \in Instances, Examine(i) PROVE FreshInv'
  BY <1>19 DEF Examine
<1>20. CASE Check
  BY <1>20 DEF Check
<1>21. CASE Checked
  BY <1>21 DEF Checked
<1>22. ASSUME NEW p \in Pids, Exit(p) \/ Other(p) PROVE FreshInv'
  BY <1>22 DEF Exit, Other
<1>23. CASE Crash
  BY <1>23 DEF Crash
<1>24. ASSUME NEW c \in Calls, Client(c) PROVE FreshInv'
  BY <1>24 DEF Client, Issue
<1>25. ASSUME NEW r \in reports, Taken(r) PROVE FreshInv'
  BY <1>25 DEF Taken
<1> QED
  BY <1>1, <1>2, <1>3, <1>4, <1>5, <1>6, <1>7, <1>8, <1>9, <1>10, <1>11, <1>12, <1>13,
     <1>14, <1>15, <1>16, <1>17, <1>18, <1>19, <1>20, <1>21, <1>22, <1>23, <1>24, <1>25
  DEF Next, WorkerNext, Handler

\* What a lone handler has seen stays true until it acts on it.
LEMMA KnowsStep == ASSUME IInv, [Next]_workerVars PROVE KnowsInv'
<1> USE ExecutorAssumption DEF IInv, TypeOK, Inst, Goto, Working, KnowsInv, AloneInv, Procs,
            Packaged, Active, Tracked, FreshInv, Untouched, LabelInv
<1> SUFFICES ASSUME Next PROVE KnowsInv'
  BY DEF workerVars
<1>1. ASSUME NEW c \in Calls, ReceiveDeploy(c) PROVE KnowsInv'
  BY <1>1 DEF ReceiveDeploy, Refuse, Finish, Arrive
<1>2. ASSUME NEW c \in Calls, ReceiveRegister(c) PROVE KnowsInv'
  BY <1>2 DEF ReceiveRegister, Refuse, Finish, Arrive
<1>3. ASSUME NEW c \in Calls, ReceiveStart(c) PROVE KnowsInv'
  <2>1. CASE dir[Inst(c)] # "ready" /\ Refuse(c)
    BY <1>3, <2>1 DEF ReceiveStart, Refuse, Finish, Arrive, IsRunning
  <2>2. CASE dir[Inst(c)] # "none" /\ IsRunning(Inst(c)) /\ Finish(c, "running", pidFile[Inst(c)])
    BY <1>3, <2>2 DEF ReceiveStart, Refuse, Finish, Arrive, IsRunning
  <2>3. CASE dir[Inst(c)] # "none" /\ ~IsRunning(Inst(c)) /\ Goto(c, "spawn")
             /\ UNCHANGED <<answer, reports, pid>>
    <3> SUFFICES ASSUME NEW d \in Calls, pc'[d] \in Working,
                        Inst(d) \in Packaged, Inst(d) \notin overlap'
                 PROVE  KnowsInv!(d)'
      BY <1>3 DEF ReceiveStart
    <3>1. Inst(d) \notin overlap /\ dir' = dir /\ pidFile' = pidFile /\ live' = live /\ pid' = pid
      BY <1>3, <2>3 DEF ReceiveStart, Arrive
    <3>2. CASE d = c
      <4>1. Active(Inst(c)) = {}
        BY <1>3, <3>2 DEF ReceiveStart, Arrive
      <4>2. \A p \in Procs(Inst(c)) : pidFile[Inst(c)] = p
        BY <3>1, <3>2, <4>1
      <4>3. Procs(Inst(c)) = {}
        BY <2>3, <4>2 DEF IsRunning, NoPid
      <4> QED BY <1>3, <2>3, <3>1, <3>2, <4>3 DEF ReceiveStart
    <3>3. CASE d # c
      BY <1>3, <2>3, <3>1, <3>3 DEF ReceiveStart
    <3> QED BY <3>2, <3>3
  <2> QED BY <1>3, <2>1, <2>2, <2>3 DEF ReceiveStart
<1>4. ASSUME NEW c \in Calls, ReceiveStop(c) PROVE KnowsInv'
  BY <1>4 DEF ReceiveStop, Refuse, Finish, Arrive
<1>5. ASSUME NEW c \in Calls, Announce(c) PROVE KnowsInv'
  BY <1>5 DEF Announce, Refuse, Finish, Arrive
<1>6. ASSUME NEW c \in Calls, Announced(c) PROVE KnowsInv'
  BY <1>6 DEF Announced, Refuse, Finish, Arrive
<1>7. ASSUME NEW c \in Calls, Fetch(c) PROVE KnowsInv'
  BY <1>7 DEF Fetch, Refuse, Finish, Arrive
<1>8. ASSUME NEW c \in Calls, Unpack(c) PROVE KnowsInv'
  BY <1>8 DEF Unpack, Refuse, Finish, Arrive
<1>9. ASSUME NEW c \in Calls, Spawn(c) PROVE KnowsInv'
  BY <1>9 DEF Spawn, Refuse, Finish, Arrive
<1>10. ASSUME NEW c \in Calls, Match(c) PROVE KnowsInv'
  BY <1>10 DEF Match, Refuse, Finish, Arrive
<1>11. ASSUME NEW c \in Calls, WritePid(c) PROVE KnowsInv'
  BY <1>11 DEF WritePid, Refuse, Finish, Arrive
<1>12. ASSUME NEW c \in Calls, ReadPid(c) PROVE KnowsInv'
  BY <1>12 DEF ReadPid, Refuse, Finish, Arrive
<1>13. ASSUME NEW c \in Calls, Kill(c) PROVE KnowsInv'
  <2>1. \A i \in Instances : Procs(i)' \subseteq Procs(i)
    BY <1>13 DEF Kill
  <2>2. pid[c] # NoPid => live'[pid[c]] = "free"
    BY <1>13 DEF Kill
  <2>3. \A d \in Calls \ {c} : pc'[d] = pc[d]
    BY <1>13 DEF Kill
  <2> SUFFICES ASSUME NEW d \in Calls, pc'[d] \in Working,
                      Inst(d) \in Packaged, Inst(d) \notin overlap
               PROVE  KnowsInv!(d)'
    BY <1>13 DEF Kill
  <2>4. CASE d = c
    <3>1. \A p \in Procs(Inst(c)) : pid[c] = p
      BY <1>13, <2>4 DEF Kill
    <3>2. Procs(Inst(c))' = {}
      <4> SUFFICES ASSUME NEW p \in Pids, live'[p] = Inst(c) PROVE FALSE
        BY <1>13 DEF Kill
      <4>1. p \in Procs(Inst(c))
        BY <1>13 DEF Kill
      <4>2. pid[c] = p
        BY <3>1, <4>1
      <4> QED BY <2>2, <4>2 DEF NoPid
    <3> QED BY <1>13, <2>4, <3>2 DEF Kill
  <2>5. CASE d # c
    BY <1>13, <2>1, <2>3, <2>5 DEF Kill
  <2> QED BY <2>4, <2>5
<1>14. ASSUME NEW c \in Calls, RmPid(c) PROVE KnowsInv'
  BY <1>14 DEF RmPid, Refuse, Finish, Arrive
<1>15. ASSUME NEW c \in Calls, RmDir(c) PROVE KnowsInv'
  BY <1>15 DEF RmDir, Refuse, Finish, Arrive
<1>16. ASSUME NEW c \in Calls, Reported(c) PROVE KnowsInv'
  BY <1>16 DEF Reported, Refuse, Finish, Arrive
<1>17. ASSUME NEW c \in Calls, Undelivered(c) PROVE KnowsInv'
  BY <1>17 DEF Undelivered, Refuse, Finish, Arrive
<1>18. ASSUME NEW r \in reports, GiveUp(r) PROVE KnowsInv'
  BY <1>18 DEF GiveUp
<1>19. ASSUME NEW i \in Instances, Examine(i) PROVE KnowsInv'
  BY <1>19 DEF Examine
<1>20. CASE Check
  BY <1>20 DEF Check
<1>21. CASE Checked
  BY <1>21 DEF Checked
<1>22. ASSUME NEW p \in Pids, Exit(p) \/ Other(p) PROVE KnowsInv'
  BY <1>22 DEF Exit, Other
<1>23. CASE Crash
  BY <1>23 DEF Crash
<1>24. ASSUME NEW c \in Calls, Client(c) PROVE KnowsInv'
  BY <1>24 DEF Client, Issue
<1>25. ASSUME NEW r \in reports, Taken(r) PROVE KnowsInv'
  BY <1>25 DEF Taken
<1> QED
  BY <1>1, <1>2, <1>3, <1>4, <1>5, <1>6, <1>7, <1>8, <1>9, <1>10, <1>11, <1>12, <1>13,
     <1>14, <1>15, <1>16, <1>17, <1>18, <1>19, <1>20, <1>21, <1>22, <1>23, <1>24, <1>25
  DEF Next, WorkerNext, Handler

\* When the last handler leaves, the pid file is right.
LEMMA TrackedStep == ASSUME IInv, [Next]_workerVars PROVE Tracked'
<1> USE ExecutorAssumption DEF IInv, TypeOK, Inst, Goto, Working, KnowsInv, AloneInv, Procs,
            Packaged, Active, Tracked, FreshInv, Untouched, LabelInv
<1> SUFFICES ASSUME Next PROVE Tracked'
  BY DEF workerVars
<1>1. ASSUME NEW c \in Calls, ReceiveDeploy(c) PROVE Tracked'
  BY <1>1 DEF ReceiveDeploy, Refuse, Finish, Arrive
<1>2. ASSUME NEW c \in Calls, ReceiveRegister(c) PROVE Tracked'
  BY <1>2 DEF ReceiveRegister, Refuse, Finish, Arrive
<1>3. ASSUME NEW c \in Calls, ReceiveStart(c) PROVE Tracked'
  BY <1>3 DEF ReceiveStart, Refuse, Finish, Arrive
<1>4. ASSUME NEW c \in Calls, ReceiveStop(c) PROVE Tracked'
  <2>1. CASE Refuse(c)
    BY <1>4, <2>1 DEF ReceiveStop, Refuse, Arrive
  <2>2. CASE Finish(c, "destroyed", NoPid)
    BY <1>4, <2>2 DEF ReceiveStop, Finish, Arrive
  <2>3. CASE Goto(c, "readpid")
    BY <1>4, <2>3 DEF ReceiveStop, Arrive
  <2> QED BY <1>4, <2>1, <2>2, <2>3 DEF ReceiveStop
<1>5. ASSUME NEW c \in Calls, Announce(c) PROVE Tracked'
  BY <1>5 DEF Announce, Refuse, Finish, Arrive
<1>6. ASSUME NEW c \in Calls, Announced(c) PROVE Tracked'
  BY <1>6 DEF Announced, Refuse, Finish, Arrive
<1>7. ASSUME NEW c \in Calls, Fetch(c) PROVE Tracked'
  <2>1. CASE Finish(c, "error", NoPid) /\ UNCHANGED <<dir, pidFile>>
    BY <1>7, <2>1 DEF Fetch, Refuse, Finish, Arrive, IsRunning
  <2>2. CASE /\ dir'     = [dir EXCEPT ![Inst(c)] = "partial"]
             /\ pidFile' = [pidFile EXCEPT ![Inst(c)] = NoPid]
             /\ Goto(c, "unpack")
             /\ UNCHANGED <<answer, reports, pid>>
    BY <1>7, <2>2 DEF Fetch, Refuse, Finish, Arrive, IsRunning
  <2> QED BY <1>7, <2>1, <2>2 DEF Fetch
<1>8. ASSUME NEW c \in Calls, Unpack(c) PROVE Tracked'
  BY <1>8 DEF Unpack, Refuse, Finish, Arrive
<1>9. ASSUME NEW c \in Calls, Spawn(c) PROVE Tracked'
  <2>1. CASE Refuse(c) /\ UNCHANGED live
    BY <1>9, <2>1 DEF Spawn, Refuse
  <2>2. ASSUME NEW p \in Pids, live' = [live EXCEPT ![p] = Inst(c)],
               Goto(c, "match") \/ Goto(c, "writepid")
        PROVE  Tracked'
    <3>1. \A i \in Instances : i # Inst(c) => Procs(i)' \subseteq Procs(i)
      BY <1>9, <2>2 DEF Spawn
    <3>2. c \in Active(Inst(c))'
      BY <1>9, <2>2 DEF Spawn
    <3>3. \A i \in Instances : i # Inst(c) /\ Active(i)' = {} => Active(i) = {}
      BY <1>9, <2>2 DEF Spawn
    <3> QED BY <1>9, <3>1, <3>2, <3>3 DEF Spawn
  <2> QED BY <1>9, <2>1, <2>2 DEF Spawn
<1>10. ASSUME NEW c \in Calls, Match(c) PROVE Tracked'
  BY <1>10 DEF Match, Refuse, Finish, Arrive
<1>11. ASSUME NEW c \in Calls, WritePid(c) PROVE Tracked'
  BY <1>11 DEF WritePid, Refuse, Finish, Arrive
<1>12. ASSUME NEW c \in Calls, ReadPid(c) PROVE Tracked'
  BY <1>12 DEF ReadPid, Refuse, Finish, Arrive
<1>13. ASSUME NEW c \in Calls, Kill(c) PROVE Tracked'
  BY <1>13 DEF Kill, Refuse, Finish, Arrive
<1>14. ASSUME NEW c \in Calls, RmPid(c) PROVE Tracked'
  BY <1>14 DEF RmPid, Refuse, Finish, Arrive
<1>15. ASSUME NEW c \in Calls, RmDir(c) PROVE Tracked'
  <2>1. CASE /\ dir'     = [dir EXCEPT ![Inst(c)] = "none"]
             /\ pidFile' = [pidFile EXCEPT ![Inst(c)] = NoPid]
             /\ Finish(c, "destroyed", NoPid)
    BY <1>15, <2>1 DEF RmDir, Refuse, Finish, Arrive, IsRunning
  <2>2. CASE /\ dir[Inst(c)] # "none"
             /\ dir' = [dir EXCEPT ![Inst(c)] = "partial"]
             /\ Refuse(c)
             /\ UNCHANGED pidFile
    BY <1>15, <2>2 DEF RmDir, Refuse, Finish, Arrive, IsRunning
  <2> QED BY <1>15, <2>1, <2>2 DEF RmDir
<1>16. ASSUME NEW c \in Calls, Reported(c) PROVE Tracked'
  BY <1>16 DEF Reported, Refuse, Finish, Arrive
<1>17. ASSUME NEW c \in Calls, Undelivered(c) PROVE Tracked'
  BY <1>17 DEF Undelivered, Refuse, Finish, Arrive
<1>18. ASSUME NEW r \in reports, GiveUp(r) PROVE Tracked'
  BY <1>18 DEF GiveUp
<1>19. ASSUME NEW i \in Instances, Examine(i) PROVE Tracked'
  BY <1>19 DEF Examine
<1>20. CASE Check
  BY <1>20 DEF Check
<1>21. CASE Checked
  BY <1>21 DEF Checked
<1>22. ASSUME NEW p \in Pids, Exit(p) \/ Other(p) PROVE Tracked'
  BY <1>22 DEF Exit, Other
<1>23. CASE Crash
  BY <1>23 DEF Crash
<1>24. ASSUME NEW c \in Calls, Client(c) PROVE Tracked'
  BY <1>24 DEF Client, Issue
<1>25. ASSUME NEW r \in reports, Taken(r) PROVE Tracked'
  BY <1>25 DEF Taken
<1> QED
  BY <1>1, <1>2, <1>3, <1>4, <1>5, <1>6, <1>7, <1>8, <1>9, <1>10, <1>11, <1>12, <1>13,
     <1>14, <1>15, <1>16, <1>17, <1>18, <1>19, <1>20, <1>21, <1>22, <1>23, <1>24, <1>25
  DEF Next, WorkerNext, Handler

-----------------------------------------------------------------------------
\* A worker that was asked nothing satisfies the invariant.
LEMMA InitIInv == InitWorker => IInv
<1> SUFFICES ASSUME InitWorker PROVE IInv
  OBVIOUS
<1>1. PICK i \in Instances : call = [c \in Calls |-> [op |-> "stop", inst |-> i]]
  BY DEF InitWorker
<1>2. TypeOK
  BY <1>1 DEF InitWorker, TypeOK, Working, Ops, Report
<1>3. \A c \in Calls : pc[c] = "unused"
  BY DEF InitWorker
<1>4. \A j \in Instances : Untouched(j) /\ pidFile[j] = NoPid
  BY ExecutorAssumption DEF InitWorker, Untouched, Procs
<1>5. FreshInv /\ LabelInv /\ StartInv /\ AloneInv /\ KnowsInv
  BY <1>3, <1>4 DEF FreshInv, LabelInv, StartInv, AloneInv, KnowsInv, Working, Packaged
<1>6. FileInv /\ Tracked
  BY <1>4 DEF FileInv, Tracked, Untouched, Packaged
<1> QED BY <1>2, <1>5, <1>6 DEF IInv

\* Every step of the worker and its client keeps the inductive invariant.
LEMMA NextIInv == ASSUME IInv, [Next]_workerVars PROVE IInv'
BY TypeStep, FileStep, LabelStep, StartStep, AloneStep, FreshStep, KnowsStep, TrackedStep DEF IInv

\* The inductive invariant of the worker.
THEOREM Inductive == Spec => []IInv
<1>1. IInv /\ [Next]_workerVars => IInv'
  BY NextIInv
<1> QED BY InitIInv, <1>1, PTL DEF Spec

\* Every variable of the worker keeps its type.
THEOREM TypeCorrect == Spec => []TypeOK
<1>1. IInv => TypeOK
  BY DEF IInv
<1> QED BY Inductive, <1>1, PTL

\* No process of an instance is lost from view (StartProcess, StopProcess).
THEOREM NothingLost == Spec => []Tracked
<1>1. IInv => Tracked
  BY DEF IInv
<1> QED BY Inductive, <1>1, PTL

\* A lone handler knows where the process is, and the pid file names it when
\* there is none: where there is no directory there is no process.
LEMMA FilesHold == IInv => NoProcessWithoutFiles
<1> SUFFICES ASSUME IInv, NEW i \in Packaged \ overlap, dir[i] = "none",
                    NEW p \in Procs(i)
             PROVE  FALSE
  BY DEF NoProcessWithoutFiles
<1>1. pidFile[i] = NoPid /\ p # NoPid
  BY ExecutorAssumption DEF IInv, FileInv, Packaged, Procs, NoPid
<1>2. CASE Active(i) = {}
  BY <1>1, <1>2 DEF IInv, Tracked
<1>3. CASE Active(i) # {}
  <2>1. PICK c \in Active(i) : TRUE
    BY <1>3
  <2>2. /\ pc[c] \in Working /\ Inst(c) = i
        /\ pc[c] # "match"
    BY <2>1 DEF Active, IInv, LabelInv, Packaged
  <2>3. /\ pc[c] = "readpid" => \A q \in Procs(i) : pidFile[i] = q
        /\ pc[c] \notin {"readpid", "kill", "writepid"} => Procs(i) = {}
        /\ pc[c] \in {"kill", "writepid"} => dir[i] # "none"
    BY <2>1, <2>2 DEF IInv, KnowsInv, Working, Active
  <2> QED BY <1>1, <2>3
<1> QED BY <1>2, <1>3

\* No process outlives the removal of its directory (HandleAction, destroy).
THEOREM NoOrphans == Spec => []NoProcessWithoutFiles
BY Inductive, FilesHold, PTL

\* A stop or destroy that succeeds alone leaves no process (StopProcess).
THEOREM StopsForGood == Spec => StopStops
<1> DEFINE A == \A c \in Calls :
                  /\ call[c].op \in {"stop", "destroy"}
                  /\ pc[c] \in {"rmpid", "rmdir"} /\ pc'[c] = "reporting"
                  /\ Inst(c) \in Packaged \ overlap
                  => Procs(Inst(c))' = {}
<1>1. ASSUME IInv, [Next]_workerVars PROVE [A]_workerVars
  <2> SUFFICES ASSUME NEW c \in Calls, pc[c] \in {"rmpid", "rmdir"}, pc'[c] = "reporting",
                      Inst(c) \in Packaged \ overlap
               PROVE  Procs(Inst(c))' = {}
    BY DEF workerVars
  <2>1. Procs(Inst(c)) = {}
    BY <1>1 DEF IInv, KnowsInv, Working
  <2>2. RmPid(c) \/ RmDir(c)
    <3>1. ASSUME NEW d \in Calls, Handler(d) PROVE pc'[c] = pc[c] \/ d = c
      BY <1>1, <3>1
      DEF IInv, TypeOK, Goto, Refuse, Finish, Handler, ReceiveDeploy, ReceiveRegister, ReceiveStart,
          ReceiveStop, Announce, Announced, Fetch, Unpack, Spawn, Match, WritePid, ReadPid, Kill,
          RmPid, RmDir, Reported
    <3>2. CASE Handler(c)
      BY <3>2 DEF Handler, ReceiveDeploy, ReceiveRegister, ReceiveStart, ReceiveStop, Announce,
                  Announced, Fetch, Unpack, Spawn, Match, WritePid, ReadPid, Kill, Reported
    <3>3. ASSUME NEW d \in Calls, Undelivered(d) \/ Client(d) PROVE pc'[c] # "reporting"
      BY <1>1, <3>3 DEF IInv, TypeOK, Goto, Undelivered, Client, Issue
    <3>4. CASE Crash
      BY <3>4 DEF Crash, Working
    <3>5. CASE UNCHANGED pc
      BY <3>5
    <3> QED
      BY <1>1, <3>1, <3>2, <3>3, <3>4, <3>5
      DEF Next, WorkerNext, workerVars, GiveUp, Examine, Check, Checked, Exit, Other, Taken
  <2>3. live' = live /\ call' = call
    BY <2>2 DEF RmPid, RmDir
  <2> QED BY <2>1, <2>3 DEF Procs, Inst
<1> QED BY Inductive, <1>1, PTL DEF Spec, StopStops

-----------------------------------------------------------------------------
(***************************************************************************)
(* The worker kills its own, if pids are not reused                        *)
(***************************************************************************)

\* While a pid file or a handler names a pid, that pid belongs to nobody or fits
\* the instance; a handler that is not at work names none.
OwnInv ==
    /\ \A i \in Instances : pidFile[i] # NoPid => live[pidFile[i]] \in Fits(i) \cup {"free"}
    /\ \A c \in Calls :
          pid[c] # NoPid => pc[c] \in Working /\ live[pid[c]] \in Fits(Inst(c)) \cup {"free"}

\* A step that names no new pid and gives no pid to anybody keeps it.
LEMMA OwnKept ==
    ASSUME TypeOK, OwnInv,
           \A p \in Pids : live'[p] \in {live[p], "free"},
           \A i \in Instances : pidFile'[i] \in {pidFile[i], NoPid},
           \A c \in Calls : /\ pid'[c] \in {pid[c], NoPid}
                            /\ pid'[c] # NoPid => call'[c] = call[c] /\ pc'[c] \in Working
    PROVE  OwnInv'
<1>1. ASSUME NEW i \in Instances, pidFile'[i] # NoPid 
      PROVE  live'[pidFile'[i]] \in Fits(i) \cup {"free"}
  BY <1>1 DEF OwnInv, TypeOK
<1>2. ASSUME NEW c \in Calls, pid'[c] # NoPid
      PROVE  pc'[c] \in Working /\ live'[pid'[c]] \in Fits(Inst(c)') \cup {"free"}
  BY <1>2 DEF OwnInv, TypeOK, Inst
<1> QED BY <1>1, <1>2 DEF OwnInv

\* The kernel hands out a pid that nothing names, to whomever.
LEMMA OwnGiven ==
    ASSUME TypeOK, OwnInv, ~PidReuse, NEW p \in Pids, NEW o, live[p] = "free",
           \A i \in Instances : pidFile[i] # p,
           \A c \in Calls : pc[c] \in Working => pid[c] # p,
           live' = [live EXCEPT ![p] = o]
    PROVE  /\ \A i \in Instances : pidFile[i] # NoPid => live'[pidFile[i]] \in Fits(i) \cup {"free"}
           /\ \A c \in Calls : pid[c] # NoPid => live'[pid[c]] \in Fits(Inst(c)) \cup {"free"}
BY DEF OwnInv, TypeOK

\* Every step keeps it: Spawn and Other take a free pid that nothing names,
\* Match one that fits, and the pid file passes on what it says.
LEMMA OwnStep == ASSUME TypeOK, OwnInv, ~PidReuse, [Next]_workerVars PROVE OwnInv'
<1> USE DEF TypeOK, Goto
<1> SUFFICES ASSUME Next PROVE OwnInv'
  BY DEF workerVars, OwnInv, Inst
<1>1. ASSUME NEW c \in Calls,
             \/ ReceiveDeploy(c) \/ ReceiveRegister(c) \/ ReceiveStart(c) \/ ReceiveStop(c)
             \/ Announce(c) \/ Announced(c) \/ Fetch(c) \/ Unpack(c) \/ Kill(c) \/ RmPid(c)
             \/ RmDir(c) \/ Reported(c) \/ Undelivered(c)
      PROVE  OwnInv'
  <2>1. call' = call
    BY <1>1 DEF ReceiveDeploy, ReceiveRegister, ReceiveStart, ReceiveStop, Announce, Announced,
       Fetch, Unpack, Kill, RmPid, RmDir, Reported, Undelivered
  <2>2. \A p \in Pids : live'[p] \in {live[p], "free"}
    BY <1>1 DEF ReceiveDeploy, ReceiveRegister, ReceiveStart, ReceiveStop, Announce, Announced,
       Fetch, Unpack, Kill, RmPid, RmDir, Reported, Undelivered
  <2>3. \A i \in Instances : pidFile'[i] \in {pidFile[i], NoPid}
    BY <1>1 DEF ReceiveDeploy, ReceiveRegister, ReceiveStart, ReceiveStop, Announce, Announced,
       Fetch, Unpack, Kill, RmPid, RmDir, Reported, Undelivered
  <2>4. \A d \in Calls : d # c => pid'[d] = pid[d] /\ pc'[d] = pc[d]
    BY <1>1 DEF ReceiveDeploy, ReceiveRegister, ReceiveStart, ReceiveStop, Announce, Announced,
       Fetch, Unpack, Kill, RmPid, RmDir, Reported, Undelivered, Refuse, Finish
  <2>5. \/ pid'[c] = NoPid
        \/ pid'[c] = pid[c] /\ (pc'[c] \in Working \/ pc[c] \notin Working)
    BY <1>1 DEF ReceiveDeploy, ReceiveRegister, ReceiveStart, ReceiveStop, Announce, Announced,
       Fetch, Unpack, Kill, RmPid, RmDir, Reported, Undelivered, Refuse, Finish, Working
  <2>6. \A d \in Calls : /\ pid'[d] \in {pid[d], NoPid}
                         /\ pid'[d] # NoPid => pc'[d] \in Working
    BY <2>4, <2>5 DEF OwnInv
  <2> QED BY <2>1, <2>2, <2>3, <2>6, OwnKept
<1>2. ASSUME NEW c \in Calls, Spawn(c) PROVE OwnInv'
  <2>1. CASE Refuse(c) /\ UNCHANGED live
    BY <1>2, <2>1, OwnKept DEF Spawn, Refuse, OwnInv
  <2>2. ASSUME NEW p \in Pids, Free(p), live' = [live EXCEPT ![p] = Inst(c)],
               pid' = [pid EXCEPT ![c] = IF Inst(c) \in Matched THEN NoPid ELSE p],
               Goto(c, IF Inst(c) \in Matched THEN "match" ELSE "writepid")
        PROVE  OwnInv'
    <3>1. pidFile' = pidFile /\ call' = call
      BY <1>2 DEF Spawn
    <3>2. /\ \A i \in Instances : pidFile[i] # NoPid => live'[pidFile[i]] \in Fits(i) \cup {"free"}
          /\ \A d \in Calls : pid[d] # NoPid => live'[pid[d]] \in Fits(Inst(d)) \cup {"free"}
      BY <2>2, OwnGiven DEF Free
    <3>3. ASSUME NEW d \in Calls, pid'[d] # NoPid
          PROVE  pc'[d] \in Working /\ live'[pid'[d]] \in Fits(Inst(d)) \cup {"free"}
      <4>1. CASE d = c
        BY <2>2, <3>3, <4>1 DEF Working, Fits
      <4>2. CASE d # c
        BY <2>2, <3>2, <3>3, <4>2 DEF OwnInv
      <4> QED BY <4>1, <4>2
    <3> QED BY <3>1, <3>2, <3>3 DEF OwnInv, Inst
  <2> QED BY <1>2, <2>1, <2>2 DEF Spawn
<1>3. ASSUME NEW c \in Calls, Match(c) PROVE OwnInv'
  <2>1. CASE Refuse(c)
    BY <1>3, <2>1, OwnKept DEF Match, Refuse, OwnInv
  <2>2. ASSUME NEW p \in Pids, live[p] \in Fits(Inst(c)), pid' = [pid EXCEPT ![c] = p],
               Goto(c, "writepid")
        PROVE  OwnInv'
    BY <1>3, <2>2 DEF Match, OwnInv, Inst, Working
  <2> QED BY <1>3, <2>1, <2>2 DEF Match
<1>4. ASSUME NEW c \in Calls, WritePid(c) PROVE OwnInv'
  <2>1. live' = live /\ call' = call
    BY <1>4 DEF WritePid
  <2>2. \A i \in Instances : pidFile'[i] \in {pidFile[i]} \/ (i = Inst(c) /\ pidFile'[i] = pid[c])
    BY <1>4 DEF WritePid, Inst
  <2>3. /\ pid'[c] = NoPid
        /\ \A d \in Calls : d # c => pid'[d] = pid[d] /\ pc'[d] = pc[d]
    BY <1>4 DEF WritePid, Finish
  <2> QED BY <2>1, <2>2, <2>3 DEF OwnInv, Inst
<1>5. ASSUME NEW c \in Calls, ReadPid(c) PROVE OwnInv'
  BY <1>5 DEF ReadPid, OwnInv, Inst, Working
<1>6. ASSUME NEW c \in Calls, Client(c) PROVE OwnInv'
  <2>1. pc[c] = "unused" /\ pid' = pid /\ live' = live /\ pidFile' = pidFile
    BY <1>6 DEF Client, Issue
  <2>2. \A d \in Calls : d # c => call'[d] = call[d] /\ pc'[d] = pc[d]
    BY <1>6 DEF Client, Issue
  <2>3. pid[c] = NoPid
    BY <2>1 DEF OwnInv, Working
  <2> QED BY <2>1, <2>2, <2>3 DEF OwnInv, Inst
<1>7. ASSUME UNCHANGED <<call, pc, pid, pidFile>>, \A p \in Pids : live'[p] \in {live[p], "free"}
      PROVE  OwnInv'
  BY <1>7, OwnKept DEF OwnInv
<1>8. ASSUME NEW p \in Pids, Exit(p) PROVE OwnInv'
  BY <1>7, <1>8 DEF Exit
<1>9. ASSUME NEW p \in Pids, Other(p) PROVE OwnInv'
  <2>1. UNCHANGED <<call, pc, pid, pidFile>>
    BY <1>9 DEF Other
  <2>2. /\ \A i \in Instances : pidFile[i] # NoPid => live'[pidFile[i]] \in Fits(i) \cup {"free"}
        /\ \A d \in Calls : pid[d] # NoPid => live'[pid[d]] \in Fits(Inst(d)) \cup {"free"}
    BY <1>9, OwnGiven DEF Other, Free
  <2> QED BY <2>1, <2>2 DEF OwnInv, Inst
<1>10. CASE Crash
  BY <1>10, OwnKept DEF Crash
<1> QED
  BY <1>1, <1>2, <1>3, <1>4, <1>5, <1>6, <1>7, <1>8, <1>9, <1>10
  DEF Next, WorkerNext, Handler, GiveUp, Examine, Check, Checked, Taken

\* As long as the kernel does not reuse a pid that a pid file or a handler still
\* names, a stop kills a process of its own instance or none, but for a service
\* whose process is looked up by name and directory: then one that fits them,
\* whoever started it (StopProcess, findProcessPID).
THEOREM KillsWhatFits == ASSUME PidReuse = FALSE PROVE Spec => []KillsFitting
<1>1. InitWorker => OwnInv
  BY DEF InitWorker, OwnInv
<1>2. IInv /\ OwnInv /\ [Next]_workerVars => OwnInv'
  BY OwnStep DEF IInv
<1>3. OwnInv => KillsFitting
  BY DEF OwnInv, KillsFitting
<1> QED BY Inductive, <1>1, <1>2, <1>3, PTL DEF Spec

-----------------------------------------------------------------------------
(***************************************************************************)
(* The worker implements Supervisor: every step of a handler, of the       *)
(* monitor, of the machine or of a crash is a step of the promise, or      *)
(* changes nothing it speaks about.                                        *)
(***************************************************************************)

Standings == [i \in Packaged |-> Standing(i)]

\* A lone packaged instance has at most one process, and has files if it has one.
LEMMA AtMostOne ==
    ASSUME IInv, NEW i \in Packaged, i \notin overlap
    PROVE  /\ \A p, q \in Procs(i) : p = q
           /\ Procs(i) # {} => dir[i] # "none"
<1>1. CASE Active(i) = {}
  <2>1. \A p \in Procs(i) : pidFile[i] = p /\ p # NoPid
    BY <1>1, ExecutorAssumption DEF IInv, Tracked, Procs, NoPid
  <2> QED BY <2>1 DEF IInv, FileInv, Packaged
<1>2. CASE Active(i) # {}
  <2>1. PICK c \in Active(i) : TRUE
    BY <1>2
  <2>2. c \in Calls /\ pc[c] \in Working /\ Inst(c) = i /\ pc[c] # "match"
    BY <2>1 DEF Active, IInv, LabelInv, Packaged
  <2>3. \/ Procs(i) = {}
        \/ dir[i] # "none" /\ \A p \in Procs(i) : pidFile[i] = p
        \/ dir[i] # "none" /\ \A p \in Procs(i) : pid[c] = p
    BY <2>2 DEF IInv, KnowsInv, Working
  <2> QED BY <2>3
<1> QED BY <1>1, <1>2

\* The four standings, without the case that IInv rules out.
Stand(i) ==
    IF i \in overlap THEN "unknown"
    ELSE IF Procs(i) # {} THEN "up" ELSE IF dir[i] = "none" THEN "absent" ELSE "down"

Described == \A i \in Packaged : Standing(i) = Stand(i)

\* The invariant leaves an instance no other standing.
LEMMA StandingIs == IInv => Described
<1> SUFFICES ASSUME IInv, NEW i \in Packaged PROVE Standing(i) = Stand(i)
  BY DEF Described
<1>1. i \notin overlap /\ Procs(i) # {} => dir[i] # "none" /\ \E p \in Pids : Procs(i) = {p}
  <2> SUFFICES ASSUME i \notin overlap, Procs(i) # {}
               PROVE  dir[i] # "none" /\ \E p \in Pids : Procs(i) = {p}
    OBVIOUS
  <2>1. PICK p \in Procs(i) : TRUE
    OBVIOUS
  <2>2. Procs(i) = {p} /\ p \in Pids
    BY <2>1, AtMostOne DEF Procs
  <2> QED BY <2>2, AtMostOne
<1> QED BY <1>1 DEF Standing, Stand

-----------------------------------------------------------------------------
Allowed == {<<"absent", "down">>, <<"down", "up">>, <<"up", "down">>, <<"down", "absent">>}

\* A step that moves at most one instance, and by a move of Supervisor or into
\* the unknown, is a step of Supervisor.
LEMMA OneMoves ==
    ASSUME Described, Described', NEW s \in Packaged,
           \A i \in Packaged : i # s => Stand(i)' = Stand(i),
           <<Stand(s), Stand(s)'>> \in Allowed \/ Stand(s)' \in {Stand(s), "unknown"}
    PROVE  [Promise!Next]_Standings
<1>1. \A i \in Packaged : Standings[i] = Stand(i) /\ Standings'[i] = Stand(i)'
  BY DEF Described, Standings, Packaged
<1>2. Standings' = [i \in Packaged |-> Standings'[i]] /\ Standings = [i \in Packaged |-> Standings[i]]
  BY DEF Standings, Packaged
<1>3. Standings' = [Standings EXCEPT ![s] = Stand(s)']
  BY <1>1, <1>2
<1>4. CASE Stand(s)' = Stand(s)
  BY <1>1, <1>2, <1>4
<1>5. CASE Stand(s)' = "unknown"
  <2>1. Standings' = [i \in Packaged |-> IF i \in {s} THEN "unknown" ELSE Standings[i]]
    BY <1>2, <1>3, <1>5
  <2>2. Promise!Forget({s})
    BY <2>1 DEF Promise!Forget, Standings
  <2> QED BY <2>2 DEF Promise!Next
<1>6. CASE <<Stand(s), Stand(s)'>> \in Allowed
  <2>1. Promise!Install(s) \/ Promise!Start(s) \/ Promise!End(s) \/ Promise!Remove(s)
    BY <1>1, <1>3, <1>6
    DEF Allowed, Standings, Promise!Install, Promise!Start, Promise!End, Promise!Remove, Promise!Become
  <2> QED BY <2>1 DEF Promise!Next
<1> QED BY <1>4, <1>5, <1>6

\* A step that moves nobody is a stutter.
LEMMA NoneMoves ==
    ASSUME Described, Described', \A i \in Packaged : Stand(i)' = Stand(i)
    PROVE  [Promise!Next]_Standings
<1>1. Packaged' = Packaged
  BY DEF Packaged
<1> QED BY <1>1 DEF Described, Standings

-----------------------------------------------------------------------------
\* The steps that leave directories, processes and the overlap alone.
LEMMA Quiet ==
    ASSUME Described, Described', UNCHANGED <<dir, live, overlap>>
    PROVE  [Promise!Next]_Standings
<1>1. \A i \in Packaged : Procs(i)' = Procs(i)
  BY DEF Procs
<1> QED BY <1>1, NoneMoves DEF Stand

\* The arrival of a request, which may put its instance among the unknown.
LEMMA Arrival ==
    ASSUME Described, Described', NEW c \in Calls, Arrive(c), UNCHANGED live,
           \A i \in Packaged : dir'[i] = dir[i]
    PROVE  [Promise!Next]_Standings
<1>1. \A i \in Packaged : Procs(i)' = Procs(i)
  BY DEF Procs
<1>2. \A i \in Packaged :
         /\ i # Inst(c) => (i \in overlap <=> i \in overlap')
         /\ i \in overlap' \/ (i \in overlap' <=> i \in overlap)
  BY DEF Arrive
<1>3. \A i \in Packaged : i # Inst(c) => Stand(i)' = Stand(i)
  BY <1>1, <1>2 DEF Stand
<1>4. CASE Inst(c) \notin Packaged
  BY <1>3, <1>4, NoneMoves
<1>5. ASSUME NEW s \in Packaged, s = Inst(c) PROVE [Promise!Next]_Standings
  <2>1. Stand(s)' \in {Stand(s), "unknown"}
    BY <1>1, <1>2 DEF Stand
  <2> QED BY <1>3, <1>5, <2>1, OneMoves
<1> QED BY <1>4, <1>5

\* The end of a process, by itself or killed by whoever knew its pid.
LEMMA Ending ==
    ASSUME IInv, Described, Described', NEW p \in Pids, live' = [live EXCEPT ![p] = "free"],
           UNCHANGED <<dir, overlap>>
    PROVE  [Promise!Next]_Standings
<1>1. \A i \in Packaged : Procs(i)' = Procs(i) \ {p}
  BY ExecutorAssumption DEF Procs, IInv, TypeOK, Packaged
<1>2. \A i \in Packaged : i # live[p] => Procs(i)' = Procs(i)
  BY <1>1 DEF Procs
<1>3. \A i \in Packaged : i # live[p] => Stand(i)' = Stand(i)
  BY <1>2 DEF Stand
<1>4. CASE live[p] \notin Packaged
  BY <1>3, <1>4, NoneMoves
<1>5. ASSUME NEW s \in Packaged, s = live[p] PROVE [Promise!Next]_Standings
  <2>1. CASE s \in overlap
    <3>1. Stand(s)' = Stand(s)
      BY <2>1 DEF Stand
    <3> QED BY <1>3, <1>5, <3>1, OneMoves
  <2>2. CASE s \notin overlap
    <3>1. p \in Procs(s)
      BY <1>5 DEF Procs
    <3>2. Procs(s) # {} /\ Procs(s)' = {} /\ dir[s] # "none"
      BY <3>1, <2>2, <1>1, AtMostOne
    <3>3. Stand(s) = "up" /\ Stand(s)' = "down"
      BY <2>2, <3>2 DEF Stand
    <3> QED BY <1>3, <1>5, <3>3, OneMoves DEF Allowed
  <2> QED BY <2>1, <2>2
<1> QED BY <1>4, <1>5

\* A step that changes the directory of an idle instance s, and no process.
LEMMA Filing ==
    ASSUME IInv, Described, Described', NEW s \in Instances,
           s \in Packaged \ overlap => Procs(s) = {},
           UNCHANGED <<live, overlap>>, \A i \in Instances : i # s => dir'[i] = dir[i]
    PROVE  [Promise!Next]_Standings
<1>1. \A i \in Packaged : Procs(i)' = Procs(i)
  BY DEF Procs
<1>2. \A i \in Packaged : i # s => Stand(i)' = Stand(i)
  BY <1>1 DEF Stand, Packaged
<1>3. CASE s \notin Packaged
  BY <1>2, <1>3, NoneMoves
<1>4. CASE s \in Packaged
  <2>1. CASE s \in overlap
    BY <1>2, <1>4, <2>1, OneMoves DEF Stand
  <2>2. CASE s \notin overlap
    <3>1. Stand(s) = (IF dir[s] = "none" THEN "absent" ELSE "down")
      BY <1>4, <2>2 DEF Stand
    <3>2. Stand(s)' = (IF dir'[s] = "none" THEN "absent" ELSE "down")
      BY <1>1, <1>4, <2>2 DEF Stand
    <3> QED BY <1>2, <1>4, <3>1, <3>2, OneMoves DEF Allowed
  <2> QED BY <2>1, <2>2
<1> QED BY <1>3, <1>4
\* A process is started, for its instance or by somebody else.
LEMMA Starting ==
    ASSUME IInv, Described, Described', NEW p \in Pids, NEW s \in Instances \cup {Foreign},
           live[p] = "free", live' = [live EXCEPT ![p] = s],
           s \in Packaged \ overlap => Procs(s) = {} /\ dir[s] # "none",
           UNCHANGED <<dir, overlap>>
    PROVE  [Promise!Next]_Standings
<1>1. \A i \in Packaged : i # s => Procs(i)' = Procs(i)
  BY ExecutorAssumption DEF Procs, IInv, TypeOK, Packaged
<1>2. \A i \in Packaged : i # s => Stand(i)' = Stand(i)
  BY <1>1 DEF Stand
<1>3. CASE s \notin Packaged
  BY <1>2, <1>3, NoneMoves
<1>4. CASE s \in Packaged
  <2>1. CASE s \in overlap
    BY <1>2, <1>4, <2>1, OneMoves DEF Stand
  <2>2. CASE s \notin overlap
    <3>1. p \in Procs(s)'
      BY DEF Procs, IInv, TypeOK
    <3>2. Stand(s) = "down" /\ Stand(s)' = "up"
      BY <1>4, <2>2, <3>1 DEF Stand
    <3> QED BY <1>2, <1>4, <3>2, OneMoves DEF Allowed
  <2> QED BY <2>1, <2>2
<1> QED BY <1>3, <1>4

\* The worker restarts.
LEMMA Crashing ==
    ASSUME Described, Described', Crash
    PROVE  [Promise!Next]_Standings
<1> DEFINE T == {i \in Packaged : Active(i) # {} /\ i \notin overlap}
<1>1. \A i \in Packaged : Procs(i)' = Procs(i) /\ dir'[i] = dir[i]
  BY DEF Procs, Crash
<1>2. \A i \in Packaged : i \in overlap' <=> i \in overlap \/ i \in T
  BY DEF Crash, Packaged
<1>3. \A i \in Packaged : Stand(i)' = IF i \in T THEN "unknown" ELSE Stand(i)
  BY <1>1, <1>2 DEF Stand
<1>4. CASE T = {}
  BY <1>3, <1>4, NoneMoves
<1>5. CASE T # {}
  <2>1. Packaged' = Packaged
    BY DEF Packaged
  <2>2. \A i \in Packaged : Standings[i] = Stand(i) /\ Standing(i)' = Stand(i)'
    BY DEF Described, Standings, Packaged
  <2>3. Standings' = [i \in Packaged |-> IF i \in T THEN "unknown" ELSE Standings[i]]
    BY <1>3, <2>1, <2>2 DEF Standings
  <2>4. Promise!Forget(T) /\ T \in SUBSET Packaged
    BY <1>5, <2>3 DEF Promise!Forget, Standings
  <2> QED BY <2>4 DEF Promise!Next
<1> QED BY <1>4, <1>5

\* Every step is a step of Supervisor, or none.
LEMMA RefineStep ==
    ASSUME IInv, Described, Described', [Next]_workerVars
    PROVE  [Promise!Next]_Standings
<1> DEFINE Goal == [Promise!Next]_Standings
<1> HIDE DEF Goal
<1> USE DEF IInv, TypeOK, Inst
<1>1. ASSUME NEW c \in Calls,
             ReceiveDeploy(c) \/ ReceiveStart(c) \/ ReceiveStop(c)
      PROVE  Goal
  BY <1>1, Arrival DEF Goal, ReceiveDeploy, ReceiveStart, ReceiveStop
<1>2. ASSUME NEW c \in Calls, ReceiveRegister(c) PROVE Goal
  <2>1. Inst(c) \in External
    BY <1>2 DEF LabelInv, ReceiveRegister
  <2>2. \A i \in Packaged : dir'[i] = dir[i]
    BY <1>2, <2>1 DEF ReceiveRegister, Packaged
  <2> QED BY <1>2, <2>2, Arrival DEF Goal, ReceiveRegister
<1>3. ASSUME NEW c \in Calls,
             \/ Announce(c) \/ Announced(c) \/ Match(c) \/ WritePid(c) \/ ReadPid(c)
             \/ RmPid(c) \/ Reported(c) \/ Undelivered(c)
      PROVE  Goal
  BY <1>3, Quiet
  DEF Goal, Announce, Announced, Match, WritePid, ReadPid, RmPid, Reported, Undelivered
<1>4. ASSUME NEW c \in Calls, Fetch(c) \/ Unpack(c) \/ RmDir(c) PROVE Goal
  <2>1. pc[c] \in {"fetch", "unpack", "rmdir"}
    BY <1>4 DEF Fetch, Unpack, RmDir
  <2>2. \A s \in Instances : s = Inst(c) /\ s \in Packaged \ overlap => Procs(s) = {}
    BY <2>1 DEF KnowsInv, Working
  <2>3. \A i \in Instances : i # Inst(c) => dir'[i] = dir[i]
    BY <1>4 DEF Fetch, Unpack, RmDir
  <2>4. UNCHANGED <<live, overlap>>
    BY <1>4 DEF Fetch, Unpack, RmDir
  <2> QED BY <2>2, <2>3, <2>4, Filing DEF Goal
<1>5. ASSUME NEW c \in Calls, Spawn(c) PROVE Goal
  <2>1. CASE UNCHANGED live
    BY <1>5, <2>1, Quiet DEF Goal, Spawn
  <2>2. ASSUME NEW p \in Pids, Free(p), live' = [live EXCEPT ![p] = Inst(c)] PROVE Goal
    <3>1. \A s \in Instances :
             s = Inst(c) /\ s \in Packaged \ overlap => Procs(s) = {} /\ dir[s] # "none"
      BY <1>5 DEF KnowsInv, Working, Spawn
    <3>2. UNCHANGED <<dir, overlap>> /\ live[p] = "free"
      BY <1>5, <2>2 DEF Spawn, Free
    <3> QED BY <2>2, <3>1, <3>2, Starting DEF Goal
  <2> QED BY <1>5, <2>1, <2>2 DEF Spawn
<1>6. ASSUME NEW c \in Calls, Kill(c) PROVE Goal
  <2>1. CASE pid[c] = NoPid
    BY <1>6, <2>1, Quiet DEF Goal, Kill
  <2>2. CASE pid[c] # NoPid
    <3>1. \E p \in Pids : live' = [live EXCEPT ![p] = "free"]
      BY <1>6, <2>2 DEF Kill
    <3> QED BY <1>6, <3>1, Ending DEF Goal, Kill
  <2> QED BY <2>1, <2>2
<1>7. ASSUME NEW p \in Pids, Exit(p) PROVE Goal
  BY <1>7, Ending DEF Goal, Exit
<1>8. ASSUME NEW p \in Pids, Other(p) PROVE Goal
  BY <1>8, ExecutorAssumption, Starting DEF Goal, Other, Free, Packaged
<1>9. ASSUME Crash PROVE Goal
  BY <1>9, Crashing DEF Goal
<1>10. ASSUME NEW r \in reports, GiveUp(r) \/ Taken(r) PROVE Goal
  BY <1>10, Quiet DEF Goal, GiveUp, Taken
<1>11. ASSUME NEW i \in Instances, Examine(i) PROVE Goal
  BY <1>11, Quiet DEF Goal, Examine
<1>12. ASSUME Check \/ Checked PROVE Goal
  BY <1>12, Quiet DEF Goal, Check, Checked
<1>13. ASSUME NEW c \in Calls, Client(c) PROVE Goal
  BY <1>13, Quiet DEF Goal, Client
<1>14. ASSUME UNCHANGED workerVars PROVE Goal
  BY <1>14, Quiet DEF Goal, workerVars
<1> HIDE DEF IInv, TypeOK, Inst
<1>15. ASSUME NEW c \in Calls, Handler(c) \/ Undelivered(c) PROVE Goal
  BY <1>1, <1>2, <1>3, <1>4, <1>5, <1>6, <1>15 DEF Handler
<1>16. ASSUME WorkerNext PROVE Goal
  BY <1>7, <1>8, <1>9, <1>10, <1>11, <1>12, <1>15, <1>16 DEF WorkerNext
<1>17. ASSUME Next PROVE Goal
  BY <1>10, <1>13, <1>16, <1>17 DEF Next
<1> QED BY <1>14, <1>17 DEF Goal

\* The worker keeps the promise of module Supervisor.
THEOREM Refinement == Spec => ImplementsPromise
<1>1. InitWorker => Promise!Init
  <2> SUFFICES ASSUME InitWorker PROVE Promise!Init
    OBVIOUS
  <2>1. \A i \in Packaged : i \notin overlap /\ Procs(i) = {} /\ dir[i] = "none"
    BY ExecutorAssumption DEF InitWorker, Procs, Packaged
  <2>2. Described
    BY InitIInv, StandingIs
  <2> QED BY <2>1, <2>2 DEF Promise!Init, Described, Stand
<1>2. IInv => Described
  BY StandingIs
<1>3. IInv /\ Described /\ Described' /\ [Next]_workerVars => [Promise!Next]_Standings
  BY RefineStep
<1> QED BY <1>1, <1>2, <1>3, Inductive, PTL DEF Spec, ImplementsPromise, Promise!Spec, Standings
=============================================================================
